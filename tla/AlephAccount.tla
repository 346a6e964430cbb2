----------------------------- MODULE AlephAccount -----------------------------
(***************************************************************************)
(* An Aleph account and the code that fills and empties it:                *)
(* lib/backends/aleph.js putBlob and pinCid, which send STORE messages,    *)
(* and lib/backends/aleph-pin.js listAlephStores, createAlephForget,       *)
(* waitForMessage and forgetAlephStores, which list them and send FORGETs. *)
(*                                                                         *)
(* The service is what the code expects of it: it lists the STOREs it has  *)
(* processed newest first, page by page, among them some of other owners,  *)
(* and settles what it answered "pending" when it likes.                   *)
(***************************************************************************)
EXTENDS Naturals, FiniteSets

CONSTANTS MaxStores,          \* STOREs are numbered as they are made
          Foreign,            \* the STOREs of other owners that the listing shows as well
          Keep,               \* what keep() spares
          PageSize, Batch,    \* pagination and batch
          Asks,               \* how often waitForMessage asks
          TellsTotal,         \* the answers with and without pagination_total
          Present,            \* STOREs there before the code runs
          MaxAccountFaults

Store == 1..MaxStores
Own   == Store \ Foreign

ASSUME AccountAssumption ==
  /\ MaxStores \in Nat /\ {PageSize, Batch, Asks} \subseteq Nat \ {0}
  /\ Foreign \subseteq Store /\ TellsTotal \subseteq BOOLEAN
  /\ \E n \in 0..MaxStores : Present = 1..n

VARIABLES
  state,        \* the service: Store -> "absent", "pending", "processed" or "forgotten"
  ingestGone,   \* aleph.js: the upload host answered 404 or 405 once
  unpinned,     \* uploads that made no STORE, waiting for pinCid
  toldRetained, \* STOREs whose caller was told `retained: true`
  orders,       \* the service: FORGETs it answered "pending", [of, verdict], by the
                \* targets there were when it was sent
  forgetting,   \* the call of forgetAlephStores: "none", "list", "send", "wait", "done"
  page, all,    \* its listing: each store with the page it was on, <<page, store>>
  buckets,      \* its answer: forgotten, kept, rejected, pending, failed
  targets,      \* what of it it has yet to send
  asks,         \* waitForMessage: asks left
  told,         \* the listing tells the total
  before,       \* own STOREs processed when it began
  calm,         \* nothing was stored, settled or forgotten while it listed, every page
                \* could be read, and none was all foreign
  acctFaults    \* bound

callVars == <<forgetting, page, all, buckets, targets, asks, told, before, calm>>
acctVars == <<state, ingestGone, unpinned, toldRetained, orders, callVars, acctFaults>>

NoBuckets == [b \in {"forgotten", "kept", "rejected", "pending", "failed"} |-> {}]
With(s)   == {x \in Store : state[x] = s}
AcctFault == acctFaults < MaxAccountFaults /\ acctFaults' = acctFaults + 1

AccountInit ==
  /\ state = [x \in Store |-> IF x \in Present THEN "processed" ELSE "absent"]
  /\ ingestGone = FALSE /\ unpinned = 0 /\ toldRetained = {}
  /\ orders = {}
  /\ forgetting = "none" /\ page = 0 /\ all = {} /\ buckets = NoBuckets
  /\ targets = {} /\ asks = 0 /\ before = {} /\ calm = TRUE
  /\ told \in TellsTotal
  /\ acctFaults = 0

-----------------------------------------------------------------------------
(* Uploads. *)

Next1 == Cardinality(Store \ With("absent")) + 1     \* the STORE made next

\* A STORE reaches the service, which answers it processed (200) or pending (202).
Stored(x, answer) ==
  /\ x \in Own
  /\ state' = [state EXCEPT ![x] = answer]
  /\ toldRetained' = IF answer = "processed" THEN toldRetained \cup {x} ELSE toldRetained
  /\ calm' = (calm /\ (forgetting = "list" => answer = "pending"))

\* putBlob: the IPFS host takes the file and nobody keeps it yet; where the host
\* has gone, and from then on, the API takes the file and the signed STORE.
PutBlob ==
  /\ forgetting \in {"none", "list"}
  /\ Next1 \in Own
  /\ \/ /\ ~ingestGone
        /\ unpinned + Next1 <= MaxStores
        /\ unpinned' = unpinned + 1
        /\ UNCHANGED <<state, ingestGone, toldRetained, calm, acctFaults>>
     \/ /\ IF ingestGone THEN UNCHANGED acctFaults ELSE AcctFault
        /\ ingestGone' = TRUE
        /\ \E answer \in {"processed", "pending"} : Stored(Next1, answer)
        /\ UNCHANGED unpinned
  /\ UNCHANGED <<orders, forgetting, page, all, buckets, targets, asks, told, before>>

\* pinCid, of a blob the IPFS host took.
PinCid ==
  /\ forgetting \in {"none", "list"}
  /\ unpinned > 0
  /\ unpinned' = unpinned - 1
  /\ \E answer \in {"processed", "pending"} : Stored(Next1, answer)
  /\ UNCHANGED <<ingestGone, orders, forgetting, page, all, buckets, targets, asks, told, before, acctFaults>>

\* Another owner stores something that this owner's listing shows.
ForeignStore ==
  /\ forgetting \in {"none", "list"}
  /\ Next1 \in Foreign
  /\ state' = [state EXCEPT ![Next1] = "processed"]
  /\ calm' = (calm /\ forgetting # "list")
  /\ UNCHANGED <<ingestGone, unpinned, toldRetained, orders, forgetting, page, all, buckets,
                 targets, asks, told, before, acctFaults>>

\* The service gets round to a STORE it answered "pending".
SettleStore(x) ==
  /\ state[x] = "pending"
  /\ state' = [state EXCEPT ![x] = "processed"]
  /\ calm' = (calm /\ forgetting # "list")
  /\ UNCHANGED <<ingestGone, unpinned, toldRetained, orders, forgetting, page, all, buckets,
                 targets, asks, told, before, acctFaults>>

-----------------------------------------------------------------------------
(* forgetAlephStores. *)

ForgetStores ==
  /\ forgetting = "none"
  /\ forgetting' = "list"
  /\ page' = 1 /\ all' = {} /\ buckets' = NoBuckets
  /\ before' = With("processed") \cap Own /\ calm' = TRUE
  /\ UNCHANGED <<state, ingestGone, unpinned, toldRetained, orders, targets, asks, told, acctFaults>>

\* listAlephStores: a page of everybody's, then this owner's of it, newest first.
Rank(x)   == Cardinality({y \in With("processed") : y >= x})
PageOf(n) == {x \in With("processed") : (n - 1) * PageSize < Rank(x) /\ Rank(x) <= n * PageSize}
Stores(n) == PageOf(n) \cap Own

StoresOf(list) == {t[2] : t \in list}

\* A page that shows nothing of this owner ends the listing, as does the total;
\* where the API tells no total, a page that is not full.
LastPage(stores, list) ==
  \/ stores = {}
  \/ told /\ Cardinality(list) >= Cardinality(With("processed"))
  \/ ~told /\ Cardinality(stores) < PageSize

\* The listing is over: what keep() spares, and what is to be sent.
Listed(list) ==
  /\ forgetting' = "send"
  /\ buckets' = [buckets EXCEPT !["kept"] = StoresOf(list) \cap Keep]
  /\ targets' = {t \in list : t[2] \notin Keep}

\* What was on two pages, as others came between them, is there twice.
ListPage ==
  /\ forgetting = "list"
  /\ LET list == all \cup {<<page, x>> : x \in Stores(page)}
     IN  /\ all' = list
         /\ calm' = (calm /\ (PageOf(page) # {} => Stores(page) # {})
                          /\ (told \/ PageOf(page) \subseteq Own))
         /\ IF LastPage(Stores(page), list)
              THEN Listed(list) /\ UNCHANGED page
              ELSE page' = page + 1 /\ UNCHANGED <<forgetting, buckets, targets>>
  /\ UNCHANGED <<state, ingestGone, unpinned, toldRetained, orders, asks, told, before, acctFaults>>

\* A page that is answered 200 and is no JSON is read as one that shows nothing: the
\* listing ends there, and the call goes on with what the pages before it showed.
ListUnread ==
  /\ forgetting = "list"
  /\ AcctFault
  /\ Listed(all)
  /\ calm' = FALSE
  /\ UNCHANGED <<state, ingestGone, unpinned, toldRetained, orders, page, all, asks, told, before>>

\* A page that does not come fails the call before anything was forgotten.
ListFails ==
  /\ forgetting = "list"
  /\ AcctFault
  /\ forgetting' = "done" /\ all' = {}
  /\ calm' = FALSE
  /\ UNCHANGED <<state, ingestGone, unpinned, toldRetained, orders, page, buckets, targets,
                 asks, told, before>>

\* The first of the targets, in the order in which they were listed.
NoLater(t, u)  == t[1] < u[1] \/ (t[1] = u[1] /\ t[2] >= u[2])
BatchOf(list)  == {t \in list : Cardinality({u \in list : NoLater(u, t)}) <= Batch}
HashesOf(list) == StoresOf(BatchOf(list))
Hashes         == HashesOf(targets)
Rest           == targets \ BatchOf(targets)
Answer(bucket) ==
  /\ buckets' = [buckets EXCEPT ![bucket] = @ \cup Hashes]
  /\ targets' = Rest
  /\ forgetting' = IF Rest = {} THEN "done" ELSE "send"

\* What a processed FORGET does to the account.
Forgotten(hashes) ==
  state' = [x \in Store |-> IF x \in hashes THEN "forgotten" ELSE state[x]]

\* One batch: processed or rejected at once, refused, or accepted, which is
\* waited for.  A FORGET whose answer is lost counts as one that was not sent.
SendForget ==
  /\ forgetting = "send"
  /\ \/ /\ targets = {}
        /\ forgetting' = "done"
        /\ UNCHANGED <<state, orders, buckets, targets, asks, acctFaults>>
     \/ /\ targets # {}
        /\ \/ Forgotten(Hashes) /\ Answer("forgotten") /\ UNCHANGED <<orders, asks, acctFaults>>
           \/ Answer("rejected") /\ UNCHANGED <<state, orders, asks, acctFaults>>
           \/ /\ orders' = orders \cup {[of |-> targets, verdict |-> "pending"]}
              /\ \/ forgetting' = "wait" /\ asks' = Asks /\ UNCHANGED <<buckets, targets, acctFaults>>
                 \/ AcctFault /\ Answer("failed") /\ UNCHANGED asks
              /\ UNCHANGED state
           \/ AcctFault /\ Answer("failed") /\ UNCHANGED <<state, orders, asks>>
  /\ UNCHANGED <<ingestGone, unpinned, toldRetained, page, all, told, before, calm>>

\* The service decides a FORGET it accepted.
SettleForget(order) ==
  /\ order \in orders
  /\ order.verdict = "pending"
  /\ \E verdict \in {"processed", "rejected"} :
       /\ orders' = (orders \ {order}) \cup {[order EXCEPT !.verdict = verdict]}
       /\ IF verdict = "processed" THEN Forgotten(HashesOf(order.of)) ELSE UNCHANGED state
  /\ calm' = (calm /\ forgetting # "list")
  /\ UNCHANGED <<ingestGone, unpinned, toldRetained, forgetting, page, all, buckets, targets, asks,
                 told, before, acctFaults>>

\* A mutant of Bucket: what was not rejected is forgotten.
M_BucketTimedOut(verdict) ==
  IF verdict = "rejected" THEN "rejected" ELSE "forgotten"

\* waitForMessage: what the service decided, or, out of asks, "pending" still.
\* An ask that fails is an ask.
Bucket(verdict) ==
  CASE verdict = "processed" -> "forgotten" [] verdict = "rejected" -> "rejected" [] OTHER -> "pending"

WaitForMessage ==
  /\ forgetting = "wait"
  /\ \E order \in orders :
       /\ order.of = targets
       /\ \/ order.verdict # "pending" /\ Answer(Bucket(order.verdict)) /\ UNCHANGED <<asks, acctFaults>>
          \/ /\ IF order.verdict = "pending" THEN UNCHANGED acctFaults ELSE AcctFault
             /\ IF asks > 1
                  THEN asks' = asks - 1 /\ UNCHANGED <<buckets, targets, forgetting>>
                  ELSE Answer(Bucket("pending")) /\ UNCHANGED asks
  /\ UNCHANGED <<state, ingestGone, unpinned, toldRetained, orders, page, all, told, before, calm>>

AccountNext ==
  \/ PutBlob \/ PinCid \/ ForeignStore
  \/ \E x \in Store : SettleStore(x)
  \/ ForgetStores \/ ListPage \/ ListUnread \/ ListFails \/ SendForget \/ WaitForMessage
  \/ \E order \in orders : SettleForget(order)

AccountSpec == AccountInit /\ [][AccountNext]_acctVars

-----------------------------------------------------------------------------
(* Properties. *)

\* What forgetAlephStores answers is so: `forgotten` is forgotten, `kept` and what is
\* `rejected` and nothing else still stand, and a STORE that went, one somebody was
\* told is retained above all, is in its answer or on its way there.  In the end what
\* the listing showed is in one of the five lists, whatever disturbed it; and every
\* STORE the account had when the call began, if every page was read and nothing came
\* between them: a page that could not be read cuts the listing off without an error
\* (aleph-pin.js:407, 612-719, 310-351; aleph.js:193-295).
ForgetAccounts ==
  LET sent == UNION {buckets[b] : b \in {"forgotten", "rejected", "pending", "failed"}}
  IN  /\ buckets["forgotten"] \subseteq With("forgotten")
      /\ buckets["kept"] \cap With("forgotten") = {}
      /\ \A x \in buckets["rejected"] :
           (\A b \in {"forgotten", "pending", "failed"} : x \notin buckets[b])
             => state[x] # "forgotten" \/ x \in StoresOf(targets)
      /\ With("forgotten") \subseteq sent \cup StoresOf(targets)
      /\ \A x \in toldRetained : state[x] = "processed" \/ x \in sent \cup StoresOf(targets)
      /\ forgetting = "done" => StoresOf(all) \subseteq sent \cup buckets["kept"]
      /\ forgetting = "done" /\ calm => before \subseteq StoresOf(all)

=============================================================================
