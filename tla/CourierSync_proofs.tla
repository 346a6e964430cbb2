------------------------- MODULE CourierSync_proofs -------------------------
(***************************************************************************)
(* Four results about the exchange of blocks.                              *)
(*                                                                         *)
(* LogsAreClosed: no peer's log ever has a hole, for every number of       *)
(* peers, every graph, every carrier and every fault.                      *)
(*                                                                         *)
(* HandedOutWhole: between two peers, a joiner's database is handed out    *)
(* with all the heads of the message that completed it.  Its invariant     *)
(* says what every message in the air, queued or under way holds: heads    *)
(* its sender has, and blocks of its sender's log.                         *)
(*                                                                         *)
(* Replicates: logs change only as the abstract Replicas lets them, by a   *)
(* local write and by taking over heads of another's log with all behind.  *)
(*                                                                         *)
(* ConvergedWhenQuiet: peers with nothing left to say hold the same log,   *)
(* unless something was taken away.  Its invariant says that of two peers  *)
(* that differ one is about to be told, and that a joiner is about to be   *)
(* answered or to hear of what others have.                                *)
(***************************************************************************)
EXTENDS CourierSync, LogGraph_proofs, SequenceTheorems

\* What is reached, if it is not lost, is reached with all it points at.
LEMMA ReachIsClosed ==
  ASSUME NEW H, NEW lost, NEW x \in Reach(H, lost) \ lost
  PROVE  next[x] \subseteq Reach(H, lost)
<1>1. x \in Entry /\ next[x] \subseteq Entry
  BY NextAssumption, ReachIsEntries
<1>. SUFFICES ASSUME NEW y \in next[x], NEW X \in SUBSET Entry,
                     H \subseteq X, \A z \in X \ lost : next[z] \subseteq X
              PROVE  y \in X
  BY <1>1 DEF Reach
<1>2. x \in X
  BY DEF Reach
<1>. QED
  BY <1>2

\* It is the least such set.
LEMMA ReachIsLeast ==
  ASSUME NEW H, NEW lost, NEW X \in SUBSET Entry,
         H \subseteq X, \A x \in X \ lost : next[x] \subseteq X
  PROVE  Reach(H, lost) \subseteq X
BY DEF Reach

\* Blocks P that close over a log L, joined through a storage S that holds them,
\* leave the log without holes.
LEMMA JoinKeepsClosed ==
  ASSUME NEW L \in SUBSET Entry, Past(L) \subseteq L,
         NEW P \in SUBSET Entry, \A x \in P : next[x] \subseteq P \cup L,
         NEW H \in SUBSET P, NEW S, P \subseteq S
  PROVE  LET G == L \cup (Reach(H, Entry \ S) \cap S)
         IN  G \in SUBSET Entry /\ Past(G) \subseteq G
<1>. DEFINE R == Reach(H, Entry \ S)
            G == L \cup (R \cap S)
<1>1. \A x \in L : next[x] \subseteq L
  BY PastExtends, PastIsClosed
<1>2. R \subseteq P \cup L
  BY <1>1, ReachIsLeast
<1>3. G \in SUBSET Entry
  BY ReachIsEntries
<1>4. ASSUME NEW x \in G PROVE next[x] \subseteq G
  <2>1. CASE x \in L
    BY <2>1, <1>1
  <2>2. CASE x \in R \cap S
    <3>1. next[x] \subseteq R
      BY <2>2, ReachIsClosed
    <3>. QED
      BY <3>1, <1>2
  <2>. QED
    BY <2>1, <2>2
<1>. QED
  BY <1>3, <1>4, PastIsLeast

-----------------------------------------------------------------------------
\* The inductive invariant: the logs are closed sets of entries.  Nothing has to
\* be known of messages, since the closure check is made where blocks are joined.
Closed ==
  /\ log \in [Peer -> SUBSET Entry]
  /\ store = [p \in Peer |-> store[p]]
  /\ LogsAreClosed

LEMMA ClosedInit == Init => Closed
BY PeerAssumption DEF Init, Closed, LogsAreClosed

\* Joining blocks that close.
LEMMA ClosedApply ==
  ASSUME Closed, NEW p \in Peer, ApplyWhole(p) PROVE Closed'
<1>. DEFINE P == parked[p] \cap Entry
            heads == (Task(p).heads \cap parked[p] \cap Entry) \ log[p]
            S == store[p] \cup parked[p]
            G == log[p] \cup (Reach(heads, Entry \ S) \cap S)
<1>1. /\ store' = [store EXCEPT ![p] = S]
      /\ log' = [log EXCEPT ![p] = G]
  BY DEF ApplyWhole, Closed
<1>2. \A x \in P : next[x] \subseteq P \cup log[p]
  <2>1. UNION {next[e] : e \in P} \subseteq parked[p] \cup log[p]
    BY DEF ApplyWhole, Missing
  <2>. QED
    BY <2>1, NextAssumption
<1>3. G \in SUBSET Entry /\ Past(G) \subseteq G
  <2>1. log[p] \in SUBSET Entry /\ Past(log[p]) \subseteq log[p]
    BY DEF Closed, LogsAreClosed
  <2>2. P \in SUBSET Entry /\ heads \in SUBSET P /\ P \subseteq S
    OBVIOUS
  <2>. HIDE DEF P, heads, S
  <2>. QED
    BY <1>2, <2>1, <2>2, JoinKeepsClosed
<1>. QED
  BY <1>1, <1>3 DEF Closed, LogsAreClosed

\* A local write points at heads of its own log.
LEMMA ClosedWrite ==
  ASSUME Closed, NEW p \in Peer, NEW e \in Entry, Write(p, e) PROVE Closed'
<1>. DEFINE G == log[p] \cup {e}
<1>1. \A x \in log[p] : next[x] \subseteq log[p]
  BY PastExtends, PastIsClosed DEF Closed, LogsAreClosed
<1>2. next[e] \subseteq log[p]
  BY DEF Write, Heads
<1>3. G \in SUBSET Entry /\ Past(G) \subseteq G
  BY <1>1, <1>2, PastIsLeast DEF Closed
<1>. QED
  BY <1>3 DEF Closed, LogsAreClosed, Write

\* All other steps leave the logs alone.
LEMMA ClosedElsewhere ==
  ASSUME Closed, UNCHANGED log, store' = [p \in Peer |-> store'[p]] PROVE Closed'
BY DEF Closed, LogsAreClosed

LEMMA ClosedNext == Closed /\ [Next]_vars => Closed'
<1>. SUFFICES ASSUME Closed, [Next]_vars PROVE Closed'
  OBVIOUS
<1>1. CASE UNCHANGED vars
  BY <1>1, ClosedElsewhere DEF vars, orbit, Closed
<1>2. ASSUME NEW p \in Peer, Handle(p) PROVE Closed'
  <2>1. CASE ApplyWhole(p)
    BY <2>1, ClosedApply
  <2>2. CASE HandleSoon(p) \/ HandleAnnounce(p) \/ HandleWant(p) \/ AckDone(p)
    BY <2>2, ClosedElsewhere
    DEF HandleSoon, HandleAnnounce, HandleWant, AckDone, orbit, Closed
  <2>3. CASE HandleBlocks(p)
    BY <2>3, ClosedElsewhere DEF HandleBlocks, OpenDatabase, orbit, Closed
  <2>4. CASE ApplyPart(p)
    BY <2>4, ClosedElsewhere DEF ApplyPart, Closed
  <2>. QED
    BY <1>2, <2>1, <2>2, <2>3, <2>4 DEF Handle
<1>3. ASSUME NEW p \in Peer, StartDone(p) \/ RejoinFires(p) \/ SendResolves(p) \/ Deliver(p)
      PROVE  Closed'
  BY <1>3, ClosedElsewhere
  DEF StartDone, RejoinFires, SendResolves, Deliver, Arrives, orbit, Closed
<1>4. ASSUME NEW p \in Peer, Application(p) PROVE Closed'
  <2>1. CASE Start(p) \/ Poke(p)
    BY <2>1, ClosedElsewhere DEF Start, Poke, orbit, Closed
  <2>2. ASSUME NEW e \in Entry, Write(p, e) PROVE Closed'
    BY <2>2, ClosedWrite
  <2>. QED
    BY <1>4, <2>1, <2>2 DEF Application
<1>5. ASSUME NEW p \in Peer, Lose(p) \/ Double(p) \/ Overtake(p) \/ SendFails(p) \/ Stop(p)
      PROVE  Closed'
  BY <1>5, ClosedElsewhere
  DEF Lose, Double, Overtake, Arrives, SendFails, Stop, orbit, Closed
<1>6. ASSUME NEW p \in Peer, OpenFails(p) \/ Crash(p) PROVE Closed'
  BY <1>6, ClosedElsewhere DEF OpenFails, Crash, Closed
<1>. QED
  BY <1>1, <1>2, <1>3, <1>4, <1>5, <1>6 DEF Next, Work, Failure

\* No log ever holds an entry without all that is behind it (applyDeltaToStores'
\* closure check), whatever the carrier loses, doubles or delays, and whoever
\* stops or crashes.
THEOREM LogsStayClosed == Spec => []LogsAreClosed
<1>1. Closed => LogsAreClosed
  BY DEF Closed
<1>. QED
  BY ClosedInit, ClosedNext, <1>1, PTL DEF Spec

-----------------------------------------------------------------------------
(* What is said is so: the messages that wait, travel and are to be handled.  *)

\* No more than two peers.
Two == \A p, q, r \in Peer : p = q \/ q = r \/ p = r

\* A message names heads that its sender has, who only asks until it has a database;
\* blocks that open a database come with their heads, and between two peers all blocks
\* open it, until it is handed out.
Honest ==
  {m \in Message :
     /\ m.heads \subseteq log[m.from]
     /\ m.t \in {"want", "soon"} \/ phase[m.from] # "none" \/ harmed
     /\ m.t = "blocks" /\ Manifest \in m.blocks => m.heads \subseteq m.blocks
     /\ Two /\ m.t = "blocks" =>
          \A q \in Peer \ {m.from} : phase[q] = "handed" \/ Manifest \in m.blocks}

ItemOf(M) == [message: M, to: SUBSET Peer, waiter: {"nobody", "start", "ack"}]
Of(H, p)  == {m \in H : m.from = p}
To(H, p)  == {m \in H : m.t = "soon" \/ m.from # p}

Spoken(H) ==
  /\ DOMAIN outbox = Peer /\ DOMAIN sending = Peer /\ DOMAIN air = Peer
  /\ outbox = [p \in Peer |-> outbox[p]] /\ sending = [p \in Peer |-> sending[p]] /\ air = [p \in Peer |-> air[p]]
  /\ \A p \in Peer : /\ outbox[p] \in Seq(ItemOf(Of(H, p))) /\ sending[p] \in Seq(ItemOf(Of(H, p)))
                     /\ air[p] \in Seq(Of(H, p))

Queued(H) == inbox = [p \in Peer |-> inbox[p]] /\ \A p \in Peer : inbox[p] \in Seq(To(H, p))

Places ==
  /\ log \in [Peer -> SUBSET Entry]
  /\ store \in [Peer -> SUBSET Block] /\ parked \in [Peer -> SUBSET Block]
  /\ phase \in [Peer -> {"none", "opening", "handed"}] /\ busy \in [Peer -> {"no", "apply", "ack"}]
  /\ \A p \in Peer : phase[p] # "handed" => log[p] = {}

\* The task under way stays the first.
UnderWay ==
  \A p \in Peer :
    /\ busy[p] # "no" => inbox[p] # <<>>
    /\ busy[p] = "apply" => Task(p).t = "blocks" /\ Task(p).blocks \subseteq parked[p]

Said == Places /\ Spoken(Honest) /\ Queued(Honest) /\ UnderWay

LEMMA SeqWithin ==
  ASSUME NEW S, NEW T, S \subseteq T PROVE Seq(S) \subseteq Seq(T)
<1>. SUFFICES ASSUME NEW s \in Seq(S) PROVE s \in Seq(T)
  OBVIOUS
<1>1. Len(s) \in Nat /\ s \in [1..Len(s) -> S]
  BY LenProperties
<1>2. s \in [1..Len(s) -> T]
  BY <1>1
<1>. QED
  BY <1>1, <1>2, IsASeq

LEMMA RemoveAtKeeps ==
  ASSUME NEW S, NEW s \in Seq(S), NEW i \in 1..Len(s) PROVE RemoveAt(s, i) \in Seq(S)
<1>1. Len(s) \in Nat /\ \A j \in 1..Len(s) : s[j] \in S
  BY LenProperties, ElementOfSeq
<1>2. SubSeq(s, 1, i - 1) \in Seq(S)
  <2>1. \A j \in 1..(i - 1) : s[j] \in S
    BY <1>1
  <2>. QED
    BY <2>1, SubSeqProperties
<1>3. SubSeq(s, i + 1, Len(s)) \in Seq(S)
  <2>1. \A j \in (i + 1)..Len(s) : s[j] \in S
    BY <1>1
  <2>. QED
    BY <1>1, <2>1, SubSeqProperties
<1>. QED
  BY <1>2, <1>3, ConcatProperties DEF RemoveAt

\* What is put waits with what waited.
LEMMA PutKeeps ==
  ASSUME NEW S, NEW box \in Seq(S), NEW item \in S PROVE Put(box, item) \in Seq(S)
<1>1. Fresh(box, item) \in Seq(S)
  <2>1. ASSUME Stale(box, item) # {} PROVE (CHOOSE i \in Stale(box, item) : TRUE) \in 1..Len(box)
    <3>1. Stale(box, item) \subseteq 1..Len(box)
      BY LenProperties DEF Stale
    <3>. QED
      BY <2>1, <3>1
  <2>. QED
    BY <2>1, RemoveAtKeeps DEF Fresh
<1>2. PICK fresh \in Seq(S) : fresh = Fresh(box, item)
  BY <1>1
<1>3. Len(fresh) >= MaxOutbox => fresh # <<>>
  BY EmptySeq, SyncAssumption
<1>4. (IF Len(fresh) >= MaxOutbox THEN Tail(fresh) ELSE fresh) \in Seq(S)
  BY <1>3, HeadTailProperties
<1>. QED
  BY <1>2, <1>4, AppendProperties DEF Put

LEMMA PutAllKeeps ==
  ASSUME NEW S, NEW box \in Seq(S), NEW items \in Seq(S), Len(items) <= 2
  PROVE  PutAll(box, items) \in Seq(S)
<1>1. CASE items = <<>>
  BY <1>1 DEF PutAll
<1>2. CASE items # <<>> /\ Len(items) = 1
  <2>1. items[1] \in S
    BY <1>2, ElementOfSeq
  <2>. QED
    BY <1>2, <2>1, PutKeeps DEF PutAll
<1>3. CASE items # <<>> /\ Len(items) = 2
  <2>1. items[1] \in S /\ items[2] \in S
    <3>1. 1 \in 1..Len(items) /\ 2 \in 1..Len(items)
      BY <1>3
    <3>. QED
      BY <3>1, ElementOfSeq
  <2>2. Put(box, items[1]) \in Seq(S)
    BY <2>1, PutKeeps
  <2>. QED
    BY <1>3, <2>1, <2>2, PutKeeps DEF PutAll
<1>4. items # <<>> => Len(items) = 1 \/ Len(items) = 2
  <2>1. PICK k \in Nat : k = Len(items)
    BY LenProperties
  <2>2. items # <<>> => k # 0
    BY <2>1, EmptySeq
  <2>. QED
    BY <2>1, <2>2
<1>. QED
  BY <1>1, <1>2, <1>3, <1>4

\* Sending adds to what a peer says, and nothing to what others do.
LEMMA EnqueueKeeps ==
  ASSUME NEW H, Spoken(H), NEW p \in Peer, NEW items \in Seq(ItemOf(Of(H, p))), Len(items) <= 2,
         Enqueue(p, items)
  PROVE  Spoken(H)'
<1>. DEFINE I == ItemOf(Of(H, p))
            pump == sending[p] = <<>> /\ items # <<>>
            rest == IF pump THEN Tail(items) ELSE items
<1>1. outbox[p] \in Seq(I) /\ sending[p] \in Seq(I) /\ air[p] \in Seq(Of(H, p))
  BY DEF Spoken
<1>2. items # <<>> => Head(items) \in I /\ Head(items).message \in Of(H, p) /\ Tail(items) \in Seq(I) /\ Len(Tail(items)) <= 1
  <2>1. ASSUME items # <<>> PROVE Head(items) \in I /\ Tail(items) \in Seq(I) /\ Len(Tail(items)) = Len(items) - 1
    BY <2>1, HeadTailProperties
  <2>2. Len(items) \in Nat
    BY LenProperties
  <2>3. \A i \in I : i.message \in Of(H, p)
    BY DEF ItemOf
  <2>. HIDE DEF I
  <2>. QED
    BY <2>1, <2>2, <2>3
<1>3. rest \in Seq(I) /\ Len(rest) <= 2
  <2>1. CASE pump
    <3>1. Len(Tail(items)) \in Nat /\ Len(Tail(items)) <= 1
      BY <1>2, <2>1, LenProperties
    <3>. QED
      BY <1>2, <2>1, <3>1
  <2>2. CASE ~ pump
    BY <2>2
  <2>. QED
    BY <2>1, <2>2
<1>4. outbox' = [outbox EXCEPT ![p] = PutAll(outbox[p], rest)]
  BY DEF Enqueue, Spoken
<1>5. PutAll(outbox[p], rest) \in Seq(I)
  <2>. HIDE DEF rest, I
  <2>. QED
    BY <1>1, <1>3, PutAllKeeps
<1>6. sending' = IF pump THEN [sending EXCEPT ![p] = <<Head(items)>>] ELSE sending
  BY DEF Enqueue
<1>7. air' = IF pump THEN [air EXCEPT ![p] = Append(air[p], Head(items).message)] ELSE air
  BY DEF Enqueue, Transmit, Spoken
<1>8. pump => <<Head(items)>> \in Seq(I) /\ Append(air[p], Head(items).message) \in Seq(Of(H, p))
  <2>. HIDE DEF I
  <2>. QED
    BY <1>1, <1>2, AppendProperties
<1>9. PICK boxed : boxed = PutAll(outbox[p], rest)
  OBVIOUS
<1>10. DOMAIN outbox' = Peer /\ outbox' = [q \in Peer |-> outbox'[q]]
       /\ \A q \in Peer : outbox'[q] = IF q = p THEN boxed ELSE outbox[q]
  <2>. HIDE DEF rest
  <2>. QED
    BY <1>4, <1>9 DEF Spoken
<1>11. DOMAIN sending' = Peer /\ sending' = [q \in Peer |-> sending'[q]]
       /\ \A q \in Peer : sending'[q] = IF q = p /\ pump THEN <<Head(items)>> ELSE sending[q]
  BY <1>6 DEF Spoken
<1>12. DOMAIN air' = Peer /\ air' = [q \in Peer |-> air'[q]]
       /\ \A q \in Peer : air'[q] = IF q = p /\ pump THEN Append(air[p], Head(items).message) ELSE air[q]
  BY <1>7 DEF Spoken
<1>13. ASSUME NEW q \in Peer
       PROVE  outbox'[q] \in Seq(ItemOf(Of(H, q))) /\ sending'[q] \in Seq(ItemOf(Of(H, q))) /\ air'[q] \in Seq(Of(H, q))
  <2>1. CASE q = p
    <3>. HIDE DEF rest, pump
    <3>. QED
      BY <1>1, <1>5, <1>8, <1>9, <1>10, <1>11, <1>12, <2>1
  <2>2. CASE q # p
    BY <1>10, <1>11, <1>12, <2>2 DEF Spoken
  <2>. QED
    BY <2>1, <2>2
<1>. QED
  BY <1>10, <1>11, <1>12, <1>13 DEF Spoken

LEMMA NextOutKeeps ==
  ASSUME NEW H, Spoken(H), NEW p \in Peer, NextOut(p)
  PROVE  Spoken(H)'
<1>. DEFINE I == ItemOf(Of(H, p))
<1>1. outbox[p] \in Seq(I) /\ air[p] \in Seq(Of(H, p))
  BY DEF Spoken
<1>2. CASE outbox[p] = <<>>
  <2>1. sending' = [sending EXCEPT ![p] = <<>>] /\ UNCHANGED <<outbox, air>>
    BY <1>2 DEF NextOut
  <2>2. <<>> \in Seq(I)
    OBVIOUS
  <2>. QED
    BY <2>1, <2>2 DEF Spoken
<1>3. CASE outbox[p] # <<>>
  <2>1. PICK first \in I, rest \in Seq(I) : first = Head(outbox[p]) /\ rest = Tail(outbox[p])
    <3>. HIDE DEF I
    <3>. QED
      BY <1>1, <1>3, HeadTailProperties
  <2>2. /\ sending' = [sending EXCEPT ![p] = <<first>>]
        /\ outbox' = [outbox EXCEPT ![p] = rest]
        /\ air' = [air EXCEPT ![p] = Append(air[p], first.message)]
    BY <1>3, <2>1 DEF NextOut, Transmit, Spoken
  <2>3. first.message \in Of(H, p)
    BY <2>1 DEF ItemOf
  <2>4. PICK added \in Seq(Of(H, p)) : added = Append(air[p], first.message)
    BY <1>1, <2>3, AppendProperties
  <2>5. <<first>> \in Seq(I)
    BY <2>1
  <2>. QED
    BY <2>1, <2>2, <2>4, <2>5 DEF Spoken
<1>. QED
  BY <1>2, <1>3

\* Logs grow, and what was handed out stays: what was said before is still so.
LEMMA HonestStays ==
  ASSUME Places, harmed => harmed',
         \A p \in Peer : log[p] \subseteq log'[p] /\ (phase[p] = "handed" => phase'[p] = "handed"),
         \A p \in Peer : harmed' \/ phase[p] = "none" \/ phase'[p] # "none"
  PROVE  Honest \subseteq Honest'
BY DEF Honest, Message

LEMMA SpokenWithin ==
  ASSUME NEW H, NEW K, H \subseteq K, Spoken(H) PROVE Spoken(K)
<1>1. ASSUME NEW p \in Peer PROVE Seq(Of(H, p)) \subseteq Seq(Of(K, p)) /\ Seq(ItemOf(Of(H, p))) \subseteq Seq(ItemOf(Of(K, p)))
  <2>1. Of(H, p) \subseteq Of(K, p) /\ ItemOf(Of(H, p)) \subseteq ItemOf(Of(K, p))
    BY DEF Of, ItemOf
  <2>. QED
    BY <2>1, SeqWithin
<1>. QED
  BY <1>1 DEF Spoken

LEMMA QueuedWithin ==
  ASSUME NEW H, NEW K, H \subseteq K, Queued(H) PROVE Queued(K)
<1>1. ASSUME NEW p \in Peer PROVE Seq(To(H, p)) \subseteq Seq(To(K, p))
  <2>1. To(H, p) \subseteq To(K, p)
    BY DEF To
  <2>. QED
    BY <2>1, SeqWithin
<1>. QED
  BY <1>1 DEF Queued

LEMMA SaidWith ==
  ASSUME NEW K, K = Honest', Places', Spoken(K)', Queued(K)', UnderWay' PROVE Said'
BY DEF Said, Spoken, Queued

LEMMA TaskIsQueued ==
  ASSUME NEW H, Queued(H), NEW p \in Peer, inbox[p] # <<>>
  PROVE  Task(p) \in H /\ (Task(p).t = "soon" \/ Task(p).from # p) /\ Tail(inbox[p]) \in Seq(To(H, p))
<1>1. inbox[p] \in Seq(To(H, p))
  BY DEF Queued
<1>2. Task(p) \in To(H, p) /\ Tail(inbox[p]) \in Seq(To(H, p))
  BY <1>1, HeadTailProperties DEF Task
<1>. QED
  BY <1>2 DEF To

LEMMA TaskDoneKeeps ==
  ASSUME NEW H, Queued(H), NEW p \in Peer, inbox[p] # <<>>, TaskDone(p)
  PROVE  Queued(H)' /\ \A q \in Peer \ {p} : inbox'[q] = inbox[q]
<1>1. PICK rest \in Seq(To(H, p)) : rest = Tail(inbox[p])
  BY TaskIsQueued
<1>2. inbox' = [inbox EXCEPT ![p] = rest]
  BY <1>1 DEF TaskDone, Queued
<1>. QED
  BY <1>2 DEF Queued

\* What is queued comes last.
LEMMA QueueKeeps ==
  ASSUME NEW H, Queued(H), UnderWay, NEW m \in H, NEW S \in SUBSET Peer,
         \A p \in S : m.t = "soon" \/ m.from # p,
         inbox' = [p \in Peer |-> IF p \in S THEN Append(inbox[p], m) ELSE inbox[p]]
  PROVE  Queued(H)' /\ (UNCHANGED <<busy, parked>> => UnderWay')
<1>1. ASSUME NEW p \in S
      PROVE  /\ Append(inbox[p], m) \in Seq(To(H, p)) /\ Append(inbox[p], m) # <<>>
             /\ inbox[p] # <<>> => Head(Append(inbox[p], m)) = Head(inbox[p])
  <2>1. inbox[p] \in Seq(To(H, p)) /\ m \in To(H, p)
    BY DEF Queued, To
  <2>. QED
    BY <2>1, AppendProperties, HeadTailAppend
<1>2. Queued(H)'
  <2>1. \A p \in Peer : inbox'[p] \in Seq(To(H, p))
    BY <1>1 DEF Queued
  <2>. QED
    BY <2>1 DEF Queued
<1>3. ASSUME NEW p \in Peer, inbox[p] # <<>> PROVE inbox'[p] # <<>> /\ Head(inbox'[p]) = Head(inbox[p])
  BY <1>1, <1>3
<1>. QED
  BY <1>2, <1>3 DEF UnderWay, Task

\* Nothing said is untrue while no log or phase changes.
LEMMA HonestSame ==
  ASSUME UNCHANGED <<log, phase, harmed>> PROVE Honest' = Honest
BY DEF Honest

\* What was taken away is not given back.
LEMMA HarmStays ==
  ASSUME [Next]_vars, harmed PROVE harmed'
<1>1. ASSUME NEW kind, Fault(kind) PROVE harmed'
  BY <1>1 DEF Fault
<1>2. ASSUME UNCHANGED harmed PROVE harmed'
  BY <1>2
<1>3. ASSUME NEW p \in Peer, Work(p) PROVE UNCHANGED harmed \/ \E kind : Fault(kind)
  BY <1>3 DEF Work, Handle, HandleSoon, HandleAnnounce, HandleWant, HandleBlocks, ApplyPart, ApplyWhole,
              AckDone, StartDone, RejoinFires, bounds
<1>4. ASSUME NEW p \in Peer, SendResolves(p) \/ Deliver(p) \/ Application(p) PROVE UNCHANGED harmed
  BY <1>4 DEF SendResolves, Deliver, Application, Start, Poke, Write, bounds
<1>5. CASE Failure
  BY <1>1, <1>5 DEF Failure, Lose, Double, Overtake, SendFails, OpenFails, Stop, Crash
<1>6. CASE UNCHANGED vars
  BY <1>2, <1>6 DEF vars, bounds
<1>. QED
  BY <1>1, <1>2, <1>3, <1>4, <1>5, <1>6 DEF Next

LEMMA HonestKept ==
  ASSUME UNCHANGED <<log, phase>>, harmed => harmed' PROVE Honest \subseteq Honest'
BY DEF Honest

LEMMA SoonIsHonest ==
  ASSUME NEW p \in Peer PROVE Soon(p) \in Honest /\ Soon(p).t = "soon"
<1>1. Soon(p) \in Message
  BY DEF Soon, Message, Kind, Block
<1>. QED
  BY <1>1 DEF Honest, Soon

LEMMA HeadsOfLog ==
  ASSUME Places, NEW p \in Peer PROVE Heads(log[p]) \subseteq log[p] /\ log[p] \subseteq Entry
BY DEF Heads, Places

\* A delta is of blocks, and for a peer that has nothing it is whole.
LEMMA DeltaIs ==
  ASSUME Places, NEW p \in Peer, NEW theirs \in SUBSET Entry
  PROVE  /\ Delta(p, theirs) \subseteq Block
         /\ Manifest \in Delta(p, theirs) => theirs = {}
         /\ theirs = {} => Manifest \in Delta(p, theirs) /\ Heads(log[p]) \subseteq Delta(p, theirs)
<1>1. Heads(log[p]) \in SUBSET Entry
  BY HeadsOfLog
<1>2. \A done : Walk(Heads(log[p]), done, {}) \subseteq Entry /\ Heads(log[p]) \ done \subseteq Walk(Heads(log[p]), done, {})
  BY <1>1, WalkIsClosed
<1>3. theirs = {} => Held(p, theirs) = {}
  BY ReachIsLeast DEF Held
<1>. QED
  BY <1>1, <1>2, <1>3, ManifestAssumption DEF Delta, Block

LEMMA StandingIsHonest ==
  ASSUME Places, NEW p \in Peer PROVE Standing(p) \in Of(Honest, p)
<1>1. Heads(log[p]) \subseteq log[p] /\ log[p] \subseteq Entry
  BY HeadsOfLog
<1>2. Standing(p) \in Message /\ Standing(p).from = p /\ Standing(p).heads \subseteq log[p] /\ Standing(p).t # "blocks"
  BY <1>1 DEF Standing, Announce, Want, Message, Kind, Block
<1>3. Standing(p).t = "want" \/ phase[p] # "none"
  BY DEF Standing, Want, Local
<1>. QED
  BY <1>2, <1>3 DEF Of, Honest

LEMMA WantIsHonest ==
  ASSUME Places, NEW p \in Peer, NEW C \in SUBSET Entry PROVE Want(p, C, Heads(log[p])) \in Of(Honest, p)
<1>1. Heads(log[p]) \subseteq log[p] /\ log[p] \subseteq Entry
  BY HeadsOfLog
<1>2. PICK w : w = Want(p, C, Heads(log[p]))
  OBVIOUS
<1>3. w \in Message /\ w.from = p /\ w.heads \subseteq log[p] /\ w.t = "want"
  BY <1>1, <1>2 DEF Want, Message, Kind, Block
<1>. QED
  BY <1>2, <1>3 DEF Of, Honest

\* The answer to a message that is so: the delta it asks for, and what it names.
LEMMA BlocksAreHonest ==
  ASSUME Places, NEW p \in Peer, Local(p), NEW m \in Honest, m.from # p, NEW C \in SUBSET Entry
  PROVE  Blocks(p, Heads(log[p]), Delta(p, m.heads) \cup C) \in Of(Honest, p)
<1>1. Heads(log[p]) \subseteq log[p] /\ log[p] \subseteq Entry
  BY HeadsOfLog
<1>2. m.heads \in SUBSET Entry /\ m.from \in Peer /\ m.heads \subseteq log[m.from]
  BY DEF Honest, Message
<1>3. PICK D : D = Delta(p, m.heads) \cup C
  OBVIOUS
<1>4. D \in SUBSET Block /\ (Manifest \in D => Heads(log[p]) \subseteq D) /\ (m.heads = {} => Manifest \in D)
  BY <1>2, <1>3, DeltaIs, ManifestAssumption DEF Block
<1>5. PICK b : b = Blocks(p, Heads(log[p]), D)
  OBVIOUS
<1>6. b \in Message /\ b.from = p /\ b.heads = Heads(log[p]) /\ b.blocks = D /\ b.t = "blocks"
  BY <1>1, <1>4, <1>5 DEF Blocks, Message, Kind
<1>7. ASSUME Two, NEW q \in Peer \ {p}, phase[q] # "handed" PROVE Manifest \in D
  <2>1. q = m.from
    BY <1>2, <1>7 DEF Two
  <2>2. m.heads = {}
    BY <1>2, <1>7, <2>1 DEF Places
  <2>. QED
    BY <1>4, <2>2
<1>. QED
  BY <1>1, <1>3, <1>4, <1>5, <1>6, <1>7 DEF Of, Honest, Local

LEMMA ItemsOf ==
  ASSUME NEW M, NEW m \in M, NEW S \in SUBSET Peer, NEW w \in {"nobody", "start", "ack"}
  PROVE  [message |-> m, to |-> S, waiter |-> w] \in ItemOf(M)
BY DEF ItemOf

LEMMA OneItem ==
  ASSUME NEW S, NEW x \in S
  PROVE  (\E s \in Seq(S) : s = <<x>> /\ Len(s) <= 2) /\ (\E s \in Seq(S) : s = <<>> /\ Len(s) <= 2)
<1>1. <<x>> \in Seq(S) /\ Len(<<x>>) <= 2
  OBVIOUS
<1>2. <<>> \in Seq(S) /\ Len(<<>>) <= 2
  OBVIOUS
<1>. QED
  BY <1>1, <1>2

\* A task that was handled by sending, and nothing else.
LEMMA HandledKeeps ==
  ASSUME Said, NEW p \in Peer, inbox[p] # <<>>, busy[p] # "apply" \/ busy'[p] = "no",
         NEW items \in Seq(ItemOf(Of(Honest, p))), Len(items) <= 2, Enqueue(p, items), TaskDone(p),
         UNCHANGED <<log, phase, parked, harmed>>, store' \in [Peer -> SUBSET Block],
         busy' = [busy EXCEPT ![p] = "no"]
  PROVE  Said'
<1>1. PICK K : K = Honest
  OBVIOUS
<1>2. K = Honest'
  BY <1>1, HonestSame
<1>3. Spoken(K)'
  BY <1>1, EnqueueKeeps DEF Said
<1>4. Queued(K)' /\ \A q \in Peer \ {p} : inbox'[q] = inbox[q]
  BY <1>1, TaskDoneKeeps DEF Said
<1>5. Places' /\ UnderWay'
  BY <1>4 DEF Said, Places, UnderWay, Task
<1>. QED
  BY <1>2, <1>3, <1>4, <1>5, SaidWith

LEMMA ItemsSent ==
  ASSUME NEW S
  PROVE  /\ \E s \in Seq(S) : s = <<>> /\ Len(s) <= 2 /\ <<>> \o <<>> = s
         /\ \A x \in S : \E s \in Seq(S) :
              s = <<x>> /\ Len(s) <= 2 /\ s # <<>> /\ s[Len(s)] = x /\ <<x>> \o <<>> = s /\ <<>> \o <<x>> = s
         /\ \A x, y \in S : \E s \in Seq(S) :
              <<x>> \o <<y>> = s /\ Len(s) <= 2 /\ s # <<>> /\ s[Len(s)] = y
<1>1. <<>> \in Seq(S) /\ Len(<<>>) <= 2 /\ <<>> \o <<>> = <<>>
  OBVIOUS
<1>2. ASSUME NEW x \in S
      PROVE  /\ <<x>> \in Seq(S) /\ Len(<<x>>) <= 2 /\ <<x>> # <<>> /\ <<x>>[Len(<<x>>)] = x
             /\ <<x>> \o <<>> = <<x>> /\ <<>> \o <<x>> = <<x>>
  OBVIOUS
<1>3. ASSUME NEW x \in S, NEW y \in S
      PROVE  \E s \in Seq(S) : <<x>> \o <<y>> = s /\ Len(s) <= 2 /\ s # <<>> /\ s[Len(s)] = y
  <2>1. PICK a \in Seq(S), b \in Seq(S) : a = <<x>> /\ b = <<y>> /\ Len(a) = 1 /\ Len(b) = 1 /\ b[1] = y
    BY <1>2
  <2>2. PICK s \in Seq(S) : s = a \o b /\ Len(s) = 2 /\ s[2] = y
    <3>1. /\ a \o b \in Seq(S) /\ Len(a \o b) = Len(a) + Len(b)
          /\ \A i \in 1..(Len(a) + Len(b)) : (a \o b)[i] = IF i <= Len(a) THEN a[i] ELSE b[i - Len(a)]
      BY ConcatProperties
    <3>2. PICK s : s = a \o b
      OBVIOUS
    <3>3. s \in Seq(S) /\ Len(s) = 2 /\ \A i \in 1..2 : s[i] = IF i <= 1 THEN a[i] ELSE b[i - 1]
      BY <2>1, <3>1, <3>2
    <3>4. s[2] = b[2 - 1]
      BY ONLY <3>3
    <3>5. 2 - 1 = 1
      OBVIOUS
    <3>. QED
      BY <2>1, <3>2, <3>3, <3>4, <3>5
  <2>3. s # <<>> /\ Len(s) <= 2 /\ s[Len(s)] = y
    BY <2>2, EmptySeq
  <2>4. <<x>> \o <<y>> = s
    BY ONLY <2>1, <2>2
  <2>. QED
    BY ONLY <2>3, <2>4, s \in Seq(S)
<1>. QED
  BY <1>1, <1>2, <1>3

\* What is sent in answer to an announcement: the last of it is a request or a delivery,
\* and there is nothing if the two have nothing to tell each other.
LEMMA AnswersAnnounce ==
  ASSUME Said, NEW p \in Peer, HandleAnnounce(p)
  PROVE  \E items \in Seq(ItemOf(Of(Honest, p))) :
           /\ Enqueue(p, items) /\ Len(items) <= 2
           /\ items = <<>> =>
                /\ Task(p).heads \subseteq log[p]
                /\ Local(p) => Heads(log[p]) \subseteq Task(p).heads
           /\ items # <<>> => items[Len(items)].message.t \in {"want", "blocks"}
<1>. DEFINE I == ItemOf(Of(Honest, p))
            m == Task(p)
            ours == Heads(log[p])
            weLack == m.heads \ log[p]
            told == Post(Blocks(p, ours, Delta(p, m.heads)), m.from)
            asked == Post(Want(p, weLack, ours), m.from)
            tells == Local(p) /\ ours \ m.heads # {}
            answer == IF tells THEN <<told>> ELSE <<>>
            ask    == IF weLack # {} THEN <<asked>> ELSE <<>>
<1>1. Places /\ Queued(Honest) /\ inbox[p] # <<>>
  BY DEF Said, HandleAnnounce, Handling
<1>2. Task(p) \in Honest /\ Task(p).from # p /\ Task(p) \in Message
  BY <1>1, TaskIsQueued DEF Honest, HandleAnnounce, Handling
<1>3. m.heads \in SUBSET Entry /\ m.from \in Peer
  BY <1>2 DEF Message
<1>4. ASSUME Local(p) PROVE told \in I /\ told.message.t = "blocks"
  <2>1. Blocks(p, ours, Delta(p, m.heads) \cup {}) \in Of(Honest, p)
    BY <1>1, <1>2, <1>4, BlocksAreHonest
  <2>2. Delta(p, m.heads) \cup {} = Delta(p, m.heads)
    OBVIOUS
  <2>3. Blocks(p, ours, Delta(p, m.heads)) \in Of(Honest, p)
    BY <2>1, <2>2
  <2>4. PICK D : D = Delta(p, m.heads)
    OBVIOUS
  <2>5. Post(Blocks(p, ours, D), m.from).message.t = "blocks"
    BY DEF Post, Blocks
  <2>. QED
    BY <1>3, <2>3, <2>4, <2>5, ItemsOf DEF Post
<1>5. asked \in I /\ asked.message.t = "want"
  <2>1. Want(p, weLack, ours) \in Of(Honest, p)
    BY <1>1, <1>3, WantIsHonest
  <2>2. PICK W, H : W = weLack /\ H = ours
    OBVIOUS
  <2>3. Post(Want(p, W, H), m.from).message.t = "want"
    BY DEF Post, Want
  <2>. QED
    BY <1>3, <2>1, <2>2, <2>3, ItemsOf DEF Post
<1>6. Enqueue(p, answer \o ask)
  BY DEF HandleAnnounce
<1>7. (~ tells => (Local(p) => ours \subseteq m.heads)) /\ (weLack = {} => m.heads \subseteq log[p])
  OBVIOUS
<1>8. tells => Local(p)
  OBVIOUS
<1>. HIDE DEF I, told, asked, tells
<1>9. CASE tells /\ weLack # {}
  <2>1. told \in I /\ asked \in I
    BY <1>4, <1>5, <1>8, <1>9
  <2>2. PICK x, y : x = told /\ y = asked
    OBVIOUS
  <2>3. x \in I /\ y \in I
    BY <2>1, <2>2
  <2>4. PICK items \in Seq(I) : Len(items) <= 2 /\ items # <<>> /\ items[Len(items)] = y /\ <<x>> \o <<y>> = items
    <3>1. \A S : \A a, b \in S : \E s \in Seq(S) : <<a>> \o <<b>> = s /\ Len(s) <= 2 /\ s # <<>> /\ s[Len(s)] = b
      BY ItemsSent
    <3>. QED
      BY ONLY <2>3, <3>1
  <2>5. Enqueue(p, items)
    <3>1. answer = <<x>> /\ ask = <<y>>
      BY <1>9, <2>2
    <3>. HIDE DEF answer, ask
    <3>. QED
      BY <1>6, <2>4, <3>1
  <2>. QED
    BY <1>5, <2>2, <2>4, <2>5 DEF I
<1>10. CASE tells /\ weLack = {}
  <2>1. told \in I
    BY <1>4, <1>8, <1>10
  <2>2. PICK x : x = told
    OBVIOUS
  <2>3. x \in I
    BY <2>1, <2>2
  <2>4. PICK items \in Seq(I) : Len(items) <= 2 /\ items # <<>> /\ items[Len(items)] = x /\ <<x>> \o <<>> = items
    BY <2>3, ItemsSent
  <2>5. Enqueue(p, items)
    <3>1. answer = <<x>> /\ ask = <<>>
      BY <1>10, <2>2
    <3>. HIDE DEF answer, ask
    <3>. QED
      BY <1>6, <2>4, <3>1
  <2>. QED
    BY <1>4, <1>8, <1>10, <2>2, <2>4, <2>5 DEF I
<1>11. CASE ~ tells /\ weLack # {}
  <2>1. PICK y : y = asked
    OBVIOUS
  <2>2. y \in I
    BY <1>5, <2>1
  <2>3. PICK items \in Seq(I) : Len(items) <= 2 /\ items # <<>> /\ items[Len(items)] = y /\ <<>> \o <<y>> = items
    BY <2>2, ItemsSent
  <2>4. Enqueue(p, items)
    <3>1. answer = <<>> /\ ask = <<y>>
      BY <1>11, <2>1
    <3>. HIDE DEF answer, ask
    <3>. QED
      BY <1>6, <2>3, <3>1
  <2>. QED
    BY <1>5, <2>1, <2>3, <2>4 DEF I
<1>12. CASE ~ tells /\ weLack = {}
  <2>1. PICK items \in Seq(I) : items = <<>> /\ Len(items) <= 2 /\ <<>> \o <<>> = items
    BY ItemsSent
  <2>2. <<>> \o <<>> = items
    BY <2>1
  <2>3. Enqueue(p, items)
    <3>1. answer = <<>> /\ ask = <<>>
      BY <1>12
    <3>. HIDE DEF answer, ask
    <3>. QED
      BY <1>6, <2>2, <3>1
  <2>. QED
    BY <1>7, <1>12, <2>1, <2>2, <2>3 DEF I
<1>. QED
  BY <1>9, <1>10, <1>11, <1>12

\* What is sent in answer to a request: a delivery, if there is a database.
LEMMA AnswersWant ==
  ASSUME Said, NEW p \in Peer, HandleWant(p)
  PROVE  \E items \in Seq(ItemOf(Of(Honest, p))) :
           /\ Enqueue(p, items) /\ Len(items) <= 2
           /\ items = <<>> => ~ Local(p)
           /\ items # <<>> =>
                /\ Local(p) /\ items[Len(items)].message.t = "blocks"
                /\ phase[Task(p).from] = "none" => Manifest \in items[Len(items)].message.blocks
<1>. DEFINE I == ItemOf(Of(Honest, p))
            m == Task(p)
            C == m.cids \cap store[p]
            reply == Post(Blocks(p, Heads(log[p]), Delta(p, m.heads) \cup C), m.from)
<1>1. Places /\ Queued(Honest) /\ inbox[p] # <<>>
  BY DEF Said, HandleWant, Handling
<1>2. Task(p) \in Honest /\ Task(p).from # p /\ Task(p) \in Message
  BY <1>1, TaskIsQueued DEF Honest, HandleWant, Handling
<1>3. m.cids \in SUBSET Entry /\ m.heads \in SUBSET Entry /\ m.from \in Peer /\ m.heads \subseteq log[m.from]
  BY <1>2 DEF Message, Honest
<1>4. ASSUME Local(p) PROVE reply \in I
  <2>1. Blocks(p, Heads(log[p]), Delta(p, m.heads) \cup C) \in Of(Honest, p)
    BY <1>1, <1>2, <1>3, <1>4, BlocksAreHonest
  <2>. QED
    BY <1>3, <2>1, ItemsOf DEF Post
<1>5. reply.message.t = "blocks" /\ (phase[m.from] = "none" => Manifest \in reply.message.blocks)
  <2>1. PICK H, B : H = Heads(log[p]) /\ B = Delta(p, m.heads) \cup C
    OBVIOUS
  <2>2. Post(Blocks(p, H, B), m.from).message.t = "blocks" /\ Post(Blocks(p, H, B), m.from).message.blocks = B
    BY DEF Post, Blocks
  <2>3. phase[m.from] = "none" => m.heads = {}
    BY <1>1, <1>3 DEF Places
  <2>4. phase[m.from] = "none" => Manifest \in B
    BY <1>1, <1>3, <2>1, <2>3, DeltaIs
  <2>. QED
    BY <2>1, <2>2, <2>4
<1>6. Enqueue(p, IF Local(p) THEN <<reply>> ELSE <<>>)
  BY DEF HandleWant
<1>. HIDE DEF I, reply
<1>7. CASE Local(p)
  <2>1. PICK x : x = reply
    OBVIOUS
  <2>2. x \in I
    BY <1>4, <1>7, <2>1
  <2>3. PICK items \in Seq(I) : items = <<x>> /\ Len(items) <= 2 /\ items # <<>> /\ items[Len(items)] = x
    BY <2>2, ItemsSent
  <2>4. Enqueue(p, items)
    BY <1>6, <1>7, <2>1, <2>3
  <2>5. items[Len(items)] = reply
    BY <2>1, <2>3
  <2>. QED
    BY <1>5, <1>7, <2>3, <2>4, <2>5 DEF I
<1>8. CASE ~ Local(p)
  <2>1. PICK items \in Seq(I) : items = <<>> /\ Len(items) <= 2
    BY ItemsSent
  <2>2. Enqueue(p, items)
    BY <1>6, <1>8, <2>1
  <2>. QED
    BY <1>8, <2>1, <2>2 DEF I
<1>. QED
  BY <1>7, <1>8

LEMMA SaidAnswers ==
  ASSUME Said, NEW p \in Peer, HandleSoon(p) \/ HandleAnnounce(p) \/ HandleWant(p)
  PROVE  Said'
<1>. DEFINE I == ItemOf(Of(Honest, p))
<1>1. Places
  BY DEF Said
<1>2. /\ inbox[p] # <<>> /\ busy[p] = "no" /\ TaskDone(p) /\ UNCHANGED <<log, phase, parked, store, busy, harmed>>
      /\ store' \in [Peer -> SUBSET Block] /\ busy' = [busy EXCEPT ![p] = "no"]
  BY <1>1 DEF HandleSoon, HandleAnnounce, HandleWant, Handling, orbit, bounds, Places
<1>3. ASSUME HandleSoon(p) PROVE Said'
  <2>1. Send(Standing(p), "nobody") \in I
    BY <1>1, StandingIsHonest, ItemsOf DEF Send
  <2>2. PICK items \in Seq(I) : items = <<Send(Standing(p), "nobody")>> /\ Len(items) <= 2
    BY <2>1, OneItem
  <2>3. Enqueue(p, items)
    BY <1>3, <2>2 DEF HandleSoon
  <2>. QED
    BY <1>2, <2>2, <2>3, HandledKeeps
<1>4. ASSUME HandleAnnounce(p) \/ HandleWant(p) PROVE Said'
  <2>1. PICK items \in Seq(I) : Enqueue(p, items) /\ Len(items) <= 2
    BY <1>4, AnswersAnnounce, AnswersWant
  <2>. QED
    BY <1>2, <2>1, HandledKeeps
<1>. QED
  BY <1>3, <1>4

LEMMA SaidParks ==
  ASSUME Said, [Next]_vars, NEW p \in Peer, HandleBlocks(p) \/ OpenFails(p)
  PROVE  Said'
<1>1. Places /\ Spoken(Honest) /\ Queued(Honest) /\ UnderWay
  BY DEF Said
<1>2. /\ inbox[p] # <<>> /\ busy[p] = "no" /\ Task(p).t = "blocks"
      /\ UNCHANGED <<log, outbox, sending, air>> /\ (harmed => harmed')
  BY HarmStays DEF HandleBlocks, OpenFails, Handling, orbit, OpenDatabase, carrier
<1>3. PICK all \in SUBSET Block : all = parked[p] \cup Task(p).blocks /\ Task(p).blocks \subseteq all
  <2>1. Task(p) \in Message
    BY <1>1, <1>2, TaskIsQueued DEF Honest
  <2>2. Task(p).blocks \in SUBSET Block
    BY <2>1 DEF Message
  <2>3. parked[p] \in SUBSET Block
    BY <1>1 DEF Places
  <2>. QED
    BY <2>2, <2>3
<1>a. store' = [store EXCEPT ![p] = store[p] \cup all] <=> store' = [store EXCEPT ![p] = @ \cup all]
  BY <1>1 DEF Places
<1>4. /\ parked' = [parked EXCEPT ![p] = all]
      /\ \/ busy' = [busy EXCEPT ![p] = "apply"] /\ UNCHANGED inbox
         \/ UNCHANGED busy /\ TaskDone(p)
      /\ \/ UNCHANGED phase
         \/ ~ Local(p) /\ phase' = [phase EXCEPT ![p] = "opening"]
      /\ UNCHANGED store \/ store' = [store EXCEPT ![p] = store[p] \cup all]
  <2>1. CASE HandleBlocks(p)
    BY <1>3, <1>a, <2>1 DEF HandleBlocks, Applying, OpenDatabase, orbit
  <2>2. CASE OpenFails(p)
    BY <1>3, <1>a, <2>2 DEF OpenFails
  <2>. QED
    BY <2>1, <2>2
<1>5. PICK K : K = Honest'
  OBVIOUS
<1>6. \A q \in Peer : log[q] \subseteq log'[q] /\ (phase[q] = "handed" => phase'[q] = "handed") /\ (phase'[q] # "handed" => phase[q] # "handed")
  BY <1>1, <1>2, <1>4 DEF Local, Places
<1>b. \A q \in Peer : phase[q] = "none" \/ phase'[q] # "none"
  BY <1>1, <1>4 DEF Places
<1>7. Honest \subseteq K
  BY <1>1, <1>2, <1>5, <1>6, <1>b, HonestStays
<1>8. Spoken(K)' /\ Queued(K)
  <2>1. Spoken(K) /\ Queued(K)
    BY <1>1, <1>7, SpokenWithin, QueuedWithin
  <2>. QED
    BY <1>2, <2>1 DEF Spoken
<1>9. Queued(K)' /\ \A q \in Peer \ {p} : inbox'[q] = inbox[q]
  <2>1. CASE UNCHANGED inbox
    BY <1>8, <2>1 DEF Queued
  <2>2. CASE TaskDone(p)
    BY <1>2, <1>8, <2>2, TaskDoneKeeps
  <2>. QED
    BY <1>4, <2>1, <2>2
<1>10. Places'
  <2>1. log' \in [Peer -> SUBSET Entry] /\ store' \in [Peer -> SUBSET Block] /\ parked' \in [Peer -> SUBSET Block]
    BY <1>1, <1>2, <1>3, <1>4 DEF Places
  <2>2. phase' \in [Peer -> {"none", "opening", "handed"}] /\ busy' \in [Peer -> {"no", "apply", "ack"}]
    BY <1>1, <1>4 DEF Places
  <2>. QED
    BY <1>1, <1>2, <1>6, <2>1, <2>2 DEF Places
<1>11. UnderWay'
  <2>1. ASSUME NEW q \in Peer
        PROVE  /\ busy'[q] # "no" => inbox'[q] # <<>>
               /\ busy'[q] = "apply" => Task(q)'.t = "blocks" /\ Task(q)'.blocks \subseteq parked'[q]
    <3>1. CASE q # p
      BY <1>1, <1>4, <1>9, <3>1 DEF UnderWay, Task, Places
    <3>2. CASE q = p /\ busy' = [busy EXCEPT ![p] = "apply"] /\ UNCHANGED inbox
      BY <1>1, <1>2, <1>3, <1>4, <3>2 DEF Task, Places
    <3>3. CASE q = p /\ UNCHANGED busy
      BY <1>2, <3>3
    <3>. QED
      BY <1>4, <3>1, <3>2, <3>3
  <2>. QED
    BY <2>1 DEF UnderWay
<1>. QED
  BY <1>5, <1>8, <1>9, <1>10, <1>11, SaidWith

\* What joining blocks sends: the heads of the log it made.
LEMMA AppliesWhole ==
  ASSUME Said, NEW p \in Peer, ApplyWhole(p)
  PROVE  /\ Places'
         /\ \E K : \E grown \in SUBSET Entry, items \in Seq(ItemOf(Of(K, p))) :
              /\ K = Honest' /\ Honest \subseteq K /\ Spoken(K)
              /\ Enqueue(p, items) /\ Len(items) <= 2
              /\ items # <<>> /\ items[Len(items)].message = Announce(p, Heads(grown))
              /\ log' = [log EXCEPT ![p] = grown] /\ log[p] \subseteq grown
              /\ parked' = [parked EXCEPT ![p] = {}] /\ phase' = [phase EXCEPT ![p] = "handed"]
              /\ busy[p] = "apply" /\ busy' = [busy EXCEPT ![p] = "ack"] /\ UNCHANGED <<inbox, harmed>>
<1>. DEFINE heads == (Task(p).heads \cap parked[p] \cap Entry) \ log[p]
            st    == [store EXCEPT ![p] = @ \cup parked[p]]
<1>0. Places /\ Spoken(Honest)
  BY DEF Said
<1>1. PICK grown : grown = log[p] \cup (Reach(heads, Entry \ st[p]) \cap st[p])
  OBVIOUS
<1>2. /\ busy[p] = "apply" /\ store' = st /\ log' = [log EXCEPT ![p] = grown]
      /\ parked' = [parked EXCEPT ![p] = {}] /\ phase' = [phase EXCEPT ![p] = "handed"]
      /\ Enqueue(p, <<Send(Announce(p, Heads(grown)), "ack")>>)
      /\ busy' = [busy EXCEPT ![p] = "ack"] /\ UNCHANGED <<inbox, harmed>>
  BY <1>1 DEF ApplyWhole, bounds
<1>3. grown \in SUBSET Entry /\ log[p] \subseteq grown /\ Heads(grown) \subseteq grown
  BY <1>0, <1>1, ReachIsEntries DEF Places, Heads
<1>4. Places'
  <2>1. store' \in [Peer -> SUBSET Block] /\ parked' \in [Peer -> SUBSET Block] /\ log' \in [Peer -> SUBSET Entry]
    BY <1>0, <1>2, <1>3 DEF Places
  <2>2. phase' \in [Peer -> {"none", "opening", "handed"}] /\ busy' \in [Peer -> {"no", "apply", "ack"}]
    BY <1>0, <1>2 DEF Places
  <2>3. \A q \in Peer : phase'[q] # "handed" => log'[q] = {}
    BY <1>0, <1>2 DEF Places
  <2>. QED
    BY <2>1, <2>2, <2>3 DEF Places
<1>5. PICK K : K = Honest'
  OBVIOUS
<1>6. Honest \subseteq K
  <2>1. \A q \in Peer : log[q] \subseteq log'[q] /\ (phase[q] = "handed" => phase'[q] = "handed")
    BY <1>0, <1>2, <1>3 DEF Places
  <2>2. \A q \in Peer : phase[q] = "none" \/ phase'[q] # "none"
    BY <1>0, <1>2 DEF Places
  <2>. QED
    BY <1>0, <1>2, <1>5, <2>1, <2>2, HonestStays
<1>7. Announce(p, Heads(grown)) \in Of(K, p)
  <2>1. log'[p] = grown
    BY <1>0, <1>2 DEF Places
  <2>2. PICK a : a = Announce(p, Heads(grown))
    OBVIOUS
  <2>3. a \in Message /\ a.from = p /\ a.heads \subseteq log'[p] /\ a.t # "blocks"
    BY <1>3, <2>1, <2>2 DEF Announce, Message, Kind, Block
  <2>4. phase'[p] # "none"
    BY <1>0, <1>2 DEF Places
  <2>. QED
    BY <1>5, <2>2, <2>3, <2>4 DEF Of, Honest
<1>8. Spoken(K)
  BY <1>0, <1>6, SpokenWithin
<1>9. PICK i : i = Send(Announce(p, Heads(grown)), "ack")
  OBVIOUS
<1>10. i \in ItemOf(Of(K, p)) /\ i.message = Announce(p, Heads(grown))
  BY <1>7, <1>9, ItemsOf DEF Send
<1>11. PICK I : I = ItemOf(Of(K, p))
  OBVIOUS
<1>12. PICK items \in Seq(I) : items = <<i>> /\ Len(items) <= 2 /\ items # <<>> /\ items[Len(items)] = i
  BY <1>10, <1>11, ItemsSent
<1>13. Enqueue(p, items)
  BY <1>2, <1>9, <1>12
<1>14. items[Len(items)].message = Announce(p, Heads(grown))
  BY ONLY <1>10, <1>12
<1>15. items \in Seq(ItemOf(Of(K, p)))
  BY ONLY <1>11, <1>12
<1>16. /\ K = Honest' /\ Honest \subseteq K /\ Spoken(K) /\ grown \in SUBSET Entry
       /\ Enqueue(p, items) /\ Len(items) <= 2
       /\ items # <<>> /\ items[Len(items)].message = Announce(p, Heads(grown))
       /\ log' = [log EXCEPT ![p] = grown] /\ log[p] \subseteq grown
       /\ parked' = [parked EXCEPT ![p] = {}] /\ phase' = [phase EXCEPT ![p] = "handed"]
       /\ busy[p] = "apply" /\ busy' = [busy EXCEPT ![p] = "ack"] /\ UNCHANGED <<inbox, harmed>>
  BY <1>2, <1>3, <1>5, <1>6, <1>8, <1>12, <1>13, <1>14
<1>. HIDE DEF heads, st
<1>. QED
  BY <1>4, <1>15, <1>16, Zenon

LEMMA SaidApplies ==
  ASSUME Said, NEW p \in Peer, ApplyPart(p) \/ ApplyWhole(p) \/ AckDone(p)
  PROVE  Said'
<1>1. Places /\ Spoken(Honest) /\ Queued(Honest) /\ UnderWay
  BY DEF Said
<1>2. inbox[p] # <<>> /\ busy[p] # "no"
  BY <1>1 DEF ApplyPart, ApplyWhole, AckDone, UnderWay
<1>3. Task(p) \in Honest /\ Task(p) \in Message /\ Task(p).from \in Peer
  BY <1>1, <1>2, TaskIsQueued DEF Honest, Message
<1>4. ASSUME ApplyPart(p) PROVE Said'
  <2>1. Missing(p) \in SUBSET Entry
    BY NextAssumption DEF Missing
  <2>2. Want(p, Missing(p), Heads(log[p])) \in Of(Honest, p)
    BY <1>1, <2>1, WantIsHonest
  <2>3. Post(Want(p, Missing(p), Heads(log[p])), Task(p).from) \in ItemOf(Of(Honest, p))
    BY <1>3, <2>2, ItemsOf DEF Post
  <2>4. PICK items \in Seq(ItemOf(Of(Honest, p))) :
          items = <<Post(Want(p, Missing(p), Heads(log[p])), Task(p).from)>> /\ Len(items) <= 2
    BY <2>3, OneItem
  <2>5. Enqueue(p, items) /\ TaskDone(p) /\ UNCHANGED <<log, phase, parked, harmed>>
        /\ busy' = [busy EXCEPT ![p] = "no"]
    BY <1>4, <2>4 DEF ApplyPart, bounds
  <2>6. store' \in [Peer -> SUBSET Block] /\ busy'[p] = "no"
    BY <1>1, <1>4, <2>5 DEF ApplyPart, Places
  <2>. QED
    BY <1>2, <2>4, <2>5, <2>6, HandledKeeps
<1>5. ASSUME AckDone(p) PROVE Said'
  <2>1. /\ TaskDone(p) /\ busy' = [busy EXCEPT ![p] = "no"]
        /\ UNCHANGED <<log, store, phase, parked, outbox, sending, air, harmed>>
    BY <1>5 DEF AckDone, orbit, carrier, bounds
  <2>2. PICK K : K = Honest
    OBVIOUS
  <2>3. K = Honest'
    BY <2>1, <2>2, HonestSame
  <2>4. Queued(K)' /\ \A q \in Peer \ {p} : inbox'[q] = inbox[q]
    BY <1>1, <1>2, <2>1, <2>2, TaskDoneKeeps
  <2>5. Spoken(K)'
    BY <1>1, <2>1, <2>2 DEF Spoken
  <2>6. Places' /\ UnderWay'
    BY <1>1, <2>1, <2>4 DEF Places, UnderWay, Task
  <2>. QED
    BY <2>3, <2>4, <2>5, <2>6, SaidWith
<1>6. ASSUME ApplyWhole(p) PROVE Said'
  <2>1. PICK K : \E items \in Seq(ItemOf(Of(K, p))) :
          /\ K = Honest' /\ Honest \subseteq K /\ Spoken(K) /\ Enqueue(p, items) /\ Len(items) <= 2
          /\ parked' = [parked EXCEPT ![p] = {}] /\ busy' = [busy EXCEPT ![p] = "ack"] /\ UNCHANGED inbox
    BY <1>6, AppliesWhole
  <2>2. Spoken(K)'
    BY <2>1, EnqueueKeeps
  <2>3. Queued(K)'
    BY <1>1, <2>1, QueuedWithin DEF Queued
  <2>4. UnderWay'
    <3>1. \A q \in Peer : busy'[q] # "no" => inbox'[q] # <<>>
      BY <1>1, <1>2, <2>1 DEF UnderWay, Places
    <3>2. \A q \in Peer : busy'[q] = "apply" => q # p /\ busy[q] = "apply" /\ parked'[q] = parked[q]
      BY <1>1, <2>1 DEF Places
    <3>. QED
      BY <1>1, <2>1, <3>1, <3>2 DEF UnderWay, Task
  <2>. QED
    BY <1>6, <2>1, <2>2, <2>3, <2>4, AppliesWhole, SaidWith
<1>. QED
  BY <1>4, <1>5, <1>6

LEMMA SaidSends ==
  ASSUME Said, [Next]_vars, NEW p \in Peer, Start(p) \/ Poke(p) \/ SendResolves(p) \/ SendFails(p) \/ StartDone(p) \/ Stop(p)
  PROVE  Said'
<1>1. PICK K : K = Honest'
  OBVIOUS
<1>2. UNCHANGED <<log, store, phase, parked, busy, inbox>> /\ (harmed => harmed')
  BY HarmStays DEF Start, Poke, SendResolves, SendFails, StartDone, Stop, orbit
<1>3. Honest \subseteq K /\ Spoken(K) /\ Queued(K) /\ Places
  BY <1>1, <1>2, HonestKept, SpokenWithin, QueuedWithin DEF Said
<1>4. ASSUME NEW w \in {"nobody", "start", "ack"}, Enqueue(p, <<Send(Standing(p), w)>>) PROVE Spoken(K)'
  <2>0. Standing(p) \in Of(K, p)
    BY <1>3, StandingIsHonest DEF Of
  <2>1. Send(Standing(p), w) \in ItemOf(Of(K, p))
    BY <2>0, ItemsOf DEF Send
  <2>2. PICK items \in Seq(ItemOf(Of(K, p))) : items = <<Send(Standing(p), w)>> /\ Len(items) <= 2
    BY <2>1, OneItem
  <2>. QED
    BY <1>3, <1>4, <2>2, EnqueueKeeps
<1>5. Spoken(K)'
  <2>1. CASE Start(p)
    BY <1>4, <2>1 DEF Start
  <2>2. CASE Poke(p)
    BY <1>4, <2>2 DEF Poke
  <2>3. CASE SendResolves(p) \/ SendFails(p)
    BY <1>3, <2>3, NextOutKeeps DEF SendResolves, SendFails
  <2>4. CASE StartDone(p) \/ Stop(p)
    BY <1>3, <2>4 DEF StartDone, Stop, carrier, Spoken
  <2>. QED
    BY <2>1, <2>2, <2>3, <2>4
<1>6. Queued(K)' /\ Places' /\ UnderWay'
  BY <1>2, <1>3 DEF Said, Queued, Places, UnderWay, Task
<1>. QED
  BY <1>1, <1>5, <1>6, SaidWith

\* A task of the peer's own joins its queue.
LEMMA SoonKeeps ==
  ASSUME NEW H, Queued(H), UnderWay, NEW p \in Peer, Soon(p) \in H, UNCHANGED <<busy, parked>>,
         inbox' = [inbox EXCEPT ![p] = Append(@, Soon(p))] \/ UNCHANGED inbox
  PROVE  Queued(H)' /\ UnderWay'
<1>1. CASE UNCHANGED inbox
  BY <1>1 DEF Queued, UnderWay, Task
<1>2. CASE inbox' = [inbox EXCEPT ![p] = Append(@, Soon(p))]
  <2>1. inbox' = [q \in Peer |-> IF q \in {p} THEN Append(inbox[q], Soon(p)) ELSE inbox[q]]
    BY <1>2 DEF Queued
  <2>2. Soon(p).t = "soon"
    BY SoonIsHonest
  <2>. QED
    BY <2>1, <2>2, QueueKeeps
<1>. QED
  BY <1>1, <1>2

LEMMA SaidRejoins ==
  ASSUME Said, NEW p \in Peer, RejoinFires(p)
  PROVE  Said'
<1>1. PICK K : K = Honest
  OBVIOUS
<1>2. /\ UNCHANGED <<log, store, phase, parked, busy, outbox, sending, air, harmed>>
      /\ inbox' = [inbox EXCEPT ![p] = Append(@, Soon(p))] \/ UNCHANGED inbox
  BY DEF RejoinFires, orbit, carrier, bounds
<1>3. K = Honest'
  BY <1>1, <1>2, HonestSame
<1>4. Queued(K)' /\ UnderWay'
  BY <1>1, <1>2, SoonIsHonest, SoonKeeps DEF Said
<1>5. Spoken(K)' /\ Places'
  BY <1>1, <1>2 DEF Said, Spoken, Places
<1>. QED
  BY <1>3, <1>4, <1>5, SaidWith

LEMMA SaidWrites ==
  ASSUME Said, NEW p \in Peer, NEW e \in Entry, Write(p, e)
  PROVE  Said'
<1>1. PICK K : K = Honest'
  OBVIOUS
<1>2. /\ phase[p] = "handed" /\ log' = [log EXCEPT ![p] = log[p] \cup {e}]
      /\ store' = [store EXCEPT ![p] = store[p] \cup {e}]
      /\ UNCHANGED <<phase, parked, busy, outbox, sending, air, harmed>>
      /\ inbox' = [inbox EXCEPT ![p] = Append(@, Soon(p))] \/ UNCHANGED inbox
  BY DEF Write, HearUpdate, carrier, bounds, Said, Places
<1>3. Places'
  BY <1>2 DEF Said, Places, Block
<1>4. Honest \subseteq K
  BY <1>1, <1>2, HonestStays DEF Said, Places
<1>5. Spoken(K)'
  <2>1. Spoken(K)
    BY <1>4, SpokenWithin DEF Said
  <2>. QED
    BY <1>2, <2>1 DEF Spoken
<1>6. Queued(K)' /\ UnderWay'
  <2>1. Queued(K) /\ Soon(p) \in K
    BY <1>4, QueuedWithin, SoonIsHonest DEF Said
  <2>. QED
    BY <1>2, <2>1, SoonKeeps DEF Said
<1>. QED
  BY <1>1, <1>3, <1>5, <1>6, SaidWith

LEMMA SaidCrashes ==
  ASSUME Said, NEW p \in Peer, Crash(p)
  PROVE  Said'
<1>1. PICK K : K = Honest'
  OBVIOUS
<1>2. /\ phase' = [phase EXCEPT ![p] = IF @ = "handed" THEN @ ELSE "none"]
      /\ parked' = [parked EXCEPT ![p] = {}] /\ inbox' = [inbox EXCEPT ![p] = <<>>]
      /\ busy' = [busy EXCEPT ![p] = "no"]
      /\ outbox' = [outbox EXCEPT ![p] = <<>>] /\ sending' = [sending EXCEPT ![p] = <<>>]
      /\ UNCHANGED <<log, store, air>> /\ harmed'
  BY DEF Crash, Fault
<1>3. \A q \in Peer : phase'[q] = IF q = p /\ phase[p] # "handed" THEN "none" ELSE phase[q]
  BY <1>2 DEF Said, Places
<1>4. Places'
  <2>1. parked' \in [Peer -> SUBSET Block] /\ busy' \in [Peer -> {"no", "apply", "ack"}]
    BY <1>2 DEF Said, Places
  <2>2. phase' \in [Peer -> {"none", "opening", "handed"}]
    BY <1>2 DEF Said, Places
  <2>. QED
    BY <1>2, <1>3, <2>1, <2>2 DEF Said, Places
<1>5. Honest \subseteq K
  BY <1>1, <1>2, <1>3, HonestStays DEF Said
<1>6. Spoken(K) /\ Queued(K)
  BY <1>5, SpokenWithin, QueuedWithin DEF Said
<1>7. Spoken(K)' /\ Queued(K)'
  <2>1. \A S : <<>> \in Seq(S)
    OBVIOUS
  <2>2. Spoken(K)'
    BY <1>2, <1>6, <2>1 DEF Spoken
  <2>3. Queued(K)'
    BY <1>2, <1>6, <2>1 DEF Queued
  <2>. QED
    BY <2>2, <2>3
<1>8. UnderWay'
  BY <1>2 DEF Said, UnderWay, Task, Places, Queued
<1>. QED
  BY <1>1, <1>4, <1>7, <1>8, SaidWith

LEMMA SaidTravels ==
  ASSUME Said, [Next]_vars, NEW p \in Peer, Deliver(p) \/ Overtake(p) \/ Lose(p) \/ Double(p)
  PROVE  Said'
<1>1. PICK K : K = Honest'
  OBVIOUS
<1>2. Spoken(K) /\ Queued(K) /\ UnderWay /\ Places
  <2>1. UNCHANGED <<log, phase>> /\ (harmed => harmed')
    BY HarmStays DEF Deliver, Overtake, Lose, Double, Arrives, orbit
  <2>. QED
    BY <1>1, <2>1, HonestKept, SpokenWithin, QueuedWithin DEF Said
<1>3. air[p] \in Seq(Of(K, p)) /\ DOMAIN air[p] = 1..Len(air[p]) /\ Len(air[p]) \in Nat
  <2>1. air[p] \in Seq(Of(K, p))
    BY <1>2 DEF Spoken
  <2>. QED
    BY <2>1, LenProperties
<1>4. \A i \in 1..Len(air[p]) : air[p][i] \in K /\ air[p][i].from = p
  BY <1>3, ElementOfSeq DEF Of
<1>5. ASSUME NEW i \in 1..Len(air[p]), NEW missed, Arrives(p, i, missed) PROVE Said'
  <2>1. UNCHANGED <<log, store, phase, parked, busy, outbox, sending>>
    BY <1>5 DEF Arrives, orbit
  <2>2. K = Honest'
    BY <1>1
  <2>3. PICK left \in Seq(Of(K, p)) : left = RemoveAt(air[p], i)
    BY <1>3, RemoveAtKeeps
  <2>4. air' = [air EXCEPT ![p] = left]
    BY <1>5, <2>3 DEF Arrives, Spoken
  <2>5. Spoken(K)'
    BY <1>2, <2>1, <2>3, <2>4 DEF Spoken
  <2>6. PICK m \in K : m = air[p][i] /\ m.from = p
    BY <1>4
  <2>7. PICK S \in SUBSET Peer : S = {q \in Peer : started[q] /\ q \notin missed \cup {p}}
    OBVIOUS
  <2>8. inbox' = [q \in Peer |-> IF q \in S THEN Append(inbox[q], m) ELSE inbox[q]]
    BY <1>5, <2>6, <2>7 DEF Arrives
  <2>9. Queued(K)' /\ UnderWay'
    BY <1>2, <2>1, <2>6, <2>7, <2>8, QueueKeeps
  <2>10. Places'
    BY <1>2, <2>1 DEF Places
  <2>. QED
    BY <2>2, <2>5, <2>9, <2>10, SaidWith
<1>6. ASSUME NEW i \in 1..Len(air[p]), air' = [air EXCEPT ![p] = Append(@, @[i])],
             UNCHANGED <<log, store, phase, parked, busy, inbox, outbox, sending>>
      PROVE  Said'
  <2>1. K = Honest'
    BY <1>1
  <2>2. PICK more \in Seq(Of(K, p)) : more = Append(air[p], air[p][i])
    BY <1>3, ElementOfSeq, AppendProperties
  <2>3. air' = [air EXCEPT ![p] = more]
    BY <1>6, <2>2 DEF Spoken
  <2>4. Spoken(K)'
    BY <1>2, <1>6, <2>2, <2>3 DEF Spoken
  <2>5. Queued(K)' /\ Places' /\ UnderWay'
    BY <1>2, <1>6 DEF Queued, Places, UnderWay, Task
  <2>. QED
    BY <2>1, <2>4, <2>5, SaidWith
<1>7. air[p] # <<>> => 1 \in 1..Len(air[p])
  BY <1>3, EmptySeq
<1>8. CASE Deliver(p) \/ Lose(p)
  BY <1>5, <1>7, <1>8 DEF Deliver, Lose
<1>9. CASE Overtake(p)
  BY <1>3, <1>5, <1>9 DEF Overtake
<1>10. CASE Double(p)
  BY <1>3, <1>6, <1>10 DEF Double, orbit
<1>. QED
  BY <1>8, <1>9, <1>10

LEMMA SaidBegins == Init => Said
<1>. SUFFICES ASSUME Init PROVE Said
  OBVIOUS
<1>1. Places
  BY PeerAssumption DEF Init, Places, Block
<1>2. \A S : <<>> \in Seq(S)
  OBVIOUS
<1>3. Spoken(Honest) /\ Queued(Honest) /\ UnderWay
  BY <1>2 DEF Init, Spoken, Queued, UnderWay
<1>. QED
  BY <1>1, <1>3 DEF Said

LEMMA SaidNext == Said /\ [Next]_vars => Said'
<1>. SUFFICES ASSUME Said, [Next]_vars PROVE Said'
  OBVIOUS
<1>1. CASE UNCHANGED vars
  <2>1. PICK K : K = Honest
    OBVIOUS
  <2>2. K = Honest'
    BY <1>1, <2>1, HonestSame DEF vars, orbit, bounds
  <2>3. Spoken(K)' /\ Queued(K)' /\ Places' /\ UnderWay'
    BY <1>1, <2>1 DEF vars, orbit, carrier, Said, Spoken, Queued, Places, UnderWay, Task
  <2>. QED
    BY <2>2, <2>3, SaidWith
<1>2. ASSUME NEW p \in Peer, Work(p) PROVE Said'
  BY <1>2, SaidAnswers, SaidParks, SaidApplies, SaidSends, SaidRejoins DEF Work, Handle
<1>3. ASSUME NEW p \in Peer, Application(p) PROVE Said'
  BY <1>3, SaidSends, SaidWrites DEF Application
<1>4. CASE Failure
  BY <1>4, SaidTravels, SaidSends, SaidParks, SaidCrashes DEF Failure
<1>. QED
  BY <1>1, <1>2, <1>3, <1>4, SaidSends, SaidTravels DEF Next

\* What is said is so, whatever the carrier does with it.
LEMMA WhatIsSaidIsSo == Spec => []Said
BY SaidBegins, SaidNext, PTL DEF Spec

-----------------------------------------------------------------------------
(* HandedOutWhole.                                                          *)

\* Only ApplyWhole hands a database out, and with it all heads of the blocks that
\* are parked.
LEMMA HandsOut ==
  ASSUME Said, [Next]_vars, NEW p \in Peer, phase[p] # "handed", phase'[p] = "handed"
  PROVE  ApplyWhole(p)
<1>1. phase \in [Peer -> {"none", "opening", "handed"}]
  BY DEF Said, Places
<1>2. ~ (UNCHANGED phase)
  OBVIOUS
<1>3. ASSUME NEW q \in Peer, Work(q) PROVE ApplyWhole(p)
  <2>1. HandleBlocks(q) \/ ApplyWhole(q)
    BY <1>2, <1>3 DEF Work, Handle, HandleSoon, HandleAnnounce, HandleWant, ApplyPart, AckDone, StartDone, RejoinFires, orbit
  <2>2. CASE HandleBlocks(q)
    BY <1>1, <2>2 DEF HandleBlocks, OpenDatabase, orbit
  <2>3. CASE ApplyWhole(q)
    <3>1. p = q
      BY <1>1, <2>3 DEF ApplyWhole
    <3>. QED
      BY <2>3, <3>1
  <2>. QED
    BY <2>1, <2>2, <2>3
<1>4. ASSUME NEW q \in Peer, SendResolves(q) \/ Deliver(q) \/ Application(q) PROVE FALSE
  BY <1>2, <1>4 DEF SendResolves, Deliver, Arrives, Application, Start, Poke, Write, orbit
<1>5. CASE Failure
  <2>1. PICK q \in Peer : Crash(q)
    BY <1>2, <1>5 DEF Failure, Lose, Double, Overtake, Arrives, SendFails, OpenFails, Stop, orbit
  <2>. QED
    BY <1>1, <2>1 DEF Crash
<1>6. CASE UNCHANGED vars
  BY <1>2, <1>6 DEF vars, orbit
<1>. QED
  BY <1>3, <1>4, <1>5, <1>6 DEF Next

\* The delivery that opens a database brings what its heads name, to any number of
\* peers.
LEMMA OpeningIsWhole ==
  ASSUME Said, NEW p \in Peer, ApplyWhole(p), Manifest \in Task(p).blocks
  PROVE  Task(p).heads \subseteq log'[p]
<1>1. inbox[p] # <<>> /\ Task(p).t = "blocks" /\ Task(p).blocks \subseteq parked[p]
  BY DEF Said, UnderWay, ApplyWhole
<1>2. Task(p) \in Honest
  BY <1>1, TaskIsQueued DEF Said
<1>3. Task(p).heads \subseteq parked[p] /\ Task(p).heads \subseteq Entry
  BY <1>1, <1>2 DEF Honest, Message
<1>. DEFINE heads == (Task(p).heads \cap parked[p] \cap Entry) \ log[p]
            S == store[p] \cup parked[p]
<1>4. heads \subseteq Reach(heads, Entry \ S) /\ heads \subseteq S
  BY DEF Reach
<1>5. log'[p] = log[p] \cup (Reach(heads, Entry \ S) \cap S)
  BY DEF ApplyWhole, Said, Places
<1>. QED
  BY <1>3, <1>4, <1>5

\* Between a founder and a joiner, or any two peers, the application gets the database
\* only with all that the delivery which completed it named, whatever is lost, doubled,
\* late or interrupted.  (Among more, what is overheard can complete it.)
THEOREM HandedOutBetweenTwo == ASSUME Two PROVE Spec => HandedOutWhole
<1>1. ASSUME Said, [Next]_vars, NEW p \in Peer, phase[p] # "handed", phase'[p] = "handed"
      PROVE  Task(p).heads \subseteq log'[p]
  <2>1. ApplyWhole(p)
    BY <1>1, HandsOut
  <2>2. inbox[p] # <<>> /\ Task(p).t = "blocks"
    BY <1>1, <2>1 DEF Said, UnderWay, ApplyWhole
  <2>3. Task(p) \in Honest /\ Task(p).from # p
    BY <1>1, <2>2, TaskIsQueued DEF Said
  <2>4. Manifest \in Task(p).blocks
    BY <1>1, <2>2, <2>3 DEF Honest
  <2>. QED
    BY <1>1, <2>1, <2>4, OpeningIsWhole
<1>2. Said /\ [Next]_vars =>
        [\A p \in Peer : phase[p] # "handed" /\ phase'[p] = "handed" => Task(p).heads \subseteq log'[p]]_vars
  BY <1>1
<1>. QED
  BY <1>2, WhatIsSaidIsSo, PTL DEF Spec, HandedOutWhole

-----------------------------------------------------------------------------
(* Replicates.                                                              *)

\* Blocks P, with heads H among them, close over a log L and are all in a storage S.
CloseOver(L, P, H, S) ==
  /\ L \in SUBSET Entry /\ Past(L) \subseteq L
  /\ P \in SUBSET Entry /\ \A x \in P : next[x] \subseteq P \cup L
  /\ H \in SUBSET P /\ P \subseteq S

\* Joining them adds their heads with all behind these, and nothing else.
LEMMA JoinTakesThePast ==
  ASSUME NEW L, NEW P, NEW H, NEW S, CloseOver(L, P, H, S)
  PROVE  L \cup (Reach(H, Entry \ S) \cap S) = L \cup Past(H)
<1>. USE DEF CloseOver
<1>. DEFINE R == Reach(H, Entry \ S)
<1>1. \A x \in L : next[x] \subseteq L
  BY PastExtends, PastIsClosed
<1>2. R \subseteq P \cup L /\ R \in SUBSET Entry
  <2>1. R \subseteq P \cup L
    BY <1>1, ReachIsLeast
  <2>. QED
    BY <2>1, ReachIsEntries
<1>3. H \subseteq R
  BY DEF Reach
<1>4. ASSUME NEW x \in R \cup L PROVE next[x] \subseteq R \cup L
  <2>1. CASE x \in L
    BY <1>1, <2>1
  <2>2. CASE x \in R /\ x \in P
    <3>1. x \notin Entry \ S
      BY <2>2
    <3>. QED
      BY <2>2, <3>1, ReachIsClosed
  <2>. QED
    BY <1>2, <2>1, <2>2
<1>5. Past(H) \subseteq R \cup L
  <2>. HIDE DEF R
  <2>. QED
    BY <1>2, <1>3, <1>4, PastIsLeast
<1>6. R \subseteq Past(H)
  <2>1. Past(H) \in SUBSET Entry /\ H \subseteq Past(H) /\ \A x \in Past(H) : next[x] \subseteq Past(H)
    BY PastExtends, PastIsClosed, ReachIsEntries DEF Past
  <2>. QED
    BY <2>1, ReachIsLeast
<1>. QED
  BY <1>2, <1>5, <1>6

\* A join takes over heads of the log of whoever sent the blocks.
LEMMA JoinTakesOver ==
  ASSUME Said, Closed, NEW p \in Peer, ApplyWhole(p) PROVE Promise!TakeOver(p, Task(p).from)
<1>. DEFINE P == parked[p] \cap Entry
            H == (Task(p).heads \cap parked[p] \cap Entry) \ log[p]
            S == store[p] \cup parked[p]
<1>1. inbox[p] # <<>>
  BY DEF Said, UnderWay, ApplyWhole
<1>2. Task(p) \in Honest
  BY <1>1, TaskIsQueued DEF Said
<1>3. H \in SUBSET log[Task(p).from]
  BY <1>2 DEF Honest
<1>4. log' = [log EXCEPT ![p] = log[p] \cup (Reach(H, Entry \ S) \cap S)]
  BY DEF ApplyWhole, Said, Places
<1>5. log[p] \cup (Reach(H, Entry \ S) \cap S) = log[p] \cup Past(H)
  <2>1. \A x \in P : next[x] \subseteq P \cup log[p]
    <3>1. UNION {next[e] : e \in P} \subseteq parked[p] \cup log[p]
      BY DEF ApplyWhole, Missing
    <3>. QED
      BY <3>1, NextAssumption
  <2>2. log[p] \in SUBSET Entry /\ Past(log[p]) \subseteq log[p]
    BY DEF Closed, LogsAreClosed
  <2>3. P \in SUBSET Entry /\ H \in SUBSET P /\ P \subseteq S
    OBVIOUS
  <2>4. CloseOver(log[p], P, H, S)
    <3>. HIDE DEF P, H, S
    <3>. QED
      BY <2>1, <2>2, <2>3 DEF CloseOver
  <2>. HIDE DEF P, H, S
  <2>. QED
    BY ONLY <2>4, JoinTakesThePast
<1>6. log' = [log EXCEPT ![p] = log[p] \cup Past(H)]
  BY <1>4, <1>5
<1>7. Past(H) = Promise!Past(H)
  BY DEF Past, Reach, Promise!Past, Promise!Reach
<1>. HIDE DEF H
<1>. QED
  BY <1>3, <1>6, <1>7 DEF Promise!TakeOver

\* The logs change by ApplyWhole and Write alone.
LEMMA LogsChangeBy ==
  ASSUME [Next]_vars
  PROVE  \/ UNCHANGED log
         \/ \E p \in Peer : ApplyWhole(p) \/ \E e \in Entry : Write(p, e)
<1>1. ASSUME NEW p \in Peer, Work(p) PROVE ApplyWhole(p) \/ UNCHANGED log
  BY <1>1 DEF Work, Handle, HandleSoon, HandleAnnounce, HandleWant, HandleBlocks, OpenDatabase, ApplyPart, AckDone,
     StartDone, RejoinFires, orbit
<1>2. ASSUME NEW p \in Peer, SendResolves(p) \/ Deliver(p) \/ Start(p) \/ Poke(p) PROVE UNCHANGED log
  BY <1>2 DEF SendResolves, Deliver, Arrives, Start, Poke, orbit
<1>3. CASE Failure
  BY <1>3 DEF Failure, Lose, Double, Overtake, Arrives, SendFails, OpenFails, Stop, Crash, orbit
<1>4. CASE UNCHANGED vars
  BY <1>4 DEF vars, orbit
<1>. QED
  BY <1>1, <1>2, <1>3, <1>4 DEF Next, Application

\* Logs change as Replicas says: by a local write that points at its log's heads, or by
\* taking over heads of another's log with all behind them; for any number of peers,
\* any graph, and whatever the carrier, the outboxes and crashes do.
THEOREM ImplementsReplicas == Spec => Replicates
<1>1. Init => Promise!Init
  BY DEF Init, Promise!Init
<1>2. ASSUME Said, Closed, [Next]_vars PROVE [Promise!Next]_log
  <2>1. ASSUME NEW p \in Peer, ApplyWhole(p) PROVE Promise!Next
    <3>1. Task(p).from \in Peer
      <4>1. inbox[p] # <<>>
        BY <1>2, <2>1 DEF Said, UnderWay, ApplyWhole
      <4>. QED
        BY <1>2, <4>1, TaskIsQueued DEF Said, Honest, Message
    <3>2. Promise!TakeOver(p, Task(p).from)
      BY <1>2, <2>1, JoinTakesOver
    <3>. QED
      BY <3>1, <3>2 DEF Promise!Next
  <2>2. ASSUME NEW p \in Peer, NEW e \in Entry, Write(p, e) PROVE Promise!Next
    <3>1. Promise!Write(p, e)
      BY <2>2 DEF Write, Promise!Write, Heads, Promise!Heads
    <3>. QED
      BY <3>1 DEF Promise!Next
  <2>. QED
    BY <1>2, <2>1, <2>2, LogsChangeBy
<1>3. Spec => []Closed
  BY ClosedInit, ClosedNext, PTL DEF Spec
<1>. QED
  BY <1>1, <1>2, <1>3, WhatIsSaidIsSo, PTL DEF Spec, Replicates, Promise!Spec

-----------------------------------------------------------------------------
(* What a sequence holds, and what is on its way. *)

\* What a sequence holds.
Elements(s) == {s[i] : i \in DOMAIN s}

\* Appended, tail and removed: what a sequence then holds.
LEMMA ElementsAppend ==
  ASSUME NEW S, NEW s \in Seq(S), NEW x \in S
  PROVE  Elements(Append(s, x)) = Elements(s) \cup {x}
<1>1. /\ Append(s, x) \in Seq(S) /\ Len(s) \in Nat /\ DOMAIN s = 1..Len(s)
      /\ DOMAIN Append(s, x) = 1..(Len(s) + 1)
      /\ \A i \in 1..Len(s) : Append(s, x)[i] = s[i]
      /\ Append(s, x)[Len(s) + 1] = x
  BY AppendProperties, LenProperties
<1>2. 1..(Len(s) + 1) = (1..Len(s)) \cup {Len(s) + 1}
  BY <1>1
<1>3. ASSUME NEW y PROVE y \in Elements(Append(s, x)) <=> y \in Elements(s) \cup {x}
  BY <1>1, <1>2 DEF Elements
<1>. QED BY <1>3

LEMMA ElementsTail ==
  ASSUME NEW S, NEW s \in Seq(S), s # <<>>
  PROVE  /\ Elements(s) = {Head(s)} \cup Elements(Tail(s))
         /\ Tail(s) \in Seq(S)
<1>1. /\ Len(s) \in Nat /\ DOMAIN s = 1..Len(s) /\ Len(s) > 0
      /\ Head(s) = s[1] /\ Tail(s) \in Seq(S) /\ Len(Tail(s)) = Len(s) - 1
      /\ \A i \in 1..Len(Tail(s)) : Tail(s)[i] = s[i + 1]
  <2>1. Len(s) \in Nat /\ Len(s) # 0  BY LenProperties, EmptySeq
  <2>. QED BY <2>1, HeadTailProperties, LenProperties
<1>2. DOMAIN Tail(s) = 1..(Len(s) - 1)  BY <1>1, LenProperties
<1>3. ASSUME NEW i \in 1..Len(s) PROVE s[i] \in {Head(s)} \cup Elements(Tail(s))
  <2>1. CASE i = 1  BY <1>1, <2>1
  <2>2. CASE i # 1
    <3>1. i - 1 \in 1..(Len(s) - 1) /\ i = (i - 1) + 1  BY <1>1, <2>2
    <3>2. Tail(s)[i - 1] = s[i]  BY <1>1, <3>1
    <3>. QED BY <1>2, <3>1, <3>2 DEF Elements
  <2>. QED BY <2>1, <2>2
<1>4. ASSUME NEW i \in 1..(Len(s) - 1) PROVE Tail(s)[i] \in Elements(s)
  <2>1. i + 1 \in 1..Len(s) /\ Tail(s)[i] = s[i + 1]  BY <1>1
  <2>. QED BY <1>1, <2>1 DEF Elements
<1>5. s[1] \in Elements(s)
  <2>1. 1 \in DOMAIN s  BY <1>1
  <2>. QED BY <2>1 DEF Elements
<1>. QED BY <1>1, <1>2, <1>3, <1>4, <1>5 DEF Elements

LEMMA ElementsRemove ==
  ASSUME NEW S, NEW s \in Seq(S), NEW i \in 1..Len(s)
  PROVE  Elements(s) \subseteq Elements(RemoveAt(s, i)) \cup {s[i]}
<1>. DEFINE a == SubSeq(s, 1, i - 1)
            b == SubSeq(s, i + 1, Len(s))
<1>1. Len(s) \in Nat /\ DOMAIN s = 1..Len(s) /\ \A j \in 1..Len(s) : s[j] \in S
  BY LenProperties, ElementOfSeq
<1>2. a \in Seq(S) /\ Len(a) = i - 1 /\ \A j \in 1..(i - 1) : a[j] = s[j]
  <2>1. \A j \in 1..(i - 1) : s[j] \in S  BY <1>1
  <2>. QED BY <1>1, <2>1, SubSeqProperties
<1>3. b \in Seq(S) /\ Len(b) = Len(s) - i /\ \A j \in 1..(Len(s) - i) : b[j] = s[i + j]
  <2>1. \A j \in (i + 1)..Len(s) : s[j] \in S  BY <1>1
  <2>0. Len(s) \in Nat  BY LenProperties
  <2>2. i \in Nat /\ i + 1 \in Nat /\ i <= Len(s)  BY <2>0
  <2>3. PICK m \in Int, n \in Int : m = i + 1 /\ n = Len(s)  BY <2>0, <2>2
  <2>4. \A j \in m..n : s[j] \in S  BY <2>1, <2>3
  <2>5. /\ SubSeq(s, m, n) \in Seq(S)
        /\ Len(SubSeq(s, m, n)) = (IF m <= n THEN n - m + 1 ELSE 0)
        /\ \A j \in 1..(n - m + 1) : SubSeq(s, m, n)[j] = s[m + j - 1]
    BY <2>4, SubSeqProperties
  <2>6. PICK t : t = SubSeq(s, m, n)  OBVIOUS
  <2>7. b = t  BY <2>3, <2>6
  <2>8. /\ t \in Seq(S) /\ Len(t) = (IF m <= n THEN n - m + 1 ELSE 0)
        /\ \A j \in 1..(n - m + 1) : t[j] = s[m + j - 1]
    BY <2>5, <2>6
  <2>9. Len(t) = Len(s) - i /\ n - m + 1 = Len(s) - i /\ \A j \in 1..(Len(s) - i) : m + j - 1 = i + j
    <3>1. PICK k \in Nat : k = i  BY <2>2
    <3>2. n \in Nat /\ k <= n /\ m = k + 1 /\ Len(t) = (IF m <= n THEN n - m + 1 ELSE 0)
      BY <2>0, <2>2, <2>3, <2>8, <3>1
    <3>3. Len(t) = n - k /\ n - m + 1 = n - k /\ \A j \in 1..(n - k) : m + j - 1 = k + j  BY <3>2
    <3>. QED BY <2>3, <3>1, <3>3
  <2>. QED BY <2>7, <2>8, <2>9
<1>. HIDE DEF a, b
<1>4. /\ a \o b \in Seq(S) /\ Len(a \o b) = Len(s) - 1 /\ DOMAIN (a \o b) = 1..(Len(s) - 1)
      /\ \A j \in 1..(i - 1) : (a \o b)[j] = s[j]
      /\ \A j \in i..(Len(s) - 1) : (a \o b)[j] = s[j + 1]
  <2>1. /\ a \o b \in Seq(S) /\ Len(a \o b) = Len(a) + Len(b)
        /\ \A j \in 1..(Len(a) + Len(b)) :
             (a \o b)[j] = IF j <= Len(a) THEN a[j] ELSE b[j - Len(a)]
    BY <1>2, <1>3, ConcatProperties
  <2>2. Len(a) + Len(b) = Len(s) - 1  BY <1>1, <1>2, <1>3
  <2>3. DOMAIN (a \o b) = 1..(Len(s) - 1)  BY <2>1, <2>2, LenProperties
  <2>4. ASSUME NEW j \in 1..(i - 1) PROVE (a \o b)[j] = s[j]
    <3>1. j \in 1..(Len(a) + Len(b)) /\ j <= Len(a)  BY <1>1, <1>2, <1>3
    <3>. QED BY <1>2, <2>1, <3>1
  <2>5. ASSUME NEW j \in i..(Len(s) - 1) PROVE (a \o b)[j] = s[j + 1]
    <3>1. /\ j \in 1..(Len(a) + Len(b)) /\ ~ (j <= Len(a)) /\ j - Len(a) \in 1..(Len(s) - i)
          /\ i + (j - Len(a)) = j + 1
      BY <1>1, <1>2, <1>3
    <3>. QED BY <1>3, <2>1, <3>1
  <2>. QED BY <2>1, <2>2, <2>3, <2>4, <2>5
<1>5. ASSUME NEW j \in 1..Len(s), j # i PROVE s[j] \in Elements(a \o b)
  <2>1. CASE j < i
    <3>1. j \in 1..(i - 1) /\ j \in 1..(Len(s) - 1)  BY <1>1, <2>1
    <3>. QED BY <1>4, <3>1 DEF Elements
  <2>2. CASE j > i
    <3>1. j - 1 \in i..(Len(s) - 1) /\ j - 1 \in 1..(Len(s) - 1) /\ (j - 1) + 1 = j  BY <1>1, <2>2
    <3>. QED BY <1>4, <3>1 DEF Elements
  <2>. QED BY <1>1, <1>5, <2>1, <2>2
<1>6. RemoveAt(s, i) = a \o b  BY DEF RemoveAt, a, b
<1>. QED BY <1>1, <1>5, <1>6 DEF Elements

\* What is put into an outbox stands last in it, whatever it sheds or supersedes.
LEMMA PutAppends ==
  ASSUME NEW S, NEW box \in Seq(S), NEW item \in S
  PROVE  \E t \in Seq(S) : Put(box, item) = Append(t, item)
<1>1. Fresh(box, item) \in Seq(S)
  <2>1. ASSUME Stale(box, item) # {} PROVE (CHOOSE i \in Stale(box, item) : TRUE) \in 1..Len(box)
    <3>1. Stale(box, item) \subseteq 1..Len(box)
      BY LenProperties DEF Stale
    <3>. QED
      BY <2>1, <3>1
  <2>. QED
    BY <2>1, RemoveAtKeeps DEF Fresh
<1>2. PICK fresh \in Seq(S) : fresh = Fresh(box, item)
  BY <1>1
<1>3. Len(fresh) >= MaxOutbox => fresh # <<>>
  BY EmptySeq, SyncAssumption
<1>4. (IF Len(fresh) >= MaxOutbox THEN Tail(fresh) ELSE fresh) \in Seq(S)
  BY <1>3, HeadTailProperties
<1>. QED
  BY <1>2, <1>4 DEF Put

LEMMA PutHolds ==
  ASSUME NEW S, NEW box \in Seq(S), NEW item \in S
  PROVE  item \in Elements(Put(box, item))
<1>1. PICK t \in Seq(S) : Put(box, item) = Append(t, item)
  BY PutAppends
<1>. QED BY <1>1, ElementsAppend

\* The last of at most two that are put in is not shed for them.
LEMMA PutAllHolds ==
  ASSUME NEW S, NEW box \in Seq(S), NEW items \in Seq(S), items # <<>>, Len(items) <= 2
  PROVE  items[Len(items)] \in S /\ items[Len(items)] \in Elements(PutAll(box, items))
<1>1. Len(items) = 1 \/ Len(items) = 2
  <2>1. Len(items) \in Nat /\ Len(items) # 0  BY LenProperties, EmptySeq
  <2>2. \A n \in Nat : n # 0 /\ n <= 2 => n = 1 \/ n = 2  OBVIOUS
  <2>. QED BY <2>1, <2>2
<1>2. CASE Len(items) = 1
  <2>1. items[1] \in S  BY <1>2, ElementOfSeq
  <2>. QED BY <1>2, <2>1, PutHolds DEF PutAll
<1>3. CASE Len(items) = 2
  <2>1. items[1] \in S /\ items[2] \in S
    <3>1. 1 \in 1..Len(items) /\ 2 \in 1..Len(items)  BY <1>3
    <3>. QED BY <3>1, ElementOfSeq
  <2>2. Put(box, items[1]) \in Seq(S)  BY <2>1, PutKeeps
  <2>. QED BY <1>3, <2>1, <2>2, PutHolds DEF PutAll
<1>. QED BY <1>1, <1>2, <1>3

\* What p has said and has not arrived, and the tasks that p has still to handle.
Out(p) == {x.message : x \in Elements(outbox[p])} \cup Elements(air[p])
In(p)  == Elements(IF busy[p] = "no" THEN inbox[p] ELSE Tail(inbox[p]))
\* What p has said and q has not heard, or is about to handle.
On(p, q) == Out(p) \cup {m \in In(q) : m.t # "soon" /\ m.from = p}

\* Nothing waits in the outbox of a peer that is not sending.
Idle == \A p \in Peer : sending[p] = <<>> => outbox[p] = <<>>

\* The last message sent is on its way; the outbox of another is untouched.
LEMMA EnqueueAdds ==
  ASSUME NEW H, Spoken(H), NEW p \in Peer, NEW items \in Seq(ItemOf(Of(H, p))), Len(items) <= 2,
         Enqueue(p, items)
  PROVE  /\ \A q \in Peer \ {p} : Out(q)' = Out(q)
         /\ items = <<>> => Out(p)' = Out(p)
         /\ items # <<>> => items[Len(items)].message \in Out(p)'
         /\ Idle => Idle'
<1>. DEFINE I == ItemOf(Of(H, p))
            pump == sending[p] = <<>> /\ items # <<>>
            rest == IF pump THEN Tail(items) ELSE items
<1>1. /\ outbox[p] \in Seq(I) /\ air[p] \in Seq(Of(H, p)) /\ sending = [q \in Peer |-> sending[q]]
      /\ outbox = [q \in Peer |-> outbox[q]] /\ air = [q \in Peer |-> air[q]]
  BY DEF Spoken
<1>2. /\ sending' = IF pump THEN [sending EXCEPT ![p] = <<Head(items)>>] ELSE sending
      /\ air' = IF pump THEN [air EXCEPT ![p] = Append(air[p], Head(items).message)] ELSE air
      /\ outbox' = [outbox EXCEPT ![p] = PutAll(outbox[p], rest)]
  BY <1>1 DEF Enqueue, Transmit
<1>3. \A q \in Peer \ {p} : outbox'[q] = outbox[q] /\ air'[q] = air[q]
  <2>. HIDE DEF pump, rest
  <2>. QED BY <1>1, <1>2
<1>31. \A q \in Peer \ {p} : sending'[q] = sending[q]
  <2>. HIDE DEF pump, rest
  <2>. QED BY <1>1, <1>2
<1>4. outbox'[p] = PutAll(outbox[p], rest)
  <2>. HIDE DEF rest
  <2>. QED BY <1>1, <1>2
<1>5. CASE items = <<>>
  <2>1. rest = <<>> /\ ~ pump  BY <1>5
  <2>2. outbox'[p] = outbox[p] /\ air' = air /\ sending' = sending
    BY <1>2, <1>4, <2>1 DEF PutAll
  <2>3. Idle => Idle'
    BY <1>3, <2>2 DEF Idle
  <2>. QED BY <1>3, <1>5, <2>2, <2>3 DEF Out
<1>6. CASE items # <<>> /\ ~ pump
  <2>1. rest = items /\ sending' = sending /\ sending[p] # <<>>  BY <1>2, <1>6
  <2>2. items[Len(items)] \in Elements(outbox'[p])
    <3>1. items \in Seq(I) /\ outbox[p] \in Seq(I)  BY <1>1
    <3>. HIDE DEF I
    <3>2. items[Len(items)] \in Elements(PutAll(outbox[p], items))  BY <1>6, <3>1, PutAllHolds
    <3>. HIDE DEF rest
    <3>. QED BY <1>4, <2>1, <3>2
  <2>3. Idle => Idle'
    BY <1>3, <2>1 DEF Idle
  <2>. QED BY <1>3, <1>6, <2>1, <2>2, <2>3 DEF Out
<1>7. CASE pump
  <2>1. /\ Head(items) \in I /\ Head(items) = items[1] /\ Tail(items) \in Seq(I)
        /\ Len(Tail(items)) = Len(items) - 1 /\ Len(items) \in Nat /\ Len(items) # 0
    <3>1. items \in Seq(I) /\ items # <<>>  BY <1>7
    <3>. HIDE DEF I
    <3>2. Len(items) \in Nat /\ Len(items) # 0  BY <3>1, LenProperties, EmptySeq
    <3>3. Head(items) \in I /\ Head(items) = items[1] /\ Tail(items) \in Seq(I) /\ Len(Tail(items)) = Len(items) - 1
      BY <3>1, <3>2, HeadTailProperties
    <3>. QED BY <3>2, <3>3
  <2>2. Head(items).message \in Of(H, p)
    BY <2>1 DEF ItemOf
  <2>3. air'[p] = Append(air[p], Head(items).message) /\ sending'[p] = <<Head(items)>>
    BY <1>1, <1>2, <1>7
  <2>31. sending'[p] # <<>>
    <3>1. PICK h : h = Head(items)  OBVIOUS
    <3>2. sending'[p] = <<h>>  BY <2>3, <3>1
    <3>. QED BY ONLY <3>2
  <2>32. Idle => Idle'
    BY <1>3, <1>31, <2>31 DEF Idle
  <2>4. items[1].message \in Elements(air'[p])
    BY <1>1, <2>1, <2>2, <2>3, ElementsAppend
  <2>5. CASE Len(items) = 1
    BY <1>3, <1>7, <2>32, <2>4, <2>5 DEF Out
  <2>6. CASE Len(items) = 2
    <3>1. rest = Tail(items) /\ Len(rest) = 1  BY <1>7, <2>1, <2>6
    <3>2. rest[1] = items[2]
      <4>1. PICK t : t = Tail(items)  OBVIOUS
      <4>2. Len(t) = 1  BY <2>1, <2>6, <4>1
      <4>3. \A i \in 1..Len(t) : t[i] = items[i + 1]
        <5>1. items \in Seq(I) /\ items # <<>>  BY <1>7
        <5>. HIDE DEF I
        <5>2. \A i \in 1..Len(Tail(items)) : Tail(items)[i] = items[i + 1]  BY <5>1, HeadTailProperties
        <5>. QED BY ONLY <4>1, <5>2
      <4>4. t[1] = items[2]
        <5>1. 1 \in 1..Len(t) /\ 1 + 1 = 2  BY <4>2
        <5>. QED BY ONLY <4>3, <5>1
      <4>. HIDE DEF rest
      <4>5. rest = t  BY ONLY <3>1, <4>1
      <4>. QED BY ONLY <4>4, <4>5
    <3>3. rest # <<>>
      <4>1. Len(rest) = 1  BY ONLY <3>1
      <4>. HIDE DEF rest
      <4>2. ASSUME rest = <<>> PROVE FALSE
        <5>1. Len(rest) = Len(<<>>) /\ Len(<<>>) = 0  BY ONLY <4>2
        <5>. QED BY ONLY <4>1, <5>1
      <4>. QED BY ONLY <4>2
    <3>4. rest[Len(rest)] \in Elements(outbox'[p])
      <4>1. rest \in Seq(I) /\ outbox[p] \in Seq(I)  BY <1>1, <2>1, <3>1
      <4>2. PICK r \in Seq(I) : r = rest  BY <4>1
      <4>3. r # <<>> /\ Len(r) <= 2  BY <3>1, <3>3, <4>2
      <4>. HIDE DEF I
      <4>4. r[Len(r)] \in Elements(PutAll(outbox[p], r))  BY <4>1, <4>3, PutAllHolds
      <4>. HIDE DEF rest
      <4>. QED BY <1>4, <4>2, <4>4
    <3>5. items[Len(items)] \in Elements(outbox'[p])  BY <2>6, <3>1, <3>2, <3>4
    <3>. QED BY <1>3, <1>7, <2>32, <3>5 DEF Out
  <2>7. Len(items) = 1 \/ Len(items) = 2
    <3>1. \A n \in Nat : n # 0 /\ n <= 2 => n = 1 \/ n = 2  OBVIOUS
    <3>. QED BY <2>1, <3>1
  <2>. QED BY <2>5, <2>6, <2>7
<1>. QED BY <1>5, <1>6, <1>7

\* What leaves the outbox is in the air.
LEMMA NextOutMoves ==
  ASSUME NEW H, Spoken(H), NEW p \in Peer, NextOut(p), sending[p] # <<>>
  PROVE  /\ \A q \in Peer : Out(q)' = Out(q)
         /\ Idle => Idle'
<1>. DEFINE I == ItemOf(Of(H, p))
<1>1. /\ outbox[p] \in Seq(I) /\ air[p] \in Seq(Of(H, p)) /\ sending = [q \in Peer |-> sending[q]]
      /\ outbox = [q \in Peer |-> outbox[q]] /\ air = [q \in Peer |-> air[q]]
  BY DEF Spoken
<1>2. CASE outbox[p] = <<>>
  BY <1>1, <1>2 DEF NextOut, Out, Idle
<1>3. CASE outbox[p] # <<>>
  <2>1. PICK first \in I, rest \in Seq(I) : first = Head(outbox[p]) /\ rest = Tail(outbox[p])
    <3>. HIDE DEF I
    <3>. QED BY <1>1, <1>3, HeadTailProperties
  <2>2. /\ sending' = [sending EXCEPT ![p] = <<first>>]
        /\ outbox' = [outbox EXCEPT ![p] = rest]
        /\ air' = [air EXCEPT ![p] = Append(air[p], first.message)]
    BY <1>1, <1>3, <2>1 DEF NextOut, Transmit
  <2>3. first.message \in Of(H, p)
    BY <2>1 DEF ItemOf
  <2>4. /\ Elements(air'[p]) = Elements(air[p]) \cup {first.message}
        /\ Elements(outbox[p]) = {first} \cup Elements(outbox'[p])
    <3>1. air'[p] = Append(air[p], first.message) /\ outbox'[p] = rest  BY <1>1, <2>2
    <3>2. Elements(outbox[p]) = {first} \cup Elements(rest)
      <4>. HIDE DEF I
      <4>. QED BY <1>1, <1>3, <2>1, ElementsTail
    <3>. QED BY <1>1, <2>3, <3>1, <3>2, ElementsAppend
  <2>5. Out(p)' = Out(p)
    BY <2>4 DEF Out
  <2>6. \A q \in Peer \ {p} : outbox'[q] = outbox[q] /\ air'[q] = air[q]
    BY <1>1, <2>2
  <2>7. sending'[p] # <<>>
    <3>1. sending'[p] = <<first>>  BY <1>1, <2>2
    <3>. QED BY <3>1
  <2>8. \A q \in Peer \ {p} : sending'[q] = sending[q]
    BY <1>1, <2>2
  <2>. QED BY <2>5, <2>6, <2>7, <2>8 DEF Out, Idle
<1>. QED BY <1>2, <1>3

\* What is appended to a queue is to be handled, as all that was.
LEMMA InGrows ==
  ASSUME NEW S, NEW p \in Peer, inbox[p] \in Seq(S), busy[p] # "no" => inbox[p] # <<>>,
         NEW m \in S, inbox'[p] = Append(inbox[p], m), busy'[p] = busy[p]
  PROVE  In(p) \cup {m} \subseteq In(p)'
<1>1. CASE busy[p] = "no"
  BY <1>1, ElementsAppend DEF In
<1>2. CASE busy[p] # "no"
  <2>1. PICK s \in Seq(S) : s = inbox[p] /\ s # <<>>
    BY <1>2
  <2>2. PICK t : t = Tail(s)
    OBVIOUS
  <2>3. PICK u : u = Append(s, m)
    OBVIOUS
  <2>4. PICK v : v = Tail(u)
    OBVIOUS
  <2>5. Len(s) \in Nat /\ Len(s) # 0
    BY <2>1, LenProperties, EmptySeq
  <2>6. t \in Seq(S) /\ Len(t) = Len(s) - 1 /\ \A i \in 1..Len(t) : t[i] = s[i + 1]
    BY <2>1, <2>2, HeadTailProperties
  <2>7. /\ u \in Seq(S) /\ Len(u) = Len(s) + 1 /\ \A i \in 1..Len(s) : u[i] = s[i]
        /\ u[Len(s) + 1] = m
    BY <2>3, AppendProperties
  <2>8. u # <<>>
    BY <2>5, <2>7, EmptySeq
  <2>9. v \in Seq(S) /\ Len(v) = Len(u) - 1 /\ \A i \in 1..Len(v) : v[i] = u[i + 1]
    BY <2>4, <2>7, <2>8, HeadTailProperties
  <2>10. DOMAIN t = 1..Len(t) /\ DOMAIN v = 1..Len(v)
    BY <2>6, <2>9, LenProperties
  <2>11. Len(v) = Len(s)
    BY <2>5, <2>7, <2>9
  <2>12. ASSUME NEW i \in DOMAIN t PROVE t[i] \in Elements(v)
    <3>1. i \in 1..Len(t) /\ i \in 1..Len(v) /\ i + 1 \in 1..Len(s)
      BY <2>5, <2>6, <2>10, <2>11
    <3>2. t[i] = s[i + 1] /\ v[i] = u[i + 1] /\ u[i + 1] = s[i + 1]
      BY ONLY <2>6, <2>7, <2>9, <3>1
    <3>. QED
      BY ONLY <2>10, <3>1, <3>2 DEF Elements
  <2>13. m \in Elements(v)
    <3>1. Len(s) \in 1..Len(v)
      BY <2>5, <2>11
    <3>2. v[Len(s)] = m
      BY ONLY <2>7, <2>9, <3>1
    <3>. QED
      BY ONLY <2>10, <3>1, <3>2 DEF Elements
  <2>14. In(p) = Elements(t) /\ In(p)' = Elements(v)
    BY <1>2, <2>1, <2>2, <2>3, <2>4 DEF In
  <2>. QED
    BY <2>12, <2>13, <2>14 DEF Elements
<1>. QED
  BY <1>1, <1>2

\* A task that is over was the first; one that was under way was not to be handled
\* any more.
LEMMA InLess ==
  ASSUME NEW S, NEW p \in Peer, inbox[p] \in Seq(S), inbox[p] # <<>>,
         inbox' = [inbox EXCEPT ![p] = Tail(@)], inbox = [q \in Peer |-> inbox[q]], busy'[p] = "no"
  PROVE  /\ busy[p] = "no" => In(p) = {Task(p)} \cup In(p)'
         /\ busy[p] # "no" => In(p) = In(p)'
<1>1. inbox'[p] = Tail(inbox[p])
  BY ONLY inbox' = [inbox EXCEPT ![p] = Tail(@)], inbox = [q \in Peer |-> inbox[q]], p \in Peer
<1>2. In(p)' = Elements(Tail(inbox[p]))
  BY <1>1 DEF In
<1>3. PICK s \in Seq(S) : s = inbox[p] /\ s # <<>>
  OBVIOUS
<1>4. Elements(s) = {Head(s)} \cup Elements(Tail(s))
  BY <1>3, ElementsTail
<1>. QED
  BY <1>2, <1>3, <1>4 DEF In, Task

-----------------------------------------------------------------------------
\* What a peer keeps: the database it started with, and, unless harmed, its listener.
Steady ==
  /\ started \in [Peer -> BOOLEAN] /\ hooked \in [Peer -> BOOLEAN]
  /\ Idle
  /\ \A p \in Peer :
       /\ busy[p] = "apply" => Local(p)
       /\ Seed[p] \subseteq log[p]
       /\ p \in Joiner \/ phase[p] = "handed"
       /\ ~harmed /\ Eager /\ started[p] /\ phase[p] = "handed" => hooked[p]

\* The message makes p answer, ask or join.
Tells(p, m) ==
  \/ m.t = "blocks"
  \/ m.t = "want" /\ Local(p)
  \/ m.t = "announce" /\ ~ (m.heads \subseteq log[p])

\* Something is on its way between the two that ends in one telling the other.
Route(p, q) ==
  \/ On(p, q) # {}
  \/ \E m \in On(q, p) : Tells(p, m)
  \/ \E x \in {p, q} : busy[x] = "apply" \/ \E m \in In(x) : m.t = "soon"

\* p has the database and lacks something of q's log.
Apart(p, q) == started[p] /\ started[q] /\ Local(p) /\ ~ (log[q] \subseteq log[p])

\* Two peers that differ have still something to tell each other.
Levelling == ~harmed /\ Eager => \A p, q \in Peer : Apart(p, q) => Route(p, q)

\* Who lacks something of a closed log lacks one of its heads.
LEMMA HeadsUncovered ==
  ASSUME NEW L \in SUBSET Entry, NEW M \in SUBSET Entry, Past(L) \subseteq L, Past(M) \subseteq M,
         ~ (L \subseteq M)
  PROVE  ~ (Heads(L) \subseteq M)
<1>1. (\A x \in L : next[x] \subseteq L) /\ (\A x \in M : next[x] \subseteq M)
  BY PastExtends, PastIsClosed
<1>2. Heads(L) \in SUBSET Entry /\ Past(Heads(L)) = L
  BY <1>1, HeadsReachAll DEF Heads
<1>. QED
  BY <1>1, <1>2, PastIsLeast

\* What one of the two says is such a thing.
LEMMA RouteOfSaid ==
  ASSUME NEW p \in Peer, NEW q \in Peer, NEW x \in {p, q}, NEW m \in Out(x)', x = q => Tells(p, m)'
  PROVE  Route(p, q)'
BY DEF Route, On

LEMMA RouteOfSentBy ==
  ASSUME NEW K, Spoken(K), NEW x \in Peer, NEW items \in Seq(ItemOf(Of(K, x))), items # <<>>, Len(items) <= 2,
         Enqueue(x, items), NEW p \in Peer, NEW q \in Peer, x \in {p, q},
         x = q => Tells(p, items[Len(items)].message)'
  PROVE  Route(p, q)'
<1>1. PICK m : m = items[Len(items)].message
  OBVIOUS
<1>2. m \in Out(x)'
  BY <1>1, EnqueueAdds
<1>3. x = q => Tells(p, m)'
  BY <1>1
<1>. QED
  BY <1>2, <1>3, RouteOfSaid

LEMMA RouteOfSent ==
  ASSUME Said, NEW x \in Peer, NEW items \in Seq(ItemOf(Of(Honest, x))), items # <<>>, Len(items) <= 2,
         Enqueue(x, items), NEW p \in Peer, NEW q \in Peer, x \in {p, q},
         x = q => Tells(p, items[Len(items)].message)'
  PROVE  Route(p, q)'
<1>1. PICK K : K = Honest
  OBVIOUS
<1>2. Spoken(K) /\ items \in Seq(ItemOf(Of(K, x)))
  BY <1>1 DEF Said
<1>. QED
  BY <1>2, RouteOfSentBy

\* A step that takes nothing of it away.
LEMMA RouteKept ==
  ASSUME NEW p \in Peer, NEW q \in Peer, Route(p, q),
         Out(p) \subseteq Out(p)', Out(q) \subseteq Out(q)',
         \A m \in In(q) : m.t = "soon" \/ m.from = p => m \in In(q)',
         \A m \in In(p) : m.t = "soon" \/ (m.from = q /\ Tells(p, m)) => m \in In(p)',
         \A x \in {p, q} : busy[x] = "apply" => busy'[x] = "apply",
         log'[p] = log[p], phase'[p] = phase[p]
  PROVE  Route(p, q)'
<1>1. CASE On(p, q) # {}
  <2>1. On(p, q) \subseteq On(p, q)'
    BY DEF On
  <2>. QED
    BY <1>1, <2>1 DEF Route
<1>2. CASE \E m \in On(q, p) : Tells(p, m)
  <2>1. PICK m \in On(q, p) : Tells(p, m)
    BY <1>2
  <2>2. m \in On(q, p)'
    BY <2>1 DEF On
  <2>3. Tells(p, m)'
    BY <2>1 DEF Tells, Local
  <2>. QED
    BY <2>2, <2>3 DEF Route
<1>3. CASE \E x \in {p, q} : busy[x] = "apply" \/ \E m \in In(x) : m.t = "soon"
  BY <1>3 DEF Route
<1>. QED
  BY <1>1, <1>2, <1>3 DEF Route

\* A step in which neither of the two takes part.
LEMMA RouteOfOthers ==
  ASSUME NEW p \in Peer, NEW q \in Peer, Route(p, q),
         Out(p)' = Out(p), Out(q)' = Out(q),
         \A y \in {p, q} : inbox'[y] = inbox[y] /\ busy'[y] = busy[y],
         log'[p] = log[p], phase'[p] = phase[p]
  PROVE  Route(p, q)'
<1>1. In(p)' = In(p) /\ In(q)' = In(q)
  BY DEF In
<1>. QED
  BY <1>1, RouteKept

\* Two that differ after a step on which no log changes differed before.
LEMMA ApartAsBefore ==
  ASSUME NEW p \in Peer, NEW q \in Peer, Apart(p, q)', UNCHANGED <<log, phase, started>>
  PROVE  Apart(p, q)
BY DEF Apart, Local

\* The heads of the one that has more are news to the other.
LEMMA ApartTells ==
  ASSUME Said, Closed, NEW p \in Peer, NEW q \in Peer, Apart(p, q)
  PROVE  /\ p # q /\ phase[q] = "handed"
         /\ ~ (Heads(log[q]) \subseteq log[p])
<1>1. log[p] \in SUBSET Entry /\ log[q] \in SUBSET Entry /\ Past(log[p]) \subseteq log[p] /\ Past(log[q]) \subseteq log[q]
  BY DEF Closed, LogsAreClosed
<1>2. ~ (log[q] \subseteq log[p])
  BY DEF Apart
<1>3. phase[q] # "handed" => log[q] = {}
  BY DEF Said, Places
<1>. QED
  BY <1>1, <1>2, <1>3, HeadsUncovered

LEMMA ApartTellsNext ==
  ASSUME Said', Closed', NEW p \in Peer, NEW q \in Peer, Apart(p, q)'
  PROVE  /\ p # q /\ phase'[q] = "handed"
         /\ ~ (Heads(log'[q]) \subseteq log'[p])
<1>1. log'[p] \in SUBSET Entry /\ log'[q] \in SUBSET Entry /\ Past(log'[p]) \subseteq log'[p] /\ Past(log'[q]) \subseteq log'[q]
  BY DEF Closed, LogsAreClosed
<1>2. ~ (log'[q] \subseteq log'[p])
  BY DEF Apart
<1>3. phase'[q] # "handed" => log'[q] = {}
  BY DEF Said, Places
<1>4. PICK L \in SUBSET Entry, M \in SUBSET Entry :
        L = log'[q] /\ M = log'[p] /\ Past(L) \subseteq L /\ Past(M) \subseteq M /\ ~ (L \subseteq M)
  BY <1>1, <1>2
<1>5. ~ (Heads(L) \subseteq M)
  BY <1>4, HeadsUncovered
<1>. QED
  BY <1>2, <1>3, <1>4, <1>5

\* Where q stands tells p of what p lacks.
LEMMA StandingTells ==
  ASSUME Said, Closed, NEW p \in Peer, NEW q \in Peer, Apart(p, q), NEW m, m = Standing(q)
  PROVE  Tells(p, m)
<1>1. phase[q] = "handed" /\ ~ (Heads(log[q]) \subseteq log[p])
  BY ApartTells
<1>2. m = Announce(q, Heads(log[q]))
  BY <1>1 DEF Standing, Local
<1>3. m.t = "announce" /\ m.heads = Heads(log[q])
  BY <1>2 DEF Announce
<1>. QED
  BY <1>1, <1>3 DEF Tells

\* An announcement, of start(), of announce() or of announceSoon().
LEMMA RouteOfStanding ==
  ASSUME Said, Closed, NEW x \in Peer, NEW w \in {"nobody", "start"}, Enqueue(x, <<Send(Standing(x), w)>>),
         UNCHANGED <<log, phase>>, NEW p \in Peer, NEW q \in Peer, Said', Closed', Apart(p, q)', x \in {p, q}
  PROVE  Route(p, q)'
<1>. DEFINE I == ItemOf(Of(Honest, x))
<1>1. Send(Standing(x), w) \in I
  BY StandingIsHonest, ItemsOf DEF Send, Said
<1>2. PICK items \in Seq(I) : items = <<Send(Standing(x), w)>> /\ Len(items) <= 2
  BY <1>1, OneItem
<1>3. PICK m : m = Standing(x)
  OBVIOUS
<1>4. items # <<>> /\ items[Len(items)].message = m
  <2>1. PICK i : i = Send(m, w)
    OBVIOUS
  <2>2. items = <<i>> /\ i.message = m
    BY <1>2, <1>3, <2>1 DEF Send
  <2>. QED
    BY ONLY <2>2
<1>5. x = q => Tells(p, m)'
  <2>1. SUFFICES ASSUME x = q PROVE Tells(p, m)'
    OBVIOUS
  <2>2. phase[q] = "handed" /\ ~ (Heads(log[q]) \subseteq log'[p])
    BY ApartTellsNext
  <2>3. m = Announce(q, Heads(log[q]))
    BY <1>3, <2>1, <2>2 DEF Standing, Local
  <2>4. m.t = "announce" /\ m.heads = Heads(log[q])
    BY <2>3 DEF Announce
  <2>. QED
    BY <2>2, <2>4 DEF Tells
<1>6. Enqueue(x, items)
  BY <1>2
<1>7. x = q => Tells(p, items[Len(items)].message)'
  BY <1>4, <1>5
<1>. QED
  BY <1>2, <1>4, <1>6, <1>7, RouteOfSent

\* What another peer's task sends is nothing to the two.
LEMMA RouteOfElsewhere ==
  ASSUME Said, NEW x \in Peer, NEW items \in Seq(ItemOf(Of(Honest, x))), Len(items) <= 2, Enqueue(x, items),
         NEW p \in Peer, NEW q \in Peer, x \notin {p, q}, Route(p, q),
         \A y \in {p, q} : inbox'[y] = inbox[y] /\ busy'[y] = busy[y],
         log'[p] = log[p], phase'[p] = phase[p]
  PROVE  Route(p, q)'
<1>1. PICK K : K = Honest
  OBVIOUS
<1>2. Spoken(K) /\ items \in Seq(ItemOf(Of(K, x)))
  BY <1>1 DEF Said
<1>3. Out(p)' = Out(p) /\ Out(q)' = Out(q)
  BY <1>2, EnqueueAdds
<1>. QED
  BY <1>3, RouteOfOthers

\* HandleSoon, Start and Poke.
LEMMA LevelStanding ==
  ASSUME Said, Closed, NEW x \in Peer, HandleSoon(x) \/ Start(x) \/ Poke(x),
         NEW p \in Peer, NEW q \in Peer, Said', Closed', Apart(p, q)', Apart(p, q) => Route(p, q),
         started \in [Peer -> BOOLEAN]
  PROVE  Route(p, q)'
<1>1. PICK w \in {"nobody", "start"} : Enqueue(x, <<Send(Standing(x), w)>>)
  BY DEF HandleSoon, Start, Poke
<1>2. UNCHANGED <<log, phase>>
  BY DEF HandleSoon, Start, Poke, orbit
<1>3. CASE x \in {p, q}
  BY <1>1, <1>2, <1>3, RouteOfStanding
<1>4. CASE x \notin {p, q}
  <2>1. \A y \in {p, q} : inbox'[y] = inbox[y] /\ busy'[y] = busy[y] /\ started'[y] = started[y]
    <3>1. CASE HandleSoon(x)
      BY <1>4, <3>1 DEF HandleSoon, TaskDone, control, Said, Queued
    <3>2. CASE Start(x)
      BY <1>4, <3>2 DEF Start
    <3>3. CASE Poke(x)
      BY <1>4, <3>3 DEF Poke, control
    <3>. QED
      BY <3>1, <3>2, <3>3
  <2>2. Apart(p, q)
    BY <1>2, <2>1 DEF Apart, Local
  <2>3. Send(Standing(x), w) \in ItemOf(Of(Honest, x))
    BY StandingIsHonest, ItemsOf DEF Send, Said
  <2>4. PICK items \in Seq(ItemOf(Of(Honest, x))) : items = <<Send(Standing(x), w)>> /\ Len(items) <= 2
    BY <2>3, OneItem
  <2>5. Enqueue(x, items)
    BY <1>1, <2>4
  <2>. QED
    BY <1>2, <1>4, <2>1, <2>2, <2>4, <2>5, RouteOfElsewhere
<1>. QED
  BY <1>3, <1>4

\* A task of x is over.
LEMMA TaskGone ==
  ASSUME Said, NEW x \in Peer, inbox[x] # <<>>, TaskDone(x), busy' = [busy EXCEPT ![x] = "no"]
  PROVE  /\ \A y \in Peer \ {x} : inbox'[y] = inbox[y] /\ busy'[y] = busy[y] /\ In(y)' = In(y)
         /\ busy[x] = "no" => In(x) = {Task(x)} \cup In(x)'
         /\ busy[x] # "no" => In(x) = In(x)'
<1>1. PICK K : K = Honest
  OBVIOUS
<1>2. inbox[x] \in Seq(To(K, x)) /\ inbox = [q \in Peer |-> inbox[q]] /\ Queued(K)
  BY <1>1 DEF Said, Queued
<1>3. inbox' = [inbox EXCEPT ![x] = Tail(@)] /\ busy'[x] = "no"
  BY DEF TaskDone, Said, Places
<1>4. \A y \in Peer \ {x} : inbox'[y] = inbox[y] /\ busy'[y] = busy[y]
  BY <1>2, TaskDoneKeeps DEF Said, Places
<1>5. \A y \in Peer \ {x} : In(y)' = In(y)
  BY <1>4 DEF In
<1>6. PICK S : S = To(K, x)
  OBVIOUS
<1>7. inbox[x] \in Seq(S)
  BY <1>2, <1>6
<1>. QED
  BY <1>2, <1>3, <1>4, <1>5, <1>7, InLess

\* Nothing is sent.
LEMMA NothingSent ==
  ASSUME Said, NEW x \in Peer, NEW items \in Seq(ItemOf(Of(Honest, x))), items = <<>>, Len(items) <= 2, Enqueue(x, items)
  PROVE  \A y \in Peer : Out(y)' = Out(y)
<1>1. PICK K : K = Honest
  OBVIOUS
<1>2. Spoken(K) /\ items \in Seq(ItemOf(Of(K, x)))
  BY <1>1 DEF Said
<1>. QED
  BY <1>2, EnqueueAdds

\* An announcement is answered with blocks, with a request, or says nothing new.
LEMMA LevelAnnounce ==
  ASSUME Said, Closed, NEW x \in Peer, HandleAnnounce(x),
         NEW p \in Peer, NEW q \in Peer, Apart(p, q)', Apart(p, q) => Route(p, q)
  PROVE  Route(p, q)'
<1>. DEFINE m == Task(x)
<1>1. /\ inbox[x] # <<>> /\ busy[x] = "no" /\ m.t = "announce" /\ TaskDone(x)
      /\ UNCHANGED <<log, phase, busy, started>> /\ busy' = [busy EXCEPT ![x] = "no"]
  BY DEF HandleAnnounce, Handling, orbit, control, Said, Places
<1>2. Route(p, q) /\ p # q /\ phase[q] = "handed" /\ ~ (Heads(log[q]) \subseteq log[p])
  BY <1>1, ApartAsBefore, ApartTells
<1>3. m.from # x /\ m.from \in Peer /\ m.heads \subseteq log[m.from]
  <2>1. Queued(Honest)
    BY DEF Said
  <2>. QED
    BY <1>1, <2>1, TaskIsQueued DEF Honest, Message
<1>4. PICK items \in Seq(ItemOf(Of(Honest, x))) :
        /\ Enqueue(x, items) /\ Len(items) <= 2
        /\ items = <<>> => m.heads \subseteq log[x] /\ (Local(x) => Heads(log[x]) \subseteq m.heads)
        /\ items # <<>> => items[Len(items)].message.t \in {"want", "blocks"}
  BY AnswersAnnounce
<1>5. /\ \A y \in Peer \ {x} : inbox'[y] = inbox[y] /\ busy'[y] = busy[y] /\ In(y)' = In(y)
      /\ In(x) = {m} \cup In(x)'
  BY <1>1, TaskGone
<1>6. CASE x \notin {p, q}
  BY <1>1, <1>2, <1>4, <1>5, <1>6, RouteOfElsewhere
<1>7. CASE x \in {p, q} /\ items # <<>>
  <2>1. PICK r : r = items[Len(items)].message
    OBVIOUS
  <2>2. r.t \in {"want", "blocks"}
    BY <1>4, <1>7, <2>1
  <2>3. Tells(p, r)'
    BY <2>2 DEF Tells, Apart
  <2>4. Tells(p, items[Len(items)].message)'
    BY <2>1, <2>3
  <2>. QED
    BY <1>4, <1>7, <2>4, RouteOfSent
<1>8. CASE x \in {p, q} /\ items = <<>>
  <2>1. Out(p)' = Out(p) /\ Out(q)' = Out(q)
    BY <1>4, <1>8, NothingSent
  <2>2. \A n \in In(q) : n.t = "soon" \/ n.from = p => n \in In(q)'
    <3>1. CASE x = p
      BY <1>2, <1>5, <3>1
    <3>2. CASE x = q
      <4>1. m.from # p
        BY <1>2, <1>3, <1>4, <1>8, <3>2 DEF Local
      <4>. QED
        BY <1>1, <1>5, <3>2, <4>1
    <3>. QED
      BY <1>8, <3>1, <3>2
  <2>3. \A n \in In(p) : n.t = "soon" \/ (n.from = q /\ Tells(p, n)) => n \in In(p)'
    <3>1. CASE x = q
      BY <1>2, <1>5, <3>1
    <3>2. CASE x = p
      <4>1. ~ Tells(p, m)
        BY <1>1, <1>4, <1>8, <3>2 DEF Tells
      <4>. QED
        BY <1>1, <1>5, <3>2, <4>1
    <3>. QED
      BY <1>8, <3>1, <3>2
  <2>. QED
    BY <1>1, <1>2, <2>1, <2>2, <2>3, RouteKept
<1>. QED
  BY <1>6, <1>7, <1>8

\* A request is answered, unless both hold the same heads.
LEMMA LevelWant ==
  ASSUME Said, Closed, NEW x \in Peer, HandleWant(x),
         NEW p \in Peer, NEW q \in Peer, Apart(p, q)', Apart(p, q) => Route(p, q)
  PROVE  Route(p, q)'
<1>. DEFINE m == Task(x)
<1>1. /\ inbox[x] # <<>> /\ busy[x] = "no" /\ m.t = "want" /\ TaskDone(x)
      /\ UNCHANGED <<log, phase, busy, started>> /\ busy' = [busy EXCEPT ![x] = "no"]
  BY DEF HandleWant, Handling, orbit, control, Said, Places
<1>2. Route(p, q) /\ p # q /\ phase[q] = "handed"
  BY <1>1, ApartAsBefore, ApartTells
<1>3. PICK items \in Seq(ItemOf(Of(Honest, x))) :
        /\ Enqueue(x, items) /\ Len(items) <= 2
        /\ items = <<>> => ~ Local(x)
        /\ items # <<>> => items[Len(items)].message.t = "blocks"
  BY AnswersWant
<1>4. /\ \A y \in Peer \ {x} : inbox'[y] = inbox[y] /\ busy'[y] = busy[y] /\ In(y)' = In(y)
      /\ In(x) = {m} \cup In(x)'
  BY <1>1, TaskGone
<1>5. CASE x \notin {p, q}
  BY <1>1, <1>2, <1>3, <1>4, <1>5, RouteOfElsewhere
<1>6. CASE x \in {p, q} /\ items # <<>>
  <2>1. PICK r : r = items[Len(items)].message
    OBVIOUS
  <2>2. Tells(p, r)'
    BY <1>3, <1>6, <2>1 DEF Tells
  <2>3. x = q => Tells(p, items[Len(items)].message)'
    BY <2>1, <2>2
  <2>. QED
    BY <1>3, <1>6, <2>3, RouteOfSent
<1>7. CASE x \in {p, q} /\ items = <<>>
  <2>1. Out(p)' = Out(p) /\ Out(q)' = Out(q)
    BY <1>3, <1>7, NothingSent
  <2>2. x = p /\ ~ Tells(p, m)
    BY <1>1, <1>2, <1>3, <1>7 DEF Local, Tells
  <2>3. \A n \in In(p) : n.t = "soon" \/ (n.from = q /\ Tells(p, n)) => n \in In(p)'
    BY <1>1, <1>4, <2>2
  <2>4. In(q)' = In(q)
    BY <1>2, <1>4, <2>2
  <2>. QED
    BY <1>1, <1>2, <2>1, <2>3, <2>4, RouteKept
<1>. QED
  BY <1>5, <1>6, <1>7

\* Blocks are applied once they are parked.
LEMMA LevelBlocks ==
  ASSUME Said, Closed, NEW x \in Peer, HandleBlocks(x),
         NEW p \in Peer, NEW q \in Peer, Said', Closed', Apart(p, q)', Apart(p, q) => Route(p, q)
  PROVE  Route(p, q)'
<1>. DEFINE m == Task(x)
<1>1. /\ inbox[x] # <<>> /\ busy[x] = "no" /\ m.t = "blocks"
      /\ UNCHANGED <<log, started, outbox, air>>
      /\ phase' = phase \/ phase' = [phase EXCEPT ![x] = "opening"]
  BY DEF HandleBlocks, Handling, orbit, carrier, OpenDatabase
<1>2. CASE x \in {p, q}
  <2>1. CASE Applying(x)
    <3>1. busy'[x] = "apply"
      BY <2>1 DEF Applying, Said, Places
    <3>. QED
      BY <1>2, <3>1 DEF Route
  <2>2. CASE ~ Applying(x)
    <3>1. phase[x] = "none" /\ UNCHANGED phase
      BY <2>2 DEF HandleBlocks, Local, orbit
    <3>2. phase[p] # "none" /\ phase[q] = "handed"
      BY <1>1, <3>1, ApartAsBefore, ApartTells DEF Apart, Local
    <3>. QED
      BY <1>2, <3>1, <3>2
  <2>. QED
    BY <2>1, <2>2
<1>3. CASE x \notin {p, q}
  <2>1. \A y \in {p, q} : inbox'[y] = inbox[y] /\ busy'[y] = busy[y] /\ phase'[y] = phase[y]
    <3>1. \A y \in {p, q} : inbox'[y] = inbox[y] /\ busy'[y] = busy[y]
      <4>1. CASE Applying(x)
        BY <1>3, <4>1 DEF Applying, Said, Places
      <4>2. CASE ~ Applying(x)
        <5>1. TaskDone(x) /\ UNCHANGED busy
          BY <4>2 DEF HandleBlocks
        <5>2. Queued(Honest)
          BY DEF Said
        <5>. QED
          BY <1>3, <5>1, <5>2 DEF TaskDone, Queued
      <4>. QED
        BY <4>1, <4>2
    <3>2. \A y \in {p, q} : phase'[y] = phase[y]
      BY <1>1, <1>3 DEF Said, Places
    <3>. QED
      BY <3>1, <3>2
  <2>2. Apart(p, q)
    BY <1>1, <2>1 DEF Apart, Local
  <2>3. Out(p)' = Out(p) /\ Out(q)' = Out(q)
    BY <1>1 DEF Out
  <2>. QED
    BY <1>1, <2>1, <2>2, <2>3, RouteOfOthers
<1>. QED
  BY <1>2, <1>3

\* What a delivery that does not close asks for.
LEMMA AppliesPart ==
  ASSUME Said, NEW x \in Peer, ApplyPart(x)
  PROVE  \E items \in Seq(ItemOf(Of(Honest, x))) :
           /\ Enqueue(x, items) /\ Len(items) <= 2
           /\ items # <<>> /\ items[Len(items)].message.t = "want"
<1>. DEFINE m == Task(x)
            w == Want(x, Missing(x), Heads(log[x]))
<1>1. busy[x] = "apply" /\ Enqueue(x, <<Post(w, m.from)>>)
  BY DEF ApplyPart
<1>2. m.from \in Peer
  <2>1. inbox[x] # <<>> /\ Queued(Honest)
    BY <1>1 DEF Said, UnderWay
  <2>. QED
    BY <2>1, TaskIsQueued DEF Honest, Message
<1>3. w \in Of(Honest, x)
  <2>1. Missing(x) \in SUBSET Entry
    BY NextAssumption DEF Missing
  <2>. QED
    BY <2>1, WantIsHonest DEF Said
<1>4. PICK i : i = Post(w, m.from)
  OBVIOUS
<1>5. i \in ItemOf(Of(Honest, x)) /\ i.message.t = "want"
  <2>1. PICK v : v = w
    OBVIOUS
  <2>2. v.t = "want"
    BY <2>1 DEF Want
  <2>. QED
    BY <1>2, <1>3, <1>4, <2>1, <2>2, ItemsOf DEF Post
<1>6. PICK I : I = ItemOf(Of(Honest, x))
  OBVIOUS
<1>7. PICK items \in Seq(I) : items = <<i>> /\ Len(items) <= 2 /\ items # <<>> /\ items[Len(items)] = i
  BY <1>5, <1>6, ItemsSent
<1>8. Enqueue(x, items) /\ items \in Seq(ItemOf(Of(Honest, x)))
  BY <1>1, <1>4, <1>6, <1>7
<1>9. items[Len(items)].message.t = "want"
  BY <1>5, <1>7
<1>. QED
  BY <1>7, <1>8, <1>9

\* A hole makes its finder ask.
LEMMA LevelPart ==
  ASSUME Said, Closed, NEW x \in Peer, ApplyPart(x),
         NEW p \in Peer, NEW q \in Peer, Apart(p, q)', Apart(p, q) => Route(p, q)
  PROVE  Route(p, q)'
<1>. DEFINE m == Task(x)
<1>1. /\ busy[x] = "apply" /\ TaskDone(x) /\ busy' = [busy EXCEPT ![x] = "no"]
      /\ UNCHANGED <<log, phase, started>>
  BY DEF ApplyPart, control
<1>2. inbox[x] # <<>> /\ m.t = "blocks"
  BY <1>1 DEF Said, UnderWay
<1>3. Route(p, q) /\ p # q /\ phase[q] = "handed"
  BY <1>1, ApartAsBefore, ApartTells
<1>5. PICK items \in Seq(ItemOf(Of(Honest, x))) :
        /\ Enqueue(x, items) /\ Len(items) <= 2
        /\ items # <<>> /\ items[Len(items)].message.t = "want"
  BY AppliesPart
<1>6. CASE x \notin {p, q}
  <2>1. \A y \in {p, q} : inbox'[y] = inbox[y] /\ busy'[y] = busy[y]
    BY <1>1, <1>2, <1>6, TaskGone
  <2>. QED
    BY <1>1, <1>3, <1>5, <1>6, <2>1, RouteOfElsewhere
<1>7. CASE x \in {p, q}
  <2>1. PICK r : r = items[Len(items)].message
    OBVIOUS
  <2>2. Tells(p, r)'
    BY <1>5, <2>1 DEF Tells, Apart
  <2>3. Tells(p, items[Len(items)].message)'
    BY <2>1, <2>2
  <2>. QED
    BY <1>5, <1>7, <2>3, RouteOfSent
<1>. QED
  BY <1>6, <1>7

\* A join is announced to all.
LEMMA LevelWhole ==
  ASSUME Said, Closed, NEW x \in Peer, ApplyWhole(x), busy[x] = "apply" => Local(x),
         NEW p \in Peer, NEW q \in Peer, Said', Closed', Apart(p, q)', Apart(p, q) => Route(p, q)
  PROVE  Route(p, q)'
<1>1. PICK K : \E grown \in SUBSET Entry, items \in Seq(ItemOf(Of(K, x))) :
        /\ Spoken(K) /\ Enqueue(x, items) /\ Len(items) <= 2
        /\ items # <<>> /\ items[Len(items)].message = Announce(x, Heads(grown))
        /\ log' = [log EXCEPT ![x] = grown] /\ phase' = [phase EXCEPT ![x] = "handed"]
        /\ busy' = [busy EXCEPT ![x] = "ack"] /\ UNCHANGED inbox
  BY AppliesWhole
<1>2. PICK grown \in SUBSET Entry, items \in Seq(ItemOf(Of(K, x))) :
        /\ Spoken(K) /\ Enqueue(x, items) /\ Len(items) <= 2
        /\ items # <<>> /\ items[Len(items)].message = Announce(x, Heads(grown))
        /\ log' = [log EXCEPT ![x] = grown] /\ phase' = [phase EXCEPT ![x] = "handed"]
        /\ busy' = [busy EXCEPT ![x] = "ack"] /\ UNCHANGED inbox
  BY <1>1
<1>3. CASE x \in {p, q}
  <2>1. PICK r : r = items[Len(items)].message
    OBVIOUS
  <2>2. r.t = "announce" /\ r.heads = Heads(grown)
    BY <1>2, <2>1 DEF Announce
  <2>3. log'[x] = grown
    BY <1>2 DEF Said, Places
  <2>4. x = q => ~ (Heads(grown) \subseteq log'[p])
    BY <2>3, ApartTellsNext
  <2>5. x = q => Tells(p, r)'
    BY <2>2, <2>4 DEF Tells
  <2>6. x = q => Tells(p, items[Len(items)].message)'
    BY <2>1, <2>5
  <2>. QED
    BY <1>2, <1>3, <2>6, RouteOfSentBy
<1>4. CASE x \notin {p, q}
  <2>1. \A y \in {p, q} : /\ log'[y] = log[y] /\ phase'[y] = phase[y] /\ busy'[y] = busy[y]
                          /\ inbox'[y] = inbox[y]
    BY <1>2, <1>4 DEF Said, Places
  <2>2. UNCHANGED started
    BY DEF ApplyWhole
  <2>3. Apart(p, q)
    BY <2>1, <2>2 DEF Apart, Local
  <2>4. Out(p)' = Out(p) /\ Out(q)' = Out(q)
    BY <1>2, <1>4, EnqueueAdds
  <2>. QED
    BY <2>1, <2>3, <2>4, RouteOfOthers
<1>. QED
  BY <1>3, <1>4

\* The acknowledgement that a join waits for.
LEMMA LevelAck ==
  ASSUME Said, NEW x \in Peer, AckDone(x),
         NEW p \in Peer, NEW q \in Peer, Apart(p, q)', Apart(p, q) => Route(p, q)
  PROVE  Route(p, q)'
<1>1. /\ busy[x] = "ack" /\ TaskDone(x) /\ busy' = [busy EXCEPT ![x] = "no"]
      /\ UNCHANGED <<log, phase, started, outbox, air>>
  BY DEF AckDone, orbit, control, carrier
<1>2. inbox[x] # <<>>
  BY <1>1 DEF Said, UnderWay
<1>3. \A y \in Peer : In(y)' = In(y) /\ (busy[y] = "apply" => busy'[y] = "apply")
  BY <1>1, <1>2, TaskGone
<1>4. Out(p)' = Out(p) /\ Out(q)' = Out(q)
  BY <1>1 DEF Out
<1>. QED
  BY <1>1, <1>3, <1>4, ApartAsBefore, RouteKept

\* Tasks of the peer's own: they are handled, and tell where it stands.
LEMMA RouteOfSoon ==
  ASSUME Said, NEW x \in Peer, inbox' = [inbox EXCEPT ![x] = Append(@, Soon(x))], busy'[x] = busy[x]
  PROVE  /\ In(x) \subseteq In(x)' /\ \A y \in Peer \ {x} : inbox'[y] = inbox[y]
         /\ \E m \in In(x)' : m.t = "soon"
         /\ \A p, q \in Peer : x \in {p, q} => Route(p, q)'
<1>1. PICK K : K = Honest
  OBVIOUS
<1>2. inbox[x] \in Seq(To(K, x)) /\ inbox = [q \in Peer |-> inbox[q]] /\ Soon(x) \in To(K, x)
  BY <1>1, SoonIsHonest DEF Said, Queued, To
<1>3. inbox'[x] = Append(inbox[x], Soon(x)) /\ \A y \in Peer \ {x} : inbox'[y] = inbox[y]
  BY <1>2
<1>4. PICK S : S = To(K, x)
  OBVIOUS
<1>5. inbox[x] \in Seq(S) /\ Soon(x) \in S
  BY <1>2, <1>4
<1>6. busy[x] # "no" => inbox[x] # <<>>
  BY DEF Said, UnderWay
<1>7. PICK m : m = Soon(x)
  OBVIOUS
<1>8. In(x) \cup {m} \subseteq In(x)'
  BY <1>3, <1>5, <1>6, <1>7, InGrows
<1>9. m.t = "soon"
  BY <1>7, SoonIsHonest
<1>. QED
  BY <1>3, <1>8, <1>9 DEF Route

\* The rejoin timer adds a task or nothing.
LEMMA LevelRejoin ==
  ASSUME Said, NEW x \in Peer, RejoinFires(x),
         NEW p \in Peer, NEW q \in Peer, Apart(p, q)', Apart(p, q) => Route(p, q)
  PROVE  Route(p, q)'
<1>1. /\ UNCHANGED <<log, phase, started, busy, outbox, air>>
      /\ inbox' = [inbox EXCEPT ![x] = Append(@, Soon(x))] \/ UNCHANGED inbox
  BY DEF RejoinFires, orbit, carrier
<1>2. Route(p, q)
  BY <1>1, ApartAsBefore
<1>3. Out(p)' = Out(p) /\ Out(q)' = Out(q)
  BY <1>1 DEF Out
<1>4. CASE UNCHANGED inbox
  BY <1>1, <1>2, <1>3, <1>4, RouteOfOthers
<1>5. CASE inbox' = [inbox EXCEPT ![x] = Append(@, Soon(x))]
  <2>1. (x \in {p, q} => Route(p, q)') /\ \A y \in Peer \ {x} : inbox'[y] = inbox[y]
    BY <1>1, <1>5, RouteOfSoon
  <2>. QED
    BY <1>1, <1>2, <1>3, <2>1, RouteOfOthers
<1>. QED
  BY <1>1, <1>4, <1>5

\* A write adds a task, or the blocks that are being applied are announced after it.
LEMMA LevelWrite ==
  ASSUME Said, Steady, ~ harmed, Eager, NEW x \in Peer, NEW e \in Entry, Write(x, e),
         NEW p \in Peer, NEW q \in Peer, Apart(p, q)', Apart(p, q) => Route(p, q)
  PROVE  Route(p, q)'
<1>1. /\ phase[x] = "handed" /\ log' = [log EXCEPT ![x] = log[x] \cup {e}]
      /\ UNCHANGED <<phase, busy, started, outbox, air>>
      /\ inbox' = IF hooked[x] /\ busy[x] # "apply"
                    THEN [inbox EXCEPT ![x] = Append(@, Soon(x))] ELSE inbox
  BY DEF Write, HearUpdate, control, carrier, Said, Places
<1>2. CASE x \in {p, q}
  <2>1. started[x]
    BY <1>1, <1>2 DEF Apart
  <2>2. hooked[x]
    BY <1>1, <2>1 DEF Steady
  <2>3. CASE busy[x] = "apply"
    BY <1>1, <1>2, <2>3 DEF Route
  <2>4. CASE busy[x] # "apply"
    <3>1. inbox' = [inbox EXCEPT ![x] = Append(@, Soon(x))]
      BY <1>1, <2>2, <2>4
    <3>. QED
      BY <1>1, <1>2, <3>1, RouteOfSoon
  <2>. QED
    BY <2>3, <2>4
<1>3. CASE x \notin {p, q}
  <2>1. \A y \in {p, q} : log'[y] = log[y]
    BY <1>1, <1>3 DEF Said, Places
  <2>2. \A y \in {p, q} : inbox'[y] = inbox[y]
    <3>1. inbox = [y \in Peer |-> inbox[y]]
      BY DEF Said, Queued
    <3>2. PICK t : t = Append(inbox[x], Soon(x))
      OBVIOUS
    <3>3. inbox' = inbox \/ inbox' = [inbox EXCEPT ![x] = t]
      BY <1>1, <3>1, <3>2
    <3>. QED
      BY <1>3, <3>1, <3>3
  <2>3. Apart(p, q)
    BY <1>1, <2>1 DEF Apart, Local
  <2>4. Out(p)' = Out(p) /\ Out(q)' = Out(q)
    BY <1>1 DEF Out
  <2>. QED
    BY <1>1, <2>1, <2>2, <2>3, <2>4, RouteOfOthers
<1>. QED
  BY <1>2, <1>3

\* A send that is over moves the next message into the air.
LEMMA LevelSends ==
  ASSUME Said, NEW x \in Peer, SendResolves(x) \/ StartDone(x),
         NEW p \in Peer, NEW q \in Peer, Apart(p, q)', Apart(p, q) => Route(p, q)
  PROVE  Route(p, q)'
<1>1. UNCHANGED <<log, phase, started, busy, inbox>>
  BY DEF SendResolves, StartDone, orbit, control
<1>2. Out(p)' = Out(p) /\ Out(q)' = Out(q)
  <2>1. CASE SendResolves(x)
    <3>1. PICK K : K = Honest
      OBVIOUS
    <3>2. Spoken(K) /\ NextOut(x) /\ sending[x] # <<>>
      BY <2>1, <3>1 DEF Said, SendResolves
    <3>. QED
      BY <3>2, NextOutMoves
  <2>2. CASE StartDone(x)
    BY <2>2 DEF StartDone, carrier, Out
  <2>. QED
    BY <2>1, <2>2
<1>. QED
  BY <1>1, <1>2, ApartAsBefore, RouteOfOthers

\* What arrives is handled, unless it says nothing to the other.
LEMMA LevelArrives ==
  ASSUME Said, Closed, NEW x \in Peer, NEW i \in 1..Len(air[x]), Arrives(x, i, {}),
         NEW p \in Peer, NEW q \in Peer, Apart(p, q)', Apart(p, q) => Route(p, q)
  PROVE  Route(p, q)'
<1>1. UNCHANGED <<log, phase, busy, started, outbox>> /\ air' = [air EXCEPT ![x] = RemoveAt(@, i)]
  BY DEF Arrives, orbit, control
<1>2. Route(p, q) /\ p # q /\ started[p] /\ started[q]
  BY <1>1, ApartAsBefore, ApartTells DEF Apart
<1>3. PICK K : K = Honest
  OBVIOUS
<1>4. /\ air[x] \in Seq(Of(K, x)) /\ air = [y \in Peer |-> air[y]]
      /\ \A y \in Peer : inbox[y] \in Seq(To(K, y))
  BY <1>3 DEF Said, Spoken, Queued
<1>5. PICK m \in Of(K, x) : m = air[x][i]
  BY <1>4, ElementOfSeq
<1>6. m.from = x /\ m \in K
  BY <1>5 DEF Of
<1>7. Elements(air[x]) \subseteq Elements(air'[x]) \cup {m} /\ \A y \in Peer \ {x} : air'[y] = air[y]
  <2>1. PICK left : left = RemoveAt(air[x], i)
    OBVIOUS
  <2>2. air' = [air EXCEPT ![x] = left]
    BY <1>1, <1>4, <2>1
  <2>3. air'[x] = left /\ \A y \in Peer \ {x} : air'[y] = air[y]
    BY <1>4, <2>2
  <2>4. Elements(air[x]) \subseteq Elements(left) \cup {m}
    BY <1>4, <1>5, <2>1, ElementsRemove
  <2>. QED
    BY <2>3, <2>4
<1>8. Out(x) \subseteq Out(x)' \cup {m} /\ \A y \in Peer \ {x} : Out(y)' = Out(y)
  BY <1>1, <1>7 DEF Out
<1>9. inbox' = [y \in Peer |-> IF started[y] /\ y \notin {x} THEN Append(inbox[y], m) ELSE inbox[y]]
  BY <1>5 DEF Arrives
<1>10. ASSUME NEW y \in {p, q} PROVE In(y) \subseteq In(y)' /\ (y # x => m \in In(y)')
  <2>1. CASE y = x
    <3>1. inbox'[y] = inbox[y]
      BY <1>9, <2>1
    <3>. QED
      BY <1>1, <2>1, <3>1 DEF In
  <2>2. CASE y # x
    <3>1. inbox'[y] = Append(inbox[y], m)
      BY <1>2, <1>9, <2>2
    <3>2. m \in To(K, y)
      BY <1>6, <2>2 DEF To
    <3>3. busy[y] # "no" => inbox[y] # <<>>
      BY DEF Said, UnderWay
    <3>4. PICK S : S = To(K, y)
      OBVIOUS
    <3>5. inbox[y] \in Seq(S) /\ m \in S /\ busy'[y] = busy[y]
      BY <1>1, <1>4, <3>2, <3>4
    <3>. QED
      BY <3>1, <3>3, <3>5, InGrows
  <2>. QED
    BY <2>1, <2>2
<1>11. CASE x \in {p, q} /\ m.t = "soon"
  <2>1. PICK y \in {p, q} : y # x
    BY <1>2
  <2>2. m \in In(y)'
    BY <1>10, <2>1
  <2>. QED
    BY <1>11, <2>2 DEF Route
<1>12. CASE ~ (x \in {p, q} /\ m.t = "soon")
  <2>1. On(p, q) \subseteq On(p, q)'
    BY <1>2, <1>6, <1>8, <1>10, <1>12 DEF On
  <2>2. On(q, p) \subseteq On(q, p)'
    BY <1>2, <1>6, <1>8, <1>10, <1>12 DEF On
  <2>3. \A n : Tells(p, n) => Tells(p, n)'
    BY <1>1 DEF Tells, Local
  <2>4. CASE On(p, q) # {}
    BY <2>1, <2>4 DEF Route
  <2>5. CASE \E n \in On(q, p) : Tells(p, n)
    BY <2>2, <2>3, <2>5 DEF Route
  <2>6. CASE \E y \in {p, q} : busy[y] = "apply" \/ \E n \in In(y) : n.t = "soon"
    BY <1>1, <1>10, <2>6 DEF Route
  <2>. QED
    BY <1>2, <2>4, <2>5, <2>6 DEF Route
<1>. QED
  BY <1>11, <1>12

\* A second copy takes nothing away.
LEMMA DoubleAdds ==
  ASSUME Said, NEW x \in Peer, Double(x)
  PROVE  \A y \in Peer : Out(y) \subseteq Out(y)' /\ In(y)' = In(y)
<1>1. UNCHANGED <<busy, inbox, outbox>>
  BY DEF Double
<1>2. PICK i \in DOMAIN air[x] : air' = [air EXCEPT ![x] = Append(@, @[i])]
  BY DEF Double
<1>3. PICK K : K = Honest
  OBVIOUS
<1>4. air[x] \in Seq(Of(K, x)) /\ air = [y \in Peer |-> air[y]] /\ DOMAIN air[x] = 1..Len(air[x])
  BY <1>3, LenProperties DEF Said, Spoken
<1>5. PICK m \in Of(K, x) : m = air[x][i]
  BY <1>4, ElementOfSeq
<1>6. PICK more : more = Append(air[x], m)
  OBVIOUS
<1>7. air' = [air EXCEPT ![x] = more]
  BY <1>2, <1>4, <1>5, <1>6
<1>8. Elements(air[x]) \subseteq Elements(more)
  BY <1>4, <1>6, ElementsAppend
<1>9. \A y \in Peer : Elements(air[y]) \subseteq Elements(air'[y])
  BY <1>4, <1>7, <1>8
<1>. QED
  BY <1>1, <1>9 DEF Out, In

\* As before, with a second copy in the air.
LEMMA LevelDouble ==
  ASSUME Said, NEW x \in Peer, Double(x),
         NEW p \in Peer, NEW q \in Peer, Apart(p, q)', Apart(p, q) => Route(p, q)
  PROVE  Route(p, q)'
<1>1. UNCHANGED <<log, phase, started, busy>>
  BY DEF Double, orbit, control
<1>. QED
  BY <1>1, DoubleAdds, ApartAsBefore, RouteKept

\* Deliver and Overtake take one message out of the air.
LEMMA OneArrives ==
  ASSUME Said, NEW x \in Peer, Deliver(x) \/ Overtake(x)
  PROVE  \E i \in 1..Len(air[x]) : Arrives(x, i, {})
<1>1. PICK K : K = Honest
  OBVIOUS
<1>2. PICK S : S = Of(K, x)
  OBVIOUS
<1>3. air[x] \in Seq(S)
  BY <1>1, <1>2 DEF Said, Spoken
<1>4. Len(air[x]) \in Nat /\ (air[x] # <<>> => Len(air[x]) # 0)
  BY <1>3, LenProperties, EmptySeq
<1>. QED
  BY <1>4 DEF Deliver, Overtake

-----------------------------------------------------------------------------
\* Whoever sends nothing has nothing waiting, step by step.
LEMMA IdleKept ==
  ASSUME Said, Idle, NEW x \in Peer, NEW items \in Seq(ItemOf(Of(Honest, x))), Len(items) <= 2, Enqueue(x, items)
  PROVE  Idle'
<1>1. PICK K : K = Honest
  OBVIOUS
<1>2. Spoken(K) /\ items \in Seq(ItemOf(Of(K, x)))
  BY <1>1 DEF Said
<1>. QED
  BY <1>2, EnqueueAdds

LEMMA IdleAnswers ==
  ASSUME Said, Idle, NEW x \in Peer, Handle(x) \/ Start(x) \/ Poke(x)
  PROVE  Idle'
<1>1. CASE HandleSoon(x) \/ Start(x) \/ Poke(x)
  <2>1. PICK w \in {"nobody", "start"} : Enqueue(x, <<Send(Standing(x), w)>>)
    BY <1>1 DEF HandleSoon, Start, Poke
  <2>2. Send(Standing(x), w) \in ItemOf(Of(Honest, x))
    BY StandingIsHonest, ItemsOf DEF Send, Said
  <2>3. PICK items \in Seq(ItemOf(Of(Honest, x))) : items = <<Send(Standing(x), w)>> /\ Len(items) <= 2
    BY <2>2, OneItem
  <2>4. Enqueue(x, items)
    BY <2>1, <2>3
  <2>. QED
    BY <2>3, <2>4, IdleKept
<1>2. CASE HandleAnnounce(x)
  BY <1>2, AnswersAnnounce, IdleKept
<1>3. CASE HandleWant(x)
  BY <1>3, AnswersWant, IdleKept
<1>4. CASE ApplyPart(x)
  BY <1>4, AppliesPart, IdleKept
<1>5. CASE ApplyWhole(x)
  <2>1. PICK K : \E items \in Seq(ItemOf(Of(K, x))) : Spoken(K) /\ Enqueue(x, items) /\ Len(items) <= 2
    BY <1>5, AppliesWhole
  <2>. QED
    BY <2>1, EnqueueAdds
<1>6. CASE HandleBlocks(x) \/ AckDone(x)
  BY <1>6 DEF HandleBlocks, AckDone, carrier, Idle
<1>. QED
  BY <1>1, <1>2, <1>3, <1>4, <1>5, <1>6 DEF Handle

LEMMA IdleSends ==
  ASSUME Said, Idle, NEW x \in Peer, SendResolves(x) \/ SendFails(x)
  PROVE  Idle'
<1>1. PICK K : K = Honest
  OBVIOUS
<1>2. Spoken(K) /\ NextOut(x) /\ sending[x] # <<>>
  BY <1>1 DEF Said, SendResolves, SendFails
<1>. QED
  BY <1>2, NextOutMoves

LEMMA IdleNext ==
  ASSUME Said, Idle, [Next]_vars
  PROVE  Idle'
<1>1. CASE UNCHANGED vars
  BY <1>1 DEF vars, carrier, Idle
<1>2. ASSUME NEW x \in Peer, Work(x) \/ Application(x) PROVE Idle'
  <2>1. CASE StartDone(x) \/ RejoinFires(x) \/ \E e \in Entry : Write(x, e)
    BY <2>1 DEF StartDone, RejoinFires, Write, carrier, Idle
  <2>. QED
    BY <1>2, <2>1, IdleAnswers DEF Work, Application
<1>3. ASSUME NEW x \in Peer, Deliver(x) \/ Lose(x) \/ Overtake(x) \/ Double(x) PROVE Idle'
  BY <1>3 DEF Deliver, Lose, Overtake, Double, Arrives, Idle
<1>4. ASSUME NEW x \in Peer, OpenFails(x) \/ Stop(x) PROVE Idle'
  BY <1>4 DEF OpenFails, Stop, carrier, Idle
<1>5. ASSUME NEW x \in Peer, Crash(x) PROVE Idle'
  BY <1>5 DEF Crash, Idle, Said, Spoken
<1>. QED
  BY <1>1, <1>2, <1>3, <1>4, <1>5, IdleSends DEF Next, Failure

\* Steps that leave the database and the listeners alone.
LEMMA SteadyKept ==
  ASSUME Steady, Idle', UNCHANGED <<phase, started, hooked>>, harmed => harmed',
         \A p \in Peer : log[p] \subseteq log'[p] /\ (busy'[p] = "apply" => busy[p] = "apply")
  PROVE  Steady'
BY DEF Steady, Local

\* A handler keeps the database and the listener.
LEMMA SteadyHandles ==
  ASSUME Said, Steady, Idle', harmed => harmed', NEW x \in Peer, Handle(x)
  PROVE  Steady'
<1>1. CASE HandleSoon(x) \/ HandleAnnounce(x) \/ HandleWant(x)
  <2>1. UNCHANGED <<log, phase, busy, started, hooked>>
    BY <1>1 DEF HandleSoon, HandleAnnounce, HandleWant, orbit, control
  <2>. QED
    BY <2>1, SteadyKept
<1>2. CASE ApplyPart(x) \/ AckDone(x)
  <2>1. UNCHANGED <<log, phase, started, hooked>> /\ busy' = [busy EXCEPT ![x] = "no"]
    BY <1>2 DEF ApplyPart, AckDone, orbit, control
  <2>2. \A p \in Peer : busy'[p] = "apply" => busy[p] = "apply"
    BY <2>1 DEF Said, Places
  <2>. QED
    BY <2>1, <2>2, SteadyKept
<1>3. CASE HandleBlocks(x)
  <2>1. /\ UNCHANGED <<log, started, hooked>>
        /\ \/ UNCHANGED <<phase, busy>>
           \/ Local(x) /\ UNCHANGED phase /\ busy' = [busy EXCEPT ![x] = "apply"]
           \/ ~ Local(x) /\ phase' = [phase EXCEPT ![x] = "opening"] /\ busy' = [busy EXCEPT ![x] = "apply"]
    BY <1>3 DEF HandleBlocks, orbit, Applying, OpenDatabase
  <2>2. \A p \in Peer : (phase[p] = "handed" <=> phase'[p] = "handed") /\ (busy'[p] = "apply" => Local(p)')
    BY <2>1 DEF Said, Places, Steady, Local
  <2>. QED
    BY <2>1, <2>2 DEF Steady
<1>4. CASE ApplyWhole(x)
  <2>1. \E grown \in SUBSET Entry :
          /\ log' = [log EXCEPT ![x] = grown] /\ log[x] \subseteq grown
          /\ phase' = [phase EXCEPT ![x] = "handed"]
          /\ busy[x] = "apply" /\ busy' = [busy EXCEPT ![x] = "ack"]
    BY <1>4, AppliesWhole
  <2>2. hooked' = [hooked EXCEPT ![x] = @ \/ (phase[x] = "opening" /\ Eager)] /\ UNCHANGED started
    BY <1>4 DEF ApplyWhole
  <2>3. \A p \in Peer : log[p] \subseteq log'[p]
    BY <2>1 DEF Said, Places
  <2>4. \A p \in Peer : /\ busy'[p] = "apply" => p # x /\ busy[p] = "apply" /\ phase'[p] = phase[p]
                        /\ phase[p] = "handed" => phase'[p] = "handed"
                        /\ p # x => phase'[p] = phase[p]
    BY <2>1 DEF Said, Places
  <2>5. hooked' \in [Peer -> BOOLEAN] /\ \A p \in Peer : hooked[p] => hooked'[p]
    BY <2>2 DEF Steady
  <2>6. phase[x] # "none"
    BY <2>1 DEF Steady, Local
  <2>7. Eager => (phase[x] = "handed" \/ hooked'[x])
    BY <2>2, <2>6 DEF Said, Places, Steady
  <2>8. ASSUME NEW p \in Peer, ~ harmed', Eager, started'[p], phase'[p] = "handed" PROVE hooked'[p]
    <3>1. ~ harmed /\ started[p]
      BY <2>2, <2>8
    <3>2. CASE phase[p] = "handed"
      BY <2>5, <2>8, <3>1, <3>2 DEF Steady
    <3>3. CASE phase[p] # "handed"
      BY <2>4, <2>7, <2>8, <3>3
    <3>. QED
      BY <3>2, <3>3
  <2>. QED
    BY <2>2, <2>3, <2>4, <2>5, <2>8 DEF Steady, Local
<1>. QED
  BY <1>1, <1>2, <1>3, <1>4 DEF Handle

\* Every step does.
LEMMA SteadyNext == Said /\ Steady /\ [Next]_vars => Steady'
<1>. SUFFICES ASSUME Said, Steady, [Next]_vars PROVE Steady'
  OBVIOUS
<1>1. Idle' /\ (harmed => harmed')
  BY IdleNext, HarmStays DEF Steady
<1>2. CASE UNCHANGED vars
  BY <1>1, <1>2, SteadyKept DEF vars, orbit, control
<1>3. ASSUME NEW x \in Peer, StartDone(x) \/ RejoinFires(x) \/ SendResolves(x) \/ SendFails(x) \/ Poke(x)
      PROVE  Steady'
  <2>1. UNCHANGED <<log, phase, busy, started, hooked>>
    BY <1>3 DEF StartDone, RejoinFires, SendResolves, SendFails, Poke, orbit, control
  <2>. QED
    BY <1>1, <2>1, SteadyKept
<1>4. ASSUME NEW x \in Peer, Deliver(x) \/ Lose(x) \/ Overtake(x) \/ Double(x) \/ OpenFails(x)
      PROVE  Steady'
  <2>1. UNCHANGED <<log, phase, busy, started, hooked>>
    BY <1>4 DEF Deliver, Lose, Overtake, Double, OpenFails, Arrives, orbit, control
  <2>. QED
    BY <1>1, <2>1, SteadyKept
<1>5. ASSUME NEW x \in Peer, NEW e \in Entry, Write(x, e) PROVE Steady'
  <2>1. UNCHANGED <<phase, busy, started, hooked>> /\ log' = [log EXCEPT ![x] = log[x] \cup {e}]
    BY <1>5 DEF Write, control, Said, Places
  <2>2. \A p \in Peer : log[p] \subseteq log'[p]
    BY <2>1 DEF Said, Places
  <2>. QED
    BY <1>1, <2>1, <2>2, SteadyKept
<1>6. ASSUME NEW x \in Peer, Start(x) PROVE Steady'
  <2>1. /\ started' = [started EXCEPT ![x] = TRUE] /\ UNCHANGED <<log, phase, busy>>
        /\ hooked' = [hooked EXCEPT ![x] = @ \/ (phase[x] = "handed" /\ Eager)]
    BY <1>6 DEF Start, orbit
  <2>2. started' \in [Peer -> BOOLEAN] /\ hooked' \in [Peer -> BOOLEAN] /\ \A p \in Peer : hooked[p] => hooked'[p]
    BY <2>1 DEF Steady
  <2>3. Eager /\ phase[x] = "handed" => hooked'[x]
    BY <2>1 DEF Steady
  <2>4. ASSUME NEW p \in Peer, ~ harmed', Eager, started'[p], phase'[p] = "handed" PROVE hooked'[p]
    <3>1. CASE p = x
      BY <2>1, <2>3, <2>4, <3>1
    <3>2. CASE p # x
      <4>1. started[p] /\ phase[p] = "handed" /\ ~ harmed
        BY <1>1, <2>1, <2>4, <3>2 DEF Steady
      <4>. QED
        BY <2>2, <2>4, <4>1 DEF Steady
    <3>. QED
      BY <3>1, <3>2
  <2>. QED
    BY <1>1, <2>1, <2>2, <2>4 DEF Steady, Local
<1>7. ASSUME NEW x \in Peer, Stop(x) \/ Crash(x) PROVE Steady'
  <2>1. harmed'
    BY <1>7 DEF Stop, Crash, Fault
  <2>2. /\ started' = [started EXCEPT ![x] = FALSE] /\ hooked' = [hooked EXCEPT ![x] = FALSE] /\ UNCHANGED log
        /\ \/ UNCHANGED <<phase, busy>>
           \/ /\ phase' = [phase EXCEPT ![x] = IF @ = "handed" THEN @ ELSE "none"]
              /\ busy' = [busy EXCEPT ![x] = "no"]
    BY <1>7 DEF Stop, Crash, orbit
  <2>3. started' \in [Peer -> BOOLEAN] /\ hooked' \in [Peer -> BOOLEAN]
    BY <2>2 DEF Steady
  <2>4. \A p \in Peer : (busy'[p] = "apply" => Local(p)') /\ (phase[p] = "handed" => phase'[p] = "handed")
    BY <2>2 DEF Said, Places, Steady, Local
  <2>. QED
    BY <1>1, <2>1, <2>2, <2>3, <2>4 DEF Steady
<1>. QED
  BY <1>1, <1>2, <1>3, <1>4, <1>5, <1>6, <1>7, SteadyHandles DEF Next, Failure, Work, Application

\* The handlers together.
LEMMA LevelHandles ==
  ASSUME Said, Closed, Steady, NEW x \in Peer, Handle(x),
         NEW p \in Peer, NEW q \in Peer, Said', Closed', Apart(p, q)', Apart(p, q) => Route(p, q)
  PROVE  Route(p, q)'
<1>1. started \in [Peer -> BOOLEAN] /\ (busy[x] = "apply" => Local(x))
  BY DEF Steady
<1>2. CASE HandleSoon(x)
  BY <1>1, <1>2, LevelStanding
<1>3. CASE HandleAnnounce(x)
  BY <1>3, LevelAnnounce
<1>4. CASE HandleWant(x)
  BY <1>4, LevelWant
<1>5. CASE HandleBlocks(x)
  BY <1>5, LevelBlocks
<1>6. CASE ApplyPart(x)
  BY <1>6, LevelPart
<1>7. CASE ApplyWhole(x)
  BY <1>1, <1>7, LevelWhole
<1>8. CASE AckDone(x)
  BY <1>8, LevelAck
<1>. QED
  BY <1>2, <1>3, <1>4, <1>5, <1>6, <1>7, <1>8 DEF Handle

\* What the carrier does that is no harm.
LEMMA LevelTravels ==
  ASSUME Said, Closed, NEW x \in Peer, Deliver(x) \/ Overtake(x) \/ Double(x),
         NEW p \in Peer, NEW q \in Peer, Apart(p, q)', Apart(p, q) => Route(p, q)
  PROVE  Route(p, q)'
<1>1. CASE Double(x)
  BY <1>1, LevelDouble
<1>2. CASE Deliver(x) \/ Overtake(x)
  <2>1. PICK i \in 1..Len(air[x]) : Arrives(x, i, {})
    BY <1>2, OneArrives
  <2>. QED
    BY <2>1, LevelArrives
<1>. QED
  BY <1>1, <1>2

\* The other faults take something away.
LEMMA HarmIsDone ==
  ASSUME NEW x \in Peer, Lose(x) \/ SendFails(x) \/ OpenFails(x) \/ Stop(x) \/ Crash(x)
  PROVE  harmed'
BY DEF Lose, SendFails, OpenFails, Stop, Crash, Fault

\* No step leaves two apart with nothing to say.
LEMMA LevellingNext ==
  ASSUME Said, Closed, Steady, Levelling, [Next]_vars, Said', Closed'
  PROVE  Levelling'
<1>. SUFFICES ASSUME ~ harmed', Eager, NEW p \in Peer, NEW q \in Peer, Apart(p, q)'
              PROVE  Route(p, q)'
  BY DEF Levelling
<1>1. ~ harmed /\ (Apart(p, q) => Route(p, q))
  BY HarmStays DEF Levelling
<1>2. started \in [Peer -> BOOLEAN]
  BY DEF Steady
<1>3. CASE UNCHANGED vars
  <2>1. Apart(p, q) /\ UNCHANGED <<log, phase, busy, inbox, outbox, air>>
    BY <1>3, ApartAsBefore DEF vars, orbit, control, carrier
  <2>2. Out(p)' = Out(p) /\ Out(q)' = Out(q)
    BY <2>1 DEF Out
  <2>. QED
    BY <1>1, <2>1, <2>2, RouteOfOthers
<1>4. ASSUME NEW x \in Peer, Work(x) \/ SendResolves(x) PROVE Route(p, q)'
  BY <1>1, <1>4, LevelHandles, LevelSends, LevelRejoin DEF Work
<1>5. ASSUME NEW x \in Peer, Application(x) PROVE Route(p, q)'
  BY <1>1, <1>2, <1>5, LevelStanding, LevelWrite DEF Application
<1>6. ASSUME NEW x \in Peer, Deliver(x) PROVE Route(p, q)'
  BY <1>1, <1>6, LevelTravels
<1>7. CASE Failure
  BY <1>1, <1>7, LevelTravels, HarmIsDone DEF Failure
<1>. QED
  BY <1>3, <1>4, <1>5, <1>6, <1>7 DEF Next

-----------------------------------------------------------------------------
(* Who listens. *)

\* Who was not started has said nothing, and nothing of its is to be handled.
Speakers ==
  ~harmed => \A x \in Peer : ~ started[x] =>
    /\ outbox[x] = <<>> /\ air[x] = <<>> /\ inbox[x] = <<>> /\ ~ hooked[x]
    /\ \A y \in Peer : \A m \in Elements(inbox[y]) : m.from # x

\* One that was started acts.
LEMMA SpeakersKept ==
  ASSUME Speakers, ~ harmed, NEW x \in Peer, started'[x],
         \A z \in Peer \ {x} : /\ started'[z] = started[z] /\ outbox'[z] = outbox[z] /\ air'[z] = air[z]
                               /\ hooked'[z] = hooked[z] /\ (started[z] \/ inbox'[z] = inbox[z]),
         \A y \in Peer : \A m \in Elements(inbox'[y]) : m \in Elements(inbox[y]) \/ m.from = x
  PROVE  Speakers'
BY DEF Speakers

\* What x sends is of no other's.
LEMMA SentElsewhere ==
  ASSUME Said, NEW x \in Peer, NEW items, Enqueue(x, items) \/ NextOut(x)
  PROVE  \A z \in Peer \ {x} : outbox'[z] = outbox[z] /\ air'[z] = air[z]
<1>1. /\ outbox = [q \in Peer |-> outbox[q]] /\ air = [q \in Peer |-> air[q]]
  BY DEF Said, Spoken
<1>2. \E t : outbox' = [outbox EXCEPT ![x] = t] \/ UNCHANGED outbox
  <2>1. CASE Enqueue(x, items)
    <3>1. PICK t : t = PutAll(outbox[x], IF sending[x] = <<>> /\ items # <<>> THEN Tail(items) ELSE items)
      OBVIOUS
    <3>2. outbox' = [outbox EXCEPT ![x] = t]
      BY <1>1, <2>1, <3>1 DEF Enqueue
    <3>. QED
      BY <3>2
  <2>2. CASE NextOut(x)
    <3>1. PICK t : t = Tail(outbox[x])
      OBVIOUS
    <3>2. outbox' = [outbox EXCEPT ![x] = t] \/ UNCHANGED outbox
      BY <1>1, <2>2, <3>1 DEF NextOut
    <3>. QED
      BY <3>2
  <2>. QED
    BY <2>1, <2>2
<1>3. \E t : air' = [air EXCEPT ![x] = t] \/ UNCHANGED air
  <2>1. CASE Enqueue(x, items)
    <3>1. PICK t : t = Append(air[x], Head(items).message)
      OBVIOUS
    <3>2. air' = [air EXCEPT ![x] = t] \/ UNCHANGED air
      BY <1>1, <2>1, <3>1 DEF Enqueue, Transmit
    <3>. QED
      BY <3>2
  <2>2. CASE NextOut(x)
    <3>1. PICK t : t = Append(air[x], Head(outbox[x]).message)
      OBVIOUS
    <3>2. air' = [air EXCEPT ![x] = t] \/ UNCHANGED air
      BY <1>1, <2>2, <3>1 DEF NextOut, Transmit
    <3>. QED
      BY <3>2
  <2>. QED
    BY <2>1, <2>2
<1>. QED
  BY <1>1, <1>2, <1>3

\* The queue of a peer that handles, and of one that adds a task of its own.
LEMMA QueueOf ==
  ASSUME Said, NEW x \in Peer
  PROVE  /\ inbox[x] # <<>> /\ TaskDone(x) =>
              /\ \A z \in Peer \ {x} : inbox'[z] = inbox[z]
              /\ Elements(inbox'[x]) \subseteq Elements(inbox[x])
         /\ inbox' = [inbox EXCEPT ![x] = Append(@, Soon(x))] =>
              /\ \A z \in Peer \ {x} : inbox'[z] = inbox[z]
              /\ \A m \in Elements(inbox'[x]) : m \in Elements(inbox[x]) \/ m.from = x
         /\ inbox[x] # <<>> => Task(x) \in Elements(inbox[x])
<1>1. PICK K : K = Honest
  OBVIOUS
<1>2. inbox[x] \in Seq(To(K, x)) /\ inbox = [q \in Peer |-> inbox[q]] /\ Queued(K) /\ Soon(x) \in To(K, x)
  BY <1>1, SoonIsHonest DEF Said, Queued, To
<1>3. PICK S : S = To(K, x)
  OBVIOUS
<1>4. inbox[x] \in Seq(S) /\ Soon(x) \in S
  BY <1>2, <1>3
<1>5. ASSUME inbox[x] # <<>> PROVE Task(x) \in Elements(inbox[x]) /\ Elements(Tail(inbox[x])) \subseteq Elements(inbox[x])
  BY <1>4, <1>5, ElementsTail DEF Task
<1>6. ASSUME inbox[x] # <<>>, TaskDone(x)
      PROVE  /\ \A z \in Peer \ {x} : inbox'[z] = inbox[z]
             /\ Elements(inbox'[x]) \subseteq Elements(inbox[x])
  <2>1. PICK t : t = Tail(inbox[x])
    OBVIOUS
  <2>2. inbox' = [inbox EXCEPT ![x] = t]
    BY <1>2, <1>6, <2>1 DEF TaskDone
  <2>. QED
    BY <1>2, <1>5, <1>6, <2>1, <2>2
<1>7. ASSUME inbox' = [inbox EXCEPT ![x] = Append(@, Soon(x))]
      PROVE  /\ \A z \in Peer \ {x} : inbox'[z] = inbox[z]
             /\ \A m \in Elements(inbox'[x]) : m \in Elements(inbox[x]) \/ m.from = x
  <2>1. PICK t : t = Append(inbox[x], Soon(x))
    OBVIOUS
  <2>2. inbox' = [inbox EXCEPT ![x] = t]
    BY <1>2, <1>7, <2>1
  <2>3. Elements(t) = Elements(inbox[x]) \cup {Soon(x)}
    BY <1>4, <2>1, ElementsAppend
  <2>4. PICK m : m = Soon(x)
    OBVIOUS
  <2>5. m.from = x
    BY <2>4 DEF Soon
  <2>. QED
    BY <1>2, <2>2, <2>3, <2>4, <2>5
<1>. QED
  BY <1>5, <1>6, <1>7

\* A peer that handles was started, and so was the one whose message it is.
LEMMA TaskIsOfSpeakers ==
  ASSUME Said, Speakers, ~ harmed, NEW x \in Peer, inbox[x] # <<>>
  PROVE  /\ started[x]
         /\ Task(x).from \in Peer /\ started[Task(x).from]
         /\ Task(x) \in Honest /\ (Task(x).t = "soon" \/ Task(x).from # x)
         /\ Task(x).t \notin {"want", "soon"} => Local(Task(x).from)
<1>1. Queued(Honest)
  BY DEF Said
<1>2. Task(x) \in Honest /\ (Task(x).t = "soon" \/ Task(x).from # x) /\ Task(x) \in Elements(inbox[x])
  BY <1>1, TaskIsQueued, QueueOf
<1>3. Task(x).from \in Peer
  BY <1>2 DEF Honest, Message
<1>. QED
  BY <1>2, <1>3 DEF Speakers, Honest, Local

\* Steps that add no message and start or stop nobody.
LEMMA SpeakersSame ==
  ASSUME Speakers, ~ harmed, UNCHANGED <<started, hooked, outbox, air, inbox>>
  PROVE  Speakers'
BY DEF Speakers

\* A handler runs only at a peer that was started.
LEMMA SpeakersHandle ==
  ASSUME Said, Speakers, ~ harmed, NEW x \in Peer, Handle(x)
  PROVE  Speakers'
<1>1. inbox[x] # <<>>
  BY DEF Handle, HandleSoon, HandleAnnounce, HandleWant, HandleBlocks, Handling, ApplyPart, ApplyWhole, AckDone,
         Said, UnderWay
<1>2. started[x]
  BY <1>1, TaskIsOfSpeakers
<1>3. UNCHANGED started /\ \A z \in Peer \ {x} : hooked'[z] = hooked[z]
  <2>1. CASE ApplyWhole(x)
    <3>1. PICK h : h = (hooked[x] \/ (phase[x] = "opening" /\ Eager))
      OBVIOUS
    <3>2. hooked' = [hooked EXCEPT ![x] = h] /\ UNCHANGED started
      BY <2>1, <3>1 DEF ApplyWhole
    <3>. QED
      BY <3>2
  <2>2. CASE ~ ApplyWhole(x)
    BY <2>2 DEF Handle, HandleSoon, HandleAnnounce, HandleWant, HandleBlocks, ApplyPart, AckDone, control
  <2>. QED
    BY <2>1, <2>2
<1>4. \A z \in Peer \ {x} : outbox'[z] = outbox[z] /\ air'[z] = air[z]
  <2>1. (\E items : Enqueue(x, items)) \/ UNCHANGED <<outbox, air>>
    BY DEF Handle, HandleSoon, HandleAnnounce, HandleWant, HandleBlocks, ApplyPart, ApplyWhole, AckDone, carrier
  <2>. QED
    BY <2>1, SentElsewhere
<1>5. TaskDone(x) \/ UNCHANGED inbox
  BY DEF Handle, HandleSoon, HandleAnnounce, HandleWant, HandleBlocks, ApplyPart, ApplyWhole, AckDone, Applying
<1>6. (\A z \in Peer \ {x} : inbox'[z] = inbox[z]) /\ Elements(inbox'[x]) \subseteq Elements(inbox[x])
  BY <1>1, <1>5, QueueOf
<1>7. \A y \in Peer : Elements(inbox'[y]) \subseteq Elements(inbox[y])
  BY <1>6
<1>. QED
  BY <1>2, <1>3, <1>4, <1>6, <1>7, SpeakersKept

\* Nobody speaks before being started.
LEMMA SpeakersNext ==
  ASSUME Said, Speakers, ~ harmed, ~ harmed', [Next]_vars, started \in [Peer -> BOOLEAN]
  PROVE  Speakers'
<1>1. CASE UNCHANGED vars
  BY <1>1, SpeakersSame DEF vars, control, carrier
<1>2. ASSUME NEW x \in Peer, StartDone(x) PROVE Speakers'
  BY <1>2, SpeakersSame DEF StartDone, carrier
<1>3. ASSUME NEW x \in Peer, NEW e, RejoinFires(x) \/ Write(x, e) PROVE Speakers'
  <2>1. UNCHANGED <<started, hooked, outbox, air>>
    BY <1>3 DEF RejoinFires, Write, control, carrier
  <2>2. CASE UNCHANGED inbox
    BY <2>1, <2>2, SpeakersSame
  <2>3. CASE ~ UNCHANGED inbox
    <3>1. started[x] /\ inbox' = [inbox EXCEPT ![x] = Append(@, Soon(x))]
      BY <1>3, <2>3 DEF RejoinFires, Write, HearUpdate, Speakers
    <3>2. /\ \A z \in Peer \ {x} : inbox'[z] = inbox[z]
          /\ \A m \in Elements(inbox'[x]) : m \in Elements(inbox[x]) \/ m.from = x
      BY <3>1, QueueOf
    <3>3. \A y \in Peer : \A m \in Elements(inbox'[y]) : m \in Elements(inbox[y]) \/ m.from = x
      BY <3>2
    <3>. QED
      BY <2>1, <3>1, <3>2, <3>3, SpeakersKept
  <2>. QED
    BY <2>2, <2>3
<1>4. ASSUME NEW x \in Peer, Start(x) PROVE Speakers'
  <2>1. /\ started' = [started EXCEPT ![x] = TRUE] /\ UNCHANGED inbox
        /\ \E items : Enqueue(x, items)
    BY <1>4 DEF Start
  <2>2. \A z \in Peer \ {x} : hooked'[z] = hooked[z]
    <3>1. PICK h : h = (hooked[x] \/ (phase[x] = "handed" /\ Eager))
      OBVIOUS
    <3>2. hooked' = [hooked EXCEPT ![x] = h]
      BY <1>4, <3>1 DEF Start
    <3>. QED
      BY <3>2
  <2>3. started'[x] /\ \A z \in Peer \ {x} : started'[z] = started[z]
    BY <2>1
  <2>4. \A z \in Peer \ {x} : outbox'[z] = outbox[z] /\ air'[z] = air[z]
    BY <2>1, SentElsewhere
  <2>. QED
    BY <2>1, <2>2, <2>3, <2>4, SpeakersKept
<1>5. ASSUME NEW x \in Peer, Poke(x) PROVE Speakers'
  <2>1. started[x] /\ UNCHANGED <<started, hooked, inbox>> /\ \E items : Enqueue(x, items)
    BY <1>5 DEF Poke, control
  <2>2. \A z \in Peer \ {x} : outbox'[z] = outbox[z] /\ air'[z] = air[z]
    BY <2>1, SentElsewhere
  <2>. QED
    BY <2>1, <2>2, SpeakersKept
<1>6. ASSUME NEW x \in Peer, SendResolves(x) PROVE Speakers'
  <2>1. NextOut(x) /\ UNCHANGED <<started, hooked, inbox>>
    BY <1>6 DEF SendResolves, control
  <2>2. CASE started[x]
    <3>1. \A z \in Peer \ {x} : outbox'[z] = outbox[z] /\ air'[z] = air[z]
      BY <2>1, SentElsewhere
    <3>. QED
      BY <2>1, <2>2, <3>1, SpeakersKept
  <2>3. CASE ~ started[x]
    <3>1. outbox[x] = <<>>
      BY <2>3 DEF Speakers
    <3>. QED
      BY <2>1, <3>1, SpeakersSame DEF NextOut
  <2>. QED
    BY <2>2, <2>3
<1>7. ASSUME NEW x \in Peer, Deliver(x) \/ Overtake(x) PROVE Speakers'
  <2>1. PICK K : K = Honest
    OBVIOUS
  <2>2. PICK S : S = Of(K, x)
    OBVIOUS
  <2>3. /\ air[x] \in Seq(S) /\ air = [y \in Peer |-> air[y]] /\ \A m \in S : m \in K /\ m.from = x
        /\ \A y \in Peer : inbox[y] \in Seq(To(K, y))
    BY <2>1, <2>2 DEF Said, Spoken, Of, Queued
  <2>4. Len(air[x]) \in Nat /\ (air[x] # <<>> => Len(air[x]) # 0) /\ (Len(air[x]) # 0 => air[x] # <<>>)
    BY <2>3, LenProperties, EmptySeq
  <2>5. PICK i \in 1..Len(air[x]) : Arrives(x, i, {})
    BY <1>7, <2>4 DEF Deliver, Overtake
  <2>6. started[x]
    <3>1. air[x] # <<>>
      BY <2>4
    <3>. QED
      BY <3>1 DEF Speakers
  <2>7. PICK m \in S : m = air[x][i]
    BY <2>3, ElementOfSeq
  <2>8. inbox' = [y \in Peer |-> IF started[y] /\ y \notin {x} THEN Append(inbox[y], m) ELSE inbox[y]]
    BY <2>5, <2>7 DEF Arrives
  <2>9. UNCHANGED <<started, hooked, outbox>> /\ \A z \in Peer \ {x} : air'[z] = air[z]
    <3>1. PICK left : left = RemoveAt(air[x], i)
      OBVIOUS
    <3>2. air' = [air EXCEPT ![x] = left]
      BY <2>3, <2>5, <3>1 DEF Arrives
    <3>3. UNCHANGED <<started, hooked, outbox>>
      BY <2>5 DEF Arrives, control
    <3>. QED
      BY <2>3, <3>2, <3>3
  <2>10. ASSUME NEW y \in Peer, NEW n \in Elements(inbox'[y]) PROVE n \in Elements(inbox[y]) \/ n.from = x
    <3>1. CASE started[y] /\ y # x
      <4>1. inbox'[y] = Append(inbox[y], m) /\ m \in To(K, y)
        BY <2>3, <2>8, <3>1 DEF To
      <4>2. PICK T : T = To(K, y)
        OBVIOUS
      <4>3. inbox[y] \in Seq(T) /\ m \in T
        BY <2>3, <4>1, <4>2
      <4>4. Elements(inbox'[y]) = Elements(inbox[y]) \cup {m}
        BY <4>1, <4>3, ElementsAppend
      <4>. QED
        BY <2>3, <2>10, <4>4
    <3>2. CASE ~ (started[y] /\ y # x)
      BY <2>8, <2>10, <3>2
    <3>. QED
      BY <3>1, <3>2
  <2>11. \A z \in Peer \ {x} : started[z] \/ inbox'[z] = inbox[z]
    BY <2>8
  <2>. QED
    BY <2>6, <2>9, <2>10, <2>11, SpeakersKept
<1>8. ASSUME NEW x \in Peer, Double(x) PROVE Speakers'
  <2>1. UNCHANGED <<started, hooked, outbox, inbox>>
    BY <1>8 DEF Double, control
  <2>2. PICK i \in DOMAIN air[x] : air' = [air EXCEPT ![x] = Append(@, @[i])]
    BY <1>8 DEF Double
  <2>3. air = [y \in Peer |-> air[y]]
    BY DEF Said, Spoken
  <2>4. \A z \in Peer \ {x} : air'[z] = air[z]
    <3>1. PICK t : t = Append(air[x], air[x][i])
      OBVIOUS
    <3>2. air' = [air EXCEPT ![x] = t]
      BY <2>2, <2>3, <3>1
    <3>. QED
      BY <2>3, <3>2
  <2>5. started[x]
    <3>1. air[x] # <<>>
      <4>1. DOMAIN <<>> = {}
        OBVIOUS
      <4>. QED
        BY <2>2, <4>1
    <3>. QED
      BY <3>1 DEF Speakers
  <2>. QED
    BY <2>1, <2>4, <2>5, SpeakersKept
<1>. QED
  BY <1>1, <1>2, <1>3, <1>4, <1>5, <1>6, <1>7, <1>8, SpeakersHandle, HarmIsDone
  DEF Next, Failure, Work, Application

-----------------------------------------------------------------------------
(* Who joins. *)

\* Somebody who is there lacks something of another.
Uneven == \E r, x \in Peer : Apart(r, x)

\* r answers the message when it comes.
Answered(r, m) ==
  \/ m.t = "want" /\ Local(r)
  \/ m.t = "blocks" /\ (Local(r) \/ Manifest \in m.blocks)

\* Something is on its way that ends in a request of p's or in news for p.
Way(p) ==
  \/ Out(p) # {}
  \/ \E x \in Peer \ {p} : \E m \in On(x, p) : m.t = "announce" /\ m.heads # {}
  \/ \E x, r \in Peer : x # r /\ started[r] /\ \E m \in On(x, r) : Answered(r, m)
  \/ \E r \in Peer : busy[r] = "apply" \/ \E m \in In(r) : m.t = "soon"

\* p waits for a database that q has.
Awaits(p, q) == started[p] /\ started[q] /\ phase[p] = "none" /\ log[q] # {}

\* While all who have a database agree, one that waits for it will ask or be told.
Joining == ~harmed /\ Eager => \A p, q \in Peer : Awaits(p, q) => Uneven \/ Way(p)

\* A log that is not empty has a head.
LEMMA HeadsOfSome ==
  ASSUME NEW L \in SUBSET Entry, Past(L) \subseteq L, L # {}
  PROVE  Heads(L) # {}
<1>1. \A x \in L : next[x] \subseteq L
  BY PastExtends, PastIsClosed
<1>2. Past(Heads(L)) = L
  BY <1>1, HeadsReachAll
<1>. QED
  BY <1>2, PastOfNothing

\* While no two differ, everybody with a database has what q has.
LEMMA EvenHeads ==
  ASSUME Said', Closed', ~ Uneven', NEW p \in Peer, NEW q \in Peer, Awaits(p, q)',
         NEW x \in Peer, started'[x], Local(x)'
  PROVE  /\ p # q /\ x # p /\ Local(q)' /\ Heads(log'[x]) # {}
<1>1. log'[q] \subseteq log'[x] /\ log'[q] # {}
  BY DEF Uneven, Apart, Awaits
<1>2. log'[x] \in SUBSET Entry /\ Past(log'[x]) \subseteq log'[x]
  BY DEF Closed, LogsAreClosed
<1>3. PICK L \in SUBSET Entry : L = log'[x] /\ Past(L) \subseteq L /\ L # {}
  BY <1>1, <1>2
<1>4. Heads(L) # {}
  BY <1>3, HeadsOfSome
<1>5. phase'[q] = "handed"
  BY <1>1 DEF Said, Places
<1>. QED
  BY <1>3, <1>4, <1>5 DEF Awaits, Local

\* A step on which no log, phase or start changes leaves both questions as they were.
LEMMA EvenAsBefore ==
  ASSUME UNCHANGED <<log, phase, started>>, ~ Uneven', NEW p \in Peer, NEW q \in Peer, Awaits(p, q)'
  PROVE  ~ Uneven /\ Awaits(p, q)
BY DEF Uneven, Apart, Awaits, Local

\* What is said is on its way.
LEMMA WayOfSaid ==
  ASSUME NEW p \in Peer, NEW y \in Peer, NEW m \in Out(y)',
         \/ y = p
         \/ m.t = "announce" /\ m.heads # {}
         \/ \E r \in Peer \ {y} : started'[r] /\ Answered(r, m)'
  PROVE  Way(p)'
<1>1. CASE y = p
  BY <1>1 DEF Way
<1>2. CASE y # p /\ m.t = "announce" /\ m.heads # {}
  BY <1>2 DEF Way, On
<1>3. CASE \E r \in Peer \ {y} : started'[r] /\ Answered(r, m)'
  BY <1>3 DEF Way, On
<1>. QED
  BY <1>1, <1>2, <1>3

LEMMA WayOfSentBy ==
  ASSUME NEW K, Spoken(K), NEW y \in Peer, NEW items \in Seq(ItemOf(Of(K, y))), items # <<>>, Len(items) <= 2,
         Enqueue(y, items), NEW p \in Peer, NEW m, m = items[Len(items)].message,
         \/ y = p
         \/ m.t = "announce" /\ m.heads # {}
         \/ \E r \in Peer \ {y} : started'[r] /\ Answered(r, m)'
  PROVE  Way(p)'
<1>1. m \in Out(y)'
  BY EnqueueAdds
<1>. QED
  BY <1>1, WayOfSaid

LEMMA WayOfSent ==
  ASSUME Said, NEW y \in Peer, NEW items \in Seq(ItemOf(Of(Honest, y))), items # <<>>, Len(items) <= 2,
         Enqueue(y, items), NEW p \in Peer, NEW m, m = items[Len(items)].message,
         \/ y = p
         \/ m.t = "announce" /\ m.heads # {}
         \/ \E r \in Peer \ {y} : started'[r] /\ Answered(r, m)'
  PROVE  Way(p)'
<1>1. PICK K : K = Honest
  OBVIOUS
<1>2. Spoken(K) /\ items \in Seq(ItemOf(Of(K, y)))
  BY <1>1 DEF Said
<1>. QED
  BY <1>2, WayOfSentBy

\* A step that takes none of it away.
LEMMA WayKept ==
  ASSUME NEW p \in Peer, Way(p),
         \A y \in Peer : /\ Out(y) \subseteq Out(y)' /\ (busy[y] = "apply" => busy'[y] = "apply")
                         /\ (started[y] => started'[y]) /\ (Local(y) => Local(y)'),
         \A y \in Peer : \A m \in In(y) :
           (m.t = "soon" \/ (y = p /\ m.t = "announce" /\ m.heads # {}) \/ (started[y] /\ Answered(y, m)))
             => m \in In(y)'
  PROVE  Way(p)'
<1>1. CASE Out(p) # {}
  <2>1. Out(p)' # {}
    BY <1>1
  <2>. QED
    BY <2>1 DEF Way
<1>2. CASE \E x \in Peer \ {p} : \E m \in On(x, p) : m.t = "announce" /\ m.heads # {}
  <2>0. PICK x \in Peer \ {p} : \E m \in On(x, p) : m.t = "announce" /\ m.heads # {}
    BY <1>2
  <2>1. PICK m \in On(x, p) : m.t = "announce" /\ m.heads # {}
    BY <2>0
  <2>2. m \in On(x, p)'
    BY <2>1 DEF On
  <2>. QED
    BY <2>1, <2>2 DEF Way
<1>3. CASE \E x, r \in Peer : x # r /\ started[r] /\ \E m \in On(x, r) : Answered(r, m)
  <2>1. PICK x \in Peer, r \in Peer : x # r /\ started[r] /\ \E m \in On(x, r) : Answered(r, m)
    BY <1>3
  <2>2. PICK m \in On(x, r) : Answered(r, m)
    BY <2>1
  <2>3. m \in On(x, r)'
    BY <2>1, <2>2 DEF On
  <2>4. started'[r] /\ Answered(r, m)'
    BY <2>1, <2>2 DEF Answered
  <2>. QED
    BY <2>1, <2>3, <2>4 DEF Way
<1>4. CASE \E r \in Peer : busy[r] = "apply" \/ \E m \in In(r) : m.t = "soon"
  BY <1>4 DEF Way
<1>. QED
  BY <1>1, <1>2, <1>3, <1>4 DEF Way

\* HandleSoon, Start and Poke.
LEMMA JoinStanding ==
  ASSUME Said, Speakers, ~ harmed, NEW y \in Peer, HandleSoon(y) \/ Start(y) \/ Poke(y),
         NEW p \in Peer, NEW q \in Peer, Said', Closed', ~ Uneven', Awaits(p, q)',
         started \in [Peer -> BOOLEAN]
  PROVE  Way(p)'
<1>1. PICK w \in {"nobody", "start"} : Enqueue(y, <<Send(Standing(y), w)>>)
  BY DEF HandleSoon, Start, Poke
<1>2. UNCHANGED <<log, phase>>
  BY DEF HandleSoon, Start, Poke, orbit
<1>3. started'[y]
  <2>1. CASE HandleSoon(y)
    BY <2>1, TaskIsOfSpeakers DEF HandleSoon, Handling, control
  <2>2. CASE Start(y)
    BY <2>2 DEF Start
  <2>3. CASE Poke(y)
    BY <2>3 DEF Poke, control
  <2>. QED
    BY <2>1, <2>2, <2>3
<1>4. PICK m : m = Standing(y)
  OBVIOUS
<1>5. PICK i : i = Send(m, w)
  OBVIOUS
<1>6. i \in ItemOf(Of(Honest, y)) /\ i.message = m
  BY <1>4, <1>5, StandingIsHonest, ItemsOf DEF Send, Said
<1>7. PICK I : I = ItemOf(Of(Honest, y))
  OBVIOUS
<1>8. PICK items \in Seq(I) : items = <<i>> /\ Len(items) <= 2 /\ items # <<>> /\ items[Len(items)] = i
  BY <1>6, <1>7, ItemsSent
<1>9. Enqueue(y, items) /\ items \in Seq(ItemOf(Of(Honest, y))) /\ m = items[Len(items)].message
  BY <1>1, <1>4, <1>5, <1>6, <1>7, <1>8
<1>10. CASE Local(y)
  <2>1. Heads(log'[y]) # {}
    BY <1>2, <1>3, <1>10, EvenHeads DEF Local
  <2>2. m.t = "announce" /\ m.heads = Heads(log[y])
    BY <1>4, <1>10 DEF Standing, Announce
  <2>. QED
    BY <1>2, <1>8, <1>9, <2>1, <2>2, WayOfSent
<1>11. CASE ~ Local(y)
  <2>1. m.t = "want"
    BY <1>4, <1>11 DEF Standing, Want
  <2>2. phase'[q] = "handed" /\ started'[q]
    BY DEF Awaits, Said, Places
  <2>3. q # y /\ Answered(q, m)'
    BY <1>2, <1>11, <2>1, <2>2 DEF Answered, Local
  <2>. QED
    BY <1>8, <1>9, <2>2, <2>3, WayOfSent
<1>. QED
  BY <1>10, <1>11

\* An announcement is answered, or it told nothing.
LEMMA JoinAnnounce ==
  ASSUME Said, Speakers, ~ harmed, NEW y \in Peer, HandleAnnounce(y),
         NEW p \in Peer, NEW q \in Peer, ~ Uneven', Awaits(p, q)', Awaits(p, q) /\ ~ Uneven => Way(p)
  PROVE  Way(p)'
<1>. DEFINE m == Task(y)
<1>1. /\ inbox[y] # <<>> /\ busy[y] = "no" /\ m.t = "announce" /\ TaskDone(y)
      /\ UNCHANGED <<log, phase, busy, started>> /\ busy' = [busy EXCEPT ![y] = "no"]
  BY DEF HandleAnnounce, Handling, orbit, control, Said, Places
<1>2. Way(p) /\ log[p] = {}
  BY <1>1, EvenAsBefore DEF Awaits, Said, Places
<1>3. PICK w \in Peer : w = m.from /\ w # y /\ started[w] /\ Local(w)
  BY <1>1, TaskIsOfSpeakers
<1>4. PICK items \in Seq(ItemOf(Of(Honest, y))) :
        /\ Enqueue(y, items) /\ Len(items) <= 2
        /\ items = <<>> => m.heads \subseteq log[y]
        /\ items # <<>> => items[Len(items)].message.t \in {"want", "blocks"}
  BY AnswersAnnounce
<1>5. CASE items # <<>>
  <2>1. PICK r : r = items[Len(items)].message
    OBVIOUS
  <2>2. started'[w] /\ Answered(w, r)'
    BY <1>1, <1>3, <1>4, <1>5, <2>1 DEF Answered, Local
  <2>. QED
    BY <1>3, <1>4, <1>5, <2>1, <2>2, WayOfSent
<1>6. CASE items = <<>>
  <2>1. \A z \in Peer : Out(z)' = Out(z)
    BY <1>4, <1>6, NothingSent
  <2>2. (\A z \in Peer \ {y} : In(z)' = In(z)) /\ In(y) = {m} \cup In(y)'
    BY <1>1, TaskGone
  <2>3. y = p => m.heads = {}
    BY <1>2, <1>4, <1>6
  <2>4. ~ Answered(y, m)
    BY <1>1 DEF Answered
  <2>5. ASSUME NEW z \in Peer, NEW n \in In(z),
               n.t = "soon" \/ (z = p /\ n.t = "announce" /\ n.heads # {}) \/ (started[z] /\ Answered(z, n))
        PROVE  n \in In(z)'
    BY <1>1, <2>2, <2>3, <2>4, <2>5
  <2>6. \A z \in Peer : Local(z) => Local(z)'
    BY <1>1 DEF Local
  <2>. QED
    BY <1>1, <1>2, <2>1, <2>5, <2>6, WayKept
<1>. QED
  BY <1>5, <1>6

\* A request is answered by whoever has the database.
LEMMA JoinWant ==
  ASSUME Said, Speakers, ~ harmed, NEW y \in Peer, HandleWant(y),
         NEW p \in Peer, NEW q \in Peer, ~ Uneven', Awaits(p, q)', Awaits(p, q) /\ ~ Uneven => Way(p)
  PROVE  Way(p)'
<1>. DEFINE m == Task(y)
<1>1. /\ inbox[y] # <<>> /\ busy[y] = "no" /\ m.t = "want" /\ TaskDone(y)
      /\ UNCHANGED <<log, phase, busy, started>> /\ busy' = [busy EXCEPT ![y] = "no"]
  BY DEF HandleWant, Handling, orbit, control, Said, Places
<1>2. Way(p)
  BY <1>1, EvenAsBefore
<1>3. PICK w \in Peer : w = m.from /\ w # y /\ started[w]
  BY <1>1, TaskIsOfSpeakers
<1>4. PICK items \in Seq(ItemOf(Of(Honest, y))) :
        /\ Enqueue(y, items) /\ Len(items) <= 2
        /\ items = <<>> => ~ Local(y)
        /\ items # <<>> =>
             /\ items[Len(items)].message.t = "blocks"
             /\ phase[m.from] = "none" => Manifest \in items[Len(items)].message.blocks
  BY AnswersWant
<1>5. CASE items # <<>>
  <2>1. PICK r : r = items[Len(items)].message
    OBVIOUS
  <2>2. started'[w] /\ Answered(w, r)'
    BY <1>1, <1>3, <1>4, <1>5, <2>1 DEF Answered, Local
  <2>. QED
    BY <1>3, <1>4, <1>5, <2>1, <2>2, WayOfSent
<1>6. CASE items = <<>>
  <2>1. \A z \in Peer : Out(z)' = Out(z)
    BY <1>4, <1>6, NothingSent
  <2>2. (\A z \in Peer \ {y} : In(z)' = In(z)) /\ In(y) = {m} \cup In(y)'
    BY <1>1, TaskGone
  <2>3. ~ Answered(y, m)
    BY <1>1, <1>4, <1>6 DEF Answered
  <2>4. ASSUME NEW z \in Peer, NEW n \in In(z),
               n.t = "soon" \/ (z = p /\ n.t = "announce" /\ n.heads # {}) \/ (started[z] /\ Answered(z, n))
        PROVE  n \in In(z)'
    BY <1>1, <2>2, <2>3, <2>4
  <2>5. \A z \in Peer : Local(z) => Local(z)'
    BY <1>1 DEF Local
  <2>. QED
    BY <1>1, <1>2, <2>1, <2>4, <2>5, WayKept
<1>. QED
  BY <1>5, <1>6

\* Blocks are applied, or they were of no use to one without the database.
LEMMA JoinBlocks ==
  ASSUME Said, NEW y \in Peer, HandleBlocks(y),
         NEW p \in Peer, NEW q \in Peer, ~ Uneven', Awaits(p, q)', Awaits(p, q) /\ ~ Uneven => Way(p)
  PROVE  Way(p)'
<1>. DEFINE m == Task(y)
<1>1. /\ inbox[y] # <<>> /\ busy[y] = "no" /\ m.t = "blocks" /\ UNCHANGED <<log, started, outbox, air>>
  BY DEF HandleBlocks, Handling, carrier, orbit, OpenDatabase
<1>2. CASE Applying(y)
  <2>1. busy'[y] = "apply"
    BY <1>2 DEF Applying, Said, Places
  <2>. QED
    BY <2>1 DEF Way
<1>3. CASE ~ Applying(y)
  <2>1. /\ ~ Local(y) /\ Manifest \notin m.blocks /\ TaskDone(y) /\ UNCHANGED <<phase, busy>>
        /\ busy' = [busy EXCEPT ![y] = "no"]
    BY <1>1, <1>3 DEF HandleBlocks, orbit, Said, Places
  <2>2. Way(p)
    BY <1>1, <2>1, EvenAsBefore
  <2>3. \A z \in Peer : Out(z)' = Out(z)
    BY <1>1 DEF Out
  <2>4. (\A z \in Peer \ {y} : In(z)' = In(z)) /\ In(y) = {m} \cup In(y)'
    BY <1>1, <2>1, TaskGone
  <2>5. ~ Answered(y, m)
    BY <1>1, <2>1 DEF Answered
  <2>6. ASSUME NEW z \in Peer, NEW n \in In(z),
               n.t = "soon" \/ (z = p /\ n.t = "announce" /\ n.heads # {}) \/ (started[z] /\ Answered(z, n))
        PROVE  n \in In(z)'
    BY <1>1, <2>4, <2>5, <2>6
  <2>7. \A z \in Peer : Local(z) => Local(z)'
    BY <2>1 DEF Local
  <2>. QED
    BY <1>1, <2>1, <2>2, <2>3, <2>6, <2>7, WayKept
<1>. QED
  BY <1>2, <1>3

\* A hole makes its finder ask, a join is announced with heads.
LEMMA JoinApplies ==
  ASSUME Said, Steady, Speakers, ~ harmed, NEW y \in Peer, ApplyPart(y) \/ ApplyWhole(y) \/ AckDone(y),
         NEW p \in Peer, NEW q \in Peer, Said', Closed', ~ Uneven', Awaits(p, q)', Awaits(p, q) /\ ~ Uneven => Way(p)
  PROVE  Way(p)'
<1>. DEFINE m == Task(y)
<1>1. inbox[y] # <<>> /\ UNCHANGED started
  BY DEF ApplyPart, ApplyWhole, AckDone, Said, UnderWay, control
<1>2. started[y] /\ \E w \in Peer : started[w] /\ (m.t = "blocks" => w # y /\ Local(w))
  BY <1>1, TaskIsOfSpeakers
<1>3. CASE ApplyPart(y)
  <2>0. m.t = "blocks" /\ UNCHANGED phase
    BY <1>3 DEF ApplyPart, Said, UnderWay
  <2>1. PICK w \in Peer : started[w] /\ w # y /\ Local(w)
    BY <1>2, <2>0
  <2>2. PICK items \in Seq(ItemOf(Of(Honest, y))) :
          Enqueue(y, items) /\ Len(items) <= 2 /\ items # <<>> /\ items[Len(items)].message.t = "want"
    BY <1>3, AppliesPart
  <2>3. PICK r : r = items[Len(items)].message
    OBVIOUS
  <2>4. started'[w] /\ Answered(w, r)'
    BY <1>1, <2>0, <2>1, <2>2, <2>3 DEF Answered, Local
  <2>. QED
    BY <2>1, <2>2, <2>3, <2>4, WayOfSent
<1>4. CASE ApplyWhole(y)
  <2>1. PICK K : \E grown \in SUBSET Entry, items \in Seq(ItemOf(Of(K, y))) :
          /\ Spoken(K) /\ Enqueue(y, items) /\ Len(items) <= 2
          /\ items # <<>> /\ items[Len(items)].message = Announce(y, Heads(grown))
          /\ log' = [log EXCEPT ![y] = grown] /\ phase' = [phase EXCEPT ![y] = "handed"]
    BY <1>4, AppliesWhole
  <2>2. PICK grown \in SUBSET Entry, items \in Seq(ItemOf(Of(K, y))) :
          /\ Spoken(K) /\ Enqueue(y, items) /\ Len(items) <= 2
          /\ items # <<>> /\ items[Len(items)].message = Announce(y, Heads(grown))
          /\ log' = [log EXCEPT ![y] = grown] /\ phase' = [phase EXCEPT ![y] = "handed"]
    BY <2>1
  <2>3. log'[y] = grown /\ Local(y)'
    BY <2>2 DEF Said, Places, Local
  <2>4. Heads(grown) # {}
    BY <1>1, <1>2, <2>3, EvenHeads
  <2>5. PICK r : r = items[Len(items)].message
    OBVIOUS
  <2>6. r.t = "announce" /\ r.heads # {}
    BY <2>2, <2>4, <2>5 DEF Announce
  <2>. QED
    BY <2>2, <2>5, <2>6, WayOfSentBy
<1>5. CASE AckDone(y)
  <2>1. /\ busy[y] = "ack" /\ TaskDone(y) /\ busy' = [busy EXCEPT ![y] = "no"]
        /\ UNCHANGED <<log, phase, outbox, air>>
    BY <1>5 DEF AckDone, orbit, carrier
  <2>2. \A z \in Peer : In(z)' = In(z) /\ (busy[z] = "apply" => busy'[z] = "apply")
    BY <1>1, <2>1, TaskGone
  <2>3. \A z \in Peer : Out(z)' = Out(z) /\ (Local(z) => Local(z)')
    BY <2>1 DEF Out, Local
  <2>4. Way(p)
    BY <1>1, <2>1, EvenAsBefore
  <2>. QED
    BY <1>1, <2>2, <2>3, <2>4, WayKept
<1>. QED
  BY <1>3, <1>4, <1>5

\* The rejoin timer fires.
LEMMA JoinRejoin ==
  ASSUME Said, NEW y \in Peer, RejoinFires(y),
         NEW p \in Peer, NEW q \in Peer, ~ Uneven', Awaits(p, q)', Awaits(p, q) /\ ~ Uneven => Way(p)
  PROVE  Way(p)'
<1>1. /\ UNCHANGED <<log, phase, started, busy, outbox, air>>
      /\ inbox' = [inbox EXCEPT ![y] = Append(@, Soon(y))] \/ UNCHANGED inbox
  BY DEF RejoinFires, orbit, carrier
<1>2. CASE inbox' = [inbox EXCEPT ![y] = Append(@, Soon(y))]
  <2>1. \E m \in In(y)' : m.t = "soon"
    BY <1>1, <1>2, RouteOfSoon
  <2>. QED
    BY <2>1 DEF Way
<1>3. CASE UNCHANGED inbox
  <2>1. Way(p)
    BY <1>1, EvenAsBefore
  <2>2. \A z \in Peer : Out(z)' = Out(z) /\ In(z)' = In(z) /\ (Local(z) => Local(z)')
    BY <1>1, <1>3 DEF Out, In, Local
  <2>. QED
    BY <1>1, <2>1, <2>2, WayKept
<1>. QED
  BY <1>1, <1>2, <1>3

\* Who writes and is there says so; what another writes is nobody's concern yet.
LEMMA JoinWrite ==
  ASSUME Said, Steady, Speakers, ~ harmed, Eager, NEW y \in Peer, NEW e \in Entry, Write(y, e),
         NEW p \in Peer, NEW q \in Peer, ~ Uneven', Awaits(p, q)', Awaits(p, q) /\ ~ Uneven => Way(p)
  PROVE  Way(p)'
<1>1. /\ phase[y] = "handed" /\ log' = [log EXCEPT ![y] = log[y] \cup {e}]
      /\ UNCHANGED <<phase, busy, started, outbox, air>>
      /\ inbox' = IF hooked[y] /\ busy[y] # "apply"
                    THEN [inbox EXCEPT ![y] = Append(@, Soon(y))] ELSE inbox
  BY DEF Write, HearUpdate, control, carrier, Said, Places
<1>2. CASE busy[y] = "apply"
  BY <1>1, <1>2 DEF Way
<1>3. CASE busy[y] # "apply" /\ hooked[y]
  <2>1. inbox' = [inbox EXCEPT ![y] = Append(@, Soon(y))]
    BY <1>1, <1>3
  <2>2. \E m \in In(y)' : m.t = "soon"
    BY <1>1, <2>1, RouteOfSoon
  <2>. QED
    BY <2>2 DEF Way
<1>4. CASE busy[y] # "apply" /\ ~ hooked[y]
  <2>1. ~ started[y] /\ UNCHANGED inbox
    BY <1>1, <1>4 DEF Steady
  <2>2. \A z \in Peer : started[z] => log'[z] = log[z]
    BY <1>1, <2>1 DEF Said, Places
  <2>3. Awaits(p, q)
    BY <1>1, <2>2 DEF Awaits
  <2>4. ~ Uneven
    BY <1>1, <2>2 DEF Uneven, Apart, Local
  <2>5. \A z \in Peer : Out(z)' = Out(z) /\ In(z)' = In(z) /\ (Local(z) => Local(z)')
    BY <1>1, <2>1 DEF Out, In, Local
  <2>. QED
    BY <1>1, <2>3, <2>4, <2>5, WayKept
<1>. QED
  BY <1>2, <1>3, <1>4

\* A send that is over, and a start that is.
LEMMA JoinSends ==
  ASSUME Said, NEW y \in Peer, SendResolves(y) \/ StartDone(y),
         NEW p \in Peer, NEW q \in Peer, ~ Uneven', Awaits(p, q)', Awaits(p, q) /\ ~ Uneven => Way(p)
  PROVE  Way(p)'
<1>1. UNCHANGED <<log, phase, started, busy, inbox>>
  BY DEF SendResolves, StartDone, orbit, control
<1>2. \A z \in Peer : Out(z)' = Out(z)
  <2>1. CASE SendResolves(y)
    <3>1. PICK K : K = Honest
      OBVIOUS
    <3>2. Spoken(K) /\ NextOut(y) /\ sending[y] # <<>>
      BY <2>1, <3>1 DEF Said, SendResolves
    <3>. QED
      BY <3>2, NextOutMoves
  <2>2. CASE StartDone(y)
    BY <2>2 DEF StartDone, carrier, Out
  <2>. QED
    BY <2>1, <2>2
<1>3. Way(p)
  BY <1>1, EvenAsBefore
<1>4. \A z \in Peer : In(z)' = In(z) /\ (Local(z) => Local(z)')
  BY <1>1 DEF In, Local
<1>. QED
  BY <1>1, <1>2, <1>3, <1>4, WayKept

\* What arrives is heard by all who are there.
LEMMA AllHear ==
  ASSUME Said, NEW y \in Peer, NEW i \in 1..Len(air[y]), Arrives(y, i, {})
  PROVE  \E m \in Honest :
           /\ m.from = y
           /\ Out(y) \subseteq Out(y)' \cup {m}
           /\ \A z \in Peer \ {y} : Out(z)' = Out(z)
           /\ \A z \in Peer : In(z) \subseteq In(z)' /\ (started[z] /\ z # y => m \in In(z)')
<1>1. UNCHANGED <<busy, started, outbox>> /\ air' = [air EXCEPT ![y] = RemoveAt(@, i)]
  BY DEF Arrives, orbit, control
<1>2. PICK K : K = Honest
  OBVIOUS
<1>3. /\ air[y] \in Seq(Of(K, y)) /\ air = [z \in Peer |-> air[z]]
      /\ \A z \in Peer : inbox[z] \in Seq(To(K, z))
  BY <1>2 DEF Said, Spoken, Queued
<1>4. PICK m \in Of(K, y) : m = air[y][i]
  BY <1>3, ElementOfSeq
<1>5. m.from = y /\ m \in K
  BY <1>4 DEF Of
<1>6. Elements(air[y]) \subseteq Elements(air'[y]) \cup {m} /\ \A z \in Peer \ {y} : air'[z] = air[z]
  <2>1. PICK left : left = RemoveAt(air[y], i)
    OBVIOUS
  <2>2. air' = [air EXCEPT ![y] = left]
    BY <1>1, <1>3, <2>1
  <2>3. air'[y] = left /\ \A z \in Peer \ {y} : air'[z] = air[z]
    BY <1>3, <2>2
  <2>4. Elements(air[y]) \subseteq Elements(left) \cup {m}
    BY <1>3, <1>4, <2>1, ElementsRemove
  <2>. QED
    BY <2>3, <2>4
<1>7. Out(y) \subseteq Out(y)' \cup {m} /\ \A z \in Peer \ {y} : Out(z)' = Out(z)
  BY <1>1, <1>6 DEF Out
<1>8. inbox' = [z \in Peer |-> IF started[z] /\ z \notin {y} THEN Append(inbox[z], m) ELSE inbox[z]]
  BY <1>4 DEF Arrives
<1>9. ASSUME NEW z \in Peer PROVE In(z) \subseteq In(z)' /\ (started[z] /\ z # y => m \in In(z)')
  <2>1. CASE ~ (started[z] /\ z # y)
    <3>1. inbox'[z] = inbox[z]
      BY <1>8, <2>1
    <3>2. In(z)' = In(z)
      BY <1>1, <3>1 DEF In
    <3>. QED
      BY <2>1, <3>2
  <2>2. CASE started[z] /\ z # y
    <3>1. inbox'[z] = Append(inbox[z], m)
      BY <1>8, <2>2
    <3>2. m \in To(K, z)
      BY <1>5, <2>2 DEF To
    <3>3. busy[z] # "no" => inbox[z] # <<>>
      BY DEF Said, UnderWay
    <3>4. PICK S : S = To(K, z)
      OBVIOUS
    <3>5. inbox[z] \in Seq(S) /\ m \in S /\ busy'[z] = busy[z]
      BY <1>1, <1>3, <3>2, <3>4
    <3>. QED
      BY <3>1, <3>3, <3>5, InGrows
  <2>. QED
    BY <2>1, <2>2
<1>. QED
  BY <1>2, <1>5, <1>7, <1>9

\* A request that arrives is with one who answers it; the rest stays on its way.
LEMMA JoinArrives ==
  ASSUME Said, ~ harmed, NEW y \in Peer, NEW i \in 1..Len(air[y]), Arrives(y, i, {}),
         NEW p \in Peer, NEW q \in Peer, ~ Uneven', Awaits(p, q)', Awaits(p, q) /\ ~ Uneven => Way(p)
  PROVE  Way(p)'
<1>1. UNCHANGED <<log, phase, busy, started>>
  BY DEF Arrives, orbit, control
<1>2. Way(p) /\ Awaits(p, q)
  BY <1>1, EvenAsBefore
<1>3. phase[q] = "handed" /\ p # q
  BY <1>2 DEF Awaits, Said, Places
<1>4. PICK m \in Honest :
        /\ m.from = y
        /\ Out(y) \subseteq Out(y)' \cup {m}
        /\ \A z \in Peer \ {y} : Out(z)' = Out(z)
        /\ \A z \in Peer : In(z) \subseteq In(z)' /\ (started[z] /\ z # y => m \in In(z)')
  BY AllHear
<1>5. CASE y = p
  <2>1. m.t \in {"want", "soon"} /\ m \in In(q)'
    BY <1>2, <1>3, <1>4, <1>5 DEF Awaits, Honest
  <2>2. CASE m.t = "soon"
    BY <2>1, <2>2 DEF Way
  <2>3. CASE m.t = "want"
    <3>1. m \in On(p, q)' /\ started'[q] /\ Answered(q, m)'
      BY <1>1, <1>2, <1>3, <1>4, <1>5, <2>1, <2>3 DEF On, Awaits, Answered, Local
    <3>. QED
      BY <1>3, <3>1 DEF Way
  <2>. QED
    BY <2>1, <2>2, <2>3
<1>6. CASE y # p
  <2>1. ASSUME NEW x \in Peer, NEW r \in Peer, x # r, started[r], NEW n \in On(x, r), n.t # "soon"
        PROVE  n \in On(x, r)'
    BY <1>4, <2>1 DEF On
  <2>2. CASE Out(p) # {}
    <3>1. Out(p)' = Out(p)
      BY <1>4, <1>6
    <3>. QED
      BY <2>2, <3>1 DEF Way
  <2>3. CASE \E x \in Peer \ {p} : \E n \in On(x, p) : n.t = "announce" /\ n.heads # {}
    <3>1. PICK x \in Peer \ {p} : \E n \in On(x, p) : n.t = "announce" /\ n.heads # {}
      BY <2>3
    <3>2. PICK n \in On(x, p) : n.t = "announce" /\ n.heads # {}
      BY <3>1
    <3>3. n \in On(x, p)'
      BY <1>2, <2>1, <3>1, <3>2 DEF Awaits
    <3>. QED
      BY <3>1, <3>2, <3>3 DEF Way
  <2>4. CASE \E x, r \in Peer : x # r /\ started[r] /\ \E n \in On(x, r) : Answered(r, n)
    <3>1. PICK x \in Peer, r \in Peer : x # r /\ started[r] /\ \E n \in On(x, r) : Answered(r, n)
      BY <2>4
    <3>2. PICK n \in On(x, r) : Answered(r, n)
      BY <3>1
    <3>3. n \in On(x, r)'
      BY <2>1, <3>1, <3>2 DEF Answered
    <3>4. started'[r] /\ Answered(r, n)'
      BY <1>1, <3>1, <3>2 DEF Answered, Local
    <3>. QED
      BY <3>1, <3>3, <3>4 DEF Way
  <2>5. CASE \E r \in Peer : busy[r] = "apply" \/ \E n \in In(r) : n.t = "soon"
    <3>1. PICK r \in Peer : busy[r] = "apply" \/ \E n \in In(r) : n.t = "soon"
      BY <2>5
    <3>2. busy'[r] = "apply" \/ \E n \in In(r)' : n.t = "soon"
      BY <1>1, <1>4, <3>1
    <3>. QED
      BY <3>2 DEF Way
  <2>. QED
    BY <1>2, <2>2, <2>3, <2>4, <2>5 DEF Way
<1>. QED
  BY <1>5, <1>6

\* A second copy takes nothing away.
LEMMA JoinDouble ==
  ASSUME Said, NEW y \in Peer, Double(y),
         NEW p \in Peer, NEW q \in Peer, ~ Uneven', Awaits(p, q)', Awaits(p, q) /\ ~ Uneven => Way(p)
  PROVE  Way(p)'
<1>1. UNCHANGED <<log, phase, started, busy, inbox, outbox>>
  BY DEF Double, orbit, control
<1>2. \A z \in Peer : Out(z) \subseteq Out(z)' /\ In(z)' = In(z)
  BY DoubleAdds
<1>3. Way(p) /\ \A z \in Peer : Local(z) => Local(z)'
  BY <1>1, EvenAsBefore DEF Local
<1>. QED
  BY <1>1, <1>2, <1>3, WayKept

\* What the carrier does that is no harm.
LEMMA JoinTravels ==
  ASSUME Said, ~ harmed, NEW y \in Peer, Deliver(y) \/ Overtake(y) \/ Double(y),
         NEW p \in Peer, NEW q \in Peer, ~ Uneven', Awaits(p, q)', Awaits(p, q) /\ ~ Uneven => Way(p)
  PROVE  Way(p)'
<1>1. CASE Double(y)
  BY <1>1, JoinDouble
<1>2. CASE Deliver(y) \/ Overtake(y)
  <2>1. PICK i \in 1..Len(air[y]) : Arrives(y, i, {})
    BY <1>2, OneArrives
  <2>. QED
    BY <2>1, JoinArrives
<1>. QED
  BY <1>1, <1>2

\* The handlers together.
LEMMA JoinHandles ==
  ASSUME Said, Steady, Speakers, ~ harmed, NEW y \in Peer, Handle(y),
         NEW p \in Peer, NEW q \in Peer, Said', Closed', ~ Uneven', Awaits(p, q)',
         Awaits(p, q) /\ ~ Uneven => Way(p)
  PROVE  Way(p)'
<1>1. started \in [Peer -> BOOLEAN]
  BY DEF Steady
<1>. QED
  BY <1>1, JoinStanding, JoinAnnounce, JoinWant, JoinBlocks, JoinApplies DEF Handle

\* No step leaves a joiner waiting with nothing on its way to it.
LEMMA JoiningNext ==
  ASSUME Said, Closed, Steady, Speakers, Joining, [Next]_vars, Said', Closed'
  PROVE  Joining'
<1>. SUFFICES ASSUME ~ harmed', Eager, NEW p \in Peer, NEW q \in Peer, Awaits(p, q)', ~ Uneven'
              PROVE  Way(p)'
  BY DEF Joining
<1>1. ~ harmed /\ (Awaits(p, q) /\ ~ Uneven => Way(p))
  BY HarmStays DEF Joining
<1>2. started \in [Peer -> BOOLEAN]
  BY DEF Steady
<1>3. CASE UNCHANGED vars
  <2>1. UNCHANGED <<log, phase, started, busy, inbox, outbox, air>>
    BY <1>3 DEF vars, orbit, control, carrier
  <2>2. Way(p)
    BY <1>1, <2>1, EvenAsBefore
  <2>3. \A z \in Peer : Out(z)' = Out(z) /\ In(z)' = In(z) /\ (Local(z) => Local(z)')
    BY <2>1 DEF Out, In, Local
  <2>. QED
    BY <2>1, <2>2, <2>3, WayKept
<1>4. ASSUME NEW x \in Peer, Work(x) \/ SendResolves(x) PROVE Way(p)'
  BY <1>1, <1>4, JoinHandles, JoinSends, JoinRejoin DEF Work
<1>5. ASSUME NEW x \in Peer, Application(x) PROVE Way(p)'
  BY <1>1, <1>2, <1>5, JoinStanding, JoinWrite DEF Application
<1>6. ASSUME NEW x \in Peer, Deliver(x) PROVE Way(p)'
  BY <1>1, <1>6, JoinTravels
<1>7. CASE Failure
  BY <1>1, <1>7, JoinTravels, HarmIsDone DEF Failure
<1>. QED
  BY <1>3, <1>4, <1>5, <1>6, <1>7 DEF Next

-----------------------------------------------------------------------------
\* The invariant behind ConvergedWhenQuiet.
Level == Said /\ Closed /\ Steady /\ Levelling /\ Speakers /\ Joining

LEMMA LevelInit == Init => Level
<1>. SUFFICES ASSUME Init PROVE Level
  OBVIOUS
<1>1. Said /\ Closed
  BY SaidBegins, ClosedInit
<1>2. Steady
  BY PeerAssumption DEF Init, Steady, Idle
<1>3. Levelling /\ Joining
  BY DEF Init, Levelling, Apart, Joining, Awaits
<1>4. Speakers
  <2>1. Elements(<<>>) = {}
    BY DEF Elements
  <2>2. \A x \in Peer : outbox[x] = <<>> /\ air[x] = <<>> /\ inbox[x] = <<>> /\ ~ hooked[x]
    BY DEF Init
  <2>. QED
    BY <2>1, <2>2 DEF Speakers
<1>. QED
  BY <1>1, <1>2, <1>3, <1>4 DEF Level

LEMMA LevelNext == Level /\ [Next]_vars => Level'
<1>. SUFFICES ASSUME Level, [Next]_vars PROVE Level'
  OBVIOUS
<1>1. Said' /\ Closed' /\ Steady'
  BY SaidNext, ClosedNext, SteadyNext DEF Level
<1>2. Levelling' /\ Joining'
  BY <1>1, LevellingNext, JoiningNext DEF Level
<1>3. Speakers'
  <2>1. CASE harmed'
    BY <2>1 DEF Speakers
  <2>2. CASE ~ harmed'
    <3>1. ~ harmed /\ started \in [Peer -> BOOLEAN]
      BY <2>2, HarmStays DEF Level, Steady
    <3>. QED
      BY <2>2, <3>1, SpeakersNext DEF Level
  <2>. QED
    BY <2>1, <2>2
<1>. QED
  BY <1>1, <1>2, <1>3 DEF Level

\* Nothing is on its way when all is quiet.
LEMMA NothingIsOn ==
  ASSUME Level, Quiet
  PROVE  \A x, y \in Peer : Out(x) = {} /\ In(x) = {} /\ On(x, y) = {} /\ busy[x] = "no" /\ started[x]
<1>1. \A x \in Peer : inbox[x] = <<>> /\ busy[x] = "no" /\ outbox[x] = <<>> /\ air[x] = <<>> /\ started[x]
  BY DEF Level, Steady, Idle, Quiet, Still
<1>2. Elements(<<>>) = {}
  BY DEF Elements
<1>3. \A x \in Peer : Out(x) = {} /\ In(x) = {}
  BY <1>1, <1>2 DEF Out, In
<1>. QED
  BY <1>1, <1>3 DEF On

\* So, when all is quiet, who has the database lacks nothing of another's log,
LEMMA QuietIsLevel ==
  ASSUME Level, Quiet, ~ harmed, Eager, NEW p \in Peer, NEW q \in Peer, Local(p)
  PROVE  log[q] \subseteq log[p]
<1>1. SUFFICES ASSUME ~ (log[q] \subseteq log[p]) PROVE FALSE
  OBVIOUS
<1>2. Route(p, q)
  BY <1>1, NothingIsOn DEF Level, Levelling, Apart
<1>. QED
  BY <1>2, NothingIsOn DEF Route

\* and nobody still waits for one that another holds entries of.
LEMMA QuietAwaitsNothing ==
  ASSUME Level, Quiet, ~ harmed, Eager, NEW p \in Peer, NEW q \in Peer, log[q] # {}
  PROVE  phase[p] # "none"
<1>1. SUFFICES ASSUME phase[p] = "none" PROVE FALSE
  OBVIOUS
<1>2. Uneven \/ Way(p)
  BY <1>1, NothingIsOn DEF Level, Joining, Awaits
<1>3. ~ Uneven
  BY QuietIsLevel DEF Uneven, Apart
<1>4. ~ Way(p)
  BY NothingIsOn DEF Way
<1>. QED
  BY <1>2, <1>3, <1>4

\* Quiet peers that have the database lack nothing of anybody.
LocalsLevel ==
  Quiet /\ ~harmed /\ Eager => \A p, q \in Peer : Local(p) => log[q] \subseteq log[p]

\* Peers that have the database are level when nothing is left to say and nothing was
\* taken away, for any number of peers, any graph and logs, any outbox limit, and
\* whatever second copies, superseded replies or late messages there were.
THEOREM LocalPeersAreLevel == Spec => []LocalsLevel
<1>1. Level => LocalsLevel
  BY QuietIsLevel DEF LocalsLevel
<1>. QED
  BY <1>1, LevelInit, LevelNext, PTL DEF Spec

\* A database that can be joined has an entry: some peer that is no joiner holds one.
Founded == \A p \in Joiner : \E q \in Peer \ Joiner : Seed[q] # {}

\* Then all hold the same log, the joiners too, and the application has got the database
\* everywhere: without their rejoin timer, which may fire again when all is quiet.
THEOREM QuietPeersConverge ==
  ASSUME Founded PROVE Spec => []ConvergedWhenQuiet
<1>1. ASSUME Level, Quiet, ~ harmed, Eager PROVE Converged
  <2>1. ASSUME NEW p \in Peer PROVE phase[p] = "handed"
    <3>1. SUFFICES ASSUME phase[p] # "handed" PROVE FALSE
      OBVIOUS
    <3>2. p \in Joiner /\ log[p] = {}
      BY <1>1, <3>1 DEF Level, Steady, Said, Places
    <3>3. PICK q \in Peer \ Joiner : Seed[q] # {}
      BY <3>2 DEF Founded
    <3>4. log[q] # {}
      BY <1>1, <3>3 DEF Level, Steady
    <3>5. Local(p)
      BY <1>1, <3>4, QuietAwaitsNothing DEF Local
    <3>6. log[q] \subseteq log[p]
      BY <1>1, <3>5, QuietIsLevel
    <3>. QED
      BY <3>2, <3>4, <3>6
  <2>2. \A p, q \in Peer : log[q] \subseteq log[p]
    BY <1>1, <2>1, QuietIsLevel DEF Local
  <2>3. \A p, q \in Peer : log[p] = log[q]
    BY <2>2
  <2>. QED
    BY <2>1, <2>3 DEF Converged
<1>2. Level => ConvergedWhenQuiet
  BY <1>1 DEF ConvergedWhenQuiet
<1>. QED
  BY <1>2, LevelInit, LevelNext, PTL DEF Spec
=============================================================================
