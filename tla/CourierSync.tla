---------------------------- MODULE CourierSync ----------------------------
(***************************************************************************)
(* The delta plane of lib/courier-sync.js: peers that keep one OrbitDB     *)
(* database level over a carrier that loses, doubles and reorders what it  *)
(* is given.  A peer announces its heads, asks for what it lacks, and is   *)
(* sent blocks, which it parks until they close and then joins.  A joiner  *)
(* starts with an address only and opens the database from the first       *)
(* blocks that hold the manifest.                                          *)
(*                                                                         *)
(* Each peer handles what it receives one after the other (the promise     *)
(* chain `queue`), and sends from an outbox, one message at a time.        *)
(***************************************************************************)
EXTENDS Integers, Sequences, SequencesExt, LogGraph

CONSTANTS
  Peer,
  Joiner,     \* those that are given an address and no database
  Seed,       \* Seed[p]: the log p has when it begins
  Manifest,   \* the blocks that open a database: manifest and access controller
  Eager,      \* BOOLEAN: announceOnLocalUpdate
  Poking,     \* BOOLEAN: does the application call announce() now and then?
  Slow,       \* BOOLEAN: does a message take longer to send than to be answered?
  MaxOutbox,  \* createCourierSync's maxOutbox
  Faults,     \* which faults may happen, a subset of FaultKind
  MaxFaults,  \* bound: how many faults in one behaviour
  Airtime     \* bound: how many messages the carrier delivers, -1 for no bound

FaultKind == {"lose", "double", "overtake", "send", "open", "stop", "crash"}

ASSUME PeerAssumption ==
  /\ Joiner \subseteq Peer
  /\ Seed \in [Peer -> SUBSET Entry] /\ \A p \in Joiner : Seed[p] = {}
  /\ \A p \in Peer : Past(Seed[p]) \subseteq Seed[p]
ASSUME ManifestAssumption == Manifest \notin Entry
ASSUME SyncAssumption ==
  /\ {Eager, Poking, Slow} \subseteq BOOLEAN /\ MaxOutbox \in Nat \ {0}
  /\ Faults \subseteq FaultKind /\ MaxFaults \in Nat /\ Airtime \in Nat \cup {-1}

VARIABLES
  \* OrbitDB, which outlives the program
  log,       \* log[p]: what p's oplog has indexed
  store,     \* store[p]: the blocks in p's block storage, joined or not
  phase,     \* phase[p]: is the database there, and has the application got it?
  \* the closure of createCourierSync
  parked,    \* pendingBlocks
  inbox,     \* the tasks of the promise chain `queue`, the one under way first
  busy,      \* where the handler of that task is
  started, starting, rejoin,
  hooked,    \* is the "update" listener attached?
  outbox,    \* the messages that wait
  sending,   \* the one that transmit() waits for, or none
  \* the carrier
  air,       \* air[p]: what p sent and has not arrived, in p's order
  airtime,   \* how many messages it still delivers
  faults,
  harmed     \* history: has there been a fault that takes something away?

orbit   == <<log, store, phase>>
control == <<started, starting, rejoin, hooked>>
carrier == <<outbox, sending, air>>
bounds  == <<airtime, faults, harmed>>
vars    == <<orbit, parked, inbox, busy, control, carrier, bounds>>

Block   == Entry \cup {Manifest}
Kind    == {"announce", "want", "blocks", "soon"}
Message == [t: Kind, from: Peer, heads: SUBSET Entry, cids: SUBSET Entry,
            blocks: SUBSET Block]
Item    == [message: Message, to: SUBSET Peer, waiter: {"nobody", "start", "ack"}]

\* What is on the wire; a want's `have` is in heads.
Announce(p, H)  == [t |-> "announce", from |-> p, heads |-> H, cids |-> {}, blocks |-> {}]
Want(p, C, H)   == [t |-> "want", from |-> p, heads |-> H, cids |-> C, blocks |-> {}]
Blocks(p, H, B) == [t |-> "blocks", from |-> p, heads |-> H, cids |-> {}, blocks |-> B]

\* A local task of the queue: announceSoon().
Soon(p) == [t |-> "soon", from |-> p, heads |-> {}, cids |-> {}, blocks |-> {}]

\* post() to a peer, and a send() to all that somebody awaits.
Post(message, q)         == [message |-> message, to |-> {q}, waiter |-> "nobody"]
Send(message, waiter)    == [message |-> message, to |-> {}, waiter |-> waiter]

Fault(kind) ==
  /\ kind \in Faults
  /\ faults < MaxFaults
  /\ faults' = faults + 1
  /\ harmed' = (harmed \/ kind \notin {"double", "overtake"})
  /\ UNCHANGED airtime

Local(p) == phase[p] # "none"

-----------------------------------------------------------------------------
(* The outbox.                                                              *)

\* What of the box stays when item comes: without the waiting reply of the same
\* kind to the same peer, of which there is one at most.
Stale(box, item) ==
  {i \in DOMAIN box : item.to # {} /\ box[i].to = item.to /\ box[i].message.t = item.message.t}
Fresh(box, item) ==
  IF Stale(box, item) = {} THEN box ELSE RemoveAt(box, CHOOSE i \in Stale(box, item) : TRUE)

\* The superseded reply, or the oldest message, which a full outbox sheds: either
\* way its sender is told that it went out.
Put(box, item) ==
  LET fresh == Fresh(box, item) IN
  Append(IF Len(fresh) >= MaxOutbox THEN Tail(fresh) ELSE fresh, item)

\* No handler sends more than two messages.
PutAll(box, items) ==
  CASE items = <<>>     -> box
    [] Len(items) = 1   -> Put(box, items[1])
    [] OTHER            -> Put(Put(box, items[1]), items[2])

Transmit(p, message) == air' = [air EXCEPT ![p] = Append(@, message)]

\* send() of these messages, in order; pump() takes the first at once when
\* nothing is under way, and hands it to the courier.
Enqueue(p, items) ==
  LET pump == sending[p] = <<>> /\ items # <<>> IN
  /\ sending' = IF pump THEN [sending EXCEPT ![p] = <<Head(items)>>] ELSE sending
  /\ IF pump THEN Transmit(p, Head(items).message) ELSE UNCHANGED air
  /\ outbox' = [outbox EXCEPT ![p] = PutAll(@, IF pump THEN Tail(items) ELSE items)]

\* courier.send() is over, and pump() goes on.
NextOut(p) ==
  IF outbox[p] = <<>>
    THEN sending' = [sending EXCEPT ![p] = <<>>] /\ UNCHANGED <<outbox, air>>
    ELSE /\ sending' = [sending EXCEPT ![p] = <<Head(outbox[p])>>]
         /\ outbox' = [outbox EXCEPT ![p] = Tail(@)]
         /\ Transmit(p, Head(outbox[p]).message)

\* On a carrier that is not slow, what is in an outbox has been sent before a
\* message is handled, and handled before the next arrives.
Sent  == Slow \/ \A p \in Peer : sending[p] = <<>>
Heard == Slow \/ \A p \in Peer : inbox[p] = <<>> /\ busy[p] = "no"

Waits(p, waiter) ==
  \E i \in DOMAIN (sending[p] \o outbox[p]) : (sending[p] \o outbox[p])[i].waiter = waiter

SendResolves(p) ==
  /\ sending[p] # <<>>
  /\ NextOut(p)
  /\ UNCHANGED <<orbit, parked, inbox, busy, control, bounds>>

\* courier.send() rejects, or sendTimeoutMs is over; the message may arrive all
\* the same.  start(), if it awaited this one, rejects with it.
SendFails(p) ==
  /\ sending[p] # <<>>
  /\ Fault("send")
  /\ NextOut(p)
  /\ starting' = [starting EXCEPT ![p] = @ /\ Head(sending[p]).waiter # "start"]
  /\ UNCHANGED <<orbit, parked, inbox, busy, started, rejoin, hooked>>

-----------------------------------------------------------------------------
(* Deltas.                                                                  *)

\* Mutant of Held: who names any head holds all that we do.
M_HeldAll(p, theirs) == IF theirs = {} THEN {} ELSE log[p]

\* reachableFrom(): what a peer with these heads holds, as far as the own log
\* tells.
Held(p, theirs) == Reach(theirs, Entry \ log[p])

\* createDelta(): nothing for a peer that stands where we do; otherwise from our
\* heads down to what it holds, with the manifest on first contact.
Delta(p, theirs) ==
  LET ours == Heads(log[p]) IN
  IF ours # {} /\ ours \subseteq theirs THEN {}
  ELSE Walk(ours, Held(p, theirs), {}) \cup (IF theirs = {} THEN {Manifest} ELSE {})

\* announce(): where p stands, or without a database a request for all there is.
Standing(p) ==
  IF Local(p) THEN Announce(p, Heads(log[p])) ELSE Want(p, {}, {})

-----------------------------------------------------------------------------
(* Handling what was received, one task at a time.                          *)

Task(p) == Head(inbox[p])

Handling(p, kind) ==
  /\ busy[p] = "no" /\ inbox[p] # <<>> /\ Task(p).t = kind
  /\ Sent

TaskDone(p) == inbox' = [inbox EXCEPT ![p] = Tail(@)]

HandleSoon(p) ==
  /\ Handling(p, "soon")
  /\ Enqueue(p, <<Send(Standing(p), "nobody")>>)
  /\ TaskDone(p)
  /\ UNCHANGED <<orbit, parked, busy, control, bounds>>

\* Send what they lack and ask for what we lack; without a database, ask for
\* everything below their heads.
HandleAnnounce(p) ==
  LET m == Task(p)
      ours == Heads(log[p])
      weLack == m.heads \ log[p]
      answer == IF Local(p) /\ ours \ m.heads # {}
                  THEN <<Post(Blocks(p, ours, Delta(p, m.heads)), m.from)>> ELSE <<>>
      ask    == IF weLack # {} THEN <<Post(Want(p, weLack, ours), m.from)>> ELSE <<>>
  IN
  /\ Handling(p, "announce")
  /\ Enqueue(p, answer \o ask)
  /\ TaskDone(p)
  /\ UNCHANGED <<orbit, parked, busy, control, bounds>>

\* The delta they need, and what they name if it is in the block storage.
HandleWant(p) ==
  LET m == Task(p) IN
  /\ Handling(p, "want")
  /\ Enqueue(p, IF Local(p)
       THEN <<Post(Blocks(p, Heads(log[p]),
                          Delta(p, m.heads) \cup (m.cids \cap store[p])), m.from)>>
       ELSE <<>>)
  /\ TaskDone(p)
  /\ UNCHANGED <<orbit, parked, busy, control, bounds>>

\* Mutant of OpenDatabase: the database is handed out when it opens.
M_OpenHandsOut(p, all) ==
  /\ store' = [store EXCEPT ![p] = @ \cup all]
  /\ phase' = [phase EXCEPT ![p] = "handed"]
  /\ rejoin' = [rejoin EXCEPT ![p] = FALSE]
  /\ UNCHANGED log

\* openIfPossible(): the blocks were put where the open looks for them.
OpenDatabase(p, all) ==
  /\ store' = [store EXCEPT ![p] = @ \cup all]
  /\ phase' = [phase EXCEPT ![p] = "opening"]
  /\ rejoin' = [rejoin EXCEPT ![p] = FALSE]
  /\ UNCHANGED log

Applying(p) == busy' = [busy EXCEPT ![p] = "apply"] /\ UNCHANGED inbox

\* The blocks are parked.  Without a database nothing is applied before the
\* manifest is among them.
HandleBlocks(p) ==
  LET all == parked[p] \cup Task(p).blocks IN
  /\ Handling(p, "blocks")
  /\ parked' = [parked EXCEPT ![p] = all]
  /\ \/ Local(p) /\ Applying(p) /\ UNCHANGED <<orbit, rejoin>>
     \/ ~Local(p) /\ Manifest \in all /\ Applying(p) /\ OpenDatabase(p, all)
     \/ ~Local(p) /\ Manifest \notin all /\ TaskDone(p) /\ UNCHANGED <<busy, orbit, rejoin>>
  /\ UNCHANGED <<started, starting, hooked, carrier, bounds>>

\* orbitdb.open() rejects: the blocks stay parked.
OpenFails(p) ==
  LET all == parked[p] \cup Task(p).blocks IN
  /\ Handling(p, "blocks")
  /\ ~Local(p) /\ Manifest \in all
  /\ Fault("open")
  /\ parked' = [parked EXCEPT ![p] = all]
  /\ store' = [store EXCEPT ![p] = @ \cup all]
  /\ TaskDone(p)
  /\ UNCHANGED <<log, phase, busy, control, carrier>>

\* Mutant of Missing: no closure check.
M_MissingNothing(p) == {}

\* The closure check: parents that are neither in the delta nor in the log.
Missing(p) ==
  (UNION {next[e] : e \in parked[p] \cap Entry}) \ (parked[p] \cup log[p])

\* applyDelta() finds a hole: nothing is joined, the missing blocks are asked for.
ApplyPart(p) ==
  /\ busy[p] = "apply" /\ Missing(p) # {}
  /\ store' = [store EXCEPT ![p] = @ \cup parked[p]]
  /\ Enqueue(p, <<Post(Want(p, Missing(p), Heads(log[p])), Task(p).from)>>)
  /\ busy' = [busy EXCEPT ![p] = "no"]
  /\ TaskDone(p)
  /\ UNCHANGED <<log, phase, parked, control, bounds>>

\* applyDelta() joins the heads that came with the blocks.  First contact is then
\* complete and the application gets its database; the peer is told where we
\* stand, and the handler waits until that has gone out.
ApplyWhole(p) ==
  LET heads == (Task(p).heads \cap parked[p] \cap Entry) \ log[p]
      st    == [store EXCEPT ![p] = @ \cup parked[p]]
      grown == log[p] \cup (Reach(heads, Entry \ st[p]) \cap st[p])
  IN
  /\ busy[p] = "apply" /\ Missing(p) = {}
  /\ store' = st
  /\ log' = [log EXCEPT ![p] = grown]
  /\ parked' = [parked EXCEPT ![p] = {}]
  /\ phase' = [phase EXCEPT ![p] = "handed"]
  /\ hooked' = [hooked EXCEPT ![p] = @ \/ (phase[p] = "opening" /\ Eager)]
  /\ Enqueue(p, <<Send(Announce(p, Heads(grown)), "ack")>>)
  /\ busy' = [busy EXCEPT ![p] = "ack"]
  /\ UNCHANGED <<inbox, started, starting, rejoin, bounds>>

AckDone(p) ==
  /\ busy[p] = "ack" /\ ~Waits(p, "ack")
  /\ busy' = [busy EXCEPT ![p] = "no"]
  /\ TaskDone(p)
  /\ UNCHANGED <<orbit, parked, control, carrier, bounds>>

-----------------------------------------------------------------------------
(* The application.                                                         *)

\* Mutant of HearUpdate: the flag that blocks are being applied stays up until
\* the delivery is acknowledged.
M_HearUpdateLate(p) ==
  inbox' = IF hooked[p] /\ busy[p] = "no"
             THEN [inbox EXCEPT ![p] = Append(@, Soon(p))] ELSE inbox

\* onUpdate(): while blocks are applied, the event is taken for one of theirs.
HearUpdate(p) ==
  inbox' = IF hooked[p] /\ busy[p] # "apply"
             THEN [inbox EXCEPT ![p] = Append(@, Soon(p))] ELSE inbox

\* A local write points at the heads, and its "update" event fires.
Write(p, e) ==
  /\ phase[p] = "handed"
  /\ next[e] = Heads(log[p])
  /\ \A q \in Peer : e \notin log[q] \cup store[q]
  /\ log' = [log EXCEPT ![p] = @ \cup {e}]
  /\ store' = [store EXCEPT ![p] = @ \cup {e}]
  /\ HearUpdate(p)
  /\ UNCHANGED <<phase, parked, busy, control, carrier, bounds>>

\* One start() at a time; it resolves when its announce has gone out.
Start(p) ==
  /\ ~started[p] /\ ~starting[p]
  /\ started' = [started EXCEPT ![p] = TRUE]
  /\ starting' = [starting EXCEPT ![p] = TRUE]
  /\ hooked' = [hooked EXCEPT ![p] = @ \/ (phase[p] = "handed" /\ Eager)]
  /\ Enqueue(p, <<Send(Standing(p), "start")>>)
  /\ UNCHANGED <<orbit, parked, inbox, busy, rejoin, bounds>>

StartDone(p) ==
  /\ starting[p] /\ ~Waits(p, "start")
  /\ starting' = [starting EXCEPT ![p] = FALSE]
  /\ rejoin' = [rejoin EXCEPT ![p] = @ \/ (p \in Joiner /\ phase[p] # "handed")]
  /\ UNCHANGED <<orbit, parked, inbox, busy, started, hooked, carrier, bounds>>

\* Nothing is under way anywhere.
Still ==
  \A p \in Peer :
    /\ inbox[p] = <<>> /\ busy[p] = "no" /\ sending[p] = <<>>
    /\ air[p] = <<>>

\* The interval is longer than a round of messages, which it finds over.
RejoinFires(p) ==
  /\ rejoin[p] /\ Still
  /\ IF Local(p) \/ ~started[p]
       THEN rejoin' = [rejoin EXCEPT ![p] = FALSE] /\ UNCHANGED inbox
       ELSE inbox' = [inbox EXCEPT ![p] = Append(@, Soon(p))] /\ UNCHANGED rejoin
  /\ UNCHANGED <<orbit, parked, busy, started, starting, hooked, carrier, bounds>>

\* announce(), the recovery poke.
Poke(p) ==
  /\ Poking /\ started[p] /\ ~starting[p] /\ Still
  /\ Enqueue(p, <<Send(Standing(p), "nobody")>>)
  /\ UNCHANGED <<orbit, parked, inbox, busy, control, bounds>>

\* What is in the queue still runs.
Stop(p) ==
  /\ started[p]
  /\ Fault("stop")
  /\ started' = [started EXCEPT ![p] = FALSE]
  /\ rejoin' = [rejoin EXCEPT ![p] = FALSE]
  /\ hooked' = [hooked EXCEPT ![p] = FALSE]
  /\ UNCHANGED <<orbit, parked, inbox, busy, starting, carrier>>

\* The program ends; it comes back with the database if it had been handed out.
Crash(p) ==
  /\ Fault("crash")
  /\ phase' = [phase EXCEPT ![p] = IF @ = "handed" THEN @ ELSE "none"]
  /\ parked' = [parked EXCEPT ![p] = {}]
  /\ inbox' = [inbox EXCEPT ![p] = <<>>]
  /\ busy' = [busy EXCEPT ![p] = "no"]
  /\ started' = [started EXCEPT ![p] = FALSE]
  /\ starting' = [starting EXCEPT ![p] = FALSE]
  /\ rejoin' = [rejoin EXCEPT ![p] = FALSE]
  /\ hooked' = [hooked EXCEPT ![p] = FALSE]
  /\ outbox' = [outbox EXCEPT ![p] = <<>>]
  /\ sending' = [sending EXCEPT ![p] = <<>>]
  /\ UNCHANGED <<log, store, air>>

-----------------------------------------------------------------------------
(* The carrier, a broadcast: all who listen hear a message at one moment, but *)
(* for those it is lost to; a sender's messages arrive in order unless one    *)
(* overtakes.                                                                 *)

Arrives(p, i, missed) ==
  /\ inbox' = [q \in Peer |-> IF started[q] /\ q \notin missed \cup {p}
                               THEN Append(inbox[q], air[p][i]) ELSE inbox[q]]
  /\ air' = [air EXCEPT ![p] = RemoveAt(@, i)]
  /\ UNCHANGED <<orbit, parked, busy, control, outbox, sending>>

Deliver(p) ==
  /\ Sent /\ Heard /\ air[p] # <<>>
  /\ airtime # 0 /\ airtime' = IF airtime > 0 THEN airtime - 1 ELSE airtime
  /\ Arrives(p, 1, {})
  /\ UNCHANGED <<faults, harmed>>

Overtake(p) ==
  /\ Fault("overtake")
  /\ \E i \in 2..Len(air[p]) : Arrives(p, i, {})

Lose(p) ==
  /\ Fault("lose")
  /\ air[p] # <<>>
  /\ \E q \in Peer \ {p} : Arrives(p, 1, {q})

\* A second copy comes at any later time.
Double(p) ==
  /\ Fault("double")
  /\ \E i \in DOMAIN air[p] : air' = [air EXCEPT ![p] = Append(@, @[i])]
  /\ UNCHANGED <<orbit, parked, inbox, busy, control, outbox, sending>>

-----------------------------------------------------------------------------
Init ==
  /\ log = Seed
  /\ store = [p \in Peer |-> IF p \in Joiner THEN {} ELSE Seed[p] \cup {Manifest}]
  /\ phase = [p \in Peer |-> IF p \in Joiner THEN "none" ELSE "handed"]
  /\ parked = [p \in Peer |-> {}]
  /\ inbox = [p \in Peer |-> <<>>]
  /\ busy = [p \in Peer |-> "no"]
  /\ started = [p \in Peer |-> FALSE] /\ starting = [p \in Peer |-> FALSE]
  /\ rejoin = [p \in Peer |-> FALSE] /\ hooked = [p \in Peer |-> FALSE]
  /\ outbox = [p \in Peer |-> <<>>] /\ sending = [p \in Peer |-> <<>>]
  /\ air = [p \in Peer |-> <<>>] /\ airtime = Airtime /\ faults = 0 /\ harmed = FALSE

Handle(p) ==
  \/ HandleSoon(p) \/ HandleAnnounce(p) \/ HandleWant(p) \/ HandleBlocks(p)
  \/ ApplyPart(p) \/ ApplyWhole(p) \/ AckDone(p)

Work(p) == Handle(p) \/ StartDone(p) \/ RejoinFires(p)

Failure ==
  \E p \in Peer :
    \/ Lose(p) \/ Double(p) \/ Overtake(p)
    \/ SendFails(p) \/ OpenFails(p) \/ Stop(p) \/ Crash(p)

Application(p) == Start(p) \/ Poke(p) \/ \E e \in Entry : Write(p, e)

Next ==
  \/ \E p \in Peer : Work(p) \/ SendResolves(p) \/ Deliver(p) \/ Application(p)
  \/ Failure

Spec == Init /\ [][Next]_vars

\* Handlers run to their end, timers fire, the courier answers each send, and
\* what is in the air arrives unless it is lost.  The application starts every
\* peer, and pokes if it pokes at all.
Fairness ==
  \A p \in Peer :
    /\ WF_vars(Handle(p)) /\ WF_vars(StartDone(p)) /\ WF_vars(RejoinFires(p))
    /\ WF_vars(SendResolves(p)) /\ WF_vars(Deliver(p))
    /\ WF_vars(Start(p)) /\ WF_vars(Poke(p))

FairSpec == Spec /\ Fairness

-----------------------------------------------------------------------------
\* No log ever holds an entry without everything it points back to: blocks are
\* joined only once they close, whatever was lost, doubled or came late.
LogsAreClosed == \A p \in Peer : Past(log[p]) \subseteq log[p]

\* The application gets the database only with everything that the delivery which
\* completed first contact named: a write before that would race the bootstrap.
HandedOutWhole ==
  [][\A p \in Peer : phase[p] # "handed" /\ phase'[p] = "handed" =>
       Task(p).heads \subseteq log'[p]]_vars

\* Logs change as Replicas says, whatever the carrier does.
Promise == INSTANCE Replicas
Replicates == Promise!Spec

Quiet == Still /\ \A p \in Peer : started[p] /\ ~starting[p]

Converged ==
  /\ \A p \in Peer : phase[p] = "handed"
  /\ \A p, q \in Peer : log[p] = log[q]

\* Peers that have nothing left to say hold the same log, if nothing was taken
\* away: no write, no superseded or shed reply, no second copy and no message that
\* came late leaves two of them apart.
ConvergedWhenQuiet == Quiet /\ ~harmed /\ Eager => Converged

\* announce() heals what was lost: once the faults are over, peers converge.
Heals == <>[]Converged

=============================================================================
