----------------------------- MODULE CourierOps -----------------------------
(***************************************************************************)
(* The operation plane of lib/courier-sync.js (liveUpdates "operations"):   *)
(* a change travels as the operation, which the other device performs as a  *)
(* write of its own.  The logs of two devices differ by design, a change is *)
(* told apart by an id derived from the hash of its first entry, and only   *)
(* an announce that says so reconciles the logs.                            *)
(*                                                                         *)
(* Two devices and one key; the delta plane is in CourierSync, and here     *)
(* only as far as the operation plane leans on it.                          *)
(***************************************************************************)
EXTENDS Integers, Sequences, SequencesExt, FiniteSets

CONSTANTS
  Peer,
  Eager,      \* of TRUE, FALSE: the values of announceOnLocalUpdate
  SeenOps,    \* SEEN_OPS: change ids remembered
  MaxPending, \* MAX_PENDING_OPS: operations of one deliberate send
  MaxOutbox,  \* maxOutbox
  OpsFaults,  \* of "lose", "double", "echo", "overtake", "send", "write", "stop"
  MaxOpsFaults, MaxWrites, MaxPresses  \* bounds

ASSUME OpsAssumption ==
  /\ IsFiniteSet(Peer) /\ Cardinality(Peer) = 2 /\ Eager \subseteq BOOLEAN
  /\ {SeenOps, MaxPending, MaxOutbox} \subseteq Nat \ {0}

VARIABLES
  entries, \* every entry there is: who wrote it, for which change, on top of what
  log,     \* log[p]: the entries of the log of p
  parked,  \* parked[p]: pendingBlocks, the entries that cannot be joined yet
  store    \* store[p]: the entries in its block storage

VARIABLES
  eager,   \* announceOnLocalUpdate, of both
  started, \* started[p]: subscribed, and listening to the database
  pending, \* pending[p]: pendingOps, the changes that wait for announce()
  going,   \* going[p]: those that flushOperations() took and has yet to ship
  seen,    \* seen[p]: seenOps, the oldest first
  queue,   \* queue[p]: what is to be handled, one after the other
  doing,   \* doing[p]: what is awaited while `applying` is set, or Idle
  sending, \* sending[p]: the message that the courier has, or Idle
  outbox,  \* outbox[p]: those that wait for it
  air      \* air[p]: those on their way to p

VARIABLES
  opsFaults, presses,
  overlooked, \* the changes whose update came while `applying` was set (ghost)
  spoiled,    \* a message or a change was lost, in one of the known ways (ghost)
  level       \* reconciliation was asked for, and nothing came between (ghost)

data    == <<eager, entries, log, parked, store>>
control == <<started, pending, going, seen, queue, doing>>
carrier == <<sending, outbox, air>>
ghosts  == <<overlooked, spoiled, level>>
opsVars == <<data, control, carrier, opsFaults, presses, ghosts>>

Idle == [t |-> "idle"]
Other(p) == CHOOSE q \in Peer : q # p

OpsFault(f) == f \in OpsFaults /\ opsFaults < MaxOpsFaults /\ opsFaults' = opsFaults + 1

Spoils(b) == spoiled' = (spoiled \/ b) /\ level' = (level /\ ~ b)

\* All that lies below an entry: its next and refs together, in logs as short as these.
Past(e)  == entries[e].past
Heads(L) == {e \in L : \A f \in L : e \notin Past(f)}
Below(L) == L \cup UNION {Past(e) : e \in L}

Op(e)          == [t |-> "op", id |-> e]
Announce(p, r) == [t |-> "announce", from |-> p, heads |-> Heads(log[p]), r |-> r]
Want(p, q, C)  == [t |-> "want", from |-> p, to |-> q, cids |-> C, have |-> Heads(log[p])]
Blocks(p, q, L) == [t |-> "blocks", from |-> p, to |-> q, heads |-> Heads(log[p]), blocks |-> L]
IsReply(m)     == m.t \in {"want", "blocks"}

-----------------------------------------------------------------------------
\* send(): a waiting reply of the same kind, to the same peer, is superseded; a full
\* outbox sheds its oldest.
Stale(box, m) == {i \in DOMAIN box : IsReply(m) /\ box[i].t = m.t /\ box[i].to = m.to}
Fresh(box, m) == IF Stale(box, m) = {} THEN box ELSE RemoveAt(box, CHOOSE i \in Stale(box, m) : TRUE)
Sheds(box, m) == Len(Fresh(box, m)) >= MaxOutbox
OpsPut(box, m) == Append(IF Sheds(box, m) THEN Tail(Fresh(box, m)) ELSE Fresh(box, m), m)

\* send() of one message; pump() takes it at once when nothing is under way.
Post(p, m) ==
  LET sheds == sending[p] # Idle /\ Sheds(outbox[p], m) IN
  /\ IF sending[p] = Idle
     THEN sending' = [sending EXCEPT ![p] = m] /\ UNCHANGED outbox
     ELSE outbox' = [outbox EXCEPT ![p] = OpsPut(@, m)] /\ UNCHANGED sending
  /\ spoiled' = (spoiled \/ sheds)
  /\ level' = ((level \/ (m.t = "announce" /\ m.r)) /\ ~ sheds)

Post2(p, m, n) ==
  LET box == IF sending[p] = Idle THEN outbox[p] ELSE OpsPut(outbox[p], m) IN
  /\ sending' = [sending EXCEPT ![p] = IF @ = Idle THEN m ELSE @]
  /\ outbox' = [outbox EXCEPT ![p] = OpsPut(box, n)]
  /\ Spoils(Sheds(box, n) \/ (sending[p] # Idle /\ Sheds(outbox[p], m)))

Quietly == UNCHANGED <<sending, outbox, spoiled, level>>

\* The courier is done with a message, and pump() goes on.
NextOut(p) ==
  /\ sending[p] # Idle
  /\ sending' = [sending EXCEPT ![p] = IF outbox[p] = <<>> THEN Idle ELSE Head(outbox[p])]
  /\ outbox' = [outbox EXCEPT ![p] = IF @ = <<>> THEN @ ELSE Tail(@)]

SendResolves(p) ==
  /\ NextOut(p) /\ air' = [air EXCEPT ![Other(p)] = Append(@, sending[p])]
  /\ UNCHANGED <<data, control, opsFaults, presses, ghosts>>

\* The error is emitted; nobody sends again.
SendFails(p) ==
  /\ OpsFault("send") /\ NextOut(p) /\ Spoils(TRUE)
  /\ UNCHANGED <<data, control, air, presses, overlooked>>

\* The carrier: handed over in order, unless it does otherwise.  An echo is a mesh
\* that repeats a device's own message to it.
Received(p, m) == queue' = IF started[p] THEN [queue EXCEPT ![p] = Append(@, m)] ELSE queue

Deliver(p) ==
  /\ air[p] # <<>> /\ Received(p, Head(air[p]))
  /\ \/ air' = [air EXCEPT ![p] = Tail(@)] /\ UNCHANGED opsFaults
     \/ OpsFault("double") /\ UNCHANGED air
     \/ OpsFault("echo") /\ air' = [air EXCEPT ![p] = Tail(@), ![Other(p)] = Append(@, Head(air[p]))]
  /\ Spoils(~ started[p])
  /\ UNCHANGED <<data, started, pending, going, seen, doing, sending, outbox, presses, overlooked>>

Lose(p) ==
  /\ air[p] # <<>> /\ OpsFault("lose") /\ air' = [air EXCEPT ![p] = Tail(@)]
  /\ Spoils(TRUE)
  /\ UNCHANGED <<data, control, sending, outbox, presses, overlooked>>

Overtake(p) ==
  /\ Len(air[p]) > 1 /\ OpsFault("overtake")
  /\ air' = [air EXCEPT ![p] = <<@[2], @[1]>> \o SubSeq(@, 3, Len(@))]
  /\ UNCHANGED <<data, control, sending, outbox, presses, ghosts>>

-----------------------------------------------------------------------------
\* rememberOp(): at the end of the Map, and the oldest forgotten.
Known(p, id) == id \in ToSet(seen[p])

\* Mutant of Remember: nothing is kept of an operation.
M_RememberNot(p, id) == UNCHANGED seen

Remember(p, id) ==
  seen' = [seen EXCEPT ![p] = IF Known(p, id) THEN @
                              ELSE IF Len(@) < SeenOps THEN Append(@, id)
                              ELSE Append(Tail(@), id)]

\* An entry on top of the log of p.
Appended(p, change) ==
  LET e == Len(entries) + 1 IN
  /\ entries' = Append(entries, [by |-> p, past |-> log[p],
                                 change |-> IF change = 0 THEN e ELSE change])
  /\ log' = [log EXCEPT ![p] = @ \cup {e}]
  /\ store' = [store EXCEPT ![p] = @ \cup {e}]

Writes == {e \in 1..Len(entries) : entries[e].change = e}

\* A write of the application, and onUpdate() of watchLocalUpdates().
Write(p) ==
  LET e == Len(entries) + 1 IN
  /\ Cardinality(Writes) < MaxWrites
  /\ Appended(p, 0)
  /\ IF ~ started[p] \/ doing[p] # Idle
     THEN UNCHANGED <<queue, pending>>
     ELSE IF eager THEN queue' = [queue EXCEPT ![p] = Append(@, [t |-> "ship", id |-> e])] /\ UNCHANGED pending
                   ELSE pending' = [pending EXCEPT ![p] = Append(@, e)] /\ UNCHANGED queue
  /\ overlooked' = IF started[p] /\ doing[p] # Idle THEN overlooked \cup {e} ELSE overlooked
  /\ spoiled' = (spoiled \/ ~ started[p]) /\ level' = FALSE
  /\ UNCHANGED <<eager, parked, started, going, seen, doing, carrier, opsFaults, presses>>

Task(p, t) == queue[p] # <<>> /\ Head(queue[p]).t = t /\ doing[p] = Idle
Taken(p)   == queue' = [queue EXCEPT ![p] = Tail(@)]

\* shipOperation()
Ship(p, id) == Remember(p, id) /\ Post(p, Op(id))

ShipTask(p) ==
  /\ Task(p, "ship") /\ Taken(p) /\ Ship(p, Head(queue[p]).id)
  /\ UNCHANGED <<data, started, pending, going, doing, air, opsFaults, presses, overlooked>>

\* Mutant of Press: a batch that is too long is cut.
M_PressCuts(p) ==
  /\ started[p] /\ presses < MaxPresses /\ presses' = presses + 1
  /\ pending' = [pending EXCEPT ![p] = <<>>]
  /\ IF pending[p] # <<>>
     THEN going' = [going EXCEPT ![p] = @ \o SubSeq(pending[p], 1, Min({MaxPending, Len(pending[p])}))] /\ Quietly
     ELSE Post(p, Announce(p, TRUE)) /\ UNCHANGED going
  /\ UNCHANGED <<data, started, seen, queue, doing, air, opsFaults, overlooked>>

\* announce() of the handle, what a "send" button means: the changes that wait, as
\* operations or, when they are many, by a reconciliation; and one if none waits.
Press(p) ==
  /\ started[p] /\ presses < MaxPresses /\ presses' = presses + 1
  /\ pending' = [pending EXCEPT ![p] = <<>>]
  /\ IF pending[p] # <<>> /\ Len(pending[p]) <= MaxPending
     THEN going' = [going EXCEPT ![p] = @ \o pending[p]] /\ Quietly
     ELSE Post(p, Announce(p, TRUE)) /\ UNCHANGED going
  /\ UNCHANGED <<data, started, seen, queue, doing, air, opsFaults, overlooked>>

Flush(p) ==
  /\ going[p] # <<>> /\ Ship(p, Head(going[p]))
  /\ going' = [going EXCEPT ![p] = Tail(@)]
  /\ UNCHANGED <<data, started, pending, queue, doing, air, opsFaults, presses, overlooked>>

\* Mutant of Reconciles: where the devices stand is never a reason to send.
M_ReconcilesNot(m) == FALSE

Reconciles(m) == m.r

-----------------------------------------------------------------------------
\* What was received.  An announce that does not ask is let be.
HandleAnnounce(p) ==
  /\ Task(p, "announce") /\ Taken(p)
  /\ LET m == Head(queue[p])
         theyLack == Heads(log[p]) \ m.heads
         weLack == m.heads \ log[p]
         answer == Blocks(p, m.from, log[p] \ Below(m.heads \cap log[p]))
     IN IF ~ Reconciles(m) THEN Quietly
        ELSE IF theyLack # {} /\ weLack # {} THEN Post2(p, answer, Want(p, m.from, weLack))
        ELSE IF theyLack # {} THEN Post(p, answer)
        ELSE IF weLack # {} THEN Post(p, Want(p, m.from, weLack))
        ELSE Quietly
  /\ UNCHANGED <<data, started, pending, going, seen, doing, air, opsFaults, presses, overlooked>>

\* The delta, and what is asked for by name if the block storage has it.
HandleWant(p) ==
  /\ Task(p, "want") /\ Taken(p)
  /\ LET m == Head(queue[p]) IN
     Post(p, Blocks(p, m.from, (log[p] \ Below(m.have \cap log[p])) \cup (m.cids \cap store[p])))
  /\ UNCHANGED <<data, started, pending, going, seen, doing, air, opsFaults, presses, overlooked>>

\* handleBlocks(): applyDelta() is awaited with `applying` set ...
HandleBlocks(p) ==
  /\ Task(p, "blocks") /\ Taken(p)
  /\ parked' = [parked EXCEPT ![p] = @ \cup Head(queue[p]).blocks]
  /\ doing' = [doing EXCEPT ![p] = Head(queue[p])]
  /\ UNCHANGED <<eager, entries, log, store, started, pending, going, seen, carrier, opsFaults, presses, ghosts>>

\* The closure check: parents, of any block that waits, that neither came nor are in
\* the log.
Missing(p) == UNION {Past(e) : e \in parked[p]} \ (log[p] \cup parked[p])

\* ... puts them in the block storage, and joins the heads that came, or asks for what
\* is missing.  A head that did not come is counted, and not asked for.
Applied(p) ==
  /\ doing[p].t = "blocks" /\ doing' = [doing EXCEPT ![p] = Idle]
  /\ store' = [store EXCEPT ![p] = @ \cup parked[p]]
  /\ IF Missing(p) = {}
     THEN /\ log' = [log EXCEPT ![p] = @ \cup Below(doing[p].heads \cap parked[p])]
          /\ parked' = [parked EXCEPT ![p] = {}]
          /\ Post(p, [Announce(p, FALSE) EXCEPT !.heads = Heads(log'[p])])
     ELSE Post(p, Want(p, doing[p].from, Missing(p))) /\ UNCHANGED <<log, parked>>
  /\ UNCHANGED <<eager, entries, started, pending, going, seen, queue, air, opsFaults, presses, overlooked>>

\* handleOperation(): remembered, and then performed with `applying` set ...
HandleOp(p) ==
  /\ Task(p, "op") /\ Taken(p)
  /\ LET id == Head(queue[p]).id IN
     /\ Remember(p, id)
     /\ doing' = IF Known(p, id) THEN doing ELSE [doing EXCEPT ![p] = Head(queue[p])]
  /\ UNCHANGED <<data, started, pending, going, carrier, opsFaults, presses, ghosts>>

\* ... as a write of this device's own ...
Performed(p) ==
  /\ doing[p].t = "op" /\ doing' = [doing EXCEPT ![p] = Idle]
  /\ Appended(p, doing[p].id) /\ level' = FALSE
  /\ UNCHANGED <<eager, parked, started, pending, going, seen, queue, carrier, opsFaults, presses, overlooked, spoiled>>

\* ... that may fail, or be refused; the change stays remembered.
PerformFails(p) ==
  /\ doing[p].t = "op" /\ OpsFault("write") /\ doing' = [doing EXCEPT ![p] = Idle]
  /\ Spoils(TRUE)
  /\ UNCHANGED <<data, started, pending, going, seen, queue, carrier, presses, overlooked>>

\* stop(): no more is heard or noticed; what is queued is handled still.  start()
\* reconciles.
Stop(p) ==
  /\ started[p] /\ OpsFault("stop") /\ started' = [started EXCEPT ![p] = FALSE]
  /\ UNCHANGED <<data, pending, going, seen, queue, doing, carrier, presses, ghosts>>

Start(p) ==
  /\ ~ started[p] /\ started' = [started EXCEPT ![p] = TRUE]
  /\ Post(p, Announce(p, TRUE))
  /\ UNCHANGED <<data, pending, going, seen, queue, doing, air, opsFaults, presses, overlooked>>

-----------------------------------------------------------------------------
\* Two devices in step that have written nothing yet.
OpsInit ==
  /\ entries = <<>> /\ log = [p \in Peer |-> {}]
  /\ parked = [p \in Peer |-> {}] /\ store = [p \in Peer |-> {}]
  /\ eager \in Eager /\ started = [p \in Peer |-> TRUE]
  /\ pending = [p \in Peer |-> <<>>] /\ going = [p \in Peer |-> <<>>]
  /\ seen = [p \in Peer |-> <<>>] /\ queue = [p \in Peer |-> <<>>]
  /\ doing = [p \in Peer |-> Idle] /\ sending = [p \in Peer |-> Idle]
  /\ outbox = [p \in Peer |-> <<>>] /\ air = [p \in Peer |-> <<>>]
  /\ opsFaults = 0 /\ presses = 0 /\ overlooked = {} /\ spoiled = FALSE /\ level = FALSE

OpsNext == \E p \in Peer :
  \/ Write(p) \/ Press(p) \/ Flush(p) \/ ShipTask(p)
  \/ SendResolves(p) \/ SendFails(p) \/ Deliver(p) \/ Lose(p) \/ Overtake(p)
  \/ HandleAnnounce(p) \/ HandleWant(p) \/ HandleBlocks(p) \/ Applied(p)
  \/ HandleOp(p) \/ Performed(p) \/ PerformFails(p)
  \/ Stop(p) \/ Start(p)

OpsSpec == OpsInit /\ [][OpsNext]_opsVars

-----------------------------------------------------------------------------
Change == 1..Len(entries)

Quiet == \A p \in Peer :
  /\ queue[p] = <<>> /\ outbox[p] = <<>> /\ air[p] = <<>>
  /\ pending[p] = <<>> /\ going[p] = <<>>
  /\ sending[p] = Idle /\ doing[p] = Idle

\* The change of an entry has reached this device, whoever wrote it there.
Has(p, c) == \E e \in log[p] : entries[e].change = c

\* However often a message arrives, from whomever, a device performs a change once
\* at most, and never its own: as long as it remembers all the changes there are.
OnceEach ==
  Cardinality(Writes) <= SeenOps =>
    \A e, f \in Change : e # f /\ entries[e].by = entries[f].by => entries[e].change # entries[f].change

\* When nothing is under way any more and nothing was lost on the way, every change
\* that was noticed is on both devices, one by one or in a batch too long for that.
ChangesArrive ==
  Quiet /\ ~ spoiled => \A p \in Peer : \A c \in Writes \ overlooked : Has(p, c)

\* announce() with no change waiting is the repair: whatever was lost, overlooked or
\* refused before it, once it has run its course both devices hold the same log.
RepairConverges == Quiet /\ level => \A p, q \in Peer : log[p] = log[q]

=============================================================================
