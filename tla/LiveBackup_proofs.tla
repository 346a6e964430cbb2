------------------------- MODULE LiveBackup_proofs -------------------------
(***************************************************************************)
(* Proofs about LiveBackup, and about the chain of increments as           *)
(* IncrementRestore reads it: that it has no hole, that what the state     *)
(* names restores, that a flush forgets nothing it has not shipped.  For   *)
(* every number of databases and entries, every log graph and every        *)
(* option; each theorem names the calls and faults it does not hold under. *)
(***************************************************************************)
EXTENDS IncrementRestore, LogGraph_proofs, SequenceTheorems

-----------------------------------------------------------------------------
(* Type correctness.                                                        *)

\* The constants of the module are of their types.
LEMMA InitialValues ==
  /\ Nothing \in [Db -> SUBSET Entry] /\ EmptyState \in State
  /\ NoShip \in Ship /\ Idle \in [Call -> PC] /\ NoCopy \in [Call -> State]
  /\ NoRebase \in Rebasing
<1>1. Nothing \in [Db -> SUBSET Entry]
  BY DEF Nothing
<1>2. EmptyState \in State
  BY <1>1 DEF EmptyState, State
<1>. QED
  BY <1>1, <1>2 DEF NoShip, Ship, Idle, PC, Call, NoCopy, NoRebase, Rebasing

\* Changing a blob's status keeps the sequence of blobs, and all else about them.
LEMMA StatusChange ==
  ASSUME NEW b \in Seq(Blob), NEW i, NEW status \in Status
  PROVE  /\ [b EXCEPT ![i].status = status] \in Seq(Blob)
         /\ DOMAIN [b EXCEPT ![i].status = status] = DOMAIN b
<1>1. CASE i \in 1..Len(b)
  <2>1. b[i] \in Blob
    BY <1>1
  <2>2. [b[i] EXCEPT !.status = status] \in Blob
    BY <2>1 DEF Blob
  <2>3. [b EXCEPT ![i].status = status] = [b EXCEPT ![i] = [b[i] EXCEPT !.status = status]]
    OBVIOUS
  <2>. QED
    BY <1>1, <2>2, <2>3, ExceptSeq
<1>2. CASE i \notin 1..Len(b)
  <2>1. [b EXCEPT ![i].status = status] = b
    BY <1>2
  <2>. QED
    BY <2>1
<1>. QED
  BY <1>1, <1>2

\* What flush() does on request keeps the types.
LEMMA RequestFlushType ==
  ASSUME TypeOK, RequestFlush
  PROVE  pc' \in [Call -> PC] /\ again' \in BOOLEAN
BY DEF TypeOK, RequestFlush, Loading, Call, PC

\* So does its `finally`.
LEMMA EndFlushType ==
  ASSUME TypeOK, EndFlush
  PROVE  /\ pc' \in [Call -> PC] /\ again' \in BOOLEAN /\ ship' \in Ship
         /\ rebase' \in Rebasing /\ overtaken' \in BOOLEAN
<1>1. pc' \in [Call -> PC]
  BY DEF TypeOK, EndFlush, Loading, Call, PC
<1>2. again' \in BOOLEAN /\ ship' \in Ship
  BY InitialValues DEF EndFlush
<1>3. rebase' \in Rebasing /\ overtaken' \in BOOLEAN
  BY DEF TypeOK, EndFlush, Rebasing
<1>. QED
  BY <1>1, <1>2, <1>3

\* The arguments captured for collectIncrement() are of their types.
LEMMA CaptureType ==
  ASSUME TypeOK, NEW own \in BOOLEAN, Capture(own)
  PROVE  pc' \in [Call -> PC] /\ ship' \in Ship
<1>1. pc' \in [Call -> PC]
  BY DEF TypeOK, Capture, Call, PC
<1>2. state.sequence + 1 \in Nat /\ state.base \in Nat /\ state.previous \in Nat
  BY DEF TypeOK, State
<1>3. (IF pc["ship"] = "walk" THEN pending ELSE ship.counted) \in Nat
  BY DEF TypeOK, Ship
<1>4. ship' = [ship EXCEPT !.counted = IF pc["ship"] = "walk" THEN pending ELSE @,
                           !.own = own, !.sequence = state.sequence + 1,
                           !.base = state.base, !.previous = state.previous]
  BY DEF Capture
<1>. QED
  BY <1>1, <1>2, <1>3, <1>4 DEF TypeOK, Ship

\* Increments are blobs.
LEMMA IncrementType == ASSUME TypeOK PROVE Increment \in Blob
BY OptionAssumption DEF TypeOK, Increment, Blob, Ship, Status

\* No step of the databases, of load() or of a call's timers leaves the types.
LEMMA TypeQuietStep ==
  ASSUME TypeOK,
         \/ \E d \in Db : \/ \E e \in Entry : Update(d, e)
                          \/ HearUpdate(d) \/ Watch(d) \/ Unwatch(d)
         \/ LoadAnswer \/ \E p \in Call, d \in Db : LoadWalk(p, d)
         \/ \E p \in Call : LoadFails(p)
         \/ Flush \/ TimerFires \/ SettleFires
         \/ Start \/ StartTimers \/ Stop \/ Close \/ Crash
  PROVE  TypeOK'
<1>. USE DEF orbit, remote, memory, timers, locals, bounds
<1>1. ASSUME NEW d \in Db, NEW e \in Entry, Update(d, e) PROVE TypeOK'
  BY <1>1, ReachIsEntries DEF TypeOK, Update, Past
<1>2. ASSUME NEW d \in Db, HearUpdate(d) PROVE TypeOK'
  <2>1. pending' \in Nat /\ settling' \in BOOLEAN
    BY <1>2 DEF TypeOK, HearUpdate, Settle
  <2>2. unheard' \in [Db -> Nat]
    <3>1. unheard[d] - 1 \in Nat
      BY <1>2 DEF TypeOK, HearUpdate
    <3>. QED
      BY <1>2, <3>1 DEF TypeOK, HearUpdate
  <2>. QED
    BY <1>2, <2>1, <2>2 DEF TypeOK, HearUpdate
<1>3. ASSUME NEW d \in Db, Watch(d) PROVE TypeOK'
  BY <1>3 DEF TypeOK, Watch
<1>4. ASSUME NEW d \in Db, Unwatch(d) PROVE TypeOK'
  <2>1. ship' \in Ship /\ rebase' \in Rebasing
    BY <1>4 DEF TypeOK, Unwatch, Ship, Rebasing
  <2>. QED
    BY <1>4, <2>1 DEF TypeOK, Unwatch
<1>5. CASE LoadAnswer
  BY <1>5 DEF TypeOK, LoadAnswer, PC, Call
<1>6. ASSUME NEW p \in Call, NEW d \in Db, LoadWalk(p, d) PROVE TypeOK'
  BY <1>6, ReachIsEntries DEF TypeOK, LoadWalk
<1>7. ASSUME NEW p \in Call, LoadFails(p) PROVE TypeOK'
  <2>1. /\ pc' \in [Call -> PC] /\ again' \in BOOLEAN /\ ship' \in Ship
        /\ rebase' \in Rebasing /\ overtaken' \in BOOLEAN
    <3>1. CASE p = "ship"
      BY <1>7, <3>1, EndFlushType DEF LoadFails
    <3>2. CASE p # "ship"
      BY <1>7, <3>2 DEF TypeOK, LoadFails, PC
    <3>. QED
      BY <3>1, <3>2
  <2>. QED
    BY <1>7, <2>1 DEF TypeOK, LoadFails, Fault
<1>8. CASE Flush
  BY <1>8, RequestFlushType DEF TypeOK, Flush
<1>9. CASE TimerFires
  BY <1>9, RequestFlushType DEF TypeOK, TimerFires
<1>10. CASE SettleFires
  BY <1>10, RequestFlushType DEF TypeOK, SettleFires
<1>11. CASE Start
  BY <1>11 DEF TypeOK, Start, Loading, PC, Call
<1>12. CASE StartTimers
  <2>1. pc' \in [Call -> PC]
    BY <1>12 DEF TypeOK, StartTimers, PC, Call
  <2>2. timer' \in BOOLEAN /\ settling' \in BOOLEAN
    BY <1>12, OptionAssumption DEF TypeOK, StartTimers, Settle
  <2>. QED
    BY <1>12, <2>1, <2>2 DEF TypeOK, StartTimers
<1>13. CASE Stop
  BY <1>13 DEF TypeOK, Stop, StopTimers
<1>14. CASE Close
  <2>1. ship' \in Ship /\ rebase' \in Rebasing
    BY <1>14 DEF TypeOK, Close, Ship, Rebasing
  <2>. QED
    BY <1>14, <2>1, InitialValues DEF TypeOK, Close, StopTimers
<1>15. CASE Crash
  <2>1. /\ log' = log /\ saved' = saved /\ blobs' = blobs
        /\ unheard' \in [Db -> Nat] /\ faults' \in Nat
        /\ declared' = declared /\ overtaken' = overtaken /\ rebases' = rebases
    BY <1>15 DEF TypeOK, Crash, Fault
  <2>2. /\ state' \in State /\ loaded' \in BOOLEAN
        /\ watched' \subseteq Db /\ walked' \subseteq Db
        /\ shipped' \in [Db -> SUBSET Entry]
    BY <1>15, InitialValues DEF Crash
  <2>3. /\ running' \in BOOLEAN /\ again' \in BOOLEAN /\ timer' \in BOOLEAN
        /\ settling' \in BOOLEAN /\ pending' \in Nat
    BY <1>15 DEF Crash, StopTimers
  <2>4. /\ pc' \in [Call -> PC] /\ ship' \in Ship /\ copy' \in [Call -> State]
        /\ rebase' \in Rebasing
    BY <1>15, InitialValues DEF Crash
  <2>. QED
    BY <2>1, <2>2, <2>3, <2>4 DEF TypeOK
<1>. QED
  BY <1>1, <1>2, <1>3, <1>4, <1>5, <1>6, <1>7, <1>8, <1>9, <1>10, <1>11, <1>12,
     <1>13, <1>14, <1>15

\* Neither does a step of a flush or of rebase().
LEMMA TypeCallStep ==
  ASSUME TypeOK,
         \/ CollectStep \/ StoreStep \/ RebaseStep
         \/ \E p \in Call : SaveFails(p)
         \/ CollectFails \/ PutFails \/ RebaseFails
         \/ \E s \in Status : PinFails(s)
         \/ \E i \in DOMAIN blobs : PinSettles(i)
         \/ \E base \in 0..MaxRebases : Rebase(base)
  PROVE  TypeOK'
<1>. USE DEF orbit, remote, memory, timers, locals, bounds
<1>0. Uncounted \in Nat
  BY DEF TypeOK, Uncounted, Ship
<1>1. CASE ShipCount
  <2>1. pc' \in [Call -> PC] /\ ship' \in Ship
    <3>1. CASE OwnBlocks
      <4>1. pc' \in [Call -> PC]
        BY <1>1, <3>1 DEF TypeOK, ShipCount, PC, Call
      <4>2. ship' = [ship EXCEPT !.counted = pending] /\ pending \in Nat
        BY <1>1, <3>1 DEF TypeOK, ShipCount
      <4>. QED
        BY <4>1, <4>2 DEF TypeOK, Ship
    <3>2. CASE ~OwnBlocks
      BY <1>1, <3>2, CaptureType DEF ShipCount
    <3>. QED
      BY <3>1, <3>2
  <2>. QED
    BY <1>1, <2>1 DEF TypeOK, ShipCount
<1>2. CASE ShipOwn
  <2>1. pc' \in [Call -> PC] /\ ship' \in Ship
    BY <1>2, CaptureType DEF ShipOwn
  <2>. QED
    BY <1>2, <2>1 DEF TypeOK, ShipOwn
<1>3. ASSUME NEW d \in Db, Collect(d) PROVE TypeOK'
  <2>1. PICK lost \in Unreadable(d), unread \in Unreadable(d) :
          ship' = [ship EXCEPT
            !.visited   = @ \cup {d},
            !.heads[d]  = IF Walk(Heads(log[d]), shipped[d], lost) = {} THEN @
                          ELSE Heads(log[d]),
            !.hashes[d] = IF Walk(Heads(log[d]), shipped[d], lost) = {} THEN @
                          ELSE Walk(Heads(log[d]), shipped[d], lost),
            !.carry     = @ \cup (Walk(Heads(log[d]), shipped[d], lost) \ unread)]
    BY <1>3 DEF Collect
  <2>. DEFINE new == Walk(Heads(log[d]), shipped[d], lost)
  <2>2. new \in SUBSET Entry
    BY DEF Walk
  <2>3. Heads(log[d]) \in SUBSET Entry
    BY DEF TypeOK, Heads
  <2>4. ship' = [ship EXCEPT
            !.visited   = ship.visited \cup {d},
            !.heads     = [ship.heads EXCEPT ![d] = IF new = {} THEN @ ELSE Heads(log[d])],
            !.hashes    = [ship.hashes EXCEPT ![d] = IF new = {} THEN @ ELSE new],
            !.carry     = ship.carry \cup (new \ unread)]
    BY <2>1 DEF TypeOK, Ship
  <2>. HIDE DEF new
  <2>5. /\ [ship.heads EXCEPT ![d] = IF new = {} THEN @ ELSE Heads(log[d])] \in [Db -> SUBSET Entry]
        /\ [ship.hashes EXCEPT ![d] = IF new = {} THEN @ ELSE new] \in [Db -> SUBSET Entry]
    BY <2>2, <2>3 DEF TypeOK, Ship
  <2>6. ship' \in Ship
    BY <2>2, <2>4, <2>5 DEF TypeOK, Ship
  <2>. QED
    BY <1>3, <2>6 DEF TypeOK, Collect
<1>4. CASE ShipNothing
  BY <1>4, <1>0, EndFlushType DEF TypeOK, ShipNothing
<1>5. CASE ShipUpload
  BY <1>5 DEF TypeOK, ShipUpload, PC, Call
<1>6. CASE PutBlob
  <2>1. blobs' \in Seq(Blob) /\ Len(blobs) + 1 \in Nat
    BY <1>6, IncrementType DEF TypeOK, PutBlob
  <2>2. ship' \in Ship
    BY <1>6, <2>1 DEF TypeOK, PutBlob, Ship
  <2>3. pc' \in [Call -> PC]
    BY <1>6 DEF TypeOK, PutBlob, PC, Call
  <2>. QED
    BY <1>6, <2>1, <2>2, <2>3 DEF TypeOK, PutBlob
<1>7. CASE PutFails
  <2>1. blobs' \in Seq(Blob)
    <3>1. CASE UNCHANGED blobs
      BY <3>1 DEF TypeOK
    <3>2. CASE blobs' = Append(blobs, Increment)
      BY <3>2, IncrementType DEF TypeOK
    <3>. QED
      BY <1>7, <3>1, <3>2 DEF PutFails
  <2>. QED
    BY <1>7, <2>1, EndFlushType DEF TypeOK, PutFails, Fault
<1>8. ASSUME NEW s \in Status, Pin(s) PROVE TypeOK'
  <2>1. blobs' \in Seq(Blob)
    BY <1>8, StatusChange DEF TypeOK, Pin
  <2>2. pc' \in [Call -> PC]
    BY <1>8 DEF TypeOK, Pin, PC, Call
  <2>. QED
    BY <1>8, <2>1, <2>2 DEF TypeOK, Pin
<1>9. ASSUME NEW s \in Status, PinFails(s) PROVE TypeOK'
  <2>1. blobs' \in Seq(Blob)
    BY <1>9, StatusChange DEF TypeOK, PinFails
  <2>. QED
    BY <1>9, <2>1, EndFlushType DEF TypeOK, PinFails, Fault
<1>10. ASSUME NEW i \in DOMAIN blobs, PinSettles(i) PROVE TypeOK'
  <2>1. blobs' \in Seq(Blob)
    <3>1. PICK status \in {"kept", "loose"} :
            blobs' = [blobs EXCEPT ![i].status = status]
      BY <1>10 DEF PinSettles
    <3>. QED
      BY <3>1, StatusChange DEF TypeOK, Status
  <2>. QED
    BY <1>10, <2>1 DEF TypeOK, PinSettles
<1>11. CASE Move
  <2>. DEFINE moved == Described \cap watched
              heads == [d \in Db |-> IF d \in moved THEN ship.heads[d] ELSE state.heads[d]]
  <2>1. heads \in [Db -> SUBSET Entry] /\ ship.sequence \in Nat /\ ship.blob \in Nat
    BY DEF TypeOK, Ship, State
  <2>2. state' = [state EXCEPT !.sequence = ship.sequence, !.previous = ship.blob,
                               !.heads = heads]
    BY <1>11 DEF Move
  <2>3. shipped' \in [Db -> SUBSET Entry]
    BY <1>11 DEF TypeOK, Move, Ship
  <2>. HIDE DEF heads, moved
  <2>4. state' \in State
    BY <2>1, <2>2 DEF TypeOK, State
  <2>5. pc' \in [Call -> PC] /\ copy' \in [Call -> State]
    BY <1>11, <2>4 DEF TypeOK, Move, PC, Call
  <2>. QED
    BY <1>11, <1>0, <2>3, <2>4, <2>5 DEF TypeOK, Move
<1>12. ASSUME NEW p \in Call, EndSave(p)
       PROVE  /\ pc' \in [Call -> PC] /\ again' \in BOOLEAN /\ ship' \in Ship
              /\ rebase' \in Rebasing /\ overtaken' \in BOOLEAN
              /\ copy' \in [Call -> State]
  <2>1. copy' \in [Call -> State]
    BY <1>12, InitialValues DEF TypeOK, EndSave
  <2>2. CASE p = "ship"
    BY <1>12, <2>1, <2>2, EndFlushType DEF EndSave
  <2>3. CASE p # "ship"
    BY <1>12, <2>1, <2>3, InitialValues DEF TypeOK, EndSave, PC
  <2>. QED
    BY <2>2, <2>3
<1>13. ASSUME NEW p \in Call, Save(p) PROVE TypeOK'
  <2>1. saved' \subseteq State
    BY <1>13 DEF TypeOK, Save
  <2>. QED
    BY <1>12, <1>13, <2>1 DEF TypeOK, Save
<1>14. ASSUME NEW p \in Call, SaveFails(p) PROVE TypeOK'
  BY <1>12, <1>14 DEF TypeOK, SaveFails, Fault
<1>15. ASSUME NEW base \in 0..MaxRebases, Rebase(base) PROVE TypeOK'
  <2>1. pc' \in [Call -> PC]
    BY <1>15 DEF TypeOK, Rebase, Loading, PC, Call
  <2>2. base \in Nat
    BY BoundAssumption
  <2>3. rebase' \in Rebasing
    BY <1>15, <2>2, InitialValues DEF Rebase, Rebasing
  <2>4. rebases' \in Nat
    BY <1>15 DEF TypeOK, Rebase
  <2>5. UNCHANGED <<orbit, remote, memory, timers, pending, again, ship, copy, declared,
                    overtaken, faults>>
    BY <1>15 DEF Rebase
  <2>. QED
    BY <2>1, <2>3, <2>4, <2>5 DEF TypeOK
<1>16. CASE RebaseReset
  <2>1. state' \in State
    BY <1>16, InitialValues DEF TypeOK, RebaseReset, State, Rebasing
  <2>2. pc' \in [Call -> PC]
    BY <1>16 DEF TypeOK, RebaseReset, PC, Call
  <2>. QED
    BY <1>16, <2>1, <2>2 DEF TypeOK, RebaseReset
<1>17. ASSUME NEW d \in Db, RebaseHeads(d) PROVE TypeOK'
  <2>1. Heads(log[d]) \in SUBSET Entry
    BY DEF TypeOK, Heads
  <2>2. rebase' \in Rebasing
    BY <1>17, <2>1 DEF TypeOK, RebaseHeads, Rebasing
  <2>3. declared' \subseteq Entry /\ pc' \in [Call -> PC]
    BY <1>17, ReachIsEntries DEF TypeOK, RebaseHeads, Past, PC, Call
  <2>. QED
    BY <1>17, <2>2, <2>3 DEF TypeOK, RebaseHeads
<1>19. ASSUME NEW d \in Db, RebaseWalk(d) PROVE TypeOK'
  <2>1. rebase.heads \in SUBSET Entry
    BY DEF TypeOK, Rebasing
  <2>2. state' \in State
    BY <1>19, <2>1 DEF TypeOK, RebaseWalk, State
  <2>3. shipped' \in [Db -> SUBSET Entry] /\ pc' \in [Call -> PC]
    BY <1>19, ReachIsEntries DEF TypeOK, RebaseWalk, PC, Call
  <2>4. rebase' \in Rebasing
    BY <1>19 DEF TypeOK, RebaseWalk, Rebasing
  <2>. QED
    BY <1>19, <2>2, <2>3, <2>4 DEF TypeOK, RebaseWalk
<1>20. CASE CollectFails
  BY <1>20, EndFlushType DEF TypeOK, CollectFails, Fault
<1>21. CASE RebaseFails
  <2>1. pc' \in [Call -> PC] /\ rebase' \in Rebasing
    BY <1>21, InitialValues DEF TypeOK, RebaseFails, PC, Call
  <2>. QED
    BY <1>21, <2>1 DEF TypeOK, RebaseFails, Fault
<1>18. CASE RebaseSave
  <2>1. pc' \in [Call -> PC] /\ copy' \in [Call -> State]
    BY <1>18 DEF TypeOK, RebaseSave, PC, Call
  <2>. QED
    BY <1>18, <2>1 DEF TypeOK, RebaseSave
<1>. QED
  BY <1>1, <1>2, <1>3, <1>4, <1>5, <1>6, <1>7, <1>8, <1>9, <1>10, <1>11, <1>13, <1>14,
     <1>15, <1>16, <1>17, <1>18, <1>19, <1>20, <1>21 DEF CollectStep, StoreStep, RebaseStep

\* Before the first step the types are right.
LEMMA TypeCorrectInit == ASSUME Init PROVE TypeOK
<1>1. blobs \in Seq(Blob) /\ unheard \in [Db -> Nat]
  BY DEF Init
<1>2. /\ pc \in [Call -> PC] /\ ship \in Ship /\ copy \in [Call -> State]
      /\ rebase \in Rebasing
      /\ state \in State /\ log \in [Db -> SUBSET Entry]
      /\ shipped \in [Db -> SUBSET Entry]
  BY InitialValues DEF Init
<1>. QED
  BY <1>1, <1>2 DEF Init, TypeOK

\* No step leaves them.
LEMMA TypeStep == ASSUME TypeOK, [Next]_vars PROVE TypeOK'
<1>1. CASE Next
  BY <1>1, TypeQuietStep, TypeCallStep
     DEF Next, Progress, LoadStep, TimerStep, Failure, Application
<1>2. CASE UNCHANGED vars
  BY <1>2 DEF TypeOK, vars, orbit, remote, memory, timers, locals, bounds
<1>. QED
  BY <1>1, <1>2

\* Every variable of createLiveBackup keeps its type.
THEOREM TypeCorrect == Spec => []TypeOK
<1>1. Init => TypeOK
  BY TypeCorrectInit
<1>2. TypeOK /\ [Next]_vars => TypeOK'
  BY TypeStep
<1>. QED
  BY <1>1, <1>2, PTL DEF Spec

-----------------------------------------------------------------------------
(* What counts as shipped can be had back.                                  *)

\* What the safety of an increment rests on: every block that the walk meets is
\* there to be read, and a flush gets past the pin only if the backend keeps the
\* blob.  (A backend that answers `retained: true`, or `keep` with a confirm()
\* that follows the pin to its settled answer.)
Trustworthy == "read" \notin Faults /\ (Retains \/ (Keep /\ Confirm))

\* The running watcher passes over nothing outside S, and would resume an unwatched
\* database from nothing outside it.
MemoryIn(S) ==
  \A d \in Db : Past(shipped[d]) \subseteq S /\ Past(state.heads[d]) \subseteq S

\* So does what is in the state store, and the copies being written to it.
StoreIn(S) ==
  /\ \A s \in saved : \A d \in Db : Past(s.heads[d]) \subseteq S
  /\ \A p \in Call : \A d \in Db : Past(copy[p].heads[d]) \subseteq S

\* The flush in flight: what it will count is in S already or carried by it.
ShipIn(S) ==
  \A d \in Db : /\ Past(ship.heads[d]) \subseteq S \cup ship.carry
                /\ Past(ship.hashes[d]) \subseteq S \cup ship.carry

\* The rebase() that walks from the heads it has read.
RebaseIn(S) == Past(rebase.heads) \subseteq S

\* The upload of the flush: the blob holds what the flush carries, and is kept when the state
\* moves, not before.
UploadInFlight ==
  LET b == blobs[ship.blob] IN
  /\ pc["ship"] \in {"pin", "move"} => ship.blob \in DOMAIN blobs /\ b.entries = ship.carry
  /\ pc["ship"] = "pin" => b.status = "loose" /\ ~Retains
  /\ pc["ship"] = "move" => b.status = "kept"

\* The inductive invariant.
Covered ==
  /\ TypeOK
  /\ MemoryIn(Safe) /\ StoreIn(Safe) /\ ShipIn(Safe) /\ RebaseIn(Safe)
  /\ UploadInFlight

\* A walk that can read every block loses none.
LEMMA NothingUnread ==
  ASSUME "read" \notin Faults, NEW d \in Db, NEW lost \in Unreadable(d) PROVE lost = {}
BY DEF Unreadable

\* Blobs change with an upload, with the answer to a pin, or when the backend
\* decides a pin.
LEMMA BlobFrame ==
  ASSUME [Next]_vars
  PROVE  \/ UNCHANGED blobs
         \/ PutBlob \/ PutFails
         \/ \E s \in Status : Pin(s) \/ PinFails(s)
         \/ \E i \in DOMAIN blobs : PinSettles(i)
<1>. USE DEF remote
<1>1. ASSUME LoadStep \/ CollectStep \/ RebaseStep \/ TimerStep \/ Move
             \/ (\E p \in Call : Save(p) \/ SaveFails(p) \/ LoadFails(p)) \/ Crash
             \/ CollectFails \/ RebaseFails \/ Application
      PROVE  UNCHANGED blobs
  BY <1>1 DEF LoadStep, LoadAnswer, LoadWalk, CollectStep, ShipCount, ShipOwn, Collect,
     ShipNothing, ShipUpload, RebaseStep, RebaseReset, RebaseHeads, RebaseWalk,
     RebaseSave, TimerStep,
     StartTimers, TimerFires, SettleFires, HearUpdate, Move, Save, SaveFails, LoadFails,
     CollectFails, RebaseFails, Crash, Application, Update, Watch, Unwatch, Flush, Start,
     Stop, Close, Rebase
<1>2. CASE UNCHANGED vars
  BY <1>2 DEF vars
<1>3. CASE StoreStep
  BY <1>1, <1>3 DEF StoreStep
<1>4. CASE Failure
  BY <1>1, <1>4 DEF Failure
<1>5. CASE Next
  BY <1>1, <1>3, <1>4, <1>5 DEF Next, Progress
<1>. QED
  BY <1>2, <1>5

\* The blobs only grow, and only a pin that is not yet decided changes.
LEMMA BlobsGrow ==
  ASSUME TypeOK, UploadInFlight, [Next]_vars
  PROVE  \/ UNCHANGED blobs
         \/ blobs' = Append(blobs, Increment)
         \/ \E i \in DOMAIN blobs, s \in Status :
              blobs[i].status # "kept" /\ blobs' = [blobs EXCEPT ![i].status = s]
<1>1. ASSUME NEW s \in Status, Pin(s) \/ PinFails(s)
      PROVE  \E i \in DOMAIN blobs : blobs[i].status # "kept"
                                     /\ blobs' = [blobs EXCEPT ![i].status = s]
  BY <1>1 DEF UploadInFlight, Pin, PinFails, At
<1>2. ASSUME NEW i \in DOMAIN blobs, PinSettles(i)
      PROVE  \E s \in Status : blobs[i].status # "kept"
                               /\ blobs' = [blobs EXCEPT ![i].status = s]
  BY <1>2 DEF PinSettles, Status
<1>3. ASSUME PutBlob \/ PutFails
      PROVE  UNCHANGED blobs \/ blobs' = Append(blobs, Increment)
  BY <1>3 DEF PutBlob, PutFails
<1>. QED
  BY <1>1, <1>2, <1>3, BlobFrame

\* What can be had back stays so: the backend keeps what it kept, and what a
\* rebase() declared stays declared.
LEMMA SafeGrows ==
  ASSUME TypeOK, UploadInFlight, [Next]_vars PROVE Safe \subseteq Safe'
<1>1. declared \subseteq declared'
  <2>. USE DEF bounds
  <2>1. CASE LoadStep \/ CollectStep \/ TimerStep
    BY <2>1 DEF LoadStep, LoadAnswer, LoadWalk, CollectStep, ShipCount, ShipOwn, Collect,
       ShipNothing, ShipUpload, TimerStep, StartTimers, TimerFires, SettleFires, HearUpdate
  <2>2. CASE StoreStep \/ RebaseStep
    BY <2>2 DEF StoreStep, PutBlob, Pin, Move, Save, RebaseStep, RebaseReset,
       RebaseHeads, RebaseWalk,
       RebaseSave
  <2>3. CASE Failure
    BY <2>3 DEF Failure, LoadFails, SaveFails, CollectFails, PutFails, RebaseFails,
       PinFails, PinSettles, Crash
  <2>4. CASE Application
    BY <2>4 DEF Application, Update, Watch, Unwatch, Flush, Start, Stop, Close, Rebase
  <2>5. CASE UNCHANGED vars
    BY <2>5 DEF vars
  <2>. QED
    BY <2>1, <2>2, <2>3, <2>4, <2>5 DEF Next, Progress
<1>2. ASSUME NEW i \in Kept
      PROVE  i \in Kept' /\ blobs'[i].entries = blobs[i].entries
  <2>1. i \in 1..Len(blobs) /\ blobs[i] \in Blob /\ blobs[i].status = "kept"
    BY DEF TypeOK, Kept
  <2>2. CASE UNCHANGED blobs
    BY <2>2 DEF Kept
  <2>3. CASE blobs' = Append(blobs, Increment)
    <3>1. i \in 1..Len(blobs') /\ blobs'[i] = blobs[i]
      BY <2>1, <2>3, IncrementType DEF TypeOK
    <3>2. blobs' \in Seq(Blob)
      BY <2>3, IncrementType DEF TypeOK
    <3>. QED
      BY <2>1, <3>1, <3>2 DEF Kept
  <2>4. ASSUME NEW j \in DOMAIN blobs, NEW s \in Status,
               blobs[j].status # "kept", blobs' = [blobs EXCEPT ![j].status = s]
        PROVE  i \in Kept' /\ blobs'[i].entries = blobs[i].entries
    <3>1. i # j /\ i \in DOMAIN blobs
      BY <2>1, <2>4 DEF TypeOK
    <3>2. DOMAIN blobs' = DOMAIN blobs /\ blobs'[i] = blobs[i]
      BY <2>4, <3>1
    <3>. QED
      BY <2>1, <3>1, <3>2 DEF Kept
  <2>. QED
    BY <2>2, <2>3, <2>4, BlobsGrow
<1>3. Stored \subseteq Stored'
  BY <1>2 DEF Stored
<1>. QED
  BY <1>1, <1>3 DEF Safe

\* Every step leaves what the flush carries, ends the flush, or collects for a
\* database.
LEMMA ShipFrame ==
  ASSUME TypeOK, [Next]_vars
  PROVE  \/ ship'.heads = ship.heads /\ ship'.hashes = ship.hashes /\ ship'.carry = ship.carry
         \/ ship' = NoShip
         \/ \E d \in Db : Collect(d)
<1>. USE DEF locals
<1>0. ship \in Ship
  BY DEF TypeOK
<1>1. CASE \/ LoadStep \/ TimerStep \/ RebaseStep \/ Application
  BY <1>0, <1>1 DEF LoadStep, LoadAnswer, LoadWalk, TimerStep, StartTimers, TimerFires,
     SettleFires, HearUpdate, RebaseStep, RebaseReset, RebaseHeads, RebaseWalk,
     RebaseSave, Application,
     Update, Watch, Unwatch, Flush, Start, Stop, Close, Rebase, Ship
<1>2. CASE CollectStep
  BY <1>0, <1>2 DEF CollectStep, ShipCount, ShipOwn, Capture, ShipNothing, EndFlush,
     ShipUpload, Ship
<1>3. CASE StoreStep
  BY <1>0, <1>3 DEF StoreStep, PutBlob, Pin, Move, Save, EndSave, EndFlush, Ship
<1>4. CASE Failure
  BY <1>0, <1>4 DEF Failure, LoadFails, SaveFails, EndSave, EndFlush, CollectFails,
     PutFails, RebaseFails, PinFails,
     PinSettles, Crash
<1>5. CASE UNCHANGED vars
  BY <1>5 DEF vars
<1>. QED
  BY <1>1, <1>2, <1>3, <1>4, <1>5 DEF Next, Progress

\* As the archive grows from S to T, what the flush in flight will count stays in it
\* or carried: what it collects for a database is carried, down to what was shipped.
LEMMA ShipStaysIn ==
  ASSUME "read" \notin Faults, TypeOK, NEW S, NEW T, S \subseteq T,
         MemoryIn(S), ShipIn(S), [Next]_vars
  PROVE  ShipIn(T)'
<1>2. CASE ship'.heads = ship.heads /\ ship'.hashes = ship.hashes /\ ship'.carry = ship.carry
  BY <1>2 DEF ShipIn
<1>3. CASE ship' = NoShip
  BY <1>3, PastOfNothing DEF ShipIn, NoShip, Nothing
<1>4. ASSUME NEW d \in Db, Collect(d) PROVE ShipIn(T)'
  <2>. DEFINE H   == Heads(log[d])
              new == Walk(H, shipped[d], {})
  <2>1. ship' = [ship EXCEPT
          !.visited   = @ \cup {d},
          !.heads[d]  = IF new = {} THEN @ ELSE H,
          !.hashes[d] = IF new = {} THEN @ ELSE new,
          !.carry     = @ \cup (new \ {})]
    BY <1>4, NothingUnread DEF Collect
  <2>2. H \in SUBSET Entry /\ shipped[d] \in SUBSET Entry /\ new \in SUBSET Entry
    BY WalkIsClosed DEF TypeOK, Heads
  <2>3. Past(H) \subseteq T \cup new
    <3>1. Past(H) \subseteq new \cup Past(shipped[d])
      BY <2>2, WalkCovers
    <3>2. Past(shipped[d]) \subseteq S
      BY DEF MemoryIn
    <3>. QED
      BY <3>1, <3>2
  <2>4. Past(new) \subseteq T \cup new
    BY <2>2, <2>3, WalkInPast, PastOfPast
  <2>. HIDE DEF H, new
  <2>5. /\ ship'.carry = ship.carry \cup new
        /\ ship'.heads = [ship.heads EXCEPT ![d] = IF new = {} THEN @ ELSE H]
        /\ ship'.hashes = [ship.hashes EXCEPT ![d] = IF new = {} THEN @ ELSE new]
        /\ ship.heads \in [Db -> SUBSET Entry] /\ ship.hashes \in [Db -> SUBSET Entry]
    BY <2>1 DEF TypeOK, Ship
  <2>6. ASSUME NEW c \in Db
        PROVE  /\ Past(ship'.heads[c]) \subseteq T \cup ship'.carry
               /\ Past(ship'.hashes[c]) \subseteq T \cup ship'.carry
    <3>1. /\ Past(ship.heads[c]) \subseteq T \cup ship.carry
          /\ Past(ship.hashes[c]) \subseteq T \cup ship.carry
      BY DEF ShipIn
    <3>2. ship'.heads[c] = ship.heads[c] \/ ship'.heads[c] = H
      BY <2>5
    <3>3. ship'.hashes[c] = ship.hashes[c] \/ ship'.hashes[c] = new
      BY <2>5
    <3>. QED
      BY <2>3, <2>4, <2>5, <3>1, <3>2, <3>3
  <2>. QED
    BY <2>6 DEF ShipIn
<1>. QED
  BY <1>2, <1>3, <1>4, ShipFrame

\* The upload of the flush in flight stays accounted for.
LEMMA UploadStaysInFlight ==
  ASSUME Trustworthy, Covered, [Next]_vars PROVE UploadInFlight'
<1>. USE DEF locals, remote
<1>0. /\ ship \in Ship /\ pc \in [Call -> PC] /\ pc' \in [Call -> PC]
      /\ "ship" \in Call /\ blobs \in Seq(Blob)
  BY TypeStep DEF Covered, TypeOK, Call
<1>. DEFINE Frame == \/ pc'["ship"] \notin {"pin", "move"}
                     \/ /\ pc'["ship"] = pc["ship"] /\ blobs' = blobs
                        /\ ship'.blob = ship.blob /\ ship'.carry = ship.carry
<1>1. ASSUME Frame PROVE UploadInFlight'
  BY <1>1 DEF Covered, UploadInFlight
<1>2. ASSUME LoadStep \/ TimerStep PROVE Frame
  BY <1>0, <1>2 DEF LoadStep, LoadAnswer, LoadWalk, TimerStep, StartTimers, TimerFires,
     SettleFires, RequestFlush, Loading, HearUpdate
<1>3. ASSUME RebaseStep PROVE Frame
  BY <1>0, <1>3 DEF RebaseStep, RebaseReset, RebaseHeads, RebaseWalk, RebaseSave
<1>4. ASSUME Application PROVE Frame
  BY <1>0, <1>4 DEF Application, Update, Watch, Unwatch, Flush, RequestFlush, Loading,
     Start, Stop, Close, Rebase, Ship
<1>5. ASSUME CollectStep PROVE Frame
  BY <1>0, <1>5 DEF CollectStep, ShipCount, ShipOwn, Capture, Collect, At, ShipNothing,
     EndFlush, Loading, ShipUpload
<1>6. ASSUME NEW p \in Call, Save(p) \/ SaveFails(p) \/ LoadFails(p) PROVE Frame
  BY <1>0, <1>6 DEF Save, SaveFails, EndSave, LoadFails, EndFlush, Loading
<1>7. ASSUME \/ CollectFails \/ PutFails \/ RebaseFails
             \/ (\E s \in Status : PinFails(s)) \/ Move \/ Crash
      PROVE  Frame
  BY <1>0, <1>7 DEF CollectFails, PutFails, RebaseFails, PinFails, EndFlush, Loading,
     Move, Crash, Idle
<1>8. CASE PutBlob
  <2>1. /\ blobs' = Append(blobs, Increment) /\ ship'.blob = Len(blobs) + 1
        /\ ship'.carry = ship.carry
        /\ pc'["ship"] = IF Retains \/ ~Keep THEN "move" ELSE "pin"
    BY <1>0, <1>8 DEF PutBlob, Ship
  <2>2. ship'.blob \in DOMAIN blobs' /\ blobs'[ship'.blob] = Increment
    BY <1>0, <2>1, IncrementType DEF Covered
  <2>3. Increment.entries = ship.carry
        /\ Increment.status = IF Retains THEN "kept" ELSE "loose"
    BY DEF Increment
  <2>. QED
    BY <2>1, <2>2, <2>3 DEF UploadInFlight, Trustworthy
<1>9. ASSUME NEW s \in Status, Pin(s) PROVE UploadInFlight'
  <2>1. /\ ship.blob \in DOMAIN blobs /\ blobs[ship.blob].entries = ship.carry
        /\ blobs[ship.blob] \in Blob
    BY <1>0, <1>9 DEF Covered, UploadInFlight, Pin, At
  <2>2. s = "kept"
    BY <1>9 DEF Pin, At, Covered, UploadInFlight, Trustworthy
  <2>3. /\ blobs' = [blobs EXCEPT ![ship.blob].status = s] /\ ship' = ship
        /\ pc'["ship"] = "move"
    BY <1>0, <1>9 DEF Pin
  <2>4. /\ DOMAIN blobs' = DOMAIN blobs /\ blobs'[ship.blob].entries = ship.carry
        /\ blobs'[ship.blob].status = "kept"
    BY <2>1, <2>2, <2>3 DEF Blob
  <2>. QED
    BY <2>1, <2>3, <2>4 DEF UploadInFlight
<1>10. ASSUME NEW i \in DOMAIN blobs, PinSettles(i) PROVE UploadInFlight'
  <2>1. PICK s \in Status : blobs' = [blobs EXCEPT ![i].status = s]
    BY <1>10 DEF PinSettles, Status
  <2>2. pc' = pc /\ ship' = ship /\ blobs[i].status = "pending" /\ DOMAIN blobs' = DOMAIN blobs
    BY <1>10, <2>1 DEF PinSettles
  <2>3. ASSUME pc["ship"] \in {"pin", "move"} PROVE blobs'[ship.blob] = blobs[ship.blob]
    <3>1. ship.blob # i /\ ship.blob \in DOMAIN blobs
      BY <2>2, <2>3 DEF Covered, UploadInFlight
    <3>. QED
      BY <2>1, <3>1
  <2>. QED
    BY <2>2, <2>3 DEF Covered, UploadInFlight
<1>11. ASSUME UNCHANGED vars PROVE Frame
  BY <1>11 DEF vars
<1>12. CASE StoreStep
  BY <1>1, <1>6, <1>7, <1>8, <1>9, <1>12 DEF StoreStep
<1>13. CASE Failure
  BY <1>1, <1>6, <1>7, <1>10, <1>13 DEF Failure
<1>. HIDE DEF Frame
<1>. QED
  BY <1>1, <1>2, <1>3, <1>4, <1>5, <1>11, <1>12, <1>13 DEF Next, Progress

\* Every step leaves the heads a rebase() walks from, ends its walk, or reads those of
\* the next database.
LEMMA RebaseFrame ==
  ASSUME TypeOK, [Next]_vars
  PROVE  \/ rebase'.heads = rebase.heads \/ rebase'.heads = {}
         \/ \E d \in Db : RebaseHeads(d)
<1>. USE DEF locals
<1>0. rebase \in Rebasing
  BY DEF TypeOK
<1>1. CASE LoadStep \/ TimerStep \/ Application
  BY <1>0, <1>1 DEF LoadStep, LoadAnswer, LoadWalk, TimerStep, StartTimers, TimerFires,
     SettleFires, HearUpdate, Application, Update, Watch, Unwatch, Flush, Start, Stop,
     Close, Rebase, NoRebase, Rebasing
<1>e. ASSUME EndFlush PROVE rebase'.heads = rebase.heads
  <2>1. PICK b : rebase' = [rebase EXCEPT !.behind = b]
    BY <1>e DEF EndFlush
  <2>. QED
    BY <1>0, <2>1 DEF Rebasing
<1>s. ASSUME NEW p \in Call, Save(p) \/ SaveFails(p) \/ LoadFails(p)
      PROVE  rebase'.heads = rebase.heads \/ rebase'.heads = {}
  <2>1. EndFlush \/ rebase' = rebase \/ rebase' = NoRebase
    BY <1>s DEF Save, SaveFails, EndSave, LoadFails
  <2>. QED
    BY <1>e, <2>1 DEF NoRebase
<1>2. CASE CollectStep \/ StoreStep
  <2>1. CASE ShipNothing
    BY <1>e, <2>1 DEF ShipNothing
  <2>2. CASE PutBlob \/ (\E s \in Status : Pin(s)) \/ Move
    BY <2>2 DEF PutBlob, Pin, Move
  <2>3. CASE ShipCount \/ ShipOwn \/ (\E d \in Db : Collect(d)) \/ ShipUpload
    BY <2>3 DEF ShipCount, ShipOwn, Collect, ShipUpload
  <2>. QED
    BY <1>2, <1>s, <2>1, <2>2, <2>3 DEF CollectStep, StoreStep
<1>3. CASE RebaseStep
  BY <1>0, <1>3 DEF RebaseStep, RebaseReset, RebaseWalk, RebaseSave, Rebasing
<1>4. CASE Failure
  <2>1. ASSUME CollectFails \/ PutFails \/ \E s \in Status : PinFails(s)
        PROVE  rebase'.heads = rebase.heads
    BY <1>e, <2>1 DEF CollectFails, PutFails, PinFails
  <2>2. ASSUME RebaseFails \/ Crash PROVE rebase'.heads = {}
    BY <2>2 DEF RebaseFails, Crash, NoRebase
  <2>3. ASSUME NEW i \in DOMAIN blobs, PinSettles(i) PROVE rebase' = rebase
    BY <2>3 DEF PinSettles
  <2>. QED
    BY <1>4, <1>s, <2>1, <2>2, <2>3 DEF Failure
<1>5. CASE UNCHANGED vars
  BY <1>5 DEF vars
<1>. QED
  BY <1>1, <1>2, <1>3, <1>4, <1>5 DEF Next, Progress

\* What a rebase() reads is declared as it reads it.
LEMMA RebaseStaysIn ==
  ASSUME TypeOK, NEW S, NEW T, S \subseteq T, RebaseIn(S), declared' \subseteq T,
         [Next]_vars
  PROVE  RebaseIn(T)'
<1>1. CASE rebase'.heads = rebase.heads
  BY <1>1 DEF RebaseIn
<1>2. CASE rebase'.heads = {}
  BY <1>2, PastOfNothing DEF RebaseIn
<1>3. ASSUME NEW d \in Db, RebaseHeads(d) PROVE RebaseIn(T)'
  <2>1. /\ rebase' = [rebase EXCEPT !.visited = @ \cup {d}, !.at = {d},
                                    !.heads = Heads(log[d])]
        /\ Past(Heads(log[d])) \subseteq T
    BY <1>3 DEF RebaseHeads
  <2>2. rebase'.heads = Heads(log[d])
    BY <2>1 DEF TypeOK, Rebasing
  <2>. QED
    BY <2>1, <2>2 DEF RebaseIn
<1>. QED
  BY <1>1, <1>2, <1>3, RebaseFrame

\* What the watcher passes over stays in the archive, if the state moves to what the
\* flush carried only once that is archived.
LEMMA MemoryStaysIn ==
  ASSUME "read" \notin Faults, TypeOK, NEW S, NEW T, S \subseteq T,
         MemoryIn(S), StoreIn(S), ShipIn(S), RebaseIn(S),
         pc["ship"] = "move" => ship.carry \subseteq S, [Next]_vars
  PROVE  MemoryIn(T)'
<1>. USE DEF memory
<1>0. state \in State /\ shipped \in [Db -> SUBSET Entry]
  BY DEF TypeOK
<1>. DEFINE Frame == state'.heads = state.heads /\ shipped' = shipped
<1>1. ASSUME Frame PROVE MemoryIn(T)'
  BY <1>0, <1>1 DEF MemoryIn
<1>2. CASE LoadAnswer
  <2>1. shipped' = shipped /\ (state' = state \/ state' \in saved)
    BY <1>2 DEF LoadAnswer
  <2>. QED
    BY <1>0, <2>1 DEF MemoryIn, StoreIn
<1>3. ASSUME NEW p \in Call, NEW d \in Db, LoadWalk(p, d) PROVE MemoryIn(T)'
  <2>1. state' = state /\ shipped' = [shipped EXCEPT ![d] = Past(state.heads[d])]
    BY <1>3, NothingUnread DEF LoadWalk, Past
  <2>2. state.heads[d] \in SUBSET Entry
    BY <1>0 DEF State
  <2>3. Past(Past(state.heads[d])) \subseteq S
    BY <2>2, PastOfPast, ReachIsEntries DEF MemoryIn, Past
  <2>. QED
    BY <1>0, <2>1, <2>3 DEF MemoryIn
<1>4. ASSUME NEW d \in Db, Unwatch(d) PROVE MemoryIn(T)'
  <2>1. state' = state /\ shipped' = [shipped EXCEPT ![d] = {}]
    BY <1>4 DEF Unwatch
  <2>. QED
    BY <1>0, <2>1, PastOfNothing DEF MemoryIn
<1>5. CASE Close
  BY <1>0, <1>5, PastOfNothing DEF Close, Nothing, MemoryIn
<1>6. CASE Crash
  BY <1>0, <1>6, PastOfNothing DEF Crash, Nothing, EmptyState, MemoryIn
<1>7. CASE Move
  <2>2. ship.carry \subseteq S
    BY <1>7 DEF Move, At
  <2>3. ASSUME NEW d \in Db
        PROVE  Past(ship.heads[d]) \subseteq S /\ Past(ship.hashes[d]) \subseteq S
    BY <2>2 DEF ShipIn
  <2>4. ASSUME NEW d \in Db
        PROVE  state'.heads[d] = state.heads[d] \/ state'.heads[d] = ship.heads[d]
    BY <1>0, <1>7 DEF Move, State
  <2>5. ASSUME NEW d \in Db
        PROVE  shipped'[d] = shipped[d] \/ shipped'[d] = shipped[d] \cup ship.hashes[d]
    BY <1>7 DEF Move
  <2>6. ASSUME NEW d \in Db PROVE Past(shipped'[d]) \subseteq S
    <3>1. shipped[d] \in SUBSET Entry /\ ship.hashes[d] \in SUBSET Entry
      BY <1>0 DEF TypeOK, Ship
    <3>2. Past(shipped[d]) \subseteq S
      BY DEF MemoryIn
    <3>. QED
      BY <2>3, <2>5, <3>1, <3>2, PastOfUnion
  <2>7. ASSUME NEW d \in Db PROVE Past(state'.heads[d]) \subseteq S
    BY <2>3, <2>4 DEF MemoryIn
  <2>. QED
    BY <1>0, <2>6, <2>7 DEF MemoryIn
<1>8. CASE RebaseReset
  <2>1. shipped' = shipped
    BY <1>8 DEF RebaseReset
  <2>2. state'.heads = state.heads \/ state'.heads = Nothing
    BY <1>8 DEF RebaseReset, EmptyState
  <2>. QED
    BY <1>0, <2>1, <2>2, PastOfNothing DEF Nothing, MemoryIn
<1>9. ASSUME NEW d \in Db, RebaseWalk(d) PROVE MemoryIn(T)'
  <2>. DEFINE H == rebase.heads
  <2>1. H \in SUBSET Entry
    BY DEF TypeOK, Rebasing
  <2>2. /\ shipped' = [shipped EXCEPT ![d] = IF d \in rebase.visited THEN Past(H) ELSE @]
        /\ state' = [state EXCEPT !.heads[d] = H]
    BY <1>9, NothingUnread DEF RebaseWalk, Past
  <2>3. Past(H) \subseteq T
    BY DEF RebaseIn
  <2>. HIDE DEF H
  <2>4. Past(Past(H)) \subseteq T
    BY <2>1, <2>3, PastOfPast, ReachIsEntries DEF Past
  <2>5. ASSUME NEW c \in Db
        PROVE  /\ shipped'[c] = shipped[c] \/ shipped'[c] = Past(H)
               /\ state'.heads[c] = state.heads[c] \/ state'.heads[c] = H
    BY <1>0, <2>2 DEF State
  <2>. QED
    BY <1>0, <2>3, <2>4, <2>5 DEF MemoryIn
<1>10. ASSUME \/ \E d \in Db : (\E e \in Entry : Update(d, e)) \/ HearUpdate(d) \/ Watch(d)
              \/ Flush \/ Start \/ Stop
              \/ \E base \in 0..MaxRebases : Rebase(base)
              \/ StartTimers \/ TimerFires \/ SettleFires \/ RebaseSave
              \/ \E d \in Db : RebaseHeads(d)
       PROVE  Frame
  BY <1>10 DEF Update, HearUpdate, Watch, Flush, Start, Stop, Rebase, StartTimers,
     TimerFires, SettleFires, RebaseSave, RebaseHeads
<1>11. ASSUME CollectStep PROVE Frame
  BY <1>11 DEF CollectStep, ShipCount, ShipOwn, Collect, ShipNothing, ShipUpload
<1>12. ASSUME PutBlob \/ (\E s \in Status : Pin(s)) \/ \E p \in Call : Save(p)
       PROVE  Frame
  BY <1>12 DEF PutBlob, Pin, Save
<1>13. ASSUME UNCHANGED vars PROVE Frame
  BY <1>13 DEF vars
<1>. HIDE DEF Frame
<1>14. CASE Application
  BY <1>1, <1>4, <1>5, <1>10, <1>14 DEF Application
<1>15. CASE LoadStep
  BY <1>2, <1>3, <1>15 DEF LoadStep
<1>16. CASE RebaseStep
  BY <1>1, <1>8, <1>9, <1>10, <1>16 DEF RebaseStep
<1>17. CASE TimerStep
  <2>1. CASE StartTimers \/ TimerFires \/ SettleFires
    BY <1>1, <1>10, <2>1
  <2>2. ASSUME NEW d \in Db, HearUpdate(d) PROVE MemoryIn(T)'
    BY <1>1, <1>10, <2>2
  <2>. QED
    BY <1>17, <2>1, <2>2 DEF TimerStep
<1>18. CASE Progress
  <2>1. CASE CollectStep
    BY <1>1, <1>11, <2>1
  <2>2. CASE StoreStep
    BY <1>1, <1>7, <1>12, <2>2 DEF StoreStep
  <2>. QED
    BY <1>15, <1>16, <1>17, <1>18, <2>1, <2>2 DEF Progress
<1>19. CASE Failure
  <2>1. ASSUME \/ \E p \in Call : LoadFails(p) \/ SaveFails(p)
               \/ CollectFails \/ PutFails \/ RebaseFails
               \/ \E s \in Status : PinFails(s)
               \/ \E i \in DOMAIN blobs : PinSettles(i)
        PROVE  Frame
    BY <2>1 DEF LoadFails, SaveFails, CollectFails, PutFails, RebaseFails, PinFails,
       PinSettles, Frame
  <2>. QED
    BY <1>1, <1>6, <1>19, <2>1 DEF Failure
<1>. QED
  BY <1>1, <1>13, <1>14, <1>18, <1>19 DEF Next

\* What a restart resumes from stays in it: a save writes a copy of a state that was
\* in it when the copy was taken.
LEMMA StoreStaysIn ==
  ASSUME TypeOK, NEW S, NEW T, S \subseteq T, StoreIn(S), MemoryIn(T)', [Next]_vars
  PROVE  StoreIn(T)'
<1>0. copy \in [Call -> State] /\ {"ship", "rebase"} \subseteq Call
  BY DEF TypeOK, Call
<1>. DEFINE Frame == saved' = saved /\ copy' = copy
<1>1. ASSUME Frame PROVE StoreIn(T)'
  BY <1>0, <1>1 DEF StoreIn
<1>2. ASSUME NEW p \in Call, copy' = [copy EXCEPT ![p] = EmptyState],
             saved' \subseteq saved \cup {copy[p]}
      PROVE  StoreIn(T)'
  BY <1>0, <1>2, PastOfNothing DEF EmptyState, Nothing, StoreIn
<1>3. ASSUME NEW p \in Call, Save(p) PROVE StoreIn(T)'
  BY <1>2, <1>3 DEF Save, EndSave
<1>4. ASSUME NEW p \in Call, SaveFails(p) PROVE StoreIn(T)'
  BY <1>2, <1>4 DEF SaveFails, EndSave, remote
<1>5. ASSUME NEW p \in Call, copy' = [copy EXCEPT ![p] = state'], saved' = saved
      PROVE  StoreIn(T)'
  BY <1>0, <1>5 DEF MemoryIn, StoreIn
<1>6. CASE Move
  BY <1>0, <1>5, <1>6 DEF Move, remote
<1>7. CASE RebaseSave
  BY <1>0, <1>5, <1>7 DEF RebaseSave, remote, memory
<1>8. CASE Crash
  BY <1>0, <1>8, PastOfNothing
     DEF Crash, NoCopy, EmptyState, Nothing, remote, StoreIn
<1>. USE DEF remote, locals
<1>9. ASSUME LoadStep \/ CollectStep \/ TimerStep \/ Application PROVE Frame
  BY <1>9 DEF LoadStep, LoadAnswer, LoadWalk, CollectStep, ShipCount, ShipOwn, Collect,
     ShipNothing, ShipUpload, TimerStep, StartTimers, TimerFires, SettleFires, HearUpdate,
     Application, Update, Watch, Unwatch, Flush, Start, Stop, Close, Rebase
<1>10. ASSUME \/ PutBlob \/ (\E s \in Status : Pin(s)) \/ RebaseReset
              \/ \E d \in Db : RebaseHeads(d) \/ RebaseWalk(d)
       PROVE  Frame
  BY <1>10 DEF PutBlob, Pin, RebaseReset, RebaseHeads, RebaseWalk
<1>11. ASSUME \/ \E p \in Call : LoadFails(p)
              \/ CollectFails \/ PutFails \/ RebaseFails
              \/ \E s \in Status : PinFails(s)
              \/ \E i \in DOMAIN blobs : PinSettles(i)
       PROVE  Frame
  BY <1>11 DEF LoadFails, CollectFails, PutFails, RebaseFails, PinFails, PinSettles
<1>12. ASSUME UNCHANGED vars PROVE Frame
  BY <1>12 DEF vars
<1>. HIDE DEF Frame
<1>13. CASE Progress
  BY <1>1, <1>3, <1>6, <1>7, <1>9, <1>10, <1>13 DEF Progress, StoreStep, RebaseStep
<1>14. CASE Failure
  BY <1>1, <1>4, <1>8, <1>11, <1>14 DEF Failure
<1>. QED
  BY <1>1, <1>9, <1>12, <1>13, <1>14 DEF Next

\* The inductive invariant is kept.
LEMMA StaysCovered ==
  ASSUME Trustworthy, Covered, [Next]_vars PROVE Covered'
<1>. PICK S, T : S = Safe /\ T = Safe'
  OBVIOUS
<1>1. "read" \notin Faults /\ S \subseteq T
  BY SafeGrows DEF Covered, Trustworthy
<1>2. MemoryIn(S) /\ StoreIn(S) /\ ShipIn(S) /\ RebaseIn(S)
  BY DEF Covered, MemoryIn, StoreIn, ShipIn, RebaseIn
<1>3. pc["ship"] = "move" => ship.carry \subseteq S
  BY DEF Covered, UploadInFlight, Kept, Safe, Stored
<1>4. declared' \subseteq T
  BY DEF Safe
<1>5. ShipIn(T)' /\ MemoryIn(T)' /\ RebaseIn(T)'
  BY <1>1, <1>2, <1>3, <1>4, ShipStaysIn, MemoryStaysIn, RebaseStaysIn DEF Covered
<1>6. StoreIn(T)'
  BY <1>1, <1>2, <1>5, StoreStaysIn DEF Covered
<1>7. (MemoryIn(Safe) /\ StoreIn(Safe) /\ ShipIn(Safe) /\ RebaseIn(Safe))'
  BY <1>5, <1>6 DEF MemoryIn, StoreIn, ShipIn, RebaseIn
<1>. QED
  BY <1>7, TypeStep, UploadStaysInFlight DEF Covered

\* The inductive invariant, for a watcher whose backend can be trusted.
THEOREM Covering == ASSUME Trustworthy PROVE Spec => []Covered
<1>1. Init => Covered
  <2>. SUFFICES ASSUME Init, TypeOK PROVE Covered
    BY TypeCorrectInit
  <2>1. MemoryIn(Safe) /\ StoreIn(Safe) /\ ShipIn(Safe) /\ RebaseIn(Safe)
    BY PastOfNothing DEF Init, MemoryIn, StoreIn, ShipIn, RebaseIn, Nothing,
       EmptyState, NoCopy, NoShip, NoRebase
  <2>2. UploadInFlight
    BY DEF Init, Idle, Call, UploadInFlight
  <2>. QED
    BY <2>1, <2>2 DEF Covered
<1>2. Covered /\ [Next]_vars => Covered'
  BY StaysCovered
<1>. QED
  BY <1>1, <1>2, PTL DEF Spec

\* An entry counts as shipped only when it, and everything behind it, can be had
\* back, whatever fails and whenever the process ends.
THEOREM ShippedEntriesAreStored == ASSUME Trustworthy PROVE Spec => []ShippedIsStored
<1>1. Covered => ShippedIsStored
  BY DEF Covered, MemoryIn, ShippedIsStored
<1>. QED
  BY <1>1, Covering, PTL

\* A restart resumes from a state all of which can be had back.
THEOREM PersistedStateIsStored == ASSUME Trustworthy PROVE Spec => []PersistedIsStored
<1>1. Covered => PersistedIsStored
  BY DEF Covered, StoreIn, PersistedIsStored
<1>. QED
  BY <1>1, Covering, PTL

-----------------------------------------------------------------------------
(* createLiveBackup() implements BackupPromise.                             *)

Written == UNION {log[d] : d \in Db}

\* What is carried, uploaded or declared was written: nothing is archived that
\* no database has, and each log holds everything behind its entries.
Grounded ==
  /\ \A d \in Db : \A x \in log[d] : next[x] \subseteq log[d]
  /\ ship.carry \subseteq Written
  /\ \A i \in DOMAIN blobs : blobs[i].entries \subseteq Written
  /\ declared \subseteq Written

\* A log holds everything behind its heads.
LEMMA PastIsWritten ==
  ASSUME TypeOK, Grounded, NEW d \in Db PROVE Past(Heads(log[d])) \subseteq log[d]
BY PastIsLeast DEF TypeOK, Grounded, Heads

\* Every step but an update leaves the logs.
LEMMA LogFrame ==
  ASSUME [Next]_vars
  PROVE  log' = log \/ \E d \in Db, e \in Entry : Update(d, e)
<1>. USE DEF orbit
<1>1. ASSUME LoadStep \/ CollectStep \/ TimerStep PROVE log' = log
  BY <1>1 DEF LoadStep, LoadAnswer, LoadWalk, CollectStep, ShipCount, ShipOwn, Collect,
     ShipNothing, ShipUpload, TimerStep, StartTimers, TimerFires, SettleFires, HearUpdate
<1>2. ASSUME StoreStep \/ RebaseStep \/ Failure PROVE log' = log
  BY <1>2 DEF StoreStep, PutBlob, Pin, Move, Save, RebaseStep, RebaseReset, RebaseHeads,
     RebaseWalk,
     RebaseSave, Failure, LoadFails, SaveFails, CollectFails, PutFails, RebaseFails,
     PinFails, PinSettles, Crash
<1>3. ASSUME Application PROVE log' = log \/ \E d \in Db, e \in Entry : Update(d, e)
  BY <1>3 DEF Application, Watch, Unwatch, Flush, Start, Stop, Close, Rebase
<1>4. ASSUME UNCHANGED vars PROVE log' = log
  BY <1>4 DEF vars
<1>. QED
  BY <1>1, <1>2, <1>3, <1>4 DEF Next, Progress

\* A step changes one part of what BackupPromise speaks of.
LEMMA PromiseFrame ==
  ASSUME [Next]_vars
  PROVE  \/ UNCHANGED <<blobs, declared, shipped, saved>>
         \/ UNCHANGED <<log, declared, shipped, saved>>
         \/ UNCHANGED <<log, blobs, declared, saved>>
         \/ UNCHANGED <<log, blobs, declared, shipped>>
         \/ (\E d \in Db : RebaseHeads(d)) /\ UNCHANGED <<log, blobs, shipped, saved>>
<1>. USE DEF orbit, remote, memory, bounds
<1>1. ASSUME LoadStep \/ CollectStep \/ TimerStep
      PROVE  UNCHANGED <<log, blobs, declared, saved>>
  BY <1>1 DEF LoadStep, LoadAnswer, LoadWalk, CollectStep, ShipCount, ShipOwn, Collect,
     ShipNothing, ShipUpload, TimerStep, StartTimers, TimerFires, SettleFires, HearUpdate
<1>2. ASSUME \/ PutBlob \/ CollectFails \/ PutFails \/ RebaseFails
             \/ \E s \in Status : Pin(s) \/ PinFails(s)
             \/ \E i \in DOMAIN blobs : PinSettles(i)
      PROVE  UNCHANGED <<log, declared, shipped, saved>>
  BY <1>2 DEF PutBlob, CollectFails, PutFails, RebaseFails, Pin, PinFails, PinSettles
<1>3. ASSUME NEW p \in Call, Save(p) \/ SaveFails(p) \/ LoadFails(p)
      PROVE  UNCHANGED <<log, blobs, declared, shipped>>
  BY <1>3 DEF Save, SaveFails, LoadFails
<1>4. ASSUME \/ Move \/ Crash \/ RebaseReset \/ RebaseSave
             \/ \E d \in Db : RebaseWalk(d)
      PROVE  UNCHANGED <<log, blobs, declared, saved>>
  BY <1>4 DEF Move, Crash, RebaseReset, RebaseSave, RebaseWalk
<1>5. ASSUME NEW d \in Db, RebaseHeads(d) PROVE UNCHANGED <<log, blobs, shipped, saved>>
  BY <1>5 DEF RebaseHeads
<1>6. ASSUME NEW d \in Db, NEW e \in Entry, Update(d, e)
      PROVE  UNCHANGED <<blobs, declared, shipped, saved>>
  BY <1>6 DEF Update
<1>7. ASSUME \/ \E d \in Db : Watch(d) \/ Unwatch(d)
             \/ Flush \/ Start \/ Stop \/ Close
             \/ \E base \in 0..MaxRebases : Rebase(base)
      PROVE  UNCHANGED <<log, blobs, declared, saved>>
  BY <1>7 DEF Watch, Unwatch, Flush, Start, Stop, Close, Rebase
<1>8. CASE UNCHANGED vars
  BY <1>8 DEF vars
<1>9. CASE Progress
  <2>1. CASE LoadStep \/ CollectStep \/ TimerStep
    BY <1>1, <2>1
  <2>2. CASE StoreStep
    BY <1>2, <1>3, <1>4, <2>2 DEF StoreStep
  <2>3. CASE RebaseStep
    BY <1>4, <1>5, <2>3 DEF RebaseStep
  <2>. QED
    BY <1>9, <2>1, <2>2, <2>3 DEF Progress
<1>10. CASE Failure
  BY <1>2, <1>3, <1>4, <1>10 DEF Failure
<1>11. CASE Application
  BY <1>6, <1>7, <1>11 DEF Application
<1>. QED
  BY <1>8, <1>9, <1>10, <1>11 DEF Next

\* The logs only grow, and keep what is behind their entries.
LEMMA LogsGrow ==
  ASSUME TypeOK, Grounded, [Next]_vars
  PROVE  /\ Written \subseteq Written'
         /\ \A d \in Db : \A x \in log'[d] : next[x] \subseteq log'[d]
<1>1. CASE log' = log
  BY <1>1 DEF Written, Grounded
<1>2. ASSUME NEW d \in Db, NEW e \in Entry, Update(d, e)
      PROVE  /\ Written \subseteq Written'
             /\ \A c \in Db : \A x \in log'[c] : next[x] \subseteq log'[c]
  <2>1. log' = [log EXCEPT ![d] = log[d] \cup Past({e})]
    BY <1>2 DEF Update
  <2>2. \A x \in Past({e}) : next[x] \subseteq Past({e})
    BY PastIsClosed
  <2>3. ASSUME NEW c \in Db
        PROVE  /\ log[c] \subseteq log'[c]
               /\ log'[c] = log[c] \/ log'[c] = log[c] \cup Past({e})
    BY <2>1 DEF TypeOK
  <2>4. Written \subseteq Written'
    BY <2>3 DEF Written
  <2>5. ASSUME NEW c \in Db, NEW x \in log'[c] PROVE next[x] \subseteq log'[c]
    BY <2>2, <2>3 DEF Grounded
  <2>. QED
    BY <2>4, <2>5
<1>. QED
  BY <1>1, <1>2, LogFrame

\* Grounded is kept.
LEMMA StaysGrounded ==
  ASSUME Trustworthy, TypeOK, Grounded, [Next]_vars PROVE Grounded'
<1>1. Written \subseteq Written' /\ \A d \in Db : \A x \in log'[d] : next[x] \subseteq log'[d]
  BY LogsGrow
<1>2. ship'.carry \subseteq Written'
  <2>1. CASE ship'.carry = ship.carry
    BY <1>1, <2>1 DEF Grounded
  <2>2. CASE ship' = NoShip
    BY <2>2 DEF NoShip
  <2>3. ASSUME NEW d \in Db, Collect(d) PROVE ship'.carry \subseteq Written'
    <3>. DEFINE new == Walk(Heads(log[d]), shipped[d], {})
    <3>1. new \subseteq Written
      <4>1. Heads(log[d]) \in SUBSET Entry
        BY DEF TypeOK, Heads
      <4>2. new \subseteq Past(Heads(log[d]))
        BY <4>1, WalkInPast
      <4>. QED
        BY <4>2, PastIsWritten DEF Written
    <3>2. ship'.carry = ship.carry \cup (new \ {})
      BY <2>3, NothingUnread DEF Collect, TypeOK, Ship, Trustworthy
    <3>. QED
      BY <1>1, <3>1, <3>2 DEF Grounded
  <2>. QED
    BY <2>1, <2>2, <2>3, ShipFrame
<1>3. \A i \in DOMAIN blobs' : blobs'[i].entries \subseteq Written'
  <2>1. \A i \in DOMAIN blobs : blobs[i].entries \subseteq Written'
    BY <1>1 DEF Grounded
  <2>2. CASE UNCHANGED blobs
    BY <2>1, <2>2
  <2>3. CASE blobs' = Append(blobs, Increment)
    <3>1. Increment.entries \subseteq Written'
      BY <1>1 DEF Increment, Grounded
    <3>2. /\ DOMAIN blobs' = 1..(Len(blobs) + 1) /\ blobs'[Len(blobs) + 1] = Increment
          /\ \A i \in 1..Len(blobs) : blobs'[i] = blobs[i]
      BY <2>3, IncrementType DEF TypeOK
    <3>3. DOMAIN blobs = 1..Len(blobs) /\ Len(blobs) \in Nat
      BY DEF TypeOK
    <3>. QED
      BY <2>1, <3>1, <3>2, <3>3
  <2>4. ASSUME NEW j, NEW s, blobs' = [blobs EXCEPT ![j].status = s]
        PROVE  \A i \in DOMAIN blobs' : blobs'[i].entries \subseteq Written'
    <3>1. DOMAIN blobs' = DOMAIN blobs
      BY <2>4
    <3>2. ASSUME NEW i \in DOMAIN blobs PROVE blobs'[i].entries = blobs[i].entries
      <4>1. blobs[i] \in Blob
        BY DEF TypeOK
      <4>2. blobs'[i] = IF i = j THEN [blobs[i] EXCEPT !.status = s] ELSE blobs[i]
        BY <2>4
      <4>. QED
        BY <4>1, <4>2 DEF Blob
    <3>. QED
      BY <2>1, <3>1, <3>2
  <2>5. \/ UNCHANGED blobs
        \/ blobs' = Append(blobs, Increment)
        \/ \E i, s : blobs' = [blobs EXCEPT ![i].status = s]
    <3>. USE DEF remote
    <3>1. CASE UNCHANGED blobs
      BY <3>1
    <3>2. CASE PutBlob \/ PutFails
      BY <3>2 DEF PutBlob, PutFails
    <3>3. CASE \E s \in Status : Pin(s) \/ PinFails(s)
      BY <3>3 DEF Pin, PinFails
    <3>4. CASE \E i \in DOMAIN blobs : PinSettles(i)
      BY <3>4 DEF PinSettles
    <3>. QED
      BY <3>1, <3>2, <3>3, <3>4, BlobFrame
  <2>. QED
    BY <2>2, <2>3, <2>4, <2>5
<1>4. declared' \subseteq Written'
  <2>1. CASE UNCHANGED declared
    BY <1>1, <2>1 DEF Grounded
  <2>2. ASSUME NEW d \in Db, RebaseHeads(d) PROVE declared' \subseteq Written'
    <3>1. declared' = declared \cup Past(Heads(log[d]))
      BY <2>2 DEF RebaseHeads
    <3>. QED
      BY <1>1, <3>1, PastIsWritten DEF Grounded, Written
  <2>. QED
    BY <2>1, <2>2, PromiseFrame
<1>. QED
  BY <1>1, <1>2, <1>3, <1>4 DEF Grounded

\* The invariant of the refinement.
LEMMA Grounding == ASSUME Trustworthy PROVE Spec => []Grounded
<1>1. Init => Grounded
  BY DEF Init, Grounded, Nothing, NoShip
<1>2. TypeOK /\ Grounded /\ [Next]_vars => Grounded'
  BY StaysGrounded
<1>. QED
  BY <1>1, <1>2, TypeCorrect, PTL DEF Spec

\* Every step, as a step of BackupPromise.
LEMMA PromiseStep ==
  ASSUME Covered, Covered', Grounded, Grounded', [Next]_vars PROVE Promise!Next
<1>. DEFINE counted == UNION {Past(shipped[d]) : d \in Db}
            resumed == UNION {Past(s.heads[d]) : d \in Db, s \in saved}
<1>1. /\ Written \in SUBSET Entry /\ Written' \in SUBSET Entry
      /\ Written \subseteq Written'
  <2>1. Written \in SUBSET Entry /\ Written' \in SUBSET Entry
    BY DEF Covered, TypeOK, Written
  <2>2. Written \subseteq Written'
    BY LogsGrow DEF Covered
  <2>. QED
    BY <2>1, <2>2
<1>2. Safe \subseteq Safe' /\ Safe' \subseteq Written'
  BY SafeGrows DEF Covered, Grounded, Safe, Stored, Kept
<1>3. counted' \subseteq Safe'
  BY DEF Covered, MemoryIn
<1>4. resumed' \subseteq Safe'
  BY DEF Covered, StoreIn
<1>5. CASE UNCHANGED <<blobs, declared, shipped, saved>>
  <2>1. Promise!Write
    BY <1>1, <1>5 DEF Promise!Write, Safe, Stored, Kept, Written
  <2>. QED
    BY <2>1 DEF Promise!Next
<1>6. CASE UNCHANGED <<log, declared, shipped, saved>>
  <2>1. Promise!Archive
    BY <1>2, <1>6 DEF Promise!Archive, Written
  <2>. QED
    BY <2>1 DEF Promise!Next
<1>7. CASE UNCHANGED <<log, blobs, declared, saved>>
  <2>1. Promise!Count
    BY <1>3, <1>7 DEF Promise!Count, Safe, Stored, Kept
  <2>. QED
    BY <2>1 DEF Promise!Next
<1>8. CASE UNCHANGED <<log, blobs, declared, shipped>>
  <2>1. Promise!Save
    BY <1>4, <1>8 DEF Promise!Save, Safe, Stored, Kept
  <2>. QED
    BY <2>1 DEF Promise!Next
<1>9. CASE UNCHANGED <<log, blobs, shipped, saved>>
  <2>1. Promise!Archive
    BY <1>2, <1>9 DEF Promise!Archive, Written
  <2>. QED
    BY <2>1 DEF Promise!Next
<1>. QED
  BY <1>5, <1>6, <1>7, <1>8, <1>9, PromiseFrame

\* Step by step, createLiveBackup() archives what was written before it counts it,
\* and only then makes it what a restart resumes from.
THEOREM ImplementsPromise == ASSUME Trustworthy PROVE Spec => KeepsPromise
<1>1. Init => Promise!Init
  BY PastOfNothing DEF Init, Promise!Init, Safe, Stored, Kept, Nothing
<1>2. Covered /\ Covered' /\ Grounded /\ Grounded' /\ [Next]_vars => Promise!Next
  BY PromiseStep
<1>. QED
  BY <1>1, <1>2, Covering, Grounding, PTL DEF Spec, KeepsPromise, Promise!Spec

-----------------------------------------------------------------------------
(* Where the calls can be.                                                  *)

Before == {"idle", "load", "walk"}
Flight == {"collect", "upload", "pin", "move"}

\* load() is awaited once: who waits for it finds nothing loaded, who is past it
\* finds it loaded, and until then the closure is as createLiveBackup() made it.
\* start() awaits nothing else.
LoadedOnce ==
  /\ pc["start"] \in Before
  /\ \A p \in Call : pc[p] = "load" => ~loaded
  /\ \A p \in Call : pc[p] \in {"walk", "own", "save", "rewalk", "reach"} \cup Flight => loaded
  /\ ~loaded => shipped = Nothing /\ state = EmptyState

\* rebase() resets the state before a flush has captured anything of it, or it
\* waits for the flush; a flush in flight has the state's number, base and link.
InOrder ==
  /\ pc["rebase"] \in {"load", "walk"} => pc["ship"] \in Before
  /\ pc["ship"] \in Flight =>
       /\ ship.sequence = state.sequence + 1
       /\ ship.base = state.base /\ ship.previous = state.previous

\* That is so until a flush overtakes a rebase() that waits.
Ordered ==
  /\ rebase.behind => overtaken
  /\ ~overtaken => InOrder

\* A flush that has not captured the state carries nothing.
Blank ==
  pc["ship"] \in Before \cup {"own"} =>
    ship.heads = Nothing /\ ship.hashes = Nothing /\ ship.carry = {}

\* The upload of the flush in flight is the increment it describes.
Uploading ==
  LET b == blobs[ship.blob] IN
  /\ pc["ship"] \in {"pin", "move"} =>
       /\ ship.blob \in DOMAIN blobs
       /\ b.sequence = ship.sequence /\ b.base = ship.base /\ b.previous = ship.previous
       /\ b.entries = ship.carry /\ b.heads = UNION {ship.heads[d] : d \in Db}
  /\ pc["ship"] = "pin" => b.status = "loose" /\ ~Retains /\ Keep
  /\ pc["ship"] = "move" => (b.status = "kept" \/ ~(Retains \/ (Keep /\ Confirm)))

Control == LoadedOnce /\ Ordered /\ Blank /\ Uploading


\* LoadedOnce is kept.
LEMMA StaysLoadedOnce ==
  ASSUME TypeOK, LoadedOnce, [Next]_vars PROVE LoadedOnce'
<1>. USE DEF memory, locals
<1>0. /\ pc \in [Call -> PC] /\ pc' \in [Call -> PC] /\ Call = {"ship", "start", "rebase"}
      /\ shipped \in [Db -> SUBSET Entry]
  BY TypeStep DEF TypeOK, Call
<1>. DEFINE Moves ==
              /\ pc'["start"] \in Before \cup {pc["start"]}
              /\ \A p \in Call :
                   \/ pc'[p] = pc[p]
                   \/ pc'[p] \in {"idle", "wait"}
                   \/ pc'[p] = IF loaded THEN "walk" ELSE "load"
                   \/ /\ pc[p] \in {"walk", "own", "save", "rewalk", "reach"} \cup Flight
                      /\ pc'[p] # "load"
            Same == loaded' = loaded
            Bare == \/ shipped' = shipped /\ state' = state
                    \/ loaded
                    \/ shipped' = Nothing /\ state' = EmptyState
<1>1. ASSUME Moves, Same, Bare PROVE LoadedOnce'
  BY <1>0, <1>1 DEF LoadedOnce, Flight, Before
<1>2. CASE LoadAnswer
  BY <1>0, <1>2 DEF LoadAnswer, LoadedOnce, Flight, Before
<1>3. CASE Crash
  BY <1>0, <1>3 DEF Crash, Idle, LoadedOnce, Flight, Before
<1>4. ASSUME NEW p \in Call, NEW d \in Db, LoadWalk(p, d) PROVE LoadedOnce'
  <2>1. Moves /\ Same
    BY <1>0, <1>4 DEF LoadWalk
  <2>2. loaded
    BY <1>4 DEF LoadWalk, At, LoadedOnce
  <2>. QED
    BY <1>1, <2>1, <2>2
<1>5. ASSUME NEW p \in Call, LoadFails(p) \/ Save(p) \/ SaveFails(p) PROVE LoadedOnce'
  <2>1. Moves /\ Same /\ Bare
    BY <1>0, <1>5 DEF LoadFails, Save, SaveFails, EndSave, EndFlush, Loading, Before
  <2>. QED
    BY <1>1, <2>1
<1>6. CASE CollectStep
  <2>1. Moves /\ Same /\ Bare
    BY <1>0, <1>6 DEF CollectStep, ShipCount, ShipOwn, Loaded, At, Capture, Collect,
       Collected,
       ShipNothing, EndFlush, Loading, ShipUpload, Flight
  <2>. QED
    BY <1>1, <2>1
<1>7. ASSUME \/ PutBlob \/ (\E s \in Status : Pin(s))
             \/ CollectFails \/ PutFails \/ RebaseFails
             \/ (\E s \in Status : PinFails(s)) \/ \E i \in DOMAIN blobs : PinSettles(i)
      PROVE  LoadedOnce'
  <2>1. Moves /\ Same /\ Bare
    BY <1>0, <1>7 DEF PutBlob, Pin, At, CollectFails, PutFails, RebaseFails, PinFails,
       PinSettles, EndFlush, Loading, Flight
  <2>. QED
    BY <1>1, <2>1
<1>8. CASE Move
  <2>1. Moves /\ Same
    BY <1>0, <1>8 DEF Move, At, Flight
  <2>2. loaded
    BY <1>0, <1>8 DEF Move, At, Flight, LoadedOnce
  <2>. QED
    BY <1>1, <2>1, <2>2
<1>9. CASE RebaseStep
  <2>1. Moves /\ Same
    BY <1>0, <1>9 DEF RebaseStep, RebaseReset, RebaseHeads, RebaseWalk, RebaseSave,
       Loaded, At
  <2>2. loaded
    BY <1>0, <1>9 DEF RebaseStep, RebaseReset, RebaseHeads, RebaseWalk, RebaseSave,
       Loaded, At, LoadedOnce
  <2>. QED
    BY <1>1, <2>1, <2>2
<1>10. CASE TimerStep
  <2>1. Moves /\ Same /\ Bare
    BY <1>0, <1>10 DEF TimerStep, StartTimers, Loaded, TimerFires, SettleFires, HearUpdate,
       RequestFlush, Loading, Before
  <2>. QED
    BY <1>1, <2>1
<1>11. ASSUME NEW d \in Db, Unwatch(d) PROVE LoadedOnce'
  <2>1. Moves /\ Same /\ state' = state /\ shipped' = [shipped EXCEPT ![d] = {}]
    BY <1>0, <1>11 DEF Unwatch
  <2>2. ~loaded => shipped' = Nothing
    BY <2>1 DEF LoadedOnce, Nothing
  <2>. QED
    BY <1>0, <2>1, <2>2 DEF LoadedOnce, Flight, Before
<1>12. CASE Close
  BY <1>0, <1>12 DEF Close, LoadedOnce
<1>13. ASSUME \/ \E d \in Db : (\E e \in Entry : Update(d, e)) \/ Watch(d)
              \/ Flush \/ Start \/ Stop
              \/ \E base \in 0..MaxRebases : Rebase(base)
       PROVE  LoadedOnce'
  <2>1. Moves /\ Same /\ Bare
    BY <1>0, <1>13 DEF Update, Watch, Flush, RequestFlush, Start, Stop, Rebase, Loading,
       Before
  <2>. QED
    BY <1>1, <2>1
<1>14. CASE UNCHANGED vars
  BY <1>14 DEF vars, LoadedOnce
<1>. HIDE DEF Moves, Same, Bare
<1>15. CASE Progress
  BY <1>2, <1>4, <1>5, <1>6, <1>7, <1>8, <1>9, <1>10, <1>15
     DEF Progress, LoadStep, StoreStep
<1>16. CASE Failure
  BY <1>3, <1>5, <1>7, <1>16 DEF Failure
<1>17. CASE Application
  BY <1>11, <1>12, <1>13, <1>17 DEF Application
<1>. QED
  BY <1>14, <1>15, <1>16, <1>17 DEF Next

\* The places of the flush and of rebase(), and what the flush captured, change in
\* few ways.
LEMMA StaysInOrder ==
  ASSUME TypeOK, LoadedOnce, InOrder, ~rebase.behind, [Next]_vars PROVE InOrder'
<1>. USE DEF memory, locals
<1>0. /\ pc \in [Call -> PC] /\ pc' \in [Call -> PC] /\ Call = {"ship", "start", "rebase"}
      /\ ship \in Ship /\ ship' \in Ship /\ state \in State
  BY TypeStep DEF TypeOK, Call
<1>. DEFINE Still == /\ state'.sequence = state.sequence /\ state'.base = state.base
                     /\ state'.previous = state.previous
                     /\ ship'.sequence = ship.sequence /\ ship'.base = ship.base
                     /\ ship'.previous = ship.previous
            Stay  == /\ pc'["rebase"] \in {"load", "walk"} => pc["rebase"] \in {"load", "walk"}
                     /\ pc'["ship"] \in Before \/ pc["ship"] \notin Before
                     /\ pc'["ship"] \in Flight => pc["ship"] \in Flight
            Home  == pc'["ship"] \in Before
<1>1. ASSUME Still, Stay PROVE InOrder'
  BY <1>1 DEF InOrder
<1>2. ASSUME Home PROVE InOrder'
  BY <1>2 DEF InOrder, Before, Flight
<1>3. CASE LoadAnswer
  <2>1. PICK p \in Call : pc[p] = "load"
    BY <1>3 DEF LoadAnswer, At
  <2>2. ~loaded
    BY <2>1 DEF LoadedOnce
  <2>3. pc["ship"] \notin {"walk", "own", "save"} \cup Flight
    BY <1>0, <2>2 DEF LoadedOnce
  <2>. QED
    BY <1>0, <1>3, <2>2, <2>3 DEF LoadAnswer, InOrder, Before, Flight
<1>4. ASSUME NEW p \in Call, NEW d \in Db, LoadWalk(p, d) PROVE InOrder'
  BY <1>1, <1>4 DEF LoadWalk
<1>5. ASSUME NEW p \in Call, LoadFails(p) PROVE InOrder'
  <2>1. CASE p = "ship"
    BY <1>0, <1>2, <1>5, <2>1 DEF LoadFails, EndFlush, Loading, Before
  <2>2. CASE p # "ship"
    BY <1>0, <1>1, <1>5, <2>2 DEF LoadFails, Before, Flight
  <2>. QED
    BY <2>1, <2>2
<1>6. ASSUME NEW p \in Call, Save(p) \/ SaveFails(p) PROVE InOrder'
  <2>1. CASE p = "ship"
    BY <1>0, <1>2, <1>6, <2>1 DEF Save, SaveFails, EndSave, EndFlush, Loading, Before
  <2>2. CASE p # "ship"
    BY <1>0, <1>1, <1>6, <2>2 DEF Save, SaveFails, EndSave, Before, Flight
  <2>. QED
    BY <2>1, <2>2
<1>7. CASE ShipCount
  <2>1. pc["ship"] = "walk" /\ watched \subseteq walked /\ loaded
    BY <1>0, <1>7 DEF ShipCount, Loaded, LoadedOnce
  <2>2. pc["rebase"] \notin {"load", "walk"}
    BY <1>0, <1>7, <2>1 DEF ShipCount, Loaded, LoadedOnce
  <2>3. pc'["rebase"] = pc["rebase"] /\ state' = state
    BY <1>0, <1>7 DEF ShipCount, Capture
  <2>4. CASE OwnBlocks
    BY <1>0, <1>7, <2>2, <2>3, <2>4 DEF ShipCount, InOrder, Flight
  <2>5. CASE ~OwnBlocks
    <3>1. Capture(FALSE)
      BY <1>7, <2>5 DEF ShipCount
    <3>2. /\ ship'.sequence = state.sequence + 1 /\ ship'.base = state.base
          /\ ship'.previous = state.previous
      BY <1>0, <3>1 DEF Capture, Ship
    <3>. QED
      BY <2>2, <2>3, <3>2 DEF InOrder
  <2>. QED
    BY <2>4, <2>5
<1>8. CASE ShipOwn
  <2>1. pc["rebase"] \notin {"load", "walk"}
    BY <1>8 DEF ShipOwn, At, InOrder, Before
  <2>. QED
    BY <1>0, <1>8, <2>1 DEF ShipOwn, Capture, InOrder, Ship
<1>9. ASSUME NEW d \in Db, Collect(d) PROVE InOrder'
  BY <1>0, <1>1, <1>9 DEF Collect, Ship
<1>10. ASSUME \/ ShipNothing \/ CollectFails \/ PutFails
              \/ (\E s \in Status : PinFails(s))
       PROVE  InOrder'
  BY <1>0, <1>2, <1>10 DEF ShipNothing, CollectFails, PutFails, PinFails, EndFlush,
     Loading, Before
<1>11. ASSUME ShipUpload \/ PutBlob \/ \E s \in Status : Pin(s) PROVE InOrder'
  <2>1. Still /\ Stay
    BY <1>0, <1>11 DEF ShipUpload, Collected, PutBlob, Pin, At, Ship, Before, Flight
  <2>. QED
    BY <1>1, <2>1
<1>12. CASE Move
  <2>1. pc' = [pc EXCEPT !["ship"] = "save"] /\ pc["ship"] = "move"
    BY <1>12 DEF Move, At
  <2>. QED
    BY <1>0, <2>1 DEF InOrder, Before, Flight
<1>13. CASE RebaseReset
  <2>1. pc["ship"] \in Before /\ pc'["ship"] = pc["ship"]
    BY <1>0, <1>13 DEF RebaseReset, Loaded, InOrder
  <2>. QED
    BY <1>2, <2>1
<1>14. ASSUME (\E d \in Db : RebaseHeads(d) \/ RebaseWalk(d)) \/ RebaseSave \/ RebaseFails
       PROVE  InOrder'
  <2>1. Still /\ Stay
    BY <1>0, <1>14 DEF RebaseHeads, RebaseWalk, RebaseSave, RebaseFails, State, At
  <2>. QED
    BY <1>1, <2>1
<1>15. CASE TimerStep \/ Flush
  <2>1. Still /\ (Stay \/ Home)
    BY <1>0, <1>15 DEF TimerStep, StartTimers, TimerFires, SettleFires, HearUpdate, Flush,
       RequestFlush, Loading, Before, Flight
  <2>. QED
    BY <1>1, <1>2, <2>1
<1>16. ASSUME \E d \in Db : (\E e \in Entry : Update(d, e)) \/ Watch(d) \/ Unwatch(d)
       PROVE  InOrder'
  <2>1. Still /\ Stay
    BY <1>0, <1>16 DEF Update, Watch, Unwatch, Ship
  <2>. QED
    BY <1>1, <2>1
<1>17. ASSUME Start \/ Stop \/ Close PROVE InOrder'
  <2>1. Still /\ Stay
    BY <1>0, <1>17 DEF Start, Stop, Close, Ship, Loading
  <2>. QED
    BY <1>1, <2>1
<1>18. ASSUME NEW base \in 0..MaxRebases, Rebase(base) PROVE InOrder'
  <2>1. CASE pc["ship"] = "idle"
    BY <1>0, <1>2, <1>18, <2>1 DEF Rebase, Before
  <2>2. CASE pc["ship"] # "idle"
    BY <1>0, <1>1, <1>18, <2>2 DEF Rebase
  <2>. QED
    BY <2>1, <2>2
<1>19. CASE Crash
  BY <1>2, <1>19 DEF Crash, Idle, Call, Before
<1>20. ASSUME NEW i \in DOMAIN blobs, PinSettles(i) PROVE InOrder'
  BY <1>1, <1>20 DEF PinSettles
<1>21. CASE UNCHANGED vars
  BY <1>1, <1>21 DEF vars
<1>. HIDE DEF Still, Stay, Home
<1>22. CASE Progress
  BY <1>3, <1>4, <1>6, <1>7, <1>8, <1>9, <1>10, <1>11, <1>12, <1>13, <1>14, <1>15, <1>22
     DEF Progress, LoadStep, CollectStep, StoreStep, RebaseStep
<1>23. CASE Failure
  BY <1>5, <1>6, <1>10, <1>14, <1>19, <1>20, <1>23 DEF Failure
<1>24. CASE Application
  BY <1>15, <1>16, <1>17, <1>18, <1>24 DEF Application
<1>. QED
  BY <1>21, <1>22, <1>23, <1>24 DEF Next

\* A flush overtakes a rebase() as the one before it ends, and that stays known.
LEMMA OvertakenStays ==
  ASSUME TypeOK, [Next]_vars
  PROVE  /\ overtaken => overtaken'
         /\ rebase'.behind => rebase.behind \/ overtaken'
<1>. USE DEF locals, bounds
<1>0. rebase \in Rebasing /\ overtaken \in BOOLEAN
  BY DEF TypeOK
<1>. DEFINE Same == overtaken' = overtaken /\ rebase'.behind = rebase.behind
            Goal == /\ overtaken => overtaken'
                    /\ rebase'.behind => rebase.behind \/ overtaken'
<1>1. ASSUME Same PROVE Goal
  BY <1>1
<1>2. ASSUME EndFlush PROVE Goal
  BY <1>2 DEF EndFlush
<1>3. ASSUME overtaken' = overtaken, ~rebase'.behind PROVE Goal
  BY <1>3
<1>4. ASSUME NEW p \in Call, Save(p) \/ SaveFails(p) \/ LoadFails(p) PROVE Goal
  <2>1. \/ EndFlush
        \/ overtaken' = overtaken /\ (rebase' = rebase \/ rebase' = NoRebase)
    BY <1>4 DEF Save, SaveFails, EndSave, LoadFails
  <2>. QED
    BY <1>1, <1>2, <1>3, <2>1 DEF NoRebase
<1>5. ASSUME ShipNothing \/ CollectFails \/ PutFails \/ \E s \in Status : PinFails(s)
      PROVE  Goal
  BY <1>2, <1>5 DEF ShipNothing, CollectFails, PutFails, PinFails
<1>6. ASSUME Crash \/ RebaseFails \/ \E base \in 0..MaxRebases : Rebase(base) PROVE Goal
  BY <1>3, <1>6 DEF Crash, RebaseFails, Rebase, NoRebase
<1>7. ASSUME \/ LoadStep \/ TimerStep
             \/ ShipCount \/ ShipOwn \/ (\E d \in Db : Collect(d)) \/ ShipUpload
             \/ PutBlob \/ (\E s \in Status : Pin(s)) \/ Move
             \/ \E i \in DOMAIN blobs : PinSettles(i)
      PROVE  Same
  BY <1>7 DEF LoadStep, LoadAnswer, LoadWalk, TimerStep, StartTimers, TimerFires,
     SettleFires, HearUpdate, ShipCount, ShipOwn, Collect, ShipUpload, PutBlob, Pin, Move,
     PinSettles
<1>8. ASSUME RebaseStep PROVE Same
  BY <1>0, <1>8 DEF RebaseStep, RebaseReset, RebaseHeads, RebaseWalk, RebaseSave, Rebasing
<1>9. ASSUME \/ Flush \/ Start \/ Stop \/ Close
             \/ \E d \in Db : (\E e \in Entry : Update(d, e)) \/ Watch(d) \/ Unwatch(d)
      PROVE  Same
  BY <1>0, <1>9 DEF Flush, Start, Stop, Close, Update, Watch, Unwatch, Rebasing
<1>10. ASSUME UNCHANGED vars PROVE Same
  BY <1>10 DEF vars
<1>. HIDE DEF Same
<1>11. Goal
  <2>. HIDE DEF Goal
  <2>. QED
    BY <1>1, <1>4, <1>5, <1>6, <1>7, <1>8, <1>9, <1>10
       DEF Next, Progress, CollectStep, StoreStep, Failure, Application
<1>. QED
  BY <1>11

\* Ordered is kept.
LEMMA StaysOrdered ==
  ASSUME TypeOK, LoadedOnce, Ordered, [Next]_vars PROVE Ordered'
<1>1. rebase'.behind => overtaken'
  BY OvertakenStays DEF Ordered
<1>2. ASSUME ~overtaken' PROVE InOrder'
  BY <1>2, OvertakenStays, StaysInOrder DEF Ordered
<1>. QED
  BY <1>1, <1>2 DEF Ordered

\* What the flush carries is given up when it ends.
LEMMA StaysBlank ==
  ASSUME TypeOK, Blank, [Next]_vars PROVE Blank'
<1>. USE DEF locals
<1>0. pc \in [Call -> PC] /\ "ship" \in Call
  BY DEF TypeOK, Call
<1>1. CASE ship' = NoShip
  BY <1>1 DEF Blank, NoShip
<1>2. ASSUME NEW d \in Db, Collect(d) PROVE Blank'
  BY <1>2 DEF Collect, At, Blank, Before
<1>3. ASSUME pc'["ship"] \in Before \cup {"own"}, ship' # NoShip
      PROVE  pc["ship"] \in Before \cup {"own"}
  <2>1. CASE LoadStep \/ TimerStep \/ RebaseStep \/ Application
    BY <1>0, <1>3, <2>1 DEF LoadStep, LoadAnswer, LoadWalk, TimerStep, StartTimers,
       TimerFires,
       SettleFires, RequestFlush, HearUpdate, RebaseStep, RebaseReset, RebaseHeads,
       RebaseWalk, RebaseSave,
       Application, Update, Watch, Unwatch, Flush, Start, Stop, Close, Rebase, Before
  <2>2. CASE CollectStep
    BY <1>0, <1>3, <2>2 DEF CollectStep, ShipCount, ShipOwn, Capture, Loaded, At, Collect,
       Collected, ShipNothing, EndFlush, ShipUpload, Before
  <2>3. CASE StoreStep
    BY <1>0, <1>3, <2>3 DEF StoreStep, PutBlob, Pin, Move, Save, EndSave, EndFlush, Before
  <2>4. CASE Failure
    BY <1>0, <1>3, <2>4 DEF Failure, LoadFails, SaveFails, EndSave, EndFlush,
       CollectFails, PutFails, RebaseFails,
       PinFails, PinSettles, Crash, Before
  <2>5. CASE UNCHANGED vars
    BY <1>3, <2>5 DEF vars
  <2>. QED
    BY <2>1, <2>2, <2>3, <2>4, <2>5 DEF Next, Progress
<1>. QED
  BY <1>1, <1>2, <1>3, ShipFrame DEF Blank

\* The upload of the flush in flight stays the increment that the flush describes,
\* and when the state moves its pin is decided as well as the options decide one.
LEMMA StaysUploading ==
  ASSUME TypeOK, Uploading, [Next]_vars PROVE Uploading'
<1>. USE DEF locals, remote
<1>0. /\ ship \in Ship /\ pc \in [Call -> PC] /\ pc' \in [Call -> PC]
      /\ "ship" \in Call /\ blobs \in Seq(Blob)
  BY TypeStep DEF TypeOK, Call
<1>. DEFINE Frame == \/ pc'["ship"] \notin {"pin", "move"}
                     \/ /\ pc'["ship"] = pc["ship"] /\ blobs' = blobs
                        /\ ship'.blob = ship.blob /\ ship'.carry = ship.carry
                        /\ ship'.sequence = ship.sequence /\ ship'.base = ship.base
                        /\ ship'.previous = ship.previous /\ ship'.heads = ship.heads
<1>1. ASSUME Frame PROVE Uploading'
  BY <1>1 DEF Uploading
<1>2. ASSUME LoadStep \/ TimerStep PROVE Frame
  BY <1>0, <1>2 DEF LoadStep, LoadAnswer, LoadWalk, TimerStep, StartTimers, TimerFires,
     SettleFires, RequestFlush, Loading, HearUpdate
<1>3. ASSUME RebaseStep PROVE Frame
  BY <1>0, <1>3 DEF RebaseStep, RebaseReset, RebaseHeads, RebaseWalk, RebaseSave
<1>4. ASSUME Application PROVE Frame
  BY <1>0, <1>4 DEF Application, Update, Watch, Unwatch, Flush, RequestFlush, Loading,
     Start, Stop, Close, Rebase, Ship
<1>5. ASSUME CollectStep PROVE Frame
  BY <1>0, <1>5 DEF CollectStep, ShipCount, ShipOwn, Capture, Collect, At, ShipNothing,
     EndFlush, Loading, ShipUpload
<1>6. ASSUME NEW p \in Call, Save(p) \/ SaveFails(p) \/ LoadFails(p) PROVE Frame
  BY <1>0, <1>6 DEF Save, SaveFails, EndSave, LoadFails, EndFlush, Loading
<1>7. ASSUME \/ CollectFails \/ PutFails \/ RebaseFails
             \/ (\E s \in Status : PinFails(s)) \/ Move \/ Crash
      PROVE  Frame
  BY <1>0, <1>7 DEF CollectFails, PutFails, RebaseFails, PinFails, EndFlush, Loading,
     Move, Crash, Idle
<1>8. CASE PutBlob
  <2>1. /\ blobs' = Append(blobs, Increment) /\ ship'.blob = Len(blobs) + 1
        /\ ship'.carry = ship.carry /\ ship'.heads = ship.heads
        /\ ship'.sequence = ship.sequence /\ ship'.base = ship.base
        /\ ship'.previous = ship.previous
        /\ pc'["ship"] = IF Retains \/ ~Keep THEN "move" ELSE "pin"
    BY <1>0, <1>8 DEF PutBlob, Ship
  <2>2. ship'.blob \in DOMAIN blobs' /\ blobs'[ship'.blob] = Increment
    BY <1>0, <2>1, IncrementType
  <2>3. /\ Increment.sequence = ship.sequence /\ Increment.base = ship.base
        /\ Increment.previous = ship.previous /\ Increment.entries = ship.carry
        /\ Increment.heads = UNION {ship.heads[d] : d \in Db}
        /\ Increment.status = IF Retains THEN "kept" ELSE "loose"
    BY DEF Increment
  <2>. QED
    BY <2>1, <2>2, <2>3, OptionAssumption DEF Uploading
<1>9. ASSUME NEW s \in Status, Pin(s) PROVE Uploading'
  <2>1. ship.blob \in DOMAIN blobs /\ blobs[ship.blob] \in Blob
    BY <1>0, <1>9 DEF Uploading, Pin, At
  <2>2. s = "kept" \/ ~Confirm
    BY <1>9 DEF Pin
  <2>3. /\ blobs' = [blobs EXCEPT ![ship.blob].status = s] /\ ship' = ship
        /\ pc'["ship"] = "move" /\ pc["ship"] = "pin"
    BY <1>0, <1>9 DEF Pin, At
  <2>4. /\ DOMAIN blobs' = DOMAIN blobs /\ blobs'[ship.blob].status = s
        /\ blobs'[ship.blob].sequence = blobs[ship.blob].sequence
        /\ blobs'[ship.blob].base = blobs[ship.blob].base
        /\ blobs'[ship.blob].previous = blobs[ship.blob].previous
        /\ blobs'[ship.blob].entries = blobs[ship.blob].entries
        /\ blobs'[ship.blob].heads = blobs[ship.blob].heads
    BY <2>1, <2>3 DEF Blob
  <2>. QED
    BY <2>1, <2>2, <2>3, <2>4 DEF Uploading
<1>10. ASSUME NEW i \in DOMAIN blobs, PinSettles(i) PROVE Uploading'
  <2>1. PICK s \in Status : blobs' = [blobs EXCEPT ![i].status = s]
    BY <1>10 DEF PinSettles, Status
  <2>2. /\ pc' = pc /\ ship' = ship /\ blobs[i].status = "pending"
        /\ DOMAIN blobs' = DOMAIN blobs /\ blobs[i] \in Blob
    BY <1>0, <1>10, <2>1 DEF PinSettles
  <2>3. CASE ship.blob # i
    <3>1. ship.blob \in DOMAIN blobs => blobs'[ship.blob] = blobs[ship.blob]
      BY <2>1, <2>3
    <3>. QED
      BY <2>2, <3>1 DEF Uploading
  <2>4. CASE ship.blob = i
    <3>1. /\ blobs'[i].sequence = blobs[i].sequence /\ blobs'[i].base = blobs[i].base
          /\ blobs'[i].previous = blobs[i].previous
          /\ blobs'[i].entries = blobs[i].entries /\ blobs'[i].heads = blobs[i].heads
      BY <2>1, <2>2 DEF Blob
    <3>. QED
      BY <2>2, <2>4, <3>1 DEF Uploading
  <2>. QED
    BY <2>3, <2>4
<1>11. ASSUME UNCHANGED vars PROVE Frame
  BY <1>11 DEF vars
<1>12. CASE StoreStep
  BY <1>1, <1>6, <1>7, <1>8, <1>9, <1>12 DEF StoreStep
<1>13. CASE Failure
  BY <1>1, <1>6, <1>7, <1>10, <1>13 DEF Failure
<1>. HIDE DEF Frame
<1>. QED
  BY <1>1, <1>2, <1>3, <1>4, <1>5, <1>11, <1>12, <1>13 DEF Next, Progress

\* Control holds at the start, and is kept.
LEMMA ControlInit == ASSUME Init PROVE Control
BY DEF Init, Control, LoadedOnce, Ordered, InOrder, Blank, Uploading, Idle, Call, NoShip,
   NoRebase, Before, Flight

LEMMA StaysInControl == ASSUME TypeOK, Control, [Next]_vars PROVE Control'
BY StaysLoadedOnce, StaysOrdered, StaysBlank, StaysUploading DEF Control

-----------------------------------------------------------------------------
(* The chain.                                                               *)

\* Does a flush get past the pin only with a blob that the backend keeps?
Retentive == Retains \/ (Keep /\ Confirm)

\* What stays of an upload, whatever becomes of its pin.
Unaltered(i) ==
  /\ i \in DOMAIN blobs'
  /\ blobs'[i].sequence = blobs[i].sequence /\ blobs'[i].base = blobs[i].base
  /\ blobs'[i].previous = blobs[i].previous
  /\ blobs'[i].entries = blobs[i].entries /\ blobs'[i].heads = blobs[i].heads
  /\ blobs[i].status = "kept" => blobs'[i].status = "kept"

\* Uploads stay, and one more at a time is added, by a flush that uploads.
LEMMA BlobsStay ==
  ASSUME TypeOK, Uploading, [Next]_vars
  PROVE  /\ \A i \in DOMAIN blobs : Unaltered(i)
         /\ \/ DOMAIN blobs' = DOMAIN blobs
            \/ /\ pc["ship"] = "upload" /\ Len(blobs) + 1 \notin DOMAIN blobs
               /\ DOMAIN blobs' = DOMAIN blobs \cup {Len(blobs) + 1}
               /\ blobs'[Len(blobs) + 1] = Increment
<1>. USE DEF remote
<1>0. blobs \in Seq(Blob) /\ DOMAIN blobs = 1..Len(blobs) /\ Len(blobs) \in Nat
  BY DEF TypeOK
<1>1. CASE UNCHANGED blobs
  BY <1>1 DEF Unaltered
<1>2. ASSUME NEW i \in DOMAIN blobs, NEW s, blobs[i].status # "kept",
             blobs' = [blobs EXCEPT ![i].status = s]
      PROVE  DOMAIN blobs' = DOMAIN blobs /\ \A j \in DOMAIN blobs : Unaltered(j)
  <2>1. DOMAIN blobs' = DOMAIN blobs
    BY <1>2
  <2>2. ASSUME NEW j \in DOMAIN blobs PROVE Unaltered(j)
    <3>1. blobs[j] \in Blob
      BY <1>0
    <3>2. blobs'[j] = IF j = i THEN [blobs[i] EXCEPT !.status = s] ELSE blobs[j]
      BY <1>2
    <3>. QED
      BY <1>2, <2>1, <3>1, <3>2 DEF Blob, Unaltered
  <2>. QED
    BY <2>1, <2>2
<1>3. ASSUME NEW s \in Status, Pin(s) \/ PinFails(s)
      PROVE  /\ ship.blob \in DOMAIN blobs /\ blobs[ship.blob].status # "kept"
             /\ blobs' = [blobs EXCEPT ![ship.blob].status = s]
  BY <1>3 DEF Uploading, Pin, PinFails, At
<1>4. CASE pc["ship"] = "upload" /\ blobs' = Append(blobs, Increment)
  <2>1. /\ DOMAIN blobs' = DOMAIN blobs \cup {Len(blobs) + 1}
        /\ Len(blobs) + 1 \notin DOMAIN blobs
        /\ blobs'[Len(blobs) + 1] = Increment
        /\ \A i \in DOMAIN blobs : blobs'[i] = blobs[i]
    BY <1>0, <1>4, IncrementType
  <2>. QED
    BY <1>4, <2>1 DEF Unaltered
<1>5. ASSUME PutBlob \/ PutFails
      PROVE  UNCHANGED blobs \/ (pc["ship"] = "upload" /\ blobs' = Append(blobs, Increment))
  BY <1>5 DEF PutBlob, PutFails, At
<1>6. ASSUME NEW i \in DOMAIN blobs, PinSettles(i)
      PROVE  blobs[i].status # "kept" /\ \E s : blobs' = [blobs EXCEPT ![i].status = s]
  BY <1>6 DEF PinSettles
<1>. QED
  BY <1>1, <1>2, <1>3, <1>4, <1>5, <1>6, BlobFrame

\* A flush that is in flight was so before, or has just captured the state.
LEMMA FlightFrame ==
  ASSUME TypeOK, Blank, [Next]_vars, pc'["ship"] \in Flight
  PROVE  \/ /\ pc["ship"] \in Flight
            /\ ship'.sequence = ship.sequence /\ ship'.base = ship.base
            /\ ship'.previous = ship.previous
         \/ /\ ship'.heads = Nothing /\ ship'.hashes = Nothing
            /\ ship'.sequence = state.sequence + 1 /\ ship'.base = state.base
            /\ ship'.previous = state.previous
<1>. USE DEF locals
<1>0. pc \in [Call -> PC] /\ "ship" \in Call /\ ship \in Ship
  BY DEF TypeOK, Call
<1>. DEFINE Same == /\ pc["ship"] \in Flight
                    /\ ship'.sequence = ship.sequence /\ ship'.base = ship.base
                    /\ ship'.previous = ship.previous
            Taken == /\ ship'.heads = Nothing /\ ship'.hashes = Nothing
                     /\ ship'.sequence = state.sequence + 1 /\ ship'.base = state.base
                     /\ ship'.previous = state.previous
<1>1. ASSUME NEW own, Capture(own), pc["ship"] \in Before \cup {"own"} PROVE Taken
  BY <1>0, <1>1 DEF Capture, Blank, Ship
<1>2. CASE LoadStep \/ TimerStep \/ RebaseStep
  BY <1>0, <1>2 DEF LoadStep, LoadAnswer, LoadWalk, TimerStep, StartTimers, TimerFires,
     SettleFires, RequestFlush, Loading, HearUpdate, RebaseStep, RebaseReset, RebaseHeads,
     RebaseWalk, RebaseSave, Flight
<1>3. CASE Application
  BY <1>0, <1>3 DEF Application, Update, Watch, Unwatch, Flush, RequestFlush, Loading,
     Start,
     Stop, Close, Rebase, Flight, Ship
<1>4. CASE ShipCount
  BY <1>0, <1>1, <1>4 DEF ShipCount, Loaded, Before, Flight
<1>5. CASE ShipOwn
  BY <1>1, <1>5 DEF ShipOwn, At
<1>6. CASE CollectStep
  BY <1>0, <1>4, <1>5, <1>6 DEF CollectStep, Collect, Collected, At, ShipNothing, EndFlush,
     Loading, ShipUpload, Flight, Ship
<1>7. CASE StoreStep
  BY <1>0, <1>7 DEF StoreStep, PutBlob, Pin, At, Move, Save, EndSave, EndFlush, Loading,
     Flight, Ship
<1>8. CASE Failure
  BY <1>0, <1>8 DEF Failure, LoadFails, SaveFails, EndSave, EndFlush, Loading, CollectFails,
     PutFails, RebaseFails, PinFails, PinSettles, Crash, Idle, Flight
<1>9. CASE UNCHANGED vars
  BY <1>9 DEF vars
<1>. QED
  BY <1>2, <1>3, <1>6, <1>7, <1>8, <1>9 DEF Next, Progress

\* A state of this number and base may name this upload as the last of its chain.  (Of
\* another base, once a flush has overtaken a rebase().)
Names(sequence, base, previous) ==
  IF previous = 0 THEN sequence = 0
  ELSE /\ previous \in DOMAIN blobs
       /\ blobs[previous].sequence = sequence
       /\ ~overtaken => blobs[previous].base = base
       /\ Retentive => blobs[previous].status = "kept"

\* Uploads name one earlier.
BlobsNamed ==
  \A i \in DOMAIN blobs : LET b == blobs[i] IN
    /\ b.sequence \in Nat \ {0} /\ b.previous < i
    /\ Names(b.sequence - 1, b.base, b.previous)

\* So do the state, the copies being written of it, and the one in the store.
StatesNamed ==
  \A s \in {state} \cup saved \cup {copy[p] : p \in Call} :
    Names(s.sequence, s.base, s.previous)

\* And the flush in flight, whatever rebase() does to the state beside it.
ShipNamed ==
  pc["ship"] \in Flight =>
    ship.sequence \in Nat \ {0} /\ Names(ship.sequence - 1, ship.base, ship.previous)

\* The inductive invariant of the chain.
Linked ==
  /\ TypeOK /\ Control
  /\ BlobsNamed /\ StatesNamed /\ ShipNamed /\ BaseStartsAtOne

\* A name stays right as uploads come and pins settle.
LEMMA NamesStay ==
  ASSUME TypeOK, Uploading, [Next]_vars, NEW n, NEW b, NEW p, Names(n, b, p)
  PROVE  Names(n, b, p)'
BY BlobsStay, OvertakenStays DEF Names, Unaltered

\* The flush in flight stays named: it took its number from a state.
LEMMA ShipStaysNamed == ASSUME Linked, [Next]_vars PROVE ShipNamed'
<1>. SUFFICES ASSUME pc'["ship"] \in Flight PROVE ShipNamed'
  BY DEF ShipNamed
<1>0. TypeOK /\ Uploading /\ Blank /\ state \in State /\ ship \in Ship
  BY DEF Linked, Control, TypeOK
<1>. PICK q, b, p : q = ship'.sequence - 1 /\ b = ship'.base /\ p = ship'.previous
  OBVIOUS
<1>1. CASE /\ pc["ship"] \in Flight
           /\ ship'.sequence = ship.sequence /\ ship'.base = ship.base
           /\ ship'.previous = ship.previous
  <2>1. Names(q, b, p) /\ ship'.sequence \in Nat \ {0}
    BY <1>1 DEF Linked, ShipNamed
  <2>2. Names(q, b, p)'
    BY <1>0, <2>1, NamesStay
  <2>. QED
    BY <2>1, <2>2 DEF ShipNamed
<1>2. CASE /\ ship'.sequence = state.sequence + 1 /\ ship'.base = state.base
           /\ ship'.previous = state.previous
  <2>1. q = state.sequence /\ ship'.sequence \in Nat \ {0}
    BY <1>0, <1>2 DEF State
  <2>2. Names(q, b, p)
    BY <1>2, <2>1 DEF Linked, StatesNamed
  <2>3. Names(q, b, p)'
    BY <1>0, <2>2, NamesStay
  <2>. QED
    BY <2>1, <2>3 DEF ShipNamed
<1>. QED
  BY <1>0, <1>1, <1>2, FlightFrame

\* An increment links to the one its flush names.
LEMMA BlobsStayNamed ==
  ASSUME Linked, [Next]_vars PROVE BlobsNamed' /\ BaseStartsAtOne'
<1>. PICK n : n = Len(blobs) + 1
  OBVIOUS
<1>0. TypeOK /\ Uploading /\ blobs \in Seq(Blob) /\ state \in State
  BY DEF Linked, Control, TypeOK
<1>1. ASSUME NEW i \in DOMAIN blobs
      PROVE  /\ blobs'[i].sequence \in Nat \ {0} /\ blobs'[i].previous < i
             /\ Names(blobs[i].sequence - 1, blobs[i].base, blobs[i].previous)'
  BY <1>0, BlobsStay, NamesStay DEF Linked, BlobsNamed, Unaltered
<1>2. \A i \in DOMAIN blobs : Unaltered(i)
  BY <1>0, BlobsStay
<1>3. CASE DOMAIN blobs' = DOMAIN blobs
  <2>1. BlobsNamed'
    BY <1>1, <1>2, <1>3 DEF BlobsNamed, Unaltered, Names
  <2>2. BaseStartsAtOne'
    BY <1>0, <1>2, <1>3, OvertakenStays
       DEF Linked, BaseStartsAtOne, RebaseStartsOver, Unaltered
  <2>. QED
    BY <2>1, <2>2
<1>4. CASE /\ pc["ship"] = "upload" /\ n \notin DOMAIN blobs
           /\ DOMAIN blobs' = DOMAIN blobs \cup {n} /\ blobs'[n] = Increment
  <2>1. PICK q, b, p : q = ship.sequence - 1 /\ b = ship.base /\ p = ship.previous
    OBVIOUS
  <2>2. blobs'[n].sequence = q + 1 /\ blobs'[n].base = b /\ blobs'[n].previous = p
    <3>1. /\ Increment.sequence = ship.sequence /\ Increment.base = ship.base
          /\ Increment.previous = ship.previous
      BY DEF Increment
    <3>2. ship.sequence \in Nat \ {0}
      BY <1>4 DEF Linked, ShipNamed, Flight
    <3>. QED
      BY <1>4, <2>1, <3>1, <3>2
  <2>3. Names(q, b, p) /\ Names(q, b, p)' /\ q \in Nat
    <3>1. Names(q, b, p)
      BY <1>4, <2>1 DEF Linked, ShipNamed, Flight
    <3>2. q \in Nat
      BY <1>4, <2>1 DEF Linked, ShipNamed, Flight
    <3>. QED
      BY <1>0, <3>1, <3>2, NamesStay
  <2>4. p < n /\ n \in Nat
    BY <1>0, <2>3 DEF Names
  <2>5. BlobsNamed'
    <3>1. blobs'[n].sequence \in Nat \ {0} /\ blobs'[n].sequence - 1 = q
      BY <2>2, <2>3
    <3>2. /\ blobs'[n].sequence \in Nat \ {0} /\ blobs'[n].previous < n
          /\ Names(blobs[n].sequence - 1, blobs[n].base, blobs[n].previous)'
      BY <2>2, <2>3, <2>4, <3>1
    <3>. QED
      BY <1>1, <1>4, <3>2 DEF BlobsNamed
  <2>6. BaseStartsAtOne'
    <3>. SUFFICES ASSUME ~overtaken' PROVE RebaseStartsOver'
      BY DEF BaseStartsAtOne
    <3>0. ~overtaken
      BY <1>0, OvertakenStays
    <3>1. ASSUME NEW i \in DOMAIN blobs, blobs[i].base # 0
          PROVE  \E j \in DOMAIN blobs : blobs'[j].base = blobs[i].base /\ blobs'[j].sequence = 1
      BY <1>2, <3>0, <3>1 DEF Linked, BaseStartsAtOne, RebaseStartsOver, Unaltered
    <3>2. (p \in DOMAIN blobs /\ blobs[p].base = b) \/ blobs'[n].sequence = 1
      BY <2>2, <2>3, <3>0 DEF Names
    <3>3. \A i \in DOMAIN blobs : blobs'[i].base = blobs[i].base
      BY <1>2 DEF Unaltered
    <3>. QED
      BY <1>4, <2>2, <3>1, <3>2, <3>3 DEF RebaseStartsOver
  <2>. QED
    BY <2>5, <2>6
<1>. QED
  BY <1>0, <1>3, <1>4, BlobsStay

\* The state moves to an upload that it named the predecessor of, and what is
\* saved is a state.
LEMMA StatesStayNamed ==
  ASSUME Linked, [Next]_vars PROVE StatesNamed'
<1>. USE DEF memory, locals, remote
<1>0. /\ TypeOK /\ Uploading /\ Control /\ copy \in [Call -> State] /\ state \in State
      /\ "ship" \in Call /\ "rebase" \in Call /\ ship \in Ship
  BY DEF Linked, Control, TypeOK, Call
<1>. SUFFICES ASSUME NEW s \in {state'} \cup saved' \cup {copy'[p] : p \in Call}
              PROVE  Names(s.sequence, s.base, s.previous)'
  BY DEF StatesNamed
<1>a. s = state' \/ s \in saved' \/ \E c \in Call : s = copy'[c]
  OBVIOUS
<1>. DEFINE Like(t) == s.sequence = t.sequence /\ s.base = t.base /\ s.previous = t.previous
            Fresh   == s.sequence = 0 /\ s.previous = 0
            Known   == \/ Fresh \/ Like(state) \/ \E t \in saved : Like(t)
                       \/ \E c \in Call : Like(copy[c])
            Frame   == /\ state'.sequence = state.sequence /\ state'.base = state.base
                       /\ state'.previous = state.previous
                       /\ saved' = saved /\ copy' = copy
<1>1. ASSUME Known PROVE Names(s.sequence, s.base, s.previous)'
  <2>1. CASE Fresh
    BY <2>1 DEF Names
  <2>2. ASSUME NEW t \in {state} \cup saved \cup {copy[p] : p \in Call}, Like(t)
        PROVE  Names(s.sequence, s.base, s.previous)'
    <3>1. Names(t.sequence, t.base, t.previous)
      BY DEF Linked, StatesNamed
    <3>2. Names(s.sequence, s.base, s.previous)
      BY <2>2, <3>1
    <3>. QED
      BY <1>0, <3>2, NamesStay
  <2>. QED
    BY <1>1, <2>1, <2>2
<1>2. ASSUME Frame PROVE Known
  BY <1>a, <1>2
<1>3. ASSUME LoadAnswer PROVE Known
  <2>1. (state' = state \/ state' \in saved) /\ saved' = saved /\ copy' = copy
    BY <1>3 DEF LoadAnswer
  <2>. QED
    BY <1>a, <2>1
<1>4. ASSUME Crash PROVE Known
  <2>1. /\ state' = EmptyState /\ saved' = saved /\ \A c \in Call : copy'[c] = EmptyState
    BY <1>4 DEF Crash, NoCopy
  <2>. QED
    BY <1>a, <2>1 DEF EmptyState
<1>5. ASSUME NEW p \in Call, Save(p) \/ SaveFails(p) PROVE Known
  <2>1. /\ state' = state /\ saved' \subseteq saved \cup {copy[p]}
        /\ copy' = [copy EXCEPT ![p] = EmptyState]
    BY <1>5 DEF Save, SaveFails, EndSave
  <2>2. ASSUME NEW c \in Call PROVE copy'[c] = copy[c] \/ copy'[c] = EmptyState
    BY <1>0, <2>1
  <2>. QED
    BY <1>a, <2>1, <2>2 DEF EmptyState
<1>6. ASSUME RebaseReset PROVE Known
  <2>1. /\ saved' = saved /\ copy' = copy
        /\ state' = state \/ (state'.sequence = 0 /\ state'.previous = 0)
    BY <1>6 DEF RebaseReset, EmptyState
  <2>. QED
    BY <1>a, <2>1
<1>7. ASSUME RebaseSave PROVE Known
  <2>1. state' = state /\ saved' = saved /\ copy' = [copy EXCEPT !["rebase"] = state]
    BY <1>7 DEF RebaseSave
  <2>2. ASSUME NEW c \in Call PROVE copy'[c] = copy[c] \/ copy'[c] = state
    BY <1>0, <2>1
  <2>. QED
    BY <1>a, <2>1, <2>2
<1>8. CASE Move
  <2>1. /\ state'.sequence = ship.sequence /\ state'.base = state.base
        /\ state'.previous = ship.blob /\ saved' = saved
        /\ copy' = [copy EXCEPT !["ship"] = state']
    BY <1>0, <1>8 DEF Move, State
  <2>2. /\ pc["ship"] = "move" /\ ship.blob \in DOMAIN blobs
        /\ blobs' = blobs /\ overtaken' = overtaken
        /\ ~overtaken => ship.base = state.base
    BY <1>0, <1>8 DEF Move, At, Control, Ordered, InOrder, Flight, Uploading, bounds
  <2>3. /\ blobs[ship.blob].sequence = ship.sequence /\ blobs[ship.blob].base = ship.base
        /\ Retentive => blobs[ship.blob].status = "kept"
    BY <1>0, <2>2 DEF Uploading, Retentive
  <2>4. s = state' \/ Known
    <3>1. ASSUME NEW c \in Call PROVE copy'[c] = copy[c] \/ copy'[c] = state'
      BY <1>0, <2>1
    <3>. QED
      BY <1>a, <2>1, <3>1
  <2>5. ship.blob # 0
    BY <1>0, <2>2 DEF TypeOK
  <2>6. CASE s = state'
    BY <2>1, <2>2, <2>3, <2>5, <2>6 DEF Names
  <2>. HIDE DEF Known
  <2>. QED
    BY <1>1, <2>4, <2>6
<1>9. ASSUME LoadStep \/ CollectStep \/ TimerStep \/ Application PROVE LoadAnswer \/ Frame
  BY <1>9 DEF LoadStep, LoadWalk, CollectStep, ShipCount, ShipOwn, Collect,
     ShipNothing, ShipUpload, TimerStep, StartTimers, TimerFires, SettleFires, HearUpdate,
     Application, Update, Watch, Unwatch, Flush, Start, Stop, Close, Rebase
<1>10. ASSUME PutBlob \/ (\E t \in Status : Pin(t)) \/ \E d \in Db : RebaseHeads(d) \/ RebaseWalk(d)
       PROVE  Frame
  BY <1>0, <1>10 DEF PutBlob, Pin, RebaseHeads, RebaseWalk, State
<1>11. ASSUME \/ \E p \in Call : LoadFails(p)
              \/ CollectFails \/ PutFails \/ RebaseFails
              \/ \E t \in Status : PinFails(t)
              \/ \E i \in DOMAIN blobs : PinSettles(i)
       PROVE  Frame
  BY <1>11 DEF LoadFails, CollectFails, PutFails, RebaseFails, PinFails, PinSettles
<1>12. ASSUME UNCHANGED vars PROVE Frame
  BY <1>12 DEF vars
<1>. HIDE DEF Frame, Known
<1>13. CASE Progress
  BY <1>1, <1>2, <1>3, <1>5, <1>6, <1>7, <1>8, <1>9, <1>10, <1>13
     DEF Progress, StoreStep, RebaseStep
<1>14. CASE Failure
  BY <1>1, <1>2, <1>4, <1>5, <1>11, <1>14 DEF Failure
<1>. QED
  BY <1>1, <1>2, <1>3, <1>9, <1>12, <1>13, <1>14 DEF Next

\* The chain stays linked, whatever fails, whenever the process ends and however a
\* flush and a rebase() interleave.
THEOREM Linking == Spec => []Linked
<1>1. Init => Linked
  <2>. SUFFICES ASSUME Init PROVE Linked
    OBVIOUS
  <2>1. TypeOK /\ Control
    BY TypeCorrectInit, ControlInit
  <2>2. BlobsNamed /\ StatesNamed /\ ShipNamed /\ BaseStartsAtOne
    BY DEF Init, BlobsNamed, StatesNamed, ShipNamed, BaseStartsAtOne, RebaseStartsOver,
       EmptyState, NoCopy, Names, Idle, Call, Flight
  <2>. QED
    BY <2>1, <2>2 DEF Linked
<1>2. Linked /\ [Next]_vars => Linked'
  BY TypeStep, StaysInControl, BlobsStayNamed, StatesStayNamed, ShipStaysNamed DEF Linked
<1>. QED
  BY <1>1, <1>2, PTL DEF Spec

\* Every upload links to the one numbered one less, down to number 1, whatever fails
\* and whenever the process ends; and to one of the same base, until a flush that was
\* remembered overtakes a rebase() that waits, and takes the old number to the new base.
THEOREM UploadsAreLinked == Spec => []UploadsLink
<1>1. Linked => UploadsLink
  BY DEF Linked, BlobsNamed, Names, UploadsLink, Links, OneBase
<1>. QED
  BY <1>1, Linking, PTL

\* With a backend that keeps what it is handed, or a pin that is followed to its
\* settled answer, every kept increment links to a kept one: the chain that
\* restoreFromIncrements() walks back has no hole.  (Of one base with the same
\* exception.)
THEOREM KeptAreLinked == ASSUME Retentive PROVE Spec => []ChainLinks
<1>1. Linked => ChainLinks
  BY DEF Linked, BlobsNamed, Names, ChainLinks, Links, OneBase, Kept
<1>. QED
  BY <1>1, Linking, PTL

\* A rebase() to a new base starts the increments again at 1 from that base, unless a
\* flush has overtaken it.
THEOREM BasesStartAtOne == Spec => []BaseStartsAtOne
<1>1. Linked => BaseStartsAtOne
  BY DEF Linked
<1>. QED
  BY <1>1, Linking, PTL

-----------------------------------------------------------------------------
(* Chains as sets.                                                          *)

\* Chain() for any sequence of uploads, so that one can speak of two of them.
ChainOf(b, i) ==
  {j \in DOMAIN b : \A X \in SUBSET DOMAIN b :
     (i \in X /\ \A x \in X : b[x].previous \in X \cup {0}) => j \in X}

\* Every link leads to an upload, or nowhere.
Linear(b) == \A i \in DOMAIN b : b[i].previous \in DOMAIN b \cup {0}

LEMMA ChainIsChainOf ==
  ASSUME NEW i
  PROVE  Chain(i) = ChainOf(blobs, i) /\ Chain(i)' = ChainOf(blobs', i)
BY DEF Chain, ChainOf

\* A chain starts with its end and follows every link.
LEMMA ChainIsClosed ==
  ASSUME NEW b, Linear(b), NEW i \in DOMAIN b
  PROVE  /\ i \in ChainOf(b, i) /\ ChainOf(b, i) \subseteq DOMAIN b
         /\ \A j \in ChainOf(b, i) : b[j].previous \in ChainOf(b, i) \cup {0}
<1>1. i \in ChainOf(b, i) /\ ChainOf(b, i) \subseteq DOMAIN b
  BY DEF ChainOf
<1>2. ASSUME NEW j \in ChainOf(b, i), b[j].previous # 0
      PROVE  b[j].previous \in ChainOf(b, i)
  <2>1. b[j].previous \in DOMAIN b
    BY <1>1, <1>2 DEF Linear
  <2>2. ASSUME NEW X \in SUBSET DOMAIN b, i \in X, \A x \in X : b[x].previous \in X \cup {0}
        PROVE  b[j].previous \in X
    BY <1>2, <2>2 DEF ChainOf
  <2>. QED
    BY <2>1, <2>2 DEF ChainOf
<1>. QED
  BY <1>1, <1>2

\* It is the least such set.
LEMMA ChainIsLeast ==
  ASSUME NEW b, NEW i, NEW X \in SUBSET DOMAIN b, i \in X,
         \A x \in X : b[x].previous \in X \cup {0}
  PROVE  ChainOf(b, i) \subseteq X
BY DEF ChainOf

\* The chain of what is in a chain is part of it.
LEMMA ChainOfChain ==
  ASSUME NEW b, Linear(b), NEW i \in DOMAIN b, NEW j \in ChainOf(b, i)
  PROVE  ChainOf(b, j) \subseteq ChainOf(b, i)
BY ChainIsClosed, ChainIsLeast

\* A chain is its end, and the chain of what that links to.
LEMMA ChainStep ==
  ASSUME NEW b, Linear(b), NEW i \in DOMAIN b
  PROVE  ChainOf(b, i) = {i} \cup (IF b[i].previous = 0 THEN {} ELSE ChainOf(b, b[i].previous))
<1>. DEFINE p == b[i].previous
            X == {i} \cup (IF p = 0 THEN {} ELSE ChainOf(b, p))
<1>1. p = 0 \/ p \in DOMAIN b
  BY DEF Linear
<1>2. X \in SUBSET DOMAIN b /\ i \in X
  BY DEF ChainOf
<1>3. \A x \in X : b[x].previous \in X \cup {0}
  BY <1>1, ChainIsClosed
<1>4. p # 0 => ChainOf(b, p) \subseteq ChainOf(b, i)
  BY ChainIsClosed, ChainOfChain
<1>5. i \in ChainOf(b, i)
  BY ChainIsClosed
<1>. HIDE DEF p
<1>6. ChainOf(b, i) \subseteq X
  BY <1>2, <1>3, ChainIsLeast
<1>. QED
  BY <1>4, <1>5, <1>6 DEF p

\* A chain stays what it is when uploads are added after it.
LEMMA ChainOfMore ==
  ASSUME NEW b, NEW c, Linear(b), Linear(c), DOMAIN b \subseteq DOMAIN c,
         \A x \in DOMAIN b : c[x].previous = b[x].previous, NEW i \in DOMAIN b
  PROVE  ChainOf(c, i) = ChainOf(b, i)
<1>. DEFINE X == ChainOf(c, i) \cap DOMAIN b
<1>1. ChainOf(b, i) \in SUBSET DOMAIN c /\ i \in ChainOf(b, i)
  BY ChainIsClosed
<1>2. \A x \in ChainOf(b, i) : c[x].previous \in ChainOf(b, i) \cup {0}
  BY ChainIsClosed
<1>3. ChainOf(c, i) \subseteq ChainOf(b, i)
  BY <1>1, <1>2, ChainIsLeast
<1>4. X \in SUBSET DOMAIN b /\ i \in X
  BY ChainIsClosed
<1>5. \A x \in X : b[x].previous \in X \cup {0}
  BY ChainIsClosed DEF Linear
<1>. HIDE DEF X
<1>6. ChainOf(b, i) \subseteq X
  BY <1>4, <1>5, ChainIsLeast
<1>. QED
  BY <1>3, <1>6 DEF X

\* What a state that names p brings back.
ChainFrom(p)   == IF p = 0 THEN {} ELSE Chain(p)
CarriedFrom(p) == UNION {blobs[j].entries : j \in ChainFrom(p)}

LEMMA BlobsAreLinear ==
  ASSUME TypeOK, BlobsNamed
  PROVE  Linear(blobs) /\ 0 \notin DOMAIN blobs
BY DEF TypeOK, BlobsNamed, Names, Linear

\* What is named stays what it is: no upload gets into a chain afterwards.
LEMMA ChainsStay ==
  ASSUME Linked, Linked', [Next]_vars, NEW p \in DOMAIN blobs \cup {0}
  PROVE  /\ ChainFrom(p)' = ChainFrom(p) /\ ChainFrom(p) \subseteq DOMAIN blobs
         /\ \A j \in ChainFrom(p) : Unaltered(j)
         /\ CarriedFrom(p)' = CarriedFrom(p)
<1>1. Linear(blobs) /\ Linear(blobs)' /\ (\A i \in DOMAIN blobs : Unaltered(i))
  BY BlobsAreLinear, BlobsStay DEF Linked, Control, BlobsNamed, TypeOK, Linear, Names
<1>2. /\ DOMAIN blobs \subseteq DOMAIN blobs'
      /\ \A x \in DOMAIN blobs : blobs'[x].previous = blobs[x].previous
  BY <1>1 DEF Unaltered
<1>3. p # 0 => ChainOf(blobs', p) = ChainOf(blobs, p)
  BY <1>1, <1>2, ChainOfMore DEF Linear
<1>4. ChainFrom(p)' = ChainFrom(p)
  BY <1>3, ChainIsChainOf DEF ChainFrom
<1>5. ChainFrom(p) \subseteq DOMAIN blobs
  BY DEF ChainFrom, Chain
<1>6. \A j \in ChainFrom(p) : Unaltered(j)
  BY <1>1, <1>5
<1>. QED
  BY <1>4, <1>5, <1>6 DEF CarriedFrom, Unaltered

\* An upload carries what its flush carries, and what the state before it named.
LEMMA NewChain ==
  ASSUME Linked, Linked', [Next]_vars, NEW n \in DOMAIN blobs', n \notin DOMAIN blobs,
         blobs'[n] = Increment, ship.previous \in DOMAIN blobs \cup {0}
  PROVE  /\ ChainFrom(n)' = {n} \cup ChainFrom(ship.previous)
         /\ CarriedFrom(n)' = ship.carry \cup CarriedFrom(ship.previous)
<1>1. PICK p : p = ship.previous
  OBVIOUS
<1>2. /\ blobs'[n].previous = p /\ blobs'[n].entries = ship.carry
  BY <1>1 DEF Increment
<1>3. Linear(blobs') /\ 0 \notin DOMAIN blobs'
  BY DEF Linked, TypeOK, BlobsNamed, Linear, Names
<1>4. ChainFrom(n)' = {n} \cup ChainFrom(p)'
  BY <1>2, <1>3, ChainStep, ChainIsChainOf DEF ChainFrom
<1>5. /\ ChainFrom(p)' = ChainFrom(p) /\ \A j \in ChainFrom(p) : Unaltered(j)
  BY <1>1, ChainsStay
<1>6. CarriedFrom(n)' = ship.carry \cup CarriedFrom(p)
  BY <1>2, <1>4, <1>5 DEF CarriedFrom, Unaltered
<1>. QED
  BY <1>1, <1>4, <1>5, <1>6

\* The numbers of a chain are 1 to the number of its end, each once.
Numbered(S, n) ==
  /\ Numbers(S) = 1..n
  /\ \A j, k \in S : blobs[j].sequence = blobs[k].sequence => j = k

ChainsNumbered == \A i \in DOMAIN blobs : Numbered(ChainFrom(i), blobs[i].sequence)

\* Numbering is kept: a chain stays, a new one counts on from the one it links to.
LEMMA ChainsStayNumbered ==
  ASSUME Linked, Linked', ChainsNumbered, [Next]_vars PROVE ChainsNumbered'
<1>1. ASSUME NEW i \in DOMAIN blobs PROVE Numbered(ChainFrom(i), blobs[i].sequence)'
  <2>1. /\ ChainFrom(i)' = ChainFrom(i) /\ i \in DOMAIN blobs'
        /\ \A j \in ChainFrom(i) : blobs'[j].sequence = blobs[j].sequence
        /\ blobs'[i].sequence = blobs[i].sequence
    BY ChainsStay, BlobsStay DEF Linked, Control, Unaltered
  <2>2. Numbered(ChainFrom(i), blobs[i].sequence)
    BY DEF ChainsNumbered
  <2>. QED
    BY <2>1, <2>2 DEF Numbered, Numbers
<1>2. ASSUME NEW n \in DOMAIN blobs', n \notin DOMAIN blobs
      PROVE  Numbered(ChainFrom(n), blobs[n].sequence)'
  <2>1. blobs'[n] = Increment /\ pc["ship"] = "upload"
    BY <1>2, BlobsStay DEF Linked, Control
  <2>2. ship.sequence \in Nat \ {0} /\ Names(ship.sequence - 1, ship.base, ship.previous)
    BY <2>1 DEF Linked, ShipNamed, Flight
  <2>3. PICK p, q : p = ship.previous /\ q = ship.sequence - 1
    OBVIOUS
  <2>4. /\ p \in DOMAIN blobs \cup {0} /\ (p = 0 => q = 0)
        /\ p # 0 => blobs[p].sequence = q
    BY <2>2, <2>3 DEF Names
  <2>5. Numbered(ChainFrom(p), q)
    <3>1. CASE p = 0
      BY <2>4, <3>1 DEF Numbered, Numbers, ChainFrom
    <3>2. CASE p # 0
      BY <2>4, <3>2 DEF ChainsNumbered
    <3>. QED
      BY <3>1, <3>2
  <2>6. /\ ChainFrom(n)' = {n} \cup ChainFrom(p) /\ ChainFrom(p) \subseteq DOMAIN blobs
        /\ \A j \in ChainFrom(p) : blobs'[j].sequence = blobs[j].sequence
    BY <1>2, <2>1, <2>2, <2>3, <2>4, NewChain, ChainsStay DEF Unaltered
  <2>7. blobs'[n].sequence = q + 1 /\ q \in Nat
    BY <2>1, <2>2, <2>3 DEF Increment
  <2>8. \A j \in ChainFrom(p) : blobs[j].sequence \in 1..q
    BY <2>5 DEF Numbered, Numbers
  <2>9. 1..(q + 1) = {q + 1} \cup 1..q
    BY <2>7
  <2>10. {blobs'[j].sequence : j \in ChainFrom(n)'} = {q + 1} \cup 1..q
    BY <2>5, <2>6, <2>7 DEF Numbered, Numbers
  <2>11. ASSUME NEW j \in ChainFrom(n)', NEW k \in ChainFrom(n)',
                blobs'[j].sequence = blobs'[k].sequence
         PROVE  j = k
    <3>1. CASE j \in ChainFrom(p) /\ k \in ChainFrom(p)
      BY <2>5, <2>6, <2>11, <3>1 DEF Numbered
    <3>2. CASE j \notin ChainFrom(p) \/ k \notin ChainFrom(p)
      BY <2>6, <2>7, <2>8, <2>11, <3>2
    <3>. QED
      BY <3>1, <3>2
  <2>. QED
    BY <2>7, <2>9, <2>10, <2>11 DEF Numbered, Numbers
<1>. QED
  BY <1>1, <1>2 DEF ChainsNumbered

\* Whatever increments a state names, they are numbered from 1 to that state's
\* number without hole or duplicate.
LEMMA Numbering == Spec => []ChainsNumbered
<1>1. Init => ChainsNumbered
  BY DEF Init, ChainsNumbered
<1>2. Linked /\ Linked' /\ ChainsNumbered /\ [Next]_vars => ChainsNumbered'
  BY ChainsStayNumbered
<1>. QED
  BY <1>1, <1>2, Linking, PTL DEF Spec

-----------------------------------------------------------------------------
(* Before rebase() is first called.                                         *)

\* rebase() has not been called, and none of its steps is under way.
Unrebased == rebases = 0 /\ pc["rebase"] = "idle" /\ ~rebase.behind /\ ~overtaken

\* It stays so until the first call.
LEMMA UnrebasedStep ==
  ASSUME TypeOK, rebases = 0 => Unrebased, [Next]_vars, rebases' = 0
  PROVE  Unrebased /\ Unrebased' /\ ~RebaseStep /\ ~RebaseFails
<1>. USE DEF locals, bounds
<1>0. /\ rebases \in Nat /\ rebase \in Rebasing
      /\ pc \in [Call -> PC] /\ Call = {"ship", "start", "rebase"}
  BY DEF TypeOK, Call
<1>. DEFINE Same == /\ rebases' = rebases /\ overtaken' = overtaken
                    /\ pc'["rebase"] = pc["rebase"] /\ rebase'.behind = rebase.behind
            Rest == pc["rebase"] = "idle" /\ ~overtaken =>
                      /\ rebases' = rebases
                      /\ pc'["rebase"] = "idle" /\ ~rebase'.behind /\ ~overtaken'
<1>1. ASSUME EndFlush, rebases' = rebases PROVE Rest
  <2>1. ASSUME pc["rebase"] = "idle" PROVE pc'["rebase"] = "idle" /\ ~rebase'.behind
    BY <1>0, <1>1, <2>1 DEF EndFlush, Rebasing
  <2>2. overtaken' = (overtaken \/ rebase'.behind)
    BY <1>1 DEF EndFlush
  <2>. QED
    BY <1>1, <2>1, <2>2
<1>2. ASSUME NEW p \in Call, Save(p) \/ SaveFails(p) \/ LoadFails(p), Unrebased PROVE Rest
  <2>1. rebases' = rebases
    BY <1>2 DEF Save, SaveFails, LoadFails
  <2>2. EndFlush \/ (/\ pc' = [pc EXCEPT ![p] = "idle"] /\ overtaken' = overtaken
                     /\ rebase' = rebase \/ rebase' = NoRebase)
    BY <1>2 DEF Save, SaveFails, EndSave, LoadFails
  <2>. QED
    BY <1>0, <1>1, <1>2, <2>1, <2>2 DEF NoRebase, Unrebased
<1>3. ASSUME ShipNothing \/ CollectFails \/ PutFails \/ \E s \in Status : PinFails(s)
      PROVE  Rest
  BY <1>1, <1>3 DEF ShipNothing, CollectFails, PutFails, PinFails, Fault
<1>4. ASSUME Crash PROVE Rest
  BY <1>4 DEF Crash, Idle, NoRebase, Call
<1>5. ASSUME NEW base, Rebase(base) PROVE rebases' # 0
  BY <1>0, <1>5 DEF Rebase
<1>6. ASSUME pc["rebase"] = "idle" PROVE ~RebaseStep /\ ~RebaseFails
  BY <1>6 DEF RebaseStep, RebaseReset, Loaded, RebaseHeads, RebaseWalk, RebaseSave,
     RebaseFails, At
<1>7. ASSUME RebaseStep \/ RebaseFails PROVE rebases' = rebases
  BY <1>7 DEF RebaseStep, RebaseReset, RebaseHeads, RebaseWalk, RebaseSave, RebaseFails
<1>8. ASSUME \/ LoadStep
             \/ ShipCount \/ ShipOwn \/ (\E d \in Db : Collect(d)) \/ ShipUpload
             \/ PutBlob \/ (\E s \in Status : Pin(s)) \/ Move
             \/ \E i \in DOMAIN blobs : PinSettles(i)
      PROVE  Same \/ Rest
  BY <1>0, <1>8 DEF LoadStep, LoadAnswer, LoadWalk, ShipCount, ShipOwn, Capture, Collect,
     ShipUpload, PutBlob, Pin, Move, PinSettles
<1>9. ASSUME \/ TimerStep \/ Flush \/ Start \/ Stop \/ Close
             \/ \E d \in Db : (\E e \in Entry : Update(d, e)) \/ Watch(d) \/ Unwatch(d)
      PROVE  Same
  BY <1>0, <1>9 DEF TimerStep, StartTimers, TimerFires, SettleFires, HearUpdate, Flush,
     RequestFlush, Start, Stop, Close, Update, Watch, Unwatch, Rebasing
<1>10. ASSUME UNCHANGED vars PROVE Same
  BY <1>10 DEF vars
<1>11. ASSUME NEW p \in Call, Save(p) \/ SaveFails(p) \/ LoadFails(p) PROVE rebases' = rebases
  BY <1>11 DEF Save, SaveFails, LoadFails
<1>12. rebases = 0
  <2>1. CASE Same \/ (\E p \in Call : Save(p) \/ SaveFails(p) \/ LoadFails(p))
             \/ RebaseStep \/ RebaseFails
    BY <1>7, <1>11, <2>1
  <2>2. CASE Crash \/ ShipNothing \/ CollectFails \/ PutFails \/ \E s \in Status : PinFails(s)
    BY <2>2 DEF Crash, ShipNothing, CollectFails, PutFails, PinFails, Fault
  <2>3. CASE LoadStep \/ CollectStep \/ StoreStep
    BY <1>11, <2>2, <2>3 DEF LoadStep, LoadAnswer, LoadWalk, CollectStep, ShipCount,
       ShipOwn,
       Collect, ShipUpload, StoreStep, PutBlob, Pin, Move
  <2>4. CASE Failure
    BY <1>7, <1>11, <2>2, <2>4 DEF Failure, PinSettles
  <2>. QED
    BY <1>5, <1>9, <1>10, <2>1, <2>3, <2>4 DEF Next, Progress, Application
<1>13. Unrebased /\ ~RebaseStep /\ ~RebaseFails
  BY <1>6, <1>12 DEF Unrebased
<1>14. ASSUME Same \/ Rest PROVE Unrebased'
  BY <1>13, <1>14 DEF Unrebased
<1>. HIDE DEF Same, Rest
<1>. QED
  BY <1>2, <1>3, <1>4, <1>5, <1>8, <1>9, <1>10, <1>13, <1>14
     DEF Next, Progress, CollectStep, StoreStep, Failure, Application

LEMMA UntilRebased == Spec => [](rebases = 0 => Unrebased)
<1>1. Init => (rebases = 0 => Unrebased)
  BY DEF Init, Unrebased, Idle, Call, NoRebase
<1>2. TypeOK /\ (rebases = 0 => Unrebased) /\ [Next]_vars => (rebases = 0 => Unrebased)'
  BY UnrebasedStep
<1>. QED
  BY <1>1, <1>2, TypeCorrect, PTL DEF Spec

\* The heads of an increment can be joined from its chain.
BlobsJoin == \A i \in DOMAIN blobs : Past(blobs[i].heads) \subseteq CarriedFrom(i)

\* What a state passes over is in the chain it names.
StatesJoin ==
  \A s \in {state} \cup saved \cup {copy[p] : p \in Call} :
    \A d \in Db : Past(s.heads[d]) \subseteq CarriedFrom(s.previous)

\* So is what the watcher counts as shipped.
MemoryJoins == \A d \in Db : Past(shipped[d]) \subseteq CarriedFrom(state.previous)

\* What the flush in flight will name is in the chain before it, or carried.
ShipJoins ==
  pc["ship"] \in Flight => \A d \in Db :
    /\ Past(ship.heads[d]) \subseteq CarriedFrom(ship.previous) \cup ship.carry
    /\ Past(ship.hashes[d]) \subseteq CarriedFrom(ship.previous) \cup ship.carry

Joined == BlobsJoin /\ StatesJoin /\ MemoryJoins /\ ShipJoins

\* Names lead to uploads, or nowhere.
LEMMA NamedUploads ==
  ASSUME Linked
  PROVE  /\ \A s \in {state} \cup saved \cup {copy[p] : p \in Call} :
              s.previous \in DOMAIN blobs \cup {0}
         /\ pc["ship"] \in Flight => /\ ship.previous \in DOMAIN blobs \cup {0}
                                     /\ ~overtaken => ship.previous = state.previous
BY DEF Linked, StatesNamed, ShipNamed, Names, Control, Ordered, InOrder

\* What a name brings back stays what it is.
LEMMA CarriedStays ==
  ASSUME Linked, Linked', [Next]_vars, NEW p, p \in DOMAIN blobs \cup {0}
  PROVE  CarriedFrom(p)' = CarriedFrom(p)
BY ChainsStay

\* An upload joins: it carries what its heads need and its chain has not.
LEMMA BlobsStayJoined ==
  ASSUME Linked, Linked', Joined, [Next]_vars PROVE BlobsJoin'
<1>1. ASSUME NEW i \in DOMAIN blobs PROVE (Past(blobs[i].heads) \subseteq CarriedFrom(i))'
  <2>1. blobs'[i].heads = blobs[i].heads /\ CarriedFrom(i)' = CarriedFrom(i)
    BY CarriedStays, BlobsStay DEF Linked, Control, Unaltered
  <2>. QED
    BY <2>1 DEF Joined, BlobsJoin
<1>2. ASSUME NEW n \in DOMAIN blobs', n \notin DOMAIN blobs
      PROVE  (Past(blobs[n].heads) \subseteq CarriedFrom(n))'
  <2>1. blobs'[n] = Increment /\ pc["ship"] \in Flight
    BY <1>2, BlobsStay DEF Linked, Control, Flight
  <2>2. CarriedFrom(n)' = ship.carry \cup CarriedFrom(ship.previous)
    BY <1>2, <2>1, NamedUploads, NewChain
  <2>. DEFINE F == {ship.heads[d] : d \in Db}
  <2>3. F \in SUBSET (SUBSET Entry)
    BY DEF Linked, TypeOK, Ship
  <2>4. \A f \in F : Past(f) \subseteq ship.carry \cup CarriedFrom(ship.previous)
    BY <2>1 DEF Joined, ShipJoins
  <2>5. blobs'[n].heads = UNION F
    BY <2>1 DEF Increment
  <2>. HIDE DEF F
  <2>. QED
    BY <2>2, <2>3, <2>4, <2>5, PastOfMany
<1>. QED
  BY <1>1, <1>2 DEF BlobsJoin

\* What a database adds to the flush in flight is carried, down to what was shipped
\* already, and that is in the chain before it.
LEMMA ShipStaysJoined ==
  ASSUME "read" \notin Faults, Linked, Linked', Joined, ~overtaken, [Next]_vars
  PROVE  ShipJoins'
<1>. SUFFICES ASSUME pc'["ship"] \in Flight PROVE ShipJoins'
  BY DEF ShipJoins
<1>. PICK p : p = ship.previous
  OBVIOUS
<1>0. TypeOK /\ Blank /\ ship \in Ship
  BY DEF Linked, Control, TypeOK
<1>1. CASE ship'.heads = Nothing /\ ship'.hashes = Nothing
  BY <1>1, PastOfNothing DEF ShipJoins, Nothing
<1>2. CASE /\ pc["ship"] \in Flight /\ ship'.previous = p
           /\ ship'.heads = ship.heads /\ ship'.hashes = ship.hashes /\ ship'.carry = ship.carry
  <2>1. CarriedFrom(p)' = CarriedFrom(p)
    BY <1>2, NamedUploads, CarriedStays
  <2>. QED
    BY <1>2, <2>1 DEF Joined, ShipJoins
<1>3. ASSUME NEW d \in Db, Collect(d) PROVE ShipJoins'
  <2>. DEFINE H   == Heads(log[d])
              new == Walk(H, shipped[d], {})
  <2>1. ship' = [ship EXCEPT
          !.visited   = @ \cup {d},
          !.heads[d]  = IF new = {} THEN @ ELSE H,
          !.hashes[d] = IF new = {} THEN @ ELSE new,
          !.carry     = @ \cup (new \ {})]
    BY <1>3 DEF Collect, Unreadable
  <2>2. H \in SUBSET Entry /\ shipped[d] \in SUBSET Entry /\ new \in SUBSET Entry
    BY <1>0, WalkIsClosed DEF TypeOK, Heads
  <2>3. /\ pc["ship"] \in Flight /\ p = state.previous
        /\ CarriedFrom(p)' = CarriedFrom(p)
    BY <1>3, NamedUploads, CarriedStays DEF Collect, At, Flight
  <2>4. Past(H) \subseteq CarriedFrom(p)' \cup new
    <3>1. Past(H) \subseteq new \cup Past(shipped[d])
      BY <2>2, WalkCovers
    <3>2. Past(shipped[d]) \subseteq CarriedFrom(p)
      BY <2>3 DEF Joined, MemoryJoins
    <3>. QED
      BY <2>3, <3>1, <3>2
  <2>5. Past(new) \subseteq CarriedFrom(p)' \cup new
    BY <2>2, <2>4, WalkInPast, PastOfPast
  <2>. HIDE DEF H, new
  <2>6. /\ ship'.carry = ship.carry \cup new /\ ship'.previous = p
        /\ ship'.heads = [ship.heads EXCEPT ![d] = IF new = {} THEN @ ELSE H]
        /\ ship'.hashes = [ship.hashes EXCEPT ![d] = IF new = {} THEN @ ELSE new]
        /\ ship.heads \in [Db -> SUBSET Entry] /\ ship.hashes \in [Db -> SUBSET Entry]
    BY <1>0, <2>1 DEF Ship
  <2>7. ASSUME NEW c \in Db
        PROVE  /\ Past(ship'.heads[c]) \subseteq CarriedFrom(p)' \cup ship'.carry
               /\ Past(ship'.hashes[c]) \subseteq CarriedFrom(p)' \cup ship'.carry
    <3>1. /\ Past(ship.heads[c]) \subseteq CarriedFrom(p)' \cup ship.carry
          /\ Past(ship.hashes[c]) \subseteq CarriedFrom(p)' \cup ship.carry
      BY <2>3 DEF Joined, ShipJoins
    <3>2. ship'.heads[c] = ship.heads[c] \/ ship'.heads[c] = H
      BY <2>6
    <3>3. ship'.hashes[c] = ship.hashes[c] \/ ship'.hashes[c] = new
      BY <2>6
    <3>. QED
      BY <2>4, <2>5, <2>6, <3>1, <3>2, <3>3
  <2>. QED
    BY <2>6, <2>7 DEF ShipJoins
<1>4. CASE ship' = NoShip
  BY <1>1, <1>4 DEF NoShip
<1>. QED
  BY <1>0, <1>1, <1>2, <1>3, <1>4, ShipFrame, FlightFrame

\* The state names its upload when it passes over what that carries; and one that
\* is loaded is the state of a closure that counts nothing as shipped yet.
LEMMA MemoryStaysJoined ==
  ASSUME "read" \notin Faults, Linked, Linked', Joined, ~overtaken, ~RebaseStep, [Next]_vars
  PROVE  /\ MemoryJoins'
         /\ \A d \in Db : (Past(state.heads[d]) \subseteq CarriedFrom(state.previous))'
<1>. USE DEF memory
<1>. DEFINE Goal == /\ MemoryJoins'
                    /\ \A d \in Db : (Past(state.heads[d]) \subseteq CarriedFrom(state.previous))'
            Frame == /\ state'.heads = state.heads /\ state'.previous = state.previous
                     /\ shipped' = shipped
<1>. PICK p : p = state.previous
  OBVIOUS
<1>0. /\ TypeOK /\ state \in State /\ shipped \in [Db -> SUBSET Entry]
      /\ p \in DOMAIN blobs \cup {0} /\ CarriedFrom(p)' = CarriedFrom(p)
  BY NamedUploads, CarriedStays DEF Linked, TypeOK
<1>1. ASSUME NEW d \in Db
      PROVE  /\ Past(shipped[d]) \subseteq CarriedFrom(p)
             /\ Past(state.heads[d]) \subseteq CarriedFrom(p)
  BY DEF Joined, MemoryJoins, StatesJoin
<1>2. ASSUME state'.previous = p,
             \A d \in Db : /\ Past(shipped'[d]) \subseteq CarriedFrom(p)
                           /\ Past(state'.heads[d]) \subseteq CarriedFrom(p)
      PROVE  Goal
  BY <1>0, <1>2 DEF MemoryJoins
<1>3. ASSUME Frame PROVE Goal
  BY <1>1, <1>2, <1>3
<1>4. ASSUME LoadAnswer PROVE Goal
  <2>1. shipped' = Nothing
    BY <1>4 DEF LoadAnswer, At, Linked, Control, LoadedOnce
  <2>2. CASE state' = state
    BY <1>1, <1>2, <2>1, <2>2, PastOfNothing DEF Nothing
  <2>3. CASE state' \in saved
    <3>1. PICK s : s = state'
      OBVIOUS
    <3>2. PICK q : q = s.previous
      OBVIOUS
    <3>3. q \in DOMAIN blobs \cup {0} /\ s \in saved
      BY <2>3, <3>1, <3>2, NamedUploads
    <3>4. CarriedFrom(q)' = CarriedFrom(q)
      BY <3>3, CarriedStays
    <3>5. \A d \in Db : Past(s.heads[d]) \subseteq CarriedFrom(q)
      BY <3>2, <3>3 DEF Joined, StatesJoin
    <3>. QED
      BY <2>1, <3>1, <3>2, <3>4, <3>5, PastOfNothing DEF Nothing, MemoryJoins
  <2>. QED
    BY <1>4, <2>2, <2>3 DEF LoadAnswer
<1>5. ASSUME NEW c \in Call, NEW d \in Db, LoadWalk(c, d) PROVE Goal
  <2>1. state' = state /\ shipped' = [shipped EXCEPT ![d] = Past(state.heads[d])]
    BY <1>5 DEF LoadWalk, Past, Unreadable
  <2>2. state.heads[d] \in SUBSET Entry
    BY <1>0 DEF State
  <2>3. Past(Past(state.heads[d])) \subseteq CarriedFrom(p)
    BY <1>1, <2>2, PastOfPast, ReachIsEntries DEF Past
  <2>. QED
    BY <1>0, <1>1, <1>2, <2>1, <2>3
<1>6. ASSUME NEW d \in Db, Unwatch(d) PROVE Goal
  <2>1. state' = state /\ shipped' = [shipped EXCEPT ![d] = {}]
    BY <1>6 DEF Unwatch
  <2>. QED
    BY <1>0, <1>1, <1>2, <2>1, PastOfNothing
<1>7. ASSUME Close PROVE Goal
  <2>1. state' = state /\ shipped' = Nothing
    BY <1>7 DEF Close
  <2>. QED
    BY <1>1, <1>2, <2>1, PastOfNothing DEF Nothing
<1>8. ASSUME Crash PROVE Goal
  BY <1>8, PastOfNothing DEF Crash, EmptyState, Nothing, MemoryJoins, CarriedFrom
<1>9. ASSUME Move PROVE Goal
  <2>1. /\ ship.blob \in DOMAIN blobs /\ blobs[ship.blob].previous = p
        /\ blobs[ship.blob].entries = ship.carry /\ ship.previous = p
        /\ pc["ship"] \in Flight /\ blobs' = blobs
    BY <1>9 DEF Move, At, Linked, Control, Uploading, Ordered, InOrder, Flight, remote
  <2>2. PICK n : n = ship.blob
    OBVIOUS
  <2>3. ChainFrom(n) = {n} \cup ChainFrom(p)
    BY <1>0, <2>1, <2>2, BlobsAreLinear, ChainStep, ChainIsChainOf DEF Linked, ChainFrom
  <2>4. CarriedFrom(n) = ship.carry \cup CarriedFrom(p)
    BY <2>1, <2>2, <2>3 DEF CarriedFrom
  <2>5. CarriedFrom(n)' = CarriedFrom(n)
    BY <2>1, <2>2, CarriedStays
  <2>6. ASSUME NEW d \in Db
        PROVE  /\ Past(ship.heads[d]) \subseteq CarriedFrom(n)
               /\ Past(ship.hashes[d]) \subseteq CarriedFrom(n)
    BY <2>1, <2>4 DEF Joined, ShipJoins
  <2>7. ASSUME NEW d \in Db
        PROVE  /\ state'.heads[d] = state.heads[d] \/ state'.heads[d] = ship.heads[d]
               /\ shipped'[d] = shipped[d] \/ shipped'[d] = shipped[d] \cup ship.hashes[d]
    BY <1>0, <1>9 DEF Move, State
  <2>8. ASSUME NEW d \in Db PROVE Past(shipped'[d]) \subseteq CarriedFrom(n)
    <3>1. shipped[d] \in SUBSET Entry /\ ship.hashes[d] \in SUBSET Entry
      BY <1>0 DEF TypeOK, Ship
    <3>. QED
      BY <1>1, <2>4, <2>6, <2>7, <3>1, PastOfUnion
  <2>9. ASSUME NEW d \in Db PROVE Past(state'.heads[d]) \subseteq CarriedFrom(n)
    BY <1>1, <2>4, <2>6, <2>7
  <2>10. state'.previous = n
    BY <1>0, <1>9, <2>2 DEF Move, State
  <2>. QED
    BY <2>5, <2>8, <2>9, <2>10 DEF MemoryJoins
<1>10. ASSUME CollectStep \/ TimerStep PROVE Frame
  BY <1>10 DEF CollectStep, ShipCount, ShipOwn, Collect, ShipNothing, ShipUpload, TimerStep,
     StartTimers, TimerFires, SettleFires, HearUpdate
<1>11. ASSUME PutBlob \/ (\E s \in Status : Pin(s)) \/ \E c \in Call : Save(c) PROVE Frame
  BY <1>11 DEF PutBlob, Pin, Save
<1>12. ASSUME \/ \E c \in Call : LoadFails(c) \/ SaveFails(c)
              \/ CollectFails \/ PutFails \/ RebaseFails
              \/ \E s \in Status : PinFails(s)
              \/ \E i \in DOMAIN blobs : PinSettles(i)
       PROVE  Frame
  BY <1>12 DEF LoadFails, SaveFails, CollectFails, PutFails, RebaseFails, PinFails,
     PinSettles
<1>13. ASSUME \/ \E d \in Db : (\E e \in Entry : Update(d, e)) \/ Watch(d)
              \/ Flush \/ Start \/ Stop
              \/ \E base \in 0..MaxRebases : Rebase(base)
       PROVE  Frame
  BY <1>13 DEF Update, Watch, Flush, Start, Stop, Rebase
<1>14. ASSUME UNCHANGED vars PROVE Frame
  BY <1>14 DEF vars
<1>. HIDE DEF Frame, Goal
<1>15. ASSUME Progress PROVE Goal
  BY <1>3, <1>4, <1>5, <1>9, <1>10, <1>11, <1>15 DEF Progress, LoadStep, StoreStep
<1>16. ASSUME Failure PROVE Goal
  BY <1>3, <1>8, <1>12, <1>16 DEF Failure
<1>17. ASSUME Application PROVE Goal
  BY <1>3, <1>6, <1>7, <1>13, <1>17 DEF Application
<1>18. Goal
  BY <1>3, <1>14, <1>15, <1>16, <1>17 DEF Next
<1>. QED
  BY <1>18 DEF Goal

\* The copies and the store hold states.
LEMMA StatesStayJoined ==
  ASSUME "read" \notin Faults, Linked, Linked', Joined, ~overtaken, ~RebaseStep, [Next]_vars
  PROVE  StatesJoin'
<1>. USE DEF locals, remote
<1>0. /\ copy \in [Call -> State] /\ "ship" \in Call /\ "rebase" \in Call
  BY DEF Linked, TypeOK, Call
<1>. SUFFICES ASSUME NEW s \in {state'} \cup saved' \cup {copy'[c] : c \in Call}, NEW d \in Db
              PROVE  Past(s.heads[d]) \subseteq CarriedFrom(s.previous)'
  BY DEF StatesJoin
<1>a. s = state' \/ s \in saved' \/ \E c \in Call : s = copy'[c]
  OBVIOUS
<1>. DEFINE Goal  == Past(s.heads[d]) \subseteq CarriedFrom(s.previous)'
            Known == \/ s = state' \/ s = EmptyState
                     \/ s \in saved \cup {copy[c] : c \in Call}
            Frame == saved' = saved /\ copy' = copy
<1>1. ASSUME Known PROVE Goal
  <2>1. CASE s = state'
    BY <2>1, MemoryStaysJoined
  <2>2. CASE s = EmptyState
    BY <2>2, PastOfNothing DEF EmptyState, Nothing
  <2>3. CASE s \in saved \cup {copy[c] : c \in Call}
    <3>1. CarriedFrom(s.previous)' = CarriedFrom(s.previous)
      <4>. PICK q : q = s.previous
        OBVIOUS
      <4>. QED
        BY <2>3, NamedUploads, CarriedStays
    <3>. QED
      BY <2>3, <3>1 DEF Joined, StatesJoin
  <2>. QED
    BY <1>1, <2>1, <2>2, <2>3
<1>2. ASSUME Frame PROVE Known
  BY <1>a, <1>2
<1>3. ASSUME NEW c \in Call, Save(c) \/ SaveFails(c) PROVE Known
  <2>1. saved' \subseteq saved \cup {copy[c]} /\ copy' = [copy EXCEPT ![c] = EmptyState]
    BY <1>3 DEF Save, SaveFails, EndSave
  <2>2. ASSUME NEW b \in Call PROVE copy'[b] = copy[b] \/ copy'[b] = EmptyState
    BY <1>0, <2>1
  <2>. QED
    BY <1>a, <2>1, <2>2
<1>4. ASSUME Crash PROVE Known
  <2>1. saved' = saved /\ \A c \in Call : copy'[c] = EmptyState
    BY <1>4 DEF Crash, NoCopy
  <2>. QED
    BY <1>a, <2>1
<1>5. ASSUME Move PROVE Known
  <2>1. saved' = saved /\ copy' = [copy EXCEPT !["ship"] = state']
    BY <1>5 DEF Move
  <2>2. ASSUME NEW c \in Call PROVE copy'[c] = copy[c] \/ copy'[c] = state'
    BY <1>0, <2>1
  <2>. QED
    BY <1>a, <2>1, <2>2
<1>6. ASSUME LoadStep \/ CollectStep \/ TimerStep \/ Application PROVE Frame
  BY <1>6 DEF LoadStep, LoadAnswer, LoadWalk, CollectStep, ShipCount, ShipOwn, Collect,
     ShipNothing, ShipUpload, TimerStep, StartTimers, TimerFires, SettleFires, HearUpdate,
     Application, Update, Watch, Unwatch, Flush, Start, Stop, Close, Rebase
<1>7. ASSUME \/ PutBlob \/ (\E t \in Status : Pin(t))
             \/ \E c \in Call : LoadFails(c)
             \/ CollectFails \/ PutFails \/ RebaseFails
             \/ \E t \in Status : PinFails(t)
             \/ \E i \in DOMAIN blobs : PinSettles(i)
      PROVE  Frame
  BY <1>7 DEF PutBlob, Pin, LoadFails, CollectFails, PutFails, RebaseFails, PinFails,
     PinSettles
<1>8. ASSUME UNCHANGED vars PROVE Frame
  BY <1>8 DEF vars
<1>. HIDE DEF Frame, Known, Goal
<1>9. Goal
  BY <1>1, <1>2, <1>3, <1>4, <1>5, <1>6, <1>7, <1>8 DEF Next, Progress, StoreStep, Failure
<1>. QED
  BY <1>9 DEF Goal

\* The inductive invariant of the way back, until rebase() is first called.  (A flush
\* between rebase()'s reset and its walk of a database names heads that neither the
\* new chain nor the new base carries yet.)
THEOREM Joining ==
  ASSUME "read" \notin Faults
  PROVE  Spec => [](rebases = 0 => Linked /\ ChainsNumbered /\ Joined)
<1>. DEFINE Inv == rebases = 0 => Linked /\ ChainsNumbered /\ Joined
<1>1. Init => Inv
  <2>. SUFFICES ASSUME Init PROVE Linked /\ ChainsNumbered /\ Joined
    OBVIOUS
  <2>1. TypeOK /\ Control
    BY TypeCorrectInit, ControlInit
  <2>2. BlobsNamed /\ StatesNamed /\ ShipNamed /\ BaseStartsAtOne
    BY DEF Init, BlobsNamed, StatesNamed, ShipNamed, BaseStartsAtOne, RebaseStartsOver,
       EmptyState, NoCopy, Names, Idle, Call, Flight
  <2>3. ChainsNumbered /\ BlobsJoin
    BY DEF Init, ChainsNumbered, BlobsJoin
  <2>4. StatesJoin
    <3>1. \A s \in {state} \cup saved \cup {copy[p] : p \in Call} : s.heads = Nothing
      BY DEF Init, NoCopy, EmptyState
    <3>. QED
      BY <3>1, PastOfNothing DEF StatesJoin, Nothing
  <2>5. MemoryJoins /\ ShipJoins
    BY PastOfNothing DEF Init, MemoryJoins, ShipJoins, Nothing, Idle, Call, Flight
  <2>. QED
    BY <2>1, <2>2, <2>3, <2>4, <2>5 DEF Linked, Joined
<1>2. ASSUME TypeOK, rebases = 0 => Unrebased, Inv, [Next]_vars PROVE Inv'
  <2>. SUFFICES ASSUME rebases' = 0 PROVE (Linked /\ ChainsNumbered /\ Joined)'
    OBVIOUS
  <2>1. Unrebased /\ ~RebaseStep
    BY <1>2, UnrebasedStep
  <2>2. Linked /\ ChainsNumbered /\ Joined
    BY <1>2, <2>1 DEF Unrebased
  <2>3. Linked'
    BY <1>2, <2>2, TypeStep, StaysInControl, BlobsStayNamed, StatesStayNamed,
       ShipStaysNamed DEF Linked
  <2>4. ChainsNumbered'
    BY <1>2, <2>2, <2>3, ChainsStayNumbered
  <2>5. Joined'
    BY <1>2, <2>1, <2>2, <2>3, BlobsStayJoined, MemoryStaysJoined, StatesStayJoined,
       ShipStaysJoined DEF Joined, Unrebased
  <2>. QED
    BY <2>3, <2>4, <2>5
<1>. QED
  BY <1>1, <1>2, TypeCorrect, UntilRebased, PTL DEF Spec

\* The heads that an increment names can be joined from the increments behind it,
\* whatever uploads, pins and saves fail and whenever the process ends.
THEOREM IncrementsJoin ==
  ASSUME "read" \notin Faults PROVE Spec => [](rebases = 0 => EveryIncrementJoins)
<1>1. Linked /\ Joined => EveryIncrementJoins
  <2>. SUFFICES ASSUME Linked, Joined, NEW i \in Kept
                PROVE  Past(blobs[i].heads) \subseteq Carried(i)
    BY DEF EveryIncrementJoins
  <2>1. i \in DOMAIN blobs /\ i # 0
    BY BlobsAreLinear DEF Linked, Kept
  <2>. QED
    BY <2>1 DEF Joined, BlobsJoin, Carried, CarriedFrom, ChainFrom
<1>. QED
  BY <1>1, Joining, PTL

\* Numbers 1 to n, each once, are accepted by assertContiguous().
LEMMA NumberedIsAccepted ==
  ASSUME NEW S, NEW n \in Nat, Numbered(S, n) PROVE Accepted(S)
<1>1. Gaps(S) = {}
  BY DEF Gaps, Numbered
<1>2. Duplicates(S) = {}
  BY DEF Duplicates, Numbered
<1>. QED
  BY <1>1, <1>2 DEF Accepted

\* The chain that the state in the store names, or the one in memory, is accepted by
\* a restore and brings back everything that this state passes over.
THEOREM NamedChainsRestore ==
  ASSUME "read" \notin Faults PROVE Spec => [](rebases = 0 => NamedChainRestores)
<1>1. Linked /\ ChainsNumbered /\ Joined => NamedChainRestores
  <2>. SUFFICES ASSUME Linked, ChainsNumbered, Joined,
                       NEW s \in saved \cup {state}, s.previous # 0
                PROVE  /\ Accepted(Chain(s.previous))
                       /\ Numbers(Chain(s.previous)) = 1..s.sequence
                       /\ Restores(Chain(s.previous), {})
                       /\ \A d \in Db : Past(s.heads[d]) \subseteq Blocks(Chain(s.previous), {})
    BY DEF NamedChainRestores
  <2>. DEFINE i == s.previous
              S == Chain(i)
  <2>1. /\ i \in DOMAIN blobs /\ blobs[i].sequence = s.sequence /\ blobs[i] \in Blob
        /\ s.sequence \in Nat
    BY DEF Linked, StatesNamed, Names, TypeOK, State
  <2>2. S = ChainFrom(i) /\ S \subseteq DOMAIN blobs
    BY DEF ChainFrom, Chain
  <2>3. Numbered(S, s.sequence)
    BY <2>1, <2>2 DEF ChainsNumbered
  <2>4. Accepted(S) /\ Numbers(S) = 1..s.sequence
    BY <2>1, <2>3, NumberedIsAccepted DEF Numbered
  <2>5. CarriedFrom(i) = Blocks(S, {})
    BY <2>2 DEF CarriedFrom, Blocks
  <2>6. \A d \in Db : Past(s.heads[d]) \subseteq Blocks(S, {})
    BY <2>5 DEF Joined, StatesJoin
  <2>7. Restores(S, {})
    <3>. DEFINE F == {blobs[j].heads : j \in S}
    <3>1. F \in SUBSET (SUBSET Entry)
      <4>1. \A j \in S : blobs[j] \in Blob
        BY <2>2 DEF Linked, TypeOK
      <4>. QED
        BY <4>1 DEF Blob
    <3>2. ASSUME NEW j \in S PROVE Past(blobs[j].heads) \subseteq Blocks(S, {})
      <4>1. j \in DOMAIN blobs /\ j # 0
        BY <2>2, BlobsAreLinear DEF Linked
      <4>2. Chain(j) \subseteq S
        BY <2>1, BlobsAreLinear, ChainOfChain, ChainIsChainOf DEF Linked
      <4>3. CarriedFrom(j) \subseteq Blocks(S, {})
        BY <4>1, <4>2 DEF CarriedFrom, ChainFrom, Blocks
      <4>. QED
        BY <4>1, <4>3 DEF Joined, BlobsJoin
    <3>. HIDE DEF S
    <3>. QED
      BY <3>1, <3>2, PastOfMany DEF Restores, HeadsOf
  <2>. QED
    BY <2>4, <2>6, <2>7
<1>. QED
  BY <1>1, Joining, PTL

-----------------------------------------------------------------------------
(* What counts as shipped was uploaded.                                     *)

\* The archive of a watcher whose backend may drop what it was handed.
Archive == Uploaded \cup declared

\* The inductive invariant.
Accounted ==
  /\ TypeOK /\ Uploading
  /\ MemoryIn(Archive) /\ StoreIn(Archive) /\ ShipIn(Archive) /\ RebaseIn(Archive)

\* Uploads stay, and what is declared does.
LEMMA ArchiveGrows ==
  ASSUME TypeOK, Uploading, [Next]_vars PROVE Archive \subseteq Archive'
<1>1. Uploaded \subseteq Uploaded'
  BY BlobsStay DEF Uploaded, Unaltered
<1>2. UNCHANGED declared \/ \E d \in Db : RebaseHeads(d)
  BY PromiseFrame
<1>3. declared \subseteq declared'
  BY <1>2 DEF RebaseHeads
<1>. QED
  BY <1>1, <1>3 DEF Archive

\* Whatever becomes of the pins, and of rebase(), and of databases that come and go
\* during a flight, nothing counts as shipped that was never uploaded.
THEOREM ShippedEntriesWereUploaded ==
  ASSUME "read" \notin Faults PROVE Spec => []ShippedIsUploaded
<1>1. Init => Accounted
  <2>. SUFFICES ASSUME Init PROVE Accounted
    OBVIOUS
  <2>1. TypeOK /\ Uploading
    BY TypeCorrectInit, ControlInit DEF Control
  <2>2. MemoryIn(Archive) /\ StoreIn(Archive) /\ ShipIn(Archive) /\ RebaseIn(Archive)
    BY PastOfNothing DEF Init, MemoryIn, StoreIn, ShipIn, RebaseIn, Nothing, EmptyState,
       NoCopy, NoShip, NoRebase
  <2>. QED
    BY <2>1, <2>2 DEF Accounted
<1>2. ASSUME Accounted, [Next]_vars PROVE Accounted'
  <2>. PICK S, T : S = Archive /\ T = Archive'
    OBVIOUS
  <2>1. S \subseteq T /\ TypeOK' /\ Uploading'
    BY <1>2, ArchiveGrows, TypeStep, StaysUploading DEF Accounted
  <2>2. MemoryIn(S) /\ StoreIn(S) /\ ShipIn(S) /\ RebaseIn(S)
    BY <1>2 DEF Accounted, MemoryIn, StoreIn, ShipIn, RebaseIn
  <2>3. pc["ship"] = "move" => ship.carry \subseteq S
    BY <1>2 DEF Accounted, Uploading, Uploaded, Archive
  <2>4. declared' \subseteq T
    BY DEF Archive
  <2>5. ShipIn(T)' /\ MemoryIn(T)' /\ RebaseIn(T)'
    BY <1>2, <2>1, <2>2, <2>3, <2>4, ShipStaysIn, MemoryStaysIn, RebaseStaysIn DEF Accounted
  <2>6. StoreIn(T)'
    BY <1>2, <2>1, <2>2, <2>5, StoreStaysIn DEF Accounted
  <2>7. (MemoryIn(Archive) /\ StoreIn(Archive) /\ ShipIn(Archive) /\ RebaseIn(Archive))'
    BY <2>5, <2>6 DEF MemoryIn, StoreIn, ShipIn, RebaseIn
  <2>. QED
    BY <2>1, <2>7 DEF Accounted
<1>3. Accounted => ShippedIsUploaded
  BY DEF Accounted, MemoryIn, Archive, ShippedIsUploaded
<1>. QED
  BY <1>1, <1>2, <1>3, PTL DEF Spec

-----------------------------------------------------------------------------
(* Between calls the store holds the state in memory.                       *)

\* The store holds what is in memory but while a flush writes its copy of it.
StoreFollows ==
  /\ \A s, t \in saved : s = t
  /\ loaded /\ pc["ship"] # "save" => saved \subseteq {state}
  /\ pc["ship"] = "save" => copy["ship"] = state

\* It stays so until rebase() is called, if every save completes.
LEMMA StoreStaysFollowing ==
  ASSUME "save" \notin Faults, TypeOK, LoadedOnce, StoreFollows, Unrebased, ~RebaseStep,
         [Next]_vars
  PROVE  StoreFollows'
<1>. USE DEF memory, remote, locals
<1>0. /\ pc \in [Call -> PC] /\ pc' \in [Call -> PC] /\ Call = {"ship", "start", "rebase"}
      /\ copy \in [Call -> State]
  BY TypeStep DEF TypeOK, Call
<1>. DEFINE Frame == /\ saved' = saved /\ state' = state /\ loaded' = loaded
                     /\ copy'["ship"] = copy["ship"]
                     /\ pc'["ship"] = "save" <=> pc["ship"] = "save"
<1>1. ASSUME Frame PROVE StoreFollows'
  BY <1>1 DEF StoreFollows
<1>2. CASE LoadAnswer
  <2>1. pc["ship"] # "save"
    BY <1>0, <1>2 DEF LoadAnswer, At, LoadedOnce
  <2>2. /\ saved' = saved /\ pc'["ship"] # "save"
        /\ saved = {} \/ state' \in saved
    BY <1>0, <1>2, <2>1 DEF LoadAnswer
  <2>. QED
    BY <2>2 DEF StoreFollows
<1>3. CASE Move
  <2>1. /\ saved' = saved /\ pc'["ship"] = "save" /\ copy'["ship"] = state'
    BY <1>0, <1>3 DEF Move
  <2>. QED
    BY <2>1 DEF StoreFollows
<1>4. CASE Save("ship")
  <2>1. /\ saved' = {copy["ship"]} /\ state' = state /\ copy["ship"] = state
        /\ pc'["ship"] # "save"
    BY <1>0, <1>4 DEF Save, At, EndSave, EndFlush, Loading, StoreFollows
  <2>. QED
    BY <2>1 DEF StoreFollows
<1>5. CASE Crash
  BY <1>0, <1>5 DEF Crash, Idle, StoreFollows
<1>6. ASSUME NEW p \in Call, LoadFails(p) PROVE Frame
  BY <1>0, <1>6 DEF LoadFails, At, EndFlush, Loading
<1>7. ASSUME CollectStep \/ TimerStep PROVE Frame
  BY <1>0, <1>7 DEF CollectStep, ShipCount, ShipOwn, Capture, Loaded, At, Collect,
     Collected,
     ShipNothing, EndFlush, Loading, ShipUpload, TimerStep, StartTimers, TimerFires,
     SettleFires, RequestFlush, HearUpdate
<1>8. ASSUME \/ PutBlob \/ (\E s \in Status : Pin(s) \/ PinFails(s))
             \/ CollectFails \/ PutFails \/ RebaseFails
             \/ \E i \in DOMAIN blobs : PinSettles(i)
             \/ \E p \in Call, d \in Db : LoadWalk(p, d)
      PROVE  Frame
  BY <1>0, <1>8 DEF PutBlob, Pin, PinFails, CollectFails, PutFails, RebaseFails, At,
     EndFlush,
     Loading, PinSettles, LoadWalk
<1>9. ASSUME Application PROVE Frame
  BY <1>0, <1>9 DEF Application, Update, Watch, Unwatch, Flush, RequestFlush, Loading,
     Start,
     Stop, Close, Rebase
<1>10. ASSUME UNCHANGED vars PROVE Frame
  BY <1>10 DEF vars
<1>11. ASSUME NEW p \in Call, Save(p) \/ SaveFails(p) PROVE Save("ship")
  BY <1>0, <1>11 DEF Save, SaveFails, Fault, At, Unrebased, LoadedOnce, Before
<1>. HIDE DEF Frame
<1>. QED
  BY <1>1, <1>2, <1>3, <1>4, <1>5, <1>6, <1>7, <1>8, <1>9, <1>10, <1>11
     DEF Next, Progress, LoadStep, StoreStep, Failure

\* Once a flush has returned, what a restart would resume from is what the watcher
\* holds in memory, as long as every save completes and no rebase() was called.
THEOREM StoreHoldsTheState ==
  ASSUME "save" \notin Faults PROVE Spec => [](rebases = 0 => PersistedWhenQuiet)
<1>. DEFINE Inv == LoadedOnce /\ (rebases = 0 => StoreFollows)
<1>1. Init => Inv
  <2>. SUFFICES ASSUME Init PROVE Inv
    OBVIOUS
  <2>1. LoadedOnce
    BY ControlInit DEF Control
  <2>. QED
    BY <2>1 DEF Init, StoreFollows, Idle, Call
<1>2. ASSUME TypeOK, rebases = 0 => Unrebased, Inv, [Next]_vars PROVE Inv'
  <2>1. LoadedOnce'
    BY <1>2, StaysLoadedOnce
  <2>2. ASSUME rebases' = 0 PROVE StoreFollows'
    <3>1. Unrebased /\ ~RebaseStep
      BY <1>2, <2>2, UnrebasedStep
    <3>. QED
      BY <1>2, <3>1, StoreStaysFollowing DEF Unrebased
  <2>. QED
    BY <2>1, <2>2
<1>3. Inv => (rebases = 0 => PersistedWhenQuiet)
  BY DEF StoreFollows, PersistedWhenQuiet, Quiet, Call
<1>. HIDE DEF Inv
<1>. QED
  BY <1>1, <1>2, <1>3, TypeCorrect, UntilRebased, PTL DEF Spec

-----------------------------------------------------------------------------
(* A flush forgets nothing it has not shipped.                              *)

\* What of d is not shipped is counted, or its event is still to fire.
Counted(d) == log[d] \subseteq shipped[d] \/ pending > 0 \/ unheard[d] > 0

\* What of d the flush in flight will neither have shipped nor leave counted is none.
WillCount(d) ==
  \/ log[d] \subseteq shipped[d] \cup ship.hashes[d]
  \/ pending > ship.counted
  \/ unheard[d] > 0

\* The logs and what is shipped of them have no holes, nothing is shipped of a database
\* before load() has walked it, and nothing is in the store before load() has read it.
Resumed ==
  /\ watched = Db
  /\ ~loaded => saved = {}
  /\ \A d \in Db : \A x \in log[d] : next[x] \subseteq log[d]
  /\ \A d \in Db : \A x \in shipped[d] : next[x] \subseteq shipped[d]
  /\ \A d \in Db \ walked : shipped[d] = {} /\ state.heads[d] = {}

\* A flush has counted no more than there is, and has been to every database before it
\* uploads; what it names leaves no hole.
Reckoning ==
  /\ pc["ship"] \in Before \cup {"own"} => ship.visited = {}
  /\ pc["ship"] \in Flight \cup {"own"} => Db \subseteq walked /\ ship.counted <= pending
  /\ pc["ship"] \in {"upload", "pin", "move"} => Db \subseteq ship.visited
  /\ pc["ship"] \in Flight => \A d \in Db :
       /\ \A x \in ship.hashes[d] : next[x] \subseteq shipped[d] \cup ship.hashes[d]
       /\ d \in ship.visited => WillCount(d)

Reckoned == Resumed /\ Reckoning /\ \A d \in Db : Counted(d)

\* The steps that neither move the state nor change what is counted.
LEMMA StaysReckoned ==
  ASSUME Resumed, Reckoning, \A d \in Db : Counted(d),
         UNCHANGED <<log, unheard, shipped, watched, walked, pending, state, loaded>>,
         saved' = saved \/ loaded,
         \/ ship' = NoShip /\ pc'["ship"] \in Before
         \/ /\ ship'.counted = ship.counted /\ ship'.visited = ship.visited
            /\ ship'.hashes = ship.hashes
            /\ \/ pc'["ship"] = pc["ship"]
               \/ pc["ship"] \in Before /\ pc'["ship"] \in Before
               \/ pc["ship"] \in {"upload", "pin"} /\ pc'["ship"] \in {"pin", "move"}
               \/ pc["ship"] = "collect" /\ pc'["ship"] = "upload" /\ Db \subseteq ship.visited
  PROVE  Reckoned'
<1>1. Resumed'
  BY DEF Resumed
<1>2. \A d \in Db : Counted(d)'
  BY DEF Counted
<1>3. CASE ship' = NoShip /\ pc'["ship"] \in Before
  BY <1>1, <1>2, <1>3 DEF Reckoned, Reckoning, Before, Flight, NoShip
<1>4. CASE /\ ship'.counted = ship.counted /\ ship'.visited = ship.visited
           /\ ship'.hashes = ship.hashes
           /\ \/ pc'["ship"] = pc["ship"]
              \/ pc["ship"] \in Before /\ pc'["ship"] \in Before
              \/ pc["ship"] \in {"upload", "pin"} /\ pc'["ship"] \in {"pin", "move"}
              \/ pc["ship"] = "collect" /\ pc'["ship"] = "upload" /\ Db \subseteq ship.visited
  <2>1. \A d \in Db : WillCount(d)' <=> WillCount(d)
    BY <1>4 DEF WillCount
  <2>2. pc'["ship"] \in Flight => pc["ship"] \in Flight
    BY <1>4 DEF Before, Flight
  <2>3. pc'["ship"] \in Flight =>
          \A d \in Db : /\ \A x \in ship'.hashes[d] : next[x] \subseteq shipped'[d] \cup ship'.hashes[d]
                        /\ d \in ship'.visited => WillCount(d)'
    BY <1>4, <2>1, <2>2 DEF Reckoning
  <2>4. /\ pc'["ship"] \in Before \cup {"own"} => ship'.visited = {}
        /\ pc'["ship"] \in Flight \cup {"own"} => Db \subseteq walked' /\ ship'.counted <= pending'
        /\ pc'["ship"] \in {"upload", "pin", "move"} => Db \subseteq ship'.visited
    BY <1>4 DEF Reckoning, Before, Flight
  <2>. QED
    BY <1>1, <1>2, <2>3, <2>4 DEF Reckoned, Reckoning
<1>. QED
  BY <1>3, <1>4

\* An update is counted when its event fires, and until then the event stands for it.
LEMMA UpdateIsReckoned ==
  ASSUME TypeOK, Resumed, Reckoning, \A d \in Db : Counted(d),
         NEW d \in Db, HearUpdate(d) \/ \E e \in Entry : Update(d, e)
  PROVE  Reckoned'
<1>. USE DEF remote, memory, locals
<1>0. /\ log \in [Db -> SUBSET Entry] /\ unheard \in [Db -> Nat] /\ pending \in Nat
      /\ ship.counted \in Nat
  BY DEF TypeOK, Ship
<1>1. UNCHANGED <<saved, state, loaded, watched, walked, shipped, pc, ship>>
  BY DEF HearUpdate, Update
<1>2. CASE HearUpdate(d)
  <2>1. /\ log' = log /\ pending' = pending + 1
        /\ unheard[d] > 0 /\ unheard' = [unheard EXCEPT ![d] = @ - 1]
    BY <1>2 DEF HearUpdate, Resumed
  <2>2. Resumed'
    BY <1>1, <2>1 DEF Resumed
  <2>3. \A c \in Db : Counted(c)'
    BY <1>0, <2>1 DEF Counted
  <2>4. ship.counted <= pending => \A c \in Db : WillCount(c)'
    BY <1>0, <1>1, <2>1 DEF WillCount
  <2>. QED
    BY <1>0, <1>1, <2>1, <2>2, <2>3, <2>4 DEF Reckoned, Reckoning, Flight
<1>3. ASSUME NEW e \in Entry, Update(d, e) PROVE Reckoned'
  <2>1. /\ log' = [log EXCEPT ![d] = @ \cup Past({e})] /\ pending' = pending
        /\ unheard' = [unheard EXCEPT ![d] = @ + 1]
    BY <1>3 DEF Update
  <2>2. \A x \in Past({e}) : next[x] \subseteq Past({e})
    BY PastIsClosed
  <2>3. ASSUME NEW c \in Db, NEW x \in log'[c] PROVE next[x] \subseteq log'[c]
    BY <1>0, <2>1, <2>2 DEF Resumed
  <2>4. Resumed'
    BY <1>1, <2>3 DEF Resumed
  <2>5. \A c \in Db : \/ c = d /\ unheard'[c] > 0
                      \/ log'[c] = log[c] /\ unheard'[c] = unheard[c]
    BY <1>0, <2>1
  <2>6. \A c \in Db : Counted(c)' /\ (WillCount(c) => WillCount(c)')
    BY <1>1, <2>1, <2>5 DEF Counted, WillCount
  <2>7. Reckoning'
    BY <1>1, <2>1, <2>6 DEF Reckoning
  <2>. QED
    BY <2>4, <2>6, <2>7 DEF Reckoned
<1>. QED
  BY <1>2, <1>3

\* load() finds nothing in the store and nothing in the state before the first flush,
\* for nothing was ever saved.
LEMMA LoadIsReckoned ==
  ASSUME "read" \notin Faults, TypeOK, LoadedOnce, Resumed, Reckoning,
         \A d \in Db : Counted(d), LoadStep
  PROVE  Reckoned'
<1>. USE DEF orbit, remote
<1>0. pc \in [Call -> PC] /\ "ship" \in Call /\ shipped \in [Db -> SUBSET Entry]
  BY DEF TypeOK, Call
<1>1. CASE LoadAnswer
  <2>1. ~loaded /\ saved = {}
    BY <1>1 DEF LoadAnswer, At, LoadedOnce, Resumed
  <2>2. /\ UNCHANGED <<log, unheard, saved, state, watched, walked, shipped, pending, ship>>
        /\ loaded' /\ pc'["ship"] = IF pc["ship"] = "load" THEN "walk" ELSE pc["ship"]
        /\ pc["ship"] \in {"idle", "wait", "load"}
    <3>1. pc["ship"] \in {"idle", "wait", "load"}
      BY <1>0, <2>1 DEF LoadedOnce, Flight, PC
    <3>. QED
      BY <1>0, <1>1, <2>1, <3>1 DEF LoadAnswer
  <2>3. Resumed' /\ \A d \in Db : Counted(d)'
    BY <2>2 DEF Resumed, Counted
  <2>4. Reckoning'
    BY <2>2 DEF Reckoning, Before, Flight
  <2>. QED
    BY <2>3, <2>4 DEF Reckoned
<1>2. ASSUME NEW p \in Call, NEW d \in Db, LoadWalk(p, d) PROVE Reckoned'
  <2>1. d \notin walked /\ shipped[d] = {} /\ state.heads[d] = {}
    BY <1>2 DEF LoadWalk, Resumed
  <2>2. Reach(state.heads[d], {}) = {}
    BY <2>1, PastOfNothing DEF Past
  <2>3. shipped' = shipped
    BY <1>0, <1>2, <2>1, <2>2, NothingUnread DEF LoadWalk
  <2>4. /\ UNCHANGED <<log, unheard, saved, state, loaded, watched, pending, pc, ship>>
        /\ walked \subseteq walked'
    BY <1>2 DEF LoadWalk, locals
  <2>5. Resumed' /\ \A c \in Db : Counted(c)'
    BY <2>3, <2>4 DEF Resumed, Counted
  <2>6. \A c \in Db : WillCount(c)' <=> WillCount(c)
    BY <2>3, <2>4 DEF WillCount
  <2>7. Reckoning'
    BY <2>3, <2>4, <2>6 DEF Reckoning
  <2>. QED
    BY <2>5, <2>7 DEF Reckoned
<1>. QED
  BY <1>1, <1>2 DEF LoadStep

\* A flush counts what there is before its walk, walks down from the heads to what is
\* shipped, and takes off no more than it counted.
LEMMA FlushIsReckoned ==
  ASSUME "read" \notin Faults, TypeOK, Blank, Resumed, Reckoning,
         \A d \in Db : Counted(d), CollectStep \/ Move
  PROVE  Reckoned'
<1>. USE DEF orbit, remote, memory, locals
<1>0. /\ pc \in [Call -> PC] /\ "ship" \in Call /\ ship \in Ship /\ pending \in Nat
      /\ shipped \in [Db -> SUBSET Entry] /\ log \in [Db -> SUBSET Entry] /\ state \in State
  BY DEF TypeOK, Call
<1>. DEFINE Rest == /\ UNCHANGED <<log, unheard, saved, loaded, watched, walked>>
<1>1. ASSUME ShipCount \/ ShipOwn PROVE Reckoned'
  <2>1. /\ Rest /\ UNCHANGED <<shipped, pending, state>>
        /\ ship'.visited = ship.visited /\ ship'.hashes = ship.hashes
        /\ pc["ship"] \in {"walk", "own"} /\ pc'["ship"] \in {"own", "collect"}
        /\ ship'.counted = IF pc["ship"] = "walk" THEN pending ELSE ship.counted
        /\ pc["ship"] = "walk" => Db \subseteq walked
    BY <1>0, <1>1 DEF ShipCount, ShipOwn, Loaded, At, Capture, Ship, Resumed
  <2>2. ship'.visited = {} /\ ship'.hashes = Nothing
    BY <2>1 DEF Reckoning, Blank, Before
  <2>3. Resumed' /\ \A d \in Db : Counted(d)'
    BY <2>1 DEF Resumed, Counted
  <2>4. Db \subseteq walked' /\ ship'.counted <= pending'
    BY <1>0, <2>1 DEF Reckoning
  <2>5. \A d \in Db : ship'.hashes[d] = {}
    BY <2>2 DEF Nothing
  <2>. QED
    BY <2>1, <2>2, <2>3, <2>4, <2>5 DEF Reckoned, Reckoning, Before, Flight
<1>2. ASSUME NEW d \in Db, Collect(d) PROVE Reckoned'
  <2>. DEFINE new == Walk(Heads(log[d]), shipped[d], {})
  <2>1. /\ Rest /\ UNCHANGED <<shipped, pending, state, pc>>
        /\ pc["ship"] = "collect"
    BY <1>2 DEF Collect, At
  <2>2. ship' = [ship EXCEPT
          !.visited   = @ \cup {d},
          !.heads[d]  = IF new = {} THEN @ ELSE Heads(log[d]),
          !.hashes[d] = IF new = {} THEN @ ELSE new,
          !.carry     = @ \cup (new \ {})]
    BY <1>2, NothingUnread DEF Collect
  <2>3. /\ log[d] \subseteq shipped[d] \cup new
        /\ \A x \in new : next[x] \ shipped[d] \subseteq new
    <3>1. log[d] \in SUBSET Entry /\ shipped[d] \in SUBSET Entry /\ Heads(log[d]) \in SUBSET Entry
      BY <1>0 DEF Heads
    <3>2. log[d] \subseteq shipped[d] \cup new
      BY <3>1, WalkMissesNothing DEF Resumed
    <3>3. \A x \in new : next[x] \ shipped[d] \subseteq new
      BY <3>1, WalkIsClosed
    <3>. QED
      BY <3>2, <3>3
  <2>. HIDE DEF new
  <2>4. /\ ship'.visited = ship.visited \cup {d} /\ ship'.counted = ship.counted
        /\ ship'.hashes = [ship.hashes EXCEPT ![d] = IF new = {} THEN @ ELSE new]
        /\ ship.hashes \in [Db -> SUBSET Entry]
    BY <1>0, <2>2 DEF Ship
  <2>5. ASSUME NEW c \in Db
        PROVE  /\ \A x \in ship'.hashes[c] : next[x] \subseteq shipped'[c] \cup ship'.hashes[c]
               /\ c \in ship'.visited => WillCount(c)'
    <3>1. CASE c # d
      <4>1. ship'.hashes[c] = ship.hashes[c] /\ (c \in ship'.visited => c \in ship.visited)
        BY <2>4, <3>1
      <4>. QED
        BY <2>1, <2>4, <4>1 DEF Reckoning, WillCount, Flight
    <3>2. CASE c = d /\ new = {}
      <4>1. ship'.hashes[d] = ship.hashes[d] /\ log[d] \subseteq shipped[d]
        BY <2>3, <2>4, <3>2
      <4>. QED
        BY <2>1, <3>2, <4>1 DEF Reckoning, WillCount, Flight
    <3>3. CASE c = d /\ new # {}
      <4>1. ship'.hashes[d] = new
        BY <2>4, <3>3
      <4>. QED
        BY <2>1, <2>3, <3>3, <4>1 DEF WillCount
    <3>. QED
      BY <3>1, <3>2, <3>3
  <2>6. Resumed' /\ \A c \in Db : Counted(c)'
    BY <2>1 DEF Resumed, Counted
  <2>. QED
    BY <2>1, <2>4, <2>5, <2>6 DEF Reckoned, Reckoning, Before, Flight
<1>3. CASE ShipUpload
  <2>1. /\ Rest /\ UNCHANGED <<shipped, pending, state, ship>>
        /\ pc["ship"] = "collect" /\ pc'["ship"] = "upload" /\ Db \subseteq ship.visited
    BY <1>0, <1>3 DEF ShipUpload, Collected, At, Resumed
  <2>. QED
    BY <2>1, StaysReckoned
<1>4. ASSUME pc["ship"] \in Flight, Db \subseteq ship.visited, pending' = Uncounted,
             NEW d \in Db, log' = log, unheard' = unheard,
             shipped'[d] = shipped[d] \cup ship.hashes[d]
      PROVE  Counted(d)'
  <2>1. WillCount(d)
    BY <1>4 DEF Reckoning
  <2>2. pending > ship.counted => pending' > 0
    BY <1>0, <1>4 DEF Uncounted, Ship
  <2>. QED
    BY <1>4, <2>1, <2>2 DEF WillCount, Counted
<1>5. CASE ShipNothing
  <2>1. /\ Rest /\ UNCHANGED <<shipped, state>> /\ pending' = Uncounted
        /\ pc["ship"] = "collect" /\ Db \subseteq ship.visited /\ Described = {}
        /\ ship' = NoShip /\ pc'["ship"] \in Before
    BY <1>0, <1>5 DEF ShipNothing, Collected, At, Resumed, EndFlush, Loading, Before
  <2>2. \A d \in Db : shipped[d] \cup ship.hashes[d] = shipped[d]
    BY <2>1 DEF Described
  <2>3. \A d \in Db : Counted(d)'
    BY <1>4, <2>1, <2>2 DEF Flight
  <2>4. Resumed'
    BY <2>1 DEF Resumed
  <2>. QED
    BY <2>1, <2>3, <2>4 DEF Reckoned, Reckoning, NoShip, Before, Flight
<1>6. CASE Move
  <2>1. /\ Rest /\ pending' = Uncounted /\ ship' = ship
        /\ pc["ship"] = "move" /\ pc'["ship"] = "save"
    BY <1>0, <1>6 DEF Move, At
  <2>2. Db \subseteq ship.visited /\ Db \subseteq walked
    BY <2>1 DEF Reckoning, Flight
  <2>3. shipped' = [d \in Db |-> IF d \in Described THEN shipped[d] \cup ship.hashes[d]
                                                    ELSE shipped[d]]
    BY <1>6 DEF Move, Resumed, Described
  <2>4. \A d \in Db : shipped'[d] = shipped[d] \cup ship.hashes[d]
    BY <2>3 DEF Described
  <2>5. \A d \in Db : Counted(d)'
    BY <1>4, <2>1, <2>2, <2>4 DEF Flight
  <2>6. \A d \in Db : \A x \in shipped'[d] : next[x] \subseteq shipped'[d]
    BY <2>1, <2>4 DEF Resumed, Reckoning, Flight
  <2>7. Resumed'
    BY <2>1, <2>2, <2>6 DEF Resumed
  <2>. QED
    BY <2>1, <2>5, <2>7 DEF Reckoned, Reckoning, Before, Flight
<1>. QED
  BY <1>1, <1>2, <1>3, <1>5, <1>6 DEF CollectStep

\* The rest of a flush, the timers and the calls leave what is counted alone.
LEMMA RestIsReckoned ==
  ASSUME "watch" \notin Calls, "crash" \notin Faults, TypeOK, LoadedOnce, Resumed, Reckoning,
         \A d \in Db : Counted(d), ~LoadStep, ~CollectStep, ~Move, ~RebaseStep,
         ~RebaseFails,
         [Next]_vars, ~\E d \in Db : HearUpdate(d) \/ \E e \in Entry : Update(d, e)
  PROVE  Reckoned'
<1>. USE DEF orbit, remote, memory, locals
<1>0. /\ pc \in [Call -> PC] /\ Call = {"ship", "start", "rebase"}
  BY DEF TypeOK, Call
<1>. DEFINE Still == /\ UNCHANGED <<log, unheard, shipped, watched, walked, pending, state, loaded>>
                     /\ saved' = saved \/ loaded
            Bare == /\ ship'.counted = ship.counted /\ ship'.visited = ship.visited
                    /\ ship'.hashes = ship.hashes
            Moves == \/ pc'["ship"] = pc["ship"]
                     \/ pc["ship"] \in Before /\ pc'["ship"] \in Before
                     \/ pc["ship"] \in {"upload", "pin"} /\ pc'["ship"] \in {"pin", "move"}
            Ends == ship' = NoShip /\ pc'["ship"] \in Before
<1>1. ASSUME Still, Ends \/ (Bare /\ Moves) PROVE Reckoned'
  BY <1>1, StaysReckoned
<1>2. ASSUME EndFlush PROVE Ends
  BY <1>0, <1>2 DEF EndFlush, Loading, Before
<1>3. ASSUME NEW p \in Call, Save(p) \/ SaveFails(p) \/ LoadFails(p) PROVE Reckoned'
  <2>1. Still
    BY <1>3 DEF Save, SaveFails, LoadFails, At, LoadedOnce
  <2>2. EndFlush \/ (p # "ship" /\ pc' = [pc EXCEPT ![p] = "idle"] /\ ship' = ship)
    BY <1>3 DEF Save, SaveFails, EndSave, LoadFails
  <2>. QED
    BY <1>0, <1>1, <1>2, <2>1, <2>2
<1>4. ASSUME CollectFails \/ PutFails \/ \E s \in Status : PinFails(s) PROVE Still /\ Ends
  BY <1>2, <1>4 DEF CollectFails, PutFails, PinFails
<1>5. ASSUME \/ PutBlob \/ (\E s \in Status : Pin(s))
             \/ \E i \in DOMAIN blobs : PinSettles(i)
      PROVE  Still /\ Bare /\ Moves
  BY <1>0, <1>5 DEF PutBlob, Pin, PinSettles, At, TypeOK, Ship
<1>6. ASSUME StartTimers \/ TimerFires \/ SettleFires PROVE Still /\ Bare /\ Moves
  BY <1>0, <1>6 DEF StartTimers, Loaded, TimerFires, SettleFires, RequestFlush, Loading,
     Before
<1>7. ASSUME Flush \/ Start \/ Stop \/ \E base \in 0..MaxRebases : Rebase(base)
      PROVE  Still /\ Bare /\ Moves
  BY <1>0, <1>7 DEF Flush, RequestFlush, Loading, Before, Start, Stop, Rebase
<1>8. ASSUME UNCHANGED vars PROVE Still /\ Bare /\ Moves
  BY <1>8 DEF vars
<1>9. /\ ~Crash /\ ~Close
      /\ \A d \in Db : ~Watch(d) /\ ~Unwatch(d)
  BY DEF Crash, Fault, Close, Watch, Unwatch
<1>. HIDE DEF Still, Bare, Moves, Ends
<1>10. CASE Progress
  BY <1>1, <1>3, <1>5, <1>6, <1>10 DEF Progress, StoreStep, TimerStep
<1>11. CASE Failure
  BY <1>1, <1>3, <1>4, <1>5, <1>9, <1>11 DEF Failure
<1>12. CASE Application
  BY <1>1, <1>7, <1>9, <1>12 DEF Application
<1>. QED
  BY <1>1, <1>8, <1>10, <1>11, <1>12 DEF Next

\* While the watcher runs and nothing is in flight, an entry that is not shipped is
\* counted: the timers have a reason to flush.  Until rebase() is called, for a watcher
\* whose databases stay watched and that does not start over; a restart counts nothing
\* of what was written before it, and leaves that to the flush that start() schedules.
THEOREM UnshippedIsCounted ==
  ASSUME "watch" \notin Calls, {"crash", "read"} \cap Faults = {}
  PROVE  Spec => [](rebases = 0 => UnshippedIsPending)
<1>. DEFINE Inv == LoadedOnce /\ Blank /\ (rebases = 0 => Reckoned)
<1>1. Init => Inv
  <2>. SUFFICES ASSUME Init PROVE Inv
    OBVIOUS
  <2>1. LoadedOnce /\ Blank
    BY ControlInit DEF Control
  <2>2. Resumed /\ \A d \in Db : Counted(d)
    BY DEF Init, Resumed, Counted, Nothing, EmptyState
  <2>3. Reckoning
    BY DEF Init, Reckoning, Idle, Call, Before, Flight, NoShip
  <2>. QED
    BY <2>1, <2>2, <2>3 DEF Reckoned
<1>2. ASSUME TypeOK, rebases = 0 => Unrebased, Inv, [Next]_vars PROVE Inv'
  <2>1. LoadedOnce' /\ Blank'
    BY <1>2, StaysLoadedOnce, StaysBlank
  <2>2. ASSUME rebases' = 0 PROVE Reckoned'
    <3>1. Unrebased /\ ~RebaseStep /\ ~RebaseFails
      BY <1>2, <2>2, UnrebasedStep
    <3>2. LoadedOnce /\ Blank /\ Resumed /\ Reckoning /\ \A d \in Db : Counted(d)
      BY <1>2, <3>1 DEF Unrebased, Reckoned
    <3>. QED
      BY <1>2, <3>1, <3>2, UpdateIsReckoned, LoadIsReckoned, FlushIsReckoned, RestIsReckoned
  <2>. QED
    BY <2>1, <2>2
<1>3. Inv => (rebases = 0 => UnshippedIsPending)
  BY DEF Reckoned, Resumed, Counted, UnshippedIsPending
<1>. HIDE DEF Inv
<1>. QED
  BY <1>1, <1>2, <1>3, TypeCorrect, UntilRebased, PTL DEF Spec

=============================================================================
