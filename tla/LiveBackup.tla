----------------------------- MODULE LiveBackup -----------------------------
(***************************************************************************)
(* The incremental live backup of lib/live-backup.js: a watcher beside     *)
(* open OrbitDB databases that ships what was written since the last       *)
(* increment as one blob, and keeps a few hashes per database as the only  *)
(* state that survives a restart.                                          *)
(*                                                                         *)
(* createLiveBackup() is single-threaded JavaScript, so a step of this     *)
(* specification is the code between two awaits.  Three calls can be in    *)
(* progress at once, each with its own place in the code: the flush in     *)
(* flight ("ship"), start() waiting for its load ("start"), and rebase()   *)
(* ("rebase").  They share `state`, `watched` and `pending`, and all of    *)
(* them begin with load().                                                 *)
(***************************************************************************)
EXTENDS Integers, Sequences, LogGraph

CONSTANTS
  Db,          \* the OrbitDB databases of the application
  After,       \* createLiveBackup's `after`; 0 for none
  Every,       \* BOOLEAN: is an `every` timer wanted?
  Retains,     \* BOOLEAN: does the backend keep what it is handed (handle.retained)?
  Keep,        \* BOOLEAN: `keep` is on and the backend has pinCid()
  Confirm,     \* BOOLEAN: a `confirm` callback waits for the pin to be settled
  OwnBlocks,   \* BOOLEAN: may `blocks` hand over blocks of the application's own?
  Calls,       \* which calls the application makes besides rebase(), a subset of CallKind
  Faults,      \* which faults may happen, a subset of FaultKind
  MaxFaults,   \* bound: how many faults in one behaviour
  MaxBlobs,    \* bound: how many uploads the backend accepts
  MaxRebases   \* bound: how many calls of rebase()

CallKind  == {"start", "stop", "flush", "watch"}
FaultKind == {"load", "own", "heads", "put", "pin", "save", "crash", "read"}

ASSUME OptionAssumption ==
  /\ After \in Nat
  /\ Every \in BOOLEAN /\ Retains \in BOOLEAN /\ Keep \in BOOLEAN
  /\ Confirm \in BOOLEAN /\ OwnBlocks \in BOOLEAN
ASSUME BoundAssumption ==
  /\ Calls \subseteq CallKind /\ Faults \subseteq FaultKind
  /\ MaxFaults \in Nat /\ MaxBlobs \in Nat /\ MaxRebases \in Nat

VARIABLES
  \* OrbitDB, which outlives the watcher
  log,         \* log[d]: the entries of d's oplog
  unheard,     \* unheard[d]: updates appended whose "update" event is still to fire
  \* the state store and the storage backend, which outlive it too
  saved,       \* {} or {s}: what store.save() last completed with
  blobs,       \* the uploads, in order; a blob's id is its index
  \* the closure of createLiveBackup
  state,       \* sequence, base, previous and the heads shipped per database
  loaded,      \* has store.load() been taken in?
  watched,     \* the databases in the `watched` map
  walked,      \* those whose `loaded` flag is set
  shipped,     \* shipped[d]: the hashes counted as shipped
  running, pending, again, timer, settling,
  \* the calls in progress
  pc,          \* where each call is
  ship,        \* the locals of ship()
  rebase,      \* the locals of rebase()
  copy,        \* copy[p]: the JSON copy p's save() is writing
  \* history and bounds
  declared,    \* entries a rebase() declared to be backed up by other means
  overtaken,   \* has a flush gone ahead of a rebase() that waited for the one before?
  faults, rebases

orbit  == <<log, unheard>>
remote == <<saved, blobs>>
memory == <<state, loaded, watched, walked, shipped>>
timers == <<running, timer, settling>>
locals == <<pc, ship, rebase, copy>>
bounds == <<declared, overtaken, faults, rebases>>
vars   == <<orbit, remote, memory, timers, pending, again, locals, bounds>>

Call   == {"ship", "start", "rebase"}
Status == {"kept", "pending", "loose"}
PC     == {"idle", "wait", "load", "walk", "own", "collect", "upload", "pin",
           "move", "rewalk", "reach", "save"}

State == [sequence: Nat, base: Nat, previous: Nat, heads: [Db -> SUBSET Entry]]
Blob  == [sequence: Nat, base: Nat, previous: Nat, entries: SUBSET Entry,
          heads: SUBSET Entry, status: Status]
Ship  == [counted: Nat, sequence: Nat, base: Nat, previous: Nat, own: BOOLEAN,
          visited: SUBSET Db, heads: [Db -> SUBSET Entry],
          hashes: [Db -> SUBSET Entry], carry: SUBSET Entry, blob: Nat]
Rebasing == [base: Nat, behind: BOOLEAN, visited: SUBSET Db, at: SUBSET Db,
             heads: SUBSET Entry]

Nothing    == [d \in Db |-> {}]
EmptyState == [sequence |-> 0, base |-> 0, previous |-> 0, heads |-> Nothing]
NoShip     == [counted |-> 0, sequence |-> 0, base |-> 0, previous |-> 0,
               own |-> FALSE, visited |-> {}, heads |-> Nothing,
               hashes |-> Nothing, carry |-> {}, blob |-> 0]
NoRebase   == [base |-> 0, behind |-> FALSE, visited |-> {}, at |-> {}, heads |-> {}]
Idle       == [p \in Call |-> "idle"]
NoCopy     == [p \in Call |-> EmptyState]

-----------------------------------------------------------------------------
(* What of a database's log cannot be read during a walk.                    *)

Unreadable(d) == IF "read" \in Faults THEN SUBSET log[d] ELSE {{}}

-----------------------------------------------------------------------------
(* Faults are drawn from one budget.                                        *)

Fault(kind) ==
  /\ kind \in Faults
  /\ faults < MaxFaults
  /\ faults' = faults + 1

\* Where a call is once it has called load(): store.load() comes first unless
\* the state is in already.
Loading == IF loaded THEN "walk" ELSE "load"

\* load() has returned to the call p, which goes on in the same turn of the event
\* loop.  Nothing that another call waits for arrives in between.
Loaded(p) == pc[p] = "walk" /\ watched \subseteq walked
Drained   == \A p \in Call : ~Loaded(p)

\* What the call p awaits at this place arrives.
At(p, place) == pc[p] = place /\ Drained

\* flush(): one flush in flight; a request during one is remembered.
RequestFlush ==
  /\ Drained
  /\ IF pc["ship"] = "idle"
       THEN pc' = [pc EXCEPT !["ship"] = Loading] /\ UNCHANGED again
       ELSE again' = TRUE /\ UNCHANGED pc

\* The `finally` of flush(): the flight is over, a remembered request starts
\* the next one if the watcher is running, and a rebase() that waited goes on, after
\* it: the flush has then overtaken the rebase().
EndFlush ==
  /\ pc' = [pc EXCEPT !["ship"]   = IF again /\ running THEN Loading ELSE "idle",
                      !["rebase"] = IF @ = "wait" THEN Loading ELSE @]
  /\ rebase' = [rebase EXCEPT !.behind = pc["rebase"] = "wait" /\ again /\ running]
  /\ overtaken' = (overtaken \/ rebase'.behind)
  /\ again' = FALSE
  /\ ship' = NoShip

\* scheduleFlush(): one settle timer at a time, and only while running.
Settle == settling' = (settling \/ running)

-----------------------------------------------------------------------------
(* The databases.  A local put appends an entry that points at the heads; a *)
(* replicated head arrives with everything behind it.  Both are in the log  *)
(* before the "update" event fires.                                         *)

Update(d, e) ==
  /\ e \notin log[d]
  /\ \A c \in Db \ {d} : Past({e}) \cap log[c] = {}
  /\ log' = [log EXCEPT ![d] = @ \cup Past({e})]
  /\ unheard' = [unheard EXCEPT ![d] = @ + 1]
  /\ UNCHANGED <<remote, memory, timers, pending, again, locals, bounds>>

\* onUpdate(), for a database that is watched when the event fires.
HearUpdate(d) ==
  /\ unheard[d] > 0
  /\ unheard' = [unheard EXCEPT ![d] = @ - 1]
  /\ IF d \in watched
       THEN /\ pending' = pending + 1
            /\ IF After > 0 /\ pending' >= After THEN Settle ELSE UNCHANGED settling
       ELSE UNCHANGED <<pending, settling>>
  /\ UNCHANGED <<log, remote, memory, running, timer, again, locals, bounds>>

Watch(d) ==
  /\ "watch" \in Calls
  /\ d \notin watched
  /\ watched' = watched \cup {d}
  /\ UNCHANGED <<orbit, remote, state, loaded, walked, shipped, timers, pending,
                 again, locals, bounds>>

\* The map entry goes, its `shipped` set and `loaded` flag with it.  A later
\* watch() makes a new one, which an iteration already under way still visits.
Unwatch(d) ==
  /\ "watch" \in Calls
  /\ d \in watched
  /\ watched' = watched \ {d}
  /\ walked' = walked \ {d}
  /\ shipped' = [shipped EXCEPT ![d] = {}]
  /\ ship' = [ship EXCEPT !.visited = @ \ {d}]
  /\ rebase' = [rebase EXCEPT !.visited = @ \ {d}]
  /\ UNCHANGED <<orbit, remote, state, loaded, timers, pending, again, pc, copy,
                 bounds>>

-----------------------------------------------------------------------------
(* load(), shared by the three calls.                                       *)

\* store.load() answers all that asked: a call that asked second is answered
\* before the first has gone as far as a save.
LoadAnswer ==
  /\ \E p \in Call : At(p, "load")
  /\ IF saved = {} THEN UNCHANGED state ELSE state' \in saved
  /\ loaded' = TRUE
  /\ pc' = [p \in Call |-> IF pc[p] = "load" THEN "walk" ELSE pc[p]]
  /\ UNCHANGED <<orbit, remote, watched, walked, shipped, timers, pending, again,
                 ship, rebase, copy, bounds>>

\* Mutant of LoadWalk: from the log's heads instead of the heads the state names.
M_LoadWalkFromLog(p, d) ==
  /\ At(p, "walk") /\ d \in watched \ walked
  /\ shipped' = [shipped EXCEPT ![d] = Past(Heads(log[d]))]
  /\ walked' = walked \cup {d}
  /\ UNCHANGED <<orbit, remote, state, loaded, watched, timers, pending, again,
                 locals, bounds>>

\* reachable() has been walked for one database.
LoadWalk(p, d) ==
  /\ At(p, "walk") /\ d \in watched \ walked
  /\ \E lost \in Unreadable(d) :
       shipped' = [shipped EXCEPT ![d] = Reach(state.heads[d], lost)]
  /\ walked' = walked \cup {d}
  /\ UNCHANGED <<orbit, remote, state, loaded, watched, timers, pending, again,
                 locals, bounds>>

\* store.load() rejects, or its state is of a version this build does not read.
LoadFails(p) ==
  /\ At(p, "load")
  /\ Fault("load")
  /\ IF p = "ship" THEN EndFlush
     ELSE pc' = [pc EXCEPT ![p] = "idle"] /\ UNCHANGED <<again, ship, rebase, overtaken>>
  /\ UNCHANGED <<orbit, remote, memory, timers, pending, copy, declared, rebases>>

-----------------------------------------------------------------------------
(* flush() and the steps of ship().                                         *)

\* The application calls flush(), or stop({ flush: true }) does.
Flush ==
  /\ "flush" \in Calls
  /\ RequestFlush
  /\ UNCHANGED <<orbit, remote, memory, timers, pending, ship, rebase, copy, bounds>>

TimerFires ==
  /\ timer /\ pending > 0
  /\ RequestFlush
  /\ UNCHANGED <<orbit, remote, memory, timers, pending, ship, rebase, copy, bounds>>

SettleFires ==
  /\ settling
  /\ settling' = FALSE
  /\ RequestFlush
  /\ UNCHANGED <<orbit, remote, memory, running, timer, pending, ship, rebase, copy,
                 bounds>>

\* The arguments of collectIncrement(), evaluated from the state of this moment.
Capture(own) ==
  /\ pc' = [pc EXCEPT !["ship"] = "collect"]
  /\ ship' = [ship EXCEPT !.counted = IF pc["ship"] = "walk" THEN pending ELSE @,
                          !.own = own,
                          !.sequence = state.sequence + 1,
                          !.base = state.base,
                          !.previous = state.previous]

\* Pending is counted before the walk, so that an update during it stays
\* pending; ownBlocks() is awaited when there is one.
ShipCount ==
  /\ Loaded("ship") /\ (Loaded("rebase") => rebase.behind)
  /\ IF OwnBlocks
       THEN /\ pc' = [pc EXCEPT !["ship"] = "own"]
            /\ ship' = [ship EXCEPT !.counted = pending]
       ELSE Capture(FALSE)
  /\ UNCHANGED <<orbit, remote, memory, timers, pending, again, rebase, copy, bounds>>

ShipOwn ==
  /\ At("ship", "own")
  /\ \E own \in BOOLEAN : Capture(own)
  /\ UNCHANGED <<orbit, remote, memory, timers, pending, again, rebase, copy, bounds>>

\* One database's turn in collectIncrement(): what its walk meets is named as
\* shipped, and carried when its bytes could be read.
Collect(d) ==
  /\ At("ship", "collect") /\ d \in watched \ ship.visited
  /\ \E lost, unread \in Unreadable(d) :
       LET new == Walk(Heads(log[d]), shipped[d], lost) IN
       ship' = [ship EXCEPT
         !.visited   = @ \cup {d},
         !.heads[d]  = IF new = {} THEN @ ELSE Heads(log[d]),
         !.hashes[d] = IF new = {} THEN @ ELSE new,
         !.carry     = @ \cup (new \ unread)]
  /\ UNCHANGED <<orbit, remote, memory, timers, pending, again, pc, rebase, copy, bounds>>

\* ownBlocks() rejects, or log.heads() of the next database: the flush fails before
\* anything was uploaded.
CollectFails ==
  /\ \/ At("ship", "own") /\ Fault("own")
     \/ At("ship", "collect") /\ ~(watched \subseteq ship.visited) /\ Fault("heads")
  /\ EndFlush
  /\ UNCHANGED <<orbit, remote, memory, timers, pending, copy, declared, rebases>>

Described == {d \in Db : ship.hashes[d] # {}}
Collected == At("ship", "collect") /\ watched \subseteq ship.visited

\* Mutants of Uncounted: what fires during the walk is forgotten; a rebase() that
\* zeroed `pending` under the flush is not reckoned with.
M_UncountedNone == 0
M_UncountedBare == pending - ship.counted

Uncounted == IF pending > ship.counted THEN pending - ship.counted ELSE 0

\* Nothing is new: ship() returns null.
ShipNothing ==
  /\ Collected /\ Described = {} /\ ~ship.own
  /\ pending' = Uncounted
  /\ EndFlush
  /\ UNCHANGED <<orbit, remote, memory, timers, copy, declared, faults, rebases>>

ShipUpload ==
  /\ Collected /\ (Described # {} \/ ship.own)
  /\ pc' = [pc EXCEPT !["ship"] = "upload"]
  /\ UNCHANGED <<orbit, remote, memory, timers, pending, again, ship, rebase, copy, bounds>>

Increment ==
  [sequence |-> ship.sequence, base |-> ship.base, previous |-> ship.previous,
   entries |-> ship.carry, heads |-> UNION {ship.heads[d] : d \in Db},
   status |-> IF Retains THEN "kept" ELSE "loose"]

\* Mutant of PutBlob: the chain's link moves with the upload, before the pin.
M_PutBlobMovesPrevious ==
  /\ At("ship", "upload") /\ Len(blobs) < MaxBlobs
  /\ blobs' = Append(blobs, Increment)
  /\ ship' = [ship EXCEPT !.blob = Len(blobs) + 1]
  /\ state' = [state EXCEPT !.previous = Len(blobs) + 1]
  /\ pc' = [pc EXCEPT !["ship"] = IF Retains \/ ~Keep THEN "move" ELSE "pin"]
  /\ UNCHANGED <<orbit, saved, loaded, watched, walked, shipped, timers, pending,
                 again, rebase, copy, bounds>>

PutBlob ==
  /\ At("ship", "upload") /\ Len(blobs) < MaxBlobs
  /\ blobs' = Append(blobs, Increment)
  /\ ship' = [ship EXCEPT !.blob = Len(blobs) + 1]
  /\ pc' = [pc EXCEPT !["ship"] = IF Retains \/ ~Keep THEN "move" ELSE "pin"]
  /\ UNCHANGED <<orbit, saved, memory, timers, pending, again, rebase, copy, bounds>>

\* putBlob() throws: the backend was not reached, or its answer was lost.
PutFails ==
  /\ At("ship", "upload")
  /\ Fault("put")
  /\ \/ UNCHANGED blobs
     \/ Len(blobs) < MaxBlobs /\ blobs' = Append(blobs, Increment)
  /\ EndFlush
  /\ UNCHANGED <<orbit, saved, memory, timers, pending, copy, declared, rebases>>

\* Mutant of Pin: a rejected pin is not thrown.
M_PinRejected(status) ==
  /\ At("ship", "pin")
  /\ status # "pending" \/ ~Confirm
  /\ blobs' = [blobs EXCEPT ![ship.blob].status = status]
  /\ pc' = [pc EXCEPT !["ship"] = "move"]
  /\ UNCHANGED <<orbit, saved, memory, timers, pending, again, ship, rebase, copy, bounds>>

\* pinCid() and confirm().  Without confirm() a pin may still be undecided.
Pin(status) ==
  /\ At("ship", "pin")
  /\ status = "kept" \/ (status = "pending" /\ ~Confirm)
  /\ blobs' = [blobs EXCEPT ![ship.blob].status = status]
  /\ pc' = [pc EXCEPT !["ship"] = "move"]
  /\ UNCHANGED <<orbit, saved, memory, timers, pending, again, ship, rebase, copy, bounds>>

\* The store rejects the pin, or the call throws with the pin placed or not.
PinFails(status) ==
  /\ At("ship", "pin") /\ status \in {"loose", "kept"}
  /\ Fault("pin")
  /\ blobs' = [blobs EXCEPT ![ship.blob].status = status]
  /\ EndFlush
  /\ UNCHANGED <<orbit, saved, memory, timers, pending, copy, declared, rebases>>

\* The backend decides a pin the flush did not wait for.
PinSettles(i) ==
  /\ i \in DOMAIN blobs /\ blobs[i].status = "pending"
  /\ \E status \in {"kept", "loose"} : blobs' = [blobs EXCEPT ![i].status = status]
  /\ UNCHANGED <<orbit, saved, memory, timers, pending, again, locals, bounds>>

\* Mutants of Move: the heads of this moment, instead of those the walk started
\* from; the copy for the store taken before the state moves.
M_MoveToHeadsOfNow ==
  LET moved == Described \cap watched IN
  /\ At("ship", "move")
  /\ state' = [state EXCEPT
       !.sequence = ship.sequence,
       !.previous = ship.blob,
       !.heads = [d \in Db |-> IF d \in moved THEN Heads(log[d]) ELSE @[d]]]
  /\ shipped' = [d \in Db |->
       IF d \in moved THEN shipped[d] \cup ship.hashes[d] ELSE shipped[d]]
  /\ pending' = Uncounted
  /\ copy' = [copy EXCEPT !["ship"] = state']
  /\ pc' = [pc EXCEPT !["ship"] = "save"]
  /\ UNCHANGED <<orbit, remote, loaded, watched, walked, timers, again, ship, rebase,
                 bounds>>
M_MoveCopiesFirst ==
  LET moved == Described \cap watched IN
  /\ At("ship", "move")
  /\ state' = [state EXCEPT
       !.sequence = ship.sequence,
       !.previous = ship.blob,
       !.heads = [d \in Db |-> IF d \in moved THEN ship.heads[d] ELSE @[d]]]
  /\ shipped' = [d \in Db |->
       IF d \in moved THEN shipped[d] \cup ship.hashes[d] ELSE shipped[d]]
  /\ pending' = Uncounted
  /\ copy' = [copy EXCEPT !["ship"] = state]
  /\ pc' = [pc EXCEPT !["ship"] = "save"]
  /\ UNCHANGED <<orbit, remote, loaded, watched, walked, timers, again, ship, rebase,
                 bounds>>

\* The bytes are out of the house: the state moves, all of it at once, and
\* save() takes its copy.  A database unwatched meanwhile stays where it was.
Move ==
  LET moved == Described \cap watched IN
  /\ At("ship", "move")
  /\ state' = [state EXCEPT
       !.sequence = ship.sequence,
       !.previous = ship.blob,
       !.heads = [d \in Db |-> IF d \in moved THEN ship.heads[d] ELSE @[d]]]
  /\ shipped' = [d \in Db |->
       IF d \in moved THEN shipped[d] \cup ship.hashes[d] ELSE shipped[d]]
  /\ pending' = Uncounted
  /\ copy' = [copy EXCEPT !["ship"] = state']
  /\ pc' = [pc EXCEPT !["ship"] = "save"]
  /\ UNCHANGED <<orbit, remote, loaded, watched, walked, timers, again, ship, rebase,
                 bounds>>

\* save() returns to the flush, or to rebase().
EndSave(p) ==
  /\ IF p = "ship"
       THEN EndFlush
       ELSE /\ pc' = [pc EXCEPT ![p] = "idle"]
            /\ rebase' = NoRebase
            /\ UNCHANGED <<again, ship, overtaken>>
  /\ copy' = [copy EXCEPT ![p] = EmptyState]

\* store.save() completes; the flush, or the rebase(), with it.
Save(p) ==
  /\ At(p, "save")
  /\ saved' = {copy[p]}
  /\ EndSave(p)
  /\ UNCHANGED <<orbit, blobs, memory, timers, pending, declared, faults, rebases>>

SaveFails(p) ==
  /\ At(p, "save")
  /\ Fault("save")
  /\ EndSave(p)
  /\ UNCHANGED <<orbit, remote, memory, timers, pending, declared, rebases>>

-----------------------------------------------------------------------------
(* rebase().  Base 0 stands for a call without one.                         *)

Rebase(base) ==
  /\ pc["rebase"] = "idle" /\ rebases < MaxRebases
  /\ base \in {0, rebases + 1}
  /\ rebases' = rebases + 1
  /\ rebase' = [NoRebase EXCEPT !.base = base]
  /\ pc' = [pc EXCEPT !["rebase"] = IF pc["ship"] = "idle" THEN Loading ELSE "wait"]
  /\ UNCHANGED <<orbit, remote, memory, timers, pending, again, ship, copy, declared,
                 overtaken, faults>>

\* Mutants of RebaseReset: the sequence is not started over; the link to the
\* increments of the old base is not cut.
M_RebaseKeepsSequence ==
  /\ Loaded("rebase") /\ (Loaded("ship") => ~rebase.behind)
  /\ state' = IF rebase.base = 0 THEN state
              ELSE [EmptyState EXCEPT !.base = rebase.base, !.sequence = state.sequence]
  /\ pc' = [pc EXCEPT !["rebase"] = "rewalk"]
  /\ UNCHANGED <<orbit, remote, loaded, watched, walked, shipped, timers, pending,
                 again, ship, rebase, copy, bounds>>
M_RebaseKeepsPrevious ==
  /\ Loaded("rebase") /\ (Loaded("ship") => ~rebase.behind)
  /\ state' = IF rebase.base = 0 THEN state
              ELSE [EmptyState EXCEPT !.base = rebase.base, !.previous = state.previous]
  /\ pc' = [pc EXCEPT !["rebase"] = "rewalk"]
  /\ UNCHANGED <<orbit, remote, loaded, watched, walked, shipped, timers, pending,
                 again, ship, rebase, copy, bounds>>

\* With a base, the numbering starts over from it.  Of a flush and a rebase()
\* that both come back from load(), the one that called it first goes on first:
\* rebase(), unless the flush it waited for started that one as it ended.
RebaseReset ==
  /\ Loaded("rebase") /\ (Loaded("ship") => ~rebase.behind)
  /\ state' = IF rebase.base = 0 THEN state
              ELSE [EmptyState EXCEPT !.base = rebase.base]
  /\ pc' = [pc EXCEPT !["rebase"] = "rewalk"]
  /\ UNCHANGED <<orbit, remote, loaded, watched, walked, shipped, timers, pending,
                 again, ship, rebase, copy, bounds>>

\* One database's turn begins: log.heads() answers.  What is in the log by now is
\* what the caller has backed up by other means.
RebaseHeads(d) ==
  /\ At("rebase", "rewalk") /\ d \in watched \ rebase.visited
  /\ declared' = declared \cup Past(Heads(log[d]))
  /\ rebase' = [rebase EXCEPT !.visited = @ \cup {d}, !.at = {d}, !.heads = Heads(log[d])]
  /\ pc' = [pc EXCEPT !["rebase"] = "reach"]
  /\ UNCHANGED <<orbit, remote, memory, timers, pending, again, ship, copy, overtaken,
                 faults, rebases>>

\* reachable() has walked from those heads, and it counts as shipped.  The map entry
\* that gets the set is gone when the database was unwatched meanwhile; the state
\* gets the heads all the same.
RebaseWalk(d) ==
  /\ At("rebase", "reach") /\ d \in rebase.at
  /\ \E lost \in Unreadable(d) :
       shipped' = [shipped EXCEPT
         ![d] = IF d \in rebase.visited THEN Reach(rebase.heads, lost) ELSE @]
  /\ state' = [state EXCEPT !.heads[d] = rebase.heads]
  /\ rebase' = [rebase EXCEPT !.at = {}, !.heads = {}]
  /\ pc' = [pc EXCEPT !["rebase"] = "rewalk"]
  /\ UNCHANGED <<orbit, remote, loaded, watched, walked, timers, pending, again, ship,
                 copy, bounds>>

\* log.heads() rejects: the rebase() does, with what it wrote to the state so far left
\* in memory and unsaved.
RebaseFails ==
  /\ At("rebase", "rewalk") /\ ~(watched \subseteq rebase.visited)
  /\ Fault("heads")
  /\ pc' = [pc EXCEPT !["rebase"] = "idle"]
  /\ rebase' = NoRebase
  /\ UNCHANGED <<orbit, remote, memory, timers, pending, again, ship, copy, declared,
                 overtaken, rebases>>

RebaseSave ==
  /\ At("rebase", "rewalk") /\ watched \subseteq rebase.visited
  /\ pending' = 0
  /\ copy' = [copy EXCEPT !["rebase"] = state]
  /\ pc' = [pc EXCEPT !["rebase"] = "save"]
  /\ UNCHANGED <<orbit, remote, memory, timers, again, ship, rebase, bounds>>

-----------------------------------------------------------------------------
(* start(), stop(), close(), and the end of the process.                    *)

\* One start() at a time: a second one during the first's load only arms what
\* the first arms.
Start ==
  /\ "start" \in Calls
  /\ ~running /\ pc["start"] = "idle"
  /\ running' = TRUE
  /\ pc' = [pc EXCEPT !["start"] = Loading]
  /\ UNCHANGED <<orbit, remote, memory, timer, settling, pending, again, ship, rebase,
                 copy, bounds>>

\* Mutant of StartTimers: the first flush is scheduled, the interval is not armed.
M_StartTimersOnce ==
  /\ Loaded("start")
  /\ IF After > 0 \/ Every THEN Settle ELSE UNCHANGED settling
  /\ pc' = [pc EXCEPT !["start"] = "idle"]
  /\ UNCHANGED <<orbit, remote, memory, running, timer, pending, again, ship, rebase,
                 copy, bounds>>

StartTimers ==
  /\ Loaded("start")
  /\ timer' = (timer \/ (running /\ Every))
  /\ IF After > 0 \/ Every THEN Settle ELSE UNCHANGED settling
  /\ pc' = [pc EXCEPT !["start"] = "idle"]
  /\ UNCHANGED <<orbit, remote, memory, running, pending, again, ship, rebase, copy,
                 bounds>>

StopTimers == running' = FALSE /\ timer' = FALSE /\ settling' = FALSE

Stop ==
  /\ "stop" \in Calls
  /\ running
  /\ StopTimers
  /\ UNCHANGED <<orbit, remote, memory, pending, again, locals, bounds>>

\* stop(), then every database is let go.
Close ==
  /\ {"stop", "watch"} \subseteq Calls
  /\ watched # {}
  /\ StopTimers
  /\ watched' = {} /\ walked' = {} /\ shipped' = Nothing
  /\ ship' = [ship EXCEPT !.visited = {}]
  /\ rebase' = [rebase EXCEPT !.visited = {}]
  /\ UNCHANGED <<orbit, remote, state, loaded, pending, again, pc, copy, bounds>>

\* The process ends at any point and the application comes back: the logs, the
\* state store and the blobs are all that is left, and createLiveBackup() sets
\* up the rest anew.
Crash ==
  /\ Fault("crash")
  /\ state' = EmptyState /\ loaded' = FALSE
  /\ watched' = Db /\ walked' = {} /\ shipped' = Nothing
  /\ StopTimers
  /\ pending' = 0 /\ again' = FALSE
  /\ pc' = Idle /\ ship' = NoShip /\ rebase' = NoRebase /\ copy' = NoCopy
  /\ unheard' = [d \in Db |-> 0]
  /\ UNCHANGED <<log, remote, declared, overtaken, rebases>>

-----------------------------------------------------------------------------
Init ==
  /\ log = Nothing /\ unheard = [d \in Db |-> 0]
  /\ saved = {} /\ blobs = <<>>
  /\ state = EmptyState /\ loaded = FALSE
  /\ watched = Db /\ walked = {} /\ shipped = Nothing
  /\ running = FALSE /\ timer = FALSE /\ settling = FALSE
  /\ pending = 0 /\ again = FALSE
  /\ pc = Idle /\ ship = NoShip /\ rebase = NoRebase /\ copy = NoCopy
  /\ declared = {} /\ overtaken = FALSE /\ faults = 0 /\ rebases = 0

LoadStep    == LoadAnswer \/ \E p \in Call, d \in Db : LoadWalk(p, d)
CollectStep == ShipCount \/ ShipOwn \/ (\E d \in Db : Collect(d)) \/ ShipNothing
               \/ ShipUpload
StoreStep   == PutBlob \/ (\E s \in Status : Pin(s)) \/ Move \/ (\E p \in Call : Save(p))
RebaseStep  == RebaseReset \/ (\E d \in Db : RebaseHeads(d) \/ RebaseWalk(d)) \/ RebaseSave
TimerStep   == StartTimers \/ TimerFires \/ SettleFires \/ (\E d \in Db : HearUpdate(d))

\* What happens by itself once a call is under way.
Progress == LoadStep \/ CollectStep \/ StoreStep \/ RebaseStep \/ TimerStep

Failure ==
  \/ \E p \in Call : LoadFails(p) \/ SaveFails(p)
  \/ CollectFails \/ PutFails \/ RebaseFails
  \/ \E s \in Status : PinFails(s)
  \/ \E i \in DOMAIN blobs : PinSettles(i)
  \/ Crash

Application ==
  \/ \E d \in Db : (\E e \in Entry : Update(d, e)) \/ Watch(d) \/ Unwatch(d)
  \/ Flush \/ Start \/ Stop \/ Close
  \/ \E base \in 0..MaxRebases : Rebase(base)

Next == Progress \/ Failure \/ Application

Spec == Init /\ [][Next]_vars

\* The event loop runs every continuation and every timer, and what is asked of
\* the state store and of the backend is answered once the faults are spent.
Fairness ==
  /\ WF_vars(LoadStep) /\ WF_vars(CollectStep) /\ WF_vars(StoreStep) /\ WF_vars(RebaseStep)
  /\ WF_vars(StartTimers) /\ WF_vars(TimerFires) /\ WF_vars(SettleFires)
  /\ \A d \in Db : WF_vars(HearUpdate(d))

FairSpec == Spec /\ Fairness

-----------------------------------------------------------------------------
(* What the watcher is for.                                                 *)

\* Every variable of createLiveBackup keeps its type; `pending` in particular
\* never goes below zero, though a rebase() may zero it under a flush that counted.
TypeOK ==
  /\ log \in [Db -> SUBSET Entry] /\ unheard \in [Db -> Nat]
  /\ saved \subseteq State /\ blobs \in Seq(Blob)
  /\ state \in State /\ loaded \in BOOLEAN
  /\ watched \subseteq Db /\ walked \subseteq Db /\ shipped \in [Db -> SUBSET Entry]
  /\ running \in BOOLEAN /\ again \in BOOLEAN /\ timer \in BOOLEAN /\ settling \in BOOLEAN
  /\ pending \in Nat
  /\ pc \in [Call -> PC] /\ ship \in Ship /\ copy \in [Call -> State]
  /\ rebase \in Rebasing
  /\ declared \subseteq Entry /\ overtaken \in BOOLEAN /\ faults \in Nat /\ rebases \in Nat

Kept     == {i \in DOMAIN blobs : blobs[i].status = "kept"}
Stored   == UNION {blobs[i].entries : i \in Kept}
Uploaded == UNION {blobs[i].entries : i \in DOMAIN blobs}

\* What the application can get back: from an increment the backend keeps, or
\* from the backup it made before it called rebase().
Safe == Stored \cup declared

\* An entry counts as shipped, and everything behind it does, only when it can
\* be had back: a failed upload, a refused pin or a crash between the upload and
\* the save never leaves an entry that the next walk passes over and no backend
\* keeps.  This is the rule of ship() that the state moves only once the bytes
\* are out of the house.
ShippedIsStored == \A d \in Db : Past(shipped[d]) \subseteq Safe

\* The same of the state in the store, which a restart resumes from: load()
\* counts everything behind the saved heads as shipped, so all of it is safe,
\* whatever the log has grown to between the walk and the save.
PersistedIsStored == \A s \in saved : \A d \in Db : Past(s.heads[d]) \subseteq Safe

\* Without a confirm() the backend may still drop what ship() moved past.  What
\* remains true is that nothing counts as shipped that was never uploaded, also
\* with flushes, rebase(), late answers of the store, and databases that come
\* and go during a flight.
ShippedIsUploaded == \A d \in Db : Past(shipped[d]) \subseteq Uploaded \cup declared

\* The increments a restore that is handed i finds over `previous`, and what they carry.
Chain(i) ==
  {j \in DOMAIN blobs : \A X \in SUBSET DOMAIN blobs :
     (i \in X /\ \A x \in X : blobs[x].previous \in X \cup {0}) => j \in X}
Carried(i) == UNION {blobs[j].entries : j \in Chain(i)}

\* The heads a kept increment names can be joined from the increments behind it
\* and the base: joinIncrements() walks back from them and meets no entry that
\* is missing, though a flush before it failed or a crash made two increments
\* of one number.
EveryIncrementJoins ==
  \A i \in Kept : Past(blobs[i].heads) \subseteq Carried(i) \cup declared

Links(S) ==
  \A i \in S : LET b == blobs[i] IN
    IF b.sequence = 1 THEN b.previous = 0
    ELSE b.previous \in S /\ blobs[b.previous].sequence = b.sequence - 1

OneBase(S) ==
  \A i \in S : blobs[i].previous # 0 => blobs[blobs[i].previous].base = blobs[i].base

\* Every kept increment links to a kept one numbered one less, down to number 1:
\* failed flushes and restarts tear no hole in the chain that restoreFromIncrements()
\* walks back over `previous`.  And the chain stays on one base, unless a flush
\* overtook a rebase() that waited.
ChainLinks == Links(Kept) /\ (~overtaken => OneBase(Kept))

\* The same of all uploads, kept or not, across a rebase(): also the flush that
\* overtakes one, and carries the old numbers into the new base, leaves no hole.
UploadsLink == Links(DOMAIN blobs) /\ (~overtaken => OneBase(DOMAIN blobs))

\* "With `base`, a full backup was just made: the increments start again at 1 from
\* it", as the comment of rebase() has it.
RebaseStartsOver ==
  \A i \in DOMAIN blobs : blobs[i].base # 0 =>
    \E j \in DOMAIN blobs : blobs[j].base = blobs[i].base /\ blobs[j].sequence = 1

\* It does, however the calls interleave, unless the flush that rebase() waited for
\* started the next one as it ended.
BaseStartsAtOne == ~overtaken => RebaseStartsOver

Quiet == \A p \in Call : pc[p] = "idle"

\* Between calls the store holds the state that is in memory: a flush that failed
\* has moved neither, so a restart forgets nothing and repeats nothing.
PersistedWhenQuiet == Quiet /\ loaded /\ saved # {} => saved = {state}

\* While the watcher runs and nothing is in flight, an entry that is not shipped
\* has been counted in `pending`, so that a timer will see to it: an update that
\* fires during the walk stays pending for the next flush.
UnshippedIsPending ==
  running /\ Quiet /\ ~settling =>
    \A d \in watched : log[d] \subseteq shipped[d] \/ pending > 0 \/ unheard[d] > 0

\* Every entry of a watched database reaches the backend and is kept, unless the
\* watcher is stopped: a failed flush is retried, at the latest by the interval.
EverythingShips ==
  \A d \in Db, e \in Entry :
    (running /\ d \in watched /\ e \in log[d]) ~> (e \in Stored \/ ~running)

\* The abstract promise: counted and resumed never get ahead of archived, step by
\* step.
Promise == INSTANCE BackupPromise WITH
  written  <- UNION {log[d] : d \in Db},
  archived <- Safe,
  counted  <- UNION {Past(shipped[d]) : d \in Db},
  resumed  <- UNION {Past(s.heads[d]) : d \in Db, s \in saved}

\* createLiveBackup() implements BackupPromise.
KeepsPromise == Promise!Spec

=============================================================================
