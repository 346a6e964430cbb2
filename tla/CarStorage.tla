------------------------------ MODULE CarStorage ------------------------------
(***************************************************************************)
(* lib/car-storage.js: an OrbitDB storage whose entries live in memory and *)
(* are written, all of them, to one CAR file.  A flush writes <name>.tmp,  *)
(* unlinks <name>.car and renames; it reads the entries and resets the     *)
(* dirty flag on different sides of several awaits.                        *)
(*                                                                         *)
(* A file is {} where there is none, and {what it would load as}.  Two     *)
(* flushes that write one temporary file at once mix their bytes; the      *)
(* model keeps the last one's.                                             *)
(***************************************************************************)
EXTENDS Naturals, FiniteSets, Functions

CONSTANTS Key, Val,
          Caller,           \* calls under way at once: 1 where every call is awaited
          FlushThreshold,   \* flushThreshold, autoFlush on
          MaxCarOps, MaxCarFaults

None  == {}                 \* no such file
Empty == [x \in {} |-> x]

VARIABLES
  cache,        \* Map of entries
  modified,     \* isModified
  ops,          \* operationCount, capped where it has the same effect
  flush,        \* Caller -> the flush a call is in: [step, blocks]
  carFile,      \* <name>.car
  tmpFile,      \* <name>.tmp.car
  saved,        \* what the last flush that ended wrote
  clean,        \* nothing was called while a flush was under way, no entry was skipped
  carDone, carFaults   \* bounds: calls made, faults met

carVars == <<cache, modified, ops, flush, carFile, tmpFile, saved, clean, carDone, carFaults>>

Contents == UNION {[ks -> Val] : ks \in SUBSET Key}
NoFlush  == [step |-> "none", blocks |-> Empty]
Busy     == {c \in Caller : flush[c].step # "none"}
Load(file) == IF file = None THEN Empty ELSE CHOOSE entries \in file : TRUE  \* loadFromCAR

CarInit ==
  /\ cache = Empty /\ modified = FALSE /\ ops = 0
  /\ flush = [c \in Caller |-> NoFlush]
  /\ carFile = None /\ tmpFile = None
  /\ saved = None /\ clean = TRUE
  /\ carDone = 0 /\ carFaults = 0

Calls(c) == flush[c].step = "none" /\ carDone < MaxCarOps /\ carDone' = carDone + 1
Fault    == carFaults < MaxCarFaults /\ carFaults' = carFaults + 1

\* flushToCAR's first lines, run before its first await: nothing to do, or
\* createWriteStream empties the temporary file.
BeginFlush(c, dirty, entries) ==
  IF dirty /\ entries # Empty
    THEN /\ flush' = [flush EXCEPT ![c] = [step |-> "open", blocks |-> Empty]]
         /\ tmpFile' = {Empty}
    ELSE UNCHANGED <<flush, tmpFile>>

\* checkAutoFlush
CheckAutoFlush(c, entries) ==
  /\ ops' = IF ops < FlushThreshold THEN ops + 1 ELSE ops
  /\ IF ops + 1 >= FlushThreshold
       THEN BeginFlush(c, TRUE, entries)
       ELSE UNCHANGED <<flush, tmpFile>>

\* put: the entry, the flag and the count in one go, then perhaps a flush.
PutEntry(c, k, v) ==
  /\ Calls(c)
  /\ cache' = [x \in DOMAIN cache \cup {k} |-> IF x = k THEN v ELSE cache[x]]
  /\ modified' = TRUE
  /\ CheckAutoFlush(c, cache')
  /\ clean' = (clean /\ Busy = {})
  /\ UNCHANGED <<carFile, saved, carFaults>>

\* A mutant of DelEntry: it does not mark the storage as changed.
M_DelEntryQuiet(c, k) ==
  /\ Calls(c)
  /\ k \in DOMAIN cache
  /\ cache' = Restrict(cache, DOMAIN cache \ {k})
  /\ CheckAutoFlush(c, cache')
  /\ clean' = (clean /\ Busy = {})
  /\ UNCHANGED <<modified, carFile, saved, carFaults>>

\* del: of an entry that is there.
DelEntry(c, k) ==
  /\ Calls(c)
  /\ k \in DOMAIN cache
  /\ cache' = Restrict(cache, DOMAIN cache \ {k})
  /\ modified' = TRUE
  /\ CheckAutoFlush(c, cache')
  /\ clean' = (clean /\ Busy = {})
  /\ UNCHANGED <<carFile, saved, carFaults>>

\* persist(), close()
Persist(c) ==
  /\ Calls(c)
  /\ BeginFlush(c, modified, cache)
  /\ clean' = (clean /\ Busy = {})
  /\ UNCHANGED <<cache, modified, ops, carFile, saved, carFaults>>

\* clear(): the entries and the file; operationCount stays.
ClearEntries(c) ==
  /\ Calls(c)
  /\ cache' = Empty /\ modified' = TRUE /\ carFile' = None
  /\ clean' = (clean /\ Busy = {})
  /\ UNCHANGED <<ops, flush, tmpFile, saved, carFaults>>

-----------------------------------------------------------------------------
(* A flush, await by await. *)

\* After the imports: the entries of that moment.  One that cannot be encoded
\* is left out with a warning; where none is left nothing is written.
Walk(c) ==
  /\ flush[c].step = "open"
  /\ \E left \in SUBSET DOMAIN cache :
       /\ IF left = {} THEN UNCHANGED carFaults ELSE Cardinality(left) = 1 /\ Fault
       /\ clean' = (clean /\ left = {})
       /\ LET blocks == Restrict(cache, DOMAIN cache \ left)
          IN  flush' = [flush EXCEPT ![c] = IF blocks = Empty THEN NoFlush
                                            ELSE [step |-> "write", blocks |-> blocks]]
  /\ UNCHANGED <<cache, modified, ops, carFile, tmpFile, saved, carDone>>

\* The writer is closed and the stream has finished.  A file that another flush
\* renamed meanwhile is <name>.car now.
WriteBlocks(c) ==
  /\ flush[c].step = "write"
  /\ flush' = [flush EXCEPT ![c].step = "unlink"]
  /\ IF tmpFile # None
       THEN tmpFile' = {flush[c].blocks} /\ UNCHANGED carFile
       ELSE /\ carFile' = IF carFile = None THEN None ELSE {flush[c].blocks}
            /\ UNCHANGED tmpFile
  /\ UNCHANGED <<cache, modified, ops, saved, clean, carDone, carFaults>>

\* The disk refuses: the flush throws, what is dirty stays dirty.
WriteBlocksFail(c) ==
  /\ flush[c].step = "write"
  /\ Fault
  /\ flush' = [flush EXCEPT ![c] = NoFlush]
  /\ UNCHANGED <<cache, modified, ops, carFile, tmpFile, saved, clean, carDone>>

Unlink(c) ==
  /\ flush[c].step = "unlink"
  /\ carFile' = None
  /\ flush' = [flush EXCEPT ![c].step = "rename"]
  /\ UNCHANGED <<cache, modified, ops, tmpFile, saved, clean, carDone, carFaults>>

\* Renamed, and everything in memory counts as written; or there is no
\* temporary file any more, and the flush throws.
Rename(c) ==
  /\ flush[c].step = "rename"
  /\ flush' = [flush EXCEPT ![c] = NoFlush]
  /\ IF tmpFile # None
       THEN /\ carFile' = tmpFile /\ tmpFile' = None
            /\ saved' = carFile'
            /\ modified' = FALSE /\ ops' = 0
       ELSE UNCHANGED <<carFile, tmpFile, saved, modified, ops>>
  /\ UNCHANGED <<cache, clean, carDone, carFaults>>

\* The process ends and another one opens the storage.
Reopen ==
  /\ Fault
  /\ cache' = Load(carFile)
  /\ modified' = FALSE /\ ops' = 0
  /\ flush' = [c \in Caller |-> NoFlush]
  /\ clean' = (clean /\ \A c \in Caller : flush[c].step # "rename")
  /\ UNCHANGED <<carFile, tmpFile, saved, carDone>>

CarNext ==
  \/ \E c \in Caller :
       \/ \E k \in Key : (\E v \in Val : PutEntry(c, k, v)) \/ DelEntry(c, k)
       \/ Persist(c) \/ ClearEntries(c)
       \/ Walk(c) \/ WriteBlocks(c) \/ WriteBlocksFail(c) \/ Unlink(c) \/ Rename(c)
  \/ Reopen

CarSpec == CarInit /\ [][CarNext]_carVars

-----------------------------------------------------------------------------
(* Properties. *)

\* Where every call is awaited and every entry encodes, nothing that was written
\* is lost but by clear(): outside a flush the file is what the last flush wrote
\* or gone, and an open storage that has no changes holds exactly what the next
\* process will load (car-storage.js:95-200, 55-90).
FlushedIsSaved ==
  clean =>
    /\ carFile \in {None, saved}
    /\ Busy = {} /\ ~modified => Load(carFile) = cache

\* "Closes the CAR storage and ensures all data is persisted"
\* (car-storage.js:324): with no flush left under way and no fault, a call of
\* persist() or close() leaves a file that loads as what the storage holds.
CloseSaves ==
  [][\A c \in Caller :
       Persist(c) /\ Busy' = {} => Load(carFile') = cache']_carVars

=============================================================================
