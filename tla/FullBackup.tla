----------------------------- MODULE FullBackup -----------------------------
(***************************************************************************)
(* A full backup of databases that are in use, and the way back.            *)
(* lib/extract-blocks.js reads a database block by block.  bundleDatabases()*)
(* and lib/app-backup.js put several databases in one file that states      *)
(* their heads; backupDatabaseCAR() of lib/backup-car.js stores one         *)
(* database as a CAR, and metadata that states no heads.  Either comes back *)
(* through restoreFromBlocks() of lib/restore-cid.js: every block into the  *)
(* blockstore, each database reopened, its heads joined.                    *)
(*                                                                         *)
(* log.values() and log.heads() are two awaits with a get() per block in    *)
(* between, so a write may come after the one and before the other.         *)
(***************************************************************************)
EXTENDS LogGraph, Sequences, Naturals

CONSTANTS
  Db,          \* the databases
  home,        \* home[e]: the database that the entry e names in its id
  Manifest,    \* Manifest[d]: the block that the address of d names
  Access,      \* Access[d]: the access controller named in that manifest
  identity,    \* identity[e]: the block of the identity that signed e
  Own,         \* the identities whose bytes the database carries itself
  Shapes,      \* the backups made: "bundle" (heads stated), "car" (none)
  Callers,     \* who puts a bundle back: "app", "direct"
  RequireHeads,\* the options requireHeads and fetchBytes of a direct
  SecondSource,\*   restoreFromBlocks()
  Faults,      \* of "read", "upload", "fetch", "quota"
  MaxFaults, MaxBackups  \* bounds

ASSUME HomeAssumption ==
  /\ home \in [Entry -> Db]
  /\ \A e \in Entry : \A f \in next[e] : home[f] = home[e]

\* No other block has the CID of an entry.
ASSUME BlockAssumption ==
  /\ \A d \in Db : Manifest[d] \notin Entry /\ Access[d] \notin Entry
  /\ \A e \in Entry : identity[e] \notin Entry

ASSUME CallerAssumption == Shapes \subseteq {"bundle", "car"} /\ Callers \subseteq {"app", "direct"}

Block == Entry \cup {Manifest[d] : d \in Db} \cup {Access[d] : d \in Db}
               \cup {identity[e] : e \in Entry}

VARIABLES
  log,     \* log[d]: the entries of d where the backup is made
  phase,   \* of the backup: "idle", "extract", "describe", "seal"
  shape,   \* what is being made
  todo,    \* the databases it has yet to read
  blocks,  \* the Map of blocks it has read
  heads,   \* heads[d] of a database it has described
  seen,    \* seen[d]: what log.values() returned (ghost)
  shelf    \* the finished backups

VARIABLES
  step,    \* of the restore: "idle", "put", "seek", "join", or a verdict
  which,   \* the number of the backup it puts back
  how,     \* for whom: "app", "direct", "cid"
  left,    \* the databases it has yet to open
  found,   \* the stated heads that are in hand
  store,   \* the blockstore it writes to
  copy,    \* copy[d]: the entries of the log of d over there
  open,    \* the databases the application there holds open
  was,     \* copy and open when the restore began (ghost)
  warned   \* the heads that could not be joined

VARIABLE faults

mine   == <<log, phase, shape, todo, blocks, heads, seen, shelf>>
theirs == <<step, which, how, left, found, store, copy, open, was, warned>>
vars   == <<mine, theirs, faults>>

Verdicts == {"done", "refused", "failed"}

Nothing == [d \in {} |-> {}]

Fault(f) == /\ f \in Faults /\ faults < MaxFaults
            /\ faults' = faults + 1
NoFault  == UNCHANGED faults

-----------------------------------------------------------------------------
\* The backup.

\* The blocks of d that a pass finds: the entries that log.values() listed, the
\* manifest and the access controller it names, the identities referred to.  A
\* get() that fails leaves its block out.
Extracted(d, values, lost) ==
       (values \ lost)
  \cup ({Manifest[d]} \ lost)
  \cup (IF Manifest[d] \in lost THEN {} ELSE {Access[d]} \ lost)
  \cup {i \in {identity[e] : e \in values} : i \in Own \/ i \notin lost}

\* Mutant of Write: an entry is appended before those it points at.
M_WriteEarly(e) ==
  /\ e \notin log[home[e]]
  /\ log' = [log EXCEPT ![home[e]] = @ \cup {e}]
  /\ UNCHANGED <<phase, shape, todo, blocks, heads, seen, shelf, theirs, faults>>

\* Another write, or one that arrives from another peer.
Write(e) ==
  /\ e \notin log[home[e]] /\ next[e] \subseteq log[home[e]]
  /\ log' = [log EXCEPT ![home[e]] = @ \cup {e}]
  /\ UNCHANGED <<phase, shape, todo, blocks, heads, seen, shelf, theirs, faults>>

\* bundleDatabases() or backupDatabaseCAR() is called.
Begin(s, S) ==
  /\ phase = "idle" /\ Len(shelf) < MaxBackups
  /\ s \in Shapes /\ S # {} /\ (s = "car" => \E d \in Db : S = {d})
  /\ phase' = "extract" /\ shape' = s /\ todo' = S
  /\ blocks' = {} /\ heads' = Nothing /\ seen' = Nothing
  /\ UNCHANGED <<log, shelf, theirs, faults>>

\* extractDatabaseBlocks(): log.values() once, then a get() for each block.
Extract(d, lost) ==
  /\ phase = "extract" /\ d \in todo
  /\ lost \subseteq log[d] \cup {Manifest[d], Access[d]} \cup {identity[e] : e \in log[d]}
  /\ IF lost = {} THEN NoFault ELSE Fault("read")
  /\ blocks' = blocks \cup Extracted(d, log[d], lost)
  /\ seen' = [x \in DOMAIN seen \cup {d} |-> IF x = d THEN log[d] ELSE seen[x]]
  /\ todo' = todo \ {d}
  /\ phase' = IF shape = "car" THEN "seal" ELSE "describe"
  /\ UNCHANGED <<log, shape, heads, shelf, theirs>>

\* log.heads(), an await later.
Describe(d) ==
  /\ phase = "describe" /\ d \in DOMAIN seen \ DOMAIN heads
  /\ heads' = [x \in DOMAIN seen |-> IF x = d THEN Heads(log[d]) ELSE heads[x]]
  /\ phase' = IF todo = {} THEN "seal" ELSE "extract"
  /\ UNCHANGED <<log, shape, todo, blocks, seen, shelf, theirs, faults>>

\* buildAppBackup() seals the CAR; backupDatabaseCAR() stores it, then the
\* metadata that names it.
Seal ==
  /\ phase = "seal"
  /\ shelf' = Append(shelf, [shape |-> shape, blocks |-> blocks, heads |-> heads, seen |-> seen])
  /\ phase' = "idle"
  /\ UNCHANGED <<log, shape, todo, blocks, heads, seen, theirs, faults>>

\* encrypt() or putBlob() throws: there is no backup, at most a CAR that nothing
\* names.
SealFails ==
  /\ phase = "seal" /\ Fault("upload")
  /\ phase' = "idle"
  /\ UNCHANGED <<log, shape, todo, blocks, heads, seen, shelf, theirs>>

-----------------------------------------------------------------------------
\* The restore.

backup == shelf[which]
Named(b) == DOMAIN b.seen

\* Mutant of HeadsIn: one head per database.
M_HeadsInOne(b, d) == LET H == {e \in Heads(b.blocks \cap Entry) : home[e] = d}
                      IN IF H = {} THEN {} ELSE {CHOOSE e \in H : TRUE}

\* headsIn(): the entries of the blocks that no entry of the blocks points at.
HeadsIn(b, d) == {e \in Heads(b.blocks \cap Entry) : home[e] = d \/ Named(b) = {d}}

\* The heads to join in d: those stated and in hand, or those found.
HeadsOf(d) == IF backup.shape = "car" THEN HeadsIn(backup, d) ELSE backup.heads[d] \cap found

Stated(b) == UNION {b.heads[d] : d \in DOMAIN b.heads}

\* The call is refused: another's books, a CAR without a manifest it names, or a
\* fetch that brings nothing.
Admits(b, h) == /\ h = "app" => Named(b) \subseteq open
                /\ \A d \in Named(b) : Manifest[d] \in b.blocks

Restore(n, h) ==
  /\ step \in {"idle"} \cup Verdicts /\ n \in 1..Len(shelf)
  /\ h \in IF shelf[n].shape = "car" THEN {"cid"} ELSE Callers
  /\ which' = n /\ how' = h /\ left' = Named(shelf[n]) /\ found' = {} /\ warned' = {}
  /\ was' = [copy |-> copy, open |-> open]
  /\ \/ /\ step' = IF Admits(shelf[n], h) THEN "put" ELSE "refused"
        /\ NoFault
     \/ h = "cid" /\ step' = "refused" /\ Fault("fetch")
  /\ UNCHANGED <<store, copy, open, mine>>

\* Every block into the blockstore; one that is refused (BlocksNotStoredError)
\* ends it before anything is opened.
Put(refused) ==
  /\ step = "put" /\ refused \subseteq backup.blocks
  /\ IF refused = {} THEN NoFault ELSE Fault("quota")
  /\ store' = store \cup (backup.blocks \ refused)
  /\ step' = IF refused = {} THEN "seek" ELSE "refused"
  /\ UNCHANGED <<which, how, left, found, copy, open, was, warned, mine>>

\* Mutant of Seek: beforeJoin() is called before the heads are counted.
M_SeekClosesFirst(got) ==
  /\ step = "seek" /\ got \subseteq Stated(backup) \ backup.blocks
  /\ got # {} => how = "direct" /\ SecondSource
  /\ found' = (Stated(backup) \cap backup.blocks) \cup got
  /\ store' = store \cup got
  /\ open' = IF how = "direct" THEN {} ELSE open
  /\ step' = IF how = "direct" /\ RequireHeads /\ ~ Stated(backup) \subseteq found'
             THEN "refused" ELSE "join"
  /\ UNCHANGED <<which, how, left, copy, was, warned, mine, faults>>

\* Mutant of Seek: requireHeads is not looked at.
M_SeekAnyway(got) ==
  /\ step = "seek" /\ got \subseteq Stated(backup) \ backup.blocks
  /\ got # {} => how = "direct" /\ SecondSource
  /\ found' = (Stated(backup) \cap backup.blocks) \cup got
  /\ store' = store \cup got
  /\ step' = "join" /\ open' = IF how = "direct" THEN {} ELSE open
  /\ UNCHANGED <<which, how, left, copy, was, warned, mine, faults>>

\* A stated head that the blocks lack may come from the second source; then
\* MissingHeadsError, or beforeJoin(), where a direct caller closes what it holds.
Seek(got) ==
  /\ step = "seek"
  /\ got \subseteq Stated(backup) \ backup.blocks
  /\ got # {} => how = "direct" /\ SecondSource
  /\ found' = (Stated(backup) \cap backup.blocks) \cup got
  /\ store' = store \cup got
  /\ IF how = "direct" /\ RequireHeads /\ ~ Stated(backup) \subseteq found'
     THEN step' = "refused" /\ UNCHANGED open
     ELSE step' = "join" /\ open' = IF how = "direct" THEN {} ELSE open
  /\ UNCHANGED <<which, how, left, copy, was, warned, mine, faults>>

\* joinEntry(): the head and everything behind it that the log lacks must be there
\* to read, and the identities that signed it.
Joinable(d, h) == \A e \in Past({h}) \ copy[d] : {e, identity[e]} \subseteq store

\* Mutant of Join: what could not be joined is not looked at in the end.
M_JoinQuietly(d) ==
  /\ step = "join" /\ d \in left /\ Manifest[d] \in store /\ Access[d] \in store
  /\ LET in == {h \in HeadsOf(d) : Joinable(d, h)} IN
     /\ copy' = [copy EXCEPT ![d] = @ \cup Past(in)]
     /\ warned' = warned \cup (HeadsOf(d) \ in)
  /\ left' = left \ {d} /\ open' = open \ {d}
  /\ step' = IF left' # {} THEN "join" ELSE "done"
  /\ UNCHANGED <<which, how, found, store, was, mine, faults>>

\* One database: opened, its entries copied into its log storage, closed and
\* reopened if there are any, its heads joined; a join that throws is a warning.
Join(d) ==
  /\ step = "join" /\ d \in left
  /\ Manifest[d] \in store /\ Access[d] \in store
  /\ LET in == {h \in HeadsOf(d) : Joinable(d, h)} IN
     /\ copy' = [copy EXCEPT ![d] = @ \cup Past(in)]
     /\ warned' = warned \cup (HeadsOf(d) \ in)
  /\ left' = left \ {d}
  /\ open' = IF \E e \in backup.blocks \cap Entry : home[e] = d THEN open \ {d} ELSE open
  /\ step' = IF left' # {} THEN "join"
             ELSE IF how = "app" /\ warned' # {} THEN "failed" ELSE "done"
  /\ UNCHANGED <<which, how, found, store, was, mine, faults>>

\* orbitdb.open() finds no access controller: the restore stops there.
OpenFails(d) ==
  /\ step = "join" /\ d \in left /\ ~ {Manifest[d], Access[d]} \subseteq store
  /\ step' = "failed"
  /\ UNCHANGED <<which, how, left, found, store, copy, open, was, warned, mine, faults>>

-----------------------------------------------------------------------------
\* The device that restores holds some databases open already, with some of
\* their entries, or none at all.
Closed(S) == \A e \in S : next[e] \subseteq S

Init ==
  /\ log = [d \in Db |-> {}]
  /\ phase = "idle" /\ shape = "none" /\ todo = {} /\ blocks = {}
  /\ heads = Nothing /\ seen = Nothing /\ shelf = <<>>
  /\ step = "idle" /\ which = 0 /\ how = "none" /\ left = {} /\ found = {} /\ warned = {}
  /\ open \in SUBSET Db
  /\ copy \in [Db -> {S \in SUBSET Entry : Closed(S)}]
  /\ \A d \in Db : /\ \A e \in copy[d] : home[e] = d
                   /\ d \notin open => copy[d] = {}
  /\ store = UNION {copy[d] \cup {identity[e] : e \in copy[d]} \cup {Manifest[d], Access[d]} : d \in open}
  /\ was = [copy |-> copy, open |-> open]
  /\ faults = 0

\* One block at a time is unreadable or refused.
OneOf(S) == {{}} \cup {{b} : b \in S}

Backing ==
  \/ \E e \in Entry : Write(e)
  \/ \E s \in Shapes, S \in SUBSET Db : Begin(s, S)
  \/ \E d \in Db : \E lost \in OneOf(Block) : Extract(d, lost)
  \/ \E d \in Db : Describe(d)
  \/ Seal \/ SealFails

Restoring ==
  \/ \E n \in 1..Len(shelf), h \in Callers \cup {"cid"} : Restore(n, h)
  \/ \E refused \in OneOf(Block) : Put(refused)
  \/ \E got \in SUBSET Entry : Seek(got)
  \/ \E d \in Db : Join(d) \/ OpenFails(d)

Next == Backing \/ Restoring
Spec == Init /\ [][Next]_vars

-----------------------------------------------------------------------------
Partial(S, T) == UNION {[D -> T] : D \in SUBSET S}
Backup == [shape : {"bundle", "car"}, blocks : SUBSET Block,
           heads : Partial(Db, SUBSET Entry), seen : Partial(Db, SUBSET Entry)]

TypeOK ==
  /\ log \in [Db -> SUBSET Entry] /\ \A d \in Db : Closed(log[d])
  /\ phase \in {"idle", "extract", "describe", "seal"}
  /\ todo \subseteq Db /\ blocks \subseteq Block
  /\ heads \in Partial(Db, SUBSET Entry) /\ seen \in Partial(Db, SUBSET Entry)
  /\ shelf \in Seq(Backup)
  /\ shape \in {"none", "bundle", "car"} /\ how \in {"none", "app", "direct", "cid"}
  /\ step \in {"idle", "put", "seek", "join"} \cup Verdicts
  /\ which \in Nat /\ step # "idle" => which \in DOMAIN shelf
  /\ left \subseteq Db /\ found \subseteq Entry /\ warned \subseteq Entry
  /\ store \subseteq Block /\ open \subseteq Db
  /\ copy \in [Db -> SUBSET Entry] /\ \A d \in Db : Closed(copy[d])

\* Until every block is stored and every head a caller requires is in hand, its
\* databases stay open and keep what they had.
RefusedTouchesNothing ==
  step = "refused" => copy = was.copy /\ open = was.open

\* A finished restore brings back all that log.values() listed, if no block was
\* lost on the way: always where the heads are found among the blocks, however
\* much was written meanwhile, and where they are stated if nothing was written
\* to that database between log.values() and log.heads().
Unharmed(b, d) == {Manifest[d], Access[d]} \cup b.seen[d] \cup {identity[e] : e \in b.seen[d]}
                  \subseteq b.blocks
SnapshotRestores ==
  step = "done" => \A d \in Named(backup) :
    Unharmed(backup, d) /\ (backup.shape = "car" \/ backup.heads[d] = Heads(backup.seen[d]))
      => backup.seen[d] \subseteq copy[d]

\* restoreAppBackup() ends well only if every stated head that the file holds is
\* in its log, with everything behind it.
AppJoinsWhatItHas ==
  step = "done" /\ how = "app" =>
    \A d \in Named(backup) : Past(backup.heads[d] \cap backup.blocks) \subseteq copy[d]

\* With requireHeads, a stated head that is not in the log was warned about.
NoSilentHead ==
  step = "done" /\ how = "direct" /\ RequireHeads =>
    \A d \in Named(backup) : backup.heads[d] \subseteq copy[d] \cup warned
=============================================================================
