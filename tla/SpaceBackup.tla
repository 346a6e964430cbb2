---------------------------- MODULE SpaceBackup ----------------------------
(***************************************************************************)
(* Backups in a shared space, as lib/backup-car.js and                      *)
(* lib/orbitdb-storacha-bridge.js make, find, restore and clear them.       *)
(* A device backs its databases up, as a CAR and metadata that names it or  *)
(* one block at a time; another restores what it finds in the space, whose  *)
(* listing follows the uploads after a while and gives no file names; the   *)
(* space may be cleared meanwhile.  lib/ucan-bridge.js does the same, block  *)
(* by block, in a space that was delegated to it.                           *)
(***************************************************************************)
EXTENDS LogGraph, Sequences, FiniteSets, Naturals

CONSTANTS
  Db,          \* the databases
  home,        \* home[e]: the database that the entry e names in its id
  Manifest,    \* Manifest[d]: the block that the address of d names
  Access,      \* Access[d]: the access controller named in that manifest
  identity,    \* identity[e]: the block of the identity that signed e
  Known,       \* the identities that the device that restores has, its own
  spaceName,   \* spaceName[d]: the option of that name d is backed up under
  payload,     \* payload[e]: "document", "keyvalue", "deletion", "counter", "simple"
  Strategies,  \* of "car", "blocks", "ucan"
  Plans,       \* the restores called for
  Mega,        \* batchSize * maxConcurrency: blocks uploaded at a time
  maxRetries,  \* looks at the listing
  Enough,      \* backups after which a look goes no further (20)
  Faults,      \* of "put", "kill", "list", "fetch", "quota", "remove", "auth"
  MaxFaults, MaxBackups, MaxClears, MaxRestores  \* bounds

ASSUME SpaceAssumption ==
  /\ home \in [Entry -> Db]
  /\ \A e \in Entry : \A f \in next[e] : home[f] = home[e]
  /\ payload \in [Entry -> {"document", "keyvalue", "deletion", "counter", "simple"}]
  /\ {Mega, maxRetries, Enough} \subseteq Nat \ {0}
  /\ MaxBackups \in Nat /\ "new" \notin Db   \* which a restore calls one of its own making

\* No other block has the CID of an entry.
ASSUME BlockAssumption ==
  /\ \A d \in Db : Manifest[d] \notin Entry /\ Access[d] \notin Entry
  /\ \A e \in Entry : identity[e] \notin Entry
  /\ Known \subseteq {identity[e] : e \in Entry}

\* The identities that signed some entries.
Signers(E) == {identity[e] : e \in E}

Block == Entry \cup {Manifest[d] : d \in Db} \cup {Access[d] : d \in Db} \cup Signers(Entry)

VARIABLES
  log,     \* log[d]: the entries of d where it is backed up
  made,    \* the backups begun, in order
  job,     \* of the last one: "none", "car", "metadata", "blocks"
  todo,    \* the blocks it has yet to upload
  space,   \* the files there are to read
  lag,     \* those of them that the listing does not show yet
  listed   \* the files that the listing shows

VARIABLES
  clear,   \* clearStorachaSpace(): "none", "blobs", "complete", "partial"
  failed,  \* a removal of it failed
  clears,  \* the times it was called
  restores \* and those a restore was

VARIABLES
  step,    \* of the restore: "none", "look", "metadata", "car", "put", "scan",
           \* "download", "open", "import", or a verdict
  plan,    \* how it was called
  wanted,  \* the space name it was called with
  attempt, \* the looks it has taken
  pick,    \* the backup it restores, by number
  files,   \* the listing it works from
  got,     \* the blocks it has in hand
  store,   \* the blockstore it writes to
  copy,    \* copy[d]: the entries in the log of d over there
  target,  \* the database it opened
  imported,\* the entries whose payloads were written as new ones
  shown,   \* the backups, or files, that the listing or the mappings named and that
           \* were there then (ghost)
  clean    \* no fault and no clearing has met it (ghost)

VARIABLE faults

source == <<log, made, job, todo>>
there  == <<space, lag, listed>>
clearing == <<clear, failed, clears>>
restore == <<step, plan, wanted, attempt, pick, files, got, store, copy, target, imported, shown>>
vars    == <<source, there, clearing, restore, restores, clean, faults>>

Verdicts == {"done", "failed"}
Quiet == step \in {"none"} \cup Verdicts

Fault(f) == /\ f \in Faults /\ faults < MaxFaults
            /\ faults' = faults + 1
NoFault == UNCHANGED faults
OneOf(S) == {{}} \cup {{x} : x \in S}
OrFault(f, S) == IF S = {} THEN NoFault ELSE Fault(f)

CarOf(k) == <<"car", k>>
MetaOf(k) == <<"metadata", k>>
FileOf(b) == <<"block", b>>

-----------------------------------------------------------------------------
\* The backup.

Write(e) ==
  /\ e \notin log[home[e]] /\ next[e] \subseteq log[home[e]]
  /\ log' = [log EXCEPT ![home[e]] = @ \cup {e}]
  /\ UNCHANGED <<made, job, todo, there, clearing, restores, restore, clean, faults>>

\* What a file that was uploaded does to the space.
Upload(F) == /\ space' = space \cup F
             /\ lag' = lag \cup (F \ listed)
             /\ UNCHANGED listed

Ends(v) == made' = [made EXCEPT ![Len(made)].verdict = v]

\* extractDatabaseBlocks(), for any strategy: the entries, what the address names,
\* and the identities that signed the entries (FullBackup has a block that cannot be
\* read).  The timestamp a listing gives is cut to seconds, so two backups may share
\* one.
Extracts(d, how, verdict) ==
  LET whole == log[d] \cup {Manifest[d], Access[d]} \cup Signers(log[d])
      last  == IF made = <<>> THEN 0 ELSE made[Len(made)].at IN
  /\ job = "none" /\ Len(made) < MaxBackups /\ how \in Strategies
  /\ \E at \in {last, last + 1} \ {0} :
       made' = Append(made, [db |-> d, how |-> how, at |-> at, blocks |-> whole,
                             seen |-> log[d], sent |-> {}, verdict |-> verdict])
  /\ todo' = whole

BackupDatabase(d, how) ==
  /\ how # "ucan" /\ Extracts(d, how, "begun")
  /\ job' = IF how = "car" THEN "car" ELSE "blocks"
  /\ UNCHANGED <<log, there, clearing, restores, restore, clean, faults>>

\* A client for the delegation and the recipient's key, or else for the token or
\* the file alone; or none, and the call says so.
UCANClient(ok) == IF ok THEN NoFault ELSE Fault("auth")

BackupDatabaseWithUCAN(d, ok) ==
  /\ UCANClient(ok) /\ Extracts(d, "ucan", IF ok THEN "begun" ELSE "failed")
  /\ job' = IF ok THEN "blocks" ELSE "none"
  /\ UNCHANGED <<log, there, clearing, restores, restore, clean>>

\* putBlob() of the CAR, then of the metadata that names it.
PutCAR ==
  /\ job = "car" /\ Upload({CarOf(Len(made))}) /\ job' = "metadata"
  /\ UNCHANGED <<log, made, todo, clearing, restores, restore, clean, faults>>

PutMetadata ==
  /\ job = "metadata" /\ Upload({MetaOf(Len(made))})
  /\ job' = "none" /\ Ends("ok")
  /\ UNCHANGED <<log, todo, clearing, restores, restore, clean, faults>>

\* Mutant of PutFails: a CAR that did not arrive is named by metadata all the same.
M_PutFailsGoesOn(arrived) ==
  /\ job = "car" /\ Fault("put") /\ ~ arrived
  /\ job' = "metadata" /\ UNCHANGED there
  /\ UNCHANGED <<log, made, todo, clearing, restores, restore, clean>>

\* Either putBlob() throws, perhaps after the file arrived: success is false.
PutFails(arrived) ==
  /\ job \in {"car", "metadata"} /\ Fault("put")
  /\ IF arrived THEN Upload({IF job = "car" THEN CarOf(Len(made)) ELSE MetaOf(Len(made))})
                ELSE UNCHANGED there
  /\ job' = "none" /\ Ends("failed")
  /\ UNCHANGED <<log, todo, clearing, restores, restore, clean>>

\* A mega-batch at a time, a block that fails is left behind; the backup succeeds
\* if any block went up.
UploadBatch(batch, refused) ==
  /\ batch \subseteq todo /\ refused \subseteq batch
  /\ Cardinality(batch) = IF Cardinality(todo) < Mega THEN Cardinality(todo) ELSE Mega
  /\ OrFault("put", refused)
  /\ Upload({FileOf(b) : b \in batch \ refused})
  /\ todo' = todo \ batch
  /\ LET sent == made[Len(made)].sent \cup (batch \ refused) IN
     made' = [made EXCEPT ![Len(made)].sent = sent,
                          ![Len(made)].verdict = IF todo' # {} THEN "begun"
                                                 ELSE IF sent = {} THEN "failed" ELSE "ok"]
  /\ job' = IF todo' = {} THEN "none" ELSE "blocks"
  /\ UNCHANGED <<log, clearing, restores, restore, clean>>

UploadBlocks(batch, refused) ==
  job = "blocks" /\ made[Len(made)].how = "blocks" /\ UploadBatch(batch, refused)

UploadBlocksWithUCAN(batch, refused) ==
  job = "blocks" /\ made[Len(made)].how = "ucan" /\ UploadBatch(batch, refused)

\* The files that are being uploaded.
Under == IF job = "blocks" THEN {FileOf(b) : b \in todo}
         ELSE {IF job = "car" THEN CarOf(Len(made)) ELSE MetaOf(Len(made))}

\* The process ends, with some of what was under way uploaded.
Killed(arrived) ==
  /\ job # "none" /\ Fault("kill")
  /\ arrived \subseteq Under /\ Cardinality(arrived) <= Mega
  /\ Upload(arrived)
  /\ job' = "none" /\ Ends("failed")
  /\ UNCHANGED <<log, todo, clearing, restores, restore, clean>>

\* "Index propagation is eventual."
Propagate ==
  /\ lag # {} /\ listed' = listed \cup lag /\ lag' = {}
  /\ UNCHANGED <<space, source, clearing, restores, restore, clean, faults>>

-----------------------------------------------------------------------------
\* clearStorachaSpace(): the uploads, then the blobs, each listed and then removed.
\* A listing that fails counts as an empty one.
Disturbed == clean' = (clean /\ Quiet)

ClearUploads(kept) ==
  /\ clear # "blobs" /\ clears < MaxClears /\ clears' = clears + 1
  /\ \/ /\ kept \subseteq listed /\ OrFault("remove", kept)
        /\ listed' = kept /\ failed' = (kept # {})
     \/ /\ kept = {} /\ Fault("list") /\ failed' = FALSE /\ UNCHANGED listed
  /\ clear' = "blobs" /\ Disturbed
  /\ UNCHANGED <<space, lag, source, restore, restores>>

ClearBlobs(kept) ==
  /\ clear = "blobs"
  /\ \/ /\ kept \subseteq space /\ OrFault("remove", kept)
        /\ space' = kept /\ failed' = (failed \/ kept # {})
     \/ /\ kept = {} /\ Fault("list") /\ UNCHANGED <<space, failed>>
  /\ clear' = IF failed' THEN "partial" ELSE "complete"
  /\ Disturbed
  /\ UNCHANGED <<clears, lag, listed, source, restore, restores>>

-----------------------------------------------------------------------------
\* The restore.  How each function is called:
\*   "auto", "car", "blocks", "force"  restoreDatabaseFromSpace() by strategy, and
\*                                     with forceFallback
\*   "space", "stamp"  restoreFromSpaceCAR(), the latest or by timestamp alone
\*   "entries"         restoreLogEntriesOnly()
\*   "ucan"            restoreDatabaseFromSpaceWithUCAN()
\*   "map"             restoreDatabase() with the mappings of a backup
BlockPlans == {"blocks", "force", "entries", "ucan"}

Begin(p, n, k) ==
  /\ Quiet /\ restores < MaxRestores /\ p \in Plans
  /\ IF p = "map" THEN k # 0 /\ made[k].how # "car" /\ made[k].verdict = "ok" ELSE k = 0
  /\ n = "none" <=> p \in {"stamp", "map"} \cup BlockPlans
  /\ plan' = p /\ wanted' = n /\ pick' = k /\ attempt' = 1
  /\ step' = CASE p = "stamp" -> "metadata" [] p = "map" -> "download"
             [] p \in BlockPlans -> "scan" [] OTHER -> "look"
  /\ files' = IF p = "map" THEN {FileOf(b) : b \in made[k].sent} ELSE {}
  /\ got' = {} /\ target' = "none" /\ imported' = {} /\ shown' = files' \cap space
  /\ clean' = (clear # "blobs")
  /\ UNCHANGED <<store, copy, source, there, clearing, faults>>
  /\ restores' = restores + 1

Fails == /\ step' = "failed"
         /\ UNCHANGED <<plan, wanted, attempt, pick, files, got, store, copy, target, imported, shown>>

\* A fault has met the restore.
Tells == clean' = (clean /\ faults' = faults)

\* Mutant of Backups: of any space name.
M_BackupsAny(lost) == {k \in 1..Len(made) : MetaOf(k) \in (listed \cap space) \ lost}

\* The metadata, of this space name, that is listed and can be read.
Backups(lost) == {k \in 1..Len(made) : /\ MetaOf(k) \in (listed \cap space) \ lost
                                       /\ spaceName[made[k].db] = wanted}

\* The sort of listAvailableBackups(): by timestamp, newest first.
Newest(K) == {k \in K : \A j \in K : made[j].at <= made[k].at}

\* No backup was found: again, or on to the blocks, or the end of it.
LooksAgain ==
  /\ IF attempt < maxRetries THEN attempt' = attempt + 1 /\ step' = "look"
     ELSE step' = (IF plan = "auto" THEN "scan" ELSE "failed") /\ UNCHANGED attempt
  /\ UNCHANGED <<plan, wanted, pick, files, got, store, copy, target, imported, shown>>

\* One look of listAvailableBackups(): the listing, every file of it downloaded to
\* see what it is, and no further once there are enough.
Look(lost, found) ==
  /\ step = "look" /\ lost \subseteq listed /\ OrFault("fetch", lost)
  /\ found \subseteq Backups(lost) /\ (found = Backups(lost) \/ Cardinality(found) >= Enough)
  /\ IF found = {} THEN LooksAgain
     ELSE /\ pick' \in Newest(found) /\ shown' = Backups(lost)
          /\ step' = IF plan = "space" THEN "car" ELSE "metadata"
          /\ UNCHANGED <<plan, wanted, attempt, files, got, store, copy, target, imported>>
  /\ Tells /\ UNCHANGED <<source, there, clearing, restores>>

\* The listing itself fails.
LookFails ==
  /\ step = "look" /\ Fault("list") /\ LooksAgain
  /\ Tells /\ UNCHANGED <<source, there, clearing, restores>>

\* restoreFromSpaceCAR() of a timestamp reads the metadata by the CID it was
\* given with it, or else by a file name, which names nothing.
FetchMetadata ==
  /\ step = "metadata"
  /\ \/ /\ pick # 0 /\ MetaOf(pick) \in space /\ step' = "car" /\ NoFault
        /\ UNCHANGED <<plan, wanted, attempt, pick, files, got, store, copy, target, imported, shown>>
     \/ (pick = 0 \/ MetaOf(pick) \notin space) /\ Fails /\ NoFault
     \/ Fault("fetch") /\ Fails
  /\ Tells /\ UNCHANGED <<source, there, clearing, restores>>

FetchCAR ==
  /\ step = "car"
  /\ \/ /\ CarOf(pick) \in space /\ NoFault
        /\ got' = made[pick].blocks /\ step' = "put"
        /\ UNCHANGED <<plan, wanted, attempt, pick, files, store, copy, target, imported, shown>>
     \/ CarOf(pick) \notin space /\ Fails /\ NoFault
     \/ Fault("fetch") /\ Fails
  /\ Tells /\ UNCHANGED <<source, there, clearing, restores>>

\* A block that the blockstore refuses is a warning.
PutBlocks(refused) ==
  /\ step = "put" /\ refused \subseteq got /\ OrFault("quota", refused)
  /\ store' = store \cup (got \ refused) /\ step' = "open"
  /\ UNCHANGED <<plan, wanted, attempt, pick, files, got, copy, target, imported, shown>>
  /\ Tells /\ UNCHANGED <<source, there, clearing, restores>>

\* listStorachaSpaceFiles(), once.
Scan ==
  /\ step = "scan"
  /\ \/ /\ listed # {} /\ NoFault
        /\ files' = listed /\ step' = "download" /\ shown' = listed \cap space
        /\ UNCHANGED <<plan, wanted, attempt, pick, got, store, copy, target, imported>>
     \/ listed = {} /\ Fails /\ NoFault
     \/ Fault("list") /\ Fails
  /\ Tells /\ UNCHANGED <<source, there, clearing, restores>>

\* With UCAN there may be no client to list with.
NoClient ==
  /\ step = "scan" /\ plan = "ucan" /\ UCANClient(FALSE) /\ Fails
  /\ Tells /\ UNCHANGED <<source, there, clearing, restores>>

\* downloadBlock(): from the network, or from one gateway after the other; an error
\* page is no answer.
Fetched(lost) == {b \in Block : FileOf(b) \in (files \cap space) \ lost}

\* What could not be downloaded, or not be stored.
Mishap(lost, refused) == \/ refused = {} /\ OrFault("fetch", lost)
                         \/ refused # {} /\ lost = {} /\ Fault("quota")

\* Each file in turn; what cannot be had or stored is passed over.
Takes(had, lost, refused) ==
  /\ step = "download" /\ lost \subseteq files /\ refused \subseteq had
  /\ Mishap(lost, refused)
  /\ store' = store \cup (had \ refused)
  /\ UNCHANGED <<plan, wanted, attempt, pick, files, copy, target, imported, shown>>
  /\ Tells /\ UNCHANGED <<source, there, clearing, restores>>

\* downloadBlocksWithProgress().
Download(lost, refused) ==
  /\ plan \in {"auto", "blocks", "force"} /\ Takes(Fetched(lost), lost, refused)
  /\ got' = Fetched(lost) \ refused
  /\ step' = IF plan = "force" \/ (\A d \in Db : Manifest[d] \notin got') THEN "import" ELSE "open"

\* downloadLogEntriesOnly().
DownloadEntries(lost, refused) ==
  /\ plan = "entries" /\ Takes(Fetched(lost) \cap Entry, lost, refused)
  /\ got' = (Fetched(lost) \cap Entry) \ refused
  /\ step' = IF got' = {} THEN "failed" ELSE "import"

\* downloadAndBridgeBlocks(); every block of the mappings that the blockstore has is
\* looked at then.
DownloadMapped(lost, refused) ==
  /\ plan = "map" /\ Takes(Fetched(lost), lost, refused)
  /\ got' = made[pick].sent \cap store'
  /\ step' = IF Fetched(lost) \subseteq refused THEN "failed" ELSE "open"

\* The same, in order to open what a manifest names or write anew.
DownloadWithUCAN(lost, refused) ==
  /\ plan = "ucan" /\ Takes(Fetched(lost), lost, refused)
  /\ got' = Fetched(lost) \ refused
  /\ step' = IF \A d \in Db : Manifest[d] \notin got' THEN "import" ELSE "open"

\* findCorrectManifest(): the only one; else one that an entry names; else any.
Candidates ==
  LET found == {d \in Db : Manifest[d] \in got}
      named == {d \in found : \E e \in got \cap Entry : home[e] = d}
  IN IF Cardinality(found) > 1 /\ named # {} THEN named ELSE found

\* analyzeBlocks(): the entries among the blocks that none of them points at.
PotentialHeads == Heads(got \cap Entry)

\* Mutant of Joinable: the entry alone.
M_JoinableAlone(d, h) == home[h] = d /\ next[h] = {} /\ {h, identity[h]} \subseteq store

\* joinEntry() takes an entry that names this database, and all behind it, if the
\* identities that signed them are there to verify them with.
Joinable(d, h) == LET lacks == Past({h}) \ copy[d]
                  IN home[h] = d /\ lacks \cup Signers(lacks) \subseteq store

\* The database is opened and the heads among the blocks are joined; one that
\* cannot be is a warning.
OpensAndJoins(d) ==
  /\ step = "open"
  /\ IF {Manifest[d], Access[d]} \subseteq store
     THEN /\ copy' = [copy EXCEPT ![d] = @ \cup Past({h \in PotentialHeads : Joinable(d, h)})]
          /\ target' = d /\ step' = "done"
          /\ UNCHANGED <<plan, wanted, attempt, pick, files, got, store, imported, shown>>
     ELSE Fails
  /\ UNCHANGED <<clean, source, there, clearing, restores, faults>>

\* restoreDatabaseFromSpace(), restoreDatabase(), restoreFromSpaceCAR().
OpenFound(d)  == plan \in {"auto", "blocks"} /\ pick = 0 /\ d \in Candidates /\ OpensAndJoins(d)
OpenMapped(d) == plan = "map" /\ d = made[pick].db /\ OpensAndJoins(d)
OpenCAR(d)    == plan # "map" /\ pick # 0 /\ d = made[pick].db /\ OpensAndJoins(d)

\* restoreDatabaseFromSpaceWithUCAN() opens it, and joins nothing.
OpenWithUCAN(d) ==
  /\ step = "open" /\ plan = "ucan" /\ d \in Candidates
  /\ IF {Manifest[d], Access[d]} \subseteq store
     THEN /\ target' = d /\ step' = "done"
          /\ UNCHANGED <<plan, wanted, attempt, pick, files, got, store, copy, imported, shown>>
     ELSE Fails
  /\ UNCHANGED <<clean, source, there, clearing, restores, faults>>

\* inferDatabaseType(), from the payloads.
InferredType(E) ==
  LET counts == [P |-> Cardinality({e \in E : payload[e] = "document"}),
                 K |-> Cardinality({e \in E : payload[e] \in {"keyvalue", "deletion"}}),
                 S |-> Cardinality({e \in E : payload[e] = "simple"})]
  IN IF \E e \in E : payload[e] = "counter" THEN "counter"
     ELSE IF counts.P > counts.K /\ counts.P > counts.S THEN "documents"
     ELSE IF counts.K > counts.S THEN "keyvalue" ELSE "events"

\* Mutant of Writable: what keeps keys takes no document.
M_WritableSame(e, type) == type \in {"events", "counter"} \/ payload[e] = "keyvalue"

\* importEntryByType(): an entry that a database of that type cannot take is an error
\* of the import, and passed over.
Writable(e, type) ==
  CASE type = "documents" -> payload[e] \in {"document", "deletion"}
    [] type = "keyvalue"  -> payload[e] \in {"document", "keyvalue", "deletion"}
    [] OTHER -> TRUE

Anew == step = "import" /\ UNCHANGED <<clean, source, there, clearing, restores, faults>>

\* reconstructWithoutManifest(): a new database, into which the payloads are written.
Import ==
  /\ Anew /\ plan # "entries"
  /\ LET E == got \cap Entry IN
     IF E = {} THEN Fails
     ELSE /\ imported' = {e \in E : Writable(e, InferredType(E))}
          /\ target' = "new" /\ step' = "done"
          /\ UNCHANGED <<plan, wanted, attempt, pick, files, got, store, copy, shown>>

\* restoreLogEntriesOnly(): the entries are joined, which a database refuses unless it
\* has the address that they name.
JoinAnew(d) ==
  /\ Anew /\ plan = "entries"
  /\ copy' = IF d = "new" THEN copy
             ELSE [copy EXCEPT ![d] = @ \cup Past({e \in got \cap Entry : Joinable(d, e)})]
  /\ target' = d /\ step' = "done"
  /\ UNCHANGED <<plan, wanted, attempt, pick, files, got, store, imported, shown>>

-----------------------------------------------------------------------------
Init ==
  /\ log = [d \in Db |-> {}] /\ made = <<>> /\ job = "none" /\ todo = {}
  /\ space = {} /\ lag = {} /\ listed = {}
  /\ clear = "none" /\ failed = FALSE /\ clears = 0 /\ restores = 0
  /\ step = "none" /\ plan = "none" /\ wanted = "none" /\ attempt = 0 /\ pick = 0
  /\ files = {} /\ got = {} /\ store = Known /\ copy = [d \in Db |-> {}]
  /\ target = "none" /\ imported = {} /\ shown = {} /\ clean = TRUE
  /\ faults = 0

Backing ==
  \/ \E e \in Entry : Write(e)
  \/ \E d \in Db, how \in Strategies : BackupDatabase(d, how)
  \/ \E d \in Db, ok \in BOOLEAN : BackupDatabaseWithUCAN(d, ok)
  \/ PutCAR \/ PutMetadata
  \/ \E arrived \in BOOLEAN : PutFails(arrived)
  \/ \E batch \in SUBSET todo : \E refused \in OneOf(batch) :
       UploadBlocks(batch, refused) \/ UploadBlocksWithUCAN(batch, refused)
  \/ \E arrived \in OneOf(Under) : Killed(arrived)
  \/ Propagate

Clearing == \/ \E kept \in OneOf(listed) : ClearUploads(kept)
            \/ \E kept \in OneOf(space) : ClearBlobs(kept)

Restoring ==
  \/ \E p \in Plans, n \in {spaceName[d] : d \in Db} \cup {"none"}, k \in 0..Len(made) : Begin(p, n, k)
  \/ \E lost \in OneOf(listed), found \in SUBSET (1..Len(made)) : Look(lost, found)
  \/ LookFails \/ FetchMetadata \/ FetchCAR \/ Scan \/ NoClient
  \/ \E refused \in OneOf(got) : PutBlocks(refused)
  \/ \E lost \in OneOf(files), refused \in OneOf(Block) :
       \/ Download(lost, refused) \/ DownloadEntries(lost, refused)
       \/ DownloadMapped(lost, refused) \/ DownloadWithUCAN(lost, refused)
  \/ \E d \in Db : OpenFound(d) \/ OpenMapped(d) \/ OpenCAR(d) \/ OpenWithUCAN(d)
  \/ Import
  \/ \E d \in Db \cup {"new"} : JoinAnew(d)

Next == Backing \/ Clearing \/ Restoring
Spec == Init /\ [][Next]_vars

-----------------------------------------------------------------------------
\* A restore from a CAR that no fault and no clearing met brings back all that its
\* backup saw, and that backup is the newest of those of its space name that the
\* listing named when it looked, whatever was uploaded and listed since.
LatestComesBack ==
  step = "done" /\ clean /\ plan \in {"auto", "car", "space"} /\ pick # 0 =>
    /\ made[pick].seen \subseteq copy[made[pick].db]
    /\ \A k \in shown : made[k].at <= made[pick].at
    /\ spaceName[made[pick].db] = wanted

\* A backup whose metadata was found restores: the CAR that the metadata names was
\* there before it, and stays in a space that was not cleared.
FoundIsRestorable ==
  step = "failed" /\ clean /\ clears = 0 => pick = 0 \/ plan = "map"

\* The entries among some files.
EntriesOf(F) == {e \in Entry : FileOf(e) \in F}

\* A restore from single blocks that no fault and no clearing met, though the backup
\* may have lost blocks and still have ended well, brings back each head of the
\* database it opened, with all behind it, of which everything was listed and there:
\* the entries, and the identities that signed them, but for those the device has.
\* What another head lost, of its past or of its writers, costs that head alone.  And
\* one by mappings brings back what its backup saw, if every block had gone up and was
\* there.  One with UCAN opens the database as it finds it, and one of the entries
\* alone has no identities but the device's own.
BlocksComeBack ==
  step = "done" /\ clean /\ target \in Db =>
    /\ pick = 0 /\ plan # "ucan" =>
         \A h \in Heads({e \in EntriesOf(files) : home[e] = target}) :
           (/\ Past({h}) \subseteq EntriesOf(shown)
            /\ \A i \in Signers(Past({h})) \ Known : plan # "entries" /\ FileOf(i) \in shown)
             => Past({h}) \subseteq copy[target]
    /\ plan = "map" /\ (\A b \in made[pick].blocks : FileOf(b) \in shown) =>
         made[pick].seen \subseteq copy[target]

\* Where nothing but entries is found, or the manifest is passed over, by a restore
\* that no fault and no clearing met, every payload that was listed and there is among
\* those written again, and none that was not listed, whatever type is inferred, if
\* they are what one database of documents, of keys or of events writes.
PayloadsComeBack ==
  /\ step = "done" /\ clean /\ target = "new" /\ plan # "entries"
  /\ \E kinds \in {{"document", "deletion"}, {"keyvalue", "deletion"}, {"simple"}} :
       \A e \in EntriesOf(files) : payload[e] \in kinds
  => EntriesOf(shown) \subseteq imported /\ imported \subseteq EntriesOf(files)
=============================================================================
