------------------------- MODULE SpaceBackup_proofs -------------------------
(***************************************************************************)
(* What comes back from a shared space, for every graph of entries, every  *)
(* set of databases, every batch size and number of backups, clearings,    *)
(* restores and faults, whatever is uploaded, listed and cleared meanwhile.*)
(***************************************************************************)
EXTENDS SpaceBackup, LogGraph_proofs, FiniteSetTheorems

-----------------------------------------------------------------------------
(* The side that backs up and clears.                                       *)

\* A log of d without holes.
LogOf(d, S) == \A e \in S : home[e] = d /\ next[e] \subseteq S

Backup == [db : Db, how : Strategies, at : Nat, blocks : SUBSET Block, seen : SUBSET Entry,
           sent : SUBSET Block, verdict : {"begun", "ok", "failed"}]

\* A backup is of all its log had, of those who signed it, and of the blocks that open
\* the database.
Sound(b) == /\ b.blocks = b.seen \cup {Manifest[b.db], Access[b.db]} \cup Signers(b.seen)
            /\ LogOf(b.db, b.seen) /\ b.sent \subseteq b.blocks

Backed ==
  /\ log \in [Db -> SUBSET Entry] /\ \A d \in Db : LogOf(d, log[d])
  /\ made \in Seq(Backup) /\ Len(made) <= MaxBackups
  /\ \A k \in 1..Len(made) : Sound(made[k])
  /\ job \in {"none", "car", "metadata", "blocks"} /\ (job # "none" => made # <<>>)
  /\ job = "blocks" => todo \subseteq made[Len(made)].blocks

\* While nothing was cleared, metadata is in the space only after the CAR it names.
Named ==
  /\ clears \in Nat /\ (clear = "blobs" => clears > 0)
  /\ clears = 0 =>
       /\ \A k \in Nat : MetaOf(k) \in space => CarOf(k) \in space
       /\ job = "metadata" => CarOf(Len(made)) \in space

\* The backups only gain blocks that are up, and a verdict.
Same(b, c) == /\ c.db = b.db /\ c.at = b.at /\ c.blocks = b.blocks /\ c.seen = b.seen
              /\ b.sent \subseteq c.sent

MadeGrows == /\ Len(made) <= Len(made')
             /\ \A k \in 1..Len(made) : Same(made[k], made'[k])

\* The last backup is given another verdict, or has sent more.
LEMMA LastChanges ==
  ASSUME made \in Seq(Backup), made # <<>>, \A k \in 1..Len(made) : Sound(made[k]),
         NEW b \in Backup, Sound(b), Same(made[Len(made)], b),
         made' = [made EXCEPT ![Len(made)] = b]
  PROVE  /\ made' \in Seq(Backup) /\ Len(made') = Len(made) /\ MadeGrows
         /\ \A k \in 1..Len(made') : Sound(made'[k])
         /\ made'[Len(made)] = b
<1>1. Len(made) \in 1..Len(made) /\ Len(made) \in Nat
  OBVIOUS
<1>2. made' \in Seq(Backup) /\ Len(made') = Len(made)
  OBVIOUS
<1>3. \A k \in 1..Len(made) : made'[k] = IF k = Len(made) THEN b ELSE made[k]
  BY <1>1
<1>4. \A k \in 1..Len(made) : Sound(made'[k])
  BY <1>3
<1>5. \A k \in 1..Len(made) : Same(made[k], made'[k])
  BY <1>3 DEF Same
<1>6. \A k \in 1..Len(made') : Sound(made'[k])
  BY <1>2, <1>4
<1>7. MadeGrows
  BY ONLY <1>1, <1>2, <1>5 DEF MadeGrows
<1>8. made'[Len(made)] = b
  BY <1>1, <1>3
<1>. QED
  BY <1>2, <1>6, <1>7, <1>8

\* The verdict of the last backup.
LEMMA EndsLast ==
  ASSUME Backed, made # <<>>, NEW v \in {"begun", "ok", "failed"}, Ends(v)
  PROVE  /\ made' \in Seq(Backup) /\ Len(made') = Len(made) /\ MadeGrows
         /\ \A k \in 1..Len(made') : Sound(made'[k])
<1>. DEFINE n == Len(made)
            b == [made[n] EXCEPT !.verdict = v]
<1>1. n \in 1..Len(made) /\ made[n] \in Backup /\ Sound(made[n])
  BY DEF Backed
<1>2. b \in Backup /\ Sound(b) /\ Same(made[n], b)
  BY <1>1 DEF Backup, Sound, Same
<1>3. made' = [made EXCEPT ![n] = b]
  BY DEF Ends
<1>. QED
  BY <1>2, <1>3, LastChanges DEF Backed

-----------------------------------------------------------------------------
(* The side that restores.                                                  *)

\* The blocks among some files.
BlocksOf(F) == {b \in Block : FileOf(b) \in F}

\* Where a restore may be, by how it was called.
Stages ==
  /\ copy \in [Db -> SUBSET Entry] /\ pick \in 0..Len(made)
  /\ clean \in BOOLEAN /\ faults \in Nat /\ Known \subseteq store
  /\ step = "look" => pick = 0 /\ plan \notin {"stamp", "map"} \cup BlockPlans
  /\ step \in {"scan", "import"} => pick = 0 /\ plan # "map"
  /\ step = "download" /\ plan # "map" => pick = 0
  /\ step \in {"metadata", "car", "put"} => plan # "map"
  /\ step \in {"car", "put"} => pick # 0
  /\ plan = "map" => /\ pick # 0 /\ step \in {"download", "open"} \cup Verdicts
                     /\ files \subseteq {FileOf(b) : b \in made[pick].sent}

\* The backup that a look found.
Found ==
  pick # 0 /\ plan # "map" =>
    /\ plan \notin {"stamp"} \cup BlockPlans
    /\ spaceName[made[pick].db] = wanted
    /\ clears = 0 => MetaOf(pick) \in space
    /\ MaxBackups < Enough =>
         \A k \in shown : k \in 1..Len(made) /\ made[k].at <= made[pick].at

\* What a restore that was not disturbed has in hand.
InHand ==
  /\ step = "put" => got = made[pick].blocks
  /\ clean =>
       /\ step = "download" => shown \subseteq files \cap space
       /\ step \in {"open", "import"} => got \subseteq store
       /\ step = "open" /\ pick # 0 /\ plan # "map" => got = made[pick].blocks
       /\ step \in {"open", "import"} /\ (pick = 0 \/ plan = "map") => EntriesOf(shown) \subseteq got
       /\ step \in {"open", "import"} /\ pick = 0 => got \cap Entry \subseteq EntriesOf(files)
       /\ step = "open" /\ plan = "map" => got \subseteq made[pick].sent
       /\ step \in {"open", "import"} /\ (pick = 0 \/ plan = "map") /\ plan # "entries"
            => BlocksOf(shown) \subseteq got

\* The files that were ever uploaded or listed hold finitely many blocks.
Finite ==
  /\ \A d \in Db : IsFiniteSet(log[d])
  /\ job = "blocks" => IsFiniteSet(todo)
  /\ IsFiniteSet(BlocksOf(lag \cup listed))
  /\ step \in {"download", "open", "import"} /\ pick = 0 => IsFiniteSet(BlocksOf(files))

Way == Stages /\ Found /\ InHand

\* The newest comes back, if a look sees them all: it goes no further than Enough.
LatestOfAll == MaxBackups < Enough => LatestComesBack

Back == LatestOfAll /\ FoundIsRestorable /\ BlocksComeBack /\ PayloadsComeBack

SpaceInv == Backed /\ Named /\ Way /\ Finite /\ Back

-----------------------------------------------------------------------------
(* What a step of the backing or the clearing side leaves to the restore.   *)

\* The backup an index names is the same one later.
LEMMA StaysSame ==
  ASSUME MadeGrows, made \in Seq(Backup), made' \in Seq(Backup), NEW k \in 1..Len(made)
  PROVE  /\ k \in 1..Len(made') /\ made'[k].db = made[k].db /\ made'[k].at = made[k].at
         /\ made'[k].blocks = made[k].blocks /\ made'[k].seen = made[k].seen
         /\ made[k].sent \subseteq made'[k].sent
<1>1. k \in 1..Len(made')
  BY DEF MadeGrows
<1>2. Same(made[k], made'[k])
  BY DEF MadeGrows
<1>. QED
  BY <1>1, <1>2 DEF Same

\* Backups that grow, and files that only come, change nothing for a restore; where
\* files go, it is disturbed.
LEMMA RestRests ==
  ASSUME Way, Back, MadeGrows, made \in Seq(Backup), made' \in Seq(Backup), UNCHANGED restore,
         clears \in Nat, clean' \in BOOLEAN, faults' \in Nat,
         clears' = 0 => clears = 0 /\ space \subseteq space',
         clean' => clean /\ (Quiet \/ space \subseteq space')
  PROVE  Way' /\ Back'
<1>1. pick \in 0..Len(made) /\ pick' = pick /\ Len(made) \in Nat
  BY DEF Way, Stages, restore
<1>2. pick' \in 0..Len(made)'
  BY <1>1 DEF MadeGrows
<1>3. pick # 0 => /\ made'[pick].db = made[pick].db /\ made'[pick].at = made[pick].at
                  /\ made'[pick].blocks = made[pick].blocks /\ made'[pick].seen = made[pick].seen
                  /\ made[pick].sent \subseteq made'[pick].sent
  BY <1>1, StaysSame
<1>4. Stages'
  <2>1. plan = "map" => files \subseteq {FileOf(b) : b \in made'[pick].sent}
    BY <1>3 DEF Way, Stages
  <2>. QED
    BY <1>1, <1>2, <2>1 DEF Way, Stages, restore
<1>5. Found'
  <2>. SUFFICES ASSUME pick # 0, plan # "map" PROVE Found'
    BY DEF Found, restore
  <2>1. \A k \in 1..Len(made) : k \in 1..Len(made') /\ made'[k].at = made[k].at
    BY StaysSame
  <2>2. MaxBackups < Enough => \A k \in shown : k \in 1..Len(made') /\ made'[k].at <= made'[pick].at
    BY <1>3, <2>1 DEF Way, Found
  <2>. QED
    BY <1>3, <2>2 DEF Way, Found, restore
<1>6. InHand'
  <2>1. step = "put" => got = made'[pick].blocks
    BY <1>1, <1>3 DEF Way, InHand, Stages
  <2>2. clean' /\ step \in {"download", "open", "import"} => clean /\ space \subseteq space'
    BY DEF Quiet, Verdicts
  <2>. QED
    BY <1>1, <1>3, <2>1, <2>2 DEF Way, InHand, Stages, restore, EntriesOf
<1>7. Back'
  <2>. USE DEF restore
  <2>1. LatestOfAll'
    <3>. SUFFICES ASSUME MaxBackups < Enough, step = "done", clean', clean,
                         plan \in {"auto", "car", "space"}, pick # 0
                  PROVE  LatestComesBack'
      BY DEF LatestOfAll, LatestComesBack
    <3>1. LatestComesBack
      BY DEF Back, LatestOfAll
    <3>2. \A k \in shown : made'[k].at <= made'[pick].at
      <4>1. \A k \in shown : k \in 1..Len(made) /\ made[k].at <= made[pick].at
        BY DEF Way, Found
      <4>. QED
        BY <4>1, <1>3, StaysSame
    <3>. QED
      BY <3>1, <3>2, <1>1, <1>3 DEF LatestComesBack
  <2>2. FoundIsRestorable'
    BY DEF Back, FoundIsRestorable
  <2>3. BlocksComeBack'
    <3>1. target \in Db /\ plan = "map" => pick # 0
      BY DEF Way, Stages
    <3>. QED
      BY <1>3, <3>1 DEF Back, BlocksComeBack, EntriesOf
  <2>4. PayloadsComeBack'
    BY DEF Back, PayloadsComeBack, EntriesOf
  <2>. QED
    BY <2>1, <2>2, <2>3, <2>4 DEF Back
<1>. QED
  BY <1>4, <1>5, <1>6, <1>7 DEF Way

-----------------------------------------------------------------------------
(* Backing up.                                                              *)

Restless == UNCHANGED <<clearing, restore, clean>> /\ faults' \in Nat /\ space \subseteq space'

LEMMA FaultCounts ==
  ASSUME faults \in Nat, NEW f, Fault(f) PROVE faults' \in Nat /\ faults' # faults
BY DEF Fault

LEMMA OrFaultCounts ==
  ASSUME faults \in Nat, NEW f, NEW S, OrFault(f, S)
  PROVE  faults' \in Nat /\ (faults' = faults => S = {})
BY FaultCounts DEF OrFault, NoFault

LEMMA BlocksOfUnion ==
  ASSUME NEW F, NEW G PROVE BlocksOf(F \cup G) = BlocksOf(F) \cup BlocksOf(G)
BY DEF BlocksOf

\* What is uploaded is finite where its blocks are.
LEMMA UploadFinite ==
  ASSUME NEW F, Upload(F), IsFiniteSet(BlocksOf(F)), IsFiniteSet(BlocksOf(lag \cup listed))
  PROVE  IsFiniteSet(BlocksOf(lag \cup listed)')
<1>1. (lag \cup listed)' \subseteq (lag \cup listed) \cup F
  BY DEF Upload
<1>2. BlocksOf(lag \cup listed)' \subseteq BlocksOf(lag \cup listed) \cup BlocksOf(F)
  BY <1>1 DEF BlocksOf
<1>3. IsFiniteSet(BlocksOf(lag \cup listed) \cup BlocksOf(F))
  BY FS_Union
<1>. QED
  BY <1>2, <1>3, FS_Subset

\* The files of a CAR and of metadata hold no single block.
LEMMA NoBlocks ==
  ASSUME NEW k PROVE /\ IsFiniteSet(BlocksOf({CarOf(k)})) /\ IsFiniteSet(BlocksOf({MetaOf(k)}))
                     /\ IsFiniteSet(BlocksOf({}))
<1>1. BlocksOf({CarOf(k)}) = {} /\ BlocksOf({MetaOf(k)}) = {} /\ BlocksOf({}) = {}
  BY DEF BlocksOf, CarOf, MetaOf, FileOf
<1>. QED
  BY <1>1, FS_EmptySet

LEMMA FilesOfBlocks ==
  ASSUME NEW B, IsFiniteSet(B) PROVE IsFiniteSet(BlocksOf({FileOf(b) : b \in B}))
<1>1. BlocksOf({FileOf(b) : b \in B}) \subseteq B
  BY DEF BlocksOf, FileOf
<1>. QED
  BY <1>1, FS_Subset

LEMMA WriteBacks ==
  ASSUME SpaceInv, NEW e \in Entry, Write(e)
  PROVE  Backed' /\ Named' /\ MadeGrows /\ Restless /\ Finite'
<1>. USE DEF SpaceInv
<1>1. log \in [Db -> SUBSET Entry] /\ home[e] \in Db /\ made \in Seq(Backup) /\ made' = made
  BY SpaceAssumption DEF Backed, Write
<1>2. \A d \in Db : log'[d] = IF d = home[e] THEN log[d] \cup {e} ELSE log[d]
  BY <1>1 DEF Write
<1>3. log' \in [Db -> SUBSET Entry]
  BY <1>1 DEF Write
<1>4. ASSUME NEW d \in Db PROVE LogOf(d, log'[d])
  <2>1. \A f \in log[d] : home[f] = d /\ next[f] \subseteq log[d]
    BY DEF Backed, LogOf
  <2>2. d = home[e] => next[e] \subseteq log[d]
    BY DEF Write
  <2>3. ASSUME NEW f \in log'[d] PROVE home[f] = d /\ next[f] \subseteq log'[d]
    <3>1. log[d] \subseteq log'[d] /\ (f \in log[d] \/ (f = e /\ d = home[e]))
      BY <1>2
    <3>. QED
      BY ONLY <2>1, <2>2, <3>1
  <2>. QED
    BY <2>3 DEF LogOf
<1>5. Backed'
  <2>1. UNCHANGED <<made, job, todo>>
    BY DEF Write
  <2>. QED
    BY <1>3, <1>4, <2>1 DEF Backed
<1>6. MadeGrows
  BY <1>1 DEF MadeGrows, Same, Backed
<1>7. \A d \in Db : IsFiniteSet(log'[d])
  <2>1. \A d \in Db : IsFiniteSet(log[d])
    BY DEF Finite
  <2>. QED
    BY <1>2, <2>1, FS_AddElement
<1>8. Finite'
  BY <1>7 DEF Finite, Write, there, restore, BlocksOf
<1>9. Named' /\ Restless
  BY DEF Named, Restless, Write, there, clearing, restore, Way, Stages
<1>. QED
  BY <1>5, <1>6, <1>8, <1>9

\* A backup is of a whole log, and takes its place after the others.
LEMMA ExtractsBacks ==
  ASSUME SpaceInv, NEW d \in Db, NEW how \in Strategies, NEW v \in {"begun", "ok", "failed"},
         Extracts(d, how, v)
  PROVE  /\ made' \in Seq(Backup) /\ Len(made') = Len(made) + 1 /\ Len(made') <= MaxBackups
         /\ MadeGrows /\ \A k \in 1..Len(made') : Sound(made'[k])
         /\ todo' = made'[Len(made')].blocks /\ IsFiniteSet(todo')
<1>. USE DEF SpaceInv
<1>. DEFINE whole == log[d] \cup {Manifest[d], Access[d]} \cup Signers(log[d])
            last  == IF made = <<>> THEN 0 ELSE made[Len(made)].at
<1>1. made \in Seq(Backup) /\ Len(made) \in Nat
  BY DEF Backed
<1>2. last \in Nat
  <2>1. made # <<>> => made[Len(made)] \in Backup
    BY <1>1
  <2>. QED
    BY <2>1 DEF Backup
<1>3. PICK at \in {last, last + 1} \ {0} :
        made' = Append(made, [db |-> d, how |-> how, at |-> at, blocks |-> whole,
                              seen |-> log[d], sent |-> {}, verdict |-> v])
  BY DEF Extracts
<1>4. PICK b : b = [db |-> d, how |-> how, at |-> at, blocks |-> whole,
                    seen |-> log[d], sent |-> {}, verdict |-> v]
  OBVIOUS
<1>5. b \in Backup /\ Sound(b)
  <2>1. log[d] \in SUBSET Entry /\ LogOf(d, log[d])
    BY DEF Backed
  <2>2. whole \subseteq Block /\ at \in Nat
    BY <1>2, <2>1 DEF Block, Signers
  <2>3. b \in Backup
    BY <1>4, <2>1, <2>2 DEF Backup
  <2>. QED
    BY <1>4, <2>1, <2>3 DEF Sound
<1>6. made' = Append(made, b)
  BY <1>3, <1>4
<1>7. made' \in Seq(Backup) /\ Len(made') = Len(made) + 1
  BY <1>1, <1>5, <1>6
<1>8. \A k \in 1..Len(made') : made'[k] = IF k = Len(made) + 1 THEN b ELSE made[k]
  BY <1>1, <1>5, <1>6
<1>9. \A k \in 1..Len(made) : Sound(made[k])
  BY DEF Backed
<1>10. \A k \in 1..Len(made') : Sound(made'[k])
  BY <1>1, <1>5, <1>7, <1>8, <1>9
<1>11. MadeGrows
  <2>1. \A k \in 1..Len(made) : made'[k] = made[k]
    BY <1>1, <1>7, <1>8
  <2>. QED
    BY <1>1, <1>7, <2>1 DEF MadeGrows, Same
<1>12. todo' = made'[Len(made')].blocks
  <2>1. todo' = whole
    BY DEF Extracts
  <2>2. made'[Len(made')] = b
    BY <1>1, <1>7, <1>8
  <2>. QED
    BY <1>4, <2>1, <2>2
<1>13. IsFiniteSet(todo')
  <2>1. IsFiniteSet(log[d])
    BY DEF Finite
  <2>2. IsFiniteSet({Manifest[d]} \cup {Access[d]})
    BY FS_Singleton, FS_Union
  <2>3. IsFiniteSet(Signers(log[d]))
    <3>1. [e \in log[d] |-> identity[e]] \in Surjection(log[d], Signers(log[d]))
      BY DEF Surjection, Signers
    <3>. QED
      BY <2>1, <3>1, FS_Surjection
  <2>4. todo' = (log[d] \cup ({Manifest[d]} \cup {Access[d]})) \cup Signers(log[d])
    BY DEF Extracts
  <2>5. IsFiniteSet(log[d] \cup ({Manifest[d]} \cup {Access[d]}))
    BY <2>1, <2>2, FS_Union
  <2>. QED
    BY <2>3, <2>4, <2>5, FS_Union
<1>14. Len(made') <= MaxBackups
  BY <1>1, <1>7, SpaceAssumption DEF Extracts
<1>. QED
  BY <1>7, <1>10, <1>11, <1>12, <1>13, <1>14

\* What a step of a backup that does not touch the restore keeps, once its own part is
\* seen to.
Backs == Backed' /\ Named' /\ MadeGrows /\ Restless /\ Finite'

LEMMA BegunBacks ==
  ASSUME SpaceInv, NEW d \in Db, NEW how \in Strategies, NEW v \in {"begun", "ok", "failed"},
         Extracts(d, how, v), faults' \in Nat, job' \in {"none", "car", "blocks"},
         UNCHANGED <<log, there, clearing, restore, clean>>
  PROVE  Backs
<1>. USE DEF SpaceInv
<1>1. /\ made' \in Seq(Backup) /\ Len(made') = Len(made) + 1 /\ Len(made') <= MaxBackups
      /\ MadeGrows /\ \A k \in 1..Len(made') : Sound(made'[k])
      /\ todo' = made'[Len(made')].blocks /\ IsFiniteSet(todo')
  BY ExtractsBacks
<1>2. Backed'
  <2>1. made' # <<>> /\ todo' \subseteq made'[Len(made')].blocks
    BY <1>1 DEF Backed
  <2>. QED
    BY <1>1, <2>1 DEF Backed
<1>3. Named' /\ Restless
  BY DEF Named, Restless, there, clearing, restore
<1>4. Finite'
  BY <1>1 DEF Finite, there, restore, BlocksOf
<1>. QED
  BY <1>1, <1>2, <1>3, <1>4 DEF Backs

LEMMA BackupBacks ==
  ASSUME SpaceInv, NEW d \in Db, NEW how \in Strategies, BackupDatabase(d, how)
  PROVE  Backs
<1>1. faults' \in Nat /\ job' \in {"none", "car", "blocks"}
  BY DEF SpaceInv, BackupDatabase, Way, Stages
<1>. QED
  BY <1>1, BegunBacks DEF BackupDatabase

LEMMA BackupWithUCANBacks ==
  ASSUME SpaceInv, NEW d \in Db, NEW ok \in BOOLEAN, BackupDatabaseWithUCAN(d, ok)
  PROVE  Backs
<1>1. faults' \in Nat /\ job' \in {"none", "car", "blocks"}
  BY FaultCounts DEF SpaceInv, BackupDatabaseWithUCAN, UCANClient, NoFault, Way, Stages
<1>2. "ucan" \in Strategies
  BY DEF BackupDatabaseWithUCAN, Extracts
<1>. QED
  BY <1>1, <1>2, BegunBacks DEF BackupDatabaseWithUCAN

\* An upload of files that hold no single block, by which the backup may end.
LEMMA UploadBacks ==
  ASSUME SpaceInv, job # "none", NEW F, Upload(F), IsFiniteSet(BlocksOf(F)), faults' \in Nat,
         made' = made \/ (\E v \in {"begun", "ok", "failed"} : Ends(v)),
         \/ job' = "none"
         \/ job' = "metadata" /\ job = "car" /\ CarOf(Len(made)) \in F /\ made' = made,
         \A k \in Nat : MetaOf(k) \in F => job = "metadata" /\ k = Len(made),
         UNCHANGED <<log, todo, clearing, restore, clean>>
  PROVE  Backs
<1>. USE DEF SpaceInv
<1>1. made # <<>> /\ made \in Seq(Backup) /\ \A k \in 1..Len(made) : Sound(made[k])
  BY DEF Backed
<1>2. /\ made' \in Seq(Backup) /\ Len(made') = Len(made) /\ MadeGrows
      /\ \A k \in 1..Len(made') : Sound(made'[k])
  <2>1. CASE made' = made
    BY <1>1, <2>1 DEF MadeGrows, Same
  <2>2. CASE \E v \in {"begun", "ok", "failed"} : Ends(v)
    BY <1>1, <2>2, EndsLast
  <2>. QED
    BY <2>1, <2>2
<1>3. made' # <<>>
  BY <1>1, <1>2
<1>4. job' # "blocks"
  OBVIOUS
<1>5. Backed'
  BY <1>2, <1>3, <1>4 DEF Backed
<1>6. space' = space \cup F
  BY DEF Upload
<1>7. Named'
  <2>1. UNCHANGED <<clears, clear>>
    BY DEF clearing
  <2>2. ASSUME clears = 0, NEW k \in Nat, MetaOf(k) \in space' PROVE CarOf(k) \in space'
    BY <1>6, <2>2 DEF Named
  <2>3. clears = 0 /\ job' = "metadata" => CarOf(Len(made')) \in space'
    BY <1>2, <1>6
  <2>. QED
    BY <2>1, <2>2, <2>3 DEF Named
<1>8. Restless
  BY <1>6 DEF Restless
<1>9. Finite'
  <2>1. IsFiniteSet(BlocksOf(lag \cup listed)')
    BY UploadFinite DEF Finite
  <2>. QED
    BY <1>4, <2>1 DEF Finite, restore, BlocksOf
<1>. QED
  BY <1>2, <1>5, <1>7, <1>8, <1>9 DEF Backs

LEMMA PutCARBacks ==
  ASSUME SpaceInv, PutCAR PROVE Backs
<1>1. IsFiniteSet(BlocksOf({CarOf(Len(made))}))
  BY NoBlocks
<1>2. \A k \in Nat : MetaOf(k) \notin {CarOf(Len(made))}
  BY DEF MetaOf, CarOf
<1>3. faults' \in Nat
  BY DEF SpaceInv, PutCAR, Way, Stages
<1>. QED
  BY <1>1, <1>2, <1>3, UploadBacks DEF PutCAR

LEMMA PutMetadataBacks ==
  ASSUME SpaceInv, PutMetadata PROVE Backs
<1>1. IsFiniteSet(BlocksOf({MetaOf(Len(made))}))
  BY NoBlocks
<1>2. \A k \in Nat : MetaOf(k) \in {MetaOf(Len(made))} => k = Len(made)
  BY DEF MetaOf
<1>3. faults' \in Nat
  BY DEF SpaceInv, PutMetadata, Way, Stages
<1>. QED
  BY <1>1, <1>2, <1>3, UploadBacks DEF PutMetadata

\* Nothing was uploaded at all.
LEMMA NothingUploaded == ASSUME SpaceInv, UNCHANGED there PROVE Upload({})
BY DEF Upload, there

LEMMA PutFailsBacks ==
  ASSUME SpaceInv, NEW arrived \in BOOLEAN, PutFails(arrived) PROVE Backs
<1>. DEFINE F == IF ~ arrived THEN {}
                 ELSE {IF job = "car" THEN CarOf(Len(made)) ELSE MetaOf(Len(made))}
<1>1. Upload(F)
  BY NothingUploaded DEF PutFails
<1>2. IsFiniteSet(BlocksOf(F))
  BY NoBlocks
<1>3. \A k \in Nat : MetaOf(k) \in F => job = "metadata" /\ k = Len(made)
  BY DEF MetaOf, CarOf, PutFails
<1>4. faults' \in Nat
  BY FaultCounts DEF SpaceInv, PutFails, Way, Stages
<1>. HIDE DEF F
<1>. QED
  BY <1>1, <1>2, <1>3, <1>4, UploadBacks DEF PutFails

LEMMA KilledBacks ==
  ASSUME SpaceInv, NEW arrived \in OneOf(Under), Killed(arrived) PROVE Backs
<1>1. Upload(arrived) /\ arrived \subseteq Under
  BY DEF Killed
<1>2. IsFiniteSet(BlocksOf(arrived))
  <2>1. CASE job = "blocks"
    <3>1. IsFiniteSet(todo)
      BY <2>1 DEF SpaceInv, Finite
    <3>2. IsFiniteSet(BlocksOf({FileOf(b) : b \in todo}))
      BY <3>1, FilesOfBlocks
    <3>3. BlocksOf(arrived) \subseteq BlocksOf({FileOf(b) : b \in todo})
      BY <2>1, <1>1 DEF BlocksOf, Under
    <3>. QED
      BY <3>2, <3>3, FS_Subset
  <2>2. CASE job # "blocks"
    <3>1. BlocksOf(arrived) = {}
      BY <2>2, <1>1 DEF BlocksOf, Under, CarOf, MetaOf, FileOf
    <3>. QED
      BY <3>1, FS_EmptySet
  <2>. QED
    BY <2>1, <2>2
<1>3. \A k \in Nat : MetaOf(k) \in arrived => job = "metadata" /\ k = Len(made)
  <2>1. job \in {"car", "metadata", "blocks"}
    BY DEF Killed, SpaceInv, Backed
  <2>. QED
    BY <1>1, <2>1 DEF Under, MetaOf, CarOf, FileOf
<1>4. faults' \in Nat
  BY FaultCounts DEF SpaceInv, Killed, Way, Stages
<1>. QED
  BY <1>1, <1>2, <1>3, <1>4, UploadBacks DEF Killed

\* A batch of the blocks that are left; the ones that went up are said to be sent.
LEMMA BatchBacks ==
  ASSUME SpaceInv, job = "blocks", NEW batch \in SUBSET todo, NEW refused \in SUBSET batch,
         UploadBatch(batch, refused)
  PROVE  Backs
<1>. USE DEF SpaceInv
<1>. DEFINE n == Len(made)
            F == {FileOf(b) : b \in batch \ refused}
<1>1. /\ made # <<>> /\ made \in Seq(Backup) /\ \A k \in 1..Len(made) : Sound(made[k])
      /\ todo \subseteq made[n].blocks /\ IsFiniteSet(todo) /\ n \in 1..Len(made)
  BY DEF Backed, Finite
<1>2. made[n] \in Backup /\ Sound(made[n])
  BY <1>1
<1>3. PICK sent : sent = made[n].sent \cup (batch \ refused)
  OBVIOUS
<1>4. PICK v : v = IF todo' # {} THEN "begun" ELSE IF sent = {} THEN "failed" ELSE "ok"
  OBVIOUS
<1>5. PICK b : b = [made[n] EXCEPT !.sent = sent, !.verdict = v]
  OBVIOUS
<1>6. made' = [made EXCEPT ![n] = b]
  <2>1. made' = [made EXCEPT ![n].sent = sent, ![n].verdict = v]
    BY <1>3, <1>4 DEF UploadBatch
  <2>2. made' = [made EXCEPT ![n] = [made[n] EXCEPT !.sent = sent, !.verdict = v]]
    BY <2>1, <1>1
  <2>. QED
    BY <2>2, <1>5
<1>7. b \in Backup /\ Sound(b) /\ Same(made[n], b)
  <2>1. sent \in SUBSET Block /\ sent \subseteq made[n].blocks /\ made[n].sent \subseteq sent
    BY <1>1, <1>2, <1>3 DEF Backup, Sound
  <2>2. v \in {"begun", "ok", "failed"}
    BY <1>4
  <2>3. /\ b.db = made[n].db /\ b.how = made[n].how /\ b.at = made[n].at
        /\ b.blocks = made[n].blocks /\ b.seen = made[n].seen /\ b.sent = sent /\ b.verdict = v
    BY <1>2, <1>5 DEF Backup
  <2>4. b \in Backup
    BY <1>2, <1>5, <2>1, <2>2 DEF Backup
  <2>. QED
    BY <1>2, <2>1, <2>3, <2>4 DEF Sound, Same
<1>8. /\ made' \in Seq(Backup) /\ Len(made') = n /\ MadeGrows
      /\ \A k \in 1..Len(made') : Sound(made'[k]) /\ made'[n] = b
  BY <1>1, <1>6, <1>7, LastChanges
<1>9. todo' \subseteq todo /\ IsFiniteSet(todo')
  <2>1. todo' \subseteq todo
    BY DEF UploadBatch
  <2>. QED
    BY <1>1, <2>1, FS_Subset
<1>10. Backed'
  <2>1. made' # <<>>
    BY <1>1, <1>8
  <2>2. todo' \subseteq made'[Len(made')].blocks
    BY <1>1, <1>7, <1>8, <1>9 DEF Same
  <2>3. job' \in {"none", "blocks"} /\ UNCHANGED log
    BY DEF UploadBatch
  <2>. QED
    BY <1>8, <2>1, <2>2, <2>3 DEF Backed
<1>11. Upload(F) /\ space' = space \cup F /\ \A k : MetaOf(k) \notin F
  BY DEF UploadBatch, Upload, MetaOf, FileOf
<1>12. Named'
  BY <1>8, <1>11 DEF Named, UploadBatch, clearing
<1>13. Restless
  <2>1. faults' \in Nat
    BY OrFaultCounts DEF UploadBatch, Way, Stages
  <2>. QED
    BY <1>11, <2>1 DEF Restless, UploadBatch, clearing, restore
<1>14. Finite'
  <2>1. IsFiniteSet(batch \ refused)
    BY <1>1, FS_Subset
  <2>2. IsFiniteSet(BlocksOf(F))
    BY <2>1, FilesOfBlocks
  <2>. HIDE DEF F
  <2>3. IsFiniteSet(BlocksOf(lag \cup listed)')
    BY <1>11, <2>2, UploadFinite DEF Finite
  <2>. QED
    BY <1>9, <2>3 DEF Finite, UploadBatch, restore, BlocksOf
<1>. QED
  BY <1>8, <1>10, <1>12, <1>13, <1>14 DEF Backs

LEMMA PropagateBacks ==
  ASSUME SpaceInv, Propagate PROVE Backs
<1>1. made' = made /\ made \in Seq(Backup)
  BY DEF Propagate, source, SpaceInv, Backed
<1>2. MadeGrows
  BY <1>1 DEF MadeGrows, Same
<1>3. Backed' /\ Named' /\ Restless
  BY DEF SpaceInv, Backed, Named, Restless, Propagate, source, clearing, restore, Way, Stages
<1>4. (lag \cup listed)' = lag \cup listed
  BY DEF Propagate
<1>5. Finite'
  BY <1>4 DEF SpaceInv, Finite, Propagate, source, restore, BlocksOf
<1>. QED
  BY <1>2, <1>3, <1>5 DEF Backs

LEMMA BackingBacks ==
  ASSUME SpaceInv, Backing PROVE Backs
<1>1. ASSUME NEW e \in Entry, Write(e) PROVE Backs
  BY <1>1, WriteBacks DEF Backs
<1>2. ASSUME NEW batch \in SUBSET todo, NEW refused \in OneOf(batch),
             UploadBlocks(batch, refused) \/ UploadBlocksWithUCAN(batch, refused)
      PROVE  Backs
  <2>1. refused \in SUBSET batch
    BY DEF OneOf
  <2>. QED
    BY <1>2, <2>1, BatchBacks DEF UploadBlocks, UploadBlocksWithUCAN
<1>3. ASSUME NEW d \in Db, NEW how \in Strategies, BackupDatabase(d, how) PROVE Backs
  BY <1>3, BackupBacks
<1>4. ASSUME NEW d \in Db, NEW ok \in BOOLEAN, BackupDatabaseWithUCAN(d, ok) PROVE Backs
  BY <1>4, BackupWithUCANBacks
<1>5. ASSUME NEW arrived \in BOOLEAN, PutFails(arrived) PROVE Backs
  BY <1>5, PutFailsBacks
<1>6. ASSUME NEW arrived \in OneOf(Under), Killed(arrived) PROVE Backs
  BY <1>6, KilledBacks
<1>. QED
  BY <1>1, <1>2, <1>3, <1>4, <1>5, <1>6, PutCARBacks, PutMetadataBacks, PropagateBacks DEF Backing

\* Writing, backing up and propagation keep all that a restore has, and all it promises.
LEMMA BackingStep ==
  ASSUME SpaceInv, Backing PROVE SpaceInv'
<1>1. Backs
  BY BackingBacks
<1>2. Way' /\ Back'
  <2>1. /\ Way /\ Back /\ MadeGrows /\ made \in Seq(Backup) /\ made' \in Seq(Backup)
        /\ clears \in Nat /\ clean \in BOOLEAN
    BY <1>1 DEF SpaceInv, Backs, Backed, Named, Way, Stages
  <2>2. /\ UNCHANGED restore /\ clean' = clean /\ clears' = clears /\ faults' \in Nat
        /\ space \subseteq space'
    BY <1>1 DEF Backs, Restless, clearing
  <2>. QED
    BY <2>1, <2>2, RestRests
<1>. QED
  BY <1>1, <1>2 DEF SpaceInv, Backs

\* And so does a clearing, as it disturbs the restore it meets.
LEMMA ClearingStep ==
  ASSUME SpaceInv, Clearing PROVE SpaceInv'
<1>. USE DEF SpaceInv
<1>1. UNCHANGED source /\ UNCHANGED restore /\ clean' = (clean /\ Quiet) /\ UNCHANGED lag
  BY DEF Clearing, ClearUploads, ClearBlobs, Disturbed
<1>2. faults' \in Nat
  BY FaultCounts, OrFaultCounts DEF Clearing, ClearUploads, ClearBlobs, Way, Stages
<1>3. clears' \in Nat /\ clears' > 0 /\ clear' \in {"blobs", "partial", "complete"}
  BY DEF Clearing, ClearUploads, ClearBlobs, Named
<1>4. Backed' /\ Named' /\ made' = made
  BY <1>1, <1>3 DEF Backed, source, Named
<1>5. MadeGrows
  BY <1>4 DEF MadeGrows, Same, Backed
<1>6. Way' /\ Back'
  <2>1. Way /\ Back /\ made \in Seq(Backup) /\ made' \in Seq(Backup) /\ clears \in Nat
    BY <1>4 DEF Backed, Named
  <2>3. clean' \in BOOLEAN
    <3>1. (clean /\ Quiet) \in BOOLEAN
      OBVIOUS
    <3>2. clean' = (clean /\ Quiet)
      BY <1>1
    <3>. QED
      BY ONLY <3>1, <3>2
  <2>4. clean' => clean /\ Quiet
    BY <1>1
  <2>2. clears' # 0
    BY <1>3
  <2>. QED
    BY <1>1, <1>2, <1>5, <2>1, <2>2, <2>3, <2>4, RestRests
<1>7. Finite'
  <2>1. listed' \subseteq listed
    BY DEF Clearing, ClearUploads, ClearBlobs
  <2>2. BlocksOf(lag \cup listed)' \subseteq BlocksOf(lag \cup listed)
    BY <1>1, <2>1 DEF BlocksOf
  <2>3. IsFiniteSet(BlocksOf(lag \cup listed)')
    BY <2>2, FS_Subset DEF Finite
  <2>. QED
    BY <1>1, <2>3 DEF Finite, source, restore, BlocksOf
<1>. QED
  BY <1>4, <1>6, <1>7

-----------------------------------------------------------------------------
(* Restoring.                                                               *)

Elsewhere == UNCHANGED <<source, there, clearing>>

\* The side that backs up is as it was; what is left to show is the restore's own.
LEMMA OtherSide ==
  ASSUME SpaceInv, Elsewhere, Way', Back',
         step' \in {"download", "open", "import"} /\ pick' = 0 => IsFiniteSet(BlocksOf(files'))
  PROVE  SpaceInv'
<1>1. Backed' /\ Named'
  BY DEF SpaceInv, Elsewhere, Backed, Named, source, there, clearing
<1>2. Finite'
  BY DEF SpaceInv, Elsewhere, Finite, source, there, clearing, BlocksOf
<1>. QED
  BY <1>1, <1>2 DEF SpaceInv

\* A fault that a restore is told of has met it.
LEMMA TellsOf ==
  ASSUME clean \in BOOLEAN, Tells
  PROVE  clean' \in BOOLEAN /\ (clean' => clean /\ faults' = faults)
BY DEF Tells

\* A restore that fails for no fault has found no backup, as long as nothing was cleared.
LEMMA FailsWell ==
  ASSUME SpaceInv, Elsewhere, Fails, clean' \in BOOLEAN, faults' \in Nat,
         clean' /\ clears = 0 => pick = 0 \/ plan = "map"
  PROVE  SpaceInv'
<1>1. Way'
  <2>1. Stages'
    BY DEF SpaceInv, Way, Stages, Fails, Verdicts, Elsewhere, source
  <2>2. Found'
    BY DEF SpaceInv, Way, Found, Fails, Elsewhere, source, there, clearing
  <2>3. InHand'
    BY DEF InHand, Fails
  <2>. QED
    BY <2>1, <2>2, <2>3 DEF Way
<1>2. Back'
  BY DEF Back, LatestOfAll, LatestComesBack, FoundIsRestorable, BlocksComeBack, PayloadsComeBack,
         Fails, Elsewhere, clearing
<1>. QED
  BY <1>1, <1>2, OtherSide DEF Fails

\* Before there is a verdict, nothing is promised yet.
LEMMA NoVerdict ==
  ASSUME step' \notin Verdicts PROVE Back'
BY DEF Verdicts, Back, LatestOfAll, LatestComesBack, FoundIsRestorable, BlocksComeBack,
       PayloadsComeBack

LEMMA BeginStep ==
  ASSUME SpaceInv, NEW p, NEW n, NEW k \in 0..Len(made), Begin(p, n, k)
  PROVE  SpaceInv'
<1>. USE DEF SpaceInv
<1>1. /\ Elsewhere /\ faults' = faults /\ copy' = copy /\ made' = made /\ pick' = k /\ plan' = p
      /\ clears' = clears /\ files' = (IF p = "map" THEN {FileOf(b) : b \in made[k].sent} ELSE {})
      /\ shown' = files' \cap space /\ space' = space /\ store' = store /\ got' = {}
      /\ (p = "map" => k # 0) /\ (p # "map" => k = 0)
  BY DEF Begin, Elsewhere, source, there, clearing
<1>2. step' = CASE p = "stamp" -> "metadata" [] p = "map" -> "download"
                [] p \in BlockPlans -> "scan" [] OTHER -> "look"
  BY DEF Begin
<1>3. /\ step' \in {"metadata", "download", "scan", "look"}
      /\ (step' = "look" => p \notin {"stamp", "map"} \cup BlockPlans)
      /\ (p = "map" <=> step' = "download")
  BY <1>2 DEF BlockPlans
<1>4. clean' \in BOOLEAN
  BY DEF Begin
<1>5. Stages'
  BY <1>1, <1>3, <1>4 DEF Way, Stages
<1>6. Found' /\ InHand'
  BY <1>1, <1>3 DEF Found, InHand
<1>7. Back'
  BY <1>3, NoVerdict DEF Verdicts
<1>. QED
  BY <1>1, <1>3, <1>5, <1>6, <1>7, OtherSide DEF Way

\* Where a look fails to find, the search goes on, or on to the blocks, or ends.
LEMMA LooksAgainStep ==
  ASSUME SpaceInv, step = "look", LooksAgain, Elsewhere, clean' \in BOOLEAN, faults' \in Nat
  PROVE  SpaceInv'
<1>1. /\ UNCHANGED <<plan, pick, files, store, copy, shown>> /\ pick = 0 /\ plan # "map"
      /\ step' \in {"look", "scan", "failed"} /\ made' = made /\ (step' = "scan" => plan = "auto")
  BY DEF LooksAgain, SpaceInv, Way, Stages, Elsewhere, source
<1>2. Stages'
  BY <1>1 DEF SpaceInv, Way, Stages, Verdicts
<1>3. Found' /\ InHand'
  BY <1>1 DEF Found, InHand
<1>4. Back'
  BY <1>1 DEF Back, LatestOfAll, LatestComesBack, FoundIsRestorable, BlocksComeBack, PayloadsComeBack
<1>. QED
  BY <1>1, <1>2, <1>3, <1>4, OtherSide DEF Way

\* The newest of what a look found is the newest of all, if it had not found enough.
LEMMA LookStep ==
  ASSUME SpaceInv, NEW lost, NEW found \in SUBSET (1..Len(made)), Look(lost, found)
  PROVE  SpaceInv'
<1>. USE DEF SpaceInv
<1>1. /\ step = "look" /\ Elsewhere /\ clean' \in BOOLEAN /\ faults' \in Nat /\ made' = made
      /\ pick = 0 /\ plan \notin {"stamp", "map"} \cup BlockPlans
      /\ clears' = clears /\ space' = space
  BY TellsOf, OrFaultCounts DEF Look, Elsewhere, Way, Stages, source, clearing, there
<1>2. CASE found = {}
  BY <1>1, <1>2, LooksAgainStep DEF Look
<1>3. CASE found # {}
  <2>1. /\ pick' \in Newest(found) /\ shown' = Backups(lost) /\ step' \in {"car", "metadata"}
        /\ UNCHANGED <<plan, wanted, files, store, copy>>
        /\ found \subseteq Backups(lost) /\ (found = Backups(lost) \/ Cardinality(found) >= Enough)
    BY <1>3 DEF Look
  <2>2. /\ pick' \in 1..Len(made) /\ pick' \in found /\ pick' \in Backups(lost)
        /\ \A j \in found : made[j].at <= made[pick'].at
    BY <2>1 DEF Newest
  <2>3. Stages'
    BY <1>1, <2>1, <2>2 DEF Way, Stages
  <2>4. MaxBackups < Enough => found = Backups(lost)
    <3>. SUFFICES ASSUME MaxBackups < Enough PROVE ~ (Cardinality(found) >= Enough)
      BY <2>1
    <3>1. Len(made) \in Nat /\ Len(made) <= MaxBackups
      BY DEF Backed
    <3>2. IsFiniteSet(1..Len(made)) /\ Cardinality(1..Len(made)) = Len(made)
      BY <3>1, FS_Interval
    <3>3. Cardinality(found) <= Len(made) /\ Cardinality(found) \in Nat
      BY <3>2, FS_Subset, FS_CardinalityType
    <3>. QED
      BY <3>1, <3>3, SpaceAssumption
  <2>5. MaxBackups < Enough =>
          \A j \in shown' : j \in 1..Len(made) /\ made[j].at <= made[pick'].at
    BY <2>1, <2>2, <2>4 DEF Backups
  <2>6. spaceName[made[pick'].db] = wanted /\ MetaOf(pick') \in space
    BY <2>2 DEF Backups
  <2>7. Found'
    BY <1>1, <2>1, <2>5, <2>6 DEF Found
  <2>8. InHand'
    BY <2>1, <1>1 DEF InHand
  <2>9. Back'
    BY <2>1, NoVerdict DEF Verdicts
  <2>. QED
    BY <1>1, <2>1, <2>3, <2>7, <2>8, <2>9, OtherSide DEF Way
<1>. QED
  BY <1>2, <1>3

LEMMA LookFailsStep ==
  ASSUME SpaceInv, LookFails PROVE SpaceInv'
<1>1. clean' \in BOOLEAN /\ faults' \in Nat
  BY TellsOf, FaultCounts DEF LookFails, SpaceInv, Way, Stages
<1>. QED
  BY <1>1, LooksAgainStep DEF LookFails, Elsewhere

\* A fault told of excuses a failure.
LEMMA FaultFails ==
  ASSUME SpaceInv, NEW f, Fault(f), Fails, Tells, Elsewhere PROVE SpaceInv'
<1>1. faults' \in Nat /\ ~ clean' /\ clean' \in BOOLEAN
  BY FaultCounts, TellsOf DEF SpaceInv, Way, Stages
<1>. QED
  BY <1>1, FailsWell

LEMMA FetchMetadataStep ==
  ASSUME SpaceInv, FetchMetadata PROVE SpaceInv'
<1>. USE DEF SpaceInv
<1>1. step = "metadata" /\ Elsewhere /\ Tells /\ plan # "map"
  BY DEF FetchMetadata, Elsewhere, Way, Stages
<1>2. CASE pick # 0 /\ step' = "car" /\ NoFault /\
           UNCHANGED <<plan, wanted, attempt, pick, files, got, store, copy, target, imported, shown>>
  <2>1. clean' \in BOOLEAN /\ faults' \in Nat /\ made' = made /\ clears' = clears /\ space' = space
    BY <1>1, <1>2, TellsOf DEF Way, Stages, NoFault, Elsewhere, source, clearing, there
  <2>2. Stages' /\ Found' /\ InHand'
    BY <1>1, <1>2, <2>1 DEF Way, Stages, Found, InHand
  <2>3. Back'
    BY <1>2, NoVerdict DEF Verdicts
  <2>. QED
    BY <1>1, <1>2, <2>2, <2>3, OtherSide DEF Way
<1>3. CASE (pick = 0 \/ MetaOf(pick) \notin space) /\ Fails /\ NoFault
  <2>1. clean' \in BOOLEAN /\ faults' \in Nat
    BY <1>1, <1>3, TellsOf DEF Way, Stages, NoFault
  <2>2. clears = 0 => pick = 0 \/ plan = "map"
    BY <1>3 DEF Way, Found
  <2>. QED
    BY <1>1, <1>3, <2>1, <2>2, FailsWell
<1>4. CASE Fault("fetch") /\ Fails
  BY <1>1, <1>4, FaultFails
<1>. QED
  BY <1>2, <1>3, <1>4 DEF FetchMetadata

LEMMA FetchCARStep ==
  ASSUME SpaceInv, FetchCAR PROVE SpaceInv'
<1>. USE DEF SpaceInv
<1>1. step = "car" /\ Elsewhere /\ Tells /\ plan # "map" /\ pick # 0 /\ pick \in Nat
  BY DEF FetchCAR, Elsewhere, Way, Stages, Backed
<1>2. CASE got' = made[pick].blocks /\ step' = "put" /\ NoFault /\
           UNCHANGED <<plan, wanted, attempt, pick, files, store, copy, target, imported, shown>>
  <2>1. clean' \in BOOLEAN /\ faults' \in Nat /\ made' = made /\ clears' = clears /\ space' = space
    BY <1>1, <1>2, TellsOf DEF Way, Stages, NoFault, Elsewhere, source, clearing, there
  <2>2. Stages' /\ Found' /\ InHand'
    BY <1>1, <1>2, <2>1 DEF Way, Stages, Found, InHand
  <2>3. Back'
    BY <1>2, NoVerdict DEF Verdicts
  <2>. QED
    BY <1>1, <1>2, <2>2, <2>3, OtherSide DEF Way
<1>3. CASE CarOf(pick) \notin space /\ Fails /\ NoFault
  <2>1. clean' \in BOOLEAN /\ faults' \in Nat
    BY <1>1, <1>3, TellsOf DEF Way, Stages, NoFault
  <2>2. clears = 0 => pick = 0 \/ plan = "map"
    BY <1>1, <1>3 DEF Way, Found, Named
  <2>. QED
    BY <1>1, <1>3, <2>1, <2>2, FailsWell
<1>4. CASE Fault("fetch") /\ Fails
  BY <1>1, <1>4, FaultFails
<1>. QED
  BY <1>2, <1>3, <1>4 DEF FetchCAR

LEMMA PutBlocksStep ==
  ASSUME SpaceInv, NEW refused, PutBlocks(refused) PROVE SpaceInv'
<1>. USE DEF SpaceInv
<1>1. /\ step = "put" /\ step' = "open" /\ Elsewhere /\ plan # "map" /\ pick # 0
      /\ UNCHANGED <<plan, wanted, pick, files, got, copy, target, imported, shown>>
      /\ made' = made /\ clears' = clears /\ space' = space
      /\ store' = store \cup (got \ refused) /\ got = made[pick].blocks
  BY DEF PutBlocks, Elsewhere, Way, Stages, InHand, source, clearing, there
<1>2. clean' \in BOOLEAN /\ faults' \in Nat /\ (clean' => refused = {})
  BY OrFaultCounts, TellsOf DEF PutBlocks, Way, Stages
<1>3. Stages' /\ Found'
  BY <1>1, <1>2 DEF Way, Stages, Found
<1>4. InHand'
  BY <1>1, <1>2 DEF InHand
<1>5. Back'
  BY <1>1, NoVerdict DEF Verdicts
<1>. QED
  BY <1>1, <1>3, <1>4, <1>5, OtherSide, Zenon DEF Way, Stages

LEMMA ScanStep ==
  ASSUME SpaceInv, Scan PROVE SpaceInv'
<1>. USE DEF SpaceInv
<1>1. step = "scan" /\ Elsewhere /\ Tells /\ pick = 0 /\ plan # "map"
  BY DEF Scan, Elsewhere, Way, Stages
<1>2. CASE files' = listed /\ step' = "download" /\ NoFault /\ shown' = listed \cap space /\
           UNCHANGED <<plan, wanted, attempt, pick, got, store, copy, target, imported>>
  <2>1. clean' \in BOOLEAN /\ faults' \in Nat /\ made' = made /\ space' = space
    BY <1>1, <1>2, TellsOf DEF Way, Stages, NoFault, Elsewhere, source, there
  <2>2. Stages' /\ Found' /\ InHand'
    BY <1>1, <1>2, <2>1 DEF Way, Stages, Found, InHand
  <2>3. Back'
    BY <1>2, NoVerdict DEF Verdicts
  <2>4. IsFiniteSet(BlocksOf(files'))
    <3>1. BlocksOf(files') \subseteq BlocksOf(lag \cup listed)
      BY <1>2 DEF BlocksOf
    <3>. QED
      BY <3>1, FS_Subset DEF Finite
  <2>. QED
    BY <1>1, <2>2, <2>3, <2>4, OtherSide DEF Way
<1>3. CASE Fails /\ NoFault
  <2>1. clean' \in BOOLEAN /\ faults' \in Nat
    BY <1>1, <1>3, TellsOf DEF Way, Stages, NoFault
  <2>. QED
    BY <1>1, <1>3, <2>1, FailsWell
<1>4. CASE Fault("list") /\ Fails
  BY <1>1, <1>4, FaultFails
<1>. QED
  BY <1>2, <1>3, <1>4 DEF Scan

LEMMA NoClientStep ==
  ASSUME SpaceInv, NoClient PROVE SpaceInv'
BY FaultFails DEF NoClient, UCANClient, Elsewhere

\* What a download that met no fault takes is all that was listed and there.
LEMMA TakesAll ==
  ASSUME SpaceInv, NEW had, NEW lost, NEW refused, Takes(had, lost, refused)
  PROVE  /\ step = "download" /\ Elsewhere /\ clean' \in BOOLEAN /\ faults' \in Nat
         /\ clean' => lost = {} /\ refused = {} /\ BlocksOf(shown) \subseteq Fetched({})
         /\ EntriesOf(shown) = BlocksOf(shown) \cap Entry
<1>1. step = "download" /\ Elsewhere /\ Tells /\ Mishap(lost, refused) /\ faults \in Nat
  BY DEF Takes, Elsewhere, SpaceInv, Way, Stages
<1>2. faults' \in Nat
  BY <1>1, FaultCounts, OrFaultCounts DEF Mishap
<1>3. clean' \in BOOLEAN /\ (clean' => clean /\ faults' = faults)
  BY TellsOf, <1>1 DEF SpaceInv, Way, Stages
<1>4. faults' = faults => lost = {} /\ refused = {}
  BY <1>1, FaultCounts, OrFaultCounts DEF Mishap
<1>5. clean => BlocksOf(shown) \subseteq Fetched({})
  BY <1>1 DEF SpaceInv, Way, InHand, BlocksOf, Fetched
<1>6. EntriesOf(shown) = BlocksOf(shown) \cap Entry
  BY DEF EntriesOf, BlocksOf, Block
<1>. QED
  BY <1>1, <1>2, <1>3, <1>4, <1>5, <1>6

LEMMA TakenStep ==
  ASSUME SpaceInv, NEW had, NEW lost, NEW refused, Takes(had, lost, refused),
         step' \in {"open", "import", "failed"}, step' = "import" => plan # "map",
         clean' => got' \subseteq store' /\ EntriesOf(shown) \subseteq got',
         clean' /\ plan # "entries" => BlocksOf(shown) \subseteq got',
         plan # "map" => got' \cap Entry \subseteq EntriesOf(files),
         plan = "map" => got' \subseteq made[pick].sent
  PROVE  SpaceInv'
<1>. USE DEF SpaceInv
<1>1. /\ step = "download" /\ Elsewhere /\ clean' \in BOOLEAN /\ faults' \in Nat
      /\ UNCHANGED <<plan, wanted, pick, files, copy, target, shown>>
      /\ made' = made /\ space' = space /\ clears' = clears
  BY TakesAll DEF Takes, Elsewhere, source, there, clearing
<1>2. (plan # "map" => pick = 0) /\ (plan = "map" => pick # 0)
  BY <1>1 DEF Way, Stages
<1>3. Stages' /\ Found'
  BY <1>1, <1>2 DEF Way, Stages, Found, Verdicts, Takes
<1>4. InHand'
  BY <1>1, <1>2 DEF InHand, EntriesOf, BlocksOf
<1>5. Back'
  BY <1>1, <1>2 DEF Back, LatestOfAll, LatestComesBack, FoundIsRestorable, BlocksComeBack,
                    PayloadsComeBack
<1>6. pick = 0 => IsFiniteSet(BlocksOf(files))
  BY <1>1 DEF Finite
<1>. QED
  BY <1>1, <1>3, <1>4, <1>5, <1>6, OtherSide DEF Way

\* What can be had of the files is among them.
LEMMA FetchedListed ==
  ASSUME NEW lost PROVE Fetched(lost) \cap Entry \subseteq EntriesOf(files)
BY DEF Fetched, EntriesOf

LEMMA DownloadStep ==
  ASSUME SpaceInv, NEW lost, NEW refused,
         Download(lost, refused) \/ DownloadWithUCAN(lost, refused)
  PROVE  SpaceInv'
<1>1. /\ Takes(Fetched(lost), lost, refused) /\ got' = Fetched(lost) \ refused
      /\ step' \in {"open", "import", "failed"} /\ plan # "map"
  BY DEF Download, DownloadWithUCAN
<1>2. store' = store \cup (Fetched(lost) \ refused)
  BY <1>1 DEF Takes
<1>3. got' \cap Entry \subseteq EntriesOf(files)
  BY <1>1, FetchedListed
<1>4. clean' => /\ got' \subseteq store' /\ EntriesOf(shown) \subseteq got'
                /\ BlocksOf(shown) \subseteq got'
  BY <1>1, <1>2, TakesAll
<1>. QED
  BY <1>1, <1>3, <1>4, TakenStep

LEMMA DownloadEntriesStep ==
  ASSUME SpaceInv, NEW lost, NEW refused, DownloadEntries(lost, refused)
  PROVE  SpaceInv'
<1>1. /\ Takes(Fetched(lost) \cap Entry, lost, refused) /\ got' = (Fetched(lost) \cap Entry) \ refused
      /\ step' \in {"open", "import", "failed"} /\ plan = "entries"
  BY DEF DownloadEntries
<1>2. store' = store \cup ((Fetched(lost) \cap Entry) \ refused)
  BY <1>1 DEF Takes
<1>3. got' \cap Entry \subseteq EntriesOf(files)
  BY <1>1, FetchedListed
<1>4. clean' => got' \subseteq store' /\ EntriesOf(shown) \subseteq got'
  BY <1>1, <1>2, TakesAll DEF EntriesOf
<1>. QED
  BY <1>1, <1>3, <1>4, TakenStep

LEMMA DownloadMappedStep ==
  ASSUME SpaceInv, NEW lost, NEW refused, DownloadMapped(lost, refused)
  PROVE  SpaceInv'
<1>1. /\ Takes(Fetched(lost), lost, refused) /\ got' = made[pick].sent \cap store'
      /\ step' \in {"open", "failed"} /\ plan = "map"
  BY DEF DownloadMapped
<1>2. store' = store \cup (Fetched(lost) \ refused)
  BY <1>1 DEF Takes
<1>3. files \subseteq {FileOf(b) : b \in made[pick].sent}
  BY <1>1 DEF SpaceInv, Way, Stages
<1>4. Fetched({}) \subseteq made[pick].sent
  BY <1>3 DEF Fetched, FileOf
<1>5. clean' => /\ got' \subseteq store' /\ EntriesOf(shown) \subseteq got'
                /\ BlocksOf(shown) \subseteq got'
  BY <1>1, <1>2, <1>4, TakesAll
<1>. QED
  BY <1>1, <1>5, TakenStep

-----------------------------------------------------------------------------
(* Opening and joining.                                                     *)

\* The entries of d among what is in hand.
OfIn(d) == {e \in got \cap Entry : home[e] = d}

\* Entries of one database that leave none of theirs behind are in its log once the
\* heads among them are joined, whatever else is in hand.
LEMMA JoinedHeads ==
  ASSUME NEW d \in Db, got \cap Entry \subseteq store, Signers(OfIn(d)) \subseteq store,
         \A e \in OfIn(d) : next[e] \subseteq OfIn(d)
  PROVE  OfIn(d) \subseteq Past({h \in PotentialHeads : Joinable(d, h)})
<1>. DEFINE D == OfIn(d)
            H == Heads(D)
            J == {h \in PotentialHeads : Joinable(d, h)}
<1>1. /\ D \in SUBSET Entry /\ H \in SUBSET Entry /\ H \subseteq D
      /\ D \subseteq store /\ (\A e \in D : next[e] \subseteq D)
  BY DEF OfIn, Heads
<1>2. J \in SUBSET Entry
  BY DEF PotentialHeads, Heads
<1>3. Past(H) = D
  <2>. HIDE DEF D
  <2>. QED
    BY <1>1, HeadsReachAll
<1>4. ASSUME NEW h \in H PROVE h \in J
  <2>1. h \in got \cap Entry /\ home[h] = d /\ \A f \in D : h \notin next[f]
    BY DEF Heads, OfIn
  <2>2. \A f \in got \cap Entry : h \in next[f] => f \in D
    BY <2>1, SpaceAssumption DEF OfIn
  <2>3. h \in PotentialHeads
    BY <2>1, <2>2 DEF PotentialHeads, Heads
  <2>4. Past({h}) \subseteq D
    <3>1. {h} \in SUBSET Entry /\ {h} \subseteq D
      BY <1>1
    <3>. HIDE DEF D
    <3>. QED
      BY <1>1, <3>1, PastIsLeast
  <2>5. Joinable(d, h)
    BY <1>1, <2>1, <2>4 DEF Joinable, Signers
  <2>. QED
    BY <2>3, <2>5
<1>. HIDE DEF H, J, D
<1>5. H \subseteq Past(J)
  BY <1>2, <1>4, PastExtends
<1>6. D \subseteq Past(J)
  BY <1>1, <1>2, <1>3, <1>5, PastOfPast
<1>. QED
  BY <1>6 DEF D, J

\* Of a backup in hand, all it saw is its entries.
LEMMA WholeInHand ==
  ASSUME SpaceInv, pick # 0, made[pick].seen \subseteq got, got \subseteq made[pick].blocks
  PROVE  /\ made[pick].db \in Db /\ OfIn(made[pick].db) = made[pick].seen
         /\ made[pick].blocks = made[pick].seen \cup {Manifest[made[pick].db], Access[made[pick].db]}
                                  \cup Signers(made[pick].seen)
         /\ \A e \in OfIn(made[pick].db) : next[e] \subseteq OfIn(made[pick].db)
<1>1. pick \in 1..Len(made)
  BY DEF SpaceInv, Way, Stages, Backed
<1>2. made[pick] \in Backup /\ Sound(made[pick])
  BY <1>1 DEF SpaceInv, Backed
<1>3. made[pick].db \in Db /\ made[pick].seen \in SUBSET Entry
  BY <1>2 DEF Backup
<1>4. \A e \in made[pick].seen : home[e] = made[pick].db /\ next[e] \subseteq made[pick].seen
  BY <1>2 DEF Sound, LogOf
<1>5. got \cap Entry = made[pick].seen
  <2>1. \A b \in Signers(made[pick].seen) : b \notin Entry
    BY <1>3, BlockAssumption DEF Signers
  <2>. QED
    BY <1>2, <1>3, <2>1, BlockAssumption DEF Sound
<1>6. OfIn(made[pick].db) = made[pick].seen
  BY <1>4, <1>5 DEF OfIn
<1>. QED
  BY <1>2, <1>3, <1>4, <1>6 DEF Sound

\* From a CAR, and by the mappings, all that the backup saw is joined.
LEMMA BackupJoins ==
  ASSUME SpaceInv, pick # 0, clean, step = "open", NEW d, d = made[pick].db,
         plan = "map" => \A b \in made[pick].blocks : FileOf(b) \in shown
  PROVE  made[pick].seen \subseteq Past({h \in PotentialHeads : Joinable(d, h)})
<1>1. pick \in 1..Len(made)
  BY DEF SpaceInv, Way, Stages, Backed
<1>2. /\ made[pick] \in Backup /\ made[pick].blocks \subseteq Block
      /\ made[pick].seen \subseteq made[pick].blocks /\ made[pick].sent \subseteq made[pick].blocks
      /\ Signers(made[pick].seen) \subseteq made[pick].blocks
  <2>1. made[pick] \in Backup /\ Sound(made[pick])
    BY <1>1 DEF SpaceInv, Backed
  <2>. QED
    BY <2>1 DEF Sound, Backup
<1>3. got = made[pick].blocks /\ got \subseteq store
  <2>1. CASE plan = "map"
    <3>1. got \subseteq made[pick].sent /\ got \subseteq store /\ BlocksOf(shown) \subseteq got
      BY <2>1 DEF SpaceInv, Way, InHand
    <3>2. made[pick].blocks \subseteq BlocksOf(shown)
      BY <1>2, <2>1 DEF BlocksOf
    <3>. QED
      BY <1>2, <3>1, <3>2
  <2>2. CASE plan # "map"
    BY <1>2, <2>2 DEF SpaceInv, Way, InHand
  <2>. QED
    BY <2>1, <2>2
<1>4. /\ d \in Db /\ OfIn(d) = made[pick].seen
      /\ \A e \in OfIn(d) : next[e] \subseteq OfIn(d)
  BY <1>2, <1>3, WholeInHand
<1>5. got \cap Entry \subseteq store /\ Signers(OfIn(d)) \subseteq store
  BY <1>2, <1>3, <1>4
<1>. QED
  BY <1>4, <1>5, JoinedHeads

\* The entries of d among some files.
ListedOf(d, F) == {e \in EntriesOf(F) : home[e] = d}

\* A head of those listed of d, of which all that joinEntry() asks for was there.
WholeHead(d, h) ==
  /\ h \in Heads(ListedOf(d, files)) /\ Past({h}) \subseteq EntriesOf(shown)
  /\ \A i \in Signers(Past({h})) \ Known : plan # "entries" /\ FileOf(i) \in shown

\* From single blocks, such a head is in hand, is a head there, and can be joined.
LEMMA WholeHeadJoins ==
  ASSUME SpaceInv, clean, step \in {"open", "import"}, pick = 0, NEW d \in Db, NEW h,
         WholeHead(d, h)
  PROVE  h \in got \cap Entry /\ h \in PotentialHeads /\ Joinable(d, h)
<1>1. /\ EntriesOf(shown) \subseteq got /\ got \cap Entry \subseteq EntriesOf(files)
      /\ got \subseteq store /\ Known \subseteq store
      /\ plan # "entries" => BlocksOf(shown) \subseteq got
  BY DEF SpaceInv, Way, Stages, InHand
<1>2. /\ h \in Entry /\ home[h] = d /\ \A f \in ListedOf(d, files) : h \notin next[f]
  BY DEF WholeHead, Heads, ListedOf, EntriesOf
<1>3. h \in Past({h}) /\ Past({h}) \subseteq Entry
  BY <1>2, PastExtends, ReachIsEntries DEF Past
<1>4. h \in got \cap Entry /\ Past({h}) \subseteq store
  BY <1>1, <1>2, <1>3 DEF WholeHead
<1>5. h \in PotentialHeads
  <2>1. ASSUME NEW f \in got \cap Entry, h \in next[f] PROVE FALSE
    <3>1. home[f] = d /\ f \in EntriesOf(files)
      BY <1>1, <1>2, <2>1, SpaceAssumption
    <3>. QED
      BY <1>2, <2>1, <3>1 DEF ListedOf
  <2>. QED
    BY <1>4, <2>1 DEF PotentialHeads, Heads
<1>6. ASSUME NEW i \in Signers(Past({h})) PROVE i \in store
  <2>1. i \in Block
    BY <1>3 DEF Signers, Block
  <2>2. i \in Known \/ (plan # "entries" /\ FileOf(i) \in shown)
    BY DEF WholeHead
  <2>3. i \in Known \/ (plan # "entries" /\ i \in BlocksOf(shown))
    BY <2>1, <2>2 DEF BlocksOf
  <2>. QED
    BY <1>1, <2>3
<1>7. Joinable(d, h)
  BY <1>2, <1>4, <1>6 DEF Joinable, Signers
<1>. QED
  BY <1>4, <1>5, <1>7

\* What is joined with others brings its past along.
LEMMA PastIsJoined ==
  ASSUME NEW J \in SUBSET Entry, NEW h \in J PROVE Past({h}) \subseteq Past(J)
<1>1. {h} \subseteq Past(J) /\ {h} \in SUBSET Entry
  BY PastExtends
<1>. QED
  BY <1>1, PastOfPast

\* A database is opened of what an undisturbed restore has in hand.
LEMMA OpensWell ==
  ASSUME SpaceInv, NEW d \in Db, OpensAndJoins(d), step = "open",
         \/ pick = 0 /\ plan \notin {"map", "ucan"}
         \/ pick # 0 /\ d = made[pick].db
  PROVE  SpaceInv'
<1>. USE DEF SpaceInv
<1>. DEFINE J == {h \in PotentialHeads : Joinable(d, h)}
<1>1. /\ Elsewhere /\ clean' = clean /\ faults' = faults /\ made' = made /\ space' = space
      /\ clears' = clears /\ Len(made) \in Nat
  BY DEF OpensAndJoins, Elsewhere, source, there, clearing, Backed
<1>2. CASE ~ ({Manifest[d], Access[d]} \subseteq store)
  <2>1. Fails
    BY <1>2 DEF OpensAndJoins
  <2>2. ~ clean \/ pick = 0 \/ plan = "map"
    <3>. SUFFICES ASSUME clean, pick # 0, plan # "map" PROVE FALSE
      OBVIOUS
    <3>1. pick \in 1..Len(made) /\ Sound(made[pick])
      BY DEF Way, Stages, Backed
    <3>2. made[pick].blocks \subseteq store
      BY DEF Way, InHand
    <3>. QED
      BY <1>2, <3>1, <3>2 DEF Sound
  <2>3. clean' \in BOOLEAN /\ faults' \in Nat
    BY <1>1 DEF Way, Stages
  <2>. QED
    BY <1>1, <2>1, <2>2, <2>3, FailsWell
<1>3. CASE {Manifest[d], Access[d]} \subseteq store
  <2>1. /\ copy' = [copy EXCEPT ![d] = @ \cup Past(J)] /\ target' = d /\ step' = "done"
        /\ UNCHANGED <<plan, wanted, attempt, pick, files, got, store, imported, shown>>
    BY <1>3 DEF OpensAndJoins
  <2>2. copy \in [Db -> SUBSET Entry] /\ Past(J) \in SUBSET Entry
    BY ReachIsEntries DEF Past, Way, Stages
  <2>. HIDE DEF J
  <2>3. copy' \in [Db -> SUBSET Entry] /\ Past(J) \subseteq copy'[d]
    BY <2>1, <2>2
  <2>4. Stages'
    BY <1>1, <2>1, <2>3 DEF Way, Stages, Verdicts
  <2>5. Found' /\ InHand'
    BY <1>1, <2>1 DEF Way, Found, InHand
  <2>6. pick # 0 /\ clean /\ (plan = "map" => \A b \in made[pick].blocks : FileOf(b) \in shown)
          => made[pick].seen \subseteq copy'[made[pick].db]
    BY <2>3, BackupJoins DEF J
  <2>7. LatestOfAll'
    BY <1>1, <2>1, <2>6 DEF LatestOfAll, LatestComesBack, Way, Found
  <2>8. FoundIsRestorable' /\ PayloadsComeBack'
    BY <2>1, SpaceAssumption DEF FoundIsRestorable, PayloadsComeBack
  <2>9. BlocksComeBack'
    <3>. SUFFICES ASSUME clean
                  PROVE  /\ pick = 0 /\ plan # "ucan" =>
                              \A h \in Heads(ListedOf(d, files)) :
                                WholeHead(d, h) => Past({h}) \subseteq copy'[d]
                         /\ plan = "map" /\ (\A b \in made[pick].blocks : FileOf(b) \in shown) =>
                              made[pick].seen \subseteq copy'[d]
      BY <1>1, <2>1 DEF BlocksComeBack, ListedOf, EntriesOf, WholeHead
    <3>1. ASSUME pick = 0, NEW h, WholeHead(d, h) PROVE Past({h}) \subseteq copy'[d]
      <4>1. h \in J /\ J \in SUBSET Entry
        BY <3>1, WholeHeadJoins DEF J, PotentialHeads, Heads
      <4>. QED
        BY <2>3, <4>1, PastIsJoined
    <3>2. ASSUME plan = "map", \A b \in made[pick].blocks : FileOf(b) \in shown
          PROVE  made[pick].seen \subseteq copy'[d]
      <4>1. pick # 0 /\ d = made[pick].db
        BY <3>2 DEF Way, Stages
      <4>. QED
        BY <3>2, <4>1, <2>6
    <3>. QED
      BY <3>1, <3>2
  <2>. QED
    BY <1>1, <2>1, <2>4, <2>5, <2>7, <2>8, <2>9, OtherSide DEF Way, Back
<1>. QED
  BY <1>2, <1>3

\* A restore with UCAN opens what it finds, and joins nothing.
LEMMA OpenWithUCANStep ==
  ASSUME SpaceInv, NEW d \in Db, OpenWithUCAN(d) PROVE SpaceInv'
<1>. USE DEF SpaceInv
<1>1. /\ step = "open" /\ plan = "ucan" /\ Elsewhere /\ clean' = clean /\ faults' = faults
      /\ made' = made /\ space' = space /\ clears' = clears
  BY DEF OpenWithUCAN, Elsewhere, source, there, clearing
<1>2. pick = 0 /\ clean' \in BOOLEAN /\ faults' \in Nat
  BY <1>1 DEF Way, Stages, Found, BlockPlans
<1>3. CASE Fails
  BY <1>1, <1>2, <1>3, FailsWell
<1>4. CASE ~ Fails
  <2>1. /\ target' = d /\ step' = "done"
        /\ UNCHANGED <<plan, wanted, attempt, pick, files, got, store, copy, imported, shown>>
    BY <1>4 DEF OpenWithUCAN
  <2>2. Stages' /\ Found' /\ InHand'
    BY <1>1, <1>2, <2>1 DEF Way, Stages, Found, InHand, Verdicts
  <2>3. Back'
    BY <1>1, <1>2, <2>1, SpaceAssumption
       DEF Back, LatestOfAll, LatestComesBack, FoundIsRestorable, BlocksComeBack, PayloadsComeBack
  <2>. QED
    BY <1>1, <2>1, <2>2, <2>3, OtherSide DEF Way
<1>. QED
  BY <1>3, <1>4

\* Whatever type is inferred, a database of it takes all that one of documents, of keys
\* or of events writes.
LEMMA KindsAreWritable ==
  ASSUME NEW E, IsFiniteSet(E),
         NEW kinds \in {{"document", "deletion"}, {"keyvalue", "deletion"}, {"simple"}},
         \A e \in E : payload[e] \in kinds, NEW e \in E
  PROVE  Writable(e, InferredType(E))
<1>. DEFINE D == {f \in E : payload[f] = "document"}
            K == {f \in E : payload[f] \in {"keyvalue", "deletion"}}
            S == {f \in E : payload[f] = "simple"}
            T == InferredType(E)
<1>1. /\ Cardinality(D) \in Nat /\ Cardinality(K) \in Nat /\ Cardinality(S) \in Nat
      /\ Cardinality({}) = 0
  <2>1. IsFiniteSet(D) /\ IsFiniteSet(K) /\ IsFiniteSet(S)
    BY FS_Subset
  <2>. QED
    BY <2>1, FS_CardinalityType, FS_EmptySet
<1>2. ~ \E f \in E : payload[f] = "counter"
  OBVIOUS
<1>3. T = IF Cardinality(D) > Cardinality(K) /\ Cardinality(D) > Cardinality(S) THEN "documents"
          ELSE IF Cardinality(K) > Cardinality(S) THEN "keyvalue" ELSE "events"
  BY <1>2 DEF InferredType
<1>4. CASE kinds = {"document", "deletion"}
  BY <1>3, <1>4 DEF Writable
<1>5. CASE kinds = {"keyvalue", "deletion"}
  <2>1. D = {}
    BY <1>5
  <2>2. T # "documents"
    BY <1>1, <1>3, <2>1
  <2>. HIDE DEF D
  <2>. QED
    BY <1>3, <1>5, <2>2 DEF Writable
<1>6. CASE kinds = {"simple"}
  <2>1. D = {} /\ K = {}
    BY <1>6
  <2>2. Cardinality(D) = 0 /\ Cardinality(K) = 0
    BY <1>1, <2>1
  <2>. HIDE DEF D, K, S, T
  <2>3. T = "events"
    BY <1>1, <1>3, <2>2
  <2>. QED
    BY <2>3 DEF Writable, T
<1>. QED
  BY <1>4, <1>5, <1>6

LEMMA ImportStep ==
  ASSUME SpaceInv, Import PROVE SpaceInv'
<1>. USE DEF SpaceInv
<1>. DEFINE E == got \cap Entry
<1>1. /\ step = "import" /\ Elsewhere /\ clean' = clean /\ faults' = faults
      /\ made' = made /\ space' = space /\ clears' = clears
  BY DEF Import, Anew, Elsewhere, source, there, clearing
<1>2. pick = 0 /\ plan # "map" /\ clean' \in BOOLEAN /\ faults' \in Nat
  BY <1>1 DEF Way, Stages
<1>3. CASE E = {}
  BY <1>1, <1>2, <1>3, FailsWell DEF Import
<1>4. CASE E # {}
  <2>1. /\ imported' = {e \in E : Writable(e, InferredType(E))}
        /\ target' = "new" /\ step' = "done"
        /\ UNCHANGED <<plan, wanted, attempt, pick, files, got, store, copy, shown>>
    BY <1>4 DEF Import
  <2>2. Stages' /\ Found' /\ InHand'
    BY <1>1, <1>2, <2>1 DEF Way, Stages, Found, InHand, Verdicts
  <2>3. PayloadsComeBack'
    <3>. SUFFICES ASSUME clean,
                         NEW kinds \in {{"document", "deletion"}, {"keyvalue", "deletion"}, {"simple"}},
                         \A e \in EntriesOf(files) : payload[e] \in kinds
                  PROVE  EntriesOf(shown) \subseteq imported' /\ imported' \subseteq EntriesOf(files)
      BY <1>1, <2>1 DEF PayloadsComeBack, EntriesOf
    <3>1. EntriesOf(shown) \subseteq E /\ E \subseteq EntriesOf(files)
      BY <1>1, <1>2 DEF Way, InHand, EntriesOf
    <3>2. IsFiniteSet(E)
      <4>1. E \subseteq BlocksOf(files)
        BY <3>1 DEF EntriesOf, BlocksOf, Block
      <4>2. IsFiniteSet(BlocksOf(files))
        BY <1>1, <1>2 DEF Finite
      <4>. QED
        BY <4>1, <4>2, FS_Subset
    <3>3. \A e \in E : Writable(e, InferredType(E))
      BY <3>1, <3>2, KindsAreWritable
    <3>. QED
      BY <2>1, <3>1, <3>3
  <2>4. Back'
    <3>1. LatestOfAll' /\ FoundIsRestorable' /\ BlocksComeBack'
      BY <1>2, <2>1, SpaceAssumption DEF LatestOfAll, LatestComesBack, FoundIsRestorable, BlocksComeBack
    <3>. QED
      BY <2>3, <3>1 DEF Back
  <2>. QED
    BY <1>1, <2>1, <2>2, <2>4, OtherSide DEF Way
<1>. QED
  BY <1>3, <1>4

LEMMA JoinAnewStep ==
  ASSUME SpaceInv, NEW d \in Db \cup {"new"}, JoinAnew(d) PROVE SpaceInv'
<1>. USE DEF SpaceInv
<1>. DEFINE J == {e \in got \cap Entry : Joinable(d, e)}
<1>1. /\ step = "import" /\ plan = "entries" /\ Elsewhere /\ clean' = clean /\ faults' = faults
      /\ made' = made /\ space' = space /\ clears' = clears /\ target' = d /\ step' = "done"
      /\ copy' = (IF d = "new" THEN copy ELSE [copy EXCEPT ![d] = @ \cup Past(J)])
      /\ UNCHANGED <<plan, wanted, attempt, pick, files, got, store, imported, shown>>
  BY DEF JoinAnew, Anew, Elsewhere, source, there, clearing
<1>2. pick = 0 /\ copy \in [Db -> SUBSET Entry] /\ Past(J) \in SUBSET Entry
  BY <1>1, ReachIsEntries DEF Way, Stages, Past
<1>. HIDE DEF J
<1>3. copy' \in [Db -> SUBSET Entry] /\ (d \in Db => Past(J) \subseteq copy'[d])
  BY <1>1, <1>2, SpaceAssumption
<1>4. Stages' /\ Found' /\ InHand'
  BY <1>1, <1>2, <1>3 DEF Way, Stages, Found, InHand, Verdicts
<1>5. BlocksComeBack'
  <2>. SUFFICES ASSUME clean, d \in Db, NEW h, WholeHead(d, h)
                PROVE  Past({h}) \subseteq copy'[d]
    BY <1>1 DEF BlocksComeBack, ListedOf, EntriesOf, WholeHead
  <2>1. h \in J /\ J \in SUBSET Entry
    BY <1>1, <1>2, WholeHeadJoins DEF J
  <2>. QED
    BY <1>3, <2>1, PastIsJoined
<1>6. Back'
  <2>1. LatestOfAll' /\ FoundIsRestorable' /\ PayloadsComeBack'
    BY <1>1, <1>2 DEF LatestOfAll, LatestComesBack, FoundIsRestorable, PayloadsComeBack
  <2>. QED
    BY <1>5, <2>1 DEF Back
<1>. QED
  BY <1>1, <1>4, <1>6, OtherSide DEF Way

LEMMA RestoringStep ==
  ASSUME SpaceInv, Restoring PROVE SpaceInv'
<1>1. ASSUME NEW p \in Plans, NEW n \in {spaceName[d] : d \in Db} \cup {"none"},
             NEW k \in 0..Len(made), Begin(p, n, k)
      PROVE  SpaceInv'
  BY <1>1, BeginStep
<1>2. ASSUME NEW lost \in OneOf(listed), NEW found \in SUBSET (1..Len(made)), Look(lost, found)
      PROVE  SpaceInv'
  BY <1>2, LookStep
<1>3. ASSUME NEW refused \in OneOf(got), PutBlocks(refused) PROVE SpaceInv'
  BY <1>3, PutBlocksStep
<1>4. ASSUME NEW lost \in OneOf(files), NEW refused \in OneOf(Block),
             \/ Download(lost, refused) \/ DownloadEntries(lost, refused)
             \/ DownloadMapped(lost, refused) \/ DownloadWithUCAN(lost, refused)
      PROVE  SpaceInv'
  BY <1>4, DownloadStep, DownloadEntriesStep, DownloadMappedStep
<1>5. ASSUME NEW d \in Db, OpenFound(d) \/ OpenMapped(d) \/ OpenCAR(d) \/ OpenWithUCAN(d)
      PROVE  SpaceInv'
  <2>1. ASSUME OpenMapped(d) PROVE SpaceInv'
    <3>1. pick # 0
      BY <2>1 DEF OpenMapped, SpaceInv, Way, Stages
    <3>. QED
      BY <2>1, <3>1, OpensWell DEF OpenMapped, OpensAndJoins
  <2>2. ASSUME OpenFound(d) \/ OpenCAR(d) PROVE SpaceInv'
    BY <2>2, OpensWell DEF OpenFound, OpenCAR, OpensAndJoins
  <2>. QED
    BY <1>5, <2>1, <2>2, OpenWithUCANStep
<1>6. ASSUME NEW d \in Db \cup {"new"}, JoinAnew(d) PROVE SpaceInv'
  BY <1>6, JoinAnewStep
<1>. QED
  BY <1>1, <1>2, <1>3, <1>4, <1>5, <1>6, LookFailsStep, FetchMetadataStep, FetchCARStep,
     ScanStep, NoClientStep, ImportStep DEF Restoring

-----------------------------------------------------------------------------
\* The invariant of the space and of the restore, for every instance.
LEMMA SpaceInvariant == Spec => []SpaceInv
<1>1. ASSUME Init PROVE SpaceInv
  <2>1. made = <<>> /\ Len(made) = 0 /\ made \in Seq(Backup)
    BY <1>1 DEF Init
  <2>2. Backed
    BY <1>1, <2>1, SpaceAssumption DEF Init, Backed, LogOf
  <2>3. Named
    BY <1>1 DEF Init, Named
  <2>4. Way
    BY <1>1, <2>1 DEF Init, Way, Stages, Found, InHand, Verdicts
  <2>5. Finite
    <3>1. BlocksOf(lag \cup listed) = {}
      BY <1>1 DEF Init, BlocksOf
    <3>. QED
      BY <1>1, <3>1, FS_EmptySet DEF Init, Finite
  <2>6. Back
    BY <1>1 DEF Init, Back, LatestOfAll, LatestComesBack, FoundIsRestorable, BlocksComeBack,
                PayloadsComeBack
  <2>. QED
    BY <2>2, <2>3, <2>4, <2>5, <2>6 DEF SpaceInv
<1>2. ASSUME SpaceInv, [Next]_vars PROVE SpaceInv'
  <2>1. ASSUME UNCHANGED vars PROVE SpaceInv'
    <3>1. Elsewhere /\ UNCHANGED <<restore, clean, faults>>
      BY <2>1 DEF vars, Elsewhere
    <3>2. Way' /\ Back'
      BY <1>2, <3>1 DEF SpaceInv, Way, Stages, Found, InHand, Back, LatestOfAll, LatestComesBack,
         FoundIsRestorable, BlocksComeBack, PayloadsComeBack, EntriesOf, Elsewhere, restore, source,
         there, clearing
    <3>3. step' \in {"download", "open", "import"} /\ pick' = 0 => IsFiniteSet(BlocksOf(files'))
      BY <1>2, <3>1 DEF SpaceInv, Finite, restore
    <3>. QED
      BY <1>2, <3>1, <3>2, <3>3, OtherSide
  <2>. QED
    BY <1>2, <2>1, BackingStep, ClearingStep, RestoringStep DEF Next
<1>. QED
  BY <1>1, <1>2, PTL DEF Spec

\* A restore from a CAR brings back all of the newest backup of its name that the
\* listing named, whatever is uploaded meanwhile: in every space that holds fewer
\* backups than a look of listAvailableBackups() stops after.
THEOREM LatestRestores ==
  ASSUME MaxBackups < Enough PROVE Spec => []LatestComesBack
<1>1. SpaceInv => LatestComesBack
  BY DEF SpaceInv, Back, LatestOfAll
<1>. QED
  BY <1>1, SpaceInvariant, PTL

\* A backup whose metadata was found restores, in a space that was not cleared.
THEOREM FoundBackupsRestore == Spec => []FoundIsRestorable
<1>1. SpaceInv => FoundIsRestorable
  BY DEF SpaceInv, Back
<1>. QED
  BY <1>1, SpaceInvariant, PTL

\* After a restore from single blocks that no fault and no clearing met, each head of
\* which the entries behind it and the identities that signed them were listed and
\* there is in the log again with its past, whatever other heads had lost when they
\* were uploaded; for every graph of entries and every set of writers.
THEOREM SingleBlocksRestore == Spec => []BlocksComeBack
<1>1. SpaceInv => BlocksComeBack
  BY DEF SpaceInv, Back
<1>. QED
  BY <1>1, SpaceInvariant, PTL

\* Where a restore that no fault and no clearing met found no manifest, or passed it
\* over, and the payloads are of the kinds that one type of database writes, each that
\* was listed and there is among those written again, and none that was not listed.
THEOREM PayloadsRestore == Spec => []PayloadsComeBack
<1>1. SpaceInv => PayloadsComeBack
  BY DEF SpaceInv, Back
<1>. QED
  BY <1>1, SpaceInvariant, PTL

=============================================================================
