--------------------------- MODULE FullBackup_proofs ---------------------------
(***************************************************************************)
(* What a full backup brings back, for every graph of entries, every set   *)
(* of databases, every number of backups and every number of faults.       *)
(***************************************************************************)
EXTENDS FullBackup, LogGraph_proofs

\* Joined in whole, a log stays one without holes.
LEMMA JoinStaysClosed ==
  ASSUME NEW L \in SUBSET Entry, Closed(L), NEW H \in SUBSET Entry
  PROVE  L \cup Past(H) \in SUBSET Entry /\ Closed(L \cup Past(H))
BY ReachIsEntries, PastIsClosed DEF Closed, Past

\* A larger set has the larger past.
LEMMA PastGrows ==
  ASSUME NEW H \in SUBSET Entry, NEW K \in SUBSET Entry, H \subseteq K
  PROVE  Past(H) \subseteq Past(K)
BY PastExtends, PastOfPast

-----------------------------------------------------------------------------
(* The invariant: what is being made, what is finished, what comes back.    *)

Logs == /\ log \in [Db -> SUBSET Entry]
        /\ \A d \in Db : Closed(log[d])

\* The parts of a backup, one that is being made and one that is finished.
Parts(B, H, S) ==
  /\ B \subseteq Block
  /\ H \in Partial(Db, SUBSET Entry) /\ S \in Partial(Db, SUBSET Entry)
  /\ \A d \in DOMAIN S : Closed(S[d])

OneOnly(B, S) == \E d \in Db : DOMAIN S = {d} /\ B \cap Entry \subseteq S[d]

Making ==
  /\ phase \in {"idle", "extract", "describe", "seal"} /\ shape \in {"none", "bundle", "car"}
  /\ todo \subseteq Db /\ Parts(blocks, heads, seen)
  /\ phase # "idle" => shape \in {"bundle", "car"}
  /\ phase = "extract" /\ shape = "car" => blocks = {} /\ seen = Nothing /\ \E d \in Db : todo = {d}
  /\ phase = "describe" => shape = "bundle" /\ \E d \in Db : DOMAIN seen = DOMAIN heads \cup {d}
  /\ phase \in {"extract", "seal"} /\ shape = "bundle" => DOMAIN heads = DOMAIN seen
  /\ phase = "seal" /\ shape = "car" => OneOnly(blocks, seen)

Good(b) ==
  /\ b \in Backup /\ Parts(b.blocks, b.heads, b.seen)
  /\ b.shape = "bundle" => DOMAIN b.heads = DOMAIN b.seen
  /\ b.shape = "car" => OneOnly(b.blocks, b.seen)

Shelf == shelf \in Seq(Backup) /\ \A i \in 1..Len(shelf) : Good(shelf[i])

\* The restoring side: its types, ...
Bringing ==
  /\ step \in {"idle", "put", "seek", "join"} \cup Verdicts
  /\ which \in Nat /\ how \in {"none", "app", "direct", "cid"}
  /\ found \subseteq Entry /\ warned \subseteq Entry /\ left \subseteq Db
  /\ store \subseteq Block /\ open \subseteq Db
  /\ copy \in [Db -> SUBSET Entry] /\ \A d \in Db : Closed(copy[d])

\* ... and, of the backup b, what holds once its blocks are stored, once its heads
\* are gathered, and of every database that was opened.
Joined(b, d) ==
  /\ Unharmed(b, d) /\ (b.shape = "car" \/ b.heads[d] = Heads(b.seen[d])) => b.seen[d] \subseteq copy[d]
  /\ how = "app" => warned # {} \/ Past(b.heads[d] \cap b.blocks) \subseteq copy[d]
  /\ how = "direct" /\ RequireHeads => b.heads[d] \subseteq copy[d] \cup warned

Progress(b) ==
  /\ left \subseteq Named(b)
  /\ how \in {"app", "direct"} => b.shape = "bundle"
  /\ step \in {"put", "seek", "refused"} => copy = was.copy /\ open = was.open
  /\ step \in {"put", "seek"} => left = Named(b)
  /\ step \in {"seek", "join", "done"} => b.blocks \subseteq store
  /\ step \in {"join", "done"} =>
       /\ b.shape = "bundle" => Stated(b) \cap b.blocks \subseteq found
       /\ how = "direct" /\ RequireHeads => Stated(b) \subseteq found
       /\ \A d \in Named(b) \ left : Joined(b, d)
  /\ step = "done" => left = {} /\ (how = "app" => warned = {})

Restored == step # "idle" => which \in 1..Len(shelf) /\ Progress(backup)

FullInv == Logs /\ Making /\ Shelf /\ Bringing /\ Restored

-----------------------------------------------------------------------------
\* What the invariant says is what the runs check.
LEMMA FullInvGives ==
  FullInv => /\ TypeOK /\ RefusedTouchesNothing /\ SnapshotRestores
             /\ AppJoinsWhatItHas /\ NoSilentHead
<1>. SUFFICES ASSUME FullInv
              PROVE  /\ TypeOK /\ RefusedTouchesNothing /\ SnapshotRestores
                     /\ AppJoinsWhatItHas /\ NoSilentHead
  OBVIOUS
<1>1. TypeOK
  <2>1. step # "idle" => which \in DOMAIN shelf
    BY DEF FullInv, Restored, Shelf
  <2>. QED BY <2>1 DEF FullInv, Logs, Making, Parts, Shelf, Bringing, TypeOK
<1>2. RefusedTouchesNothing
  BY DEF FullInv, Restored, Progress, RefusedTouchesNothing
<1>3. ASSUME step = "done", NEW d \in Named(backup) PROVE Joined(backup, d) /\ (how = "app" => warned = {})
  BY <1>3 DEF FullInv, Restored, Progress
<1>4. SnapshotRestores
  BY <1>3 DEF SnapshotRestores, Joined
<1>5. AppJoinsWhatItHas
  BY <1>3 DEF AppJoinsWhatItHas, Joined
<1>6. NoSilentHead
  BY <1>3 DEF NoSilentHead, Joined
<1>. QED BY <1>1, <1>2, <1>4, <1>5, <1>6

\* The side that backs up does not touch the side that restores.
LEMMA BackingKeepsTheirs ==
  ASSUME FullInv, UNCHANGED theirs,
         \/ UNCHANGED shelf
         \/ \E b : Good(b) /\ shelf' = Append(shelf, b)
  PROVE  (Shelf /\ Bringing /\ Restored)'
<1>1. Bringing'
  BY DEF theirs, FullInv, Bringing
<1>2. CASE UNCHANGED shelf
  BY <1>1, <1>2 DEF theirs, FullInv, Shelf, Restored, Progress, Joined, backup
<1>3. ASSUME NEW b, Good(b), shelf' = Append(shelf, b) PROVE (Shelf /\ Restored)'
  <2>1. shelf \in Seq(Backup) /\ b \in Backup
    BY <1>3 DEF FullInv, Shelf, Good
  <2>2. /\ shelf' \in Seq(Backup) /\ Len(shelf') = Len(shelf) + 1
        /\ \A i \in 1..Len(shelf) : shelf'[i] = shelf[i]
        /\ shelf'[Len(shelf) + 1] = b
    BY <1>3, <2>1
  <2>3. Len(shelf) \in Nat
    BY <2>1
  <2>4. ASSUME NEW i \in 1..Len(shelf') PROVE Good(shelf'[i])
    <3>1. i \in 1..Len(shelf) \/ i = Len(shelf) + 1
      BY <2>2, <2>3
    <3>. QED BY <1>3, <2>2, <3>1 DEF FullInv, Shelf
  <2>5. ASSUME step' # "idle" PROVE which' \in 1..Len(shelf') /\ backup' = backup /\ Progress(backup)
    BY <2>2, <2>3, <2>5 DEF theirs, FullInv, Restored, backup
  <2>6. ASSUME step' # "idle" PROVE Progress(backup)'
    BY <2>5, <2>6 DEF theirs, Progress, Joined
  <2>. QED BY <2>2, <2>4, <2>5, <2>6 DEF Shelf, Restored
<1>. QED BY <1>1, <1>2, <1>3

\* Partial functions: none, one more.
LEMMA PartialFacts ==
  /\ \A T : Nothing \in Partial(Db, T) /\ DOMAIN Nothing = {}
  /\ \A T : \A F \in Partial(Db, T) : DOMAIN F \subseteq Db /\ \A x \in DOMAIN F : F[x] \in T
  /\ \A T : \A D \in SUBSET Db : \A F \in [D -> T] : F \in Partial(Db, T)
<1>1. \A T : \A F : F \in Partial(Db, T) <=> \E D \in SUBSET Db : F \in [D -> T]
  BY DEF Partial
<1>2. \A T : Nothing \in [{} -> T] /\ DOMAIN Nothing = {}
  BY DEF Nothing
<1>. QED BY <1>1, <1>2

\* Every step of the side that backs up keeps the invariant.
LEMMA BackingStep == ASSUME FullInv, Backing PROVE FullInv'
<1>. DEFINE Rest == (Shelf /\ Bringing /\ Restored)'
<1>1. ASSUME NEW e \in Entry, Write(e) PROVE FullInv'
  <2>1. Rest
    BY <1>1, BackingKeepsTheirs DEF Write
  <2>2. Logs'
    <3>1. home[e] \in Db /\ log[home[e]] \in SUBSET Entry /\ Closed(log[home[e]])
      BY HomeAssumption DEF FullInv, Logs
    <3>2. Closed(log[home[e]] \cup {e})
      BY <1>1, <3>1 DEF Write, Closed
    <3>. QED BY <1>1, <3>1, <3>2 DEF Write, FullInv, Logs
  <2>. QED BY <1>1, <2>1, <2>2 DEF Write, FullInv, Making, Parts
<1>2. ASSUME NEW s \in Shapes, NEW S \in SUBSET Db, Begin(s, S) PROVE FullInv'
  <2>1. Rest
    BY <1>2, BackingKeepsTheirs DEF Begin
  <2>2. Parts(blocks', heads', seen')
    BY <1>2, PartialFacts DEF Begin, Parts
  <2>3. Making'
    BY <1>2, <2>2, CallerAssumption DEF Begin, Making
  <2>. QED BY <1>2, <2>1, <2>3 DEF Begin, FullInv, Logs
<1>3. ASSUME NEW d \in Db, NEW lost \in OneOf(Block), Extract(d, lost) PROVE FullInv'
  <2>1. Rest
    BY <1>3, BackingKeepsTheirs DEF Extract
  <2>. DEFINE new == Extracted(d, log[d], lost)
  <2>2. log[d] \in SUBSET Entry /\ Closed(log[d])
    BY DEF FullInv, Logs
  <2>3. new \subseteq Block /\ new \cap Entry \subseteq log[d]
    BY <2>2, BlockAssumption DEF Extracted, Block
  <2>4. /\ DOMAIN seen \subseteq Db
        /\ seen' \in [DOMAIN seen \cup {d} -> SUBSET Entry]
        /\ \A x \in DOMAIN seen' : seen'[x] = IF x = d THEN log[d] ELSE seen[x]
    BY <1>3, <2>2, PartialFacts DEF Extract, FullInv, Making, Parts
  <2>5. Parts(blocks', heads', seen')
    <3>1. DOMAIN seen \cup {d} \in SUBSET Db
      BY <2>4
    <3>2. seen' \in Partial(Db, SUBSET Entry)
      BY <2>4, <3>1, PartialFacts
    <3>3. \A x \in DOMAIN seen' : Closed(seen'[x])
      BY <2>2, <2>4 DEF FullInv, Making, Parts
    <3>4. blocks' \subseteq Block /\ heads' = heads
      BY <1>3, <2>3 DEF Extract, FullInv, Making, Parts
    <3>. QED BY <3>2, <3>3, <3>4 DEF FullInv, Making, Parts
  <2>6. CASE shape = "car"
    <3>1. blocks' = new /\ DOMAIN seen' = {d} /\ seen'[d] = log[d]
      BY <1>3, <2>4, <2>6, PartialFacts DEF Extract, FullInv, Making
    <3>2. OneOnly(blocks, seen)'
      BY <2>3, <3>1 DEF OneOnly
    <3>3. Making'
      BY <1>3, <2>5, <2>6, <3>2 DEF Extract, FullInv, Making
    <3>. QED BY <1>3, <2>1, <3>3 DEF Extract, FullInv, Logs
  <2>7. CASE shape # "car"
    <3>1. shape = "bundle" /\ DOMAIN seen' = DOMAIN heads \cup {d}
      BY <1>3, <2>4, <2>7 DEF Extract, FullInv, Making
    <3>2. Making'
      BY <1>3, <2>5, <2>7, <3>1 DEF Extract, FullInv, Making
    <3>. QED BY <1>3, <2>1, <3>2 DEF Extract, FullInv, Logs
  <2>. QED BY <2>6, <2>7
<1>4. ASSUME NEW d \in Db, Describe(d) PROVE FullInv'
  <2>1. Rest
    BY <1>4, BackingKeepsTheirs DEF Describe
  <2>2. /\ DOMAIN heads' = DOMAIN seen
        /\ shape = "bundle" /\ phase' \in {"seal", "extract"}
        /\ UNCHANGED <<log, shape, todo, blocks, seen>>
    BY <1>4 DEF Describe, FullInv, Making
  <2>3. PICK g \in Db : DOMAIN seen = DOMAIN heads \cup {g}
    BY <1>4 DEF Describe, FullInv, Making
  <2>4. \A x \in DOMAIN seen : x = d \/ x \in DOMAIN heads
    BY <1>4, <2>3 DEF Describe
  <2>5. heads' \in [DOMAIN seen -> SUBSET Entry]
    <3>1. Heads(log[d]) \in SUBSET Entry
      BY DEF FullInv, Logs, Heads
    <3>2. \A x \in DOMAIN heads : heads[x] \in SUBSET Entry
      BY PartialFacts DEF FullInv, Making, Parts
    <3>. QED BY <1>4, <2>4, <3>1, <3>2 DEF Describe
  <2>6. DOMAIN seen \in SUBSET Db
    BY PartialFacts DEF FullInv, Making, Parts
  <2>7. Parts(blocks', heads', seen')
    BY <2>2, <2>5, <2>6, PartialFacts DEF FullInv, Making, Parts
  <2>. QED BY <2>1, <2>2, <2>7 DEF FullInv, Making, Logs
<1>5. ASSUME Seal PROVE FullInv'
  <2>. DEFINE b == [shape |-> shape, blocks |-> blocks, heads |-> heads, seen |-> seen]
  <2>1. Good(b)
    BY <1>5 DEF Seal, FullInv, Making, Parts, Good, Backup
  <2>2. Rest
    BY <1>5, <2>1, BackingKeepsTheirs DEF Seal
  <2>. QED BY <1>5, <2>2 DEF Seal, FullInv, Logs, Making, Parts
<1>6. ASSUME SealFails PROVE FullInv'
  <2>1. Rest
    BY <1>6, BackingKeepsTheirs DEF SealFails
  <2>. QED BY <1>6, <2>1 DEF SealFails, FullInv, Logs, Making, Parts
<1>. QED BY <1>1, <1>2, <1>3, <1>4, <1>5, <1>6 DEF Backing

-----------------------------------------------------------------------------
\* The side that restores does not touch the side that backs up.
LEMMA RestoringKeepsMine ==
  ASSUME FullInv, UNCHANGED mine
  PROVE  (Logs /\ Making /\ Shelf)' /\ (which' = which => backup' = backup)
BY DEF mine, FullInv, Logs, Making, Shelf, backup

\* The blocks and the heads of a finished backup.
LEMMA GoodFacts ==
  ASSUME NEW b, Good(b)
  PROVE  /\ b.blocks \subseteq Block /\ Stated(b) \subseteq Entry
         /\ Named(b) \subseteq Db /\ b.shape \in {"bundle", "car"}
         /\ \A d \in Named(b) : b.seen[d] \in SUBSET Entry /\ Closed(b.seen[d])
         /\ b.shape = "bundle" => \A d \in Named(b) : b.heads[d] \in SUBSET Entry /\ b.heads[d] \subseteq Stated(b)
<1>1. b.heads \in Partial(Db, SUBSET Entry) /\ b.seen \in Partial(Db, SUBSET Entry)
  BY DEF Good, Parts
<1>2. /\ DOMAIN b.seen \subseteq Db /\ \A d \in DOMAIN b.seen : b.seen[d] \in SUBSET Entry
      /\ \A d \in DOMAIN b.heads : b.heads[d] \in SUBSET Entry
  BY <1>1, PartialFacts
<1>. QED BY <1>2 DEF Good, Parts, Named, Stated, Backup

\* What can be joined in a database: entries, and all of an unharmed one's heads.
LEMMA JoinableFacts ==
  ASSUME NEW d \in Named(backup), FullInv, step = "join"
  PROVE  /\ HeadsOf(d) \in SUBSET Entry
         /\ Unharmed(backup, d) /\ (backup.shape = "car" \/ backup.heads[d] = Heads(backup.seen[d]))
              => HeadsOf(d) = Heads(backup.seen[d]) /\ \A h \in HeadsOf(d) : Joinable(d, h)
<1>. DEFINE S == backup.seen[d]
<1>1. Good(backup) /\ Progress(backup)
  BY DEF FullInv, Shelf, Restored, backup
<1>2. S \in SUBSET Entry /\ Closed(S) /\ Heads(S) \in SUBSET S
  BY <1>1, GoodFacts DEF Heads
<1>3. HeadsOf(d) \in SUBSET Entry
  <2>1. CASE backup.shape = "car"
    BY <2>1 DEF HeadsOf, HeadsIn, Heads
  <2>2. CASE backup.shape # "car"
    BY <1>1, <2>2, GoodFacts DEF HeadsOf
  <2>. QED BY <2>1, <2>2
<1>4. ASSUME Unharmed(backup, d), backup.shape = "car" \/ backup.heads[d] = Heads(S)
      PROVE  HeadsOf(d) = Heads(S)
  <2>1. CASE backup.shape = "car"
    <3>1. PICK g \in Db : DOMAIN backup.seen = {g} /\ backup.blocks \cap Entry \subseteq backup.seen[g]
      BY <1>1, <2>1 DEF Good, OneOnly
    <3>2. g = d /\ Named(backup) = {d}
      BY <3>1 DEF Named
    <3>3. backup.blocks \cap Entry = S
      BY <1>2, <1>4, <3>1, <3>2 DEF Unharmed
    <3>. QED BY <2>1, <3>2, <3>3 DEF HeadsOf, HeadsIn, Heads
  <2>2. CASE backup.shape # "car"
    <3>1. backup.heads[d] = Heads(S) /\ Heads(S) \subseteq backup.blocks
      BY <1>2, <1>4, <2>2 DEF Unharmed
    <3>2. backup.heads[d] \subseteq Stated(backup) /\ Stated(backup) \cap backup.blocks \subseteq found
      BY <1>1, <2>2, GoodFacts DEF Progress
    <3>. QED BY <2>2, <3>1, <3>2 DEF HeadsOf
  <2>. QED BY <2>1, <2>2
<1>5. ASSUME Unharmed(backup, d), NEW h \in Heads(S) PROVE Joinable(d, h)
  <2>1. {h} \in SUBSET Entry /\ {h} \subseteq S
    BY <1>2
  <2>2. Past({h}) \subseteq S
    BY <1>2, <2>1, PastIsLeast DEF Closed
  <2>3. backup.blocks \subseteq store
    BY <1>1 DEF Progress
  <2>. QED BY <1>5, <2>2, <2>3 DEF Joinable, Unharmed
<1>. QED BY <1>3, <1>4, <1>5

\* A database that is opened is restored as far as its blocks go.
LEMMA JoinRestores ==
  ASSUME FullInv, NEW d \in Db, Join(d)
  PROVE  /\ (Logs /\ Making /\ Shelf /\ Bringing)' /\ backup' = backup
         /\ Joined(backup, d)'
         /\ \A g \in Db : copy[g] \subseteq copy'[g]
         /\ warned \subseteq warned'
<1>. DEFINE in == {h \in HeadsOf(d) : Joinable(d, h)}
<1>1. /\ step = "join" /\ d \in left
      /\ copy' = [copy EXCEPT ![d] = @ \cup Past(in)]
      /\ warned' = warned \cup (HeadsOf(d) \ in)
      /\ left' = left \ {d}
      /\ open' \subseteq open
      /\ step' \in {"join", "failed", "done"}
      /\ UNCHANGED <<which, how, found, store, was, mine>>
  BY DEF Join
<1>2. d \in Named(backup) /\ Progress(backup) /\ Good(backup)
  BY <1>1 DEF FullInv, Restored, Progress, Shelf, backup
<1>3. HeadsOf(d) \in SUBSET Entry /\ in \in SUBSET Entry
  BY <1>1, <1>2, JoinableFacts
<1>4. (Logs /\ Making /\ Shelf)' /\ backup' = backup
  BY <1>1, RestoringKeepsMine
<1>5. /\ copy \in [Db -> SUBSET Entry] /\ \A g \in Db : Closed(copy[g])
      /\ copy'[d] = copy[d] \cup Past(in)
      /\ copy' \in [Db -> SUBSET Entry] /\ \A g \in Db : Closed(copy'[g])
  <2>1. copy[d] \cup Past(in) \in SUBSET Entry /\ Closed(copy[d] \cup Past(in))
    BY <1>3, JoinStaysClosed DEF FullInv, Bringing
  <2>. QED BY <1>1, <2>1 DEF FullInv, Bringing
<1>6. Bringing'
  BY <1>1, <1>3, <1>5 DEF FullInv, Bringing, Verdicts
<1>7. in \subseteq Past(in) /\ \A K \in SUBSET in : Past(K) \subseteq copy'[d]
  BY <1>3, <1>5, PastExtends, PastGrows
<1>8. Joined(backup, d)'
  <2>1. ASSUME Unharmed(backup, d), backup.shape = "car" \/ backup.heads[d] = Heads(backup.seen[d])
        PROVE  backup.seen[d] \subseteq copy'[d]
    <3>1. in = Heads(backup.seen[d])
      BY <1>1, <1>2, <2>1, JoinableFacts
    <3>2. backup.seen[d] \in SUBSET Entry /\ Closed(backup.seen[d])
      BY <1>2, GoodFacts
    <3>3. Past(in) = backup.seen[d]
      BY <3>1, <3>2, HeadsReachAll DEF Closed
    <3>. QED BY <1>5, <3>3
  <2>2. ASSUME how = "app", warned' = {} PROVE Past(backup.heads[d] \cap backup.blocks) \subseteq copy'[d]
    <3>1. backup.shape = "bundle" /\ HeadsOf(d) = backup.heads[d] \cap found /\ in = HeadsOf(d)
      BY <1>1, <1>2, <2>2 DEF Progress, HeadsOf
    <3>2. backup.heads[d] \cap backup.blocks \subseteq in
      BY <1>1, <1>2, <3>1, GoodFacts DEF Progress
    <3>. QED BY <1>7, <3>2
  <2>3. ASSUME how = "direct", RequireHeads PROVE backup.heads[d] \subseteq copy'[d] \cup warned'
    <3>1. backup.shape = "bundle" /\ HeadsOf(d) = backup.heads[d] \cap found
      BY <1>2, <2>3 DEF Progress, HeadsOf
    <3>2. backup.heads[d] = HeadsOf(d)
      BY <1>1, <1>2, <2>3, <3>1, GoodFacts DEF Progress
    <3>. QED BY <1>1, <1>5, <1>7, <3>2
  <2>. QED BY <1>1, <1>4, <2>1, <2>2, <2>3 DEF Joined
<1>. QED BY <1>1, <1>4, <1>5, <1>6, <1>8

\* Every step of the side that restores keeps the invariant.
LEMMA RestoringStep == ASSUME FullInv, Restoring PROVE FullInv'
<1>1. ASSUME NEW n \in 1..Len(shelf), NEW h \in Callers \cup {"cid"}, Restore(n, h) PROVE FullInv'
  <2>1. (Logs /\ Making /\ Shelf)'
    BY <1>1, RestoringKeepsMine DEF Restore
  <2>2. /\ backup' = shelf[n] /\ Good(shelf[n]) /\ n \in Nat
        /\ h \in {"app", "direct", "cid"} /\ (h \in {"app", "direct"} => shelf[n].shape = "bundle")
    <3>1. Good(shelf[n]) /\ n \in Nat /\ shelf[n].shape \in {"bundle", "car"}
      BY GoodFacts DEF FullInv, Shelf
    <3>2. backup' = shelf[n]
      BY <1>1 DEF Restore, backup, mine
    <3>3. h \in IF shelf[n].shape = "car" THEN {"cid"} ELSE Callers
      BY <1>1 DEF Restore
    <3>. QED BY <3>1, <3>2, <3>3, CallerAssumption
  <2>3. /\ which' = n /\ how' = h /\ left' = Named(shelf[n]) /\ found' = {} /\ warned' = {}
        /\ was' = [copy |-> copy, open |-> open] /\ step' \in {"put", "refused"}
        /\ UNCHANGED <<store, copy, open, shelf>>
    BY <1>1 DEF Restore, mine
  <2>4. Bringing'
    BY <2>2, <2>3, GoodFacts DEF FullInv, Bringing, Verdicts
  <2>5. Progress(shelf[n])'
    BY <2>2, <2>3 DEF Progress
  <2>. QED BY <2>1, <2>2, <2>3, <2>4, <2>5 DEF FullInv, Restored, backup
<1>2. ASSUME NEW refused \in OneOf(Block), Put(refused) PROVE FullInv'
  <2>1. (Logs /\ Making /\ Shelf)' /\ backup' = backup
    BY <1>2, RestoringKeepsMine DEF Put
  <2>2. Good(backup) /\ Progress(backup) /\ which \in 1..Len(shelf)
    BY <1>2 DEF Put, FullInv, Restored, Shelf, backup
  <2>3. Bringing'
    BY <1>2, <2>2, GoodFacts DEF Put, FullInv, Bringing, Verdicts
  <2>4. Progress(backup)'
    BY <1>2, <2>1, <2>2 DEF Put, Progress
  <2>. QED BY <1>2, <2>1, <2>2, <2>3, <2>4 DEF Put, mine, FullInv, Restored
<1>3. ASSUME NEW got \in SUBSET Entry, Seek(got) PROVE FullInv'
  <2>1. (Logs /\ Making /\ Shelf)' /\ backup' = backup
    BY <1>3, RestoringKeepsMine DEF Seek
  <2>2. Good(backup) /\ Progress(backup) /\ which \in 1..Len(shelf)
    BY <1>3 DEF Seek, FullInv, Restored, Shelf, backup
  <2>3. Bringing'
    BY <1>3, <2>2, GoodFacts DEF Seek, FullInv, Bringing, Verdicts, Block
  <2>4. Progress(backup)'
    <3>1. left = Named(backup)
      BY <1>3, <2>2 DEF Seek, Progress
    <3>. QED BY <1>3, <2>1, <2>2, <3>1 DEF Seek, Progress
  <2>. QED BY <1>3, <2>1, <2>2, <2>3, <2>4 DEF Seek, mine, FullInv, Restored
<1>4. ASSUME NEW d \in Db, Join(d) PROVE FullInv'
  <2>1. /\ (Logs /\ Making /\ Shelf /\ Bringing)' /\ backup' = backup /\ Joined(backup, d)'
        /\ \A g \in Db : copy[g] \subseteq copy'[g]
        /\ warned \subseteq warned'
    BY <1>4, JoinRestores
  <2>2. /\ step = "join" /\ d \in left /\ left' = left \ {d}
        /\ step' \in {"join", "failed", "done"}
        /\ step' = "done" => left' = {} /\ (how = "app" => warned' = {})
        /\ UNCHANGED <<which, how, found, store, was, shelf>>
    BY <1>4 DEF Join, mine
  <2>3. Progress(backup) /\ which \in 1..Len(shelf) /\ Named(backup) \subseteq Db
    BY <2>2, GoodFacts DEF FullInv, Restored, Shelf, backup
  <2>4. ASSUME NEW g \in Named(backup) \ left' PROVE Joined(backup, g)'
    <3>1. CASE g = d
      BY <2>1, <3>1
    <3>2. CASE g # d
      <4>1. Joined(backup, g) /\ copy[g] \subseteq copy'[g]
        BY <2>1, <2>2, <2>3, <2>4, <3>2 DEF Progress
      <4>. QED BY <2>1, <2>2, <4>1 DEF Joined
    <3>. QED BY <3>1, <3>2
  <2>5. Progress(backup)'
    BY <2>1, <2>2, <2>3, <2>4 DEF Progress
  <2>. QED BY <2>1, <2>2, <2>3, <2>5 DEF FullInv, Restored
<1>5. ASSUME NEW d \in Db, OpenFails(d) PROVE FullInv'
  <2>1. (Logs /\ Making /\ Shelf)' /\ backup' = backup
    BY <1>5, RestoringKeepsMine DEF OpenFails
  <2>. QED BY <1>5, <2>1 DEF OpenFails, mine, FullInv, Bringing, Verdicts, Restored, Progress
<1>. QED BY <1>1, <1>2, <1>3, <1>4, <1>5 DEF Restoring

-----------------------------------------------------------------------------
\* The invariant holds of every behaviour.
LEMMA FullInvariant == Spec => []FullInv
<1>1. ASSUME Init PROVE FullInv
  <2>1. Logs /\ Making /\ Shelf
    BY <1>1, PartialFacts DEF Init, Logs, Making, Parts, Shelf, Closed
  <2>2. Bringing
    BY <1>1 DEF Init, Bringing, Block, Closed
  <2>. QED BY <1>1, <2>1, <2>2 DEF Init, FullInv, Restored
<1>2. ASSUME FullInv, [Next]_vars PROVE FullInv'
  <2>1. CASE UNCHANGED vars
    <3>1. UNCHANGED mine /\ UNCHANGED theirs /\ UNCHANGED shelf
      BY <2>1 DEF vars, mine
    <3>. QED BY <1>2, <3>1, BackingKeepsTheirs, RestoringKeepsMine DEF FullInv
  <2>. QED BY <1>2, <2>1, BackingStep, RestoringStep DEF Next
<1>. QED BY <1>1, <1>2, PTL DEF Spec

\* A finished restore brings back all that log.values() listed, whatever graph the
\* entries form and whatever was written, lost and retried meanwhile.
THEOREM FullSnapshotRestores == Spec => []SnapshotRestores
BY FullInvariant, FullInvGives, PTL

\* A refused restore leaves the application's databases as they were.
THEOREM FullRefusedTouchesNothing == Spec => []RefusedTouchesNothing
BY FullInvariant, FullInvGives, PTL

\* restoreAppBackup() ends well only with every stated head that its file holds.
THEOREM FullAppJoinsWhatItHas == Spec => []AppJoinsWhatItHas
BY FullInvariant, FullInvGives, PTL

\* With requireHeads no stated head goes missing unmentioned.
THEOREM FullNoSilentHead == Spec => []NoSilentHead
BY FullInvariant, FullInvGives, PTL

\* Every variable keeps its type, and no log gets a hole.
THEOREM FullTypeOK == Spec => []TypeOK
BY FullInvariant, FullInvGives, PTL

=============================================================================
