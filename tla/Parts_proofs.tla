----------------------------- MODULE Parts_proofs -----------------------------
(***************************************************************************)
(* The parts that MCParts checks side by side, each proved on its own.     *)
(***************************************************************************)
EXTENDS CarStorage, AlephGrants, Recovery, AlephAccount, TodoPages,
        FiniteSetTheorems, SequenceTheorems, TLAPS

-----------------------------------------------------------------------------
(* CAR storage: FlushedIsSaved, for every set of keys, values and callers.   *)
(* It is not inductive: that the file will be right after a flush rests on  *)
(* what is on its way in the temporary file.                                *)

CarSteps == {"none", "open", "write", "unlink", "rename"}

CarTypeOK ==
  /\ cache \in Contents
  /\ modified \in BOOLEAN /\ clean \in BOOLEAN
  /\ flush \in [Caller -> [step : CarSteps, blocks : Contents]]
  /\ carFile \in SUBSET Contents /\ tmpFile \in SUBSET Contents

OneFlush == \A c, d \in Busy : c = d
Dirty    == Busy # {} => modified
OnItsWay ==
  \A c \in Busy :
    /\ tmpFile # None
    /\ flush[c].step = "write" => flush[c].blocks = cache
    /\ flush[c].step \in {"unlink", "rename"} => tmpFile = {cache}

CarInv == CarTypeOK /\ (clean => FlushedIsSaved /\ OneFlush /\ Dirty /\ OnItsWay)

\* The entries of a storage, some of them and one more are entries.
LEMMA ContentsFacts ==
  /\ Empty \in Contents
  /\ \A f \in Contents : DOMAIN f \subseteq Key /\ Restrict(f, DOMAIN f) = f
  /\ \A f \in Contents : \A S \in SUBSET DOMAIN f : Restrict(f, S) \in Contents
  /\ \A f \in Contents, k \in Key, v \in Val :
       [x \in DOMAIN f \cup {k} |-> IF x = k THEN v ELSE f[x]] \in Contents
<1>1. Empty \in [{} -> Val]
  BY DEF Empty
<1>2. \A f \in Contents : \E ks \in SUBSET Key : f \in [ks -> Val]
  BY DEF Contents
<1>3. \A ks \in SUBSET Key : [ks -> Val] \subseteq Contents
  BY DEF Contents
<1>4. Empty \in Contents
  BY <1>1, <1>3
<1>5. ASSUME NEW f \in Contents
      PROVE  DOMAIN f \subseteq Key /\ Restrict(f, DOMAIN f) = f
  BY <1>2 DEF Restrict
<1>6. ASSUME NEW f \in Contents, NEW S \in SUBSET DOMAIN f
      PROVE  Restrict(f, S) \in Contents
  <2>1. PICK ks \in SUBSET Key : f \in [ks -> Val]
    BY <1>2
  <2>2. Restrict(f, S) \in [S -> Val] /\ S \in SUBSET Key
    BY <1>6, <2>1 DEF Restrict
  <2>. QED BY <1>3, <2>2
<1>7. ASSUME NEW f \in Contents, NEW k \in Key, NEW v \in Val
      PROVE  [x \in DOMAIN f \cup {k} |-> IF x = k THEN v ELSE f[x]] \in Contents
  <2>1. PICK ks \in SUBSET Key : f \in [ks -> Val]
    BY <1>2
  <2>2. [x \in DOMAIN f \cup {k} |-> IF x = k THEN v ELSE f[x]] \in [ks \cup {k} -> Val]
    BY <2>1
  <2>3. ks \cup {k} \in SUBSET Key
    BY <2>1
  <2>. QED BY <1>3, <2>2, <2>3
<1>. QED BY <1>4, <1>5, <1>6, <1>7

\* What loads from a file of entries is entries; from the file of one storage, it.
LEMMA LoadFacts ==
  /\ \A file \in SUBSET Contents : Load(file) \in Contents
  /\ \A f : Load({f}) = f
  /\ Load(None) = Empty
BY ContentsFacts DEF Load, None

\* What a flush that begins does to the flushes, and a call that begins none.
LEMMA BeginKeepsType ==
  ASSUME CarTypeOK, NEW c \in Caller, NEW dirty, NEW entries, BeginFlush(c, dirty, entries)
  PROVE  /\ flush' \in [Caller -> [step : CarSteps, blocks : Contents]]
         /\ tmpFile' \in SUBSET Contents
         /\ \/ flush' = flush /\ ~(dirty /\ entries # Empty)
            \/ /\ dirty /\ entries # Empty /\ tmpFile' # None
               /\ flush'[c].step = "open"
               /\ \A d \in Caller \ {c} : flush'[d] = flush[d]
<1>1. CASE dirty /\ entries # Empty
  <2>1. [step |-> "open", blocks |-> Empty] \in [step : CarSteps, blocks : Contents]
    BY ContentsFacts DEF CarSteps
  <2>2. /\ flush' = [flush EXCEPT ![c] = [step |-> "open", blocks |-> Empty]]
        /\ tmpFile' = {Empty}
    BY <1>1 DEF BeginFlush
  <2>. QED BY <1>1, <2>1, <2>2, ContentsFacts DEF CarTypeOK, None
<1>2. CASE ~(dirty /\ entries # Empty)
  BY <1>2 DEF BeginFlush, CarTypeOK
<1>. QED BY <1>1, <1>2

\* A call made while no flush is under way keeps what a clean storage has.
LEMMA CallKeeps ==
  ASSUME CarInv, NEW c \in Caller, NEW dirty, NEW entries,
         \/ BeginFlush(c, dirty, entries)
         \/ UNCHANGED <<flush, tmpFile>>,
         cache' \in Contents, modified' \in BOOLEAN, carFile' \in {carFile, None},
         UNCHANGED saved,
         clean' = (clean /\ Busy = {}),
         dirty => modified',
         modified' \/ UNCHANGED <<modified, cache, carFile>>
  PROVE  CarInv'
<1>1. CarTypeOK'
  <2>1. flush' \in [Caller -> [step : CarSteps, blocks : Contents]] /\ tmpFile' \in SUBSET Contents
    <3>1. CASE BeginFlush(c, dirty, entries)
      BY <3>1, BeginKeepsType DEF CarInv
    <3>2. CASE UNCHANGED <<flush, tmpFile>>
      BY <3>2 DEF CarInv, CarTypeOK
    <3>. QED BY <3>1, <3>2
  <2>2. clean' \in BOOLEAN /\ carFile' \in SUBSET Contents
    BY DEF CarInv, CarTypeOK, None
  <2>. QED BY <2>1, <2>2 DEF CarTypeOK
<1>2. ASSUME clean'
      PROVE  (FlushedIsSaved /\ OneFlush /\ Dirty /\ OnItsWay)'
  <2>0. clean /\ Busy = {} /\ FlushedIsSaved
    BY <1>2 DEF CarInv, CarTypeOK
  <2>1. carFile' \in {None, saved'}
    BY <2>0 DEF FlushedIsSaved
  <2>2. Busy' = {} \/ (Busy' = {c} /\ modified' /\ tmpFile' # None /\ flush'[c].step = "open")
    <3>1. CASE BeginFlush(c, dirty, entries)
      BY <3>1, <2>0, BeginKeepsType DEF CarInv, Busy
    <3>2. CASE UNCHANGED <<flush, tmpFile>>
      BY <3>2, <2>0 DEF Busy
    <3>. QED BY <3>1, <3>2
  <2>3. ~modified' => Load(carFile') = cache'
    BY <2>0 DEF FlushedIsSaved
  <2>. QED BY <2>1, <2>2, <2>3 DEF FlushedIsSaved, OneFlush, Dirty, OnItsWay
<1>. QED BY <1>1, <1>2 DEF CarInv

\* Every step of the storage keeps the invariant.
LEMMA CarStep == CarInv /\ [CarNext]_carVars => CarInv'
<1>. SUFFICES ASSUME CarInv, [CarNext]_carVars PROVE CarInv'
  OBVIOUS
<1>. USE DEF Busy
<1>1. ASSUME NEW c \in Caller, NEW k \in Key, NEW v \in Val, PutEntry(c, k, v)
      PROVE  CarInv'
  <2>1. cache' \in Contents
    BY <1>1, ContentsFacts DEF PutEntry, CarInv, CarTypeOK
  <2>2. BeginFlush(c, TRUE, cache') \/ UNCHANGED <<flush, tmpFile>>
    BY <1>1 DEF PutEntry, CheckAutoFlush
  <2>. QED BY <1>1, <2>1, <2>2, CallKeeps DEF PutEntry
<1>2. ASSUME NEW c \in Caller, NEW k \in Key, DelEntry(c, k)
      PROVE  CarInv'
  <2>1. cache' \in Contents
    BY <1>2, ContentsFacts DEF DelEntry, CarInv, CarTypeOK
  <2>2. BeginFlush(c, TRUE, cache') \/ UNCHANGED <<flush, tmpFile>>
    BY <1>2 DEF DelEntry, CheckAutoFlush
  <2>. QED BY <1>2, <2>1, <2>2, CallKeeps DEF DelEntry
<1>3. ASSUME NEW c \in Caller, Persist(c)
      PROVE  CarInv'
  <2>1. cache' \in Contents /\ modified' \in BOOLEAN
    BY <1>3 DEF Persist, CarInv, CarTypeOK
  <2>. QED BY <1>3, <2>1, CallKeeps DEF Persist
<1>4. ASSUME NEW c \in Caller, ClearEntries(c)
      PROVE  CarInv'
  <2>1. cache' \in Contents
    BY <1>4, ContentsFacts DEF ClearEntries
  <2>. QED BY <1>4, <2>1, CallKeeps DEF ClearEntries
<1>5. ASSUME NEW c \in Caller, Walk(c)
      PROVE  CarInv'
  <2>1. PICK left \in SUBSET DOMAIN cache :
          /\ clean' = (clean /\ left = {})
          /\ flush' = [flush EXCEPT ![c] = IF Restrict(cache, DOMAIN cache \ left) = Empty THEN NoFlush
                         ELSE [step |-> "write", blocks |-> Restrict(cache, DOMAIN cache \ left)]]
    BY <1>5 DEF Walk
  <2>2. Restrict(cache, DOMAIN cache \ left) \in Contents
    BY ContentsFacts DEF CarInv, CarTypeOK
  <2>3. CarTypeOK'
    BY <1>5, <2>1, <2>2, ContentsFacts DEF Walk, CarInv, CarTypeOK, NoFlush, CarSteps
  <2>4. ASSUME clean' PROVE (FlushedIsSaved /\ OneFlush /\ Dirty /\ OnItsWay)'
    <3>1. clean /\ left = {} /\ Restrict(cache, DOMAIN cache \ left) = cache
      <4>1. clean /\ left = {}
        BY <2>1, <2>4 DEF CarInv, CarTypeOK
      <4>2. DOMAIN cache \ {} = DOMAIN cache
        OBVIOUS
      <4>. QED BY <4>1, <4>2, ContentsFacts DEF CarInv, CarTypeOK
    <3>2. Busy = {c} /\ modified /\ tmpFile # None
      BY <1>5, <3>1 DEF Walk, CarInv, OneFlush, Dirty, OnItsWay
    <3>3. flush'[c] = NoFlush \/ flush'[c] = [step |-> "write", blocks |-> cache]
      BY <2>1, <3>1 DEF CarInv, CarTypeOK
    <3>4. \A d \in Caller \ {c} : flush'[d].step = "none"
      BY <2>1, <3>2 DEF CarInv, CarTypeOK
    <3>5. Busy' \subseteq {c} /\ UNCHANGED <<cache, modified, carFile, tmpFile, saved>>
      BY <1>5, <3>4 DEF Walk
    <3>. QED BY <3>1, <3>2, <3>3, <3>5 DEF CarInv, FlushedIsSaved, OneFlush, Dirty, OnItsWay, NoFlush
  <2>. QED BY <2>3, <2>4 DEF CarInv
<1>6. ASSUME NEW c \in Caller, WriteBlocks(c)
      PROVE  CarInv'
  <2>1. CarTypeOK'
    BY <1>6 DEF WriteBlocks, CarInv, CarTypeOK, CarSteps, None
  <2>2. ASSUME clean' PROVE (FlushedIsSaved /\ OneFlush /\ Dirty /\ OnItsWay)'
    <3>1. clean /\ Busy = {c} /\ modified /\ tmpFile # None /\ flush[c].blocks = cache
      BY <1>6, <2>2 DEF WriteBlocks, CarInv, OneFlush, Dirty, OnItsWay
    <3>2. tmpFile' = {cache} /\ flush'[c].step = "unlink" /\ UNCHANGED <<cache, modified, carFile, saved>>
      BY <1>6, <3>1 DEF WriteBlocks, CarInv, CarTypeOK
    <3>3. Busy' = {c}
      BY <1>6, <3>1 DEF WriteBlocks, CarInv, CarTypeOK
    <3>. QED BY <3>1, <3>2, <3>3 DEF CarInv, FlushedIsSaved, OneFlush, Dirty, OnItsWay, None
  <2>. QED BY <2>1, <2>2 DEF CarInv
<1>7. ASSUME NEW c \in Caller, WriteBlocksFail(c)
      PROVE  CarInv'
  <2>1. CarTypeOK'
    BY <1>7, ContentsFacts DEF WriteBlocksFail, CarInv, CarTypeOK, CarSteps, NoFlush
  <2>2. ASSUME clean' PROVE (FlushedIsSaved /\ OneFlush /\ Dirty /\ OnItsWay)'
    <3>1. clean /\ Busy = {c} /\ modified
      BY <1>7, <2>2 DEF WriteBlocksFail, CarInv, OneFlush, Dirty
    <3>2. Busy' = {} /\ UNCHANGED <<cache, modified, carFile, tmpFile, saved>>
      BY <1>7, <3>1 DEF WriteBlocksFail, CarInv, CarTypeOK, NoFlush
    <3>. QED BY <3>1, <3>2 DEF CarInv, FlushedIsSaved, OneFlush, Dirty, OnItsWay
  <2>. QED BY <2>1, <2>2 DEF CarInv
<1>8. ASSUME NEW c \in Caller, Unlink(c)
      PROVE  CarInv'
  <2>1. CarTypeOK'
    BY <1>8 DEF Unlink, CarInv, CarTypeOK, CarSteps, None
  <2>2. ASSUME clean' PROVE (FlushedIsSaved /\ OneFlush /\ Dirty /\ OnItsWay)'
    <3>1. clean /\ Busy = {c} /\ modified /\ tmpFile = {cache}
      BY <1>8, <2>2 DEF Unlink, CarInv, OneFlush, Dirty, OnItsWay
    <3>2. /\ carFile' = None /\ flush'[c].step = "rename"
          /\ UNCHANGED <<cache, modified, tmpFile, saved>>
      BY <1>8 DEF Unlink, CarInv, CarTypeOK
    <3>3. Busy' = {c}
      BY <1>8, <3>1 DEF Unlink, CarInv, CarTypeOK
    <3>. QED BY <3>1, <3>2, <3>3 DEF FlushedIsSaved, OneFlush, Dirty, OnItsWay, None
  <2>. QED BY <2>1, <2>2 DEF CarInv
<1>9. ASSUME NEW c \in Caller, Rename(c)
      PROVE  CarInv'
  <2>1. CarTypeOK'
    BY <1>9, ContentsFacts DEF Rename, CarInv, CarTypeOK, CarSteps, NoFlush, None
  <2>2. ASSUME clean' PROVE (FlushedIsSaved /\ OneFlush /\ Dirty /\ OnItsWay)'
    <3>1. clean /\ Busy = {c} /\ tmpFile = {cache}
      BY <1>9, <2>2 DEF Rename, CarInv, OneFlush, OnItsWay
    <3>2. carFile' = {cache} /\ saved' = {cache} /\ UNCHANGED cache
      BY <1>9, <3>1 DEF Rename, None
    <3>3. Busy' = {}
      BY <1>9, <3>1 DEF Rename, CarInv, CarTypeOK, NoFlush
    <3>. QED BY <3>2, <3>3, LoadFacts DEF FlushedIsSaved, OneFlush, Dirty, OnItsWay
  <2>. QED BY <2>1, <2>2 DEF CarInv
<1>10. ASSUME Reopen
       PROVE  CarInv'
  <2>1. CarTypeOK'
    BY <1>10, ContentsFacts, LoadFacts DEF Reopen, CarInv, CarTypeOK, CarSteps, NoFlush
  <2>2. ASSUME clean' PROVE (FlushedIsSaved /\ OneFlush /\ Dirty /\ OnItsWay)'
    <3>1. clean /\ Busy' = {}
      BY <1>10, <2>2 DEF Reopen, NoFlush, CarInv, CarTypeOK
    <3>. QED BY <1>10, <3>1 DEF Reopen, CarInv, FlushedIsSaved, OneFlush, Dirty, OnItsWay
  <2>. QED BY <2>1, <2>2 DEF CarInv
<1>11. CASE UNCHANGED carVars
  BY <1>11 DEF carVars, CarInv, CarTypeOK, FlushedIsSaved, OneFlush, Dirty, OnItsWay
<1>. QED BY <1>1, <1>2, <1>3, <1>4, <1>5, <1>6, <1>7, <1>8, <1>9, <1>10, <1>11 DEF CarNext

\* Where every call is awaited and every entry encodes, nothing that was flushed is
\* lost but by clear(), whatever the threshold of the automatic flush, and through
\* any number of crashes outside the window between unlink and rename.
THEOREM CarFlushedIsSaved == CarSpec => []FlushedIsSaved
<1>1. ASSUME CarInit PROVE CarInv
  <2>1. NoFlush \in [step : CarSteps, blocks : Contents]
    BY ContentsFacts DEF NoFlush, CarSteps
  <2>2. CarTypeOK
    BY <1>1, <2>1, ContentsFacts DEF CarInit, CarTypeOK, None
  <2>3. Busy = {}
    BY <1>1 DEF CarInit, Busy, NoFlush
  <2>. QED BY <1>1, <2>2, <2>3, LoadFacts
           DEF CarInit, CarInv, FlushedIsSaved, OneFlush, Dirty, OnItsWay, None
<1>2. CarInv => FlushedIsSaved
  BY DEF CarInv, FlushedIsSaved
<1>. QED BY <1>1, <1>2, CarStep, PTL DEF CarSpec

-----------------------------------------------------------------------------
(* Aleph authorizations: GrantsStand, for every number of owners, delegates, *)
(* calls and faults.  The invariant says what a call in flight has read and *)
(* what a write that the service has yet to process will leave.             *)

GrantsTypeOK ==
  /\ grantTime \in Nat /\ writes \in Nat /\ grantTime <= writes
  /\ call \in [Owner -> [kind : {"none", "authorize", "revoke"},
                         who : SUBSET Delegate, list : SUBSET Delegate]]
  /\ granted \in SUBSET Delegate
  /\ accepted \in SUBSET [list : SUBSET Delegate, time : 0..writes]
  /\ inTurn \in BOOLEAN

\* A call in turn is alone, has read the list as it is, and finds no other write.
ReadsTheLatest ==
  \A o \in Calling : call[o].list = granted /\ accepted = {} /\ Calling = {o}

\* At most one write waits for the service, and it is newer than the list.
LeavesWhatWasAsked ==
  /\ \A v, w \in accepted : v = w
  /\ \A w \in accepted : w.time > grantTime /\ w.list \ unsure = asked \ unsure

GrantsInv == GrantsTypeOK /\ (inTurn => GrantsStand /\ ReadsTheLatest /\ LeavesWhatWasAsked)

LEMMA GrantsStep == GrantsInv /\ [GrantsNext]_grantVars => GrantsInv'
<1>. SUFFICES ASSUME GrantsInv, [GrantsNext]_grantVars PROVE GrantsInv'
  OBVIOUS
<1>1. ASSUME NEW o \in Owner, NEW d \in Delegate, NEW kind \in {"authorize", "revoke"},
             ReadGrants(o, kind, d)
      PROVE  GrantsInv'
  <2>1. PICK L \in SUBSET Delegate :
          /\ call' = [call EXCEPT ![o] = [kind |-> kind, who |-> {d}, list |-> L]]
          /\ inTurn' => inTurn /\ Calling = {} /\ accepted = {} /\ L = granted
          /\ inTurn' \in BOOLEAN
    <3>1. granted \in SUBSET Delegate /\ inTurn \in BOOLEAN
      BY DEF GrantsInv, GrantsTypeOK
    <3>2. CASE /\ call' = [call EXCEPT ![o] = [kind |-> kind, who |-> {d}, list |-> granted]]
               /\ inTurn' = (inTurn /\ Calling = {} /\ accepted = {})
      BY <3>1, <3>2
    <3>3. CASE /\ call' = [call EXCEPT ![o] = [kind |-> kind, who |-> {d}, list |-> {}]]
               /\ inTurn' = (inTurn /\ Calling = {} /\ accepted = {} /\ granted = {})
      <4>1. {} \in SUBSET Delegate /\ inTurn' \in BOOLEAN
        BY <3>1, <3>3
      <4>2. inTurn' => inTurn /\ Calling = {} /\ accepted = {} /\ {} = granted
        BY <3>1, <3>3
      <4>. QED BY <3>3, <4>1, <4>2
    <3>. QED BY <1>1, <3>2, <3>3 DEF ReadGrants
  <2>2. UNCHANGED <<granted, grantTime, accepted, writes, asked, unsure>>
    BY <1>1 DEF ReadGrants
  <2>3. GrantsTypeOK'
    BY <2>1, <2>2 DEF GrantsInv, GrantsTypeOK
  <2>4. ASSUME inTurn' PROVE (GrantsStand /\ ReadsTheLatest /\ LeavesWhatWasAsked)'
    <3>1. Calling = {} /\ inTurn /\ accepted = {} /\ L = granted
      BY <2>1, <2>4
    <3>2. Calling' = {o} /\ call'[o].list = granted
      BY <2>1, <3>1 DEF Calling, GrantsInv, GrantsTypeOK
    <3>. QED BY <2>2, <3>1, <3>2 DEF GrantsInv, GrantsStand, ReadsTheLatest, LeavesWhatWasAsked
  <2>. QED BY <2>3, <2>4 DEF GrantsInv
<1>2. ASSUME NEW o \in Owner, WriteGrants(o)
      PROVE  GrantsInv'
  <2>. DEFINE c == call[o]
              L == Authorizations(c)
  <2>0. c \in [kind : {"none", "authorize", "revoke"}, who : SUBSET Delegate, list : SUBSET Delegate]
    BY DEF GrantsInv, GrantsTypeOK
  <2>1. L \in SUBSET Delegate
    BY <2>0 DEF Authorizations
  <2>2. /\ c.kind # "none" /\ writes' = writes + 1 /\ call' = [call EXCEPT ![o] = NoCall]
        /\ UNCHANGED inTurn
        /\ \/ granted' = L /\ grantTime' = writes + 1 /\ UNCHANGED accepted
           \/ accepted' = accepted \cup {[list |-> L, time |-> writes + 1]} /\ UNCHANGED <<granted, grantTime>>
           \/ UNCHANGED <<granted, grantTime, accepted>>
    BY <1>2 DEF WriteGrants
  <2>3. \/ /\ ~ UNCHANGED <<granted, accepted, grantTime>>
           /\ asked' = IF c.kind = "authorize" THEN asked \cup c.who ELSE asked \ c.who
           /\ unsure' = unsure \ c.who
        \/ unsure' = unsure \cup c.who /\ UNCHANGED asked
    BY <1>2 DEF WriteGrants
  <2>4. GrantsTypeOK'
    <3>1. NoCall \in [kind : {"none", "authorize", "revoke"}, who : SUBSET Delegate, list : SUBSET Delegate]
      BY DEF NoCall
    <3>2. call' \in [Owner -> [kind : {"none", "authorize", "revoke"}, who : SUBSET Delegate, list : SUBSET Delegate]]
      BY <2>2, <3>1 DEF GrantsInv, GrantsTypeOK
    <3>3. accepted' \in SUBSET [list : SUBSET Delegate, time : 0..writes']
      BY <2>1, <2>2 DEF GrantsInv, GrantsTypeOK
    <3>. QED BY <2>1, <2>2, <3>2, <3>3 DEF GrantsInv, GrantsTypeOK
  <2>5. ASSUME inTurn' PROVE (GrantsStand /\ ReadsTheLatest /\ LeavesWhatWasAsked)'
    <3>1. inTurn /\ o \in Calling
      BY <2>2, <2>5 DEF Calling
    <3>2. c.list = granted /\ accepted = {} /\ Calling = {o} /\ granted \ unsure = asked \ unsure
      BY <3>1 DEF GrantsInv, ReadsTheLatest, GrantsStand
    <3>3. Calling' = {}
      BY <2>2, <3>2 DEF Calling, NoCall, GrantsInv, GrantsTypeOK
    <3>4. L \ unsure' = asked' \ unsure' \/ UNCHANGED <<granted, accepted, grantTime>>
      <4>1. L = IF c.kind = "authorize" THEN granted \cup c.who ELSE granted \ c.who
        BY <3>2 DEF Authorizations
      <4>. QED BY <2>3, <3>2, <4>1
    <3>5. CASE UNCHANGED <<granted, accepted, grantTime>>
      <4>1. granted \ unsure' = asked' \ unsure'
        BY <2>3, <3>2, <3>5
      <4>. QED BY <3>2, <3>3, <3>5, <4>1 DEF GrantsStand, ReadsTheLatest, LeavesWhatWasAsked
    <3>6. CASE granted' = L /\ accepted' = {} /\ L \ unsure' = asked' \ unsure'
      BY <3>3, <3>6 DEF GrantsStand, ReadsTheLatest, LeavesWhatWasAsked
    <3>7. CASE /\ accepted' = {[list |-> L, time |-> writes + 1]} /\ grantTime' = grantTime
               /\ L \ unsure' = asked' \ unsure'
      <4>1. \A w \in accepted' : w.time > grantTime' /\ w.list = L
        BY <3>7 DEF GrantsInv, GrantsTypeOK
      <4>. QED BY <3>3, <3>7, <4>1 DEF GrantsStand, ReadsTheLatest, LeavesWhatWasAsked
    <3>. QED BY <2>2, <3>2, <3>4, <3>5, <3>6, <3>7
  <2>. QED BY <2>4, <2>5 DEF GrantsInv
<1>3. ASSUME NEW w \in accepted, ProcessGrant(w)
      PROVE  GrantsInv'
  <2>1. /\ accepted' = accepted \ {w}
        /\ UNCHANGED <<call, writes, asked, unsure, inTurn>>
        /\ \/ w.time > grantTime /\ granted' = w.list /\ grantTime' = w.time
           \/ ~(w.time > grantTime) /\ UNCHANGED <<granted, grantTime>>
    BY <1>3 DEF ProcessGrant
  <2>2. GrantsTypeOK'
    BY <2>1 DEF GrantsInv, GrantsTypeOK
  <2>3. ASSUME inTurn' PROVE (GrantsStand /\ ReadsTheLatest /\ LeavesWhatWasAsked)'
    <3>1. inTurn /\ accepted = {w} /\ w.time > grantTime /\ w.list \ unsure = asked \ unsure
      BY <2>1, <2>3 DEF GrantsInv, LeavesWhatWasAsked
    <3>2. Calling' = {}
      BY <2>1, <3>1 DEF GrantsInv, ReadsTheLatest, Calling
    <3>. QED BY <2>1, <3>1, <3>2 DEF GrantsStand, ReadsTheLatest, LeavesWhatWasAsked
  <2>. QED BY <2>2, <2>3 DEF GrantsInv
<1>4. CASE UNCHANGED grantVars
  BY <1>4 DEF grantVars, GrantsInv, GrantsTypeOK, GrantsStand, ReadsTheLatest, LeavesWhatWasAsked, Calling
<1>. QED BY <1>1, <1>2, <1>3, <1>4 DEF GrantsNext

\* Where calls come in turn, a call for one delegate changes no other's grant,
\* whatever was refused or went unanswered in between.
THEOREM GrantsStandInTurn == GrantsSpec => []GrantsStand
<1>1. GrantsInit => GrantsInv
  BY DEF GrantsInit, GrantsInv, GrantsTypeOK, GrantsStand, ReadsTheLatest, LeavesWhatWasAsked, Calling, NoCall
<1>2. GrantsInv => GrantsStand
  BY DEF GrantsInv, GrantsStand
<1>. QED BY <1>1, <1>2, GrantsStep, PTL DEF GrantsSpec

-----------------------------------------------------------------------------
(* The recovery demonstration: TurnsKeepAll, for every number of phones,     *)
(* entries, stacks, records and faults.  A list that has joined the last    *)
(* record, and is open on the stack in use, holds all that record names; a  *)
(* backup under way carries what that stack holds.                          *)

PhoneSteps == {"idle", "key", "list", "add", "backup", "put", "restore", "forget"}

PhoneType ==
  /\ step \in [Phone -> PhoneSteps]
  /\ stack \in [Phone -> 0..MaxStacks]
  /\ list \in [Phone -> [stack : 0..MaxStacks, live : BOOLEAN]]
  /\ log \in [Phone -> [1..MaxStacks -> SUBSET Entry]]
  /\ captured \in [Phone -> SUBSET Entry]
  /\ record \in SUBSET Entry /\ everNamed \in SUBSET Entry
  /\ published \in Nat /\ written \in Nat
  /\ based \in [Phone -> 0..published]

\* What a step under way found when it was pressed is so until it ends.
Pressed(p) ==
  /\ list[p].stack <= stack[p]
  /\ list[p].stack = 0 => based[p] = 0 /\ ~list[p].live
  /\ step[p] = "list" => list[p].stack = 0 /\ stack[p] # 0
  /\ step[p] \in {"add", "backup", "put"} => list[p].stack # 0
  /\ step[p] = "restore" => stack[p] # 0

Joined(p) == (based[p] = published /\ list[p].stack = stack[p] /\ stack[p] # 0)
                => record \subseteq log[p][stack[p]]
Carries(p) == step[p] = "put" => captured[p] = log[p][stack[p]]

RecoveryInv ==
  /\ PhoneType
  /\ \A p \in Phone : Pressed(p)
  /\ \A p \in Phone : Joined(p)
  /\ \A p \in Phone : Carries(p)
  /\ published = 0 => record = {}
  /\ TurnsKeepAll

LEMMA RecoveryInitInv == RecoveryInit => RecoveryInv
  BY RecoveryAssumption
     DEF RecoveryInit, RecoveryInv, PhoneType, Pressed, Joined, Carries, TurnsKeepAll, NoList,
         PhoneSteps

LEMMA RecoveryStepInv == RecoveryInv /\ [RecoveryNext]_phoneVars => RecoveryInv'
<1> SUFFICES ASSUME RecoveryInv, [RecoveryNext]_phoneVars PROVE RecoveryInv'
  OBVIOUS
<1> USE RecoveryAssumption DEF RecoveryInv, PhoneType, PhoneSteps, World
<1>stutter. CASE UNCHANGED phoneVars
  BY <1>stutter DEF phoneVars, pageState, Pressed, Joined, Carries, TurnsKeepAll
<1>next. CASE RecoveryNext
  <2> PICK p \in Phone :
        \/ UseTheKey(p) \/ CreateStack(p) \/ MakeList(p) \/ CreateList(p) \/ Add(p) \/ AddEntry(p)
        \/ Dehydrate(p) \/ Capture(p) \/ PublishPointer(p)
        \/ Hydrate(p) \/ BringBack(p) \/ Fails(p) \/ Breaks(p)
        \/ Forget(p) \/ ForgetEverything(p) \/ Reload(p)
    BY <1>next DEF RecoveryNext
  <2>1. CASE UseTheKey(p) \/ MakeList(p) \/ Add(p) \/ Dehydrate(p) \/ Hydrate(p) \/ Forget(p)
    <3>1. /\ step' \in [Phone -> PhoneSteps] /\ step'[p] # "put"
          /\ \A q \in Phone \ {p} : step'[q] = step[q]
          /\ step'[p] = "list" => list[p].stack = 0 /\ stack[p] # 0
          /\ step'[p] \in {"add", "backup", "put"} => list[p].stack # 0
          /\ step'[p] = "restore" => stack[p] # 0
      <4>1. list[p] # NoList => list[p].stack # 0
        BY list[p] \in [stack : 0..MaxStacks, live : BOOLEAN] DEF NoList, Pressed
      <4> QED
        <5>1. list[p] = NoList => list[p].stack = 0
          BY DEF NoList
        <5>2. CASE UseTheKey(p) \/ Hydrate(p) \/ Forget(p)
          BY <5>2 DEF UseTheKey, Hydrate, Forget, Press
        <5>3. CASE MakeList(p)
          BY <5>1, <5>3 DEF MakeList, Press
        <5>4. CASE Add(p) \/ Dehydrate(p)
          BY <4>1, <5>4 DEF Add, Dehydrate, Press
        <5> QED
          BY <2>1, <5>2, <5>3, <5>4
    <3>2. UNCHANGED <<stack, list, log, captured, World>>
      BY <2>1 DEF UseTheKey, MakeList, Add, Dehydrate, Hydrate, Forget
    <3> QED
      BY <3>1, <3>2 DEF Pressed, Joined, Carries, TurnsKeepAll
  <2>2. CASE CreateStack(p)
    BY <2>2 DEF CreateStack, Goes, Pressed, Joined, Carries, TurnsKeepAll
  <2>3. CASE CreateList(p)
    BY <2>3 DEF CreateList, Goes, Pressed, Joined, Carries, TurnsKeepAll
  <2>4. CASE AddEntry(p)
    BY <2>4 DEF AddEntry, Goes, Entry, Pressed, Joined, Carries, TurnsKeepAll
  <2>5. CASE Capture(p)
    BY <2>5 DEF Capture, Goes, Pressed, Joined, Carries, TurnsKeepAll
  <2>6. CASE PublishPointer(p)
    <3>1. /\ step[p] = "put" /\ step' = [step EXCEPT ![p] = "idle"]
          /\ published' = published + 1 /\ record' = captured[p]
          /\ captured' = [captured EXCEPT ![p] = {}]
          /\ everNamed' = everNamed \cup captured[p]
          /\ crossed' = (crossed \/ based[p] # published \/ list[p].stack # stack[p])
          /\ based' = [based EXCEPT ![p] = published + 1]
          /\ UNCHANGED <<stack, list, log, written>>
      BY <2>6 DEF PublishPointer, Goes
    <3>2. PhoneType'
      BY <3>1
    <3>3. captured[p] = log[p][stack[p]]
      BY <3>1 DEF Carries
    <3>4. ASSUME NEW q \in Phone PROVE Pressed(q)' /\ Joined(q)' /\ Carries(q)'
      <4>1. CASE q = p
        BY <3>1, <3>3, <4>1 DEF Pressed, Joined, Carries
      <4>2. CASE q # p
        <5>1. based'[q] # published'
          BY <3>1, <4>2
        <5> QED
          BY <3>1, <4>2, <5>1 DEF Pressed, Joined, Carries
      <4> QED
        BY <4>1, <4>2
    <3>5. TurnsKeepAll'
      <4> SUFFICES ASSUME ~crossed' PROVE everNamed' \subseteq record'
        BY DEF TurnsKeepAll
      <4>1. ~crossed /\ based[p] = published /\ list[p].stack = stack[p] /\ stack[p] # 0
        BY <3>1 DEF Pressed
      <4>2. everNamed \subseteq record /\ record \subseteq captured[p]
        BY <4>1, <3>3 DEF TurnsKeepAll, Joined
      <4> QED
        BY <4>2, <3>1
    <3> QED
      BY <3>1, <3>2, <3>4, <3>5
  <2>7. CASE BringBack(p)
    BY <2>7 DEF BringBack, Goes, Pressed, Joined, Carries, TurnsKeepAll
  <2>8. CASE Fails(p)
    BY <2>8 DEF Fails, Pressed, Joined, Carries, TurnsKeepAll
  <2>9. CASE Breaks(p)
    <3>1. /\ step'[p] = "idle" /\ step' \in [Phone -> PhoneSteps]
          /\ \A q \in Phone \ {p} : step'[q] = step[q]
          /\ UNCHANGED <<stack, log, World>>
          /\ captured' \in [Phone -> SUBSET Entry]
          /\ \A q \in Phone \ {p} : captured'[q] = captured[q]
      BY <2>9 DEF Breaks
    <3>2. /\ list' \in [Phone -> [stack : 0..MaxStacks, live : BOOLEAN]]
          /\ \A q \in Phone : list'[q].stack = list[q].stack
          /\ \A q \in Phone : ~list[q].live => ~list'[q].live
      <4>1. CASE UNCHANGED list
        BY <4>1
      <4>2. CASE list' = [list EXCEPT ![p].live = FALSE]
        BY <4>2
      <4> QED
        BY <2>9, <4>1, <4>2 DEF Breaks
    <3> QED
      BY <3>1, <3>2 DEF Pressed, Joined, Carries, TurnsKeepAll
  <2>10. CASE ForgetEverything(p)
    BY <2>10 DEF ForgetEverything, Goes, Pressed, Joined, Carries, TurnsKeepAll
  <2>11. CASE Reload(p)
    BY <2>11 DEF Reload, NoList, Pressed, Joined, Carries, TurnsKeepAll
  <2> QED
    BY <2>1, <2>2, <2>3, <2>4, <2>5, <2>6, <2>7, <2>8, <2>9, <2>10, <2>11
<1> QED
  BY <1>stutter, <1>next

\* Nothing a pointer has named is lost while phones take turns, however many
\* they are and whatever fails (recovery/src/App.svelte, stack.js).
THEOREM RecoveryTurnsKeepAll == RecoverySpec => []TurnsKeepAll
<1>1. RecoveryInv => TurnsKeepAll
  BY DEF RecoveryInv
<1> QED
  BY <1>1, RecoveryInitInv, RecoveryStepInv, PTL DEF RecoverySpec

-----------------------------------------------------------------------------
(* An Aleph account: ForgetAccounts.  Listing rests on counting: a page is  *)
(* the stores whose ranks are in an interval.                               *)

(* Ranks: what numbering the elements of a finite set from the last gives.   *)

RankIn(W, x) == Cardinality({y \in W : y >= x})

LEMMA RankRange ==
  ASSUME NEW W \in SUBSET Int, IsFiniteSet(W), NEW x \in W
  PROVE  RankIn(W, x) \in 1..Cardinality(W)
<1>. DEFINE A == {y \in W : y >= x}
<1>1. A \in SUBSET W /\ x \in A
  OBVIOUS
<1>2. IsFiniteSet(A) /\ Cardinality(A) <= Cardinality(W) /\ Cardinality(A) \in Nat /\ Cardinality(W) \in Nat
  BY <1>1, FS_Subset, FS_CardinalityType
<1>3. Cardinality(A) # 0
  BY <1>1, <1>2, FS_EmptySet
<1>. HIDE DEF A
<1>. QED
  BY <1>2, <1>3 DEF RankIn, A

LEMMA RankFalls ==
  ASSUME NEW W \in SUBSET Int, IsFiniteSet(W), NEW x \in W, NEW y \in W, x < y
  PROVE  RankIn(W, y) < RankIn(W, x)
<1>. DEFINE A(z) == {w \in W : w >= z}
<1>1. A(y) \in SUBSET A(x) /\ x \in A(x) /\ x \notin A(y) /\ A(x) \in SUBSET W
  <2>1. x \in Int /\ y \in Int /\ \A w \in W : w \in Int
    OBVIOUS
  <2>2. \A w \in W : w >= y => w >= x
    BY <2>1
  <2>3. x >= x /\ ~ (x >= y)
    BY <2>1
  <2>. QED
    BY <2>2, <2>3
<1>2. IsFiniteSet(A(x)) /\ Cardinality(A(x)) \in Nat
  BY <1>1, FS_Subset, FS_CardinalityType
<1>3. Cardinality(A(y)) <= Cardinality(A(x)) /\ IsFiniteSet(A(y))
  BY <1>1, <1>2, FS_Subset
<1>4. Cardinality(A(y)) \in Nat
  BY <1>3, FS_CardinalityType
<1>5. Cardinality(A(x)) = Cardinality(A(y)) => A(x) = A(y)
  BY <1>1, <1>2, FS_Subset
<1>6. Cardinality(A(x)) # Cardinality(A(y))
  BY <1>1, <1>5
<1>. HIDE DEF A
<1>7. RankIn(W, y) = Cardinality(A(y)) /\ RankIn(W, x) = Cardinality(A(x))
  BY DEF RankIn, A
<1>. QED
  BY <1>2, <1>3, <1>4, <1>6, <1>7

\* Different elements have different ranks.
LEMMA RankInjective ==
  ASSUME NEW W \in SUBSET Int, IsFiniteSet(W), NEW x \in W, NEW y \in W,
         RankIn(W, x) = RankIn(W, y)
  PROVE  x = y
<1>1. RankIn(W, x) \in Int /\ RankIn(W, y) \in Int
  BY RankRange
<1>2. ~ (x < y) /\ ~ (y < x)
  BY <1>1, RankFalls
<1>. QED
  BY <1>2

\* And each number up to the last is the rank of one.
LEMMA RankOnto ==
  ASSUME NEW W \in SUBSET Int, IsFiniteSet(W), NEW k \in 1..Cardinality(W)
  PROVE  \E x \in W : RankIn(W, x) = k
<1>. DEFINE N == Cardinality(W)
            f == [x \in W |-> RankIn(W, x)]
<1>1. N \in Nat
  BY FS_CardinalityType
<1>2. f \in Injection(W, 1..N)
  <2>1. f \in [W -> 1..N]
    BY RankRange
  <2>2. \A x, y \in W : f[x] = f[y] => x = y
    BY RankInjective
  <2>. QED
    BY <2>1, <2>2 DEF Injection, IsInjective
<1>3. IsFiniteSet(1..N) /\ Cardinality(1..N) = N
  BY <1>1, FS_Interval
<1>4. f \in Surjection(W, 1..N)
  <2>. HIDE DEF f, N
  <2>. QED
    BY <1>2, <1>3, FS_Injection DEF N
<1>. QED
  BY <1>4 DEF Surjection

\* As many have a rank in an interval as it is long.
LEMMA RankedBetween ==
  ASSUME NEW W \in SUBSET Int, IsFiniteSet(W), NEW a \in Nat, NEW b \in Nat,
         a <= b, b <= Cardinality(W)
  PROVE  Cardinality({x \in W : a < RankIn(W, x) /\ RankIn(W, x) <= b}) = b - a
<1>. DEFINE Q == {x \in W : a < RankIn(W, x) /\ RankIn(W, x) <= b}
            I == (a + 1)..b
            f == [x \in Q |-> RankIn(W, x)]
<1>1. IsFiniteSet(I) /\ Cardinality(I) = b - a
  <2>1. a + 1 \in Int /\ b \in Int
    OBVIOUS
  <2>2. IsFiniteSet(I) /\ Cardinality(I) = IF a + 1 > b THEN 0 ELSE b - (a + 1) + 1
    BY <2>1, FS_Interval
  <2>. QED
    BY <2>2
<1>2. f \in Injection(Q, I)
  <2>1. \A x \in Q : RankIn(W, x) \in I
    <3>1. \A x \in Q : RankIn(W, x) \in 1..Cardinality(W)
      BY RankRange
    <3>. QED
      BY <3>1
  <2>2. \A x, y \in Q : f[x] = f[y] => x = y
    BY RankInjective
  <2>3. f \in [Q -> I]
    BY <2>1
  <2>. QED
    BY <2>2, <2>3 DEF Injection, IsInjective
<1>3. f \in Surjection(Q, I)
  <2>1. ASSUME NEW k \in I PROVE \E x \in Q : f[x] = k
    <3>1. k \in 1..Cardinality(W)
      BY FS_CardinalityType
    <3>2. PICK x \in W : RankIn(W, x) = k
      BY <3>1, RankOnto
    <3>3. x \in Q
      BY <3>2
    <3>. QED
      BY <3>2, <3>3
  <2>2. f \in [Q -> I]
    BY <1>2 DEF Injection
  <2>. QED
    BY <2>1, <2>2 DEF Surjection
<1>. HIDE DEF Q, I, f
<1>4. Cardinality(Q) = Cardinality(I)
  BY <1>1, <1>2, <1>3, FS_Injection
<1>. QED
  BY <1>1, <1>4 DEF Q

-----------------------------------------------------------------------------
(* The invariant.                                                           *)

Stages == {"none", "list", "send", "wait", "done"}

\* What is in any listed of the answer but "rejected" and "kept".
Answered == buckets["forgotten"] \cup buckets["pending"] \cup buckets["failed"]

AccountType ==
  /\ state \in [Store -> {"absent", "pending", "processed", "forgotten"}]
  /\ forgetting \in Stages /\ page \in Nat /\ calm \in BOOLEAN /\ told \in BOOLEAN
  /\ buckets \in [{"forgotten", "kept", "rejected", "pending", "failed"} -> SUBSET Store]
  /\ all \in SUBSET (Nat \X Store) /\ targets \in SUBSET all /\ before \in SUBSET Store
  /\ \A t \in all : state[t[2]] # "absent"
  /\ orders \in SUBSET [of : SUBSET all, verdict : {"pending", "processed", "rejected"}]
  /\ toldRetained \in SUBSET (With("processed") \cup With("forgotten"))

\* STOREs are numbered as they are made.
Numbered == \E n \in 0..MaxStores : \A x \in Store : state[x] # "absent" <=> x <= n

\* What keep() spares is sent to nobody.
Spared ==
  /\ buckets["kept"] \subseteq Keep
  /\ \A t \in targets : t[2] \notin Keep
  /\ \A o \in orders : \A t \in o.of : t[2] \notin Keep
  /\ With("forgotten") \cap Keep = {}

\* Before anything is sent.
Unsent == forgetting \in {"none", "list"} =>
            /\ orders = {} /\ With("forgotten") = {} /\ targets = {} /\ buckets = NoBuckets

\* The FORGET that is waited for.
Awaited(o) == forgetting = "wait" /\ o.of = targets

\* One that is not waited for is answered, and what it named is no target any more.
Ordered ==
  \A o \in orders :
    /\ o.verdict = "processed" => HashesOf(o.of) \subseteq With("forgotten")
    /\ ~ Awaited(o) => BatchOf(o.of) \cap targets = {}
    /\ ~ Awaited(o) /\ o.verdict # "rejected" => HashesOf(o.of) \subseteq Answered

\* Two that were sent of the same targets have nothing in them.
OneAwaited == \A o, p \in orders : Awaited(o) /\ Awaited(p) => o = p \/ BatchOf(targets) = {}

\* Nothing went but by an answer, or by the FORGET waited for.
Accounted ==
  /\ buckets["forgotten"] \subseteq With("forgotten")
  /\ \A x \in With("forgotten") :
       \/ x \in Answered
       \/ x \in Hashes /\ \E o \in orders : Awaited(o) /\ o.verdict = "processed"

\* Undisturbed, the pages so far are of those the service had when the call began.
Listing ==
  /\ forgetting = "list" => page > 0
  /\ forgetting = "list" /\ calm =>
       /\ before = With("processed") \cap Own
       /\ \A t \in all : t[2] \in With("processed") /\ Rank(t[2]) <= (page - 1) * PageSize
       /\ \A t, u \in all : t[2] = u[2] => t = u
       /\ \A x \in before : Rank(x) <= (page - 1) * PageSize => x \in StoresOf(all)

\* What was listed is in the answer or a target; undisturbed, that is everything.
Complete ==
  forgetting \in {"send", "wait", "done"} =>
    /\ StoresOf(all) \subseteq Answered \cup buckets["rejected"] \cup buckets["kept"] \cup StoresOf(targets)
    /\ calm => before \subseteq StoresOf(all)

Ended == forgetting = "done" => targets = {}

AccountInv == /\ AccountType /\ Numbered /\ Spared /\ Unsent /\ Ordered /\ OneAwaited
              /\ Accounted /\ Listing /\ Complete /\ Ended

LEMMA WithFinite ==
  ASSUME NEW s PROVE IsFiniteSet(With(s)) /\ With(s) \in SUBSET Store /\ With(s) \in SUBSET Int
<1>1. IsFiniteSet(Store)
  BY AccountAssumption, FS_Interval DEF Store
<1>2. With(s) \in SUBSET Store /\ Store \subseteq Int
  BY DEF With, Store
<1>. QED
  BY <1>1, <1>2, FS_Subset

\* The next number is the first that no STORE has.
LEMMA NextIsAbsent ==
  ASSUME AccountInv, Next1 \in Store
  PROVE  /\ state[Next1] = "absent"
         /\ \A x \in Store : state[x] # "absent" <=> x < Next1
<1>1. PICK n \in 0..MaxStores : \A x \in Store : state[x] # "absent" <=> x <= n
  BY DEF AccountInv, Numbered
<1>2. Store \ With("absent") = 1..n
  BY <1>1, AccountAssumption DEF Store, With
<1>3. n \in Nat /\ Cardinality(1..n) = n
  BY AccountAssumption, FS_Interval
<1>4. Next1 = n + 1
  BY <1>2, <1>3 DEF Next1
<1>. QED
  BY <1>1, <1>3, <1>4 DEF Store

\* Batches and hashes are of the targets they are taken from.
LEMMA BatchesAre ==
  ASSUME NEW listed PROVE BatchOf(listed) \subseteq listed /\ HashesOf(listed) \subseteq StoresOf(listed)
BY DEF BatchOf, HashesOf, StoresOf

\* A STORE that is made or gets through changes nothing for a call, unless it is
\* listing, which is then not calm.
LEMMA StoresCome ==
  ASSUME AccountInv,
         state' \in [Store -> {"absent", "pending", "processed", "forgotten"}],
         \A x \in Store : /\ state[x] = "forgotten" <=> state'[x] = "forgotten"
                          /\ state[x] = "processed" => state'[x] = "processed"
                          /\ state[x] # "absent" => state'[x] # "absent",
         Numbered',
         toldRetained' \subseteq toldRetained \cup With("processed")',
         UNCHANGED <<orders, forgetting, page, all, buckets, targets, told, before>>,
         calm' \in BOOLEAN,
         calm' => calm,
         calm' /\ forgetting = "list" => \A x \in Store : state'[x] = "processed" => state[x] = "processed"
  PROVE  AccountInv'
<1>. USE DEF AccountInv
<1>1. With("forgotten")' = With("forgotten") /\ With("processed") \subseteq With("processed")'
  BY DEF With
<1>2. AccountType'
  <2>1. toldRetained' \in SUBSET (With("processed") \cup With("forgotten"))'
    BY <1>1 DEF AccountType
  <2>2. \A t \in all : t[2] \in Store /\ state'[t[2]] # "absent"
    BY DEF AccountType
  <2>. QED
    BY <2>1, <2>2 DEF AccountType
<1>3. Spared' /\ Unsent' /\ Ended'
  BY <1>1 DEF Spared, Unsent, Ended
<1>4. \A o : Awaited(o)' <=> Awaited(o)
  BY DEF Awaited
<1>5. Answered' = Answered
  BY DEF Answered
<1>6. Ordered' /\ OneAwaited'
  BY <1>1, <1>4, <1>5 DEF Ordered, OneAwaited
<1>7. Accounted'
  BY <1>1, <1>4, <1>5 DEF Accounted, Hashes
<1>8. Complete'
  BY <1>5 DEF Complete
<1>9. Listing'
  <2>. SUFFICES ASSUME forgetting = "list", calm', calm PROVE Listing'
    BY DEF Listing
  <2>1. With("processed")' = With("processed")
    BY DEF With, AccountType
  <2>2. \A x : Rank(x)' = Rank(x)
    BY <2>1 DEF Rank
  <2>. QED
    BY <2>1, <2>2 DEF Listing
<1>. QED
  BY <1>2, <1>3, <1>6, <1>7, <1>8, <1>9

\* A STORE takes the next number.
LEMMA OneStored ==
  ASSUME AccountInv, Next1 \in Store, NEW answer \in {"pending", "processed"},
         state' = [state EXCEPT ![Next1] = answer]
  PROVE  /\ state' \in [Store -> {"absent", "pending", "processed", "forgotten"}] /\ Numbered'
         /\ \A x \in Store : /\ state[x] = "forgotten" <=> state'[x] = "forgotten"
                             /\ state[x] = "processed" => state'[x] = "processed"
                             /\ state[x] # "absent" => state'[x] # "absent"
                             /\ answer = "pending" /\ state'[x] = "processed" => state[x] = "processed"
                             /\ answer = "processed" => state'[Next1] = "processed"
<1>1. PICK n \in Store : n = Next1
  OBVIOUS
<1>2. state[n] = "absent" /\ \A x \in Store : state[x] # "absent" <=> x < n
  BY <1>1, NextIsAbsent
<1>3. state \in [Store -> {"absent", "pending", "processed", "forgotten"}]
  BY DEF AccountInv, AccountType
<1>4. \A x \in Store : state'[x] = IF x = n THEN answer ELSE state[x]
  BY <1>1, <1>3
<1>5. state' \in [Store -> {"absent", "pending", "processed", "forgotten"}]
  BY <1>3
<1>6. n \in 0..MaxStores /\ \A x \in Store : state'[x] # "absent" <=> x <= n
  BY <1>2, <1>4, AccountAssumption DEF Store
<1>. QED
  BY <1>1, <1>2, <1>4, <1>5, <1>6 DEF Numbered

LEMMA StoredKeeps ==
  ASSUME AccountInv, Next1 \in Own, NEW answer \in {"pending", "processed"}, Stored(Next1, answer),
         UNCHANGED <<orders, forgetting, page, all, buckets, targets, told, before>>
  PROVE  AccountInv'
<1>1. Next1 \in Store /\ state' = [state EXCEPT ![Next1] = answer]
  BY DEF Stored, Own
<1>2. calm \in BOOLEAN /\ calm' \in BOOLEAN /\ (calm' => calm /\ (forgetting = "list" => answer = "pending"))
  BY DEF Stored, AccountInv, AccountType
<1>3. toldRetained' \subseteq toldRetained \cup With("processed")'
  BY <1>1, OneStored DEF Stored, With
<1>4. calm' /\ forgetting = "list" => \A x \in Store : state'[x] = "processed" => state[x] = "processed"
  BY <1>1, <1>2, OneStored
<1>. QED
  BY <1>1, <1>2, <1>3, <1>4, OneStored, StoresCome

LEMMA UploadsKeep ==
  ASSUME AccountInv, PutBlob \/ PinCid PROVE AccountInv'
<1>1. ASSUME PutBlob PROVE AccountInv'
  <2>1. CASE UNCHANGED <<state, ingestGone, toldRetained, calm, acctFaults>>
    <3>1. UNCHANGED <<orders, forgetting, page, all, buckets, targets, told, before>>
      BY <1>1 DEF PutBlob
    <3>2. Numbered'
      BY <2>1 DEF AccountInv, Numbered
    <3>. QED
      BY <2>1, <3>1, <3>2, StoresCome DEF AccountInv, AccountType
  <2>2. CASE \E answer \in {"processed", "pending"} : Stored(Next1, answer)
    BY <1>1, <2>2, StoredKeeps DEF PutBlob
  <2>. QED
    BY <1>1, <2>1, <2>2 DEF PutBlob
<1>2. ASSUME PinCid PROVE AccountInv'
  <2>1. PICK answer \in {"processed", "pending"} : Stored(Next1, answer)
    BY <1>2 DEF PinCid
  <2>2. Next1 \in Own
    BY <2>1 DEF Stored
  <2>. QED
    BY <1>2, <2>1, <2>2, StoredKeeps DEF PinCid
<1>. QED
  BY <1>1, <1>2

LEMMA ForeignKeeps ==
  ASSUME AccountInv, Next1 \in Store, ForeignStore PROVE AccountInv'
<1>1. state' = [state EXCEPT ![Next1] = "processed"]
  BY DEF ForeignStore
<1>2. /\ UNCHANGED <<orders, forgetting, page, all, buckets, targets, told, before, toldRetained>>
      /\ calm' \in BOOLEAN /\ (calm' => calm /\ forgetting # "list")
  BY DEF ForeignStore, AccountInv, AccountType
<1>. QED
  BY <1>1, <1>2, OneStored, StoresCome

LEMMA SettleStoreKeeps ==
  ASSUME AccountInv, NEW x \in Store, SettleStore(x) PROVE AccountInv'
<1>1. state \in [Store -> {"absent", "pending", "processed", "forgotten"}]
  BY DEF AccountInv, AccountType
<1>2. /\ UNCHANGED <<orders, forgetting, page, all, buckets, targets, told, before, toldRetained>>
      /\ calm' \in BOOLEAN /\ (calm' => calm /\ forgetting # "list") /\ state[x] = "pending"
  BY DEF SettleStore, AccountInv, AccountType
<1>3. \A y \in Store : state'[y] = IF y = x THEN "processed" ELSE state[y]
  BY <1>1 DEF SettleStore
<1>4. state' \in [Store -> {"absent", "pending", "processed", "forgotten"}]
  BY <1>1 DEF SettleStore
<1>5. Numbered'
  BY <1>2, <1>3 DEF AccountInv, Numbered
<1>. QED
  BY <1>2, <1>3, <1>4, <1>5, StoresCome

LEMMA ForgetStoresKeeps ==
  ASSUME AccountInv, ForgetStores PROVE AccountInv'
<1>. USE DEF AccountInv
<1>1. /\ forgetting = "none" /\ forgetting' = "list" /\ page' = 1 /\ all' = {} /\ buckets' = NoBuckets
      /\ before' = With("processed") \cap Own /\ calm' = TRUE
      /\ UNCHANGED <<state, toldRetained, orders, targets, told>>
  BY DEF ForgetStores
<1>2. orders = {} /\ With("forgotten") = {} /\ targets = {}
  BY <1>1 DEF Unsent
<1>3. UNCHANGED <<With("processed"), With("forgotten")>>
  BY <1>1 DEF With
<1>4. AccountType'
  BY <1>1, <1>2, <1>3, WithFinite DEF AccountType, NoBuckets, Stages
<1>5. Numbered' /\ Spared' /\ Unsent' /\ Ordered' /\ OneAwaited' /\ Accounted' /\ Complete' /\ Ended'
  BY <1>1, <1>2, <1>3 DEF Numbered, Spared, Unsent, Ordered, OneAwaited, Accounted, Complete, Ended, NoBuckets
<1>6. Listing'
  <2>1. ASSUME NEW x \in before' PROVE ~ (Rank(x)' <= (page' - 1) * PageSize)
    <3>1. Rank(x)' = RankIn(With("processed"), x)
      BY <1>3 DEF Rank, RankIn
    <3>2. x \in With("processed")
      BY <1>1, <2>1
    <3>3. Rank(x)' > 0 /\ Rank(x)' \in Int
      BY <3>1, <3>2, WithFinite, RankRange
    <3>4. (page' - 1) * PageSize = 0
      BY <1>1, AccountAssumption
    <3>. QED
      BY <3>3, <3>4
  <2>. QED
    BY <1>1, <1>3, <2>1 DEF Listing
<1>. QED
  BY <1>4, <1>5, <1>6

LEMMA ListFailsKeeps ==
  ASSUME AccountInv, ListFails PROVE AccountInv'
<1>. USE DEF AccountInv
<1>1. /\ forgetting = "list" /\ forgetting' = "done" /\ calm' = FALSE
      /\ all' = {} /\ UNCHANGED <<state, toldRetained, orders, page, buckets, targets, told, before>>
  BY DEF ListFails
<1>2. orders = {} /\ With("forgotten") = {} /\ targets = {}
  BY <1>1 DEF Unsent
<1>3. UNCHANGED <<With("processed"), With("forgotten")>>
  BY <1>1 DEF With
<1>4. AccountType'
  BY <1>1, <1>2, <1>3 DEF AccountType, Stages
<1>5. Numbered' /\ Spared' /\ Unsent' /\ Ordered' /\ OneAwaited' /\ Accounted' /\ Complete' /\ Ended'
  BY <1>1, <1>2, <1>3
     DEF Numbered, Spared, Unsent, Ordered, OneAwaited, Accounted, Complete, Ended, StoresOf
<1>6. Listing'
  BY <1>1 DEF Listing
<1>. QED
  BY <1>4, <1>5, <1>6

\* A batch that is answered: what was sent is in the answer, the rest is to be sent.
LEMMA Answering ==
  ASSUME AccountType, NEW b \in {"forgotten", "rejected", "pending", "failed"}, Answer(b)
  PROVE  /\ targets' \subseteq targets /\ BatchOf(targets) \cap targets' = {}
         /\ StoresOf(targets) \subseteq Hashes \cup StoresOf(targets')
         /\ buckets' \in [{"forgotten", "kept", "rejected", "pending", "failed"} -> SUBSET Store]
         /\ \A c \in {"forgotten", "kept", "rejected", "pending", "failed"} :
              buckets'[c] = IF c = b THEN buckets[c] \cup Hashes ELSE buckets[c]
         /\ forgetting' \in {"send", "done"} /\ (forgetting' = "done" => targets' = {})
         /\ Hashes \subseteq Store
<1>1. Hashes \subseteq Store
  BY BatchesAre DEF Hashes, StoresOf, AccountType
<1>2. targets' = targets \ BatchOf(targets)
  BY DEF Answer, Rest
<1>3. StoresOf(targets) \subseteq Hashes \cup StoresOf(targets')
  BY <1>2 DEF StoresOf, Hashes, HashesOf
<1>4. buckets \in [{"forgotten", "kept", "rejected", "pending", "failed"} -> SUBSET Store]
  BY DEF AccountType
<1>5. PICK h \in SUBSET Store : h = Hashes
  BY <1>1
<1>6. buckets' = [buckets EXCEPT ![b] = @ \cup h]
  BY <1>5 DEF Answer
<1>7. /\ buckets' \in [{"forgotten", "kept", "rejected", "pending", "failed"} -> SUBSET Store]
      /\ \A c \in {"forgotten", "kept", "rejected", "pending", "failed"} :
           buckets'[c] = IF c = b THEN buckets[c] \cup h ELSE buckets[c]
  BY ONLY <1>4, <1>6, <1>5
<1>8. forgetting' \in {"send", "done"} /\ (forgetting' = "done" => targets' = {})
  BY DEF Answer
<1>. QED
  BY <1>1, <1>2, <1>3, <1>5, <1>7, <1>8

LEMMA AnswerKeeps ==
  ASSUME AccountInv, forgetting \in {"send", "wait"},
         NEW b \in {"forgotten", "rejected", "pending", "failed"}, Answer(b),
         UNCHANGED <<page, all, told, before, calm, toldRetained>>,
         UNCHANGED state \/ (b = "forgotten" /\ Forgotten(Hashes)),
         orders' = orders \/ (b = "failed" /\ orders' = orders \cup {[of |-> targets, verdict |-> "pending"]}),
         b = "forgotten" => Hashes \subseteq With("forgotten")',
         b = "rejected" => \A o \in orders : Awaited(o) => o.verdict = "rejected" \/ BatchOf(targets) = {}
  PROVE  AccountInv'
<1>. USE DEF AccountInv
<1>a. BatchOf(targets) = {} => Hashes = {}
  BY DEF Hashes, HashesOf, StoresOf
<1>b. \A o \in orders' : ~ Awaited(o)'
  BY Answering DEF Awaited
<1>c. Answered \subseteq Answered' /\ (b # "rejected" => Hashes \subseteq Answered')
  BY Answering DEF Answered
<1>1. /\ state' \in [Store -> {"absent", "pending", "processed", "forgotten"}]
      /\ \A x \in Store : /\ state[x] = "absent" <=> state'[x] = "absent"
                          /\ state'[x] = "forgotten" <=> \/ state[x] = "forgotten"
                                                         \/ x \in Hashes /\ state' # state
                          /\ state'[x] # state[x] => state'[x] = "forgotten"
  <2>1. CASE UNCHANGED state
    BY <2>1 DEF AccountType
  <2>2. CASE Forgotten(Hashes) /\ state' # state
    <3>1. \A x \in Hashes : x \in Store /\ state[x] # "absent"
      BY BatchesAre DEF Hashes, StoresOf, AccountType
    <3>2. PICK h : h = Hashes
      OBVIOUS
    <3>3. state' = [x \in Store |-> IF x \in h THEN "forgotten" ELSE state[x]]
      BY <2>2, <3>2 DEF Forgotten
    <3>. QED
      BY <2>2, <3>1, <3>2, <3>3 DEF AccountType
  <2>. QED
    BY <2>1, <2>2
<1>2. With("forgotten") \subseteq With("forgotten")' /\ With("forgotten")' \subseteq With("forgotten") \cup Hashes
  BY <1>1 DEF With
<1>3. state' # state => b = "forgotten"
  OBVIOUS
<1>4. AccountType'
  <2>1. \A t \in all' : t[2] \in Store /\ state'[t[2]] # "absent"
    BY <1>1 DEF AccountType
  <2>2. targets' \subseteq all' /\ orders' \in SUBSET [of : SUBSET all', verdict : {"pending", "processed", "rejected"}]
    BY Answering DEF AccountType
  <2>3. toldRetained' \in SUBSET (With("processed") \cup With("forgotten"))'
    BY <1>1 DEF AccountType, With
  <2>. QED
    BY <1>1, <2>1, <2>2, <2>3, Answering DEF AccountType, Stages
<1>5. Numbered'
  BY <1>1 DEF Numbered
<1>6. \A t \in targets : t[2] \notin Keep
  BY DEF Spared
<1>7. Spared'
  <2>1. Hashes \cap Keep = {}
    BY <1>6, BatchesAre DEF Hashes, StoresOf
  <2>2. buckets'["kept"] \subseteq Keep /\ \A t \in targets' : t[2] \notin Keep
    BY <1>6, Answering DEF Spared
  <2>3. \A o \in orders' : \A t \in o.of : t[2] \notin Keep
    BY <1>6 DEF Spared
  <2>. QED
    BY <1>2, <2>1, <2>2, <2>3 DEF Spared
<1>8. Unsent' /\ Ended' /\ OneAwaited' /\ Listing'
  BY <1>b, Answering DEF Unsent, Ended, OneAwaited, Listing
<1>9. Ordered'
  <2>1. ASSUME NEW o \in orders'
        PROVE  /\ o.verdict = "processed" => HashesOf(o.of) \subseteq With("forgotten")'
               /\ BatchOf(o.of) \cap targets' = {}
               /\ o.verdict # "rejected" => HashesOf(o.of) \subseteq Answered'
    <3>1. CASE o \in orders /\ ~ Awaited(o)
      BY <1>2, <1>c, <3>1, Answering DEF Ordered
    <3>2. CASE o \in orders /\ Awaited(o)
      <4>1. o.of = targets /\ HashesOf(o.of) = Hashes
        BY <3>2 DEF Awaited, Hashes
      <4>2. o.verdict = "processed" => Hashes \subseteq With("forgotten")
        BY <3>2, <4>1 DEF Ordered
      <4>3. o.verdict # "rejected" => Hashes \subseteq Answered'
        BY <1>a, <1>c, <3>2
      <4>. QED
        BY <1>2, <4>1, <4>2, <4>3, Answering
    <3>3. CASE o = [of |-> targets, verdict |-> "pending"] /\ b = "failed"
      <4>1. o.of = targets /\ HashesOf(o.of) = Hashes /\ o.verdict = "pending"
        BY <3>3 DEF Hashes
      <4>. QED
        BY <1>c, <3>3, <4>1, Answering
    <3>. QED
      BY <3>1, <3>2, <3>3
  <2>. QED
    BY <2>1 DEF Ordered
<1>10. Accounted'
  <2>1. buckets'["forgotten"] \subseteq With("forgotten")'
    BY <1>2, Answering DEF Accounted
  <2>2. ASSUME NEW x \in With("forgotten")' PROVE x \in Answered'
    <3>1. CASE x \in With("forgotten") /\ x \in Hashes /\ \E o \in orders : Awaited(o) /\ o.verdict = "processed"
      BY <1>a, <1>c, <3>1
    <3>2. CASE x \in With("forgotten") /\ x \in Answered
      BY <1>c, <3>2
    <3>3. CASE x \notin With("forgotten")
      <4>1. x \in Hashes /\ state' # state
        BY <1>1, <3>3 DEF With
      <4>. QED
        BY <1>3, <1>c, <4>1
    <3>. QED
      BY <3>1, <3>2, <3>3 DEF Accounted
  <2>. QED
    BY <2>1, <2>2 DEF Accounted
<1>11. Complete'
  <2>. SUFFICES StoresOf(all) \subseteq Answered' \cup buckets'["rejected"] \cup buckets'["kept"] \cup StoresOf(targets')
    BY DEF Complete
  <2>1. StoresOf(all) \subseteq Answered \cup buckets["rejected"] \cup buckets["kept"] \cup StoresOf(targets)
    BY DEF Complete
  <2>2. Hashes \subseteq Answered' \cup buckets'["rejected"] /\ buckets["rejected"] \subseteq buckets'["rejected"] /\ buckets["kept"] = buckets'["kept"]
    BY <1>c, Answering
  <2>. QED
    BY <1>c, <2>1, <2>2, Answering
<1>. QED
  BY <1>4, <1>5, <1>7, <1>8, <1>9, <1>10, <1>11

LEMMA SendForgetKeeps ==
  ASSUME AccountInv, SendForget PROVE AccountInv'
<1>1. /\ forgetting = "send"
      /\ UNCHANGED <<toldRetained, page, all, told, before, calm>>
  BY DEF SendForget
<1>2. \A o : ~ Awaited(o)
  BY <1>1 DEF Awaited
<1>3. CASE targets = {} /\ forgetting' = "done" /\ UNCHANGED <<state, orders, buckets, targets, asks, acctFaults>>
  <2>. USE DEF AccountInv
  <2>1. UNCHANGED <<With("processed"), With("forgotten"), Answered>> /\ \A o : ~ Awaited(o)'
    BY <1>3 DEF With, Answered, Awaited
  <2>2. AccountType'
    BY <1>1, <1>3, <2>1 DEF AccountType, Stages
  <2>3. Numbered' /\ Spared' /\ Unsent' /\ Ordered' /\ OneAwaited' /\ Listing' /\ Complete' /\ Ended'
    BY <1>1, <1>2, <1>3, <2>1 DEF Numbered, Spared, Unsent, Ordered, OneAwaited, Listing, Complete, Ended
  <2>4. Accounted'
    BY <1>2, <1>3, <2>1 DEF Accounted
  <2>. QED
    BY <2>2, <2>3, <2>4
<1>4. CASE Forgotten(Hashes) /\ Answer("forgotten") /\ UNCHANGED <<orders, asks, acctFaults>>
  <2>1. Hashes \subseteq With("forgotten")'
    BY <1>4, Answering DEF Forgotten, With, AccountInv
  <2>. QED
    BY <1>1, <1>4, <2>1, AnswerKeeps
<1>5. CASE Answer("rejected") /\ UNCHANGED <<state, orders, asks, acctFaults>>
  BY <1>1, <1>2, <1>5, AnswerKeeps
<1>6. CASE /\ orders' = orders \cup {[of |-> targets, verdict |-> "pending"]}
           /\ Answer("failed") /\ UNCHANGED state
  BY <1>1, <1>6, AnswerKeeps
<1>7. CASE Answer("failed") /\ UNCHANGED <<state, orders, asks>>
  BY <1>1, <1>7, AnswerKeeps
<1>8. CASE /\ orders' = orders \cup {[of |-> targets, verdict |-> "pending"]}
           /\ forgetting' = "wait" /\ UNCHANGED <<state, buckets, targets>>
  <2>. USE DEF AccountInv
  <2>0. PICK new : new = [of |-> targets, verdict |-> "pending"]
    OBVIOUS
  <2>1. UNCHANGED <<With("processed"), With("forgotten"), Answered, Hashes>>
    BY <1>8 DEF With, Answered, Hashes
  <2>2. new.of = targets /\ new.verdict = "pending" /\ orders' = orders \cup {new}
    BY <1>8, <2>0
  <2>3. \A o : Awaited(o)' <=> o.of = targets
    BY <1>8 DEF Awaited
  <2>4. AccountType'
    BY <1>1, <1>8, <2>1, <2>2 DEF AccountType, Stages
  <2>5. Numbered' /\ Spared' /\ Unsent' /\ Listing' /\ Complete' /\ Ended'
    BY <1>1, <1>8, <2>1, <2>2 DEF Numbered, Spared, Unsent, Listing, Complete, Ended
  <2>6. Ordered'
    BY <1>2, <1>8, <2>1, <2>2, <2>3 DEF Ordered
  <2>7. Accounted'
    BY <1>2, <1>8, <2>1 DEF Accounted
  <2>8. OneAwaited'
    <3>1. ASSUME NEW o \in orders, o.of = targets PROVE BatchOf(targets) = {}
      BY <1>2, <3>1, BatchesAre DEF Ordered
    <3>. QED
      BY <1>8, <2>2, <2>3, <3>1 DEF OneAwaited
  <2>. QED
    BY <2>4, <2>5, <2>6, <2>7, <2>8
<1>. QED
  BY <1>3, <1>4, <1>5, <1>6, <1>7, <1>8 DEF SendForget

LEMMA WaitForMessageKeeps ==
  ASSUME AccountInv, WaitForMessage PROVE AccountInv'
<1>. USE DEF AccountInv
<1>1. PICK order \in orders :
        /\ order.of = targets
        /\ \/ order.verdict # "pending" /\ Answer(Bucket(order.verdict))
           \/ /\ asks > 1 /\ UNCHANGED <<buckets, targets, forgetting>>
           \/ Answer(Bucket("pending"))
  BY DEF WaitForMessage
<1>2. /\ forgetting = "wait"
      /\ UNCHANGED <<state, toldRetained, orders, page, all, told, before, calm>>
  BY DEF WaitForMessage
<1>3. Awaited(order)
  BY <1>1, <1>2 DEF Awaited
<1>4. order.verdict \in {"pending", "processed", "rejected"}
  BY DEF AccountType
<1>5. With("forgotten")' = With("forgotten")
  BY <1>2 DEF With
<1>6. CASE UNCHANGED <<buckets, targets, forgetting>>
  <2>1. Numbered'
    BY <1>2 DEF Numbered
  <2>. QED
    BY <1>2, <1>6, <2>1, StoresCome DEF AccountType
<1>7. CASE order.verdict = "processed" /\ Answer("forgotten")
  <2>1. Hashes \subseteq With("forgotten")'
    BY <1>1, <1>5, <1>7 DEF Ordered, Hashes
  <2>. QED
    BY <1>2, <1>7, <2>1, AnswerKeeps
<1>8. CASE order.verdict = "rejected" /\ Answer("rejected")
  <2>1. \A o \in orders : Awaited(o) => o.verdict = "rejected" \/ BatchOf(targets) = {}
    BY <1>3, <1>8 DEF OneAwaited
  <2>. QED
    BY <1>2, <1>8, <2>1, AnswerKeeps
<1>9. CASE Answer("pending")
  BY <1>2, <1>9, AnswerKeeps
<1>. QED
  BY <1>1, <1>4, <1>6, <1>7, <1>8, <1>9 DEF Bucket

LEMMA SettleForgetKeeps ==
  ASSUME AccountInv, NEW order \in orders, SettleForget(order) PROVE AccountInv'
<1>. USE DEF AccountInv
<1>1. PICK verdict \in {"processed", "rejected"} :
        /\ orders' = (orders \ {order}) \cup {[order EXCEPT !.verdict = verdict]}
        /\ IF verdict = "processed" THEN Forgotten(HashesOf(order.of)) ELSE UNCHANGED state
  BY DEF SettleForget
<1>2. /\ order.verdict = "pending" /\ calm' = (calm /\ forgetting # "list")
      /\ UNCHANGED <<toldRetained, forgetting, page, all, buckets, targets, told, before>>
  BY DEF SettleForget
<1>3. PICK h : h = HashesOf(order.of)
  OBVIOUS
<1>4. PICK new : new = [order EXCEPT !.verdict = verdict]
  OBVIOUS
<1>5. new.of = order.of /\ new.verdict = verdict /\ orders' = (orders \ {order}) \cup {new}
  <2>1. order \in [of : SUBSET all, verdict : {"pending", "processed", "rejected"}]
    BY DEF AccountType
  <2>. QED
    BY <1>1, <1>4, <2>1
<1>6. /\ UNCHANGED <<Answered, Hashes>> /\ Awaited(new)' = Awaited(order)
      /\ \A o : Awaited(o)' = Awaited(o)
  BY <1>2, <1>5 DEF Answered, Hashes, Awaited
<1>7. forgetting \notin {"none", "list"}
  BY DEF Unsent
<1>8. \A x \in h : x \in Store /\ x \notin Keep /\ state[x] # "absent"
  <2>1. \A t \in order.of : t[2] \in Store /\ t[2] \notin Keep /\ state[t[2]] # "absent"
    BY DEF AccountType, Spared
  <2>. QED
    BY <1>3, <2>1, BatchesAre DEF StoresOf
<1>9. /\ state' \in [Store -> {"absent", "pending", "processed", "forgotten"}]
      /\ \A x \in Store : /\ state[x] = "absent" <=> state'[x] = "absent"
                          /\ state'[x] = "forgotten" <=> state[x] = "forgotten" \/ (x \in h /\ verdict = "processed")
                          /\ state'[x] # state[x] => state'[x] = "forgotten"
  <2>1. CASE verdict = "rejected"
    BY <1>1, <2>1 DEF AccountType
  <2>2. CASE verdict = "processed"
    <3>1. state' = [x \in Store |-> IF x \in h THEN "forgotten" ELSE state[x]]
      BY <1>1, <1>3, <2>2 DEF Forgotten
    <3>. QED
      BY <1>8, <2>2, <3>1 DEF AccountType
  <2>. QED
    BY <2>1, <2>2
<1>10. With("forgotten")' = IF verdict = "processed" THEN With("forgotten") \cup h ELSE With("forgotten")
  BY <1>8, <1>9 DEF With
<1>11. AccountType'
  <2>1. \A t \in all' : t[2] \in Store /\ state'[t[2]] # "absent"
    BY <1>2, <1>9 DEF AccountType
  <2>2. toldRetained' \in SUBSET (With("processed") \cup With("forgotten"))'
    BY <1>2, <1>9 DEF AccountType, With
  <2>3. orders' \in SUBSET [of : SUBSET all', verdict : {"pending", "processed", "rejected"}]
    BY <1>1, <1>2 DEF AccountType
  <2>. QED
    BY <1>2, <1>9, <2>1, <2>2, <2>3 DEF AccountType
<1>12. Numbered'
  BY <1>9 DEF Numbered
<1>13. Spared'
  BY <1>2, <1>5, <1>8, <1>10 DEF Spared
<1>14. Unsent' /\ OneAwaited' /\ Listing' /\ Complete' /\ Ended'
  <2>1. Unsent' /\ Listing' /\ Ended'
    BY <1>2, <1>7 DEF Unsent, Listing, Ended, Stages, AccountType
  <2>2. Complete'
    BY <1>2, <1>6 DEF Complete
  <2>3. OneAwaited'
    <3>1. ASSUME NEW o \in orders', NEW p \in orders', Awaited(o)', Awaited(p)', o # p
          PROVE  BatchOf(targets) = {}
      <4>1. PICK o1 \in orders, p1 \in orders : /\ o = IF o1 = order THEN new ELSE o1
                                                /\ p = IF p1 = order THEN new ELSE p1
        BY <1>5
      <4>2. Awaited(o1) /\ Awaited(p1)
        BY <1>5, <1>6, <3>1, <4>1 DEF Awaited
      <4>. QED
        BY <3>1, <4>1, <4>2 DEF OneAwaited
    <3>. QED
      BY <1>2, <3>1 DEF OneAwaited
  <2>. QED
    BY <2>1, <2>2, <2>3
<1>15. Ordered'
  <2>1. ASSUME NEW o \in orders, o # order
        PROVE  /\ o.verdict = "processed" => HashesOf(o.of) \subseteq With("forgotten")'
               /\ ~ Awaited(o)' => BatchOf(o.of) \cap targets' = {}
               /\ ~ Awaited(o)' /\ o.verdict # "rejected" => HashesOf(o.of) \subseteq Answered'
    BY <1>2, <1>6, <1>10 DEF Ordered
  <2>2. /\ new.verdict = "processed" => HashesOf(new.of) \subseteq With("forgotten")'
        /\ ~ Awaited(new)' => BatchOf(new.of) \cap targets' = {}
        /\ ~ Awaited(new)' /\ new.verdict # "rejected" => HashesOf(new.of) \subseteq Answered'
    <3>1. /\ ~ Awaited(order) => BatchOf(order.of) \cap targets = {}
          /\ ~ Awaited(order) => HashesOf(order.of) \subseteq Answered
      BY <1>2 DEF Ordered
    <3>. QED
      BY <1>2, <1>3, <1>5, <1>6, <1>10, <3>1
  <2>. QED
    BY <1>5, <2>1, <2>2 DEF Ordered
<1>16. Accounted'
  <2>1. buckets'["forgotten"] \subseteq With("forgotten")'
    BY <1>2, <1>10 DEF Accounted
  <2>2. ASSUME NEW x \in With("forgotten"), x \notin Answered
        PROVE  x \in Hashes /\ \E o \in orders' : Awaited(o)' /\ o.verdict = "processed"
    <3>1. PICK o \in orders : x \in Hashes /\ Awaited(o) /\ o.verdict = "processed"
      BY <2>2 DEF Accounted
    <3>2. o # order /\ o \in orders' /\ Awaited(o)'
      BY <1>2, <1>5, <1>6, <3>1
    <3>. QED
      BY <3>1, <3>2
  <2>3. ASSUME NEW x \in h, verdict = "processed", x \notin Answered
        PROVE  x \in Hashes /\ \E o \in orders' : Awaited(o)' /\ o.verdict = "processed"
    <3>1. Awaited(order)
      BY <1>2, <1>3, <2>3 DEF Ordered
    <3>2. new \in orders' /\ Awaited(new)' /\ new.verdict = "processed"
      BY <1>5, <1>6, <2>3, <3>1
    <3>3. x \in Hashes
      BY <1>3, <2>3, <3>1 DEF Awaited, Hashes
    <3>. QED
      BY <3>2, <3>3
  <2>. QED
    BY <1>6, <1>10, <2>1, <2>2, <2>3 DEF Accounted
<1>. QED
  BY <1>11, <1>12, <1>13, <1>14, <1>15, <1>16

\* What the pages up to this one hold, and that the last of them leaves nothing.
LEMMA ListedSoFar ==
  ASSUME AccountInv, ListPage, calm'
  PROVE  LET listed == all \cup {<<page, x>> : x \in Stores(page)}
         IN  /\ \A t \in listed : t[2] \in With("processed") /\ Rank(t[2]) <= page * PageSize
             /\ \A t, u \in listed : t[2] = u[2] => t = u
             /\ \A x \in before : Rank(x) <= page * PageSize => x \in StoresOf(listed)
             /\ LastPage(Stores(page), listed) => before \subseteq StoresOf(listed)
<1>. DEFINE listed == all \cup {<<page, x>> : x \in Stores(page)}
<1>. USE DEF AccountInv
<1>1. PICK W : W = With("processed")
  OBVIOUS
<1>2. W \in SUBSET Int /\ IsFiniteSet(W) /\ \A x : Rank(x) = RankIn(W, x)
  BY <1>1, WithFinite DEF Rank, RankIn
<1>3. /\ forgetting = "list" /\ calm /\ (PageOf(page) # {} => Stores(page) # {})
      /\ told \/ PageOf(page) \subseteq Own
  BY DEF ListPage, AccountType
<1>4. page \in Nat /\ page > 0
  BY <1>3 DEF Listing, AccountType
<1>5. PICK a \in Nat, b \in Nat : a = (page - 1) * PageSize /\ b = page * PageSize /\ b = a + PageSize /\ a < b
  <2>1. PageSize \in Nat /\ PageSize > 0
    BY AccountAssumption
  <2>2. page * PageSize = (page - 1) * PageSize + PageSize
    BY <1>4, <2>1
  <2>3. page * PageSize \in Nat /\ (page - 1) * PageSize \in Nat
    BY <1>4, <2>1
  <2>. QED
    BY <2>1, <2>2, <2>3
<1>6. /\ before = W \cap Own
      /\ \A t \in all : t[2] \in W /\ Rank(t[2]) <= a
      /\ \A t, u \in all : t[2] = u[2] => t = u
      /\ \A x \in before : Rank(x) <= a => x \in StoresOf(all)
  BY <1>1, <1>3, <1>5 DEF Listing
<1>7. PICK S : S = Stores(page)
  OBVIOUS
<1>8. /\ PageOf(page) = {x \in W : a < RankIn(W, x) /\ RankIn(W, x) <= b}
      /\ S = {x \in W : a < Rank(x) /\ Rank(x) <= b} \cap Own
  BY <1>1, <1>2, <1>5, <1>7 DEF Stores, PageOf
<1>9. \A x \in W : Rank(x) \in Int /\ 1 <= Rank(x) /\ Rank(x) <= Cardinality(W)
  BY <1>2, RankRange, FS_CardinalityType
<1>10. Cardinality(W) \in Nat
  BY <1>2, FS_CardinalityType
<1>11. \A t : t \in listed <=> t \in all \/ \E x \in S : t = <<page, x>>
  BY <1>7
<1>12. \A t \in listed : t[2] \in W /\ Rank(t[2]) <= b
  <2>1. ASSUME NEW t \in all PROVE t[2] \in W /\ Rank(t[2]) <= b
    BY <1>5, <1>6, <1>9
  <2>. QED
    BY <1>8, <1>11, <2>1
<1>13. ASSUME NEW t \in listed, NEW u \in listed, t[2] = u[2] PROVE t = u
  <2>1. ASSUME NEW x \in S, NEW v \in all PROVE x # v[2]
    BY <1>6, <1>8, <1>9, <2>1
  <2>. QED
    BY <1>6, <1>11, <1>13, <2>1
<1>14. ASSUME NEW x \in before, Rank(x) <= b PROVE x \in StoresOf(listed)
  <2>1. CASE Rank(x) <= a
    BY <1>6, <2>1, <1>11, <1>14 DEF StoresOf
  <2>2. CASE ~ (Rank(x) <= a)
    <3>1. x \in W /\ x \in Own
      BY <1>6
    <3>2. x \in S
      BY <1>8, <1>9, <1>14, <2>2, <3>1
    <3>3. <<page, x>> \in listed
      BY <1>11, <3>2
    <3>. QED
      BY <3>3 DEF StoresOf
  <2>. QED
    BY <2>1, <2>2
<1>15. ASSUME S = {} PROVE before \subseteq StoresOf(listed)
  <2>1. PageOf(page) = {}
    BY <1>3, <1>7, <1>15
  <2>2. ASSUME NEW x \in before, ~ (Rank(x) <= b) PROVE FALSE
    <3>1. a + 1 \in 1..Cardinality(W)
      BY <1>5, <1>6, <1>9, <1>10, <2>2
    <3>2. PICK y \in W : RankIn(W, y) = a + 1
      BY <1>2, <3>1, RankOnto
    <3>. QED
      BY <1>5, <1>8, <2>1, <3>2
  <2>. QED
    BY <1>14, <2>2
<1>16. ASSUME Cardinality(listed) >= Cardinality(W) PROVE before \subseteq StoresOf(listed)
  <2>. DEFINE f == [t \in listed |-> t[2]]
  <2>1. f \in Injection(listed, W)
    BY <1>12, <1>13 DEF Injection, IsInjective
  <2>2. Cardinality(listed) <= Cardinality(W) /\ IsFiniteSet(listed)
    <3>. HIDE DEF listed, f
    <3>. QED
      BY <1>2, <2>1, FS_Injection
  <2>3. Cardinality(listed) = Cardinality(W)
    <3>1. Cardinality(listed) \in Nat
      BY <2>2, FS_CardinalityType
    <3>. QED
      BY <1>10, <1>16, <2>2, <3>1
  <2>4. f \in Surjection(listed, W)
    <3>. HIDE DEF listed, f
    <3>. QED
      BY <1>2, <2>1, <2>3, FS_Injection
  <2>5. \A w \in W : \E t \in listed : t[2] = w
    BY <2>4 DEF Surjection
  <2>. QED
    BY <1>6, <2>5 DEF StoresOf
<1>17. ASSUME ~ told, Cardinality(S) < PageSize PROVE before \subseteq StoresOf(listed)
  <2>1. S = {x \in W : a < RankIn(W, x) /\ RankIn(W, x) <= b}
    BY <1>3, <1>7, <1>8, <1>17 DEF Stores
  <2>2. ~ (b <= Cardinality(W))
    <3>1. ASSUME b <= Cardinality(W) PROVE Cardinality(S) = b - a
      BY <1>2, <1>5, <2>1, <3>1, RankedBetween
    <3>. QED
      BY <1>5, <1>17, <3>1, AccountAssumption
  <2>3. \A x \in before : Rank(x) <= b
    BY <1>5, <1>6, <1>9, <1>10, <2>2
  <2>. QED
    BY <1>14, <2>3
<1>18. LastPage(S, listed) => before \subseteq StoresOf(listed)
  <2>. HIDE DEF listed
  <2>. QED
    BY <1>1, <1>15, <1>16, <1>17 DEF LastPage
<1>. QED
  BY <1>1, <1>5, <1>7, <1>12, <1>13, <1>14, <1>18

\* The listing ends with what it showed.
LEMMA ListedKeeps ==
  ASSUME AccountInv, forgetting = "list", NEW listed, listed \in SUBSET (Nat \X Store),
         \A t \in listed : state[t[2]] # "absent", Listed(listed), all' = listed, page' = page,
         UNCHANGED <<state, toldRetained, orders, told, before>>, calm' \in BOOLEAN,
         calm' => before \subseteq StoresOf(listed)
  PROVE  AccountInv'
<1>. USE DEF AccountInv
<1>1. orders = {} /\ With("forgotten") = {} /\ targets = {} /\ buckets = NoBuckets
  BY DEF Unsent
<1>2. UNCHANGED <<With("processed"), With("forgotten")>>
  BY DEF With
<1>3. StoresOf(listed) \subseteq Store
  BY DEF StoresOf
<1>4. /\ buckets' \in [{"forgotten", "kept", "rejected", "pending", "failed"} -> SUBSET Store]
      /\ buckets'["forgotten"] = {} /\ buckets'["kept"] = StoresOf(listed) \cap Keep
      /\ forgetting' = "send" /\ targets' = {t \in listed : t[2] \notin Keep}
  BY <1>1, <1>3 DEF Listed, NoBuckets
<1>5. AccountType'
  BY <1>1, <1>2, <1>4 DEF AccountType, Stages
<1>6. Numbered' /\ Unsent' /\ Ordered' /\ OneAwaited' /\ Ended' /\ Spared' /\ Accounted' /\ Listing'
  BY <1>1, <1>2, <1>4
     DEF Numbered, Unsent, Ordered, OneAwaited, Ended, Spared, Accounted, Listing
<1>7. Complete'
  BY <1>4 DEF Complete, StoresOf
<1>. QED
  BY <1>5, <1>6, <1>7

LEMMA ListUnreadKeeps ==
  ASSUME AccountInv, ListUnread PROVE AccountInv'
BY ListedKeeps DEF ListUnread, AccountInv, AccountType

LEMMA ListPageKeeps ==
  ASSUME AccountInv, ListPage PROVE AccountInv'
<1>. USE DEF AccountInv
<1>1. PICK listed : listed = all \cup {<<page, x>> : x \in Stores(page)}
  OBVIOUS
<1>2. /\ forgetting = "list" /\ all' = listed /\ (calm' => calm)
      /\ UNCHANGED <<state, toldRetained, orders, told, before>>
      /\ \/ LastPage(Stores(page), listed) /\ Listed(listed) /\ page' = page
         \/ page' = page + 1 /\ UNCHANGED <<forgetting, buckets, targets>>
  BY <1>1 DEF ListPage
<1>3. page \in Nat /\ page > 0 /\ calm' \in BOOLEAN
  BY <1>2 DEF Listing, AccountType, ListPage
<1>4. listed \in SUBSET (Nat \X Store) /\ \A t \in listed : state[t[2]] # "absent"
  <2>1. \A x \in Stores(page) : x \in Store /\ state[x] = "processed"
    BY DEF Stores, PageOf, With
  <2>. QED
    BY <1>1, <1>3, <2>1 DEF AccountType
<1>5. CASE LastPage(Stores(page), listed) /\ Listed(listed) /\ page' = page
  <2>1. calm' => before \subseteq StoresOf(listed)
    BY <1>1, <1>5, ListedSoFar
  <2>. QED
    BY <1>2, <1>3, <1>4, <1>5, <2>1, ListedKeeps
<1>6. CASE page' = page + 1 /\ UNCHANGED <<forgetting, buckets, targets>>
  <2>1. orders = {} /\ With("forgotten") = {} /\ targets = {} /\ buckets = NoBuckets
    BY <1>2 DEF Unsent
  <2>2. UNCHANGED <<With("processed"), With("forgotten")>> /\ \A x : Rank(x)' = Rank(x)
    BY <1>2 DEF With, Rank
  <2>3. AccountType'
    BY <1>2, <1>3, <1>4, <1>6, <2>1, <2>2 DEF AccountType
  <2>4. /\ Numbered' /\ Spared' /\ Unsent' /\ Ordered' /\ OneAwaited' /\ Accounted'
        /\ Complete' /\ Ended'
    BY <1>2, <1>6, <2>1, <2>2
       DEF Numbered, Spared, Unsent, Ordered, OneAwaited, Accounted, Complete, Ended
  <2>5. page' > 0 /\ page' - 1 = page
    BY <1>3, <1>6
  <2>6. calm' => /\ before = With("processed") \cap Own
                 /\ \A t \in listed : t[2] \in With("processed") /\ Rank(t[2]) <= page * PageSize
                 /\ \A t, u \in listed : t[2] = u[2] => t = u
                 /\ \A x \in before : Rank(x) <= page * PageSize => x \in StoresOf(listed)
    BY <1>1, <1>2, ListedSoFar DEF Listing
  <2>7. Listing'
    BY <1>2, <1>6, <2>2, <2>5, <2>6 DEF Listing
  <2>. QED
    BY <2>3, <2>4, <2>7
<1>. QED
  BY <1>2, <1>5, <1>6

LEMMA AccountSteps ==
  ASSUME AccountInv, [AccountNext]_acctVars PROVE AccountInv'
<1>1. CASE UNCHANGED acctVars
  <2>1. Numbered'
    BY <1>1 DEF acctVars, callVars, AccountInv, Numbered
  <2>. QED
    BY <1>1, <2>1, StoresCome DEF acctVars, callVars, AccountInv, AccountType
<1>2. ForeignStore => AccountInv'
  BY ForeignKeeps, AccountAssumption DEF ForeignStore
<1>. QED
  BY <1>1, <1>2, UploadsKeep, SettleStoreKeeps, ForgetStoresKeeps, ListPageKeeps, ListUnreadKeeps, ListFailsKeeps,
     SendForgetKeeps, WaitForMessageKeeps, SettleForgetKeeps DEF AccountNext

LEMMA AccountBegins ==
  AccountInit => AccountInv
<1>. SUFFICES ASSUME AccountInit PROVE AccountInv
  OBVIOUS
<1>1. AccountType
  BY AccountAssumption DEF AccountInit, AccountType, NoBuckets, Stages, With
<1>2. Numbered
  <2>1. PICK n \in 0..MaxStores : Present = 1..n
    BY AccountAssumption
  <2>2. \A x \in Store : state[x] = IF x \in Present THEN "processed" ELSE "absent"
    BY DEF AccountInit
  <2>3. \A x \in Store : x \in Present <=> x <= n
    BY <2>1 DEF Store
  <2>. QED
    BY <2>2, <2>3 DEF Numbered
<1>3. With("forgotten") = {}
  BY DEF AccountInit, With
<1>4. Spared /\ Unsent /\ Ordered /\ OneAwaited /\ Accounted /\ Listing /\ Complete /\ Ended
  BY <1>3 DEF AccountInit, NoBuckets, Spared, Unsent, Ordered, OneAwaited, Accounted, Listing, Complete, Ended
<1>. QED
  BY <1>1, <1>2, <1>4 DEF AccountInv

\* ForgetAccounts, for every page and batch size, owner, filter and fate of a FORGET.
THEOREM AccountsForgotten == AccountSpec => []ForgetAccounts
<1>1. AccountInv => ForgetAccounts
  <2>. SUFFICES ASSUME AccountInv PROVE ForgetAccounts
    OBVIOUS
  <2>. DEFINE sent == UNION {buckets[b] : b \in {"forgotten", "rejected", "pending", "failed"}}
  <2>. USE DEF AccountInv
  <2>1. sent = Answered \cup buckets["rejected"]
    BY DEF Answered
  <2>. HIDE DEF sent
  <2>2. Hashes \subseteq StoresOf(targets)
    BY BatchesAre DEF Hashes
  <2>3. buckets["forgotten"] \subseteq With("forgotten") /\ buckets["kept"] \cap With("forgotten") = {}
    BY DEF Accounted, Spared
  <2>4. \A x \in With("forgotten") : x \in Answered \/ x \in StoresOf(targets)
    BY <2>2 DEF Accounted
  <2>5. \A x \in buckets["rejected"] :
           (\A b \in {"forgotten", "pending", "failed"} : x \notin buckets[b])
             => state[x] # "forgotten" \/ x \in StoresOf(targets)
    <3>1. \A x \in buckets["rejected"] : x \in Store
      BY DEF AccountType
    <3>. QED
      BY <2>4, <3>1 DEF Answered, With
  <2>6. \A x \in toldRetained : state[x] = "processed" \/ x \in sent \cup StoresOf(targets)
    BY <2>1, <2>4 DEF AccountType, With
  <2>7. /\ forgetting = "done" => StoresOf(all) \subseteq sent \cup buckets["kept"]
        /\ forgetting = "done" /\ calm => before \subseteq StoresOf(all)
    BY <2>1 DEF Complete, Ended, StoresOf
  <2>. QED
    BY <2>1, <2>3, <2>4, <2>5, <2>6, <2>7 DEF ForgetAccounts, sent
<1>. QED
  BY <1>1, AccountBegins, AccountSteps, PTL DEF AccountSpec

-----------------------------------------------------------------------------
(* The Alice-and-Bob pages: NoNodeLeaks and HandlesOpen, for every number of *)
(* nodes, cleanups and rejections.  Neither is inductive.  A node is between  *)
(* its start and its hand-over where the function that made it is between    *)
(* the two awaits, so the invariant says of each actor that what it has yet  *)
(* to do is in the order its page gives (a sequence property, proved of every *)
(* function of PageFunctions), and of each await what its function works on. *)

Step == {"shared", "both", "own", "start", "orbit", "orbit held", "open", "undeclared",
         "ready", "dial", "verify", "open shared", "show", "put", "check", "peek", "backup",
         "restore entries", "restore", "restore kept", "show restored",
         "close alice", "halt alice", "stop alice", "close bob", "halt bob", "stop bob", "clear"}
Nodeless == {"shared", "both", "own", "start"}
Making   == {"orbit", "orbit held", "open", "undeclared"}
Lent     == GivenOrbit \cup {"show restored"}
Onwards  == {"ready", "dial", "verify", "open shared", "show", "put", "check"}

Then(s, t) ==
  \/ s \in {"shared", "both", "own"} /\ t = "start"
  \/ s = "start" /\ t \in {"orbit", "orbit held", "undeclared"}
  \/ s = "orbit" /\ t = "open"
  \/ s \in {"restore entries", "restore"} /\ t = "show restored"
  \/ s \in Onwards \cup {"orbit held", "peek", "restore kept"} /\ t \in Onwards
  \/ s = "close alice" /\ t = "halt alice"
  \/ s = "halt alice" /\ t = "stop alice"
  \/ s = "stop alice" /\ t = "close bob"
  \/ s = "close bob" /\ t = "halt bob"
  \/ s = "halt bob" /\ t = "stop bob"
  \/ s = "stop bob" /\ t = "clear"
Ends == {"open", "undeclared", "backup", "show restored", "show", "clear"}

Course(q, a, b) ==
  /\ q \in Seq(Step) /\ Len(q) > 0
  /\ q[1] = a /\ q[Len(q)] = b
  /\ \A i \in 1..(Len(q) - 1) : Then(q[i], q[i + 1])
InOrder(q) == q = <<>> \/ (\E a \in Step : \E b \in Ends : Course(q, a, b))

\* One, two or three steps are a sequence of steps.
LEMMA ShortWords ==
  /\ \A a \in Step : <<a>> \in Seq(Step)
  /\ \A a, b \in Step : <<a, b>> \in Seq(Step)
  /\ \A a, b, c \in Step : <<a, b, c>> \in Seq(Step)
<1>1. \A n \in Nat : \A q \in [1..n -> Step] : q \in Seq(Step)
  OBVIOUS
<1>2. ASSUME NEW a \in Step  PROVE <<a>> \in [1..1 -> Step]
  <2>1. <<a>> = [i \in 1..1 |-> <<a>>[i]]  OBVIOUS
  <2>2. <<a>>[1] \in Step /\ \A i \in 1..1 : i = 1  OBVIOUS
  <2>. QED BY <2>1, <2>2
<1>3. ASSUME NEW a \in Step, NEW b \in Step  PROVE <<a, b>> \in [1..2 -> Step]
  <2>1. <<a, b>> = [i \in 1..2 |-> <<a, b>>[i]]  OBVIOUS
  <2>2. /\ <<a, b>>[1] \in Step /\ <<a, b>>[2] \in Step
        /\ \A i \in 1..2 : i = 1 \/ i = 2
    OBVIOUS
  <2>. QED BY <2>1, <2>2
<1>4. ASSUME NEW a \in Step, NEW b \in Step, NEW c \in Step
      PROVE  <<a, b, c>> \in [1..3 -> Step]
  <2>1. <<a, b, c>> = [i \in 1..3 |-> <<a, b, c>>[i]]  OBVIOUS
  <2>2. /\ <<a, b, c>>[1] \in Step /\ <<a, b, c>>[2] \in Step /\ <<a, b, c>>[3] \in Step
        /\ \A i \in 1..3 : i = 1 \/ i = 2 \/ i = 3
    OBVIOUS
  <2>. QED BY <2>1, <2>2
<1>. QED BY <1>1, <1>2, <1>3, <1>4

\* They are a course if each may be followed by the next.
LEMMA ShortPaths ==
  /\ \A a \in Step : Course(<<a>>, a, a)
  /\ \A a, b \in Step : Then(a, b) => Course(<<a, b>>, a, b)
  /\ \A a, b, c \in Step : Then(a, b) /\ Then(b, c) => Course(<<a, b, c>>, a, c)
<1>1. ASSUME NEW a \in Step  PROVE Course(<<a>>, a, a)
  <2>1. Len(<<a>>) = 1 /\ <<a>>[1] = a  OBVIOUS
  <2>. QED BY <2>1, ShortWords DEF Course
<1>2. ASSUME NEW a \in Step, NEW b \in Step, Then(a, b)  PROVE Course(<<a, b>>, a, b)
  <2>1. Len(<<a, b>>) = 2 /\ <<a, b>>[1] = a /\ <<a, b>>[2] = b /\ \A i \in 1..1 : i = 1
    OBVIOUS
  <2>. QED BY <1>2, <2>1, ShortWords DEF Course
<1>3. ASSUME NEW a \in Step, NEW b \in Step, NEW c \in Step, Then(a, b), Then(b, c)
      PROVE  Course(<<a, b, c>>, a, c)
  <2>1. /\ Len(<<a, b, c>>) = 3 /\ <<a, b, c>>[1] = a /\ <<a, b, c>>[2] = b
        /\ <<a, b, c>>[3] = c /\ \A i \in 1..2 : i = 1 \/ i = 2
    OBVIOUS
  <2>. QED BY <1>3, <2>1, ShortWords DEF Course
<1>. QED BY <1>1, <1>2, <1>3

\* A course has a first step.
LEMMA PathBegins ==
  ASSUME NEW q, NEW a, NEW b, Course(q, a, b)
  PROVE  q \in Seq(Step) /\ q # <<>> /\ Head(q) = a
<1>1. q \in Seq(Step) /\ Len(q) > 0 /\ q[1] = a  BY DEF Course
<1>2. q # <<>>
  <2>1. \A t : Len(t) > 0 => t # <<>>
    <3>1. Len(<<>>) = 0  OBVIOUS
    <3>. QED BY <3>1
  <2>. QED BY <1>1, <2>1
<1>. QED BY <1>1, <1>2

\* Two courses, the second of which may follow the first, are one.
LEMMA PathsJoin ==
  ASSUME NEW s, NEW t, NEW a, NEW b, NEW c, NEW d,
         Course(s, a, b), Course(t, c, d), Then(b, c)
  PROVE  Course(s \o t, a, d)
<1>1. /\ s \o t \in Seq(Step) /\ Len(s \o t) = Len(s) + Len(t)
      /\ \A i \in 1..(Len(s) + Len(t)) :
           (s \o t)[i] = IF i <= Len(s) THEN s[i] ELSE t[i - Len(s)]
  BY ConcatProperties DEF Course
<1>2. ASSUME NEW i \in 1..(Len(s \o t) - 1)  PROVE Then((s \o t)[i], (s \o t)[i + 1])
  <2>0. Len(s) \in Nat \ {0} /\ Len(t) \in Nat \ {0}  BY DEF Course
  <2>1. CASE i < Len(s)
    BY <1>1, <2>0, <2>1 DEF Course
  <2>2. CASE i = Len(s)
    BY <1>1, <2>0, <2>2 DEF Course
  <2>3. CASE i > Len(s)
    <3>1. i - Len(s) \in 1..(Len(t) - 1)  BY <1>1, <2>0, <2>3
    <3>2. (s \o t)[i] = t[i - Len(s)] /\ (s \o t)[i + 1] = t[(i - Len(s)) + 1]
      BY <1>1, <2>0, <2>3
    <3>. QED BY <3>1, <3>2 DEF Course
  <2>. QED BY <2>0, <2>1, <2>2, <2>3, <1>1
<1>. QED BY <1>1, <1>2 DEF Course

\* What is left when the first step is made: it may follow the step, or the step
\* was one that ends.
LEMMA InOrderTail ==
  ASSUME NEW q, InOrder(q), q # <<>>
  PROVE  /\ InOrder(Tail(q)) /\ Head(q) \in Step
         /\ \/ Tail(q) = <<>> /\ Head(q) \in Ends
            \/ Tail(q) # <<>> /\ Then(Head(q), Head(Tail(q)))
<1>1. PICK a \in Step, b \in Ends : Course(q, a, b)  BY DEF InOrder
<1>2. q \in Seq(Step) /\ Len(q) \in Nat /\ Len(q) > 0 /\ Head(q) = q[1] /\ q[1] \in Step
  BY <1>1 DEF Course
<1>3. /\ Tail(q) \in Seq(Step) /\ Len(Tail(q)) = Len(q) - 1
      /\ \A i \in 1..Len(Tail(q)) : Tail(q)[i] = q[i + 1]
  BY <1>2, HeadTailProperties
<1>4. CASE Len(q) = 1
  <2>0. Len(Tail(q)) = 0  BY <1>3, <1>4
  <2>1. Tail(q) = <<>>  BY <1>3, <2>0, EmptySeq
  <2>. QED BY <1>1, <1>2, <1>4, <2>1 DEF Course, InOrder
<1>5. CASE Len(q) > 1
  <2>9. 1 \in 1..Len(Tail(q)) /\ 2 \in 1..Len(q) /\ Len(Tail(q)) > 0  BY <1>2, <1>3, <1>5
  <2>10. Tail(q)[1] = q[1 + 1]  BY <1>3, <2>9
  <2>11. q[2] \in Step  BY <1>2, <2>9, ElementOfSeq
  <2>1. Len(Tail(q)) > 0 /\ Tail(q)[1] = q[2] /\ q[2] \in Step
    BY <2>9, <2>10, <2>11
  <2>12. \A t : Len(t) > 0 => t # <<>>
    <3>1. Len(<<>>) = 0  OBVIOUS
    <3>. QED BY <3>1
  <2>7. Tail(q) # <<>>  BY <2>9, <2>12
  <2>2. Head(Tail(q)) = q[2]
    BY <1>3, <2>1, <2>7
  <2>3. Then(q[1], q[2])  BY <1>1, <1>2, <1>5 DEF Course
  <2>4. Tail(q)[Len(Tail(q))] = b  BY <1>1, <1>2, <1>3, <1>5 DEF Course
  <2>5. \A i \in 1..(Len(Tail(q)) - 1) : Then(Tail(q)[i], Tail(q)[i + 1])
    BY <1>1, <1>2, <1>3, <1>5 DEF Course
  <2>6. Course(Tail(q), q[2], b)
    BY <1>3, <2>1, <2>4, <2>5 DEF Course
  <2>8. InOrder(Tail(q))  BY <1>1, <2>1, <2>6 DEF InOrder
  <2>. QED BY <1>2, <2>2, <2>3, <2>7, <2>8
<1>6. Len(q) = 1 \/ Len(q) > 1
  <2>1. \A n \in Nat : n > 0 => n = 1 \/ n > 1  OBVIOUS
  <2>. QED BY <1>2, <2>1
<1>. QED BY <1>4, <1>5, <1>6

\* What is asked for before a function makes its first await, a.
Down == [alice |-> "alice down", bob |-> "bob down"]
Fits(d, p, q, wanted) ==
  \E a \in Step \ (Making \cup {"show restored"}), b \in Ends :
    /\ Course(q, a, b)
    /\ a \in Nodeless => Down[p] \in wanted
    /\ p = "bob" /\ a \in GivenOrbit => "bob up" \in wanted
    /\ a = "restore" => d = "simple"

\* The functions the pages share, createOrbitDBInstance among them, are courses.
LEMMA Instances ==
  /\ \A a \in {"shared", "both", "own"} :
       Course(<<a>> \o <<"start", "orbit", "open">>, a, "open")
  /\ Course(<<"both">> \o (<<"start">> \o <<"orbit", "open">>), "both", "open")
  /\ Course(<<"shared">> \o <<"start", "undeclared">>, "shared", "undeclared")
  /\ Course(<<"put", "show">>, "put", "show")
  /\ Course(<<"backup">>, "backup", "backup")
  /\ Course(<<"restore entries", "show restored">>, "restore entries", "show restored")
  /\ Course(<<"restore", "show restored">>, "restore", "show restored")
  /\ Course(<<"restore kept", "show">>, "restore kept", "show")
<1>1. /\ Then("start", "orbit") /\ Then("orbit", "open") /\ Then("start", "undeclared")
      /\ Then("put", "show") /\ Then("restore entries", "show restored")
      /\ Then("restore", "show restored") /\ Then("restore kept", "show")
      /\ \A a \in {"shared", "both", "own"} : Then(a, "start")
  BY DEF Then, Onwards
<1>2. {"shared", "both", "own", "start", "orbit", "open", "undeclared", "put", "show", "backup",
       "restore entries", "restore", "restore kept", "show restored"} \subseteq Step
  BY DEF Step
<1>3. Course(<<"start", "orbit", "open">>, "start", "open")
  BY <1>1, <1>2, ShortPaths
<1>4. Course(<<"start", "undeclared">>, "start", "undeclared")
  BY <1>1, <1>2, ShortPaths
<1>5. \A a \in {"shared", "both", "own"} : Course(<<a>>, a, a)
  BY <1>2, ShortPaths
<1>6. ASSUME NEW a \in {"shared", "both", "own"}
      PROVE  Course(<<a>> \o <<"start", "orbit", "open">>, a, "open")
  BY <1>1, <1>3, <1>5, PathsJoin
<1>7. Course(<<"shared">> \o <<"start", "undeclared">>, "shared", "undeclared")
  BY <1>1, <1>4, <1>5, PathsJoin
<1>8. Course(<<"start">>, "start", "start") /\ Course(<<"orbit", "open">>, "orbit", "open")
  BY <1>1, <1>2, ShortPaths
<1>9. Course(<<"start">> \o <<"orbit", "open">>, "start", "open")
  BY <1>1, <1>8, PathsJoin
<1>10. Course(<<"both">> \o (<<"start">> \o <<"orbit", "open">>), "both", "open")
  BY <1>1, <1>5, <1>9, PathsJoin
<1>. QED BY <1>1, <1>2, <1>6, <1>7, <1>10, ShortPaths

\* initializeBob of the replication page is a course.
LEMMA BobsNode ==
  Course(<<"start">> \o <<"orbit held">> \o <<"ready">> \o <<"dial">> \o <<"verify">>
       \o <<"open shared">> \o <<"show">>, "start", "show")
<1>1. /\ Then("start", "orbit held") /\ Then("orbit held", "ready") /\ Then("ready", "dial")
      /\ Then("dial", "verify") /\ Then("verify", "open shared") /\ Then("open shared", "show")
  BY DEF Then, Onwards
<1>0. {"start", "orbit held", "ready", "dial", "verify", "open shared", "show"} \subseteq Step
  BY DEF Step
<1>2. \A a \in {"start", "orbit held", "ready", "dial", "verify", "open shared", "show"} :
        Course(<<a>>, a, a)
  BY <1>0, ShortPaths
<1>3. Course(<<"start">> \o <<"orbit held">>, "start", "orbit held")
  BY <1>1, <1>2, PathsJoin
<1>4. Course(<<"start">> \o <<"orbit held">> \o <<"ready">>, "start", "ready")
  BY <1>1, <1>2, <1>3, PathsJoin
<1>5. Course(<<"start">> \o <<"orbit held">> \o <<"ready">> \o <<"dial">>, "start", "dial")
  BY <1>1, <1>2, <1>4, PathsJoin
<1>6. Course(<<"start">> \o <<"orbit held">> \o <<"ready">> \o <<"dial">> \o <<"verify">>, "start", "verify")
  BY <1>1, <1>2, <1>5, PathsJoin
<1>7. Course(<<"start">> \o <<"orbit held">> \o <<"ready">> \o <<"dial">> \o <<"verify">>
           \o <<"open shared">>, "start", "open shared")
  BY <1>1, <1>2, <1>6, PathsJoin
<1>. QED BY <1>1, <1>2, <1>7, PathsJoin

\* addBobTodo of the replication page is a course.
LEMMA BobsTodo == Course(<<"peek", "put">> \o <<"check">> \o <<"show">>, "peek", "show")
<1>1. Then("peek", "put") /\ Then("put", "check") /\ Then("check", "show")
  BY DEF Then, Onwards
<1>0. {"peek", "put", "check", "show"} \subseteq Step
  BY DEF Step
<1>2. Course(<<"peek", "put">>, "peek", "put") /\ Course(<<"check">>, "check", "check")
      /\ Course(<<"show">>, "show", "show")
  BY <1>0, <1>1, ShortPaths
<1>3. Course(<<"peek", "put">> \o <<"check">>, "peek", "check")
  BY <1>1, <1>2, PathsJoin
<1>. QED BY <1>1, <1>2, <1>3, PathsJoin

\* So is cleanup(), and what a rejection in it leaves to be done.
LEMMA TheStops ==
  /\ Course(AfterStops.bob, "clear", "clear")
  /\ Course(AfterStops.alice, "close bob", "clear")
  /\ Course(Stops.alice \o AfterStops.alice, "close alice", "clear")
<1>1. /\ Then("close alice", "halt alice") /\ Then("halt alice", "stop alice")
      /\ Then("stop alice", "close bob") /\ Then("close bob", "halt bob")
      /\ Then("halt bob", "stop bob") /\ Then("stop bob", "clear")
  BY DEF Then
<1>2. /\ Course(<<"close alice", "halt alice", "stop alice">>, "close alice", "stop alice")
      /\ Course(<<"close bob", "halt bob", "stop bob">>, "close bob", "stop bob")
      /\ Course(<<"clear">>, "clear", "clear")
  BY <1>1, ShortPaths DEF Step
<1>3. Course(<<"close bob", "halt bob", "stop bob">> \o <<"clear">>, "close bob", "clear")
  BY <1>1, <1>2, PathsJoin
<1>4. /\ Stops.alice = <<"close alice", "halt alice", "stop alice">>
      /\ AfterStops.alice = <<"close bob", "halt bob", "stop bob">> \o <<"clear">>
      /\ AfterStops.bob = <<"clear">>
  BY DEF Stops, AfterStops
<1>5. Course(AfterStops.alice, "close bob", "clear")  BY <1>3, <1>4
<1>6. Course(Stops.alice \o AfterStops.alice, "close alice", "clear")
  BY <1>1, <1>2, <1>4, <1>5, PathsJoin
<1>. QED BY <1>2, <1>4, <1>5, <1>6

\* Every function fits its button, on every page.
ButtonsFit(d) ==
  \A p \in Persona : \A f \in DOMAIN Pages[d].buttons[p] :
    Fits(d, p, Pages[d].functions[f].does, Pages[d].buttons[p][f] \cup Pages[d].functions[f].asks)

\* What a button or a function has to ask for, by the first step it makes.
LEMMA FitFacts ==
  ASSUME NEW d, NEW wanted
  PROVE  /\ "alice down" \in wanted =>
              /\ Fits(d, "alice", <<"shared">> \o <<"start", "orbit", "open">>, wanted)
              /\ Fits(d, "alice", <<"both">> \o (<<"start">> \o <<"orbit", "open">>), wanted)
              /\ Fits(d, "alice", <<"shared">> \o <<"start", "undeclared">>, wanted)
         /\ \A p \in Persona : Fits(d, p, <<"put", "show">>, wanted)
         /\ Fits(d, "alice", <<"backup">>, wanted)
         /\ "bob down" \in wanted => Fits(d, "bob", <<"own">> \o <<"start", "orbit", "open">>, wanted)
         /\ "bob up" \in wanted =>
              /\ Fits(d, "bob", <<"restore entries", "show restored">>, wanted)
              /\ d = "simple" => Fits(d, "bob", <<"restore", "show restored">>, wanted)
              /\ Fits(d, "bob", <<"restore kept", "show">>, wanted)
         /\ "bob down" \in wanted =>
              Fits(d, "bob", <<"start">> \o <<"orbit held">> \o <<"ready">> \o <<"dial">>
                             \o <<"verify">> \o <<"open shared">> \o <<"show">>, wanted)
         /\ Fits(d, "bob", <<"peek", "put">> \o <<"check">> \o <<"show">>, wanted)
<1>1. {"shared", "both", "own", "start", "put", "backup", "peek", "restore entries", "restore",
       "restore kept"} \subseteq Step \ (Making \cup {"show restored"})
  BY DEF Step, Making
<1>2. {"open", "undeclared", "show", "backup", "show restored"} \subseteq Ends
  BY DEF Ends
<1>3. /\ {"put", "backup", "peek", "restore entries", "restore", "restore kept"} \cap Nodeless = {}
      /\ {"shared", "both", "own", "start", "put", "peek"} \cap GivenOrbit = {}
  BY DEF Nodeless, GivenOrbit
<1>4. Down["alice"] = "alice down" /\ Down["bob"] = "bob down"
  BY DEF Down
<1>5. "alice down" \in wanted =>
        /\ Fits(d, "alice", <<"shared">> \o <<"start", "orbit", "open">>, wanted)
        /\ Fits(d, "alice", <<"both">> \o (<<"start">> \o <<"orbit", "open">>), wanted)
        /\ Fits(d, "alice", <<"shared">> \o <<"start", "undeclared">>, wanted)
  BY <1>1, <1>2, <1>3, <1>4, Instances DEF Fits
<1>6. \A p \in Persona : Fits(d, p, <<"put", "show">>, wanted)
  BY <1>1, <1>2, <1>3, Instances DEF Fits
<1>7. Fits(d, "alice", <<"backup">>, wanted)
  BY <1>1, <1>2, <1>3, Instances DEF Fits
<1>8. "bob down" \in wanted => Fits(d, "bob", <<"own">> \o <<"start", "orbit", "open">>, wanted)
  BY <1>1, <1>2, <1>3, <1>4, Instances DEF Fits
<1>9. "bob up" \in wanted => Fits(d, "bob", <<"restore entries", "show restored">>, wanted)
  BY <1>1, <1>2, <1>3, Instances DEF Fits
<1>10. "bob up" \in wanted /\ d = "simple" => Fits(d, "bob", <<"restore", "show restored">>, wanted)
  BY <1>1, <1>2, <1>3, Instances DEF Fits
<1>11. "bob up" \in wanted => Fits(d, "bob", <<"restore kept", "show">>, wanted)
  BY <1>1, <1>2, <1>3, Instances DEF Fits
<1>12. "bob down" \in wanted =>
         Fits(d, "bob", <<"start">> \o <<"orbit held">> \o <<"ready">> \o <<"dial">>
                        \o <<"verify">> \o <<"open shared">> \o <<"show">>, wanted)
  BY <1>1, <1>2, <1>3, <1>4, BobsNode DEF Fits
<1>13. Fits(d, "bob", <<"peek", "put">> \o <<"check">> \o <<"show">>, wanted)
  BY <1>1, <1>2, <1>3, BobsTodo DEF Fits
<1>. QED BY <1>5, <1>6, <1>7, <1>8, <1>9, <1>10, <1>11, <1>12, <1>13

\* Three pages have the same buttons, and but for Bob's restore the same functions.
CommonButtons ==
  [alice |-> [initializeAlice |-> {"login", "alice down"},
              addTodos |-> {"alice database", "no todos shown"},
              backupAlice |-> {"login", "todos shown", "no backup"}],
   bob |-> [initializeBob |-> {"login", "backup", "bob down"},
            restoreBob |-> {"login", "bob up", "not restored"}]]
CommonFunctions(restore) ==
  [initializeAlice |-> [asks |-> {"login"}, does |-> <<"shared">> \o <<"start", "orbit", "open">>],
   addTodos |-> [asks |-> {"alice database"}, does |-> <<"put", "show">>],
   backupAlice |-> [asks |-> {"login", "alice database"}, does |-> <<"backup">>],
   initializeBob |-> [asks |-> {"login", "backup"},
                      does |-> <<"own">> \o <<"start", "orbit", "open">>],
   restoreBob |-> [asks |-> {"login", "bob up", "backup"},
                   does |-> <<restore, "show restored">>]]

\* The functions of the three pages that differ in their identities only.
LEMMA CommonFits ==
  ASSUME NEW d, NEW r \in {"restore entries", "restore"}, r = "restore" => d = "simple",
         Pages[d].buttons = CommonButtons, Pages[d].functions = CommonFunctions(r)
  PROVE  ButtonsFit(d)
<1>. DEFINE Body(f) == CommonFunctions(r)[f].does
            Wants(p, f) == CommonButtons[p][f] \cup CommonFunctions(r)[f].asks
<1>1. Fits(d, "alice", Body("initializeAlice"), Wants("alice", "initializeAlice"))
  <2>1. Body("initializeAlice") = <<"shared">> \o <<"start", "orbit", "open">>
    BY DEF CommonFunctions
  <2>2. "alice down" \in Wants("alice", "initializeAlice")  BY DEF CommonButtons
  <2>. QED BY <2>1, <2>2, FitFacts
<1>2. Fits(d, "alice", Body("addTodos"), Wants("alice", "addTodos"))
  BY FitFacts DEF CommonFunctions, Persona
<1>3. Fits(d, "alice", Body("backupAlice"), Wants("alice", "backupAlice"))
  BY FitFacts DEF CommonFunctions
<1>4. Fits(d, "bob", Body("initializeBob"), Wants("bob", "initializeBob"))
  <2>1. Body("initializeBob") = <<"own">> \o <<"start", "orbit", "open">>
    BY DEF CommonFunctions
  <2>2. "bob down" \in Wants("bob", "initializeBob")  BY DEF CommonButtons
  <2>. QED BY <2>1, <2>2, FitFacts
<1>5. Fits(d, "bob", Body("restoreBob"), Wants("bob", "restoreBob"))
  <2>1. Body("restoreBob") = <<r, "show restored">>  BY DEF CommonFunctions
  <2>2. "bob up" \in Wants("bob", "restoreBob")  BY DEF CommonButtons
  <2>. QED BY <2>1, <2>2, FitFacts
<1>6. \A f \in DOMAIN CommonButtons["alice"] : f \in {"initializeAlice", "addTodos", "backupAlice"}
  BY DEF CommonButtons
<1>7. \A f \in DOMAIN CommonButtons["bob"] : f \in {"initializeBob", "restoreBob"}
  BY DEF CommonButtons
<1>8. \A p \in Persona : \A f \in DOMAIN CommonButtons[p] : Fits(d, p, Body(f), Wants(p, f))
  <2>. HIDE DEF Body, Wants
  <2>. QED BY <1>1, <1>2, <1>3, <1>4, <1>5, <1>6, <1>7 DEF Persona
<1>. QED BY <1>8 DEF ButtonsFit

\* StorachaTest, StorachaTestWithWebAuthn and BackupRestoreDemo.
LEMMA ThreeFit == ButtonsFit("todo") /\ ButtonsFit("webauthn") /\ ButtonsFit("simple")
<1>1. /\ Pages["todo"].buttons = CommonButtons
      /\ Pages["todo"].functions = CommonFunctions("restore entries")
  BY DEF Pages, TodoPage, CommonButtons, CommonFunctions, TodoAliceButtons, TodoBobButtons,
     TodoInitializeAlice, TodoAddTodos, TodoBackupAlice, TodoInitializeBob, TodoRestoreBob,
     TodoCreateInstance
<1>2. /\ Pages["webauthn"].buttons = CommonButtons
      /\ Pages["webauthn"].functions = CommonFunctions("restore entries")
  BY DEF Pages, WebAuthnPage, CommonButtons, CommonFunctions, WebAuthnAliceButtons,
     WebAuthnBobButtons, WebAuthnInitializeAlice, WebAuthnAddTodos, WebAuthnBackupAlice,
     WebAuthnInitializeBob, WebAuthnRestoreBob, WebAuthnCreateInstance
<1>3. /\ Pages["simple"].buttons = CommonButtons
      /\ Pages["simple"].functions = CommonFunctions("restore")
  BY DEF Pages, SimplePage, CommonButtons, CommonFunctions, SimpleAliceButtons, SimpleBobButtons,
     SimpleInitializeAlice, SimpleAddTodos, SimpleBackupAlice, SimpleInitializeBob,
     SimpleRestoreBob, SimpleCreateInstance
<1>. QED BY <1>1, <1>2, <1>3, CommonFits

\* ReplicationDemo: initializeBob starts a node before it needs a backup.
LEMMA ReplicationFits == ButtonsFit("replication")
<1>1. Pages["replication"] = ReplicationPage  BY DEF Pages
<1>. DEFINE Fn == ReplicationPage.functions
            Row == ReplicationPage.buttons
            Fit(p, f) == Fits("replication", p, Fn[f].does, Row[p][f] \cup Fn[f].asks)
<1>2. Fit("alice", "initializeAlice")
  <2>1. Fn["initializeAlice"].does = <<"both">> \o (<<"start">> \o <<"orbit", "open">>)
    BY DEF ReplicationPage, ReplicationInitializeAlice, ReplicationCreateInstance,
       ReplicationNode, ReplicationDatabase, Persona
  <2>2. "alice down" \in Row["alice"]["initializeAlice"]
    BY DEF ReplicationPage, ReplicationAliceButtons
  <2>. QED BY <2>1, <2>2, FitFacts
<1>3. Fit("alice", "addTodos")
  <2>1. Fn["addTodos"].does = <<"put", "show">>
    BY DEF ReplicationPage, ReplicationAddTodos
  <2>. QED BY <2>1, FitFacts DEF Persona
<1>4. Fit("alice", "backupAlice")
  <2>1. Fn["backupAlice"].does = <<"backup">>
    BY DEF ReplicationPage, ReplicationBackupAlice
  <2>. QED BY <2>1, FitFacts
<1>5. Fit("bob", "initializeBob")
  <2>1. Fn["initializeBob"].does = <<"start">> \o <<"orbit held">> \o <<"ready">> \o <<"dial">>
                                   \o <<"verify">> \o <<"open shared">> \o <<"show">>
    BY DEF ReplicationPage, ReplicationInitializeBob, ReplicationCreateInstance, ReplicationNode,
       ReplicationDatabase, ReplicationDial, ReplicationVerify, ReplicationOpenShared, Persona
  <2>2. "bob down" \in Row["bob"]["initializeBob"]
    BY DEF ReplicationPage, ReplicationBobButtons
  <2>. QED BY <2>1, <2>2, FitFacts
<1>6. Fit("bob", "restoreBob")
  <2>1. Fn["restoreBob"].does = <<"restore kept", "show">>
    BY DEF ReplicationPage, ReplicationRestoreBob
  <2>2. "bob up" \in Row["bob"]["restoreBob"]
    BY DEF ReplicationPage, ReplicationBobButtons
  <2>. QED BY <2>1, <2>2, FitFacts
<1>7. Fit("bob", "addBobTodo")
  <2>1. Fn["addBobTodo"].does = <<"peek", "put">> \o <<"check">> \o <<"show">>
    BY DEF ReplicationPage, ReplicationAddBobTodo, ReplicationCheck
  <2>. QED BY <2>1, FitFacts
<1>8. \A f \in DOMAIN Row["alice"] : f \in {"initializeAlice", "addTodos", "backupAlice"}
  BY DEF ReplicationPage, ReplicationAliceButtons
<1>9. \A f \in DOMAIN Row["bob"] : f \in {"initializeBob", "restoreBob", "addBobTodo"}
  BY DEF ReplicationPage, ReplicationBobButtons
<1>10. \A p \in Persona : \A f \in DOMAIN Row[p] : Fit(p, f)
  <2>. HIDE DEF Fit, Row, Fn
  <2>. QED BY <1>2, <1>3, <1>4, <1>5, <1>6, <1>7, <1>8, <1>9 DEF Persona
<1>. QED BY <1>1, <1>10 DEF ButtonsFit

\* StorachaTestWithReplication, whose initialize functions break off.
LEMMA UndeclaredFits == ButtonsFit("undeclared")
<1>1. Pages["undeclared"] = UndeclaredPage  BY DEF Pages
<1>2. UndeclaredPage.functions["initializeAlice"].does = <<"shared">> \o <<"start", "undeclared">>
  BY DEF UndeclaredPage, UndeclaredInitializeAlice, UndeclaredCreateInstance
<1>3. /\ "alice down" \in UndeclaredPage.buttons["alice"]["initializeAlice"]
      /\ DOMAIN UndeclaredPage.buttons["alice"] = {"initializeAlice"}
  BY DEF UndeclaredPage, UndeclaredAliceButton
<1>4. DOMAIN UndeclaredPage.buttons["bob"] = {}
  <2>1. UndeclaredPage.buttons["bob"] = <<>>  BY DEF UndeclaredPage
  <2>2. DOMAIN <<>> = {}  OBVIOUS
  <2>. QED BY <2>1, <2>2
<1>. QED BY <1>1, <1>2, <1>3, <1>4, FitFacts DEF ButtonsFit, Persona

\* Every function of every page fits its button, and every cleanup is the same.
LEMMA PagesFit ==
  ASSUME NEW d \in DOMAIN Pages
  PROVE  ButtonsFit(d) /\ Pages[d].cleanup = Stops.alice \o AfterStops.alice
<1>1. d \in {"todo", "webauthn", "simple", "replication", "undeclared"}
  BY DEF Pages
<1>2. Pages[d].cleanup = Stops.alice \o AfterStops.alice
  <2>1. CASE d = "todo"         BY <2>1 DEF Pages, TodoPage, TodoCleanup
  <2>2. CASE d = "webauthn"     BY <2>2 DEF Pages, WebAuthnPage, WebAuthnCleanup
  <2>3. CASE d = "simple"       BY <2>3 DEF Pages, SimplePage, SimpleCleanup
  <2>4. CASE d = "replication"  BY <2>4 DEF Pages, ReplicationPage, ReplicationCleanup
  <2>5. CASE d = "undeclared"   BY <2>5 DEF Pages, UndeclaredPage, UndeclaredCleanup
  <2>. QED BY <1>1, <2>1, <2>2, <2>3, <2>4, <2>5
<1>. QED BY <1>1, <1>2, ThreeFit, ReplicationFits, UndeclaredFits

Origin    == {"none", "alice", "bob", "stored"}
HandleSet == [node : Node \cup {NoNode}, nth : 0..2]
PagesTypeOK ==
  /\ demo \in DOMAIN Pages /\ overlap \in BOOLEAN
  /\ pc \in [Actor -> Seq(Step)] /\ \A w \in Actor : InOrder(pc[w])
  /\ at \in [Persona -> Node \cup {NoNode}]
  /\ hold \in [Persona -> Node \cup {NoNode}]
  /\ db \in [Persona -> HandleSet]
  /\ nodes \in [Node -> [by : Persona \cup {"nobody"}, up : BOOLEAN, of : Origin]]
  /\ ident \in [Persona -> Origin]

\* A node belongs to the persona that started it.
Owned(p) == \A n \in {at[p], hold[p]} \ {NoNode} : nodes[n].by = p

\* What a function works on goes by the await it is at; until its OrbitDB is
\* made, a node's database is named for a persona.
Working(p) ==
  /\ Due(p) \in Nodeless => at[p] = NoNode /\ hold[p] = NoNode
  /\ Due(p) \in Making => at[p] # NoNode /\ hold[p] = NoNode
  /\ Due(p) \in {"orbit", "orbit held"} => nodes[at[p]].of \in Persona
  /\ Due(p) \in Lent /\ ~overlap => at[p] = hold[p] /\ (p = "bob" => at[p] # NoNode)
  /\ Due(p) \notin Making \cup Lent => at[p] = NoNode
  /\ Due(p) = "restore" => demo = "simple"

OneAtATime == ~overlap => Idle("cleanup") \/ \A p \in Persona : Idle(p)

\* A persona whose stops are past holds nothing that runs.
Past == [alice |-> {"close bob", "halt bob", "stop bob", "clear"}, bob |-> {"clear"}]
Stopped(p) == ~overlap /\ Due("cleanup") \in Past[p] => hold[p] \in astray \/ hold[p] \notin Up

\* A handle is of the node its persona holds.
Handle(p) == ~overlap /\ db[p] # NoHandle => hold[p] # NoNode /\ db[p].node = hold[p]
StaysOpen(p) == ~overlap /\ Idle("cleanup") /\ This.clear = "deletes" /\ Used(p) =>
                  db[p] \in opened \cup {NoHandle} \/ db[p].node \in astray

PagesInv ==
  /\ PagesTypeOK
  /\ \A p \in Persona : Owned(p) /\ Working(p) /\ Stopped(p) /\ Handle(p) /\ StaysOpen(p)
  /\ OneAtATime /\ NoNodeLeaks

\* An actor is idle, or is to make a step.
LEMMA DueFacts ==
  ASSUME PagesTypeOK
  PROVE  \A w \in Actor : /\ Idle(w) <=> Due(w) = "nothing"
                          /\ ~Idle(w) => Due(w) \in Step
<1>1. "nothing" \notin Step  BY DEF Step
<1>2. ASSUME NEW w \in Actor, ~Idle(w)  PROVE Due(w) \in Step
  BY <1>2, InOrderTail DEF PagesTypeOK, Idle, Due
<1>. QED BY <1>1, <1>2 DEF Idle, Due

\* An actor that makes the step it is at goes on in the order it is to keep.
LEMMA DoesStep ==
  ASSUME PagesTypeOK, NEW w \in Actor, NEW s \in Step, Does(w, s)
  PROVE  /\ pc' \in [Actor -> Seq(Step)] /\ \A v \in Actor : InOrder(pc[v])'
         /\ Due(w) = s /\ ~Idle(w)
         /\ (Due(w)' = "nothing" /\ s \in Ends) \/ (Due(w)' # "nothing" /\ Then(s, Due(w)'))
         /\ Idle(w)' => s \in Ends
         /\ \A v \in Actor \ {w} : pc'[v] = pc[v] /\ Due(v)' = Due(v) /\ (Idle(v)' <=> Idle(v))
<1>1. /\ Due(w) = s /\ pc' = [pc EXCEPT ![w] = Tail(@)]
  BY DEF Does
<1>2. "nothing" \notin Step  BY DEF Step
<1>3. ~Idle(w) /\ Head(pc[w]) = s  BY <1>1, <1>2 DEF Due
<1>4. /\ InOrder(Tail(pc[w]))
      /\ \/ Tail(pc[w]) = <<>> /\ s \in Ends
         \/ Tail(pc[w]) # <<>> /\ Then(s, Head(Tail(pc[w])))
  BY <1>3, InOrderTail DEF PagesTypeOK, Idle
<1>5. Tail(pc[w]) \in Seq(Step)
  BY <1>4, EmptySeq DEF InOrder, Course
<1>6. /\ pc' \in [Actor -> Seq(Step)] /\ pc'[w] = Tail(pc[w])
      /\ \A v \in Actor \ {w} : pc'[v] = pc[v]
  BY <1>1, <1>5 DEF PagesTypeOK
<1>7. \A v \in Actor \ {w} : Due(v)' = Due(v) /\ (Idle(v)' <=> Idle(v))
  BY <1>6 DEF Due, Idle
<1>8. \A v \in Actor : InOrder(pc'[v])
  BY <1>4, <1>6 DEF PagesTypeOK
<1>9. /\ (Due(w)' = "nothing" /\ s \in Ends) \/ (Due(w)' # "nothing" /\ Then(s, Due(w)'))
      /\ Idle(w)' => s \in Ends
  <2>1. CASE Tail(pc[w]) = <<>>
    <3>1. s \in Ends  BY <1>4, <2>1
    <3>2. pc'[w] = <<>>  BY <1>6, <2>1
    <3>3. Idle(w)'  BY <3>2 DEF Idle
    <3>4. Due(w)' = "nothing"  BY <3>3 DEF Due
    <3>. QED BY <3>1, <3>4
  <2>2. CASE Tail(pc[w]) # <<>>
    <3>1. Due(w)' = Head(Tail(pc[w])) /\ ~Idle(w)'
      BY <1>6, <2>2 DEF Due, Idle
    <3>2. Then(s, Due(w)')  BY <1>4, <2>2, <3>1
    <3>3. Due(w)' \in Step  BY <1>4, <2>2, <3>1, InOrderTail
    <3>. QED BY <1>2, <3>1, <3>2, <3>3
  <2>. QED BY <2>1, <2>2
<1>. QED BY <1>1, <1>3, <1>6, <1>7, <1>8, <1>9

\* What the kinds of awaits say of one another.
LEMMA Kinds ==
  /\ Nodeless \cap (Making \cup Lent) = {} /\ Making \cap Lent = {}
  /\ Onwards \cap (Nodeless \cup Making \cup Lent) = {}
  /\ "nothing" \notin Nodeless \cup Making \cup Lent \cup Onwards
  /\ Nodeless \cup Making \cup Lent \cup Onwards \subseteq Step
  /\ {"orbit", "orbit held", "open", "undeclared"} \subseteq Making
  /\ "start" \in Nodeless /\ "show restored" \in Lent /\ GivenOrbit \subseteq Lent
  /\ "restore" \notin Onwards \cup Making \cup Nodeless
BY DEF Nodeless, Making, Lent, Onwards, GivenOrbit, Step

\* No node is none.
LEMMA NodesAreSome == \A n \in Node : n # NoNode
BY PagesAssumption DEF Node, NoNode

\* What a persona works on or holds it has started.
LEMMA OwnNodes ==
  ASSUME PagesInv, NEW p \in Persona, NEW n, n \in {at[p], hold[p]}, n # NoNode
  PROVE  n \in Node /\ nodes[n].by = p
<1>1. at[p] \in Node \cup {NoNode} /\ hold[p] \in Node \cup {NoNode}
  BY DEF PagesInv, PagesTypeOK
<1>2. Owned(p)  BY DEF PagesInv
<1>. QED BY <1>1, <1>2 DEF Owned

\* A node between its start and its hand-over.
LEMMA MakingFacts ==
  ASSUME PagesInv, NEW p \in Persona, Due(p) \in Making
  PROVE  /\ at[p] \in Node /\ at[p] # NoNode /\ hold[p] = NoNode /\ nodes[at[p]].by = p
         /\ Due(p) \in {"orbit", "orbit held"} => nodes[at[p]].of \in Persona
<1>1. Working(p)  BY DEF PagesInv
<1>2. at[p] # NoNode /\ hold[p] = NoNode  BY <1>1 DEF Working
<1>3. Due(p) \in {"orbit", "orbit held"} => nodes[at[p]].of \in Persona  BY <1>1 DEF Working
<1>4. at[p] \in Node /\ nodes[at[p]].by = p  BY <1>2, OwnNodes
<1>. QED BY <1>2, <1>3, <1>4

\* A step of a function that is under way: nothing of the other persona's is
\* touched, and what this one let go of is nobody's, or is stopped.
LEMMA FunctionStep ==
  ASSUME PagesInv, NEW p \in Persona, ~Idle(p), PagesTypeOK', UNCHANGED <<demo, overlap>>,
         \A v \in Actor \ {p} : pc'[v] = pc[v],
         \A q \in Persona \ {p} : at'[q] = at[q] /\ hold'[q] = hold[q] /\ db'[q] = db[q],
         \A n \in Node : /\ nodes[n].by # "nobody" => nodes'[n].by = nodes[n].by
                         /\ nodes[n].by \notin {"nobody", p} => nodes'[n] = nodes[n]
                         /\ nodes'[n].up => nodes[n].up \/ n = at'[p],
         ~overlap => {at[p], hold[p]} \ {NoNode} \subseteq {at'[p], hold'[p]} \cup astray',
         astray \subseteq astray',
         Owned(p)', Working(p)', Handle(p)',
         ~overlap => \A q \in Persona : Used(q) =>
           \/ db'[q] \in opened'
           \/ db'[q] = db[q] /\ (db[q] \in opened => db[q] \in opened' \/ db[q].node \in astray')
  PROVE  PagesInv'
<1>1. /\ \A v \in Actor \ {p} : Due(v)' = Due(v) /\ (Idle(v)' <=> Idle(v))
      /\ "cleanup" \in Actor \ {p}
  BY DEF Due, Idle, Actor, Persona
<1>2. ~overlap => Idle("cleanup") /\ Idle("cleanup")'
  BY <1>1 DEF PagesInv, OneAtATime
<1>3. OneAtATime'
  BY <1>2 DEF OneAtATime
<1>4. ASSUME NEW q \in Persona \ {p}  PROVE Owned(q)' /\ Working(q)' /\ Handle(q)'
  <2>1. Due(q)' = Due(q)  BY <1>1 DEF Actor
  <2>2. Owned(q)'  BY DEF PagesInv, Owned, PagesTypeOK, Persona
  <2>3. Working(q)'
    <3>1. CASE Due(q) \in {"orbit", "orbit held"}
      <4>1. Due(q) \in Making  BY <3>1, Kinds
      <4>2. at[q] \in Node /\ nodes[at[q]].by = q  BY <4>1, MakingFacts
      <4>3. nodes'[at[q]] = nodes[at[q]]
        <5>1. q \notin {"nobody", p}  BY DEF Persona
        <5>. QED BY <4>2, <5>1
      <4>4. Working(q)  BY DEF PagesInv
      <4>. QED BY <2>1, <4>3, <4>4 DEF Working
    <3>2. CASE Due(q) \notin {"orbit", "orbit held"}
      <4>1. Working(q)  BY DEF PagesInv
      <4>. QED BY <2>1, <3>2, <4>1 DEF Working
    <3>. QED BY <3>1, <3>2
  <2>4. Handle(q)'  BY DEF PagesInv, Handle
  <2>. QED BY <2>2, <2>3, <2>4
<1>5. ASSUME NEW q \in Persona  PROVE Stopped(q)' /\ StaysOpen(q)'
  <2>1. Stopped(q)'
    <3>1. "nothing" \notin Past["alice"] /\ "nothing" \notin Past["bob"]  BY DEF Past
    <3>2. ~overlap => Due("cleanup")' = "nothing"  BY <1>2 DEF Due
    <3>. QED BY <3>1, <3>2 DEF Stopped, Persona
  <2>2. StaysOpen(q)'
    BY <1>2 DEF PagesInv, StaysOpen, This, Used
  <2>. QED BY <2>1, <2>2
<1>6. NoNodeLeaks'
  <2>. SUFFICES ASSUME ~overlap, NEW n \in Node, nodes'[n].up, n \notin astray'
                PROVE  \E q \in Persona : n \in {hold'[q], at'[q]}
    BY DEF NoNodeLeaks, Up
  <2>1. CASE n = at'[p]  BY <2>1
  <2>2. CASE nodes[n].up
    <3>1. PICK q \in Persona : n \in {hold[q], at[q]}
      BY <2>2 DEF PagesInv, NoNodeLeaks, Up
    <3>2. n # NoNode  BY NodesAreSome
    <3>3. CASE q = p  BY <3>1, <3>2, <3>3
    <3>4. CASE q # p  BY <3>1, <3>4
    <3>. QED BY <3>3, <3>4
  <2>. QED BY <2>1, <2>2
<1>. QED BY <1>3, <1>4, <1>5, <1>6 DEF PagesInv

\* What the invariant does not name may change: logins, addresses, replication.
LEMMA Untouched ==
  ASSUME PagesInv, UNCHANGED <<demo, pc, at, hold, db, ident, nodes, opened, overlap, astray>>
  PROVE  PagesInv'
BY DEF PagesInv, PagesTypeOK, Owned, Working, Handle, StaysOpen, Stopped, OneAtATime, NoNodeLeaks,
       Due, Idle, Up, This, Used

\* The awaits that make no node and hand none over.
LEMMA QuietAwait ==
  ASSUME PagesInv, NEW p \in Persona,
         NEW s \in {"shared", "both", "own", "ready", "dial", "verify", "put", "show", "peek", "check"},
         Does(p, s), UNCHANGED <<at, hold, db, nodes, opened, astray>>,
         ident' \in [Persona -> Origin]
  PROVE  PagesInv'
<1>1. s \in Step /\ p \in Actor  BY DEF Step, Actor
<1>2. PagesTypeOK /\ UNCHANGED <<demo, overlap>>  BY DEF PagesInv, Does
<1>3. /\ ~Idle(p) /\ Due(p) = s /\ \A v \in Actor \ {p} : pc'[v] = pc[v]
      /\ Due(p)' = "nothing" \/ Then(s, Due(p)')
  BY <1>1, <1>2, DoesStep
<1>4. PagesTypeOK'
  BY <1>1, <1>2, DoesStep DEF PagesTypeOK
<1>5. Working(p)'
  <2>1. s \in Nodeless => Due(p)' \in Nodeless \cup {"nothing"}
    BY <1>3 DEF Then, Nodeless, Onwards
  <2>2. s \notin Nodeless => Due(p)' \in Onwards \cup {"nothing"}
    BY <1>3 DEF Then, Nodeless, Onwards
  <2>3. s \notin Making \cup Lent  BY DEF Making, Lent, GivenOrbit
  <2>4. (Onwards \cup {"nothing"}) \cap (Nodeless \cup Making \cup Lent \cup {"restore"}) = {}
    BY DEF Onwards, Nodeless, Making, Lent, GivenOrbit
  <2>5. (Nodeless \cup {"nothing"}) \cap (Making \cup Lent \cup {"restore"}) = {} /\ "nothing" \notin Nodeless
    BY DEF Nodeless, Making, Lent, GivenOrbit
  <2>6. at[p] = NoNode  BY <1>3, <2>3 DEF PagesInv, Working
  <2>7. s \in Nodeless => hold[p] = NoNode  BY <1>3 DEF PagesInv, Working
  <2>8. Due(p)' \notin Making \cup Lent \cup {"restore", "orbit", "orbit held"}
    BY <2>1, <2>2, <2>4, <2>5, Kinds
  <2>9. Due(p)' \in Nodeless => hold[p] = NoNode  BY <2>1, <2>2, <2>4, <2>5, <2>7
  <2>. QED BY <2>6, <2>8, <2>9 DEF Working
<1>6. Owned(p)' /\ Handle(p)'
  BY <1>2 DEF PagesInv, Owned, Handle
<1>. QED BY <1>2, <1>3, <1>4, <1>5, <1>6, FunctionStep

\* They are identities, checks, waits, and a todo put or shown.
LEMMA QuietAwaits ==
  ASSUME PagesInv,
         \/ MakeShared \/ MakeBoth \/ MakeOwn \/ Peek \/ Check
         \/ \E p \in Persona : Wait(p) \/ Put(p) \/ Show(p)
  PROVE  PagesInv'
<1>1. "alice" \in Persona /\ "bob" \in Persona  BY DEF Persona
<1>0. ident \in [Persona -> Origin] /\ \A p \in Persona : \A kind : Made(p, kind) \in Origin
  BY DEF PagesInv, PagesTypeOK, Made, Persona, Origin
<1>2. CASE MakeShared
  <2>1. ident' \in [Persona -> Origin]  BY <1>0, <1>1, <1>2 DEF MakeShared
  <2>. QED BY <1>1, <1>2, <2>1, QuietAwait DEF MakeShared, world
<1>3. CASE MakeBoth
  <2>1. ident' \in [Persona -> Origin]  BY <1>3 DEF MakeBoth, Persona, Origin
  <2>. QED BY <1>1, <1>3, <2>1, QuietAwait DEF MakeBoth, world
<1>4. CASE MakeOwn
  <2>1. ident' \in [Persona -> Origin]  BY <1>0, <1>1, <1>4 DEF MakeOwn
  <2>. QED BY <1>1, <1>4, <2>1, QuietAwait DEF MakeOwn, world
<1>5. CASE Peek  BY <1>0, <1>1, <1>5, QuietAwait DEF Peek, world, personas
<1>6. CASE Check
  <2>1. CASE Does("bob", "check")
    BY <1>0, <1>1, <1>6, <2>1, QuietAwait DEF Check, world
  <2>2. CASE UNCHANGED <<demo, login, pc, overlap, cleanups>>
    BY <1>6, <2>2, Untouched DEF Check, world
  <2>. QED BY <1>6, <2>1, <2>2 DEF Check
<1>7. ASSUME NEW p \in Persona, Wait(p)  PROVE PagesInv'
  BY <1>0, <1>7, QuietAwait DEF Wait, world, personas
<1>8. ASSUME NEW p \in Persona, Put(p)  PROVE PagesInv'
  BY <1>0, <1>8, QuietAwait DEF Put, personas
<1>9. ASSUME NEW p \in Persona, Show(p)  PROVE PagesInv'
  BY <1>0, <1>9, QuietAwait DEF Show, world
<1>. QED BY <1>2, <1>3, <1>4, <1>5, <1>6, <1>7, <1>8, <1>9

\* createLibp2p and createHelia: the node is the one its function works on.
LEMMA StartKeeps ==
  ASSUME PagesInv, NEW p \in Persona, StartNode(p)
  PROVE  PagesInv'
<1>1. "start" \in Step /\ p \in Actor  BY DEF Step, Actor
<1>2. PagesTypeOK /\ Does(p, "start") /\ UNCHANGED <<demo, overlap, hold, db, ident, opened, astray>>
  BY DEF PagesInv, StartNode, Does, personas
<1>3. /\ ~Idle(p) /\ Due(p) = "start" /\ \A v \in Actor \ {p} : pc'[v] = pc[v]
      /\ Due(p)' \in Making
  <2>1. "start" \notin Ends  BY DEF Ends
  <2>2. \A t : Then("start", t) => t \in Making  BY DEF Then, Making, Onwards
  <2>. QED BY <1>1, <1>2, <2>1, <2>2, DoesStep
<1>4. PICK n \in Node :
        /\ nodes[n] = Blank
        /\ nodes' = [nodes EXCEPT ![n] = [by |-> p, up |-> TRUE,
                                         of |-> IF p = "bob" /\ ~same THEN "bob" ELSE "alice"]]
        /\ at' = [at EXCEPT ![p] = n]
  BY DEF StartNode
<1>5. at[p] = NoNode /\ hold[p] = NoNode
  BY <1>3, Kinds DEF PagesInv, Working
<1>6. PagesTypeOK'
  <2>1. nodes' \in [Node -> [by : Persona \cup {"nobody"}, up : BOOLEAN, of : Origin]]
    BY <1>2, <1>4 DEF PagesTypeOK, Origin
  <2>2. at' \in [Persona -> Node \cup {NoNode}]  BY <1>2, <1>4 DEF PagesTypeOK
  <2>. QED BY <1>1, <1>2, <2>1, <2>2, DoesStep DEF PagesTypeOK
<1>7. /\ at'[p] = n /\ n # NoNode /\ nodes'[n].by = p /\ nodes'[n].of \in Persona
      /\ \A m \in Node \ {n} : nodes'[m] = nodes[m]
      /\ \A q \in Persona \ {p} : at'[q] = at[q]
  BY <1>2, <1>4, PagesAssumption DEF PagesTypeOK, Node, NoNode, Persona
<1>8. nodes[n].by = "nobody"  BY <1>4 DEF Blank
<1>9. Working(p)'  BY <1>2, <1>3, <1>5, <1>7, Kinds DEF Working
<1>10. Owned(p)'  BY <1>2, <1>5, <1>7 DEF Owned
<1>11. Handle(p)'  BY <1>2 DEF Handle, PagesInv
<1>. QED BY <1>2, <1>3, <1>5, <1>6, <1>7, <1>8, <1>9, <1>10, <1>11, FunctionStep

\* createOrbitDB: where the page holds it at once, the node is handed over.
LEMMA OrbitKeeps ==
  ASSUME PagesInv, NEW p \in Persona, CreateOrbit(p) \/ CreateOrbitHeld(p)
  PROVE  PagesInv'
<1>1. PICK s \in {"orbit", "orbit held"} :
        Does(p, s) /\ (s = "orbit" => CreateOrbit(p)) /\ (s = "orbit held" => CreateOrbitHeld(p))
  BY DEF CreateOrbit, CreateOrbitHeld
<1>2. s \in Step /\ p \in Actor /\ s \in Making /\ s \notin Ends
  BY DEF Step, Actor, Making, Ends
<1>3. PagesTypeOK /\ Orbit(p) /\ UNCHANGED <<demo, overlap, db, ident, opened, astray>>
  BY <1>1 DEF PagesInv, CreateOrbit, CreateOrbitHeld, Does, personas, Orbit
<1>4. ~Idle(p) /\ Due(p) = s /\ (\A v \in Actor \ {p} : pc'[v] = pc[v]) /\ Then(s, Due(p)')
  BY <1>1, <1>2, <1>3, DoesStep
<1>5. at[p] # NoNode /\ hold[p] = NoNode
  BY <1>2, <1>4, MakingFacts
<1>6. at[p] \in Node /\ nodes[at[p]].by = p /\ nodes[at[p]].of \in Persona
  BY <1>1, <1>2, <1>4, MakingFacts
<1>. DEFINE m == at[p]
<1>. DEFINE R == [by : Persona \cup {"nobody"}, up : BOOLEAN, of : Origin]
<1>7. /\ nodes'[m] = [nodes[m] EXCEPT !.of = Writer(p, nodes[m].of)]
      /\ \A n \in Node \ {m} : nodes'[n] = nodes[n]
      /\ nodes' = [n \in Node |-> nodes'[n]]
  BY <1>3, <1>6 DEF Orbit, PagesTypeOK
<1>15. ASSUME NEW r \in R, NEW z \in Origin
       PROVE  /\ [r EXCEPT !.of = z] \in R /\ [r EXCEPT !.of = z].by = r.by
              /\ [r EXCEPT !.of = z].up => r.up
  OBVIOUS
<1>8. nodes' \in [Node -> [by : Persona \cup {"nobody"}, up : BOOLEAN, of : Origin]]
  <2>1. Writer(p, nodes[m].of) \in Origin
    BY <1>3, <1>6 DEF Writer, PagesTypeOK, Persona
  <2>2. \A n \in Node : nodes[n] \in R  BY <1>3 DEF PagesTypeOK
  <2>. HIDE DEF R
  <2>3. nodes[m] \in R  BY <1>6, <2>2
  <2>5. [nodes[m] EXCEPT !.of = Writer(p, nodes[m].of)] \in R  BY <1>15, <2>1, <2>3
  <2>4. nodes'[m] \in R  BY <1>7, <2>5
  <2>6. nodes' \in [Node -> R]  BY <1>7, <2>2, <2>4
  <2>. QED BY <2>6 DEF R
<1>9. nodes'[m].by = p /\ (nodes'[m].up => nodes[m].up)
  <2>1. nodes[m] \in R  BY <1>3, <1>6 DEF PagesTypeOK
  <2>. QED BY <1>6, <1>7, <2>1
<1>. HIDE DEF m
<1>10. \A n \in Node : /\ nodes[n].by # "nobody" => nodes'[n].by = nodes[n].by
                       /\ nodes[n].by \notin {"nobody", p} => nodes'[n] = nodes[n]
                       /\ nodes'[n].up => nodes[n].up
  <2>. TAKE n \in Node
  <2>1. CASE n = m  BY <1>6, <1>9, <2>1 DEF m
  <2>2. CASE n # m  BY <1>7, <2>2
  <2>. QED BY <2>1, <2>2
<1>11. nodes'[at[p]].by = p  BY <1>9 DEF m
<1>12. Handle(p)  BY DEF PagesInv
<1>13. CASE s = "orbit"
  <2>1. UNCHANGED <<at, hold>>  BY <1>1, <1>13 DEF CreateOrbit, personas
  <2>2. Due(p)' = "open"  BY <1>4, <1>13 DEF Then, Onwards
  <2>3. "open" \in Making  BY DEF Making
  <2>4. Working(p)'  BY <1>5, <2>1, <2>2, <2>3, Kinds DEF Working
  <2>5. Owned(p)' /\ Handle(p)'
    BY <1>3, <1>5, <1>11, <1>12, <2>1 DEF Owned, Handle
  <2>6. PagesTypeOK'  BY <1>1, <1>2, <1>3, <1>8, <2>1, DoesStep DEF PagesTypeOK
  <2>. QED BY <1>3, <1>4, <1>10, <2>1, <2>4, <2>5, <2>6, FunctionStep
<1>14. CASE s = "orbit held"
  <2>1. hold' = [hold EXCEPT ![p] = at[p]] /\ at' = [at EXCEPT ![p] = NoNode]
    BY <1>1, <1>14 DEF CreateOrbitHeld, Leave
  <2>2. /\ hold' \in [Persona -> Node \cup {NoNode}] /\ at' \in [Persona -> Node \cup {NoNode}]
        /\ hold'[p] = at[p] /\ at'[p] = NoNode
        /\ \A q \in Persona \ {p} : hold'[q] = hold[q] /\ at'[q] = at[q]
    BY <1>3, <2>1 DEF PagesTypeOK
  <2>3. Due(p)' \in Onwards  BY <1>4, <1>14 DEF Then
  <2>4. Working(p)'  BY <2>2, <2>3, Kinds DEF Working
  <2>5. Owned(p)'  BY <1>11, <2>2 DEF Owned
  <2>6. Handle(p)'  BY <1>3, <1>5, <2>2 DEF PagesInv, Handle
  <2>7. PagesTypeOK'  BY <1>1, <1>2, <1>3, <1>8, <2>2, DoesStep DEF PagesTypeOK
  <2>. QED BY <1>3, <1>4, <1>5, <1>10, <2>2, <2>4, <2>5, <2>6, <2>7, FunctionStep
<1>. QED BY <1>13, <1>14

\* A function that ends, whatever ends it.
LEMMA EndedStep ==
  ASSUME PagesTypeOK, NEW p \in Persona, pc' = [pc EXCEPT ![p] = <<>>]
  PROVE  /\ pc' \in [Actor -> Seq(Step)] /\ \A v \in Actor : InOrder(pc[v])'
         /\ Due(p)' = "nothing" /\ \A v \in Actor \ {p} : pc'[v] = pc[v]
<1>1. p \in Actor /\ <<>> \in Seq(Step)  BY EmptySeq DEF Actor
<1>2. /\ pc' \in [Actor -> Seq(Step)] /\ pc'[p] = <<>>
      /\ \A v \in Actor \ {p} : pc'[v] = pc[v]
  BY <1>1 DEF PagesTypeOK
<1>3. InOrder(<<>>)  BY DEF InOrder
<1>4. \A v \in Actor : InOrder(pc'[v])  BY <1>2, <1>3 DEF PagesTypeOK
<1>5. Idle(p)'  BY <1>2 DEF Idle
<1>. QED BY <1>2, <1>4, <1>5 DEF Due

\* open(): the database and its node become the persona's.
LEMMA OpenKeeps ==
  ASSUME PagesInv, NEW p \in Persona, OpenDatabase(p)
  PROVE  PagesInv'
<1>. DEFINE h == [node |-> at[p], nth |-> 1]
<1>1. "open" \in Step /\ p \in Actor /\ "open" \in Making  BY DEF Step, Actor, Making
<1>2. /\ PagesTypeOK /\ Does(p, "open") /\ UNCHANGED <<demo, overlap, ident, nodes, astray>>
      /\ opened' = opened \cup {h} /\ db' = [db EXCEPT ![p] = h]
      /\ hold' = [hold EXCEPT ![p] = at[p]] /\ at' = [at EXCEPT ![p] = NoNode]
  BY DEF PagesInv, OpenDatabase, Does, Leave
<1>3. ~Idle(p) /\ Due(p) = "open" /\ (\A v \in Actor \ {p} : pc'[v] = pc[v]) /\ Due(p)' = "nothing"
  <2>1. \A t : ~Then("open", t)  BY DEF Then, Onwards
  <2>. QED BY <1>1, <1>2, <2>1, DoesStep
<1>4. at[p] \in Node /\ at[p] # NoNode /\ hold[p] = NoNode /\ nodes[at[p]].by = p
  BY <1>1, <1>3, MakingFacts
<1>5. h \in HandleSet  BY <1>4 DEF HandleSet
<1>6. /\ hold' \in [Persona -> Node \cup {NoNode}] /\ at' \in [Persona -> Node \cup {NoNode}]
      /\ db' \in [Persona -> HandleSet] /\ hold'[p] = at[p] /\ at'[p] = NoNode /\ db'[p] = h
      /\ \A q \in Persona \ {p} : hold'[q] = hold[q] /\ at'[q] = at[q] /\ db'[q] = db[q]
  BY <1>2, <1>4, <1>5 DEF PagesTypeOK
<1>7. PagesTypeOK'  BY <1>1, <1>2, <1>6, DoesStep DEF PagesTypeOK
<1>8. Working(p)'  BY <1>3, <1>6, Kinds DEF Working
<1>9. Owned(p)' /\ Handle(p)'  BY <1>2, <1>4, <1>6 DEF Owned, Handle
<1>10. \A q \in Persona : db'[q] \in opened' \/ (db'[q] = db[q] /\ opened \subseteq opened')
  BY <1>2, <1>6
<1>. QED BY <1>2, <1>3, <1>4, <1>6, <1>7, <1>8, <1>9, <1>10, FunctionStep

\* Bob opens Alice's database, on the node he holds.
LEMMA SharedKeeps == PagesInv /\ OpenShared => PagesInv'
<1>. SUFFICES ASSUME PagesInv, OpenShared  PROVE PagesInv'
  OBVIOUS
<1>. DEFINE p == "bob"
            h == [node |-> hold[p], nth |-> 1]
<1>1. "open shared" \in Step /\ p \in Actor /\ p \in Persona /\ "open shared" \notin Making \cup Lent
  BY DEF Step, Actor, Persona, Making, Lent, GivenOrbit
<1>2. /\ PagesTypeOK /\ Does(p, "open shared") /\ UNCHANGED <<demo, overlap, ident, nodes, astray, at, hold>>
      /\ opened' = opened \cup {h} /\ db' = [db EXCEPT ![p] = h] /\ hold[p] # NoNode
  BY DEF PagesInv, OpenShared, CanOpenShared, Does
<1>3. /\ ~Idle(p) /\ Due(p) = "open shared" /\ (\A v \in Actor \ {p} : pc'[v] = pc[v])
      /\ Due(p)' \in Onwards \cup {"nothing"}
  <2>1. \A t : Then("open shared", t) => t \in Onwards  BY DEF Then
  <2>. QED BY <1>1, <1>2, <2>1, DoesStep
<1>4. at[p] = NoNode /\ hold[p] \in Node
  BY <1>1, <1>2, <1>3 DEF PagesInv, PagesTypeOK, Working
<1>5. h \in HandleSet  BY <1>4 DEF HandleSet
<1>6. /\ db' \in [Persona -> HandleSet] /\ db'[p] = h /\ \A q \in Persona \ {p} : db'[q] = db[q]
  BY <1>1, <1>2, <1>5 DEF PagesTypeOK
<1>7. PagesTypeOK'  BY <1>1, <1>2, <1>6, DoesStep DEF PagesTypeOK
<1>8. Working(p)'
  <2>1. Due(p)' \notin Nodeless \cup Making \cup Lent \cup {"restore", "orbit", "orbit held"}
    BY <1>3, Kinds
  <2>. QED BY <1>2, <1>4, <2>1 DEF Working
<1>9. Owned(p)' /\ Handle(p)'  BY <1>1, <1>2, <1>6 DEF PagesInv, Owned, Handle
<1>10. \A q \in Persona : db'[q] \in opened' \/ (db'[q] = db[q] /\ opened \subseteq opened')
  BY <1>2, <1>6
<1>. HIDE DEF p
<1>. QED BY <1>1, <1>2, <1>3, <1>4, <1>6, <1>7, <1>8, <1>9, <1>10, FunctionStep

\* An await that rejects: what the function worked on is the page's, or nobody's.
LEMMA RejectKeeps ==
  ASSUME PagesInv, NEW p \in Persona, Refuse(p) \/ Fail(p)
  PROVE  PagesInv'
<1>1. /\ PagesTypeOK /\ ~Idle(p) /\ pc' = [pc EXCEPT ![p] = <<>>] /\ at' = [at EXCEPT ![p] = NoNode]
      /\ astray' = astray \cup ({at[p]} \ {NoNode, hold[p]})
      /\ UNCHANGED <<demo, overlap, nodes, opened, hold, db, ident>>
  BY DEF PagesInv, Refuse, Fail, Rejects, Leave, world, personas
<1>2. /\ at' \in [Persona -> Node \cup {NoNode}] /\ at'[p] = NoNode
      /\ \A q \in Persona \ {p} : at'[q] = at[q]
  BY <1>1 DEF PagesTypeOK
<1>3. PagesTypeOK'  BY <1>1, <1>2, EndedStep DEF PagesTypeOK
<1>4. Due(p)' = "nothing" /\ \A v \in Actor \ {p} : pc'[v] = pc[v]
  BY <1>1, EndedStep
<1>5. Working(p)'  BY <1>2, <1>4, Kinds DEF Working
<1>6. Owned(p)' /\ Handle(p)'  BY <1>1, <1>2 DEF PagesInv, Owned, Handle
<1>. QED BY <1>1, <1>2, <1>3, <1>4, <1>5, <1>6, FunctionStep

\* An await of the library, made on the node the persona holds.
LEMMA LentStep ==
  ASSUME PagesInv, NEW p \in Persona, Due(p) \in Lent, UNCHANGED <<demo, overlap, hold, nodes, ident>>,
         pc' \in [Actor -> Seq(Step)], \A v \in Actor : InOrder(pc[v])',
         \A v \in Actor \ {p} : pc'[v] = pc[v],
         \/ at' = [at EXCEPT ![p] = NoNode] /\ Due(p)' \in Onwards \cup {"nothing"}
         \/ UNCHANGED at /\ Due(p)' = "show restored",
         db' \in [Persona -> HandleSet], \A q \in Persona \ {p} : db'[q] = db[q], Handle(p)',
         astray \subseteq astray',
         ~overlap => \A q \in Persona : Used(q) =>
           \/ db'[q] \in opened'
           \/ db'[q] = db[q] /\ (db[q] \in opened => db[q] \in opened' \/ db[q].node \in astray')
  PROVE  PagesInv'
<1>1. PagesTypeOK /\ Working(p)  BY DEF PagesInv
<1>2. ~Idle(p)
  <2>1. p \in Actor /\ Due(p) # "nothing"  BY Kinds DEF Actor
  <2>. QED BY <1>1, <2>1, DueFacts
<1>3. /\ at' \in [Persona -> Node \cup {NoNode}] /\ at'[p] \in {NoNode, at[p]}
      /\ \A q \in Persona \ {p} : at'[q] = at[q]
  BY <1>1 DEF PagesTypeOK
<1>4. PagesTypeOK'  BY <1>1, <1>3 DEF PagesTypeOK
<1>5. ~overlap => at[p] = hold[p]  BY <1>1 DEF Working
<1>6. Working(p)'
  <2>1. CASE at' = [at EXCEPT ![p] = NoNode] /\ Due(p)' \in Onwards \cup {"nothing"}
    <3>1. at'[p] = NoNode  BY <1>1, <2>1 DEF PagesTypeOK
    <3>2. Due(p)' \notin Nodeless \cup Making \cup Lent \cup {"restore", "orbit", "orbit held"}
      BY <2>1, Kinds
    <3>. QED BY <3>1, <3>2 DEF Working
  <2>2. CASE UNCHANGED at /\ Due(p)' = "show restored"
    <3>1. Due(p)' \notin Nodeless \cup Making \cup {"restore", "orbit", "orbit held"} /\ Due(p)' \in Lent
      BY <2>2, Kinds
    <3>. QED BY <1>1, <2>2, <3>1 DEF Working
  <2>. QED BY <2>1, <2>2
<1>7. Owned(p)'  BY <1>3 DEF PagesInv, Owned
<1>. QED BY <1>2, <1>3, <1>4, <1>5, <1>6, <1>7, FunctionStep

\* backupDatabase closes no handle.
LEMMA BackupKeeps == PagesInv /\ Backup => PagesInv'
<1>. SUFFICES ASSUME PagesInv, Backup  PROVE PagesInv'
  OBVIOUS
<1>. DEFINE p == "alice"
<1>1. "backup" \in Step /\ p \in Actor /\ p \in Persona /\ "backup" \in Lent
  BY DEF Step, Actor, Persona, Lent, GivenOrbit
<1>2. /\ PagesTypeOK /\ Does(p, "backup") /\ UNCHANGED <<demo, overlap, ident, nodes, astray, hold, db>>
      /\ opened \subseteq opened' /\ at' = [at EXCEPT ![p] = NoNode]
  BY DEF PagesInv, Backup, Does, Leave, personas
<1>3. Due(p) = "backup" /\ (\A v \in Actor \ {p} : pc'[v] = pc[v]) /\ Due(p)' = "nothing"
  <2>1. \A t : ~Then("backup", t)  BY DEF Then, Onwards
  <2>. QED BY <1>1, <1>2, <2>1, DoesStep
<1>4. pc' \in [Actor -> Seq(Step)] /\ \A v \in Actor : InOrder(pc[v])'
  BY <1>1, <1>2, DoesStep
<1>5. Handle(p)' /\ db \in [Persona -> HandleSet]  BY <1>1, <1>2 DEF PagesInv, PagesTypeOK, Handle
<1>. HIDE DEF p
<1>. QED BY <1>1, <1>2, <1>3, <1>4, <1>5, LentStep

\* While Bob restores, the handles restoreFromCID closes are of his node.
LEMMA ClosedIsBobs ==
  ASSUME PagesInv, ~overlap, Due("bob") \in Lent, NEW reaches,
         NEW h \in ClosedByRestore(reaches)
  PROVE  /\ db["alice"] # h /\ h.node = at["bob"]
         /\ h \in opened /\ h.nth = 1
<1>1. h \in opened /\ h.node = at["bob"] /\ h.nth = 1  BY DEF ClosedByRestore
<1>2. Working("bob") /\ Handle("alice")  BY DEF PagesInv, Persona
<1>3. at["bob"] = hold["bob"] /\ at["bob"] # NoNode  BY <1>2 DEF Working
<1>4. db["alice"] # h
  <2>. SUFFICES ASSUME db["alice"] = h  PROVE FALSE  OBVIOUS
  <2>1. db["alice"] # NoHandle  BY <1>1, <1>3 DEF NoHandle
  <2>2. hold["alice"] = at["bob"]  BY <1>1, <1>2, <2>1 DEF Handle
  <2>3. "alice" \in Persona /\ "bob" \in Persona  BY DEF Persona
  <2>4. nodes[at["bob"]].by = "alice" /\ nodes[at["bob"]].by = "bob"
    BY <1>3, <2>2, <2>3, OwnNodes
  <2>. QED BY <2>4
<1>. QED BY <1>1, <1>4

\* restoreDatabaseFromEntries hands Bob a new database of his node.
LEMMA EntriesKeep == PagesInv /\ RestoreEntries => PagesInv'
<1>. SUFFICES ASSUME PagesInv, RestoreEntries  PROVE PagesInv'
  OBVIOUS
<1>. DEFINE p == "bob"
            s == "restore entries"
<1>1. s \in Step /\ p \in Actor /\ p \in Persona /\ s \in Lent
  BY DEF Step, Actor, Persona, Lent, GivenOrbit
<1>2. /\ PagesTypeOK /\ UNCHANGED <<demo, overlap, ident, nodes, astray, hold, db>>
      /\ opened \subseteq opened' /\ Due(p) = s
  BY DEF PagesInv, RestoreEntries, Does, GivesUp, personas
<1>3. /\ pc' \in [Actor -> Seq(Step)] /\ \A v \in Actor : InOrder(pc[v])'
      /\ \A v \in Actor \ {p} : pc'[v] = pc[v]
      /\ \/ at' = [at EXCEPT ![p] = NoNode] /\ Due(p)' = "nothing"
         \/ UNCHANGED at /\ Due(p)' = "show restored"
  <2>1. CASE Does(p, s) /\ UNCHANGED at
    <3>1. \A t : Then(s, t) => t = "show restored"  BY DEF Then, Onwards
    <3>2. s \notin Ends  BY DEF Ends
    <3>. QED BY <1>1, <1>2, <2>1, <3>1, <3>2, DoesStep
  <2>2. CASE GivesUp(p, s)
    BY <1>1, <1>2, <2>2, EndedStep DEF GivesUp, Leave
  <2>. QED BY <2>1, <2>2 DEF RestoreEntries
<1>4. Handle(p)' /\ db \in [Persona -> HandleSet]  BY <1>1, <1>2 DEF PagesInv, PagesTypeOK, Handle
<1>. HIDE DEF p, s
<1>. QED BY <1>1, <1>2, <1>3, <1>4, LentStep

\* restoreDatabaseFromSpace closes Bob's database and hands him the one it read.
LEMMA ByCIDKeeps == PagesInv /\ RestoreByCID => PagesInv'
<1>. SUFFICES ASSUME PagesInv, RestoreByCID  PROVE PagesInv'
  OBVIOUS
<1>. DEFINE p == "bob"
            s == "restore"
<1>1. s \in Step /\ p \in Actor /\ p \in Persona /\ s \in Lent
  BY DEF Step, Actor, Persona, Lent, GivenOrbit
<1>2. /\ PagesTypeOK /\ UNCHANGED <<demo, overlap, ident, nodes, astray, hold, db, at>>
      /\ Does(p, s)
      /\ \E reaches \in BOOLEAN : opened \ ClosedByRestore(reaches) \subseteq opened'
  BY DEF PagesInv, RestoreByCID, Does, personas
<1>3. /\ pc' \in [Actor -> Seq(Step)] /\ \A v \in Actor : InOrder(pc[v])'
      /\ \A v \in Actor \ {p} : pc'[v] = pc[v]
      /\ Due(p) = s /\ Due(p)' = "show restored"
  <2>1. \A t : Then(s, t) => t = "show restored"  BY DEF Then, Onwards
  <2>2. s \notin Ends  BY DEF Ends
  <2>. QED BY <1>1, <1>2, <2>1, <2>2, DoesStep
<1>4. Handle(p)' /\ db \in [Persona -> HandleSet]  BY <1>1, <1>2 DEF PagesInv, PagesTypeOK, Handle
<1>5. ASSUME ~overlap, NEW q \in Persona, Used(q), db[q] \in opened  PROVE db[q] \in opened'
  <2>1. q = "alice"
    <3>1. Working(p)  BY <1>1 DEF PagesInv
    <3>2. demo = "simple"  BY <1>3, <3>1 DEF Working
    <3>3. "addBobTodo" \notin DOMAIN SimplePage.buttons.bob
      BY DEF SimplePage, SimpleBobButtons
    <3>4. This = SimplePage  BY <3>2 DEF This, Pages
    <3>. QED BY <1>5, <3>3, <3>4 DEF Used
  <2>. QED BY <1>1, <1>2, <1>3, <1>5, <2>1, ClosedIsBobs
<1>. HIDE DEF p, s
<1>. QED BY <1>1, <1>2, <1>3, <1>4, <1>5, LentStep

\* restoreFromCID, the handle kept: it closes what it opens at the address.
LEMMA KeptKeeps == PagesInv /\ RestoreKept => PagesInv'
<1>. SUFFICES ASSUME PagesInv, RestoreKept  PROVE PagesInv'
  OBVIOUS
<1>. DEFINE p == "bob"
            s == "restore kept"
<1>1. s \in Step /\ p \in Actor /\ p \in Persona /\ s \in Lent
  BY DEF Step, Actor, Persona, Lent, GivenOrbit
<1>2. /\ PagesTypeOK /\ UNCHANGED <<demo, overlap, ident, nodes, astray, hold>>
      /\ Does(p, s) /\ at' = [at EXCEPT ![p] = NoNode]
      /\ opened' = (opened \ ClosedByRestore(TRUE)) \cup {Reopened}
      /\ db' = [db EXCEPT ![p] = Reopened]
  BY DEF PagesInv, RestoreKept, Does, Leave
<1>3. /\ pc' \in [Actor -> Seq(Step)] /\ \A v \in Actor : InOrder(pc[v])'
      /\ \A v \in Actor \ {p} : pc'[v] = pc[v]
      /\ Due(p) = s /\ Due(p)' \in Onwards \cup {"nothing"}
  <2>1. \A t : Then(s, t) => t \in Onwards  BY DEF Then
  <2>. QED BY <1>1, <1>2, <2>1, DoesStep
<1>4. Reopened \in HandleSet /\ Reopened.node = at[p]
  <2>1. at[p] \in Node \cup {NoNode}  BY <1>1, <1>2 DEF PagesTypeOK
  <2>. QED BY <2>1 DEF Reopened, HandleSet
<1>5. db' \in [Persona -> HandleSet] /\ db'[p] = Reopened /\ \A q \in Persona \ {p} : db'[q] = db[q]
  BY <1>1, <1>2, <1>4 DEF PagesTypeOK
<1>6. Handle(p)'
  <2>1. Working(p)  BY <1>1 DEF PagesInv
  <2>2. ~overlap => at[p] = hold[p] /\ at[p] # NoNode  BY <1>1, <1>3, <2>1 DEF Working
  <2>. QED BY <1>2, <1>4, <1>5, <2>2 DEF Handle
<1>7. ASSUME ~overlap, NEW q \in Persona
      PROVE  db'[q] \in opened' \/ (db'[q] = db[q] /\ (db[q] \in opened => db[q] \in opened'))
  <2>1. CASE q = p  BY <1>2, <1>5, <2>1
  <2>2. CASE q # p
    <3>1. q = "alice"  BY <2>2 DEF Persona
    <3>. QED BY <1>1, <1>2, <1>3, <1>5, <1>7, <3>1, ClosedIsBobs
  <2>. QED BY <2>1, <2>2
<1>. HIDE DEF p, s
<1>. QED BY <1>1, <1>2, <1>3, <1>5, <1>6, <1>7, LentStep

\* A restore that breaks off after the close: the page has no button to use the handle.
LEMMA BreaksKeeps == PagesInv /\ RestoreBreaks => PagesInv'
<1>. SUFFICES ASSUME PagesInv, RestoreBreaks  PROVE PagesInv'
  OBVIOUS
<1>. DEFINE p == "bob"
<1>1. p \in Actor /\ p \in Persona /\ {"restore", "restore kept"} \subseteq Lent
  BY DEF Actor, Persona, Lent, GivenOrbit
<1>2. /\ PagesTypeOK /\ UNCHANGED <<demo, overlap, ident, nodes, hold, db>>
      /\ Due(p) \in {"restore", "restore kept"}
      /\ pc' = [pc EXCEPT ![p] = <<>>] /\ at' = [at EXCEPT ![p] = NoNode]
      /\ \/ UNCHANGED <<opened, astray>>
         \/ /\ astray' = astray \cup {at[p]}
            /\ \E reaches \in BOOLEAN : opened' = opened \ ClosedByRestore(reaches)
  BY DEF PagesInv, RestoreBreaks, GivesUp, Leave, personas
<1>3. /\ pc' \in [Actor -> Seq(Step)] /\ \A v \in Actor : InOrder(pc[v])'
      /\ \A v \in Actor \ {p} : pc'[v] = pc[v]
      /\ Due(p)' = "nothing"
  BY <1>1, <1>2, EndedStep
<1>4. Handle(p)' /\ db \in [Persona -> HandleSet]  BY <1>1, <1>2 DEF PagesInv, PagesTypeOK, Handle
<1>5. ASSUME ~overlap, NEW q \in Persona, db[q] \in opened
      PROVE  db[q] \in opened' \/ db[q].node \in astray'
  BY <1>1, <1>2, <1>5, ClosedIsBobs
<1>. HIDE DEF p
<1>. QED BY <1>1, <1>2, <1>3, <1>4, <1>5, LentStep

\* Bob's todos shown, and the end of his restore.
LEMMA ShowKeeps == PagesInv /\ ShowRestored => PagesInv'
<1>. SUFFICES ASSUME PagesInv, ShowRestored  PROVE PagesInv'
  OBVIOUS
<1>. DEFINE p == "bob"
            s == "show restored"
<1>1. s \in Step /\ p \in Actor /\ p \in Persona /\ s \in Lent
  BY DEF Step, Actor, Persona, Lent
<1>2. /\ PagesTypeOK /\ UNCHANGED <<demo, overlap, ident, nodes, astray, hold, db, opened>>
      /\ Does(p, s) /\ at' = [at EXCEPT ![p] = NoNode]
  BY DEF PagesInv, ShowRestored, Does, Leave, world
<1>3. /\ pc' \in [Actor -> Seq(Step)] /\ \A v \in Actor : InOrder(pc[v])'
      /\ \A v \in Actor \ {p} : pc'[v] = pc[v]
      /\ Due(p) = s /\ Due(p)' = "nothing"
  <2>1. \A t : ~Then(s, t)  BY DEF Then, Onwards
  <2>. QED BY <1>1, <1>2, <2>1, DoesStep
<1>4. Handle(p)' /\ db \in [Persona -> HandleSet]  BY <1>1, <1>2 DEF PagesInv, PagesTypeOK, Handle
<1>. HIDE DEF p, s
<1>. QED BY <1>1, <1>2, <1>3, <1>4, LentStep

\* A button pressed: its conditions give the function the node it needs, or the
\* absence of one.
LEMMA PressKeeps ==
  ASSUME PagesInv, NEW p \in Persona, NEW f \in DOMAIN This.buttons[p], Call(p, f)
  PROVE  PagesInv'
<1>. DEFINE q == This.functions[f].does
            wanted == This.buttons[p][f] \cup This.functions[f].asks
<1>1. /\ PagesTypeOK /\ Idle(p) /\ p \in Actor /\ \A c \in wanted : Holds(c)
      /\ pc' = [pc EXCEPT ![p] = q]
      /\ at' = [at EXCEPT ![p] = IF Head(q) \in GivenOrbit THEN hold[p] ELSE NoNode]
      /\ overlap' = (overlap \/ ~Idle("cleanup"))
      /\ UNCHANGED <<demo, hold, db, nodes, ident, opened, astray>>
  BY DEF PagesInv, Call, Actor, world, personas
<1>2. Fits(demo, p, q, wanted)
  <2>1. ButtonsFit(demo)  BY <1>1, PagesFit DEF PagesTypeOK
  <2>. QED BY <2>1 DEF ButtonsFit, This
<1>. HIDE DEF q, wanted
<1>3. PICK a \in Step \ (Making \cup {"show restored"}), b \in Ends :
        /\ Course(q, a, b)
        /\ a \in Nodeless => Down[p] \in wanted
        /\ p = "bob" /\ a \in GivenOrbit => "bob up" \in wanted
        /\ a = "restore" => demo = "simple"
  BY <1>2 DEF Fits
<1>4. q \in Seq(Step) /\ InOrder(q) /\ Head(q) = a /\ q # <<>>
  BY <1>3, PathBegins DEF InOrder
<1>5. /\ pc' \in [Actor -> Seq(Step)] /\ pc'[p] = q /\ \A v \in Actor \ {p} : pc'[v] = pc[v]
      /\ at' \in [Persona -> Node \cup {NoNode}]
      /\ at'[p] = (IF a \in GivenOrbit THEN hold[p] ELSE NoNode)
      /\ \A r \in Persona \ {p} : at'[r] = at[r]
  BY <1>1, <1>4 DEF PagesTypeOK
<1>6. PagesTypeOK'
  <2>1. \A v \in Actor : InOrder(pc'[v])  BY <1>1, <1>4, <1>5 DEF PagesTypeOK
  <2>2. overlap' \in BOOLEAN  BY <1>1 DEF PagesTypeOK
  <2>. QED BY <1>1, <1>5, <2>1, <2>2 DEF PagesTypeOK
<1>7. Due(p)' = a  BY <1>4, <1>5 DEF Due, Idle
<1>8. \A v \in Actor \ {p} : Due(v)' = Due(v) /\ (Idle(v)' <=> Idle(v))
  BY <1>5 DEF Due, Idle
<1>9. (~overlap' => ~overlap /\ Idle("cleanup")) /\ "cleanup" \in Actor \ {p}
  BY <1>1 DEF Actor, Persona
<1>10. Working(p)'
  <2>1. a \in Nodeless => hold[p] = NoNode
    <3>1. CASE p = "alice"  BY <1>1, <1>3, <3>1 DEF Down, Holds
    <3>2. CASE p = "bob"  BY <1>1, <1>3, <3>2 DEF Down, Holds
    <3>. QED BY <3>1, <3>2 DEF Persona
  <2>2. p = "bob" /\ a \in GivenOrbit => hold[p] # NoNode
    BY <1>1, <1>3 DEF Holds
  <2>3. a \notin Making /\ (a \in Nodeless => a \notin Lent) /\ (a \in Lent => a \in GivenOrbit)
        /\ (a \in GivenOrbit => a \in Lent) /\ a \notin {"orbit", "orbit held"}
    BY <1>3, Kinds DEF Lent
  <2>. QED BY <1>1, <1>3, <1>5, <1>7, <2>1, <2>2, <2>3 DEF Working
<1>11. ASSUME NEW r \in Persona \ {p}  PROVE Working(r)'
  <2>1. Due(r)' = Due(r) /\ Working(r)  BY <1>8 DEF PagesInv, Actor
  <2>. QED BY <1>1, <1>5, <1>9, <2>1 DEF Working
<1>12. ASSUME NEW r \in Persona  PROVE Owned(r)' /\ Stopped(r)' /\ Handle(r)' /\ StaysOpen(r)'
  <2>1. Owned(r) /\ Stopped(r) /\ Handle(r) /\ StaysOpen(r)  BY DEF PagesInv
  <2>2. Owned(r)'  BY <1>1, <1>5, <2>1 DEF Owned
  <2>3. Stopped(r)'  BY <1>1, <1>8, <1>9, <2>1 DEF Stopped, Up
  <2>4. Handle(r)'  BY <1>1, <1>9, <2>1 DEF Handle
  <2>5. StaysOpen(r)'  BY <1>1, <1>8, <1>9, <2>1 DEF StaysOpen, This, Used
  <2>. QED BY <2>2, <2>3, <2>4, <2>5
<1>13. OneAtATime'  BY <1>8, <1>9 DEF OneAtATime
<1>14. NoNodeLeaks'
  <2>1. at[p] = NoNode
    <3>1. Due(p) = "nothing" /\ Working(p)  BY <1>1 DEF PagesInv, Due
    <3>. QED BY <3>1, Kinds DEF Working
  <2>. SUFFICES ASSUME ~overlap', NEW n \in Node, nodes'[n].up, n \notin astray'
                PROVE  \E r \in Persona : n \in {hold'[r], at'[r]}
    BY DEF NoNodeLeaks, Up
  <2>2. PICK r \in Persona : n \in {hold[r], at[r]}
    <3>1. ~overlap /\ nodes[n].up /\ n \notin astray  BY <1>1, <1>9
    <3>. QED BY <3>1 DEF PagesInv, NoNodeLeaks, Up
  <2>3. n # NoNode  BY NodesAreSome
  <2>. QED BY <1>1, <1>5, <2>1, <2>2, <2>3
<1>. QED BY <1>6, <1>10, <1>11, <1>12, <1>13, <1>14 DEF PagesInv

\* A step of cleanup() short of the reset.
LEMMA CleanupStep ==
  ASSUME PagesInv, UNCHANGED <<demo, at, hold, db, ident>>, PagesTypeOK',
         \A p \in Persona : pc'[p] = pc[p],
         ~overlap' => ~overlap /\ \A p \in Persona : Idle(p),
         \A n \in Node : /\ nodes'[n].by = nodes[n].by /\ nodes'[n].of = nodes[n].of
                         /\ nodes'[n].up => nodes[n].up,
         astray \subseteq astray',
         ~Idle("cleanup")' \/ This.clear # "deletes",
         \A p \in Persona : Stopped(p)'
  PROVE  PagesInv'
<1>1. \A p \in Persona : Due(p)' = Due(p) /\ (Idle(p)' <=> Idle(p))
  BY DEF Due, Idle
<1>2. ASSUME NEW p \in Persona
      PROVE  Owned(p)' /\ Working(p)' /\ Handle(p)' /\ StaysOpen(p)'
  <2>1. Owned(p) /\ Working(p) /\ Handle(p)  BY DEF PagesInv
  <2>2. Owned(p)'
    <3>1. at[p] \in Node \cup {NoNode} /\ hold[p] \in Node \cup {NoNode}
      BY DEF PagesInv, PagesTypeOK
    <3>. QED BY <2>1, <3>1 DEF Owned
  <2>3. Working(p)'
    <3>1. CASE Due(p) \in {"orbit", "orbit held"}
      <4>1. at[p] \in Node  BY <3>1, Kinds, MakingFacts
      <4>. QED BY <1>1, <2>1, <4>1 DEF Working
    <3>2. CASE Due(p) \notin {"orbit", "orbit held"}
      BY <1>1, <2>1, <3>2 DEF Working
    <3>. QED BY <3>1, <3>2
  <2>4. Handle(p)'  BY <2>1 DEF Handle
  <2>5. StaysOpen(p)'  BY DEF StaysOpen, This
  <2>. QED BY <2>2, <2>3, <2>4, <2>5
<1>3. OneAtATime'  BY <1>1 DEF OneAtATime
<1>4. NoNodeLeaks'  BY DEF PagesInv, NoNodeLeaks, Up
<1>. QED BY <1>2, <1>3, <1>4 DEF PagesInv

\* cleanup() is called: from here on it overlaps, or nobody is under way.
LEMMA CleanupCalled == PagesInv /\ CallCleanup => PagesInv'
<1>. SUFFICES ASSUME PagesInv, CallCleanup  PROVE PagesInv'
  OBVIOUS
<1>. DEFINE w == "cleanup"
<1>1. /\ PagesTypeOK /\ w \in Actor /\ w \notin Persona
      /\ pc' = [pc EXCEPT ![w] = This.cleanup]
      /\ overlap' = (overlap \/ \E p \in Persona : ~Idle(p))
      /\ UNCHANGED <<demo, at, hold, db, nodes, ident, opened, astray>>
  BY DEF PagesInv, CallCleanup, Actor, Persona, world, personas
<1>2. Course(This.cleanup, "close alice", "clear")
  BY <1>1, PagesFit, TheStops DEF PagesTypeOK, This
<1>3. This.cleanup \in Seq(Step) /\ This.cleanup # <<>> /\ Head(This.cleanup) = "close alice"
  BY <1>2, PathBegins
<1>4. InOrder(This.cleanup)
  BY <1>2 DEF InOrder, Step, Ends
<1>5. /\ pc' \in [Actor -> Seq(Step)] /\ pc'[w] = This.cleanup
      /\ \A v \in Actor \ {w} : pc'[v] = pc[v]
  BY <1>1, <1>3 DEF PagesTypeOK
<1>6. PagesTypeOK'
  <2>1. \A v \in Actor : InOrder(pc'[v])  BY <1>1, <1>4, <1>5 DEF PagesTypeOK
  <2>2. overlap' \in BOOLEAN  BY <1>1 DEF PagesTypeOK
  <2>. QED BY <1>1, <1>5, <2>1, <2>2 DEF PagesTypeOK
<1>7. ~Idle(w)' /\ Due(w)' = "close alice"
  BY <1>3, <1>5 DEF Due, Idle
<1>8. ASSUME NEW p \in Persona  PROVE Stopped(p)' /\ pc'[p] = pc[p]
  <2>1. "close alice" \notin Past["alice"] /\ "close alice" \notin Past["bob"]  BY DEF Past
  <2>. QED BY <1>1, <1>5, <1>7, <2>1 DEF Stopped, Persona, Actor
<1>. QED BY <1>1, <1>6, <1>7, <1>8, CleanupStep

\* The three stops of a persona, by name.
LEMMA StopNames ==
  /\ Stops["alice"][1] = "close alice" /\ Stops["alice"][2] = "halt alice"
  /\ Stops["alice"][3] = "stop alice"
  /\ Stops["bob"][1] = "close bob" /\ Stops["bob"][2] = "halt bob" /\ Stops["bob"][3] = "stop bob"
  /\ \A p \in Persona : \A i \in DOMAIN Stops[p] : i \in {1, 2, 3}
<1>1. /\ Stops["alice"] = <<"close alice", "halt alice", "stop alice">>
      /\ Stops["bob"] = <<"close bob", "halt bob", "stop bob">>
  BY DEF Stops
<1>2. \A i \in DOMAIN <<"close alice", "halt alice", "stop alice">> : i \in {1, 2, 3}
  OBVIOUS
<1>3. \A i \in DOMAIN <<"close bob", "halt bob", "stop bob">> : i \in {1, 2, 3}
  OBVIOUS
<1>4. /\ \A i \in DOMAIN Stops["alice"] : i \in {1, 2, 3}
      /\ \A i \in DOMAIN Stops["bob"] : i \in {1, 2, 3}
  BY <1>1, <1>2, <1>3
<1>5. \A p \in Persona : \A i \in DOMAIN Stops[p] : i \in {1, 2, 3}
  BY <1>4 DEF Persona
<1>0. \A q, a, b, c : q = <<a, b, c>> => q[1] = a /\ q[2] = b /\ q[3] = c
  OBVIOUS
<1>6. /\ Stops["alice"][1] = "close alice" /\ Stops["alice"][2] = "halt alice"
      /\ Stops["alice"][3] = "stop alice"
  <2>. DEFINE q == Stops["alice"]
  <2>1. q = <<"close alice", "halt alice", "stop alice">>  BY <1>1
  <2>. HIDE DEF q
  <2>2. q[1] = "close alice" /\ q[2] = "halt alice" /\ q[3] = "stop alice"  BY <1>0, <2>1
  <2>. QED BY <2>2 DEF q
<1>7. /\ Stops["bob"][1] = "close bob" /\ Stops["bob"][2] = "halt bob" /\ Stops["bob"][3] = "stop bob"
  <2>. DEFINE q == Stops["bob"]
  <2>1. q = <<"close bob", "halt bob", "stop bob">>  BY <1>1
  <2>. HIDE DEF q
  <2>2. q[1] = "close bob" /\ q[2] = "halt bob" /\ q[3] = "stop bob"  BY <1>0, <2>1
  <2>. QED BY <2>2 DEF q
<1>. QED BY <1>5, <1>6, <1>7

\* A persona is past its stops by making the last of them, or by a rejection.
LEMMA PastSteps ==
  /\ \A s, t : Then(s, t) /\ t \in Past["alice"] => s = "stop alice" \/ s \in Past["alice"]
  /\ \A s, t : Then(s, t) /\ t \in Past["bob"] => s = "stop bob" \/ s \in Past["bob"]
<1>1. /\ Past["alice"] = {"close bob", "halt bob", "stop bob", "clear"}
      /\ Past["bob"] = {"clear"}
  BY DEF Past
<1>2. \A s, t : Then(s, t) /\ t \in {"close bob", "halt bob", "stop bob", "clear"} =>
                   s \in {"stop alice", "close bob", "halt bob", "stop bob"}
  BY DEF Then, Making, Onwards
<1>3. \A s, t : Then(s, t) /\ t = "clear" => s = "stop bob"
  BY DEF Then, Making, Onwards
<1>. QED BY <1>1, <1>2, <1>3

\* A stop of cleanup(): the last one stops the node.
LEMMA StopsKeep ==
  ASSUME PagesInv, NEW p \in Persona, Stopping(p)
  PROVE  PagesInv'
<1>. DEFINE w == "cleanup"
<1>1. /\ PagesTypeOK /\ w \in Actor /\ w \notin Persona
      /\ UNCHANGED <<demo, overlap, at, hold, db, ident, astray>>
  BY DEF PagesInv, Actor, Persona, Stopping, CloseDatabase, StopOrbit, StopNode, Does, personas
<1>2. PICK s : /\ Does(w, s)
               /\ s \in {"close alice", "halt alice", "stop alice", "close bob", "halt bob", "stop bob"}
               /\ \/ s \notin {"stop alice", "stop bob"} /\ UNCHANGED nodes
                  \/ StopNode(p) /\ s = Stops[p][3]
  <2>1. CASE CloseDatabase(p)  BY <2>1, StopNames DEF CloseDatabase, Persona
  <2>2. CASE StopOrbit(p)  BY <2>2, StopNames DEF StopOrbit, Persona
  <2>3. CASE StopNode(p)  BY <2>3, StopNames DEF StopNode, Persona
  <2>. QED BY <2>1, <2>2, <2>3 DEF Stopping
<1>3. \A q \in Persona : s = Stops[q][3] => StopNode(p) /\ p = q
  BY <1>2, StopNames DEF Persona
<1>5. s \in Step /\ s \notin Ends  BY <1>2 DEF Step, Ends
<1>6. /\ pc' \in [Actor -> Seq(Step)] /\ \A v \in Actor : InOrder(pc[v])'
      /\ \A v \in Actor \ {w} : pc'[v] = pc[v]
      /\ Due(w) = s /\ ~Idle(w) /\ ~Idle(w)' /\ Then(s, Due(w)')
  BY <1>1, <1>2, <1>5, DoesStep
<1>7. ~overlap => \A q \in Persona : Idle(q)
  BY <1>6 DEF PagesInv, OneAtATime
<1>. DEFINE R == [by : Persona \cup {"nobody"}, up : BOOLEAN, of : Origin]
<1>8. nodes \in [Node -> R]  BY <1>1 DEF PagesTypeOK
<1>9. ASSUME NEW r \in R
      PROVE  /\ [r EXCEPT !.up = FALSE] \in R /\ [r EXCEPT !.up = FALSE].by = r.by
             /\ [r EXCEPT !.up = FALSE].of = r.of /\ ~[r EXCEPT !.up = FALSE].up
  OBVIOUS
<1>. HIDE DEF R
<1>10. /\ nodes' \in [Node -> R]
       /\ \A n \in Node : nodes'[n].by = nodes[n].by /\ nodes'[n].of = nodes[n].of
       /\ \A n \in Node : nodes'[n].up => nodes[n].up
       /\ StopNode(p) => \A n \in Node : n = hold[p] => ~nodes'[n].up
  <2>1. CASE StopNode(p)
    <3>1. nodes' = [n \in Node |-> IF n = hold[p] THEN [nodes[n] EXCEPT !.up = FALSE] ELSE nodes[n]]
      BY <2>1 DEF StopNode
    <3>. QED BY <1>8, <1>9, <3>1
  <2>2. CASE ~StopNode(p)  BY <1>2, <1>8, <2>2
  <2>. QED BY <2>1, <2>2
<1>11. PagesTypeOK'  BY <1>1, <1>6, <1>10 DEF PagesTypeOK, R
<1>12. ASSUME NEW q \in Persona  PROVE Stopped(q)'
  <2>. SUFFICES ASSUME ~overlap, Due(w)' \in Past[q], hold[q] \notin astray,
                       hold[q] \in Node, nodes'[hold[q]].up
                PROVE  FALSE
    BY <1>1 DEF Stopped, Up
  <2>1. s = Stops[q][3] \/ s \in Past[q]
    BY <1>6, PastSteps, StopNames DEF Persona
  <2>2. CASE s = Stops[q][3]  BY <1>3, <1>10, <2>2
  <2>3. CASE s \in Past[q]
    <3>1. Stopped(q)  BY DEF PagesInv
    <3>. QED BY <1>6, <1>10, <2>3, <3>1 DEF Stopped, Up
  <2>. QED BY <2>1, <2>2, <2>3
<1>13. \A q \in Persona : pc'[q] = pc[q]  BY <1>1, <1>6 DEF Actor
<1>. QED BY <1>1, <1>6, <1>7, <1>10, <1>11, <1>12, <1>13, CleanupStep

\* A stop that rejects: the node is left behind.
LEMMA SkipsKeep ==
  ASSUME PagesInv, NEW p \in Persona, CannotStop(p)
  PROVE  PagesInv'
<1>. DEFINE w == "cleanup"
            first == IF p = "alice" THEN "close bob" ELSE "clear"
<1>1. /\ PagesTypeOK /\ w \in Actor /\ w \notin Persona
      /\ pc' = [pc EXCEPT ![w] = AfterStops[p]] /\ astray' = astray \cup {hold[p]}
      /\ UNCHANGED <<demo, overlap, at, hold, db, ident, nodes>>
  BY DEF PagesInv, Actor, Persona, CannotStop, personas, world
<1>2. PICK i \in DOMAIN Stops[p] : Due(w) = Stops[p][i]
  BY DEF CannotStop
<1>3. Due(w) \in {"close alice", "halt alice", "stop alice", "close bob", "halt bob", "stop bob"}
      /\ (p = "bob" => Due(w) \in {"close bob", "halt bob", "stop bob"})
  <2>1. i \in {1, 2, 3}  BY <1>2, StopNames
  <2>. QED BY <1>2, <2>1, StopNames DEF Persona
<1>4. ~Idle(w)  BY <1>3 DEF Due
<1>5. ~overlap => \A q \in Persona : Idle(q)
  BY <1>4 DEF PagesInv, OneAtATime
<1>6. Course(AfterStops[p], first, "clear")
  <2>1. CASE p = "alice"  BY <2>1, TheStops
  <2>2. CASE p = "bob"  BY <2>2, TheStops
  <2>. QED BY <2>1, <2>2 DEF Persona
<1>. HIDE DEF first
<1>7. AfterStops[p] \in Seq(Step) /\ AfterStops[p] # <<>> /\ Head(AfterStops[p]) = first
  BY <1>6, PathBegins
<1>8. InOrder(AfterStops[p])
  <2>1. first \in Step  BY DEF first, Step
  <2>2. "clear" \in Ends  BY DEF Ends
  <2>. QED BY <1>6, <2>1, <2>2 DEF InOrder
<1>9. /\ pc' \in [Actor -> Seq(Step)] /\ pc'[w] = AfterStops[p]
      /\ \A v \in Actor \ {w} : pc'[v] = pc[v]
  BY <1>1, <1>7 DEF PagesTypeOK
<1>10. PagesTypeOK'
  <2>1. \A v \in Actor : InOrder(pc'[v])  BY <1>1, <1>8, <1>9 DEF PagesTypeOK
  <2>. QED BY <1>1, <1>9, <2>1 DEF PagesTypeOK
<1>11. ~Idle(w)' /\ Due(w)' = first
  BY <1>7, <1>9 DEF Due, Idle
<1>12. ASSUME NEW q \in Persona  PROVE Stopped(q)' /\ pc'[q] = pc[q]
  <2>1. Stopped(q)  BY DEF PagesInv
  <2>2. CASE q = p  BY <1>1, <1>9, <2>2 DEF Stopped, Actor
  <2>3. CASE q # p
    <3>1. CASE q = "bob"
      <4>1. first \notin Past[q]  BY <2>3, <3>1 DEF Past, Persona, first
      <4>. QED BY <1>1, <1>9, <1>11, <4>1 DEF Stopped, Actor
    <3>2. CASE q = "alice"
      <4>1. p = "bob"  BY <2>3, <3>2 DEF Persona
      <4>2. Due(w) \in Past[q]  BY <1>3, <3>2, <4>1 DEF Past
      <4>. QED BY <1>1, <1>9, <2>1, <4>2 DEF Stopped, Actor, Up
    <3>. QED BY <3>1, <3>2 DEF Persona
  <2>. QED BY <2>2, <2>3
<1>. QED BY <1>1, <1>5, <1>10, <1>11, <1>12, CleanupStep

\* The reset, once both personas are past their stops, and one that rejects.
LEMMA ResetKeeps == PagesInv /\ (ClearAndReset \/ ClearRejects) => PagesInv'
<1>. SUFFICES ASSUME PagesInv, ClearAndReset \/ ClearRejects  PROVE PagesInv'
  OBVIOUS
<1>. DEFINE w == "cleanup"
<1>1. /\ PagesTypeOK /\ w \in Actor /\ w \notin Persona /\ Does(w, "clear")
      /\ UNCHANGED <<demo, overlap, at, nodes, opened, astray>>
  BY DEF PagesInv, ClearAndReset, ClearRejects, Actor, Persona, Does, world
<1>2. "clear" \in Step  BY DEF Step
<1>3. /\ pc' \in [Actor -> Seq(Step)] /\ \A v \in Actor : InOrder(pc[v])'
      /\ \A v \in Actor \ {w} : pc'[v] = pc[v] /\ Due(v)' = Due(v) /\ (Idle(v)' <=> Idle(v))
      /\ Due(w) = "clear" /\ ~Idle(w) /\ Due(w)' = "nothing"
  <2>1. \A t : ~Then("clear", t)  BY DEF Then, Onwards
  <2>. QED BY <1>1, <1>2, <2>1, DoesStep
<1>4. \A p \in Persona : p \in Actor \ {w}  BY <1>1 DEF Actor
<1>5. ~overlap => \A p \in Persona : Idle(p) /\ Due(p) = "nothing" /\ at[p] = NoNode
  <2>1. ~overlap => \A p \in Persona : Idle(p)  BY <1>3 DEF PagesInv, OneAtATime
  <2>2. \A p \in Persona : Idle(p) => Due(p) = "nothing"  BY DEF Due
  <2>3. \A p \in Persona : Due(p) = "nothing" => at[p] = NoNode
    BY Kinds DEF PagesInv, Working
  <2>. QED BY <2>1, <2>2, <2>3
<1>6. \A p \in Persona : "nothing" \notin Past[p]
  <2>1. "nothing" \notin Past["alice"] /\ "nothing" \notin Past["bob"]  BY DEF Past
  <2>. QED BY <2>1 DEF Persona
<1>7. CASE ClearRejects
  <2>1. This.clear # "deletes" /\ UNCHANGED <<hold, db, ident>>
    BY <1>7 DEF ClearRejects, personas
  <2>2. PagesTypeOK'  BY <1>1, <1>3, <2>1 DEF PagesTypeOK
  <2>3. \A p \in Persona : Stopped(p)' /\ pc'[p] = pc[p]
    BY <1>3, <1>4, <1>6 DEF Stopped
  <2>. QED BY <1>1, <1>5, <2>1, <2>2, <2>3, CleanupStep
<1>8. CASE ClearAndReset
  <2>1. /\ hold' = [p \in Persona |-> NoNode] /\ db' = [p \in Persona |-> NoHandle]
        /\ ident' = [p \in Persona |-> "none"]
    BY <1>8 DEF ClearAndReset
  <2>2. PagesTypeOK'
    BY <1>1, <1>3, <2>1 DEF PagesTypeOK, HandleSet, NoHandle, Origin
  <2>3. ASSUME NEW p \in Persona
        PROVE  Owned(p)' /\ Working(p)' /\ Stopped(p)' /\ Handle(p)' /\ StaysOpen(p)'
    <3>1. hold'[p] = NoNode /\ db'[p] = NoHandle /\ at'[p] = at[p]  BY <1>1, <2>1
    <3>2. Owned(p) /\ Working(p)  BY DEF PagesInv
    <3>3. Owned(p)'  BY <1>1, <3>1, <3>2 DEF Owned
    <3>4. Due(p)' = Due(p) /\ ~overlap => Due(p)' = "nothing"  BY <1>3, <1>4, <1>5
    <3>5. Due(p)' = Due(p)  BY <1>3, <1>4
    <3>6. Working(p)'
      <4>1. CASE overlap  BY <1>1, <3>1, <3>2, <3>5, <4>1 DEF Working
      <4>2. CASE ~overlap  BY <1>1, <1>5, <3>5, <4>2, Kinds DEF Working
      <4>. QED BY <4>1, <4>2
    <3>7. Stopped(p)'  BY <1>3, <1>6 DEF Stopped
    <3>8. Handle(p)' /\ StaysOpen(p)'  BY <3>1 DEF Handle, StaysOpen
    <3>. QED BY <3>3, <3>6, <3>7, <3>8
  <2>4. OneAtATime'
    <3>1. Idle(w)'
      <4>1. "nothing" \notin Step  BY DEF Step
      <4>2. InOrder(pc'[w])  BY <1>1, <1>3
      <4>3. pc'[w] # <<>> => Head(pc'[w]) \in Step  BY <4>2, InOrderTail
      <4>4. pc'[w] # <<>> => Due(w)' = Head(pc'[w])  BY DEF Due, Idle
      <4>. QED BY <1>3, <4>1, <4>3, <4>4 DEF Idle
    <3>. QED BY <3>1 DEF OneAtATime
  <2>5. NoNodeLeaks'
    <3>. SUFFICES ASSUME ~overlap, NEW n \in Node, nodes[n].up  PROVE n \in astray
      BY <1>1 DEF NoNodeLeaks, Up
    <3>1. n \in astray \/ \E p \in Persona : n \in {hold[p], at[p]}
      BY DEF PagesInv, NoNodeLeaks, Up
    <3>2. ASSUME NEW p \in Persona, n = hold[p]  PROVE n \in astray
      <4>1. Stopped(p)  BY DEF PagesInv
      <4>2. "clear" \in Past[p]
        <5>1. "clear" \in Past["alice"] /\ "clear" \in Past["bob"]  BY DEF Past
        <5>. QED BY <5>1 DEF Persona
      <4>. QED BY <1>3, <3>2, <4>1, <4>2 DEF Stopped, Up
    <3>. QED BY <1>5, <3>1, <3>2, NodesAreSome
  <2>. QED BY <2>2, <2>3, <2>4, <2>5 DEF PagesInv
<1>. QED BY <1>7, <1>8

\* The page as it is loaded.
LEMMA PagesStart == PagesInit => PagesInv
<1>. SUFFICES ASSUME PagesInit  PROVE PagesInv
  OBVIOUS
<1>1. PagesTypeOK
  <2>1. <<>> \in Seq(Step) /\ InOrder(<<>>)  BY EmptySeq DEF InOrder
  <2>2. [by |-> "nobody", up |-> FALSE, of |-> "none"] \in
          [by : Persona \cup {"nobody"}, up : BOOLEAN, of : Origin]
    BY DEF Origin
  <2>4. nodes = [n \in Node |-> [by |-> "nobody", up |-> FALSE, of |-> "none"]]
    BY DEF PagesInit, Blank
  <2>. DEFINE R == [by : Persona \cup {"nobody"}, up : BOOLEAN, of : Origin]
              r == [by |-> "nobody", up |-> FALSE, of |-> "none"]
  <2>5. r \in R /\ nodes = [n \in Node |-> r]  BY <2>2, <2>4
  <2>. HIDE DEF R, r
  <2>6. nodes \in [Node -> R]  BY <2>5
  <2>3. nodes \in [Node -> [by : Persona \cup {"nobody"}, up : BOOLEAN, of : Origin]]
    BY <2>6 DEF R
  <2>7. pc \in [Actor -> Seq(Step)] /\ \A w \in Actor : InOrder(pc[w])
    BY <2>1 DEF PagesInit
  <2>8. at \in [Persona -> Node \cup {NoNode}] /\ hold \in [Persona -> Node \cup {NoNode}]
    BY DEF PagesInit
  <2>9. NoHandle \in HandleSet  BY DEF NoHandle, HandleSet
  <2>10. db \in [Persona -> HandleSet]  BY <2>9 DEF PagesInit
  <2>11. ident \in [Persona -> Origin]  BY DEF PagesInit, Origin
  <2>12. demo \in DOMAIN Pages /\ overlap \in BOOLEAN  BY DEF PagesInit
  <2>. QED BY <2>3, <2>7, <2>8, <2>10, <2>11, <2>12 DEF PagesTypeOK
<1>2. \A w \in Actor : Idle(w) /\ Due(w) = "nothing"
  BY DEF PagesInit, Idle, Due
<1>3. "cleanup" \in Actor /\ \A p \in Persona : p \in Actor  BY DEF Actor
<1>4. ASSUME NEW p \in Persona
      PROVE  Owned(p) /\ Working(p) /\ Stopped(p) /\ Handle(p) /\ StaysOpen(p)
  <2>1. at[p] = NoNode /\ hold[p] = NoNode /\ db[p] = NoHandle  BY DEF PagesInit
  <2>2. "nothing" \notin Past["alice"] /\ "nothing" \notin Past["bob"]  BY DEF Past
  <2>3. Working(p)  BY <1>2, <1>3, <2>1, Kinds DEF Working
  <2>4. Stopped(p)  BY <1>2, <1>3, <2>2 DEF Stopped, Persona
  <2>. QED BY <2>1, <2>3, <2>4 DEF Owned, Handle, StaysOpen
<1>5. OneAtATime  BY <1>2, <1>3 DEF OneAtATime
<1>6. NoNodeLeaks
  <2>1. \A n \in Node : ~nodes[n].up  BY DEF PagesInit, Blank
  <2>. QED BY <2>1 DEF NoNodeLeaks, Up
<1>. QED BY <1>1, <1>4, <1>5, <1>6 DEF PagesInv

\* One case per kind of await.
LEMMA PagesStep == PagesInv /\ [PagesNext]_pageVars => PagesInv'
<1>. SUFFICES ASSUME PagesInv, [PagesNext]_pageVars  PROVE PagesInv'
  OBVIOUS
<1>1. CASE UNCHANGED pageVars
  BY <1>1, Untouched DEF pageVars, acts, world, personas, history
<1>2. CASE \/ \E m \in {"credentials", "client", "backend"} : LogIn(m)
           \/ LogOut \/ ToggleIdentity
           \/ \E p \in Persona : AddressReady(p)
           \/ \E m, n \in Node : Replicate(m, n)
  BY <1>2, Untouched DEF LogIn, LogOut, ToggleIdentity, AddressReady, Replicate,
                         acts, world, personas, history
<1>3. CASE \E p \in Persona : \E f \in DOMAIN This.buttons[p] : Call(p, f)
  BY <1>3, PressKeeps
<1>4. CASE \/ MakeShared \/ MakeBoth \/ MakeOwn \/ Peek \/ Check
           \/ \E p \in Persona : Wait(p) \/ Put(p) \/ Show(p)
  BY <1>4, QuietAwaits
<1>5. CASE \E p \in Persona : StartNode(p)  BY <1>5, StartKeeps
<1>6. CASE \E p \in Persona : CreateOrbit(p) \/ CreateOrbitHeld(p)  BY <1>6, OrbitKeeps
<1>7. CASE \E p \in Persona : OpenDatabase(p)  BY <1>7, OpenKeeps
<1>8. CASE OpenShared  BY <1>8, SharedKeeps
<1>9. CASE Backup \/ RestoreEntries \/ RestoreByCID \/ RestoreKept \/ RestoreBreaks \/ ShowRestored
  BY <1>9, BackupKeeps, EntriesKeep, ByCIDKeeps, KeptKeeps, BreaksKeeps, ShowKeeps
<1>10. CASE \E p \in Persona : Refuse(p) \/ Fail(p)  BY <1>10, RejectKeeps
<1>11. CASE CallCleanup  BY <1>11, CleanupCalled
<1>12. CASE \E p \in Persona : Stopping(p) \/ CannotStop(p)  BY <1>12, StopsKeep, SkipsKeep
<1>13. CASE ClearAndReset \/ ClearRejects  BY <1>13, ResetKeeps
<1>. QED BY <1>1, <1>2, <1>3, <1>4, <1>5, <1>6, <1>7, <1>8, <1>9, <1>10, <1>11, <1>12, <1>13
         DEF PagesNext

\* The invariant of the pages.
LEMMA PagesAlways == PagesSpec => []PagesInv
BY PagesStart, PagesStep, PTL DEF PagesSpec

\* NoNodeLeaks: whatever is pressed when, on each of the five pages and whatever
\* rejects, a node that runs is the page's or its maker's, for cleanup() to stop.
THEOREM NodesAreFound == PagesSpec => []NoNodeLeaks
<1>1. PagesInv => NoNodeLeaks  BY DEF PagesInv
<1>. QED BY <1>1, PagesAlways, PTL

\* HandlesOpen: a handle a button uses is of an open database, across the restores
\* that close and reopen Bob's.
THEOREM HandlesStayOpen == PagesSpec => []HandlesOpen
<1>1. PagesInv => HandlesOpen  BY DEF PagesInv, StaysOpen, HandlesOpen
<1>. QED BY <1>1, PagesAlways, PTL

===============================================================================
