-------------------------- MODULE LogGraph_proofs --------------------------
(***************************************************************************)
(* Lemmas about reachability in a log, for every graph.                    *)
(***************************************************************************)
EXTENDS LogGraph, TLAPS

\* What is reached are entries.
LEMMA ReachIsEntries ==
  ASSUME NEW H, NEW lost PROVE Reach(H, lost) \subseteq Entry
BY DEF Reach

\* The past of a set contains the set.
LEMMA PastExtends ==
  ASSUME NEW H \in SUBSET Entry PROVE H \subseteq Past(H)
BY DEF Past, Reach

\* The past of a set is closed under next.
LEMMA PastIsClosed ==
  ASSUME NEW H \in SUBSET Entry, NEW x \in Past(H) PROVE next[x] \subseteq Past(H)
<1>1. x \in Entry /\ next[x] \subseteq Entry
  BY NextAssumption, ReachIsEntries DEF Past
<1>. SUFFICES ASSUME NEW y \in next[x], NEW X \in SUBSET Entry,
                     H \subseteq X, \A z \in X \ {} : next[z] \subseteq X
              PROVE  y \in X
  BY <1>1 DEF Past, Reach
<1>2. x \in X
  BY DEF Past, Reach
<1>. QED
  BY <1>2

\* It is the least such set.
LEMMA PastIsLeast ==
  ASSUME NEW H \in SUBSET Entry, NEW X \in SUBSET Entry,
         H \subseteq X, \A x \in X : next[x] \subseteq X
  PROVE  Past(H) \subseteq X
BY DEF Past, Reach

\* What is in the past of K has its own past there.
LEMMA PastOfPast ==
  ASSUME NEW H \in SUBSET Entry, NEW K \in SUBSET Entry, H \subseteq Past(K)
  PROVE  Past(H) \subseteq Past(K)
BY ReachIsEntries, PastIsClosed, PastIsLeast DEF Past

\* The past of a union adds nothing.
LEMMA PastOfUnion ==
  ASSUME NEW A \in SUBSET Entry, NEW B \in SUBSET Entry
  PROVE  Past(A \cup B) \subseteq Past(A) \cup Past(B)
<1>. DEFINE X == Past(A) \cup Past(B)
<1>1. X \in SUBSET Entry
  BY ReachIsEntries DEF Past
<1>2. A \cup B \subseteq X
  BY PastExtends
<1>3. \A x \in X : next[x] \subseteq X
  BY PastIsClosed
<1>. QED
  BY <1>1, <1>2, <1>3, PastIsLeast

\* Neither does that of the union of many sets: what holds the past of each holds
\* the past of all.
LEMMA PastOfMany ==
  ASSUME NEW F \in SUBSET (SUBSET Entry), NEW X, \A f \in F : Past(f) \subseteq X
  PROVE  Past(UNION F) \subseteq X
<1>. DEFINE Y == UNION {Past(f) : f \in F}
<1>1. Y \in SUBSET Entry
  BY ReachIsEntries DEF Past
<1>2. UNION F \subseteq Y
  BY PastExtends
<1>3. ASSUME NEW x \in Y PROVE next[x] \subseteq Y
  <2>1. PICK f \in F : x \in Past(f)
    OBVIOUS
  <2>. QED
    BY <2>1, PastIsClosed
<1>. HIDE DEF Y
<1>4. Past(UNION F) \subseteq Y
  BY <1>1, <1>2, <1>3, PastIsLeast
<1>. QED
  BY <1>4 DEF Y

\* The past of nothing is nothing.
LEMMA PastOfNothing == Past({}) = {}
BY PastIsLeast

\* A walk stays in the past of the heads.
LEMMA WalkInPast ==
  ASSUME NEW H \in SUBSET Entry, NEW done
  PROVE  Walk(H, done, {}) \subseteq Past(H)
<1>. SUFFICES ASSUME NEW e \in Walk(H, done, {}) PROVE e \in Past(H)
  OBVIOUS
<1>1. Past(H) \in SUBSET Entry
  BY ReachIsEntries DEF Past
<1>2. H \ done \subseteq Past(H)
  BY PastExtends
<1>3. \A x \in Past(H) : next[x] \ (done \cup {}) \subseteq Past(H)
  BY PastIsClosed
<1>. QED
  BY <1>1, <1>2, <1>3 DEF Walk

\* The walk contains the heads that are not done, and follows what is not done.
LEMMA WalkIsClosed ==
  ASSUME NEW H \in SUBSET Entry, NEW done
  PROVE  /\ Walk(H, done, {}) \subseteq Entry
         /\ H \ done \subseteq Walk(H, done, {})
         /\ \A x \in Walk(H, done, {}) : next[x] \ done \subseteq Walk(H, done, {})
<1>1. Walk(H, done, {}) \subseteq Entry /\ H \ done \subseteq Walk(H, done, {})
  BY DEF Walk
<1>2. ASSUME NEW x \in Walk(H, done, {}), NEW y \in next[x] \ done,
             NEW X \in SUBSET Entry, H \ done \subseteq X,
             \A z \in X : next[z] \ (done \cup {}) \subseteq X
      PROVE  y \in X
  <2>1. x \in X
    BY <1>2 DEF Walk
  <2>. QED
    BY <1>2, <2>1
<1>3. ASSUME NEW x \in Walk(H, done, {}) PROVE next[x] \subseteq Entry
  BY <1>1, <1>3, NextAssumption
<1>. QED
  BY <1>1, <1>2, <1>3 DEF Walk

\* What the walk stops at accounts for the rest of the past: a walk misses
\* nothing that is not behind something done.
LEMMA WalkCovers ==
  ASSUME NEW H \in SUBSET Entry, NEW done \in SUBSET Entry
  PROVE  Past(H) \subseteq Walk(H, done, {}) \cup Past(done)
<1>. DEFINE X == Walk(H, done, {}) \cup Past(done)
<1>1. X \in SUBSET Entry
  BY WalkIsClosed, ReachIsEntries DEF Past
<1>2. H \subseteq X
  BY WalkIsClosed, PastExtends
<1>3. \A x \in X : next[x] \subseteq X
  BY WalkIsClosed, PastExtends, PastIsClosed
<1>. QED
  BY <1>1, <1>2, <1>3, PastIsLeast

\* The heads of a log without holes have all of it behind them.
LEMMA HeadsReachAll ==
  ASSUME NEW L \in SUBSET Entry, \A x \in L : next[x] \subseteq L
  PROVE  Past(Heads(L)) = L
<1>. DEFINE P == Past(Heads(L))
            T == L \ P
<1>1. Heads(L) \in SUBSET Entry /\ P \in SUBSET Entry
  BY ReachIsEntries DEF Past, Heads
<1>2. P \subseteq L
  BY <1>1, PastIsLeast DEF Heads
<1>3. ASSUME T # {} PROVE FALSE
  <2>1. PICK e \in T : \A f \in T : e \notin next[f]
    BY <1>3, GraphAssumption DEF Heads
  <2>2. e \notin Heads(L)
    BY <1>1, <2>1, PastExtends
  <2>3. PICK f \in L : e \in next[f]
    BY <2>1, <2>2 DEF Heads
  <2>4. f \in P
    BY <2>1, <2>3
  <2>. QED
    BY <1>1, <2>1, <2>3, <2>4, PastIsClosed
<1>. QED
  BY <1>2, <1>3

\* A walk that starts at the heads of a log without holes misses nothing of it but what
\* was done before.
LEMMA WalkMissesNothing ==
  ASSUME NEW L \in SUBSET Entry, \A x \in L : next[x] \subseteq L,
         NEW done \in SUBSET Entry, \A x \in done : next[x] \subseteq done
  PROVE  L \subseteq done \cup Walk(Heads(L), done, {})
<1>1. Past(Heads(L)) = L /\ Heads(L) \in SUBSET Entry
  BY HeadsReachAll DEF Heads
<1>2. Past(done) \subseteq done
  BY PastIsLeast
<1>. QED
  BY <1>1, <1>2, WalkCovers

=============================================================================
