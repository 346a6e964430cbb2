------------------------------ MODULE LogGraph ------------------------------
(***************************************************************************)
(* The graph of an OrbitDB log: signed entries that point back at others.  *)
(* What lib/live-backup.js and lib/courier-sync.js compute about it is      *)
(* reachability, stated here as the least set that is closed.              *)
(***************************************************************************)

CONSTANTS
  Entry,  \* every log entry that may ever be written
  next    \* next[e]: the entries e points back to (fixed when e is signed)

ASSUME NextAssumption == next \in [Entry -> SUBSET Entry]

\* log.heads(): what nothing in the log points at.
Heads(L) == {e \in L : \A f \in L : e \notin next[f]}

\* An entry names those it points at by their hashes, so there is no circle: some
\* entry of any of them is one that none of them points at.
ASSUME GraphAssumption == \A S \in SUBSET Entry : S # {} => Heads(S) # {}

\* Everything reached from H; what is in lost is reached, and nothing behind it.
Reach(H, lost) ==
  {e \in Entry : \A X \in SUBSET Entry :
     (H \subseteq X /\ \A x \in X \ lost : next[x] \subseteq X) => e \in X}

Past(H) == Reach(H, {})

\* Mutant of Walk: the heads alone, and nothing behind them.
M_WalkHeadsOnly(H, done, lost) == H \ done

\* A walk down from the heads H that stops at what is done and does not get past
\* what is lost.  The heads themselves are at hand.
Walk(H, done, lost) ==
  {e \in Entry : \A X \in SUBSET Entry :
     ( /\ H \ done \subseteq X
       /\ \A x \in X : next[x] \ (done \cup lost) \subseteq X ) => e \in X}

=============================================================================
