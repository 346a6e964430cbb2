---------------------------- MODULE MCLiveBackup ----------------------------
(* Small instances of LiveBackup, with IncrementRestore, for TLC. *)
EXTENDS IncrementRestore

\* One writer: 2 points at 1.
Line == [e \in 1..2 |-> IF e = 1 THEN {} ELSE {1}]

\* Two writers: 2 and 3 both point at 1, a fork that a walk from 3's side has
\* to follow past what 2 has shipped.
Fork == [e \in 1..3 |-> IF e = 1 THEN {} ELSE {1}]

=============================================================================
