---------------------------- MODULE MCFullBackup ----------------------------
(* Small instances of FullBackup for TLC. *)
EXTENDS FullBackup

\* 2 and 3 both point at 1, in one database; 4 is all of the other.
Fork == [e \in 1..4 |-> IF e \in {2, 3} THEN {1} ELSE {}]
Home == [e \in 1..4 |-> IF e = 4 THEN "notes" ELSE "todos"]
Books     == [d \in {"todos", "notes"} |-> IF d = "todos" THEN 11 ELSE 12]
Acl       == [d \in {"todos", "notes"} |-> IF d = "todos" THEN 21 ELSE 22]
\* 3 was signed by another device.
Signer    == [e \in 1..4 |-> IF e = 3 THEN 32 ELSE 31]

=============================================================================
