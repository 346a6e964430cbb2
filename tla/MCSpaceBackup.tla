--------------------------- MODULE MCSpaceBackup ---------------------------
(* Small instances of SpaceBackup for TLC. *)
EXTENDS SpaceBackup

\* 2 comes after 1; 3 is of another writer, who had not heard of them.  The other
\* database is empty.
Fork  == [e \in 1..3 |-> IF e = 2 THEN {1} ELSE {}]
Signs == [e \in 1..3 |-> IF e = 3 THEN 32 ELSE 31]
Home  == [e \in 1..3 |-> "todos"]
Books == [d \in {"todos", "notes"} |-> IF d = "todos" THEN 11 ELSE 12]
Acl   == [d \in {"todos", "notes"} |-> IF d = "todos" THEN 21 ELSE 22]
Kinds == [e \in 1..3 |-> IF e = 1 THEN "document" ELSE "deletion"]
Names == [d \in {"todos", "notes"} |-> IF d = "todos" THEN "default" ELSE "other"]

\* What the properties cannot see is left out: writing while a backup or a restore is
\* under way, or for no backup still to come, which nothing reads before the next
\* backup; uploading once the restore has the listing it works from; clearing once it
\* has begun, which excuses it from all it promises.  To keep the run small, and this
\* does leave cases out, uploads go on under two of the plans, and those two are the ones
\* followed where there was a clearing and are two backups, a fault and a clearing in one
\* run are a fault of the clearing, a backup with UCAN is the only one, and 3 is written
\* before 2.
Bounded ==
  /\ source' # source \/ lag' # lag =>
       restores < MaxRestores \/ (step \in {"look", "scan"} /\ plan \in {"auto", "blocks"})
  /\ log' # log => Len(made) < MaxBackups /\ job = "none" /\ Quiet
  /\ clear' # clear => restores < MaxRestores
  /\ clears' > clears => faults = 0
  /\ faults' > faults /\ clears' = 1 => clear' # clear
  /\ Len(made') = 2 => "ucan" \notin {made'[k].how : k \in 1..2}
  /\ clears' = 1 /\ Len(made') = 2 => plan' \in {plan, "auto", "blocks"}
  /\ 2 \in log'["todos"] => 3 \in log'["todos"]

=============================================================================
