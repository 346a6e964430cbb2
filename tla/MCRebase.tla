------------------------------ MODULE MCRebase ------------------------------
(* rebase() of LiveBackup for TLC, in one run beside a watcher that is       *)
(* started and stopped, and beside databases that come and go.  Both at once *)
(* are out of reach.                                                         *)
EXTENDS LiveBackup

\* Two logs of one writer each, 2 on top of 1 and 4 on top of 3: what is written first
\* decides which of the two the run goes on with.
Lines == [e \in 1..4 |-> IF e \in {1, 3} THEN {} ELSE {e - 1}]

Steady == \A d \in Db : log[d] \subseteq {1, 2}
Moving == \A d \in Db : log[d] \subseteq {3, 4}

\* Over the first log, every database is watched all the time.  Over the second they
\* come and go, but the watcher stands still, so that no flush overtakes a rebase(), and
\* log.heads() answers.  Only over the first, and before a rebase(), may a pin be undecided.
Beside ==
  /\ IF Steady' THEN watched' = Db
     ELSE Moving' /\ faults' = 0 /\ ~running' /\ ~overtaken' /\ pc'["start"] = "idle"
  /\ (Steady' /\ rebases' = 0) \/ \A i \in DOMAIN blobs' : blobs'[i].status # "pending"
=============================================================================
