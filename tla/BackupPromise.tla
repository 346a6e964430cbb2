--------------------------- MODULE BackupPromise ---------------------------
(***************************************************************************)
(* What an incremental backup promises, with the machinery left out: an    *)
(* entry is written, later it is in an archive that can be restored from,  *)
(* and only then does the watcher count it as backed up, in memory or in   *)
(* the state a restart resumes from.  LiveBackup implements this.          *)
(***************************************************************************)

CONSTANT Entry  \* every log entry that may ever be written

VARIABLES
  written,   \* the entries of the application's databases
  archived,  \* those that can be had back without the databases
  counted,   \* those the running watcher passes over
  resumed    \* those it passes over after a restart

Init == written = {} /\ archived = {} /\ counted = {} /\ resumed = {}

\* The databases only grow.
Write ==
  /\ written' \in SUBSET Entry /\ written \subseteq written'
  /\ UNCHANGED <<archived, counted, resumed>>

\* Something written reaches the archive, which forgets nothing: by an upload, or by
\* the backup that a rebase() says was made.
Archive ==
  /\ archived' \in SUBSET written /\ archived \subseteq archived'
  /\ UNCHANGED <<written, counted, resumed>>

\* The watcher counts anew: after an upload, a restart, an unwatch.
Count ==
  /\ counted' \in SUBSET archived
  /\ UNCHANGED <<written, archived, resumed>>

\* What the watcher will resume from is made durable.
Save ==
  /\ resumed' \in SUBSET archived
  /\ UNCHANGED <<written, archived, counted>>

Next == Write \/ Archive \/ Count \/ Save

Spec == Init /\ [][Next]_<<written, archived, counted, resumed>>

=============================================================================
