----------------------------- MODULE MCHandover -----------------------------
(* A small instance of Handover for TLC, and one of CourierOps: two parts    *)
(* that share no state, each checked while the other stands still.           *)
EXTENDS Handover, CourierOps

VARIABLE part

ApartInit == /\ Init /\ OpsInit /\ part \in {"handover", "courier"}
             /\ part # "courier" => eager        \* one state of what stands still

ApartNext == /\ UNCHANGED part
             /\ \/ part = "handover" /\ Next /\ UNCHANGED opsVars
                \/ part = "courier" /\ OpsNext /\ UNCHANGED vars

ApartSpec == ApartInit /\ [][ApartNext]_<<part, vars, opsVars>>

\* The third member is withEncryption() around a backend that is called aleph too.
Services == <<"aleph", "storacha", "vault">>
Names    == [m \in {"aleph", "storacha", "vault"} |-> IF m = "vault" THEN "encrypted(aleph)" ELSE m]
Carried  == [m \in {"aleph", "storacha", "vault"} |-> IF m = "vault" THEN "aleph" ELSE m]
Kinds    == [m \in {"aleph", "storacha", "vault"} |->
               CASE m = "aleph" -> "unixfs" [] m = "storacha" -> "raw" [] m = "vault" -> "sealed"]
\* The second gateway finds what the third member has as well.
Reach    == <<{"aleph", "storacha"}, {"aleph", "vault"}>>
Two      == <<1, 2>>
Agree    == [d \in Device |-> 0]
Writers  == Permutations(Device)

\* What the properties cannot see is left out: all that goes on at the writers once
\* the reader has its pointer, but for the loss of what it reads, and a loss or a pin
\* before there is a reader.  The reader starts once something was published, meets a
\* fault only where the writers are at rest, and both writers encrypt, or neither;
\* members refuse or drop something, and are asked to keep something, only while there
\* is one backup, and only where there is one is the key tried that does not fit.
Reading == step \in {"metadata", "car"}
Bounded == part = "handover" =>
  /\ Reading => UNCHANGED <<clock, dehydrating, pinned>>
  /\ held' # held /\ lost' # lost => step = "resolve" \/ (Reading /\ \E b \in lost' \ lost : b[2] = pointer)
  /\ pinned' # pinned => step = "resolve" /\ Len(made) = 1
  /\ step' = "resolve" => order # <<>>
  /\ faults' # faults /\ (step = "resolve" \/ Reading) /\ UNCHANGED dehydrating
       => flight = {} /\ \A d \in Device : job[d] = "idle"
  /\ faults' # faults /\ held' # held => Len(made) = 1
  /\ Len(made') = 2 => made'[1].secret = made'[2].secret
  /\ calls' # calls /\ Len(made) = 2 => key' = made[1].secret
  /\ step \notin Verdicts

=============================================================================
