----------------------------- MODULE MCParts --------------------------------
(* Five parts that share no state: one instance for TLC checks each of them  *)
(* while the others stand still.                                             *)
EXTENDS AlephAccount, AlephGrants, CarStorage, TodoPages, Recovery, TLC

VARIABLE part

Init == /\ AccountInit /\ GrantsInit /\ CarInit /\ PagesInit /\ RecoveryInit
        /\ part \in {"account", "grants", "storage", "pages", "recovery"}
        /\ part # "account" => told          \* one state of those that stand still
        /\ part # "pages" => demo = "todo"

Next == /\ UNCHANGED part
        /\ \/ part = "account" /\ AccountNext
              /\ UNCHANGED <<grantVars, carVars, pageVars, phoneVars>>
           \/ part = "grants" /\ GrantsNext
              /\ UNCHANGED <<acctVars, carVars, pageVars, phoneVars>>
           \/ part = "storage" /\ CarNext
              /\ UNCHANGED <<acctVars, grantVars, pageVars, phoneVars>>
           \/ part = "pages" /\ PagesNext
              /\ UNCHANGED <<acctVars, grantVars, carVars, phoneVars>>
           \/ part = "recovery" /\ RecoveryNext
              /\ UNCHANGED <<acctVars, grantVars, carVars, pageVars>>

Phones == Permutations(Phone)

Spec == Init /\ [][Next]_<<part, acctVars, grantVars, carVars, pageVars, phoneVars>>

=============================================================================
