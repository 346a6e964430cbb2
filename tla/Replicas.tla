------------------------------ MODULE Replicas ------------------------------
(***************************************************************************)
(* What courier-sync promises about logs, whatever carries the messages: a *)
(* peer's log changes by a local write, which points at its heads, or by   *)
(* taking over heads of another peer's log together with all behind them.  *)
(* Nothing is taken back, and nothing appears that nobody wrote.           *)
(***************************************************************************)
EXTENDS LogGraph

CONSTANTS Peer, Seed

VARIABLE log

Init == log = Seed

Write(p, e) ==
  /\ next[e] = Heads(log[p])
  /\ \A q \in Peer : e \notin log[q]
  /\ log' = [log EXCEPT ![p] = @ \cup {e}]

TakeOver(p, q) ==
  \E H \in SUBSET log[q] : log' = [log EXCEPT ![p] = @ \cup Past(H)]

Next ==
  \E p \in Peer :
    \/ \E e \in Entry : Write(p, e)
    \/ \E q \in Peer : TakeOver(p, q)

Spec == Init /\ [][Next]_log

=============================================================================
