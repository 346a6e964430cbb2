--------------------------- MODULE MCCourierSync ---------------------------
(* Small instances of CourierSync for TLC. *)
EXTENDS CourierSync

CONSTANTS a, b, c

\* A line of two entries: whoever has the first may write the second.
Line == [e \in 1..2 |-> IF e = 1 THEN {} ELSE {1}]

\* Who has a database has its first entry.
Rooted == [p \in Peer |-> IF p \in Joiner THEN {} ELSE {1}]

\* a has all there is, c what came first, b nothing yet.
Stairs == [p \in Peer |-> CASE p = a -> Entry [] p = c -> {1} [] OTHER -> {}]

Unmetered == -1

=============================================================================
