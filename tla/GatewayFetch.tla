---------------------------- MODULE GatewayFetch ----------------------------
(***************************************************************************)
(* One read by address, as fetchFromGateways() of lib/gateway-fetch.js and  *)
(* createGatewayFirstFetch() and createPeerFetch() of lib/peer-fetch.js     *)
(* make it: each gateway in turn, each up to three times, and then the      *)
(* peers, if there are any to ask.                                          *)
(***************************************************************************)
EXTENDS Sequences, FiniteSets, Naturals

CONSTANTS
  gateways,    \* the gateways, in the order they are asked in
  hashed       \* the kinds of address that bytes are checked against

MaxAttempts == 3   \* MAX_ATTEMPTS_PER_GATEWAY

VARIABLES
  want,     \* the address, or <<>>
  peers,    \* the peers are asked if no gateway has it
  at,       \* the gateway that is being asked
  attempt,  \* and how often it was
  bytes,    \* "none", "whole", "short", "failed"
  slips     \* slips[i]: what gateway i answered, in order (ghost)

fetching == <<want, peers, at, attempt, bytes, slips>>

\* What a gateway may answer: all of the bytes; fewer than there are; a page with
\* a 200; a status; a Sunset; a 429 with a wait it is worth waiting, or not; no
\* answer, or one that breaks off or falls silent.
Soft == {"limited", "thrown"}
Hard == {"page", "status", "retired", "closed"}

Fetch(address, withPeers) ==
  /\ want' = address /\ peers' = withPeers /\ at' = 1 /\ attempt' = 1 /\ bytes' = "none"
  /\ slips' = [i \in 1..Len(gateways) |-> <<>>]

\* Mutant of Again: a gateway that slips once is not asked again.
M_AgainNever(reply) == FALSE

\* The same gateway is asked again: after a wait, but not for one at the last
\* attempt; at once where the request failed.
Again(reply) == reply \in Soft /\ attempt < MaxAttempts

\* fetchFromGateways(): one request.  Bytes that do not hash to the address are
\* as good as a status.
Ask(reply) ==
  LET checked == reply = "short" /\ want[1] \in hashed
      taken   == reply = "whole" \/ (reply = "short" /\ ~ checked) IN
  /\ want # <<>> /\ bytes = "none" /\ at <= Len(gateways)
  /\ slips' = [slips EXCEPT ![at] = Append(@, reply)]
  /\ IF taken THEN bytes' = reply /\ UNCHANGED <<at, attempt>>
     ELSE IF Again(reply) THEN attempt' = attempt + 1 /\ UNCHANGED <<at, bytes>>
     ELSE /\ at' = at + 1 /\ attempt' = 1
          /\ bytes' = IF at' > Len(gateways) /\ ~ peers THEN "failed" ELSE bytes
  /\ UNCHANGED <<want, peers>>

\* createGatewayFirstFetch(): then the peers that can be dialled.
AskPeers(there) ==
  /\ want # <<>> /\ bytes = "none" /\ at > Len(gateways)
  /\ bytes' = IF there THEN "whole" ELSE "failed"
  /\ UNCHANGED <<want, peers, at, attempt, slips>>

FetchOver == want' = <<>> /\ UNCHANGED <<peers, at, attempt, bytes, slips>>

FetchInit == /\ want = <<>> /\ peers = FALSE /\ at = 1 /\ attempt = 1 /\ bytes = "none"
             /\ slips = [i \in 1..Len(gateways) |-> <<>>]
=============================================================================
