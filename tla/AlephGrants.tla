------------------------------ MODULE AlephGrants ------------------------------
(***************************************************************************)
(* lib/backends/aleph-pin.js, createAlephAuthorizer: whom an account lets  *)
(* send STOREs in its name.  Aleph keeps one list per account and replaces *)
(* it as a whole; authorize() and revoke() read it, change it and send it  *)
(* back.  The service is what the code expects of it: it answers a write   *)
(* "processed" or "pending", and the write with the latest time is kept.   *)
(***************************************************************************)
EXTENDS Naturals, FiniteSets

CONSTANTS Owner,          \* the processes that hold the account's key
          Delegate,
          MaxWrites, MaxGrantFaults

VARIABLES
  granted,      \* the service: the delegates on the list
  grantTime,    \* the service: the time of the write that made the list
  accepted,     \* the service: writes answered "pending", [list, time]
  call,         \* Owner -> the call it is in: [kind, who, list]
  writes,       \* writes sent, the clock of their times
  asked,        \* delegates the calls that succeeded asked for
  unsure,       \* delegates a failed call was about
  inTurn,       \* every read has seen every write before it, and no other call was between its own read and write
  grantFaults   \* bound

grantVars == <<granted, grantTime, accepted, call, writes, asked, unsure, inTurn, grantFaults>>

NoCall   == [kind |-> "none", who |-> {}, list |-> {}]
Calling  == {o \in Owner : call[o].kind # "none"}

GrantsInit ==
  /\ granted = {} /\ grantTime = 0 /\ accepted = {}
  /\ call = [o \in Owner |-> NoCall]
  /\ writes = 0 /\ asked = {} /\ unsure = {} /\ inTurn = TRUE
  /\ grantFaults = 0

GrantFault == grantFaults < MaxGrantFaults /\ grantFaults' = grantFaults + 1

\* read(): the list, an empty one for an account that has none (404), and an
\* empty one too for an answer that is not JSON.
ReadGrants(o, kind, d) ==
  /\ call[o].kind = "none"
  /\ writes + Cardinality(Calling) < MaxWrites
  /\ \/ /\ call' = [call EXCEPT ![o] = [kind |-> kind, who |-> {d}, list |-> granted]]
        /\ inTurn' = (inTurn /\ Calling = {} /\ accepted = {})
        /\ UNCHANGED grantFaults
     \/ /\ GrantFault
        /\ call' = [call EXCEPT ![o] = [kind |-> kind, who |-> {d}, list |-> {}]]
        /\ inTurn' = (inTurn /\ Calling = {} /\ accepted = {} /\ granted = {})
  /\ UNCHANGED <<granted, grantTime, accepted, writes, asked, unsure>>

\* Any other answer fails the call before it wrote anything: no step.

\* A mutant of Authorizations: the list is taken for an addition.
M_AuthorizationsAlone(c) ==
  IF c.kind = "authorize" THEN c.who ELSE c.list \ c.who

\* authorize(): the others and this one.  revoke(): the others.
Authorizations(c) ==
  IF c.kind = "authorize" THEN (c.list \ c.who) \cup c.who ELSE c.list \ c.who

\* write(): processed at once, or accepted (202), or refused; the answer to one
\* that was accepted can get lost, and the call fails like a refused one.
WriteGrants(o) ==
  LET c == call[o]
  IN  /\ c.kind # "none"
      /\ writes' = writes + 1
      /\ call' = [call EXCEPT ![o] = NoCall]
      /\ \/ /\ granted' = Authorizations(c) /\ grantTime' = writes'
            /\ UNCHANGED accepted
         \/ /\ accepted' = accepted \cup {[list |-> Authorizations(c), time |-> writes']}
            /\ UNCHANGED <<granted, grantTime>>
         \/ UNCHANGED <<granted, grantTime, accepted>>
      /\ \/ /\ <<granted', accepted', grantTime'>> # <<granted, accepted, grantTime>>
            /\ asked' = IF c.kind = "authorize" THEN asked \cup c.who ELSE asked \ c.who
            /\ unsure' = unsure \ c.who
            /\ UNCHANGED grantFaults
         \/ GrantFault /\ unsure' = unsure \cup c.who /\ UNCHANGED asked
      /\ UNCHANGED inTurn

\* The service gets round to a write; one older than the list changes nothing.
ProcessGrant(w) ==
  /\ w \in accepted
  /\ accepted' = accepted \ {w}
  /\ IF w.time > grantTime
       THEN granted' = w.list /\ grantTime' = w.time
       ELSE UNCHANGED <<granted, grantTime>>
  /\ UNCHANGED <<call, writes, asked, unsure, inTurn, grantFaults>>

GrantsNext ==
  \/ \E o \in Owner, d \in Delegate, kind \in {"authorize", "revoke"} : ReadGrants(o, kind, d)
  \/ \E o \in Owner : WriteGrants(o)
  \/ \E w \in accepted : ProcessGrant(w)

GrantsSpec == GrantsInit /\ [][GrantsNext]_grantVars

-----------------------------------------------------------------------------

\* "Take one address's grant away; the others stay" (aleph-pin.js:898): where calls
\* come in turn, each write processed before the next one reads, every delegate has
\* what the last call that succeeded for it asked, whatever calls for others failed,
\* unanswered ones included (aleph-pin.js:837-901).
GrantsStand ==
  inTurn /\ accepted = {} => granted \ unsure = asked \ unsure

=============================================================================
