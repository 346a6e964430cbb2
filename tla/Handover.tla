------------------------------ MODULE Handover ------------------------------
(***************************************************************************)
(* A database laid down by one device and taken up by another, with nothing *)
(* between them but a seed: dehydrate() and hydrate() of lib/dehydrate.js,  *)
(* over the mirror, the pointer records of lib/pointer-ipns.js and the      *)
(* gateways.  dehydrate() stores a CAR, then the metadata that names it,    *)
(* then publishes a record that points at the metadata, to every endpoint;  *)
(* hydrate() takes the first record it gets and fetches what it names.      *)
(***************************************************************************)
EXTENDS Mirror, GatewayFetch

CONSTANTS
  Device,     \* the devices that dehydrate
  skew,       \* skew[d]: how far the clock of d is ahead
  endpoints,  \* the routing endpoints, in the order they are given
  finds,      \* finds[i]: the members whose blobs gateway i finds
  public,     \* the members whose blobs peers have
  Secrets,    \* of TRUE (encrypt, or decrypt, is passed) and FALSE (it is not)
  Plaintext,  \* restore.allowPlaintextReads
  WithPeers,  \* of TRUE (restore.fetchBytes asks peers too) and FALSE
  Faults,     \* of "refuse", "drop", "kill", "miss", "deaf", and Soft, Hard, "short"
  MaxFaults, MaxClock, MaxBackups, MaxHydrations  \* bounds

Endpoint == 1..Len(endpoints)
ASSUME HandoverAssumption ==
  /\ public \subseteq Member /\ finds \in [1..Len(gateways) -> SUBSET Member]
  /\ Secrets \subseteq BOOLEAN /\ WithPeers \subseteq BOOLEAN
  /\ skew \in [Device -> Nat] /\ Len(endpoints) \in Nat \ {0} /\ Len(gateways) \in Nat

VARIABLES
  clock,   \* seconds
  made,    \* the backups, in order
  mine,    \* mine[d]: the one that d is at work on, or 0
  job,     \* job[d]: "idle", "car", "metadata", "publish", "settle"
  flight,  \* the PUTs under way: <<backup, endpoint>>
  took,    \* the endpoints that took the record of a backup, as such pairs
  record,  \* record[e]: the backup that the record at e points at, or 0
  order    \* the published backups, in order (ghost)

VARIABLES
  step,    \* of hydrate(): "idle", "resolve", "metadata", "car", or a verdict
  key,     \* whether it can decrypt
  next,    \* the endpoint it asks next
  pointer, \* the backup it was pointed at
  full,    \* all of the CAR was read
  due,     \* the places in order of those that were published for good when it was
           \* called (ghost)
  calls    \* the times it was called

VARIABLES
  faults,
  lost,    \* the blobs that a service dropped (ghost)
  calm     \* no PUT failed, and no two publishers had one second (ghost)

dehydrating == <<made, mine, job, flight, took, record, order>>
hydrating   == <<step, key, next, pointer, full, due, calls>>
vars == <<clock, dehydrating, hydrating, mirrored, fetching, faults, lost, calm>>

Verdicts == {"done", "failed"}
NoFault  == UNCHANGED faults
Fault(f) == f \in Faults /\ faults < MaxFaults /\ faults' = faults + 1

NoHandle == [id |-> None, copies |-> <<>>]
CarOf(k) == <<"car", k>>
MetaOf(k) == <<"metadata", k>>

-----------------------------------------------------------------------------
\* dehydrate(), which is refused unless it may encrypt, or is told not to.
Dehydrate(d, secret) ==
  /\ job[d] = "idle" /\ Len(made) < MaxBackups /\ secret \in Secrets
  /\ made' = Append(made, [by |-> d, secret |-> secret, car |-> NoHandle, metadata |-> NoHandle,
                           sequence |-> 0, at |-> 0, ok |-> FALSE])
  /\ mine' = [mine EXCEPT ![d] = Len(made')]
  /\ job' = [job EXCEPT ![d] = "car"]
  /\ UNCHANGED <<clock, flight, took, record, order, hydrating, mirrored, fetching, faults, lost, calm>>

\* Mutant of Ends: the device goes on with the one it had.
M_EndsHalf(d) == job' = [job EXCEPT ![d] = "idle"] /\ UNCHANGED mine

Ends(d) == /\ job' = [job EXCEPT ![d] = "idle"]
           /\ mine' = [mine EXCEPT ![d] = 0]

\* The blob b is put where it is mirrored; `took` are those that took it.
Put(d, b, who, field, then) ==
  /\ IF who = Member THEN NoFault ELSE Fault("refuse")
  /\ PutBlob(b, who)
  /\ IF Refused(Member, who)
     THEN Ends(d) /\ UNCHANGED made
     ELSE /\ made' = [made EXCEPT ![mine[d]][field] = Merged(b, who)]
          /\ job' = [job EXCEPT ![d] = then] /\ UNCHANGED mine
  /\ UNCHANGED <<clock, flight, took, record, order, hydrating, fetching, lost, calm>>

\* Mutant of PutCAR: the metadata is not waited for.
M_PutCARThenPublish(d, who) ==
  job[d] = "car" /\ Put(d, CarOf(mine[d]), who, "car", "publish")

\* backupDatabaseCAR(): the CAR, and the metadata that names it.
PutCAR(d, who) == job[d] = "car" /\ Put(d, CarOf(mine[d]), who, "car", "metadata")
PutMetadata(d, who) ==
  job[d] = "metadata" /\ Put(d, MetaOf(mine[d]), who, "metadata", "publish")

\* Mutant of Sequence: the records of a device are numbered, from 1.
M_SequenceCounts(d) == Cardinality({i \in 1..Len(order) : made[order[i]].by = d}) + 1

\* The default of publishPointer(): the second that it is called in.
Sequence(d) == clock + skew[d]

\* publishPointer() signs the record and sends it to every endpoint at once.
PublishPointer(d) ==
  /\ job[d] = "publish"
  /\ made' = [made EXCEPT ![mine[d]].sequence = Sequence(d), ![mine[d]].at = clock]
  /\ flight' = flight \cup {<<mine[d], e>> : e \in Endpoint}
  /\ order' = Append(order, mine[d])
  /\ job' = [job EXCEPT ![d] = "settle"]
  /\ calm' = (calm /\ \A i \in 1..Len(order) : clock # made[order[i]].at)
  /\ UNCHANGED <<clock, mine, took, record, hydrating, mirrored, fetching, faults, lost>>

\* A PUT arrives: an endpoint keeps the record of the higher sequence, the later of
\* two that are equal.
Arrive(k, e) ==
  /\ <<k, e>> \in flight /\ flight' = flight \ {<<k, e>>}
  /\ took' = took \cup {<<k, e>>}
  /\ record' = [record EXCEPT ![e] = IF @ # 0 /\ made[@].sequence > made[k].sequence THEN @ ELSE k]
  /\ UNCHANGED <<clock, made, mine, job, order, hydrating, mirrored, fetching, faults, lost, calm>>

\* A PUT fails, before it arrives or after.
Miss(k, e, arrived) ==
  /\ <<k, e>> \in flight /\ flight' = flight \ {<<k, e>>} /\ Fault("miss")
  /\ record' = IF ~ arrived THEN record
               ELSE [record EXCEPT ![e] = IF @ # 0 /\ made[@].sequence > made[k].sequence THEN @ ELSE k]
  /\ calm' = FALSE
  /\ UNCHANGED <<clock, made, mine, job, took, order, hydrating, mirrored, fetching, lost>>

\* Promise.all(): every PUT has been answered; one taken is enough.
Settle(d) ==
  /\ job[d] = "settle" /\ \A e \in Endpoint : <<mine[d], e>> \notin flight
  /\ made' = [made EXCEPT ![mine[d]].ok = \E e \in Endpoint : <<mine[d], e>> \in took]
  /\ Ends(d)
  /\ UNCHANGED <<clock, flight, took, record, order, hydrating, mirrored, fetching, faults, lost, calm>>

\* The process ends; the PUTs it sent may still arrive.
Killed(d) ==
  /\ job[d] # "idle" /\ Fault("kill") /\ Ends(d)
  /\ UNCHANGED <<clock, made, flight, took, record, order, hydrating, mirrored, fetching, lost, calm>>

\* The application asks that a backup be kept; a service may refuse to.
Keep(k, who) ==
  /\ made[k].ok /\ who \subseteq pinners
  /\ IF who = pinners THEN NoFault ELSE Fault("refuse")
  /\ PinCid(made[k].car, who)
  /\ UNCHANGED <<clock, dehydrating, hydrating, fetching, lost, calm>>

DropOne(m, b) == /\ Fault("drop") /\ Drop(m, b) /\ lost' = lost \cup {b}
                 /\ UNCHANGED <<clock, dehydrating, hydrating, fetching, calm>>

Tick == /\ clock < MaxClock /\ clock' = clock + 1
        /\ UNCHANGED <<dehydrating, hydrating, mirrored, fetching, faults, lost, calm>>

-----------------------------------------------------------------------------
\* hydrate(): the seed gives the name, the endpoints a record.
Sure == {i \in 1..Len(order) : /\ \A e \in Endpoint : <<order[i], e>> \notin flight
                               /\ \E e \in Endpoint : <<order[i], e>> \in took}

Hydrate(secret) ==
  /\ step \in {"idle"} \cup Verdicts /\ calls < MaxHydrations /\ calls' = calls + 1
  /\ secret \in Secrets /\ key' = secret
  /\ step' = "resolve" /\ next' = 1 /\ pointer' = 0 /\ full' = TRUE
  /\ due' = Sure
  /\ UNCHANGED <<clock, dehydrating, mirrored, fetching, faults, lost, calm>>

\* resolvePointer(): the first valid record.  One endpoint after the other has
\* none, or does not answer.
Resolve(deaf) ==
  /\ step = "resolve" /\ next \in Endpoint
  /\ IF deaf THEN Fault("deaf") ELSE NoFault
  /\ IF deaf \/ record[next] = 0
     THEN /\ next' = next + 1 /\ step' = IF next = Len(endpoints) THEN "failed" ELSE step
          /\ UNCHANGED <<pointer, fetching>>
     ELSE /\ pointer' = record[next] /\ step' = "metadata" /\ UNCHANGED next
          /\ \E p \in WithPeers : Fetch(made[pointer'].metadata.id, p)
  /\ UNCHANGED <<clock, key, full, due, calls, dehydrating, mirrored, lost, calm>>

\* Whether an address is found at some of the members.
There(S, address) == \E m \in S : \E b \in held[m] : Address(m, b) = address

AskGateway(reply) ==
  /\ step \in {"metadata", "car"} /\ Ask(reply)
  /\ LET there == There(finds[at], want) IN
     \/ reply = (IF there THEN "whole" ELSE "status") /\ NoFault
     \/ reply # "whole" /\ (reply = "short" => there) /\ Fault(reply)
  /\ UNCHANGED <<clock, dehydrating, hydrating, mirrored, lost, calm>>

AskThePeers(reached) ==
  /\ step \in {"metadata", "car"} /\ AskPeers(reached /\ There(public, want))
  /\ IF reached THEN NoFault ELSE Fault("thrown")
  /\ UNCHANGED <<clock, dehydrating, hydrating, mirrored, lost, calm>>

\* decryptingFetch() and explainIfEncrypted(): what cannot be opened with what was
\* passed, or is plain where nothing plain is expected, is refused.
Opens(k, secret) == made[k].secret = secret \/ (secret /\ Plaintext)

\* The metadata is read, and the CAR asked for; the CAR is read, and restored.
\* What is cut short does not decrypt, and is no JSON; a plain CAR cut between two
\* blocks is one of fewer blocks.
Read(cut) ==
  /\ step \in {"metadata", "car"} /\ bytes # "none"
  /\ cut => bytes = "short" /\ step = "car" /\ ~ made[pointer].secret
  /\ IF bytes = "failed" \/ ~ Opens(pointer, key) \/ (bytes = "short" /\ ~ cut)
     THEN step' = "failed" /\ FetchOver /\ UNCHANGED full
     ELSE IF step = "metadata"
     THEN step' = "car" /\ Fetch(made[pointer].car.id, peers) /\ UNCHANGED full
     ELSE step' = "done" /\ FetchOver /\ full' = ~ cut
  /\ UNCHANGED <<clock, key, next, pointer, due, calls, dehydrating, mirrored, faults, lost, calm>>

-----------------------------------------------------------------------------
Init ==
  /\ clock = 1 /\ made = <<>> /\ mine = [d \in Device |-> 0] /\ job = [d \in Device |-> "idle"]
  /\ flight = {} /\ took = {} /\ record = [e \in Endpoint |-> 0] /\ order = <<>>
  /\ step = "idle" /\ key = FALSE /\ next = 1 /\ pointer = 0 /\ full = TRUE
  /\ due = {} /\ calls = 0
  /\ MirrorInit /\ FetchInit /\ faults = 0 /\ lost = {} /\ calm = TRUE

\* One member at a time refuses.
Takers == {Member} \cup {Member \ {m} : m \in Member} \cup {{}}

Dehydrating ==
  \/ \E d \in Device, s \in BOOLEAN : Dehydrate(d, s)
  \/ \E d \in Device, who \in Takers : PutCAR(d, who) \/ PutMetadata(d, who)
  \/ \E d \in Device : PublishPointer(d) \/ Settle(d) \/ Killed(d)
  \/ \E k \in 1..Len(made), e \in Endpoint : Arrive(k, e)
  \/ \E k \in 1..Len(made), e \in Endpoint, a \in BOOLEAN : Miss(k, e, a)
  \/ \E k \in 1..Len(made), who \in SUBSET pinners : Keep(k, who)
  \/ \E m \in Member : \E b \in held[m] : DropOne(m, b)
  \/ Tick

Hydrating ==
  \/ \E s \in BOOLEAN : Hydrate(s)
  \/ \E deaf \in BOOLEAN : Resolve(deaf)
  \/ \E reply \in Soft \cup Hard \cup {"whole", "short"} : AskGateway(reply)
  \/ \E reached \in BOOLEAN : AskThePeers(reached)
  \/ \E cut \in BOOLEAN : Read(cut)

Next == Dehydrating \/ Hydrating
Spec == Init /\ [][Next]_vars

-----------------------------------------------------------------------------
\* A blob comes back through the mirror while any member that took it still has it,
\* though no other answers, if its handles carry its own name and no earlier
\* member's do.
Proper == {members[i] : i \in {j \in 1..Len(members) :
             /\ carried[members[j]] = nameOf[members[j]]
             /\ \A l \in 1..(j - 1) : carried[members[l]] # nameOf[members[j]]}}

ReadsBack(h, b) ==
  LET can == {m \in Proper : b \in held[m] /\ \E i \in DOMAIN h.copies : h.copies[i].backend = nameOf[m]}
  IN \A m \in can : GetBlob(h, {m}) = {b}

CopiesAreRead == \A k \in 1..Len(made) : /\ ReadsBack(made[k].car, CarOf(k))
                                         /\ ReadsBack(made[k].metadata, MetaOf(k))

\* Whatever a record points at, the metadata and the CAR that it names were stored
\* before: by every member if all are required, and nowhere are they gone but where
\* a service dropped what it was not asked to keep.
PointsAtWhole ==
  \A e \in Endpoint : record[e] # 0 =>
    /\ made[record[e]].car # NoHandle /\ made[record[e]].metadata # NoHandle
    /\ \A b \in {CarOf(record[e]), MetaOf(record[e])} \ lost :
         LET with == {m \in Member : b \in held[m]} IN
         with # {} /\ (require = "all" => with = Member)

\* If no PUT failed, the clocks agree and no two published in one second, hydrate()
\* is pointed at the last that had been published when it was called, or at a later
\* one, in whatever order the PUTs arrive.
LastOneWins ==
  calm /\ pointer # 0 /\ (\A d, g \in Device : skew[d] = skew[g]) =>
    \E i \in 1..Len(order) : order[i] = pointer /\ \A j \in due : j <= i

\* A sealed backup is restored whole or not at all; and with fewer faults than there
\* are endpoints, and than a gateway is asked, one that is published is found, and restored if the key fits and
\* one gateway finds both of its blobs and never answered badly, whatever passing fault it
\* met; but not if another cut a blob short before that.
Reachable(k) == \E i \in 1..Len(gateways) :
  /\ There(finds[i], made[k].metadata.id) /\ There(finds[i], made[k].car.id)
  /\ Range(slips[i]) \subseteq Soft

HydrateFinds ==
  /\ step = "done" /\ made[pointer].secret => full
  /\ step = "failed" /\ faults < Len(endpoints) /\ faults < MaxAttempts =>
       IF pointer = 0 THEN due = {}
       ELSE ~ Opens(pointer, key) \/ ~ Reachable(pointer) \/ bytes = "short"
=============================================================================
