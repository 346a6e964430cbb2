------------------------------- MODULE Mirror -------------------------------
(***************************************************************************)
(* One blob to several services, as lib/backends/mirror.js puts and reads   *)
(* it.  A service names a blob by an address of its own kind; the handle of *)
(* a put lists the copies, each under the name that its own handle carries,  *)
(* and a read looks its copy up under the name of the member.  The two      *)
(* differ for a member that withEncryption() wraps, whose handle carries    *)
(* the name of what is wrapped.                                             *)
(***************************************************************************)
EXTENDS Sequences, SequencesExt, FiniteSets, Naturals

CONSTANTS
  members,   \* the services, in the order they were given in
  nameOf,    \* nameOf[m]: the name of the member
  carried,   \* carried[m]: the name that its handles carry
  kind,      \* kind[m]: how it addresses a blob
  tellsCid,  \* the members whose handles carry a cid
  pinners,   \* the members with pinCid()
  require    \* "one", "all"

Member == {members[i] : i \in 1..Len(members)}

ASSUME MirrorAssumption ==
  /\ members \in Seq(STRING) /\ Len(members) >= 2
  /\ Cardinality(Member) = Len(members)
  /\ tellsCid \subseteq Member /\ pinners \subseteq Member
  /\ require \in {"one", "all"}

VARIABLES
  held,    \* held[m]: the blobs that the service has
  pinned   \* pinned[m]: those that it was asked to keep

mirrored == <<held, pinned>>

None == <<"none", 0>>

\* The handle of one service.
Address(m, b) == <<kind[m], b>>
Handle(m, b) == [backend |-> carried[m], id |-> Address(m, b),
                 cid |-> IF m \in tellsCid THEN Address(m, b) ELSE None]

\* mergeHandles(): nobody took it, or "all" were required and one did not.
Refused(asked, took) == took = {} \/ (require = "all" /\ took # asked)

\* The copies are kept by the place of the member that took them.
Merged(b, took) ==
  LET places == {i \in 1..Len(members) : members[i] \in took}
      copies == [i \in places |-> Handle(members[i], b)]
      cids   == {copies[i].cid : i \in places} \ {None}
  IN [id |-> IF Cardinality(cids) = 1 THEN CHOOSE c \in cids : TRUE ELSE copies[Min(places)].id,
      copies |-> copies]

\* Mutant of IdFor: one address for every service.
M_IdForMerged(m, h) == h.id

\* idFor(): the first copy of that name, or else the address the handle gives.
IdFor(m, h) ==
  LET own == {i \in DOMAIN h.copies : h.copies[i].backend = nameOf[m]}
  IN IF own = {} THEN h.id ELSE h.copies[Min(own)].id

\* What the service m answers for a handle.
Answer(m, h) == LET id == IdFor(m, h) IN {b \in held[m] : Address(m, b) = id}

\* getBlob() while only the services in up answer: from the first that has it.
GetBlob(h, up) ==
  LET at == {i \in 1..Len(members) : members[i] \in up /\ Answer(members[i], h) # {}}
  IN IF at = {} THEN {} ELSE Answer(members[Min(at)], h)

\* putBlob(): those who took it have it, also where the put is refused.
PutBlob(b, took) ==
  /\ held' = [m \in Member |-> IF m \in took THEN held[m] \cup {b} ELSE held[m]]
  /\ UNCHANGED pinned

\* pinCid(): every member that can is asked to keep what the address names, and
\* those that do keep it, whether the others refuse or not; it counts for those
\* that have the blob under that address.
PinCid(h, took) ==
  /\ pinned' = [m \in Member |-> IF m \in took
                  THEN pinned[m] \cup {b \in held[m] : Address(m, b) = h.id} ELSE pinned[m]]
  /\ UNCHANGED held

\* A service drops what it was never asked to keep.
Drop(m, b) ==
  /\ b \in held[m] \ pinned[m]
  /\ held' = [held EXCEPT ![m] = @ \ {b}] /\ UNCHANGED pinned

MirrorInit == held = [m \in Member |-> {}] /\ pinned = [m \in Member |-> {}]
=============================================================================
