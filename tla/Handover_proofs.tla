--------------------------- MODULE Handover_proofs ---------------------------
(***************************************************************************)
(* What a record points at is whole, copies are read back, the last one    *)
(* published wins, and hydrate() finds it: for any number of devices,      *)
(* services, endpoints, gateways and faults.                               *)
(***************************************************************************)
EXTENDS Handover, SequenceTheorems, FiniteSetTheorems, TLAPS

Jobs == {"idle", "car", "metadata", "publish", "settle"}
Blob == {CarOf(k) : k \in Nat} \cup {MetaOf(k) : k \in Nat}
Handles == {NoHandle} \cup {Merged(b, who) : b \in Blob, who \in SUBSET Member}

Backup == [by : Device, secret : BOOLEAN, car : Handles, metadata : Handles,
           sequence : Nat, at : Nat, ok : BOOLEAN]

WritersTypeOK ==
  /\ clock \in Nat /\ faults \in Nat /\ calm \in BOOLEAN
  /\ made \in Seq(Backup)
  /\ mine \in [Device -> 0..Len(made)] /\ job \in [Device -> Jobs]
  /\ flight \subseteq (1..Len(made)) \X Endpoint /\ took \subseteq (1..Len(made)) \X Endpoint
  /\ record \in [Endpoint -> 0..Len(made)] /\ order \in Seq(1..Len(made))
  /\ held \in [Member -> SUBSET Blob]

\* Sequences over a larger set.
LEMMA SeqIn ==
  ASSUME NEW S, NEW T, S \subseteq T, NEW s \in Seq(S) PROVE s \in Seq(T)
<1>1. Len(s) \in Nat /\ s \in [1..Len(s) -> S]
  BY LenProperties
<1>2. s \in [1..Len(s) -> T]
  BY <1>1
<1>. QED
  BY <1>1, <1>2, IsASeq

\* One backup of a sequence is amended.
LEMMA Amended ==
  ASSUME NEW s \in Seq(Backup), NEW i \in 1..Len(s), NEW x \in Backup
  PROVE  /\ [s EXCEPT ![i] = x] \in Seq(Backup)
         /\ Len([s EXCEPT ![i] = x]) = Len(s)
         /\ \A j \in 1..Len(s) : [s EXCEPT ![i] = x][j] = IF j = i THEN x ELSE s[j]
BY ExceptSeq

\* A backup with one of its fields replaced.
Amend(r, field, x) == [r EXCEPT ![field] = x]

\* What Put does to the backup that the device is at work on.
LEMMA PutWrites ==
  ASSUME WritersTypeOK, NEW d \in Device, mine[d] # 0, NEW who \in SUBSET Member, NEW b \in Blob,
         NEW field \in {"car", "metadata"}, NEW then \in Jobs, Put(d, b, who, field, then)
  PROVE  /\ made' \in Seq(Backup) /\ Len(made') = Len(made)
         /\ \A k \in 1..Len(made) :
              made'[k] = IF k = mine[d] /\ ~ Refused(Member, who)
                         THEN Amend(made[k], field, Merged(b, who)) ELSE made[k]
<1>. DEFINE r == [made[mine[d]] EXCEPT ![field] = Merged(b, who)]
<1>1. mine[d] \in 1..Len(made) /\ made[mine[d]] \in Backup
  BY DEF WritersTypeOK
<1>2. Merged(b, who) \in Handles
  BY DEF Handles
<1>3. r \in Backup
  BY <1>1, <1>2 DEF Backup
<1>4. CASE Refused(Member, who)
  BY <1>4 DEF Put, WritersTypeOK
<1>5. CASE ~ Refused(Member, who)
  <2>1. made' = [made EXCEPT ![mine[d]] = r]
    BY <1>5 DEF Put
  <2>. HIDE DEF r
  <2>2. made \in Seq(Backup)
    BY DEF WritersTypeOK
  <2>3. made' \in Seq(Backup) /\ Len(made') = Len(made) /\ \A k \in 1..Len(made) : made'[k] = IF k = mine[d] THEN r ELSE made[k]
    BY <1>1, <1>3, <2>1, <2>2, Amended
  <2>. QED
    BY <1>5, <2>3 DEF r, Amend
<1>. QED
  BY <1>4, <1>5

\* What PublishPointer and Settle do to it.
LEMMA PublishWrites ==
  ASSUME WritersTypeOK, NEW d \in Device, mine[d] # 0, PublishPointer(d)
  PROVE  /\ made' \in Seq(Backup) /\ Len(made') = Len(made)
         /\ \A k \in 1..Len(made) :
              made'[k] = IF k = mine[d] THEN [made[k] EXCEPT !.sequence = clock + skew[d], !.at = clock] ELSE made[k]
<1>. DEFINE r == [made[mine[d]] EXCEPT !.sequence = clock + skew[d], !.at = clock]
<1>1. mine[d] \in 1..Len(made) /\ made[mine[d]] \in Backup /\ clock + skew[d] \in Nat /\ clock \in Nat
  BY HandoverAssumption DEF WritersTypeOK
<1>2. r \in Backup
  BY <1>1 DEF Backup
<1>3. made' = [made EXCEPT ![mine[d]] = r]
  BY <1>1 DEF PublishPointer, Sequence, WritersTypeOK, Backup
<1>. HIDE DEF r
<1>4. made \in Seq(Backup)
  BY DEF WritersTypeOK
<1>5. made' \in Seq(Backup) /\ Len(made') = Len(made) /\ \A k \in 1..Len(made) : made'[k] = IF k = mine[d] THEN r ELSE made[k]
  BY <1>1, <1>2, <1>3, <1>4, Amended
<1>. QED
  BY <1>5 DEF r

LEMMA SettleWrites ==
  ASSUME WritersTypeOK, NEW d \in Device, mine[d] # 0, Settle(d)
  PROVE  /\ made' \in Seq(Backup) /\ Len(made') = Len(made)
         /\ \E ok \in BOOLEAN : \A k \in 1..Len(made) :
              made'[k] = IF k = mine[d] THEN [made[k] EXCEPT !.ok = ok] ELSE made[k]
<1>. DEFINE ok == \E e \in Endpoint : <<mine[d], e>> \in took
            r == [made[mine[d]] EXCEPT !.ok = ok]
<1>1. mine[d] \in 1..Len(made) /\ made[mine[d]] \in Backup
  BY DEF WritersTypeOK
<1>2. ok \in BOOLEAN
  OBVIOUS
<1>3. made' = [made EXCEPT ![mine[d]] = r]
  BY DEF Settle
<1>. HIDE DEF ok
<1>4. r \in Backup
  BY <1>1, <1>2 DEF Backup
<1>. HIDE DEF r
<1>5. made \in Seq(Backup)
  BY DEF WritersTypeOK
<1>6. made' \in Seq(Backup) /\ Len(made') = Len(made) /\ \A k \in 1..Len(made) : made'[k] = IF k = mine[d] THEN r ELSE made[k]
  BY <1>1, <1>3, <1>4, <1>5, Amended
<1>. QED
  BY <1>2, <1>6 DEF r

-----------------------------------------------------------------------------
(* What was stored, and for whom.                                          *)

Published == {order[i] : i \in 1..Len(order)}

\* The device is at work on one backup, of its own, and got so far with it.
Works ==
  /\ \A d \in Device : mine[d] = 0 <=> job[d] = "idle"
  /\ \A d, g \in Device : mine[d] = mine[g] /\ mine[d] # 0 => d = g
  /\ \A d \in Device :
       /\ job[d] = "car" => made[mine[d]].car = NoHandle
       /\ job[d] \in {"car", "metadata"} => made[mine[d]].metadata = NoHandle
       /\ job[d] \in {"metadata", "publish", "settle"} => made[mine[d]].car # NoHandle
       /\ job[d] \in {"publish", "settle"} => made[mine[d]].metadata # NoHandle
       /\ job[d] \in {"car", "metadata", "publish"} => mine[d] \notin Published

\* A handle is that of a put, and lists all that took the blob; those have it
\* still, unless it was dropped somewhere.
Stocked(b, h) ==
  h # NoHandle => \E who \in SUBSET Member :
    /\ ~ Refused(Member, who) /\ h = Merged(b, who)
    /\ \A m \in Member : b \in held[m] => m \in who
    /\ b \notin lost => \A m \in who : b \in held[m]

\* A blob is put once.
Unput(b) == \A m \in Member : b \notin held[m]

Stock ==
  /\ \A k \in 1..Len(made) : Stocked(CarOf(k), made[k].car) /\ Stocked(MetaOf(k), made[k].metadata)
  /\ \A k \in Nat : k > Len(made) => Unput(CarOf(k)) /\ Unput(MetaOf(k))
  /\ \A d \in Device : /\ job[d] = "car" => Unput(CarOf(mine[d]))
                       /\ job[d] \in {"car", "metadata"} => Unput(MetaOf(mine[d]))

\* What was published is whole, and nothing else is pointed at.
Whole == {k \in 1..Len(made) : made[k].car # NoHandle /\ made[k].metadata # NoHandle}
Points ==
  /\ Published \subseteq Whole
  /\ \A p \in flight \cup took : p[1] \in Published
  /\ \A e \in Endpoint : record[e] # 0 => record[e] \in Published

Written == WritersTypeOK /\ Works /\ Stock /\ Points

LEMMA HydratingLeaves ==
  ASSUME Hydrating, faults \in Nat
  PROVE  /\ UNCHANGED <<clock, made, mine, job, flight, took, record, order, held, pinned, lost, calm>>
         /\ faults' \in Nat /\ faults' >= faults
<1>1. ASSUME NEW s \in BOOLEAN, Hydrate(s)
      PROVE  UNCHANGED <<clock, dehydrating, mirrored, faults, lost, calm>>
  BY <1>1 DEF Hydrate
<1>2. ASSUME NEW s \in BOOLEAN, Resolve(s)
      PROVE  UNCHANGED <<clock, dehydrating, mirrored, lost, calm>> /\ (UNCHANGED faults \/ faults' = faults + 1)
  BY <1>2 DEF Resolve, Fault, NoFault
<1>3. ASSUME NEW s, AskGateway(s)
      PROVE  UNCHANGED <<clock, dehydrating, mirrored, lost, calm>> /\ (UNCHANGED faults \/ faults' = faults + 1)
  BY <1>3 DEF AskGateway, Fault, NoFault
<1>4. ASSUME NEW s \in BOOLEAN, AskThePeers(s)
      PROVE  UNCHANGED <<clock, dehydrating, mirrored, lost, calm>> /\ (UNCHANGED faults \/ faults' = faults + 1)
  BY <1>4 DEF AskThePeers, Fault, NoFault
<1>5. ASSUME NEW s \in BOOLEAN, Read(s)
      PROVE  UNCHANGED <<clock, dehydrating, mirrored, faults, lost, calm>>
  BY <1>5 DEF Read
<1>6. UNCHANGED <<clock, dehydrating, mirrored, lost, calm>> /\ (UNCHANGED faults \/ faults' = faults + 1)
  BY <1>1, <1>2, <1>3, <1>4, <1>5 DEF Hydrating
<1>. QED
  BY <1>6 DEF dehydrating, mirrored

LEMMA WrittenSame ==
  ASSUME Written, UNCHANGED <<made, mine, job, flight, took, record, order, held, lost>>,
         clock' \in Nat, faults' \in Nat, calm' \in BOOLEAN
  PROVE  Written'
<1>1. WritersTypeOK'
  BY DEF Written, WritersTypeOK
<1>2. Works' /\ Points'
  BY DEF Written, Works, Points, Published, Whole
<1>3. Stock'
  BY DEF Written, Stock, Stocked, Unput
<1>. QED
  BY <1>1, <1>2, <1>3 DEF Written

LEMMA WrittenInit == Init => Written
<1>. SUFFICES ASSUME Init PROVE Written
  OBVIOUS
<1>. USE DEF Init
<1>1. WritersTypeOK
  BY DEF WritersTypeOK, Jobs, MirrorInit
<1>2. Works
  BY DEF Works
<1>3. Stock
  BY DEF Stock, Unput, MirrorInit
<1>4. Points
  BY DEF Points, Published
<1>. QED
  BY <1>1, <1>2, <1>3, <1>4 DEF Written

LEMMA WrittenDehydrate ==
  ASSUME Written, NEW d \in Device, NEW s \in BOOLEAN, Dehydrate(d, s) PROVE Written'
<1>. DEFINE r == [by |-> d, secret |-> s, car |-> NoHandle, metadata |-> NoHandle,
                  sequence |-> 0, at |-> 0, ok |-> FALSE]
            n == Len(made) + 1
<1>. USE DEF Written
<1>1. r \in Backup
  BY DEF Backup, Handles
<1>2. made' = Append(made, r) /\ made \in Seq(Backup)
  BY DEF Dehydrate, WritersTypeOK
<1>. HIDE DEF r
<1>3. /\ made' \in Seq(Backup) /\ Len(made') = n /\ n \in Nat /\ Len(made) \in Nat
      /\ made'[n] = r /\ \A k \in 1..Len(made) : made'[k] = made[k]
  BY <1>1, <1>2
<1>. HIDE DEF n
<1>4. n = Len(made) + 1
  BY DEF n
<1>5. /\ mine' = [mine EXCEPT ![d] = n] /\ job' = [job EXCEPT ![d] = "car"] /\ job[d] = "idle"
      /\ UNCHANGED <<clock, flight, took, record, order, held, lost, faults, calm>>
  BY <1>3 DEF Dehydrate, mirrored
<1>6. WritersTypeOK'
  <2>1. order' \in Seq(1..Len(made'))
    <3>1. 1..Len(made) \subseteq 1..Len(made')
      BY <1>3, <1>4
    <3>. QED
      BY <1>5, <3>1, SeqIn DEF WritersTypeOK
  <2>2. mine' \in [Device -> 0..Len(made')] /\ job' \in [Device -> Jobs] /\ record' \in [Endpoint -> 0..Len(made')]
    BY <1>3, <1>4, <1>5 DEF WritersTypeOK, Jobs
  <2>3. flight' \subseteq (1..Len(made')) \X Endpoint /\ took' \subseteq (1..Len(made')) \X Endpoint
    BY <1>3, <1>4, <1>5 DEF WritersTypeOK
  <2>. QED
    BY <1>3, <1>5, <2>1, <2>2, <2>3 DEF WritersTypeOK
<1>7. Published \subseteq 1..Len(made) /\ Published' = Published
  BY <1>5 DEF Published, WritersTypeOK
<1>8. \A g \in Device : mine[g] \in 0..Len(made) /\ (g # d => mine'[g] = mine[g] /\ job'[g] = job[g])
  BY <1>5 DEF WritersTypeOK
<1>9. mine'[d] = n /\ job'[d] = "car"
  BY <1>5 DEF WritersTypeOK
<1>10. Works'
  <2>1. \A g \in Device : mine'[g] = 0 <=> job'[g] = "idle"
    BY <1>3, <1>4, <1>8, <1>9 DEF Works
  <2>2. \A f, g \in Device : mine'[f] = mine'[g] /\ mine'[f] # 0 => f = g
    BY <1>3, <1>4, <1>8, <1>9 DEF Works
  <2>3. ASSUME NEW g \in Device
        PROVE  /\ job'[g] = "car" => made'[mine'[g]].car = NoHandle
               /\ job'[g] \in {"car", "metadata"} => made'[mine'[g]].metadata = NoHandle
               /\ job'[g] \in {"metadata", "publish", "settle"} => made'[mine'[g]].car # NoHandle
               /\ job'[g] \in {"publish", "settle"} => made'[mine'[g]].metadata # NoHandle
               /\ job'[g] \in {"car", "metadata", "publish"} => mine'[g] \notin Published'
    <3>1. CASE g = d
      BY <3>1, <1>3, <1>4, <1>7, <1>9 DEF r
    <3>2. CASE g # d
      BY <3>2, <1>3, <1>7, <1>8 DEF Works
    <3>. QED
      BY <3>1, <3>2
  <2>. QED
    BY <2>1, <2>2, <2>3 DEF Works
<1>11. Stock'
  <2>1. ASSUME NEW k \in 1..Len(made')
        PROVE  Stocked(CarOf(k), made[k].car)' /\ Stocked(MetaOf(k), made[k].metadata)'
    <3>1. CASE k = n
      <4>1. made'[k].car = NoHandle /\ made'[k].metadata = NoHandle
        BY <3>1, <1>3 DEF r
      <4>. QED
        BY <4>1 DEF Stocked
    <3>2. CASE k \in 1..Len(made)
      BY <3>2, <1>3, <1>5 DEF Stock, Stocked
    <3>. QED
      BY <3>1, <3>2, <1>3, <1>4
  <2>2. \A k \in Nat : k > Len(made') => (Unput(CarOf(k)) /\ Unput(MetaOf(k)))'
    BY <1>3, <1>4, <1>5 DEF Stock, Unput
  <2>3. ASSUME NEW g \in Device
        PROVE  /\ job'[g] = "car" => Unput(CarOf(mine[g]))'
               /\ job'[g] \in {"car", "metadata"} => Unput(MetaOf(mine[g]))'
    <3>1. CASE g = d
      <4>1. n \in Nat /\ n > Len(made)
        BY <1>3, <1>4
      <4>2. Unput(CarOf(n)) /\ Unput(MetaOf(n))
        BY <4>1 DEF Stock
      <4>. QED
        BY <3>1, <4>2, <1>5, <1>9 DEF Unput, CarOf, MetaOf
    <3>2. CASE g # d
      BY <3>2, <1>5, <1>8 DEF Stock, Unput, CarOf, MetaOf
    <3>. QED
      BY <3>1, <3>2
  <2>. QED
    BY <2>1, <2>2, <2>3 DEF Stock
<1>12. Points'
  BY <1>3, <1>4, <1>5, <1>7 DEF Points, Whole
<1>. QED
  BY <1>6, <1>10, <1>11, <1>12

LEMMA WrittenKilled ==
  ASSUME Written, NEW d \in Device, Killed(d) PROVE Written'
<1>. USE DEF Written
<1>1. /\ mine' = [mine EXCEPT ![d] = 0] /\ job' = [job EXCEPT ![d] = "idle"]
      /\ UNCHANGED <<clock, made, flight, took, record, order, held, lost, calm>> /\ faults' = faults + 1
  BY DEF Killed, Ends, Fault, mirrored
<1>2. WritersTypeOK'
  BY <1>1 DEF WritersTypeOK, Jobs
<1>3. Works' /\ Points'
  BY <1>1 DEF Works, Points, Published, Whole, WritersTypeOK
<1>4. \A g \in Device : job'[g] \in {"car", "metadata"} => job'[g] = job[g] /\ mine'[g] = mine[g]
  BY <1>1 DEF WritersTypeOK
<1>5. ASSUME NEW c, NEW h, Stocked(c, h) PROVE Stocked(c, h)'
  BY <1>1, <1>5 DEF Stocked
<1>6. ASSUME NEW c, Unput(c) PROVE Unput(c)'
  BY <1>1, <1>6 DEF Unput
<1>7. Stock'
  BY <1>1, <1>4, <1>5, <1>6 DEF Stock, CarOf, MetaOf
<1>. QED
  BY <1>2, <1>3, <1>7

LEMMA WrittenArrives ==
  ASSUME Written, NEW k \in 1..Len(made), NEW e \in Endpoint, Arrive(k, e) \/ \E a \in BOOLEAN : Miss(k, e, a) PROVE Written'
<1>. USE DEF Written
<1>1. /\ UNCHANGED <<clock, made, mine, job, order, held, lost>>
      /\ <<k, e>> \in flight /\ flight' = flight \ {<<k, e>>} /\ took' \subseteq took \cup {<<k, e>>}
  BY DEF Arrive, Miss, mirrored
<1>2. faults' \in Nat /\ calm' \in BOOLEAN
  <2>1. faults' = faults \/ faults' = faults + 1
    BY DEF Arrive, Miss, Fault
  <2>2. calm' = calm \/ calm' = FALSE
    BY DEF Arrive, Miss
  <2>3. faults' \in Nat
    BY <2>1 DEF WritersTypeOK
  <2>. QED
    BY <2>2, <2>3 DEF WritersTypeOK
<1>3. \E r \in {record[e], k} : record' = [record EXCEPT ![e] = r]
  BY DEF Arrive, Miss, WritersTypeOK
<1>4. WritersTypeOK'
  BY <1>1, <1>2, <1>3 DEF WritersTypeOK
<1>5. k \in Published
  BY <1>1 DEF Points
<1>6. Works'
  BY <1>1 DEF Works, Published
<1>7. Points'
  <2>1. Published' = Published /\ Whole' = Whole
    BY <1>1 DEF Published, Whole
  <2>2. \A f \in Endpoint : record'[f] \in {record[f], k}
    BY <1>3 DEF WritersTypeOK
  <2>. QED
    BY <1>1, <1>5, <2>1, <2>2 DEF Points
<1>8. Stock'
  BY <1>1 DEF Stock, Stocked, Unput, CarOf, MetaOf
<1>. QED
  BY <1>4, <1>6, <1>7, <1>8

LEMMA WrittenDrops ==
  ASSUME Written, NEW m \in Member, NEW b \in held[m], DropOne(m, b) PROVE Written'
<1>. USE DEF Written
<1>1. /\ UNCHANGED <<clock, made, mine, job, flight, took, record, order, calm>>
      /\ held' = [held EXCEPT ![m] = @ \ {b}] /\ lost' = lost \cup {b} /\ faults' = faults + 1
  BY DEF DropOne, Drop, Fault, dehydrating
<1>2. WritersTypeOK'
  BY <1>1 DEF WritersTypeOK
<1>3. Works' /\ Points'
  BY <1>1 DEF Works, Points, Published, Whole
<1>4. \A o \in Member : held'[o] \subseteq held[o] /\ held[o] \ {b} \subseteq held'[o]
  BY <1>1 DEF WritersTypeOK
<1>5. ASSUME NEW c, NEW h, Stocked(c, h) PROVE Stocked(c, h)'
  BY <1>1, <1>4, <1>5 DEF Stocked
<1>6. ASSUME NEW c, Unput(c) PROVE Unput(c)'
  BY <1>4, <1>6 DEF Unput
<1>7. Stock'
  BY <1>1, <1>5, <1>6 DEF Stock, CarOf, MetaOf
<1>. QED
  BY <1>2, <1>3, <1>7

LEMMA BlobsDiffer ==
  ASSUME NEW k, NEW l
  PROVE  /\ CarOf(k) = CarOf(l) => k = l
         /\ MetaOf(k) = MetaOf(l) => k = l
         /\ CarOf(k) # MetaOf(l)
BY DEF CarOf, MetaOf

\* A handle of a put names the copies of all that took it.
LEMMA MergedIs ==
  ASSUME NEW b, NEW who \in SUBSET Member, ~ Refused(Member, who)
  PROVE  Merged(b, who) # NoHandle
<1>1. PICK m \in who : m \in Member
  BY DEF Refused
<1>2. PICK i \in 1..Len(members) : members[i] = m
  BY <1>1 DEF Member
<1>3. i \in DOMAIN Merged(b, who).copies
  BY <1>1, <1>2 DEF Merged
<1>. QED
  BY <1>3 DEF NoHandle

LEMMA WrittenPuts ==
  ASSUME Written, NEW d \in Device, NEW who \in SUBSET Member, NEW k, k = mine[d],
         NEW b, NEW field, NEW then,
         \/ job[d] = "car" /\ b = CarOf(k) /\ field = "car" /\ then = "metadata"
         \/ job[d] = "metadata" /\ b = MetaOf(k) /\ field = "metadata" /\ then = "publish",
         Put(d, b, who, field, then)
  PROVE  Written'
<1>. USE DEF Written
<1>. DEFINE refused == Refused(Member, who)
<1>1. k # 0 /\ k \in 1..Len(made) /\ k \in Nat
  BY DEF Works, WritersTypeOK
<1>2. b \in Blob
  BY <1>1 DEF Blob
<1>3. field \in {"car", "metadata"} /\ then \in Jobs
  BY DEF Jobs
<1>4. /\ made' \in Seq(Backup) /\ Len(made') = Len(made)
      /\ \A l \in 1..Len(made) :
           made'[l] = IF l = k /\ ~ refused
                      THEN [made[l] EXCEPT ![field] = Merged(b, who)] ELSE made[l]
  <2>1. /\ made' \in Seq(Backup) /\ Len(made') = Len(made)
        /\ \A l \in 1..Len(made) :
             made'[l] = IF l = mine[d] /\ ~ Refused(Member, who)
                        THEN Amend(made[l], field, Merged(b, who)) ELSE made[l]
    BY <1>1, <1>2, <1>3, PutWrites
  <2>. QED
    BY <2>1 DEF Amend
<1>5. /\ UNCHANGED <<clock, flight, took, record, order, lost, calm>>
      /\ mine' = [mine EXCEPT ![d] = IF refused THEN 0 ELSE mine[d]]
      /\ job' = [job EXCEPT ![d] = IF refused THEN "idle" ELSE then]
      /\ held' = [m \in Member |-> IF m \in who THEN held[m] \cup {b} ELSE held[m]]
  BY DEF Put, PutBlob, Ends, WritersTypeOK
<1>6. faults' \in Nat
  BY DEF Put, NoFault, Fault, WritersTypeOK
<1>7. WritersTypeOK'
  BY <1>1, <1>2, <1>3, <1>4, <1>5, <1>6 DEF WritersTypeOK, Jobs
<1>8. \A l \in 1..Len(made) : made[l] \in Backup
  BY DEF WritersTypeOK
<1>9. /\ \A l \in 1..Len(made) \ {k} : made'[l] = made[l]
      /\ refused => made'[k] = made[k]
      /\ ~ refused => /\ made'[k][field] = Merged(b, who) /\ Merged(b, who) # NoHandle
                      /\ field = "car" => made'[k].metadata = made[k].metadata
                      /\ field = "metadata" => made'[k].car = made[k].car
  BY <1>1, <1>3, <1>4, <1>8, MergedIs DEF Backup
<1>10. k \notin Published /\ Published' = Published
  BY <1>5 DEF Works, Published
<1>11. \A g \in Device \ {d} : mine'[g] = mine[g] /\ job'[g] = job[g] /\ (mine[g] # 0 => mine[g] # k)
  BY <1>1, <1>5 DEF WritersTypeOK, Works
<1>12. /\ refused => mine'[d] = 0 /\ job'[d] = "idle"
       /\ ~ refused => mine'[d] = k /\ job'[d] = then
  BY <1>5 DEF WritersTypeOK
<1>13. \A g \in Device : mine[g] \in 0..Len(made)
  BY DEF WritersTypeOK
<1>14. Works'
  <2>1. \A g \in Device : mine'[g] = 0 <=> job'[g] = "idle"
    BY <1>1, <1>3, <1>11, <1>12 DEF Works
  <2>2. \A f, g \in Device : mine'[f] = mine'[g] /\ mine'[f] # 0 => f = g
    BY <1>11, <1>12 DEF Works
  <2>3. ASSUME NEW g \in Device
        PROVE  /\ job'[g] = "car" => made'[mine'[g]].car = NoHandle
               /\ job'[g] \in {"car", "metadata"} => made'[mine'[g]].metadata = NoHandle
               /\ job'[g] \in {"metadata", "publish", "settle"} => made'[mine'[g]].car # NoHandle
               /\ job'[g] \in {"publish", "settle"} => made'[mine'[g]].metadata # NoHandle
               /\ job'[g] \in {"car", "metadata", "publish"} => mine'[g] \notin Published'
    <3>1. CASE g = d
      BY <3>1, <1>9, <1>10, <1>12 DEF Works
    <3>2. CASE g # d
      BY <3>2, <1>9, <1>10, <1>11, <1>13 DEF Works
    <3>. QED
      BY <3>1, <3>2
  <2>. QED
    BY <2>1, <2>2, <2>3 DEF Works
<1>15. Points'
  <2>1. Whole \subseteq Whole'
    BY <1>4, <1>9 DEF Whole
  <2>. QED
    BY <1>5, <1>10, <2>1 DEF Points
<1>16. ASSUME NEW c, NEW h, Stocked(c, h), c # b PROVE Stocked(c, h)'
  <2>1. \A m \in Member : c \in held'[m] <=> c \in held[m]
    BY <1>5, <1>16
  <2>. QED
    BY <1>5, <1>16, <2>1 DEF Stocked
<1>17. ASSUME NEW c, Unput(c), c # b PROVE Unput(c)'
  BY <1>5, <1>17 DEF Unput
<1>18. Unput(b)
  BY DEF Stock
<1>19. ~ refused => Stocked(b, Merged(b, who))'
  <2>1. \A m \in Member : b \in held'[m] <=> m \in who
    BY <1>5, <1>18 DEF Unput
  <2>. QED
    BY <2>1 DEF Stocked
<1>20. Stock'
  <2>1. ASSUME NEW l \in 1..Len(made') PROVE (Stocked(CarOf(l), made[l].car) /\ Stocked(MetaOf(l), made[l].metadata))'
    <3>1. ASSUME NEW c PROVE Stocked(c, NoHandle)'
      BY DEF Stocked, NoHandle
    <3>2. CASE l # k
      <4>1. CarOf(l) # b /\ MetaOf(l) # b
        BY <3>2, BlobsDiffer
      <4>. QED
        BY <3>2, <4>1, <1>4, <1>9, <1>16 DEF Stock, CarOf, MetaOf
    <3>3. CASE l = k /\ job[d] = "car"
      <4>1. made'[k].metadata = NoHandle
        BY <3>3, <1>9 DEF Works
      <4>2. made'[k].car = NoHandle \/ (~ refused /\ made'[k].car = Merged(b, who))
        BY <3>3, <1>9 DEF Works
      <4>. QED
        BY <3>1, <3>3, <4>1, <4>2, <1>19 DEF CarOf, MetaOf
    <3>4. CASE l = k /\ job[d] = "metadata"
      <4>1. made'[k].car = made[k].car
        BY <3>4, <1>9
      <4>2. made'[k].metadata = NoHandle \/ (~ refused /\ made'[k].metadata = Merged(b, who))
        BY <3>4, <1>9 DEF Works
      <4>3. CarOf(k) # b
        BY <3>4, BlobsDiffer
      <4>4. Stocked(CarOf(k), made[k].car)
        BY <1>1 DEF Stock
      <4>. QED
        BY <3>1, <3>4, <4>1, <4>2, <4>3, <4>4, <1>16, <1>19 DEF CarOf, MetaOf
    <3>. QED
      BY <3>2, <3>3, <3>4
  <2>2. ASSUME NEW l \in Nat, l > Len(made') PROVE (Unput(CarOf(l)) /\ Unput(MetaOf(l)))'
    <3>1. CarOf(l) # b /\ MetaOf(l) # b
      BY <2>2, <1>1, <1>4, BlobsDiffer
    <3>. QED
      BY <2>2, <3>1, <1>4, <1>17 DEF Stock, CarOf, MetaOf
  <2>3. ASSUME NEW g \in Device
        PROVE  /\ job'[g] = "car" => Unput(CarOf(mine[g]))'
               /\ job'[g] \in {"car", "metadata"} => Unput(MetaOf(mine[g]))'
    <3>1. CASE g = d
      <4>1. MetaOf(k) # b \/ job[d] = "metadata"
        BY BlobsDiffer
      <4>. QED
        BY <3>1, <4>1, <1>12, <1>17 DEF Stock, CarOf, MetaOf
    <3>2. CASE g # d
      <4>1. job[g] \in {"car", "metadata"} => CarOf(mine[g]) # b /\ MetaOf(mine[g]) # b
        BY <3>2, <1>11, BlobsDiffer DEF Works
      <4>. QED
        BY <3>2, <4>1, <1>11, <1>17 DEF Stock, CarOf, MetaOf
    <3>. QED
      BY <3>1, <3>2
  <2>. QED
    BY <2>1, <2>2, <2>3 DEF Stock
<1>. QED
  BY <1>7, <1>14, <1>15, <1>20

LEMMA WrittenPublishes ==
  ASSUME Written, NEW d \in Device, NEW k, k = mine[d], PublishPointer(d) PROVE Written'
<1>. USE DEF Written
<1>1. job[d] = "publish" /\ k # 0 /\ k \in 1..Len(made) /\ k \in Nat
  BY DEF PublishPointer, Works, WritersTypeOK
<1>2. /\ made' \in Seq(Backup) /\ Len(made') = Len(made)
      /\ \A l \in 1..Len(made) :
           made'[l] = IF l = k THEN [made[l] EXCEPT !.sequence = clock + skew[d], !.at = clock] ELSE made[l]
  BY <1>1, PublishWrites
<1>3. \A l \in 1..Len(made) : made'[l].car = made[l].car /\ made'[l].metadata = made[l].metadata
  <2>1. \A l \in 1..Len(made) : made[l] \in Backup
    BY DEF WritersTypeOK
  <2>. QED
    BY <1>2, <2>1 DEF Backup
<1>4. /\ UNCHANGED <<clock, mine, took, record, held, lost, faults>>
      /\ job' = [job EXCEPT ![d] = "settle"] /\ order' = Append(order, k)
      /\ flight' = flight \cup {<<k, e>> : e \in Endpoint}
  BY DEF PublishPointer, mirrored
<1>5. calm' \in BOOLEAN
  BY DEF PublishPointer
<1>6. order \in Seq(1..Len(made)) /\ order' \in Seq(1..Len(made))
  BY <1>1, <1>4 DEF WritersTypeOK
<1>7. WritersTypeOK'
  <2>1. flight' \subseteq (1..Len(made')) \X Endpoint
    <3>1. flight \subseteq (1..Len(made)) \X Endpoint
      BY DEF WritersTypeOK
    <3>2. \A e \in Endpoint : <<k, e>> \in (1..Len(made)) \X Endpoint
      BY <1>1
    <3>. QED
      BY <3>1, <3>2, <1>2, <1>4
  <2>. QED
    BY <1>2, <1>4, <1>5, <1>6, <2>1 DEF WritersTypeOK, Jobs
<1>8. Published' = Published \cup {k}
  BY <1>4, <1>6 DEF Published
<1>9. Works'
  <2>1. \A g \in Device : job'[g] = IF g = d THEN "settle" ELSE job[g]
    BY <1>4 DEF WritersTypeOK
  <2>2. \A g \in Device : mine[g] # 0 => mine[g] \in 1..Len(made)
    BY DEF WritersTypeOK
  <2>3. \A g \in Device : mine'[g] = mine[g] /\ (g # d => mine[g] # k)
    BY <1>1, <1>4 DEF Works
  <2>4. made[k].car # NoHandle /\ made[k].metadata # NoHandle
    BY <1>1 DEF Works
  <2>. QED
    BY <1>1, <1>3, <1>8, <2>1, <2>2, <2>3, <2>4 DEF Works
<1>10. Points'
  <2>1. Whole' = Whole /\ k \in Whole
    <3>1. made[k].car # NoHandle /\ made[k].metadata # NoHandle
      BY <1>1 DEF Works
    <3>2. Len(made') = Len(made) /\ k \in 1..Len(made)
      BY <1>1, <1>2
    <3>. QED
      BY ONLY <1>3, <3>1, <3>2 DEF Whole
  <2>2. \A p \in flight' : p \in flight \/ p[1] = k
    BY <1>4
  <2>. QED
    BY <1>4, <1>8, <2>1, <2>2 DEF Points
<1>11. ASSUME NEW c, NEW h, Stocked(c, h) PROVE Stocked(c, h)'
  BY <1>4, <1>11 DEF Stocked
<1>12. ASSUME NEW c, Unput(c) PROVE Unput(c)'
  BY <1>4, <1>12 DEF Unput
<1>13. \A g \in Device : job'[g] \in {"car", "metadata"} => job'[g] = job[g]
  BY <1>4 DEF WritersTypeOK
<1>14. Stock'
  BY <1>2, <1>3, <1>4, <1>11, <1>12, <1>13 DEF Stock, CarOf, MetaOf
<1>. QED
  BY <1>7, <1>9, <1>10, <1>14

LEMMA WrittenSettles ==
  ASSUME Written, NEW d \in Device, NEW k, k = mine[d], Settle(d) PROVE Written'
<1>. USE DEF Written
<1>1. job[d] = "settle" /\ k # 0 /\ k \in 1..Len(made) /\ k \in Nat
  BY DEF Settle, Works, WritersTypeOK
<1>2. PICK ok \in BOOLEAN : \A l \in 1..Len(made) :
        made'[l] = IF l = k THEN [made[l] EXCEPT !.ok = ok] ELSE made[l]
  BY <1>1, SettleWrites
<1>3. made' \in Seq(Backup) /\ Len(made') = Len(made)
  BY <1>1, SettleWrites
<1>4. \A l \in 1..Len(made) : made'[l].car = made[l].car /\ made'[l].metadata = made[l].metadata
  <2>1. \A l \in 1..Len(made) : made[l] \in Backup
    BY DEF WritersTypeOK
  <2>. QED
    BY <1>2, <2>1 DEF Backup
<1>5. /\ UNCHANGED <<clock, flight, took, record, order, held, lost, faults, calm>>
      /\ job' = [job EXCEPT ![d] = "idle"] /\ mine' = [mine EXCEPT ![d] = 0]
  BY DEF Settle, Ends, mirrored
<1>6. WritersTypeOK'
  BY <1>3, <1>5 DEF WritersTypeOK, Jobs
<1>7. \A g \in Device : mine'[g] = IF g = d THEN 0 ELSE mine[g]
  BY <1>5 DEF WritersTypeOK
<1>8. \A g \in Device : job'[g] = IF g = d THEN "idle" ELSE job[g]
  BY <1>5 DEF WritersTypeOK
<1>9. \A g \in Device : mine[g] # 0 => mine[g] \in 1..Len(made)
  BY DEF WritersTypeOK
<1>10. Works'
  <2>1. Published' = Published
    BY <1>5 DEF Published
  <2>. QED
    BY <1>4, <1>7, <1>8, <1>9, <2>1 DEF Works
<1>11. Points'
  BY <1>3, <1>4, <1>5 DEF Points, Whole, Published
<1>12. ASSUME NEW c, NEW h, Stocked(c, h) PROVE Stocked(c, h)'
  BY <1>5, <1>12 DEF Stocked
<1>13. ASSUME NEW c, Unput(c) PROVE Unput(c)'
  BY <1>5, <1>13 DEF Unput
<1>14. Stock'
  BY <1>3, <1>4, <1>7, <1>8, <1>12, <1>13 DEF Stock, CarOf, MetaOf
<1>. QED
  BY <1>6, <1>10, <1>11, <1>14

LEMMA WrittenNext == Written /\ [Next]_vars => Written'
<1>. SUFFICES ASSUME Written, [Next]_vars PROVE Written'
  OBVIOUS
<1>0. clock \in Nat /\ faults \in Nat /\ calm \in BOOLEAN
  BY DEF Written, WritersTypeOK
<1>1. CASE UNCHANGED vars
  BY <1>0, <1>1, WrittenSame DEF vars, dehydrating, mirrored
<1>2. CASE Hydrating
  <2>1. /\ UNCHANGED <<clock, made, mine, job, flight, took, record, order, held, pinned, lost, calm>>
        /\ faults' \in Nat
    BY <1>0, <1>2, HydratingLeaves
  <2>. QED
    BY <1>0, <2>1, WrittenSame
<1>3. ASSUME NEW d \in Device, NEW s \in BOOLEAN, Dehydrate(d, s) PROVE Written'
  BY <1>3, WrittenDehydrate
<1>4. ASSUME NEW d \in Device, NEW who \in Takers, PutCAR(d, who) \/ PutMetadata(d, who) PROVE Written'
  <2>1. who \in SUBSET Member
    BY DEF Takers
  <2>2. PICK k : k = mine[d]
    OBVIOUS
  <2>3. CASE PutCAR(d, who)
    BY <2>1, <2>2, <2>3, WrittenPuts DEF PutCAR
  <2>4. CASE PutMetadata(d, who)
    BY <2>1, <2>2, <2>4, WrittenPuts DEF PutMetadata
  <2>. QED
    BY <1>4, <2>3, <2>4
<1>5. ASSUME NEW d \in Device, PublishPointer(d) \/ Settle(d) PROVE Written'
  <2>1. PICK k : k = mine[d]
    OBVIOUS
  <2>. QED
    BY <1>5, <2>1, WrittenPublishes, WrittenSettles
<1>6. ASSUME NEW d \in Device, Killed(d) PROVE Written'
  BY <1>6, WrittenKilled
<1>7. ASSUME NEW k \in 1..Len(made), NEW e \in Endpoint, Arrive(k, e) \/ \E a \in BOOLEAN : Miss(k, e, a) PROVE Written'
  BY <1>7, WrittenArrives
<1>8. ASSUME NEW k, NEW who, Keep(k, who) PROVE Written'
  BY <1>0, <1>8, WrittenSame DEF Keep, PinCid, dehydrating, NoFault, Fault, WritersTypeOK
<1>9. ASSUME NEW m \in Member, NEW b \in held[m], DropOne(m, b) PROVE Written'
  BY <1>9, WrittenDrops
<1>10. CASE Tick
  <2>1. clock' = clock + 1
    BY <1>10 DEF Tick
  <2>2. clock' \in Nat
    BY <1>0, <2>1
  <2>. QED
    BY <1>0, <1>10, <2>2, WrittenSame DEF Tick, dehydrating, mirrored
<1>. QED
  BY <1>1, <1>2, <1>3, <1>4, <1>5, <1>6, <1>7, <1>8, <1>9, <1>10 DEF Next, Dehydrating

LEMMA WhatIsWritten == Spec => []Written
BY WrittenInit, WrittenNext, PTL DEF Spec

\* Whatever a record points at was stored before, by every member if all are
\* required, and is nowhere gone but where it was dropped: for any number of devices
\* that dehydrate at once, and whoever is killed when.
THEOREM RecordsPointAtWhole == Spec => []PointsAtWhole
<1>1. ASSUME Written PROVE PointsAtWhole
  <2>. SUFFICES ASSUME NEW e \in Endpoint, record[e] # 0
                PROVE  /\ made[record[e]].car # NoHandle /\ made[record[e]].metadata # NoHandle
                       /\ \A b \in {CarOf(record[e]), MetaOf(record[e])} \ lost :
                            LET with == {m \in Member : b \in held[m]} IN
                            with # {} /\ (require = "all" => with = Member)
    BY DEF PointsAtWhole
  <2>1. record[e] \in Whole
    BY <1>1 DEF Written, Points
  <2>2. ASSUME NEW b, NEW h, h # NoHandle, Stocked(b, h), b \notin lost
        PROVE  LET with == {m \in Member : b \in held[m]} IN with # {} /\ (require = "all" => with = Member)
    BY <2>2 DEF Stocked, Refused
  <2>. QED
    BY <1>1, <2>1, <2>2 DEF Whole, Written, Stock
<1>. QED
  BY <1>1, WhatIsWritten, PTL

-----------------------------------------------------------------------------
(* A copy is read back under the address of its own service.               *)

LEMMA MembersDiffer ==
  \A i, j \in 1..Len(members) : members[i] = members[j] => i = j
<1>. DEFINE n == Len(members)
<1>1. n \in Nat /\ members \in [1..n -> STRING]
  BY MirrorAssumption
<1>2. members \in Surjection(1..n, Member)
  BY <1>1 DEF Surjection, Member
<1>3. IsFiniteSet(1..n) /\ Cardinality(1..n) = n
  BY <1>1, FS_Interval
<1>4. members \in Injection(1..n, Member)
  BY <1>2, <1>3, MirrorAssumption, FS_SurjSameCardinalityImpliesInj
<1>. QED
  BY <1>4 DEF Injection, IsInjective

LEMMA MinIs ==
  ASSUME NEW S \in SUBSET Nat, NEW j \in S, \A i \in S : j <= i PROVE Min(S) = j
<1>1. \A x \in S : (\A y \in S : x <= y) => x = j
  OBVIOUS
<1>. QED
  BY <1>1 DEF Min

LEMMA CopiesOf ==
  ASSUME NEW b, NEW who
  PROVE  /\ DOMAIN Merged(b, who).copies = {i \in 1..Len(members) : members[i] \in who}
         /\ \A i \in DOMAIN Merged(b, who).copies :
              /\ Merged(b, who).copies[i].backend = carried[members[i]]
              /\ Merged(b, who).copies[i].id = Address(members[i], b)
<1>. DEFINE places == {i \in 1..Len(members) : members[i] \in who}
            copies == [i \in places |-> Handle(members[i], b)]
<1>1. Merged(b, who).copies = copies
  BY DEF Merged
<1>2. \A m : Handle(m, b).backend = carried[m] /\ Handle(m, b).id = Address(m, b)
  BY DEF Handle
<1>. QED
  BY <1>1, <1>2

\* A member whose handles carry its own name finds its own copy, if it took the blob
\* and none that comes before it has that name.
LEMMA OwnCopyIsFound ==
  ASSUME NEW b, NEW who \in SUBSET Member, NEW m \in Proper, m \in who
  PROVE  IdFor(m, Merged(b, who)) = Address(m, b)
<1>1. PICK j \in 1..Len(members) :
        /\ m = members[j] /\ carried[members[j]] = nameOf[members[j]]
        /\ \A l \in 1..(j - 1) : carried[members[l]] # nameOf[members[j]]
  BY DEF Proper
<1>. DEFINE places == {i \in 1..Len(members) : members[i] \in who}
            copies == Merged(b, who).copies
            own == {i \in DOMAIN copies : copies[i].backend = nameOf[m]}
<1>2. DOMAIN copies = places /\ \A i \in places : copies[i].backend = carried[members[i]] /\ copies[i].id = Address(members[i], b)
  BY CopiesOf
<1>3. Len(members) \in Nat
  BY MirrorAssumption
<1>4. j \in own /\ \A i \in own : j <= i
  <2>2. own = {i \in places : carried[members[i]] = nameOf[m]}
    BY <1>2
  <2>3. j \in places
    BY <1>1
  <2>4. ASSUME NEW i \in places, carried[members[i]] = nameOf[m] PROVE j <= i
    BY <1>1, <1>3, <2>4
  <2>. HIDE DEF own, places
  <2>. QED
    BY <1>1, <2>2, <2>3, <2>4
<1>5. Min(own) = j
  <2>1. own \in SUBSET Nat
    BY <1>2, <1>3
  <2>. HIDE DEF own
  <2>. QED
    BY <1>4, <2>1, MinIs
<1>6. copies[j].id = Address(m, b)
  BY <1>1, <1>2, <1>4
<1>. QED
  BY <1>4, <1>5, <1>6 DEF IdFor

LEMMA CopyIsRead ==
  ASSUME Written, NEW b \in Blob, NEW h, Stocked(b, h), NEW m \in Proper,
         b \in held[m], \E i \in DOMAIN h.copies : h.copies[i].backend = nameOf[m]
  PROVE  GetBlob(h, {m}) = {b}
<1>1. m \in Member
  BY DEF Proper, Member
<1>2. h # NoHandle
  BY DEF NoHandle
<1>3. PICK who \in SUBSET Member : h = Merged(b, who) /\ m \in who
  BY <1>1, <1>2 DEF Stocked
<1>4. IdFor(m, h) = Address(m, b)
  BY <1>3, OwnCopyIsFound
<1>5. Answer(m, h) = {b}
  BY <1>4 DEF Answer, Address
<1>6. PICK j \in 1..Len(members) : members[j] = m
  BY <1>1 DEF Member
<1>. DEFINE answering == {i \in 1..Len(members) : members[i] \in {m} /\ Answer(members[i], h) # {}}
<1>7. answering = {j}
  BY <1>5, <1>6, MembersDiffer
<1>8. Min(answering) = j
  <2>1. j \in Nat
    BY MirrorAssumption
  <2>. HIDE DEF answering
  <2>2. answering \in SUBSET Nat /\ j \in answering /\ \A i \in answering : j <= i
    BY <1>7, <2>1
  <2>. QED
    BY <2>2, MinIs
<1>. QED
  BY <1>5, <1>6, <1>7, <1>8 DEF GetBlob

\* A blob comes back through the mirror from any member that took it and has it
\* still, though no other answers, if its handles carry its own name and no earlier
\* member's do: for any members, and whichever of them refused.
THEOREM CopiesComeBack == Spec => []CopiesAreRead
<1>1. ASSUME Written PROVE CopiesAreRead
  <2>1. ASSUME NEW b \in Blob, NEW h, Stocked(b, h) PROVE ReadsBack(h, b)
    BY <1>1, <2>1, CopyIsRead DEF ReadsBack
  <2>2. ASSUME NEW k \in 1..Len(made) PROVE CarOf(k) \in Blob /\ MetaOf(k) \in Blob
    BY DEF Blob
  <2>. QED
    BY <1>1, <2>1, <2>2 DEF CopiesAreRead, Written, Stock
<1>. QED
  BY <1>1, WhatIsWritten, PTL

-----------------------------------------------------------------------------
(* The last one published wins.                                            *)

Agreed == \A d, g \in Device : skew[d] = skew[g]

\* The published have times in their order, and no endpoint has less than what
\* reached it; as long as no PUT failed and no second saw two of them.
InTime ==
  /\ \A i \in 1..Len(order) : made[order[i]].at <= clock
  /\ \A i, j \in 1..Len(order) : i < j => made[order[i]].at < made[order[j]].at
  /\ \A k \in Published : \E d \in Device : made[k].sequence = made[k].at + skew[d]
UpToDate ==
  \A k \in Published, e \in Endpoint :
    <<k, e>> \notin flight => record[e] # 0 /\ made[record[e]].sequence >= made[k].sequence
Timely == calm => InTime /\ UpToDate

\* What is due has reached every endpoint, or failed there; what hydrate() is pointed
\* at is no earlier.
Pointed ==
  /\ due \subseteq 1..Len(order) /\ \A j \in due, e \in Endpoint : <<order[j], e>> \notin flight
  /\ step \in {"idle", "resolve"} => pointer = 0
  /\ pointer # 0 => \E i \in 1..Len(order) : order[i] = pointer /\ (calm /\ Agreed => \A j \in due : j <= i)

\* Of what was published, only the verdict on its record may change.
LEMMA PublishedStays ==
  ASSUME Written, [Next]_vars, NEW k \in Published
  PROVE  /\ k \in 1..Len(made) /\ k \in 1..Len(made')
         /\ made'[k].by = made[k].by /\ made'[k].secret = made[k].secret
         /\ made'[k].sequence = made[k].sequence /\ made'[k].at = made[k].at
<1>. USE DEF Written
<1>1. k \in 1..Len(made) /\ Len(made) \in Nat /\ made[k] \in Backup
  BY DEF Points, Whole, WritersTypeOK
<1>2. CASE UNCHANGED made
  BY <1>1, <1>2
<1>3. ASSUME NEW d \in Device, NEW s \in BOOLEAN, Dehydrate(d, s) PROVE k \in 1..Len(made') /\ made'[k] = made[k]
  <2>. DEFINE r == [by |-> d, secret |-> s, car |-> NoHandle, metadata |-> NoHandle,
                    sequence |-> 0, at |-> 0, ok |-> FALSE]
  <2>1. made' = Append(made, r) /\ made \in Seq(Backup) /\ r \in Backup
    BY <1>3 DEF Dehydrate, WritersTypeOK, Backup, Handles
  <2>. HIDE DEF r
  <2>. QED
    BY <1>1, <2>1
<1>4. ASSUME NEW d \in Device, NEW who \in SUBSET Member, PutCAR(d, who) \/ PutMetadata(d, who)
      PROVE k \in 1..Len(made') /\ made'[k] = made[k]
  <2>1. mine[d] # 0 /\ mine[d] # k /\ mine[d] \in Nat
    BY <1>4 DEF PutCAR, PutMetadata, Works, WritersTypeOK
  <2>2. CarOf(mine[d]) \in Blob /\ MetaOf(mine[d]) \in Blob
    BY <2>1 DEF Blob
  <2>3. CASE PutCAR(d, who)
    BY <1>1, <2>1, <2>2, <2>3, PutWrites DEF PutCAR, Jobs
  <2>4. CASE PutMetadata(d, who)
    BY <1>1, <2>1, <2>2, <2>4, PutWrites DEF PutMetadata, Jobs
  <2>. QED
    BY <1>4, <2>3, <2>4
<1>5. ASSUME NEW d \in Device, PublishPointer(d) PROVE k \in 1..Len(made') /\ made'[k] = made[k]
  <2>1. mine[d] # 0 /\ mine[d] # k
    BY <1>5 DEF PublishPointer, Works
  <2>. QED
    BY <1>1, <1>5, <2>1, PublishWrites
<1>6. ASSUME NEW d \in Device, Settle(d)
      PROVE k \in 1..Len(made') /\ (made'[k] = made[k] \/ \E ok \in BOOLEAN : made'[k] = [made[k] EXCEPT !.ok = ok])
  <2>1. mine[d] # 0
    BY <1>6 DEF Settle, Works
  <2>. QED
    BY <1>1, <1>6, <2>1, SettleWrites
<1>7. CASE Hydrating
  BY <1>2, <1>7, HydratingLeaves DEF WritersTypeOK
<1>8. CASE Dehydrating
  <2>1. ASSUME NEW d \in Device, Killed(d) PROVE UNCHANGED made
    BY <2>1 DEF Killed, Ends
  <2>2. ASSUME NEW l, NEW e, Arrive(l, e) \/ \E a \in BOOLEAN : Miss(l, e, a) PROVE UNCHANGED made
    BY <2>2 DEF Arrive, Miss
  <2>3. ASSUME NEW l, NEW who, Keep(l, who) PROVE UNCHANGED made
    BY <2>3 DEF Keep, dehydrating
  <2>4. ASSUME NEW m, NEW b, DropOne(m, b) PROVE UNCHANGED made
    BY <2>4 DEF DropOne, dehydrating
  <2>5. ASSUME Tick PROVE UNCHANGED made
    BY <2>5 DEF Tick, dehydrating
  <2>6. \A who \in Takers : who \in SUBSET Member
    BY DEF Takers
  <2>7. \/ UNCHANGED made
        \/ \E d \in Device, s \in BOOLEAN : Dehydrate(d, s)
        \/ \E d \in Device, who \in SUBSET Member : PutCAR(d, who) \/ PutMetadata(d, who)
        \/ \E d \in Device : PublishPointer(d) \/ Settle(d)
    BY <1>8, <2>1, <2>2, <2>3, <2>4, <2>5, <2>6 DEF Dehydrating
  <2>8. \/ UNCHANGED made
        \/ /\ k \in 1..Len(made')
           /\ made'[k] = made[k] \/ \E ok \in BOOLEAN : made'[k] = [made[k] EXCEPT !.ok = ok]
    BY <1>3, <1>4, <1>5, <1>6, <2>7
  <2>. QED
    BY <1>1, <1>2, <2>8 DEF Backup
<1>9. CASE UNCHANGED vars
  BY <1>2, <1>9 DEF vars, dehydrating
<1>. QED
  BY <1>7, <1>8, <1>9 DEF Next

\* What a step does to the records, and to their order.
LEMMA RecordsChangeBy ==
  ASSUME Written, [Next]_vars
  PROVE  \/ UNCHANGED <<clock, flight, took, record, order, calm>>
         \/ clock' = clock + 1 /\ UNCHANGED <<flight, took, record, order, calm, hydrating>>
         \/ (\E d \in Device : PublishPointer(d)) /\ UNCHANGED <<clock, took, record, hydrating>>
         \/ \E k \in 1..Len(made), e \in Endpoint : /\ Arrive(k, e) \/ \E a \in BOOLEAN : Miss(k, e, a)
                                                    /\ UNCHANGED <<clock, order, hydrating>>
<1>1. CASE UNCHANGED vars
  BY <1>1 DEF vars, dehydrating
<1>2. CASE Hydrating
  BY <1>2, HydratingLeaves DEF Written, WritersTypeOK
<1>3. CASE Dehydrating
  <2>1. ASSUME NEW d \in Device, NEW s, Dehydrate(d, s) PROVE UNCHANGED <<clock, flight, took, record, order, calm>>
    BY <2>1 DEF Dehydrate
  <2>2. ASSUME NEW d \in Device, NEW who, PutCAR(d, who) \/ PutMetadata(d, who)
        PROVE UNCHANGED <<clock, flight, took, record, order, calm>>
    BY <2>2 DEF PutCAR, PutMetadata, Put
  <2>3. ASSUME NEW d \in Device, Settle(d) \/ Killed(d) PROVE UNCHANGED <<clock, flight, took, record, order, calm>>
    BY <2>3 DEF Settle, Killed
  <2>4. ASSUME NEW k, NEW who, Keep(k, who) PROVE UNCHANGED <<clock, flight, took, record, order, calm>>
    BY <2>4 DEF Keep, dehydrating
  <2>5. ASSUME NEW m, NEW b, DropOne(m, b) PROVE UNCHANGED <<clock, flight, took, record, order, calm>>
    BY <2>5 DEF DropOne, dehydrating
  <2>6. CASE Tick
    BY <2>6 DEF Tick, dehydrating
  <2>7. ASSUME NEW d \in Device, PublishPointer(d) PROVE UNCHANGED <<clock, took, record, hydrating>>
    BY <2>7 DEF PublishPointer
  <2>8. ASSUME NEW k, NEW e, Arrive(k, e) \/ \E a \in BOOLEAN : Miss(k, e, a) PROVE UNCHANGED <<clock, order, hydrating>>
    BY <2>8 DEF Arrive, Miss
  <2>. QED
    BY <1>3, <2>1, <2>2, <2>3, <2>4, <2>5, <2>6, <2>7, <2>8 DEF Dehydrating
<1>. QED
  BY <1>1, <1>2, <1>3 DEF Next

LEMMA BackupsAre ==
  ASSUME Written
  PROVE  /\ clock \in Nat /\ Len(made) \in Nat
         /\ \A k \in 1..Len(made) : made[k].at \in Nat /\ made[k].sequence \in Nat
         /\ Published \subseteq 1..Len(made)
         /\ \A i \in 1..Len(order) : order[i] \in Published
         /\ \A e \in Endpoint : record[e] # 0 => record[e] \in Published
<1>. USE DEF Written
<1>1. clock \in Nat /\ Len(made) \in Nat
  BY DEF WritersTypeOK
<1>2. \A k \in 1..Len(made) : made[k] \in Backup
  BY DEF WritersTypeOK
<1>. QED
  BY <1>1, <1>2 DEF Backup, Points, Whole, Published

LEMMA InTimeStays ==
  ASSUME Written, [Next]_vars, UNCHANGED order, clock' \in Nat, clock' >= clock, InTime PROVE InTime'
<1>1. \A k \in Published : /\ k \in 1..Len(made) /\ made'[k].sequence = made[k].sequence /\ made'[k].at = made[k].at
  BY PublishedStays
<1>2. Published' = Published
  BY DEF Published
<1>3. /\ \A k \in Published : made[k].at \in Nat
      /\ \A i \in 1..Len(order) : order[i] \in Published
      /\ clock \in Nat
  BY BackupsAre
<1>. QED
  BY <1>1, <1>2, <1>3 DEF InTime

LEMMA UpToDateStays ==
  ASSUME Written, [Next]_vars, UNCHANGED <<order, record, flight>>, UpToDate PROVE UpToDate'
<1>1. \A k \in Published : made'[k].sequence = made[k].sequence
  BY PublishedStays
<1>2. Published' = Published
  BY DEF Published
<1>3. \A e \in Endpoint : record[e] # 0 => record[e] \in Published
  BY BackupsAre
<1>. QED
  BY <1>1, <1>2, <1>3 DEF UpToDate

LEMMA PublishedInTime ==
  ASSUME Written, [Next]_vars, NEW d \in Device, PublishPointer(d), UNCHANGED <<clock, record>>,
         \A i \in 1..Len(order) : clock # made[order[i]].at, InTime, UpToDate
  PROVE  InTime' /\ UpToDate'
<1>1. PICK k : k = mine[d]
  OBVIOUS
<1>2. k # 0 /\ k \in 1..Len(made) /\ k \notin Published
  BY <1>1 DEF PublishPointer, Written, Works, WritersTypeOK
<1>3. made'[k].sequence = clock + skew[d] /\ made'[k].at = clock
  <2>1. made[k] \in Backup
    BY <1>2 DEF Written, WritersTypeOK
  <2>2. made'[k] = [made[k] EXCEPT !.sequence = clock + skew[d], !.at = clock]
    BY <1>1, <1>2, PublishWrites DEF Written
  <2>. QED
    BY <2>1, <2>2 DEF Backup
<1>4. order' = Append(order, k) /\ order \in Seq(1..Len(made)) /\ Len(order) \in Nat
  BY <1>1 DEF PublishPointer, Written, WritersTypeOK
<1>5. flight' = flight \cup {<<k, e>> : e \in Endpoint}
  BY <1>1 DEF PublishPointer
<1>6. Published' = Published \cup {k}
  BY <1>2, <1>4 DEF Published
<1>7. \A l \in Published : /\ l \in 1..Len(made) /\ made'[l].sequence = made[l].sequence /\ made'[l].at = made[l].at
  BY PublishedStays
<1>8. /\ \A l \in Published : made[l].at \in Nat
      /\ \A i \in 1..Len(order) : order[i] \in Published
      /\ clock \in Nat
      /\ \A e \in Endpoint : record[e] # 0 => record[e] \in Published
  BY BackupsAre
<1>9. /\ Len(order') = Len(order) + 1 /\ order'[Len(order) + 1] = k
      /\ \A i \in 1..Len(order) : order'[i] = order[i]
  BY <1>2, <1>4
<1>10. \A i \in 1..Len(order) : made'[order'[i]].at < clock /\ made'[order'[i]].at \in Nat
  BY <1>7, <1>8, <1>9 DEF InTime
<1>11. InTime'
  <2>1. \A i \in 1..Len(order') : made'[order'[i]].at <= clock'
    BY <1>3, <1>4, <1>8, <1>9, <1>10
  <2>2. ASSUME NEW i \in 1..Len(order'), NEW j \in 1..Len(order'), i < j
        PROVE  made'[order'[i]].at < made'[order'[j]].at
    <3>1. CASE j = Len(order) + 1
      BY <2>2, <3>1, <1>3, <1>4, <1>9, <1>10
    <3>2. CASE j # Len(order) + 1
      <4>1. i \in 1..Len(order) /\ j \in 1..Len(order)
        BY <2>2, <3>2, <1>4, <1>9
      <4>. QED
        BY <2>2, <4>1, <1>7, <1>8, <1>9 DEF InTime
    <3>. QED
      BY <3>1, <3>2
  <2>3. \A l \in Published' : \E g \in Device : made'[l].sequence = made'[l].at + skew[g]
    BY <1>3, <1>6, <1>7 DEF InTime
  <2>. QED
    BY <2>1, <2>2, <2>3 DEF InTime
<1>12. UpToDate'
  <2>1. \A e \in Endpoint : <<k, e>> \in flight'
    BY <1>5
  <2>2. flight \subseteq flight'
    BY <1>5
  <2>. QED
    BY <1>6, <1>7, <1>8, <2>1, <2>2 DEF UpToDate
<1>. QED
  BY <1>11, <1>12

LEMMA ArrivesUpToDate ==
  ASSUME Written, [Next]_vars, NEW k \in 1..Len(made), NEW e \in Endpoint, Arrive(k, e), UpToDate
  PROVE  UpToDate'
<1>1. /\ UNCHANGED <<made, order>> /\ <<k, e>> \in flight /\ flight' = flight \ {<<k, e>>}
      /\ record' = [record EXCEPT ![e] = IF @ # 0 /\ made[@].sequence > made[k].sequence THEN @ ELSE k]
  BY DEF Arrive
<1>2. Published' = Published /\ k \in Published /\ k # 0
  BY <1>1 DEF Published, Written, Points
<1>3. /\ \A l \in Published : made[l].sequence \in Nat
      /\ \A f \in Endpoint : record[f] # 0 => record[f] \in Published
  BY BackupsAre
<1>4. record'[e] = IF record[e] # 0 /\ made[record[e]].sequence > made[k].sequence THEN record[e] ELSE k
  BY <1>1 DEF Written, WritersTypeOK
<1>5. \A f \in Endpoint \ {e} : record'[f] = record[f]
  BY <1>1 DEF Written, WritersTypeOK
<1>. SUFFICES ASSUME NEW l \in Published, NEW f \in Endpoint, <<l, f>> \notin flight'
              PROVE  record'[f] # 0 /\ made[record'[f]].sequence >= made[l].sequence
  BY <1>1, <1>2 DEF UpToDate
<1>6. CASE f # e
  BY <1>1, <1>5, <1>6 DEF UpToDate
<1>7. CASE f = e /\ l # k
  <2>1. record[e] # 0 /\ made[record[e]].sequence >= made[l].sequence
    BY <1>1, <1>7 DEF UpToDate
  <2>2. record[e] \in Published
    BY <1>3, <2>1
  <2>3. made[record[e]].sequence \in Nat /\ made[k].sequence \in Nat /\ made[l].sequence \in Nat
    BY <1>2, <1>3, <2>2
  <2>4. CASE made[record[e]].sequence > made[k].sequence
    BY <1>4, <1>7, <2>1, <2>4
  <2>5. CASE ~ (made[record[e]].sequence > made[k].sequence)
    <3>1. record'[e] = k
      BY <1>4, <2>5
    <3>. QED
      BY <1>2, <1>7, <2>1, <2>3, <2>5, <3>1
  <2>. QED
    BY <2>4, <2>5
<1>8. CASE f = e /\ l = k
  BY <1>2, <1>3, <1>4, <1>8
<1>. QED
  BY <1>6, <1>7, <1>8

LEMMA TimelyNext ==
  ASSUME Written, Timely, [Next]_vars PROVE Timely'
<1>1. CASE UNCHANGED <<clock, flight, took, record, order, calm>>
  BY <1>1, BackupsAre, InTimeStays, UpToDateStays DEF Timely
<1>2. CASE clock' = clock + 1 /\ UNCHANGED <<flight, took, record, order, calm, hydrating>>
  <2>1. clock' \in Nat /\ clock' >= clock
    BY <1>2, BackupsAre
  <2>. QED
    BY <1>2, <2>1, InTimeStays, UpToDateStays DEF Timely
<1>3. ASSUME NEW d \in Device, PublishPointer(d), UNCHANGED <<clock, took, record, hydrating>> PROVE Timely'
  <2>1. calm' => calm /\ \A i \in 1..Len(order) : clock # made[order[i]].at
    BY <1>3 DEF PublishPointer
  <2>. QED
    BY <1>3, <2>1, PublishedInTime DEF Timely
<1>4. ASSUME NEW k \in 1..Len(made), NEW e \in Endpoint, Arrive(k, e) \/ \E a \in BOOLEAN : Miss(k, e, a),
             UNCHANGED <<clock, order, hydrating>>
      PROVE  Timely'
  <2>1. CASE Arrive(k, e)
    <3>1. calm' = calm
      BY <2>1 DEF Arrive
    <3>2. clock' \in Nat /\ clock' >= clock
      BY <1>4, BackupsAre
    <3>. QED
      BY <1>4, <2>1, <3>1, <3>2, InTimeStays, ArrivesUpToDate DEF Timely
  <2>2. CASE \E a \in BOOLEAN : Miss(k, e, a)
    BY <2>2 DEF Miss, Timely
  <2>. QED
    BY <1>4, <2>1, <2>2
<1>. QED
  BY <1>1, <1>2, <1>3, <1>4, RecordsChangeBy

\* What hydrate() does to its pointer.
LEMMA PointerChangesBy ==
  ASSUME [Next]_vars
  PROVE  \/ UNCHANGED <<due, pointer, step>>
         \/ UNCHANGED <<due, pointer>> /\ step' \in {"failed", "car", "done"} /\ step \notin {"idle", "resolve"}
         \/ (\E s \in BOOLEAN : Hydrate(s)) /\ due' = Sure /\ pointer' = 0
         \/ (\E deaf \in BOOLEAN : Resolve(deaf)) /\ UNCHANGED due
<1>1. CASE UNCHANGED vars
  BY <1>1 DEF vars, hydrating
<1>2. CASE Dehydrating
  <2>1. ASSUME NEW d \in Device, NEW s, Dehydrate(d, s) PROVE UNCHANGED hydrating
    BY <2>1 DEF Dehydrate
  <2>2. ASSUME NEW d \in Device, NEW who, PutCAR(d, who) \/ PutMetadata(d, who) PROVE UNCHANGED hydrating
    BY <2>2 DEF PutCAR, PutMetadata, Put
  <2>3. ASSUME NEW d \in Device, PublishPointer(d) \/ Settle(d) \/ Killed(d) PROVE UNCHANGED hydrating
    BY <2>3 DEF PublishPointer, Settle, Killed
  <2>4. ASSUME NEW k, NEW e, Arrive(k, e) \/ \E a \in BOOLEAN : Miss(k, e, a) PROVE UNCHANGED hydrating
    BY <2>4 DEF Arrive, Miss
  <2>5. ASSUME NEW k, NEW who, Keep(k, who) PROVE UNCHANGED hydrating
    BY <2>5 DEF Keep
  <2>6. ASSUME NEW m, NEW b, DropOne(m, b) PROVE UNCHANGED hydrating
    BY <2>6 DEF DropOne
  <2>7. ASSUME Tick PROVE UNCHANGED hydrating
    BY <2>7 DEF Tick
  <2>8. UNCHANGED hydrating
    BY <1>2, <2>1, <2>2, <2>3, <2>4, <2>5, <2>6, <2>7 DEF Dehydrating
  <2>. QED
    BY <2>8 DEF hydrating
<1>3. CASE Hydrating
  <2>1. ASSUME NEW s \in BOOLEAN, Hydrate(s) PROVE due' = Sure /\ pointer' = 0
    BY <2>1 DEF Hydrate
  <2>2. ASSUME NEW s \in BOOLEAN, Resolve(s) PROVE UNCHANGED due
    BY <2>2 DEF Resolve
  <2>3. ASSUME NEW s, AskGateway(s) PROVE UNCHANGED <<due, pointer, step>>
    BY <2>3 DEF AskGateway, hydrating
  <2>4. ASSUME NEW s \in BOOLEAN, AskThePeers(s) PROVE UNCHANGED <<due, pointer, step>>
    BY <2>4 DEF AskThePeers, hydrating
  <2>5. ASSUME NEW s \in BOOLEAN, Read(s)
        PROVE  UNCHANGED <<due, pointer>> /\ step' \in {"failed", "car", "done"} /\ step \notin {"idle", "resolve"}
    BY <2>5 DEF Read
  <2>. QED
    BY <1>3, <2>1, <2>2, <2>3, <2>4, <2>5 DEF Hydrating
<1>. QED
  BY <1>1, <1>2, <1>3 DEF Next

\* What was published earlier has the lesser time, if the clocks agree.
LEMMA LaterIsMore ==
  ASSUME Written, InTime, Agreed, NEW i \in 1..Len(order), NEW j \in 1..Len(order),
         made[order[i]].sequence >= made[order[j]].sequence
  PROVE  j <= i
<1>1. /\ made[order[i]].at \in Nat /\ made[order[i]].sequence \in Nat
      /\ made[order[j]].at \in Nat /\ made[order[j]].sequence \in Nat
  BY BackupsAre
<1>2. PICK d \in Device : made[order[i]].sequence = made[order[i]].at + skew[d]
  BY BackupsAre DEF InTime
<1>3. PICK g \in Device : made[order[j]].sequence = made[order[j]].at + skew[g]
  BY BackupsAre DEF InTime
<1>4. skew[d] = skew[g] /\ skew[d] \in Nat
  BY HandoverAssumption DEF Agreed
<1>5. made[order[i]].at >= made[order[j]].at
  BY <1>1, <1>2, <1>3, <1>4
<1>6. ~ (i < j)
  BY <1>1, <1>5 DEF InTime
<1>7. Len(order) \in Nat
  BY DEF Written, WritersTypeOK
<1>. QED
  BY <1>6, <1>7

LEMMA PointedNext ==
  ASSUME Written, Timely, Pointed, [Next]_vars PROVE Pointed'
<1>. USE DEF Written
<1>1. /\ Len(order) \in Nat /\ Len(order') \in Nat /\ Len(order') >= Len(order)
      /\ \A i \in 1..Len(order) : order'[i] = order[i]
  <2>1. order \in Seq(Nat) /\ \A d \in Device : mine[d] \in Nat
    <3>1. order \in Seq(1..Len(made)) /\ Len(made) \in Nat /\ mine \in [Device -> 0..Len(made)]
      BY DEF WritersTypeOK
    <3>2. 1..Len(made) \subseteq Nat
      BY <3>1
    <3>. QED
      BY <3>1, <3>2, SeqIn
  <2>2. order' = order \/ \E d \in Device : order' = Append(order, mine[d])
    BY RecordsChangeBy DEF PublishPointer
  <2>3. CASE order' = order
    BY <2>1, <2>3
  <2>4. ASSUME NEW d \in Device, order' = Append(order, mine[d])
        PROVE  /\ Len(order) \in Nat /\ Len(order') \in Nat /\ Len(order') >= Len(order)
               /\ \A i \in 1..Len(order) : order'[i] = order[i]
    BY <2>1, <2>4
  <2>. QED
    BY <2>2, <2>3, <2>4
<1>2. \A j \in 1..Len(order), e \in Endpoint : <<order[j], e>> \notin flight => <<order[j], e>> \notin flight'
  <2>1. ASSUME NEW d \in Device, PublishPointer(d), NEW j \in 1..Len(order), NEW e \in Endpoint,
               <<order[j], e>> \notin flight
        PROVE  <<order[j], e>> \notin flight'
    BY <2>1 DEF PublishPointer, Works, Published
  <2>. QED
    BY <2>1, RecordsChangeBy DEF Arrive, Miss
<1>3. calm' => calm
  BY RecordsChangeBy DEF PublishPointer, Arrive, Miss
<1>4. CASE UNCHANGED <<due, pointer>> /\ (step' = step \/ step' \notin {"idle", "resolve"})
  <2>1. due' \subseteq 1..Len(order')
    BY <1>1, <1>4 DEF Pointed
  <2>2. \A j \in due', e \in Endpoint : <<order'[j], e>> \notin flight'
    BY <1>1, <1>2, <1>4 DEF Pointed
  <2>3. ASSUME pointer' # 0
        PROVE \E i \in 1..Len(order') : order'[i] = pointer' /\ (calm' /\ Agreed => \A j \in due' : j <= i)
    <3>1. PICK i \in 1..Len(order) : order[i] = pointer /\ (calm /\ Agreed => \A j \in due : j <= i)
      BY <1>4, <2>3 DEF Pointed
    <3>2. i \in 1..Len(order') /\ order'[i] = order[i]
      BY <1>1
    <3>. QED
      BY <1>3, <1>4, <3>1, <3>2
  <2>. QED
    BY <1>4, <2>1, <2>2, <2>3 DEF Pointed, Agreed
<1>5. ASSUME NEW s \in BOOLEAN, Hydrate(s) PROVE Pointed'
  <2>1. due' = Sure /\ pointer' = 0 /\ UNCHANGED <<order, flight>>
    BY <1>5 DEF Hydrate, dehydrating
  <2>. QED
    BY <2>1 DEF Pointed, Sure
<1>6. ASSUME NEW deaf \in BOOLEAN, Resolve(deaf) PROVE Pointed'
  <2>1. step = "resolve" /\ next \in Endpoint /\ UNCHANGED <<due, calm, order, flight, made, record>>
    BY <1>6 DEF Resolve, dehydrating
  <2>2. CASE UNCHANGED pointer /\ step' \in {"resolve", "failed"}
    BY <1>4, <2>1, <2>2
  <2>3. CASE pointer' = record[next] /\ record[next] # 0 /\ step' = "metadata"
    <3>1. record[next] \in Published
      BY <2>1, <2>3 DEF Points
    <3>2. PICK i \in 1..Len(order) : order[i] = record[next]
      BY <3>1 DEF Published
    <3>3. ASSUME calm, Agreed, NEW j \in due PROVE j <= i
      <4>1. j \in 1..Len(order) /\ <<order[j], next>> \notin flight
        BY <2>1 DEF Pointed
      <4>2. made[record[next]].sequence >= made[order[j]].sequence
        BY <2>1, <3>3, <4>1 DEF Timely, UpToDate, Published
      <4>. QED
        BY <3>2, <3>3, <4>1, <4>2, LaterIsMore DEF Timely
    <3>. QED
      BY <2>1, <2>3, <3>2, <3>3 DEF Pointed, Agreed
  <2>4. \/ UNCHANGED pointer /\ step' \in {"resolve", "failed"}
        \/ pointer' = record[next] /\ record[next] # 0 /\ step' = "metadata"
    BY <1>6 DEF Resolve
  <2>. QED
    BY <2>2, <2>3, <2>4
<1>. QED
  BY <1>4, <1>5, <1>6, PointerChangesBy

\* If no PUT failed, the clocks agree and no two published in one second, hydrate()
\* is pointed at the last that had been published when it was called, or at a later
\* one: for any number of devices and endpoints, and in whatever order the PUTs arrive.
THEOREM LastPublishedWins == Spec => []LastOneWins
<1>1. Init => Timely /\ Pointed
  BY DEF Init, Timely, InTime, UpToDate, Published, Pointed
<1>2. Written /\ Timely /\ Pointed /\ [Next]_vars => Timely' /\ Pointed'
  BY TimelyNext, PointedNext
<1>3. Pointed => LastOneWins
  BY DEF Pointed, LastOneWins, Agreed
<1>. QED
  BY <1>1, <1>2, <1>3, WhatIsWritten, PTL DEF Spec

-----------------------------------------------------------------------------
(* hydrate() finds what was published.                                     *)

\* Whoever is told of n by members of D, or by pairs of M, is told by as many.
LEMMA Pigeons ==
  ASSUME NEW n \in Nat, NEW D, IsFiniteSet(D), NEW M, IsFiniteSet(M), NEW k,
         \A e \in 1..n : e \in D \/ <<k, e>> \in M
  PROVE  n <= Cardinality(D) + Cardinality(M)
<1>. DEFINE N == {e \in 1..n : <<k, e>> \in M}
            f == [e \in N |-> <<k, e>>]
<1>1. f \in Injection(N, M)
  BY DEF Injection, IsInjective
<1>2. IsFiniteSet(N) /\ Cardinality(N) <= Cardinality(M)
  BY <1>1, FS_Injection
<1>3. 1..n \subseteq D \cup N
  OBVIOUS
<1>4. IsFiniteSet(D \cup N) /\ Cardinality(D \cup N) = Cardinality(D) + Cardinality(N) - Cardinality(D \cap N)
  BY <1>2, FS_Union
<1>5. Cardinality(1..n) <= Cardinality(D \cup N)
  BY <1>3, <1>4, FS_Subset
<1>6. Cardinality(1..n) = n
  BY FS_Interval
<1>7. Cardinality(D) \in Nat /\ Cardinality(N) \in Nat /\ Cardinality(M) \in Nat /\ Cardinality(D \cap N) \in Nat
  BY <1>2, FS_CardinalityType, FS_Intersection
<1>. QED
  BY <1>2, <1>4, <1>5, <1>6, <1>7

\* The PUTs that failed, and what is known of the endpoints that were asked in vain:
\* each was deaf, or a PUT of what is due had failed there.
Missed == {p \in Published \X Endpoint : p \notin flight \cup took}

Reached == \A p \in took : record[p[2]] # 0
Counted == IsFiniteSet(Missed) /\ Cardinality(Missed) <= faults
InVain ==
  step = "resolve" =>
    /\ next \in Endpoint
    /\ \E D \in SUBSET (1..(next - 1)) :
         /\ Cardinality(D) + Cardinality(Missed) <= faults
         /\ \A i \in due, e \in 1..(next - 1) : e \in D \/ <<order[i], e>> \in Missed
NoneFound == step = "failed" /\ pointer = 0 /\ faults < Len(endpoints) => due = {}

LEMMA FaultsGrow ==
  ASSUME Written, [Next]_vars PROVE faults \in Nat /\ faults' \in Nat /\ faults' >= faults
<1>0. faults \in Nat
  BY DEF Written, WritersTypeOK
<1>1. CASE UNCHANGED vars
  BY <1>0, <1>1 DEF vars
<1>2. CASE Hydrating
  BY <1>0, <1>2, HydratingLeaves
<1>3. CASE Dehydrating
  <2>1. ASSUME NEW d \in Device, NEW s, Dehydrate(d, s) PROVE UNCHANGED faults
    BY <2>1 DEF Dehydrate
  <2>2. ASSUME NEW d \in Device, NEW who, PutCAR(d, who) \/ PutMetadata(d, who) PROVE faults' \in {faults, faults + 1}
    BY <2>2 DEF PutCAR, PutMetadata, Put, NoFault, Fault
  <2>3. ASSUME NEW d \in Device, PublishPointer(d) \/ Settle(d) \/ Killed(d) PROVE faults' \in {faults, faults + 1}
    BY <2>3 DEF PublishPointer, Settle, Killed, Fault
  <2>4. ASSUME NEW k, NEW e, Arrive(k, e) \/ \E a \in BOOLEAN : Miss(k, e, a) PROVE faults' \in {faults, faults + 1}
    BY <2>4 DEF Arrive, Miss, Fault
  <2>5. ASSUME NEW k, NEW who, Keep(k, who) PROVE faults' \in {faults, faults + 1}
    BY <2>5 DEF Keep, NoFault, Fault
  <2>6. ASSUME NEW m, NEW b, DropOne(m, b) PROVE faults' = faults + 1
    BY <2>6 DEF DropOne, Fault
  <2>7. ASSUME Tick PROVE UNCHANGED faults
    BY <2>7 DEF Tick
  <2>8. faults' \in {faults, faults + 1}
    BY <1>3, <2>1, <2>2, <2>3, <2>4, <2>5, <2>6, <2>7 DEF Dehydrating
  <2>. QED
    BY <1>0, <2>8
<1>. QED
  BY <1>1, <1>2, <1>3 DEF Next

LEMMA MissedChangesBy ==
  ASSUME Written, [Next]_vars
  PROVE  \/ Missed' = Missed
         \/ /\ \E p : Missed' = Missed \cup {p}
            /\ faults' = faults + 1 /\ UNCHANGED hydrating
<1>. USE DEF Written
<1>1. CASE UNCHANGED <<flight, took, order>>
  BY <1>1 DEF Missed, Published
<1>2. ASSUME NEW d \in Device, PublishPointer(d), UNCHANGED took PROVE Missed' = Missed
  <2>1. PICK k : k = mine[d]
    OBVIOUS
  <2>2. k \in 1..Len(made) /\ k \notin Published
    BY <1>2, <2>1 DEF PublishPointer, Works, WritersTypeOK
  <2>3. order' = Append(order, k) /\ order \in Seq(1..Len(made)) /\ flight' = flight \cup {<<k, e>> : e \in Endpoint}
    BY <1>2, <2>1 DEF PublishPointer, WritersTypeOK
  <2>4. Published' = Published \cup {k}
    BY <2>2, <2>3 DEF Published
  <2>5. \A l \in Published, e \in Endpoint : <<l, e>> \in flight' <=> <<l, e>> \in flight
    BY <2>2, <2>3
  <2>6. \A e \in Endpoint : <<k, e>> \in flight'
    BY <2>3
  <2>. QED
    BY <1>2, <2>4, <2>5, <2>6 DEF Missed
<1>3. ASSUME NEW k \in 1..Len(made), NEW e \in Endpoint, Arrive(k, e) PROVE Missed' = Missed
  <2>1. <<k, e>> \in flight /\ flight' = flight \ {<<k, e>>} /\ took' = took \cup {<<k, e>>} /\ UNCHANGED order
    BY <1>3 DEF Arrive
  <2>2. flight' \cup took' = flight \cup took
    BY <2>1
  <2>. QED
    BY <2>1, <2>2 DEF Missed, Published
<1>4. ASSUME NEW k \in 1..Len(made), NEW e \in Endpoint, NEW a \in BOOLEAN, Miss(k, e, a)
      PROVE  Missed' \in {Missed, Missed \cup {<<k, e>>}} /\ faults' = faults + 1 /\ UNCHANGED hydrating
  <2>1. /\ flight' = flight \ {<<k, e>>} /\ UNCHANGED <<took, order, hydrating>> /\ faults' = faults + 1
        /\ <<k, e>> \in flight
    BY <1>4 DEF Miss, Fault
  <2>2. Published' = Published
    BY <2>1 DEF Published
  <2>. QED
    BY <2>1, <2>2 DEF Missed
<1>. QED
  BY <1>1, <1>2, <1>3, <1>4, RecordsChangeBy

LEMMA CountedNext ==
  ASSUME Written, Counted, [Next]_vars PROVE Counted'
<1>1. faults \in Nat /\ faults' \in Nat /\ faults' >= faults
  BY FaultsGrow
<1>2. IsFiniteSet(Missed) /\ Cardinality(Missed) \in Nat /\ Cardinality(Missed) <= faults
  BY FS_CardinalityType DEF Counted
<1>3. CASE Missed' = Missed
  BY <1>1, <1>2, <1>3 DEF Counted
<1>4. ASSUME NEW p, Missed' = Missed \cup {p}, faults' = faults + 1 PROVE Counted'
  BY <1>1, <1>2, <1>4, FS_AddElement DEF Counted
<1>. QED
  BY <1>3, <1>4, MissedChangesBy

LEMMA ReachedNext ==
  ASSUME Written, Reached, [Next]_vars PROVE Reached'
<1>1. CASE UNCHANGED <<took, record>>
  BY <1>1 DEF Reached
<1>2. ASSUME NEW k \in 1..Len(made), NEW e \in Endpoint, Arrive(k, e) \/ \E a \in BOOLEAN : Miss(k, e, a) PROVE Reached'
  <2>1. \E r \in {record[e], k} : record' = [record EXCEPT ![e] = r]
    BY <1>2 DEF Arrive, Miss, Written, WritersTypeOK
  <2>2. k # 0 /\ record \in [Endpoint -> 0..Len(made)]
    BY DEF Written, WritersTypeOK
  <2>3. CASE Arrive(k, e)
    <3>1. took' = took \cup {<<k, e>>} /\ record' = [record EXCEPT ![e] = IF @ # 0 /\ made[@].sequence > made[k].sequence THEN @ ELSE k]
      BY <2>3 DEF Arrive
    <3>2. record'[e] # 0
      BY <2>2, <3>1
    <3>3. \A f \in Endpoint \ {e} : record'[f] = record[f]
      BY <2>2, <3>1
    <3>. QED
      BY <2>2, <3>1, <3>2, <3>3 DEF Reached, Written, WritersTypeOK
  <2>4. CASE \E a \in BOOLEAN : Miss(k, e, a)
    <3>1. UNCHANGED took
      BY <2>4 DEF Miss
    <3>2. \A f \in Endpoint : record'[f] \in {record[f], k}
      BY <2>1, <2>2
    <3>. QED
      BY <2>2, <3>1, <3>2 DEF Reached, Written, WritersTypeOK
  <2>. QED
    BY <1>2, <2>3, <2>4
<1>. QED
  BY <1>1, <1>2, RecordsChangeBy

LEMMA PlacesAreFew ==
  ASSUME NEW n \in Nat, NEW D \in SUBSET (1..(n - 1)) PROVE IsFiniteSet(D) /\ Cardinality(D) \in Nat
<1>1. IsFiniteSet(1..(n - 1))
  BY FS_Interval
<1>2. IsFiniteSet(D)
  BY <1>1, FS_Subset
<1>. QED
  BY <1>2, FS_CardinalityType

LEMMA InVainStays ==
  ASSUME Written, Pointed, Counted, InVain, [Next]_vars, UNCHANGED <<step, next, due>> PROVE InVain'
<1>. SUFFICES ASSUME step = "resolve"
              PROVE  \E D \in SUBSET (1..(next - 1)) :
                       /\ Cardinality(D) + Cardinality(Missed') <= faults'
                       /\ \A i \in due, e \in 1..(next - 1) : e \in D \/ <<order'[i], e>> \in Missed'
  BY DEF InVain
<1>1. next \in Nat /\ next \in Endpoint
  BY HandoverAssumption DEF InVain, Endpoint
<1>2. PICK D \in SUBSET (1..(next - 1)) :
         /\ Cardinality(D) + Cardinality(Missed) <= faults
         /\ \A i \in due, e \in 1..(next - 1) : e \in D \/ <<order[i], e>> \in Missed
  BY DEF InVain
<1>3. IsFiniteSet(D) /\ Cardinality(D) \in Nat
  BY <1>1, PlacesAreFew
<1>4. Cardinality(Missed) \in Nat /\ IsFiniteSet(Missed)
  BY FS_CardinalityType DEF Counted
<1>5. \A i \in due : order'[i] = order[i]
  <2>1. order \in Seq(Nat) /\ \A d \in Device : mine[d] \in Nat
    BY SeqIn DEF Written, WritersTypeOK
  <2>2. order' = order \/ \E d \in Device : order' = Append(order, mine[d])
    BY RecordsChangeBy DEF PublishPointer
  <2>3. due \subseteq 1..Len(order)
    BY DEF Pointed
  <2>4. ASSUME NEW d \in Device, order' = Append(order, mine[d]) PROVE \A i \in due : order'[i] = order[i]
    BY <2>1, <2>3, <2>4
  <2>. QED
    BY <2>2, <2>4
<1>6. Missed \subseteq Missed' /\ Cardinality(D) + Cardinality(Missed') <= faults'
  <2>0. faults \in Nat /\ faults' \in Nat /\ faults' >= faults
    BY FaultsGrow
  <2>1. CASE Missed' = Missed
    BY <1>2, <1>3, <1>4, <2>0, <2>1
  <2>2. ASSUME NEW p, Missed' = Missed \cup {p}, faults' = faults + 1
        PROVE  Missed \subseteq Missed' /\ Cardinality(D) + Cardinality(Missed') <= faults'
    <3>1. Cardinality(Missed') \in Nat /\ Cardinality(Missed') <= Cardinality(Missed) + 1
      <4>1. PICK M : M = Missed
        OBVIOUS
      <4>2. Cardinality(M \cup {p}) \in Nat /\ Cardinality(M \cup {p}) <= Cardinality(M) + 1
        BY <1>4, <4>1, FS_AddElement
      <4>. QED
        BY <2>2, <4>1, <4>2
    <3>. QED
      BY <1>2, <1>3, <1>4, <2>0, <2>2, <3>1
  <2>. QED
    BY <2>1, <2>2, MissedChangesBy
<1>. QED
  BY <1>2, <1>5, <1>6

LEMMA HydrateBegins ==
  ASSUME Written, Counted, NEW s \in BOOLEAN, Hydrate(s) PROVE InVain' /\ NoneFound'
<1>1. step' = "resolve" /\ next' = 1 /\ UNCHANGED <<flight, took, order, faults>>
  BY DEF Hydrate, dehydrating
<1>2. 1 \in Endpoint
  BY HandoverAssumption DEF Endpoint
<1>3. Missed' = Missed
  BY <1>1 DEF Missed, Published
<1>4. Cardinality({}) = 0 /\ Cardinality(Missed) \in Nat
  BY FS_EmptySet, FS_CardinalityType DEF Counted
<1>5. Cardinality({}) + Cardinality(Missed) <= faults
  BY <1>4 DEF Counted
<1>6. {} \in SUBSET (1..(next' - 1)) /\ \A e \in 1..(next' - 1) : FALSE
  BY <1>1
<1>7. InVain'
  BY <1>1, <1>2, <1>3, <1>5, <1>6 DEF InVain
<1>. QED
  BY <1>1, <1>7 DEF NoneFound

\* One endpoint more was asked in vain.
LEMMA ResolveInVain ==
  ASSUME Written, Pointed, Counted, Reached, InVain, NEW deaf \in BOOLEAN, Resolve(deaf), deaf \/ record[next] = 0
  PROVE  InVain' /\ NoneFound'
<1>1. /\ step = "resolve" /\ next \in Endpoint /\ next' = next + 1
      /\ step' = IF next = Len(endpoints) THEN "failed" ELSE step
      /\ UNCHANGED <<pointer, due, flight, took, order>>
  BY DEF Resolve, dehydrating
<1>2. faults' = IF deaf THEN faults + 1 ELSE faults
  BY DEF Resolve, Fault, NoFault
<1>3. next \in Nat /\ next >= 1 /\ next <= Len(endpoints) /\ Len(endpoints) \in Nat /\ faults \in Nat
  BY <1>1, HandoverAssumption DEF Endpoint, Written, WritersTypeOK
<1>4. PICK D \in SUBSET (1..(next - 1)) :
         /\ Cardinality(D) + Cardinality(Missed) <= faults
         /\ \A i \in due, e \in 1..(next - 1) : e \in D \/ <<order[i], e>> \in Missed
  BY <1>1 DEF InVain
<1>5. IsFiniteSet(D) /\ Cardinality(D) \in Nat
  BY <1>3, PlacesAreFew
<1>6. IsFiniteSet(Missed) /\ Cardinality(Missed) \in Nat
  BY FS_CardinalityType DEF Counted
<1>7. Missed' = Missed
  BY <1>1 DEF Missed, Published
<1>. DEFINE G == IF deaf THEN D \cup {next} ELSE D
<1>8. IsFiniteSet(G) /\ Cardinality(G) \in Nat /\ Cardinality(G) <= Cardinality(D) + (faults' - faults)
  <2>1. CASE deaf
    BY <1>2, <1>3, <1>5, <2>1, FS_AddElement
  <2>2. CASE ~ deaf
    BY <1>2, <1>3, <1>5, <2>2
  <2>. QED
    BY <2>1, <2>2
<1>9. Cardinality(G) + Cardinality(Missed) <= faults'
  <2>1. faults' \in Nat
    BY <1>2, <1>3
  <2>. HIDE DEF G
  <2>. QED
    BY <1>3, <1>4, <1>5, <1>6, <1>8, <2>1
<1>10. G \in SUBSET (1..next)
  BY <1>3
<1>11. ASSUME NEW i \in due, NEW e \in 1..next PROVE e \in G \/ <<order[i], e>> \in Missed
  <2>1. CASE e # next
    BY <1>3, <1>4, <2>1
  <2>2. CASE e = next /\ deaf
    BY <2>2
  <2>3. CASE e = next /\ ~ deaf
    <3>1. <<order[i], next>> \notin flight /\ order[i] \in Published
      BY <1>1 DEF Pointed, Published
    <3>2. <<order[i], next>> \notin took
      BY <1>1, <2>3 DEF Reached
    <3>. QED
      BY <1>1, <2>3, <3>1, <3>2 DEF Missed
  <2>. QED
    BY <2>1, <2>2, <2>3
<1>. HIDE DEF G
<1>12. InVain'
  <2>. SUFFICES ASSUME step' = "resolve" PROVE InVain'
    BY DEF InVain
  <2>1. next' \in Endpoint
    BY <1>1, <1>3 DEF Endpoint
  <2>2. next' - 1 = next
    BY <1>1, <1>3
  <2>. QED
    BY <1>1, <1>7, <1>9, <1>10, <1>11, <2>1, <2>2 DEF InVain
<1>13. NoneFound'
  <2>. SUFFICES ASSUME step' = "failed", faults' < Len(endpoints), NEW i \in due PROVE FALSE
    BY <1>1 DEF NoneFound
  <2>1. next = Len(endpoints)
    BY <1>1
  <2>2. Len(endpoints) <= Cardinality(G) + Cardinality(Missed)
    BY <1>3, <1>6, <1>8, <1>11, <2>1, Pigeons
  <2>. QED
    BY <1>2, <1>3, <1>6, <1>8, <1>9, <2>2
<1>. QED
  BY <1>12, <1>13

-----------------------------------------------------------------------------
(* What a hydration knows, and why it fails.                               *)

Replies == Soft \cup Hard \cup {"whole", "short"}

\* It is pointed somewhere as soon as it asks for bytes.
Guided == step \in {"metadata", "car", "done"} => pointer # 0

\* A gateway that was left behind answered badly, or took all of its attempts, and
\* each of those was a fault.
Asking ==
  /\ slips \in [1..Len(gateways) -> Seq(Replies)] /\ at \in Nat \ {0} /\ attempt \in 1..MaxAttempts
  /\ step \in {"metadata", "car"} =>
       /\ attempt - 1 <= faults
       /\ bytes = "failed" => at > Len(gateways)
       /\ \A i \in 1..Len(gateways) : i < at => faults >= MaxAttempts \/ ~ (Range(slips[i]) \subseteq Soft)

Refusal ==
  step = "failed" /\ pointer # 0 /\ faults < MaxAttempts =>
    \/ ~ Opens(pointer, key) \/ bytes = "short"
    \/ \A i \in 1..Len(gateways) : ~ (Range(slips[i]) \subseteq Soft)

Sealed == step = "done" /\ made[pointer].secret => full

Finding == InVain /\ NoneFound /\ Guided /\ Asking /\ Refusal /\ Sealed

LEMMA HydrationChangesBy ==
  ASSUME [Next]_vars
  PROVE  \/ UNCHANGED <<hydrating, fetching>>
         \/ (\E s \in BOOLEAN : Hydrate(s)) /\ UNCHANGED fetching
         \/ \E deaf \in BOOLEAN : Resolve(deaf)
         \/ (\E reply \in Replies : AskGateway(reply)) /\ UNCHANGED hydrating
         \/ (\E reached \in BOOLEAN : AskThePeers(reached)) /\ UNCHANGED hydrating
         \/ \E cut \in BOOLEAN : Read(cut)
<1>1. CASE UNCHANGED vars
  BY <1>1 DEF vars
<1>2. CASE Dehydrating
  <2>1. ASSUME NEW d \in Device, NEW s, Dehydrate(d, s) PROVE UNCHANGED <<hydrating, fetching>>
    BY <2>1 DEF Dehydrate
  <2>2. ASSUME NEW d \in Device, NEW who, PutCAR(d, who) \/ PutMetadata(d, who) PROVE UNCHANGED <<hydrating, fetching>>
    BY <2>2 DEF PutCAR, PutMetadata, Put
  <2>3. ASSUME NEW d \in Device, PublishPointer(d) \/ Settle(d) \/ Killed(d) PROVE UNCHANGED <<hydrating, fetching>>
    BY <2>3 DEF PublishPointer, Settle, Killed
  <2>4. ASSUME NEW k, NEW e, Arrive(k, e) \/ \E a \in BOOLEAN : Miss(k, e, a) PROVE UNCHANGED <<hydrating, fetching>>
    BY <2>4 DEF Arrive, Miss
  <2>5. ASSUME NEW k, NEW who, Keep(k, who) PROVE UNCHANGED <<hydrating, fetching>>
    BY <2>5 DEF Keep
  <2>6. ASSUME NEW m, NEW b, DropOne(m, b) PROVE UNCHANGED <<hydrating, fetching>>
    BY <2>6 DEF DropOne
  <2>7. ASSUME Tick PROVE UNCHANGED <<hydrating, fetching>>
    BY <2>7 DEF Tick
  <2>. QED
    BY <1>2, <2>1, <2>2, <2>3, <2>4, <2>5, <2>6, <2>7 DEF Dehydrating
<1>3. CASE Hydrating
  <2>1. ASSUME NEW s \in BOOLEAN, Hydrate(s) PROVE UNCHANGED fetching
    BY <2>1 DEF Hydrate
  <2>2. ASSUME NEW s, AskGateway(s) PROVE UNCHANGED hydrating
    BY <2>2 DEF AskGateway
  <2>3. ASSUME NEW s \in BOOLEAN, AskThePeers(s) PROVE UNCHANGED hydrating
    BY <2>3 DEF AskThePeers
  <2>. QED
    BY <1>3, <2>1, <2>2, <2>3 DEF Hydrating, Replies
<1>. QED
  BY <1>1, <1>2, <1>3 DEF Next

\* A hydration that asks for nothing more, or goes on asking, has the verdict it had.
LEMMA VerdictStays ==
  ASSUME Written, Pointed, [Next]_vars, UNCHANGED <<step, key, pointer, full>>, Guided, Refusal, Sealed,
         step = "failed" => UNCHANGED <<bytes, slips>>
  PROVE  Guided' /\ Refusal' /\ Sealed'
<1>1. pointer # 0 => made'[pointer].secret = made[pointer].secret
  <2>1. pointer # 0 => pointer \in Published
    BY DEF Pointed, Published
  <2>. QED
    BY <2>1, PublishedStays
<1>2. Guided' /\ Sealed'
  BY <1>1 DEF Guided, Sealed
<1>3. faults' < MaxAttempts => faults < MaxAttempts
  BY FaultsGrow DEF MaxAttempts
<1>4. pointer # 0 => (Opens(pointer, key)' <=> Opens(pointer, key))
  BY <1>1 DEF Opens
<1>5. ASSUME step = "failed", pointer # 0, faults' < MaxAttempts
      PROVE  \/ ~ Opens(pointer, key)' \/ bytes' = "short"
             \/ \A i \in 1..Len(gateways) : ~ (Range(slips'[i]) \subseteq Soft)
  BY <1>3, <1>4, <1>5 DEF Refusal
<1>6. Refusal'
  BY <1>5 DEF Refusal
<1>. QED
  BY <1>2, <1>6

\* One answer of a gateway.
LEMMA AskGatewayAsks ==
  ASSUME Written, Asking, NEW reply \in Replies, AskGateway(reply) PROVE Asking'
<1>1. /\ step \in {"metadata", "car"} /\ UNCHANGED step /\ bytes = "none" /\ at <= Len(gateways)
      /\ slips' = [slips EXCEPT ![at] = Append(@, reply)]
  BY DEF AskGateway, Ask, hydrating
<1>2. faults \in Nat /\ faults' \in Nat /\ faults' >= faults /\ (reply \in Soft => faults' = faults + 1)
  BY DEF AskGateway, Fault, NoFault, Soft, Written, WritersTypeOK
<1>3. Len(gateways) \in Nat /\ at \in 1..Len(gateways) /\ at \in Nat
  BY <1>1, HandoverAssumption DEF Asking
<1>4. PICK s \in Seq(Replies) : s = slips[at]
  BY <1>3 DEF Asking
<1>5. slips' \in [1..Len(gateways) -> Seq(Replies)] /\ slips'[at] = Append(s, reply)
  BY <1>1, <1>3, <1>4 DEF Asking
<1>6. \A i \in 1..Len(gateways) : i < at => slips'[i] = slips[i]
  BY <1>1, <1>3 DEF Asking
<1>7. reply \in Range(slips'[at])
  BY <1>5 DEF Range
<1>8. \/ bytes' = reply /\ reply \in {"whole", "short"} /\ UNCHANGED <<at, attempt>>
      \/ reply \in Soft /\ attempt < MaxAttempts /\ attempt' = attempt + 1 /\ UNCHANGED <<at, bytes>>
      \/ /\ ~ (reply \in Soft /\ attempt < MaxAttempts) /\ at' = at + 1 /\ attempt' = 1
         /\ bytes' = IF at' > Len(gateways) /\ ~ peers THEN "failed" ELSE bytes
  BY DEF AskGateway, Ask, Again
<1>9. attempt \in 1..3 /\ attempt - 1 <= faults
  BY <1>1 DEF Asking, MaxAttempts
<1>10. \A i \in 1..Len(gateways) : i < at => faults >= 3 \/ ~ (Range(slips[i]) \subseteq Soft)
  BY <1>1 DEF Asking, MaxAttempts
<1>11. \A i \in 1..Len(gateways) : i < at => faults' >= 3 \/ ~ (Range(slips'[i]) \subseteq Soft)
  BY <1>2, <1>6, <1>10
<1>12. CASE bytes' = reply /\ reply \in {"whole", "short"} /\ UNCHANGED <<at, attempt>>
  BY <1>1, <1>2, <1>3, <1>5, <1>9, <1>11, <1>12 DEF Asking, MaxAttempts
<1>13. CASE reply \in Soft /\ attempt < MaxAttempts /\ attempt' = attempt + 1 /\ UNCHANGED <<at, bytes>>
  BY <1>1, <1>2, <1>3, <1>5, <1>9, <1>11, <1>13 DEF Asking, MaxAttempts
<1>14. CASE /\ ~ (reply \in Soft /\ attempt < MaxAttempts) /\ at' = at + 1 /\ attempt' = 1
            /\ bytes' = IF at' > Len(gateways) /\ ~ peers THEN "failed" ELSE bytes
  <2>1. faults' >= 3 \/ reply \notin Soft
    BY <1>2, <1>9, <1>14 DEF MaxAttempts
  <2>2. faults' >= 3 \/ ~ (Range(slips'[at]) \subseteq Soft)
    BY <1>7, <2>1
  <2>3. \A i \in 1..Len(gateways) : i < at' => i < at \/ i = at
    BY <1>3, <1>14
  <2>4. \A i \in 1..Len(gateways) : i < at' => faults' >= 3 \/ ~ (Range(slips'[i]) \subseteq Soft)
    BY <1>11, <2>2, <2>3
  <2>5. bytes' = "failed" => at' > Len(gateways)
    BY <1>1, <1>14
  <2>6. at' \in Nat \ {0} /\ attempt' \in 1..3 /\ attempt' - 1 <= faults'
    BY <1>2, <1>3, <1>14
  <2>. QED
    BY <1>5, <2>4, <2>5, <2>6 DEF Asking, MaxAttempts
<1>. QED
  BY <1>8, <1>12, <1>13, <1>14

LEMMA FetchAsks ==
  ASSUME NEW a, NEW p, Fetch(a, p), faults' \in Nat PROVE Asking'
<1>1. /\ at' = 1 /\ attempt' = 1 /\ bytes' = "none"
      /\ slips' = [i \in 1..Len(gateways) |-> <<>>]
  BY DEF Fetch
<1>2. slips' \in [1..Len(gateways) -> Seq(Replies)]
  BY <1>1
<1>3. \A i \in 1..Len(gateways) : ~ (i < at')
  BY <1>1
<1>. QED
  BY <1>1, <1>2, <1>3 DEF Asking, MaxAttempts

LEMMA AskingNext ==
  ASSUME Written, Asking, [Next]_vars PROVE Asking'
<1>1. faults \in Nat /\ faults' \in Nat /\ faults' >= faults
  BY FaultsGrow
<1>2. ASSUME UNCHANGED <<slips, at, attempt>>,
             step' \notin {"metadata", "car"} \/ (step' = step /\ (bytes' = bytes \/ at > Len(gateways)))
      PROVE  Asking'
  <2>1. attempt \in Nat /\ at \in Nat
    BY DEF Asking, MaxAttempts
  <2>2. CASE step' \notin {"metadata", "car"}
    BY <1>2, <2>2 DEF Asking
  <2>3. ASSUME step \in {"metadata", "car"}, bytes' = bytes \/ at > Len(gateways)
        PROVE  /\ attempt - 1 <= faults' /\ (bytes' = "failed" => at > Len(gateways))
               /\ \A i \in 1..Len(gateways) : i < at => faults' >= MaxAttempts \/ ~ (Range(slips[i]) \subseteq Soft)
    <3>1. /\ attempt - 1 <= faults /\ (bytes = "failed" => at > Len(gateways))
          /\ \A i \in 1..Len(gateways) : i < at => faults >= MaxAttempts \/ ~ (Range(slips[i]) \subseteq Soft)
      BY <2>3 DEF Asking
    <3>2. faults >= MaxAttempts => faults' >= MaxAttempts
      BY <1>1 DEF MaxAttempts
    <3>. QED
      BY <1>1, <2>1, <2>3, <3>1, <3>2
  <2>. QED
    BY <1>2, <2>2, <2>3 DEF Asking
<1>3. CASE UNCHANGED <<hydrating, fetching>>
  BY <1>2, <1>3 DEF hydrating, fetching
<1>4. ASSUME NEW s \in BOOLEAN, Hydrate(s), UNCHANGED fetching PROVE Asking'
  BY <1>2, <1>4 DEF Hydrate, fetching
<1>5. ASSUME NEW deaf \in BOOLEAN, Resolve(deaf) PROVE Asking'
  <2>1. CASE UNCHANGED fetching /\ step' \in {"failed", "resolve"}
    BY <1>2, <2>1 DEF fetching
  <2>2. ASSUME NEW a, NEW p, Fetch(a, p) PROVE Asking'
    BY <1>1, <2>2, FetchAsks
  <2>3. \/ UNCHANGED fetching /\ step' \in {"failed", "resolve"}
        \/ \E p \in WithPeers : Fetch(made[pointer'].metadata.id, p)
    BY <1>5 DEF Resolve
  <2>. QED
    BY <2>1, <2>2, <2>3
<1>6. ASSUME NEW reply \in Replies, AskGateway(reply) PROVE Asking'
  BY <1>6, AskGatewayAsks
<1>7. ASSUME NEW reached \in BOOLEAN, AskThePeers(reached) PROVE Asking'
  BY <1>2, <1>7 DEF AskThePeers, AskPeers, hydrating
<1>8. ASSUME NEW cut \in BOOLEAN, Read(cut) PROVE Asking'
  <2>1. CASE FetchOver /\ step' \in {"failed", "done"}
    BY <1>2, <2>1 DEF FetchOver
  <2>2. CASE Fetch(made[pointer].car.id, peers)
    BY <1>1, <2>2, FetchAsks
  <2>. QED
    BY <1>8, <2>1, <2>2 DEF Read
<1>. QED
  BY <1>3, <1>4, <1>5, <1>6, <1>7, <1>8, HydrationChangesBy

\* What is read is opened, is short, or could not be had.
LEMMA ReadVerdict ==
  ASSUME Written, Pointed, Guided, Asking, NEW cut \in BOOLEAN, Read(cut) PROVE Guided' /\ Refusal' /\ Sealed'
<1>1. /\ step \in {"metadata", "car"} /\ pointer # 0
      /\ UNCHANGED <<key, pointer, made, faults>>
      /\ cut => ~ made[pointer].secret
  BY DEF Read, Guided, dehydrating
<1>2. /\ attempt - 1 <= faults
      /\ bytes = "failed" => at > Len(gateways)
      /\ \A i \in 1..Len(gateways) : i < at => faults >= MaxAttempts \/ ~ (Range(slips[i]) \subseteq Soft)
  BY <1>1 DEF Asking
<1>3. CASE bytes = "failed" \/ ~ Opens(pointer, key) \/ (bytes = "short" /\ ~ cut)
  <2>1. step' = "failed" /\ UNCHANGED <<bytes, slips>>
    BY <1>3 DEF Read, FetchOver
  <2>2. Guided' /\ Sealed'
    BY <2>1 DEF Guided, Sealed
  <2>3. ASSUME bytes = "failed", faults < MaxAttempts
        PROVE  \A i \in 1..Len(gateways) : ~ (Range(slips[i]) \subseteq Soft)
    <3>1. faults \in Nat /\ at \in Nat /\ Len(gateways) \in Nat
      BY HandoverAssumption DEF Written, WritersTypeOK, Asking
    <3>2. \A i \in 1..Len(gateways) : i < at
      BY <1>2, <2>3, <3>1
    <3>3. ~ (faults >= MaxAttempts)
      BY <2>3, <3>1 DEF MaxAttempts
    <3>. QED
      BY <1>2, <3>2, <3>3
  <2>4. faults < MaxAttempts =>
          \/ ~ Opens(pointer, key) \/ bytes = "short"
          \/ \A i \in 1..Len(gateways) : ~ (Range(slips[i]) \subseteq Soft)
    BY <1>3, <2>3
  <2>5. Refusal'
    BY <1>1, <2>1, <2>4 DEF Refusal, Opens
  <2>. QED
    BY <2>2, <2>5
<1>4. CASE ~ (bytes = "failed" \/ ~ Opens(pointer, key) \/ (bytes = "short" /\ ~ cut))
  <2>1. (step' = "car" /\ UNCHANGED full) \/ (step' = "done" /\ full' = ~ cut)
    BY <1>4 DEF Read
  <2>2. Guided' /\ Refusal'
    BY <1>1, <2>1 DEF Guided, Refusal
  <2>3. Sealed'
    BY <1>1, <2>1 DEF Sealed
  <2>. QED
    BY <2>2, <2>3
<1>. QED
  BY <1>3, <1>4

LEMMA FindingNext ==
  ASSUME Written, Pointed, Counted, Reached, Finding, [Next]_vars PROVE Finding'
<1>. USE DEF Finding
<1>1. faults \in Nat /\ faults' \in Nat /\ faults' >= faults
  BY FaultsGrow
<1>2. Asking'
  BY AskingNext
<1>3. ASSUME UNCHANGED hydrating, step = "failed" => UNCHANGED <<bytes, slips>> PROVE Finding'
  <2>1. UNCHANGED <<step, key, next, pointer, full, due>>
    BY <1>3 DEF hydrating
  <2>2. InVain'
    BY <2>1, InVainStays
  <2>3. NoneFound'
    <3>1. faults' < Len(endpoints) => faults < Len(endpoints)
      BY <1>1, HandoverAssumption
    <3>. QED
      BY <2>1, <3>1 DEF NoneFound
  <2>4. Guided' /\ Refusal' /\ Sealed'
    BY <1>3, <2>1, VerdictStays
  <2>. QED
    BY <1>2, <2>2, <2>3, <2>4
<1>4. ASSUME NEW s \in BOOLEAN, Hydrate(s) PROVE Finding'
  <2>1. InVain' /\ NoneFound'
    BY <1>4, HydrateBegins
  <2>2. step' = "resolve"
    BY <1>4 DEF Hydrate
  <2>. QED
    BY <1>2, <2>1, <2>2 DEF Guided, Refusal, Sealed
<1>5. ASSUME NEW deaf \in BOOLEAN, Resolve(deaf) PROVE Finding'
  <2>1. CASE deaf \/ record[next] = 0
    <3>1. InVain' /\ NoneFound'
      BY <1>5, <2>1, ResolveInVain
    <3>2. step' \in {"resolve", "failed"} /\ pointer' = 0
      BY <1>5, <2>1 DEF Resolve, Pointed
    <3>. QED
      BY <1>2, <3>1, <3>2 DEF Guided, Refusal, Sealed
  <2>2. CASE ~ (deaf \/ record[next] = 0)
    <3>1. step' = "metadata" /\ pointer' # 0
      BY <1>5, <2>2 DEF Resolve
    <3>. QED
      BY <1>2, <3>1 DEF InVain, NoneFound, Guided, Refusal, Sealed
  <2>. QED
    BY <2>1, <2>2
<1>6. ASSUME NEW reply \in Replies, AskGateway(reply), UNCHANGED hydrating PROVE Finding'
  BY <1>3, <1>6 DEF AskGateway
<1>7. ASSUME NEW reached \in BOOLEAN, AskThePeers(reached), UNCHANGED hydrating PROVE Finding'
  BY <1>3, <1>7 DEF AskThePeers
<1>8. ASSUME NEW cut \in BOOLEAN, Read(cut) PROVE Finding'
  <2>1. Guided' /\ Refusal' /\ Sealed'
    BY <1>8, ReadVerdict
  <2>2. step' \in {"failed", "car", "done"} /\ UNCHANGED pointer /\ pointer # 0
    BY <1>8 DEF Read, Guided
  <2>. QED
    BY <1>2, <2>1, <2>2 DEF InVain, NoneFound
<1>9. CASE UNCHANGED <<hydrating, fetching>>
  BY <1>3, <1>9 DEF fetching
<1>. QED
  BY <1>4, <1>5, <1>6, <1>7, <1>8, <1>9, HydrationChangesBy

\* With fewer faults than there are endpoints, and than a gateway is asked, hydrate()
\* fails for want of a record only if none was published for good when it was called,
\* and else only for a key that does not fit, a blob that was cut short, or because no
\* gateway that finds both of its blobs answered well; and a sealed backup that it
\* restores, it restores whole.
THEOREM WhatIsPublishedIsFound == Spec => []HydrateFinds
<1>1. Init => Counted /\ Reached /\ Finding
  <2>. SUFFICES ASSUME Init PROVE Counted /\ Reached /\ Finding
    OBVIOUS
  <2>1. order = <<>> /\ took = {} /\ step = "idle" /\ faults = 0
    BY DEF Init
  <2>2. Missed = {}
    BY <2>1 DEF Missed, Published
  <2>3. Counted /\ Reached
    BY <2>1, <2>2, FS_EmptySet DEF Counted, Reached
  <2>4. Asking
    BY <2>1 DEF Init, FetchInit, Asking, MaxAttempts
  <2>. QED
    BY <2>1, <2>3, <2>4 DEF Finding, InVain, NoneFound, Guided, Refusal, Sealed
<1>2. Written /\ Pointed /\ Counted /\ Reached /\ Finding /\ [Next]_vars => Counted' /\ Reached' /\ Finding'
  BY CountedNext, ReachedNext, FindingNext
<1>3. Init => Timely /\ Pointed
  BY DEF Init, Timely, InTime, UpToDate, Published, Pointed
<1>4. Written /\ Timely /\ Pointed /\ [Next]_vars => Timely' /\ Pointed'
  BY TimelyNext, PointedNext
<1>5. Finding => HydrateFinds
  <2>. SUFFICES ASSUME Finding PROVE HydrateFinds
    OBVIOUS
  <2>1. step = "done" /\ made[pointer].secret => full
    BY DEF Finding, Sealed
  <2>2. ASSUME step = "failed", faults < Len(endpoints), pointer = 0 PROVE due = {}
    BY <2>2 DEF Finding, NoneFound
  <2>3. ASSUME step = "failed", faults < MaxAttempts, pointer # 0
        PROVE  ~ Opens(pointer, key) \/ ~ Reachable(pointer) \/ bytes = "short"
    BY <2>3 DEF Finding, Refusal, Reachable
  <2>. QED
    BY <2>1, <2>2, <2>3 DEF HydrateFinds
<1>. QED
  BY <1>1, <1>2, <1>3, <1>4, <1>5, WhatIsWritten, PTL DEF Spec

=============================================================================
