------------------------- MODULE CourierOps_proofs -------------------------
(***************************************************************************)
(* A change is performed once, arrives if nothing is lost, and a           *)
(* reconciliation makes the logs one: for any number of writes, presses,   *)
(* stops and faults, and any limits of the memory and the outbox.           *)
(***************************************************************************)
EXTENDS CourierOps, SequenceTheorems, FiniteSetTheorems, WellFoundedInduction, TLAPS

-----------------------------------------------------------------------------
(* Sequences, as the sets of what they hold.                               *)

LEMMA Appending ==
  ASSUME NEW S, NEW s \in Seq(S), NEW x \in S
  PROVE  Append(s, x) \in Seq(S) /\ ToSet(Append(s, x)) = ToSet(s) \cup {x}
<1>1. /\ Append(s, x) \in Seq(S) /\ Len(Append(s, x)) = Len(s) + 1 /\ Len(s) \in Nat
      /\ \A i \in 1..Len(s) : Append(s, x)[i] = s[i]
      /\ Append(s, x)[Len(s) + 1] = x
  BY AppendProperties, LenProperties
<1>2. DOMAIN s = 1..Len(s) /\ DOMAIN Append(s, x) = 1..(Len(s) + 1)
  BY <1>1, LenProperties
<1>. QED
  BY <1>1, <1>2 DEF ToSet

LEMMA Taking ==
  ASSUME NEW S, NEW s \in Seq(S), s # <<>>
  PROVE  /\ Head(s) \in S /\ Tail(s) \in Seq(S) /\ Head(s) \in ToSet(s)
         /\ ToSet(s) = {Head(s)} \cup ToSet(Tail(s))
<1>1. /\ Head(s) = s[1] /\ Head(s) \in S /\ Tail(s) \in Seq(S) /\ Len(Tail(s)) = Len(s) - 1
      /\ \A i \in 1..Len(Tail(s)) : Tail(s)[i] = s[i + 1]
  BY HeadTailProperties
<1>2. Len(s) \in Nat \ {0} /\ DOMAIN s = 1..Len(s) /\ DOMAIN Tail(s) = 1..(Len(s) - 1)
  BY <1>1, LenProperties, EmptySeq
<1>3. \A i \in 1..Len(s) : i = 1 \/ (i - 1 \in 1..(Len(s) - 1) /\ s[i] = Tail(s)[i - 1])
  BY <1>1, <1>2
<1>4. \A i \in 1..(Len(s) - 1) : i + 1 \in 1..Len(s) /\ Tail(s)[i] = s[i + 1]
  BY <1>1, <1>2
<1>5. ToSet(s) = {s[i] : i \in 1..Len(s)} /\ ToSet(Tail(s)) = {Tail(s)[i] : i \in 1..(Len(s) - 1)}
  BY <1>2 DEF ToSet
<1>6. ToSet(Tail(s)) \subseteq ToSet(s) /\ Head(s) \in ToSet(s)
  <2>1. 1 \in 1..Len(s)
    BY <1>2
  <2>. QED
    BY <1>1, <1>4, <1>5, <2>1
<1>7. ToSet(s) \subseteq {Head(s)} \cup ToSet(Tail(s))
  BY <1>1, <1>3, <1>5
<1>. QED
  BY <1>1, <1>6, <1>7

LEMMA Joining ==
  ASSUME NEW S, NEW s \in Seq(S), NEW u \in Seq(S)
  PROVE  s \o u \in Seq(S) /\ ToSet(s \o u) = ToSet(s) \cup ToSet(u)
<1>1. /\ s \o u \in Seq(S) /\ Len(s \o u) = Len(s) + Len(u)
      /\ \A i \in 1..(Len(s) + Len(u)) : (s \o u)[i] = IF i <= Len(s) THEN s[i] ELSE u[i - Len(s)]
  BY ConcatProperties
<1>2. Len(s) \in Nat /\ Len(u) \in Nat /\ DOMAIN s = 1..Len(s) /\ DOMAIN u = 1..Len(u)
      /\ DOMAIN (s \o u) = 1..(Len(s) + Len(u))
  BY <1>1, LenProperties
<1>3. \A i \in 1..Len(s) : i \in 1..(Len(s) + Len(u)) /\ (s \o u)[i] = s[i]
  BY <1>1, <1>2
<1>4. \A i \in 1..Len(u) : Len(s) + i \in 1..(Len(s) + Len(u)) /\ (s \o u)[Len(s) + i] = u[i]
  BY <1>1, <1>2
<1>5. \A i \in 1..(Len(s) + Len(u)) : \/ i \in 1..Len(s) /\ (s \o u)[i] = s[i]
                                      \/ i - Len(s) \in 1..Len(u) /\ (s \o u)[i] = u[i - Len(s)]
  BY <1>1, <1>2
<1>. QED
  BY <1>1, <1>2, <1>3, <1>4, <1>5 DEF ToSet

LEMMA Part ==
  ASSUME NEW S, NEW s \in Seq(S), NEW m \in 1..(Len(s) + 1), NEW n \in 0..Len(s)
  PROVE  SubSeq(s, m, n) \in Seq(S) /\ ToSet(SubSeq(s, m, n)) = {s[i] : i \in m..n}
<1>0. Len(s) \in Nat /\ \A i \in 1..Len(s) : s[i] \in S
  BY LenProperties, ElementOfSeq
<1>1. \A i \in m..n : s[i] \in S
  BY <1>0
<1>2. /\ SubSeq(s, m, n) \in Seq(S)
      /\ Len(SubSeq(s, m, n)) = IF m <= n THEN n - m + 1 ELSE 0
      /\ \A i \in 1..(n - m + 1) : SubSeq(s, m, n)[i] = s[m + i - 1]
  BY <1>0, <1>1, SubSeqProperties
<1>3. DOMAIN SubSeq(s, m, n) = 1..(IF m <= n THEN n - m + 1 ELSE 0)
  BY <1>2, LenProperties
<1>4. DOMAIN SubSeq(s, m, n) = 1..(n - m + 1)
  BY <1>0, <1>3
<1>5. \A i \in 1..(n - m + 1) : m + i - 1 \in m..n
  BY <1>0
<1>6. \A i \in m..n : i - m + 1 \in 1..(n - m + 1) /\ m + (i - m + 1) - 1 = i
  BY <1>0
<1>7. PICK u : u = SubSeq(s, m, n)
  OBVIOUS
<1>8. ToSet(u) = {u[i] : i \in 1..(n - m + 1)}
  BY <1>4, <1>7 DEF ToSet
<1>9. \A i \in m..n : u[i - m + 1] = s[i]
  BY <1>2, <1>6, <1>7
<1>10. ToSet(u) \subseteq {s[i] : i \in m..n}
  BY <1>2, <1>5, <1>7, <1>8
<1>11. {s[i] : i \in m..n} \subseteq ToSet(u)
  BY <1>6, <1>8, <1>9
<1>. QED
  BY <1>2, <1>7, <1>10, <1>11

LEMMA Removing ==
  ASSUME NEW S, NEW s \in Seq(S), NEW i \in 1..Len(s)
  PROVE  /\ RemoveAt(s, i) \in Seq(S) /\ ToSet(RemoveAt(s, i)) \subseteq ToSet(s)
         /\ \A j \in 1..Len(s) : j # i => s[j] \in ToSet(RemoveAt(s, i))
<1>1. Len(s) \in Nat /\ DOMAIN s = 1..Len(s)
  BY LenProperties
<1>2. /\ SubSeq(s, 1, i - 1) \in Seq(S) /\ ToSet(SubSeq(s, 1, i - 1)) = {s[j] : j \in 1..(i - 1)}
      /\ SubSeq(s, i + 1, Len(s)) \in Seq(S) /\ ToSet(SubSeq(s, i + 1, Len(s))) = {s[j] : j \in (i + 1)..Len(s)}
  BY <1>1, Part
<1>3. /\ RemoveAt(s, i) \in Seq(S)
      /\ ToSet(RemoveAt(s, i)) = {s[j] : j \in 1..(i - 1)} \cup {s[j] : j \in (i + 1)..Len(s)}
  <2>1. PICK u \in Seq(S), v \in Seq(S) : u = SubSeq(s, 1, i - 1) /\ v = SubSeq(s, i + 1, Len(s))
    BY <1>2
  <2>2. u \o v \in Seq(S) /\ ToSet(u \o v) = ToSet(u) \cup ToSet(v)
    BY Joining
  <2>. QED
    BY <1>2, <2>1, <2>2 DEF RemoveAt
<1>4. \A j \in 1..Len(s) : j # i => j \in 1..(i - 1) \/ j \in (i + 1)..Len(s)
  BY <1>1
<1>5. 1..(i - 1) \subseteq 1..Len(s) /\ (i + 1)..Len(s) \subseteq 1..Len(s)
  BY <1>1
<1>. QED
  BY <1>1, <1>3, <1>4, <1>5 DEF ToSet

LEMMA Swapping ==
  ASSUME NEW S, NEW s \in Seq(S), Len(s) > 1
  PROVE  /\ <<s[2], s[1]>> \o SubSeq(s, 3, Len(s)) \in Seq(S)
         /\ ToSet(<<s[2], s[1]>> \o SubSeq(s, 3, Len(s))) = ToSet(s)
<1>1. Len(s) \in Nat /\ DOMAIN s = 1..Len(s) /\ s[1] \in S /\ s[2] \in S
  BY LenProperties, ElementOfSeq
<1>2. <<s[2], s[1]>> \in Seq(S) /\ ToSet(<<s[2], s[1]>>) = {s[1], s[2]}
  <2>1. DOMAIN <<s[2], s[1]>> = 1..2 /\ <<s[2], s[1]>> \in Seq(S)
    BY <1>1
  <2>2. \A i \in 1..2 : i = 1 \/ i = 2
    OBVIOUS
  <2>. QED
    BY <2>1, <2>2 DEF ToSet
<1>3. SubSeq(s, 3, Len(s)) \in Seq(S) /\ ToSet(SubSeq(s, 3, Len(s))) = {s[i] : i \in 3..Len(s)}
  BY <1>1, Part
<1>4. \A i \in 1..Len(s) : i = 1 \/ i = 2 \/ i \in 3..Len(s)
  BY <1>1
<1>5. 1 \in 1..Len(s) /\ 2 \in 1..Len(s) /\ 3..Len(s) \subseteq 1..Len(s)
  BY <1>1
<1>6. ToSet(s) = {s[1], s[2]} \cup {s[i] : i \in 3..Len(s)}
  BY <1>1, <1>4, <1>5 DEF ToSet
<1>7. PICK u \in Seq(S), v \in Seq(S) : u = <<s[2], s[1]>> /\ v = SubSeq(s, 3, Len(s))
  BY <1>2, <1>3
<1>8. u \o v \in Seq(S) /\ ToSet(u \o v) = ToSet(u) \cup ToSet(v)
  BY Joining
<1>. QED
  BY <1>2, <1>3, <1>6, <1>7, <1>8

-----------------------------------------------------------------------------
(* What a device says, and what of it waits where.                         *)

OpMsg       == [t : {"op"}, id : Nat]
AnnounceMsg == [t : {"announce"}, from : Peer, heads : SUBSET Nat, r : BOOLEAN]
WantMsg     == [t : {"want"}, from : Peer, to : Peer, cids : SUBSET Nat, have : SUBSET Nat]
BlocksMsg   == [t : {"blocks"}, from : Peer, to : Peer, heads : SUBSET Nat, blocks : SUBSET Nat]
Msg  == OpMsg \cup AnnounceMsg \cup WantMsg \cup BlocksMsg
Work == Msg \cup [t : {"ship"}, id : Nat]

EntryType == [by : Peer, past : SUBSET Nat, change : Nat]

OpsTypeOK ==
  /\ entries \in Seq(EntryType) /\ log \in [Peer -> SUBSET Nat] /\ parked \in [Peer -> SUBSET Nat]
  /\ eager \in BOOLEAN /\ started \in [Peer -> BOOLEAN]
  /\ pending \in [Peer -> Seq(Nat)] /\ going \in [Peer -> Seq(Nat)] /\ seen \in [Peer -> Seq(Nat)]
  /\ queue \in [Peer -> Seq(Work)] /\ doing \in [Peer -> Msg \cup {Idle}]
  /\ sending \in [Peer -> Msg \cup {Idle}] /\ outbox \in [Peer -> Seq(Msg)] /\ air \in [Peer -> Seq(Msg)]
  /\ opsFaults \in Nat /\ overlooked \subseteq Nat /\ spoiled \in BOOLEAN /\ level \in BOOLEAN

\* What p said is with p, and what comes to the other is with that; an echo is what p
\* said as well, and comes back to it.
Out(p)  == {sending[p]} \cup ToSet(outbox[p])
In(p)   == ToSet(air[p]) \cup ToSet(queue[p]) \cup {doing[p]}
Chan(p) == Out(p) \cup In(Other(p))

LEMMA TwoPeers ==
  ASSUME NEW p \in Peer
  PROVE  Other(p) \in Peer /\ Other(p) # p /\ Other(Other(p)) = p /\ Peer = {p, Other(p)}
<1>1. IsFiniteSet(Peer \ {p}) /\ Cardinality(Peer \ {p}) = 1
  BY OpsAssumption, FS_RemoveElement
<1>2. PICK q : Peer \ {p} = {q}
  BY <1>1, FS_Singleton
<1>3. q \in Peer /\ q # p /\ Peer = {p, q}
  BY <1>2
<1>4. Other(p) = q /\ Other(q) = p
  BY <1>3 DEF Other
<1>. QED
  BY <1>3, <1>4

LEMMA Kinds ==
  /\ \A m \in Work : m # Idle /\ m.t \in {"op", "announce", "want", "blocks", "ship"}
  /\ \A m \in Work : /\ m.t = "op" => m \in OpMsg
                     /\ m.t = "announce" => m \in AnnounceMsg
                     /\ m.t = "want" => m \in WantMsg
                     /\ m.t = "blocks" => m \in BlocksMsg
                     /\ m.t # "ship" => m \in Msg
  /\ \A m \in Msg : m \in Work /\ m.t # "ship"
BY DEF Work, Msg, OpMsg, AnnounceMsg, WantMsg, BlocksMsg, Idle

\* What waits in an outbox stays there, but for what is superseded or shed.
LEMMA Putting ==
  ASSUME NEW box \in Seq(Msg), NEW m \in Msg
  PROVE  /\ OpsPut(box, m) \in Seq(Msg) /\ m \in ToSet(OpsPut(box, m)) /\ ToSet(OpsPut(box, m)) \subseteq ToSet(box) \cup {m}
         /\ \A n \in ToSet(box) : n \in ToSet(OpsPut(box, m)) \/ Sheds(box, m) \/ (IsReply(m) /\ n.t = m.t /\ n.to = m.to)
<1>1. PICK fresh \in Seq(Msg) :
        /\ fresh = Fresh(box, m) /\ ToSet(fresh) \subseteq ToSet(box)
        /\ \A n \in ToSet(box) : n \in ToSet(fresh) \/ (IsReply(m) /\ n.t = m.t /\ n.to = m.to)
  <2>1. CASE Stale(box, m) = {}
    BY <2>1 DEF Fresh
  <2>2. ASSUME NEW i, i = CHOOSE j \in Stale(box, m) : TRUE, Stale(box, m) # {}
        PROVE  \E fresh \in Seq(Msg) :
                 /\ fresh = Fresh(box, m) /\ ToSet(fresh) \subseteq ToSet(box)
                 /\ \A n \in ToSet(box) : n \in ToSet(fresh) \/ (IsReply(m) /\ n.t = m.t /\ n.to = m.to)
    <3>1. i \in 1..Len(box) /\ IsReply(m) /\ box[i].t = m.t /\ box[i].to = m.to /\ DOMAIN box = 1..Len(box)
      BY <2>2, LenProperties DEF Stale
    <3>2. RemoveAt(box, i) = Fresh(box, m)
      BY <2>2 DEF Fresh
    <3>3. /\ RemoveAt(box, i) \in Seq(Msg) /\ ToSet(RemoveAt(box, i)) \subseteq ToSet(box)
          /\ \A j \in 1..Len(box) : j # i => box[j] \in ToSet(RemoveAt(box, i))
      BY <3>1, Removing
    <3>4. \A n \in ToSet(box) : \E j \in 1..Len(box) : n = box[j]
      BY <3>1 DEF ToSet
    <3>. QED
      BY <3>1, <3>2, <3>3, <3>4
  <2>. QED
    BY <2>1, <2>2
<1>2. Len(fresh) >= MaxOutbox => fresh # <<>>
  BY OpsAssumption, EmptySeq
<1>3. Sheds(box, m) <=> Len(fresh) >= MaxOutbox
  BY <1>1 DEF Sheds
<1>4. PICK kept \in Seq(Msg) : kept = (IF Sheds(box, m) THEN Tail(fresh) ELSE fresh)
  BY <1>2, <1>3, Taking
<1>5. ToSet(kept) \subseteq ToSet(fresh) /\ (~ Sheds(box, m) => kept = fresh)
  BY <1>2, <1>3, <1>4, Taking
<1>6. OpsPut(box, m) = Append(kept, m)
  BY <1>1, <1>4 DEF OpsPut
<1>. QED
  BY <1>1, <1>5, <1>6, Appending

\* What a post leaves of what p says.  A message that is shed spoils, and ends what had
\* been levelled.
Kept(p, n, Superseding) == n \in Out(p)' \/ \E m \in Superseding : IsReply(m) /\ n.t = m.t /\ n.to = m.to
Shed == spoiled' /\ ~ level'

LEMMA Posting ==
  ASSUME OpsTypeOK, NEW p \in Peer, NEW m \in Msg, Post(p, m)
  PROVE  /\ sending' \in [Peer -> Msg \cup {Idle}] /\ outbox' \in [Peer -> Seq(Msg)]
         /\ spoiled' \in BOOLEAN /\ level' \in BOOLEAN
         /\ \A q \in Peer \ {p} : sending'[q] = sending[q] /\ outbox'[q] = outbox[q]
         /\ Out(p)' \subseteq Out(p) \cup {m}
         /\ spoiled => spoiled'
         /\ level' => level \/ (m.t = "announce" /\ m.r)
         /\ Shed \/ (m \in Out(p)' /\ \A n \in Out(p) \ {Idle} : Kept(p, n, {m}))
<1>1. /\ sending[p] \in Msg \cup {Idle} /\ outbox[p] \in Seq(Msg) /\ spoiled \in BOOLEAN /\ level \in BOOLEAN
      /\ sending \in [Peer -> Msg \cup {Idle}] /\ outbox \in [Peer -> Seq(Msg)]
  BY DEF OpsTypeOK
<1>2. /\ spoiled' \in BOOLEAN /\ level' \in BOOLEAN /\ (spoiled => spoiled')
      /\ level' => level \/ (m.t = "announce" /\ m.r)
  BY <1>1 DEF Post
<1>3. CASE sending[p] = Idle
  <2>1. sending' = [sending EXCEPT ![p] = m] /\ outbox' = outbox
    BY <1>3 DEF Post
  <2>2. sending'[p] = m /\ Out(p)' = {m} \cup ToSet(outbox[p])
    BY <1>1, <2>1 DEF Out
  <2>. QED
    BY <1>1, <1>2, <1>3, <2>1, <2>2 DEF Kept, Out
<1>4. CASE sending[p] # Idle
  <2>1. sending' = sending /\ outbox' = [outbox EXCEPT ![p] = OpsPut(outbox[p], m)]
    BY <1>4 DEF Post
  <2>2. outbox'[p] = OpsPut(outbox[p], m) /\ Out(p)' = {sending[p]} \cup ToSet(OpsPut(outbox[p], m))
    BY <1>1, <2>1 DEF Out
  <2>3. /\ OpsPut(outbox[p], m) \in Seq(Msg) /\ m \in ToSet(OpsPut(outbox[p], m))
        /\ ToSet(OpsPut(outbox[p], m)) \subseteq ToSet(outbox[p]) \cup {m}
        /\ \A n \in ToSet(outbox[p]) :
             n \in ToSet(OpsPut(outbox[p], m)) \/ Sheds(outbox[p], m) \/ (IsReply(m) /\ n.t = m.t /\ n.to = m.to)
    BY <1>1, Putting
  <2>4. Sheds(outbox[p], m) => Shed
    BY <1>4 DEF Post, Shed
  <2>. QED
    BY <1>1, <1>2, <2>1, <2>2, <2>3, <2>4 DEF Kept, Out
<1>. QED
  BY <1>3, <1>4

LEMMA PostingTwo ==
  ASSUME OpsTypeOK, NEW p \in Peer, NEW m \in Msg, NEW n \in Msg, Post2(p, m, n)
  PROVE  /\ sending' \in [Peer -> Msg \cup {Idle}] /\ outbox' \in [Peer -> Seq(Msg)]
         /\ spoiled' \in BOOLEAN /\ level' \in BOOLEAN
         /\ \A q \in Peer \ {p} : sending'[q] = sending[q] /\ outbox'[q] = outbox[q]
         /\ Out(p)' \subseteq Out(p) \cup {m, n}
         /\ (spoiled => spoiled') /\ (level' => level)
         /\ \/ Shed
            \/ /\ n \in Out(p)' /\ (m \in Out(p)' \/ (IsReply(n) /\ n.t = m.t))
               /\ \A x \in Out(p) \ {Idle} : Kept(p, x, {m, n})
<1>1. /\ sending[p] \in Msg \cup {Idle} /\ outbox[p] \in Seq(Msg) /\ spoiled \in BOOLEAN /\ level \in BOOLEAN
      /\ sending \in [Peer -> Msg \cup {Idle}] /\ outbox \in [Peer -> Seq(Msg)]
  BY DEF OpsTypeOK
<1>2. PICK box \in Seq(Msg) : box = (IF sending[p] = Idle THEN outbox[p] ELSE OpsPut(outbox[p], m))
  BY <1>1, Putting
<1>3. /\ sending' = [sending EXCEPT ![p] = IF sending[p] = Idle THEN m ELSE sending[p]]
      /\ outbox' = [outbox EXCEPT ![p] = OpsPut(box, n)]
      /\ spoiled' = (spoiled \/ (Sheds(box, n) \/ (sending[p] # Idle /\ Sheds(outbox[p], m))))
      /\ level' = (level /\ ~ (Sheds(box, n) \/ (sending[p] # Idle /\ Sheds(outbox[p], m))))
  BY <1>2 DEF Post2, Spoils
<1>4. /\ OpsPut(box, n) \in Seq(Msg) /\ n \in ToSet(OpsPut(box, n)) /\ ToSet(OpsPut(box, n)) \subseteq ToSet(box) \cup {n}
      /\ \A x \in ToSet(box) : x \in ToSet(OpsPut(box, n)) \/ Sheds(box, n) \/ (IsReply(n) /\ x.t = n.t /\ x.to = n.to)
  BY Putting
<1>5. spoiled' \in BOOLEAN /\ level' \in BOOLEAN /\ (spoiled => spoiled') /\ (level' => level)
  BY <1>1, <1>3
<1>6. sending'[p] = (IF sending[p] = Idle THEN m ELSE sending[p]) /\ Out(p)' = {sending'[p]} \cup ToSet(OpsPut(box, n))
  BY <1>1, <1>3 DEF Out
<1>7. Sheds(box, n) \/ (sending[p] # Idle /\ Sheds(outbox[p], m)) => Shed
  BY <1>3 DEF Shed
<1>8. CASE sending[p] = Idle
  BY <1>1, <1>2, <1>3, <1>4, <1>5, <1>6, <1>7, <1>8 DEF Kept, Out
<1>9. CASE sending[p] # Idle
  <2>1. /\ m \in ToSet(box) /\ ToSet(box) \subseteq ToSet(outbox[p]) \cup {m}
        /\ \A x \in ToSet(outbox[p]) : x \in ToSet(box) \/ Sheds(outbox[p], m) \/ (IsReply(m) /\ x.t = m.t /\ x.to = m.to)
    BY <1>1, <1>2, <1>9, Putting
  <2>. QED
    BY <1>1, <1>3, <1>4, <1>5, <1>6, <1>7, <1>9, <2>1 DEF Kept, Out
<1>. QED
  BY <1>8, <1>9

LEMMA GoingOut ==
  ASSUME OpsTypeOK, NEW p \in Peer, NextOut(p)
  PROVE  /\ sending' \in [Peer -> Msg \cup {Idle}] /\ outbox' \in [Peer -> Seq(Msg)]
         /\ \A q \in Peer \ {p} : sending'[q] = sending[q] /\ outbox'[q] = outbox[q]
         /\ sending[p] \in Msg /\ Out(p)' \subseteq Out(p) \cup {Idle}
         /\ \A n \in Out(p) : n = sending[p] \/ n \in Out(p)'
<1>1. /\ sending[p] \in Msg /\ outbox[p] \in Seq(Msg)
      /\ sending \in [Peer -> Msg \cup {Idle}] /\ outbox \in [Peer -> Seq(Msg)]
  BY DEF OpsTypeOK, NextOut
<1>2. /\ sending' = [sending EXCEPT ![p] = IF outbox[p] = <<>> THEN Idle ELSE Head(outbox[p])]
      /\ outbox' = [outbox EXCEPT ![p] = IF outbox[p] = <<>> THEN outbox[p] ELSE Tail(outbox[p])]
  BY DEF NextOut
<1>3. CASE outbox[p] = <<>>
  BY <1>1, <1>2, <1>3 DEF Out, ToSet
<1>4. CASE outbox[p] # <<>>
  <2>1. /\ Head(outbox[p]) \in Msg /\ Tail(outbox[p]) \in Seq(Msg)
        /\ ToSet(outbox[p]) = {Head(outbox[p])} \cup ToSet(Tail(outbox[p]))
    BY <1>1, <1>4, Taking
  <2>2. Out(p)' = {Head(outbox[p])} \cup ToSet(Tail(outbox[p]))
    BY <1>1, <1>2, <1>4 DEF Out
  <2>. QED
    BY <1>1, <1>2, <1>4, <2>1, <2>2 DEF Out
<1>. QED
  BY <1>3, <1>4

-----------------------------------------------------------------------------
(* The entries, and what is said of them.                                  *)

\* An entry has below it a whole log; a log has what is below its entries, and all
\* that its device wrote; an entry is of a change that somebody made.
Graph ==
  /\ \A e \in Change : Past(e) \subseteq 1..(e - 1) /\ \A f \in Past(e) : Past(f) \subseteq Past(e)
  /\ \A e \in Change : entries[e].change \in Writes /\ entries[e].change <= e
  /\ \A e \in Change : e \in log[entries[e].by]
  /\ \A p \in Peer : log[p] \subseteq Change /\ \A e \in log[p] : Past(e) \subseteq log[p]

\* Nobody speaks of what it does not have, and an operation is of a change.
HonestIs(m) ==
  /\ m.t \in {"announce", "blocks"} => m.heads \subseteq log[m.from]
  /\ m.t = "want" => m.have \subseteq log[m.from]
  /\ m.t = "blocks" => m.blocks \subseteq Change
  /\ m.t = "op" => m.id \in Writes
Honest == \A p \in Peer : \A m \in Out(p) \cup In(p) : HonestIs(m)

\* What a device is about to ship, it wrote.
Mine(p, c) == c \in Writes /\ entries[c].by = p
Own == \A p \in Peer :
  /\ \A c \in ToSet(pending[p]) \cup ToSet(going[p]) : Mine(p, c)
  /\ \A m \in ToSet(queue[p]) : m.t = "ship" => Mine(p, m.id)

Sound == OpsTypeOK /\ Graph /\ Honest /\ Own

\* What waits to be joined, or is stored, are entries; a delivery being applied waits.
Held == \A p \in Peer :
  /\ parked[p] \subseteq Change /\ store[p] \subseteq Change
  /\ doing[p].t = "blocks" => doing[p].blocks \subseteq parked[p]

LEMMA EntriesAre ==
  ASSUME OpsTypeOK
  PROVE  /\ Len(entries) \in Nat /\ Change \subseteq Nat /\ Writes \subseteq Change /\ IsFiniteSet(Writes)
         /\ \A e \in Change : entries[e].by \in Peer /\ Past(e) \subseteq Nat /\ entries[e].change \in Nat
<1>1. Len(entries) \in Nat /\ \A e \in 1..Len(entries) : entries[e] \in EntryType
  BY LenProperties, ElementOfSeq DEF OpsTypeOK
<1>2. IsFiniteSet(1..Len(entries))
  BY <1>1, FS_Interval
<1>3. Writes \subseteq 1..Len(entries)
  BY DEF Writes
<1>4. IsFiniteSet(Writes)
  BY <1>2, <1>3, FS_Subset
<1>. QED
  BY <1>1, <1>3, <1>4 DEF EntryType, Change, Past

LEMMA BelowIsIn ==
  ASSUME Graph, NEW p \in Peer, NEW L \in SUBSET log[p] PROVE Below(L) \subseteq log[p]
BY DEF Graph, Below

\* The new entry, and all that there were.
LEMMA AppendingIs ==
  ASSUME OpsTypeOK, NEW p \in Peer, NEW c \in Nat, Appended(p, c), Graph, c # 0 => c \in Writes
  PROVE  /\ entries' \in Seq(EntryType) /\ log' \in [Peer -> SUBSET Nat]
         /\ Len(entries') = Len(entries) + 1
         /\ \A e \in Change : entries'[e] = entries[e]
         /\ entries'[Len(entries) + 1].by = p
         /\ entries'[Len(entries) + 1].past = log[p]
         /\ entries'[Len(entries) + 1].change = (IF c = 0 THEN Len(entries) + 1 ELSE c)
         /\ Writes' = Writes \cup (IF c = 0 THEN {Len(entries) + 1} ELSE {})
         /\ log'[p] = log[p] \cup {Len(entries) + 1} /\ \A q \in Peer \ {p} : log'[q] = log[q]
         /\ Graph'
<1>1. Len(entries) \in Nat /\ entries \in Seq(EntryType) /\ log \in [Peer -> SUBSET Nat] /\ Writes \subseteq Change
  BY EntriesAre DEF OpsTypeOK
<1>2. PICK e : e = Len(entries) + 1
  OBVIOUS
<1>3. PICK r : r = [by |-> p, past |-> log[p], change |-> IF c = 0 THEN e ELSE c]
  OBVIOUS
<1>4. r \in EntryType /\ r.by = p /\ r.past = log[p] /\ r.change = IF c = 0 THEN e ELSE c
  BY <1>1, <1>2, <1>3 DEF EntryType
<1>5. entries' = Append(entries, r) /\ log' = [log EXCEPT ![p] = log[p] \cup {e}]
  BY <1>2, <1>3 DEF Appended
<1>6. /\ entries' \in Seq(EntryType) /\ Len(entries') = e /\ entries'[e] = r
      /\ \A f \in 1..Len(entries) : entries'[f] = entries[f]
  BY <1>1, <1>2, <1>4, <1>5, AppendProperties
<1>7. log' \in [Peer -> SUBSET Nat] /\ log'[p] = log[p] \cup {e} /\ \A q \in Peer \ {p} : log'[q] = log[q]
  BY <1>1, <1>2, <1>5
<1>8. Change' = Change \cup {e} /\ e \notin Change /\ e # 0
  BY <1>1, <1>2, <1>6 DEF Change
<1>9. Writes' = Writes \cup (IF c = 0 THEN {e} ELSE {})
  <2>1. \A f \in Change : (f \in Writes' <=> f \in Writes)
    BY <1>6, <1>8 DEF Writes, Change
  <2>2. e \in Writes' <=> c = 0
    <3>1. c # 0 => c # e
      BY <1>1, <1>8
    <3>. QED
      BY <1>4, <1>6, <1>8, <3>1 DEF Writes, Change
  <2>3. Writes' \subseteq Change'
    BY DEF Writes, Change
  <2>. QED
    BY <1>1, <1>8, <2>1, <2>2, <2>3
<1>10. Graph'
  <2>1. \A f \in Change : Past(f)' = Past(f) /\ entries'[f].change = entries[f].change /\ entries'[f].by = entries[f].by
    BY <1>6 DEF Past, Change
  <2>2. Past(e)' = log[p]
    BY <1>4, <1>6 DEF Past
  <2>3. \A q \in Peer : log[q] \subseteq log'[q] /\ log[q] \subseteq Change
    BY <1>7 DEF Graph
  <2>4. \A f \in Change' : Past(f)' \subseteq 1..(f - 1) /\ \A g \in Past(f)' : Past(g)' \subseteq Past(f)'
    <3>1. ASSUME NEW f \in Change PROVE Past(f)' \subseteq 1..(f - 1) /\ \A g \in Past(f)' : Past(g)' \subseteq Past(f)'
      <4>1. Past(f) \subseteq 1..(f - 1) /\ \A g \in Past(f) : Past(g) \subseteq Past(f)
        BY DEF Graph
      <4>2. Past(f) \subseteq Change
        BY <1>1, <4>1 DEF Change
      <4>. QED
        BY <2>1, <4>1, <4>2
    <3>2. log[p] \subseteq 1..(e - 1)
      BY <1>1, <1>2, <2>3 DEF Change
    <3>3. \A g \in log[p] : Past(g)' \subseteq log[p]
      BY <2>1, <2>3 DEF Graph
    <3>. QED
      BY <1>8, <2>2, <3>1, <3>2, <3>3
  <2>5. \A f \in Change' : entries'[f].change \in Writes' /\ entries'[f].change <= f
    <3>1. \A f \in Change : entries'[f].change \in Writes' /\ entries'[f].change <= f
      BY <1>9, <2>1 DEF Graph
    <3>2. c # 0 => c <= e
      BY <1>1, <1>2 DEF Change
    <3>3. entries'[e].change \in Writes' /\ entries'[e].change <= e
      BY <1>1, <1>2, <1>4, <1>6, <1>9, <3>2
    <3>. QED
      BY <1>8, <3>1, <3>3
  <2>6. \A f \in Change' : f \in log'[entries'[f].by]
    <3>1. \A f \in Change : entries[f].by \in Peer
      BY EntriesAre
    <3>. QED
      BY <1>4, <1>6, <1>7, <1>8, <2>1, <2>3, <3>1 DEF Graph
  <2>7. \A q \in Peer : log'[q] \subseteq Change' /\ \A f \in log'[q] : Past(f)' \subseteq log'[q]
    <3>1. ASSUME NEW q \in Peer, NEW f \in log[q] PROVE Past(f)' \subseteq log[q]
      BY <2>1, <2>3 DEF Graph
    <3>. QED
      BY <1>7, <1>8, <2>2, <2>3, <3>1
  <2>. QED
    BY <2>4, <2>5, <2>6, <2>7 DEF Graph
<1>. QED
  BY <1>2, <1>4, <1>6, <1>7, <1>9, <1>10 DEF Change

\* A bounded set of numbers has a largest one.
LEMMA LargestIs ==
  ASSUME NEW n \in Nat, NEW T, T \subseteq 1..n, T # {} PROVE \E x \in T : \A y \in T : y <= x
<1>. DEFINE R == OpToRel(<, Nat)
            U == {n - y : y \in T}
<1>1. IsWellFoundedOn(R, Nat)
  BY NatLessThanWellFounded
<1>2. \A x, y \in Nat : y < x => <<y, x>> \in R
  BY DEF OpToRel
<1>3. U \subseteq Nat /\ U # {}
  <2>1. \A y \in T : n - y \in Nat
    OBVIOUS
  <2>2. PICK y : y \in T
    OBVIOUS
  <2>. QED
    BY <2>1, <2>2
<1>. HIDE DEF R, U
<1>4. PICK u \in U : \A v \in U : ~ (<<v, u>> \in R)
  BY <1>1, <1>3, WFMin
<1>5. PICK x \in T : u = n - x
  BY <1>4 DEF U
<1>6. ASSUME NEW y \in T PROVE y <= x
  <2>1. n - y \in U /\ x \in Nat /\ y \in Nat
    BY DEF U
  <2>2. ~ (n - y < u)
    BY <1>2, <1>3, <1>4, <2>1
  <2>. QED
    BY <1>5, <2>1, <2>2
<1>. QED
  BY <1>5, <1>6

\* What is on top of a log reaches all of it.
LEMMA HeadsReach ==
  ASSUME OpsTypeOK, Graph, NEW L, L \subseteq Change, NEW c \in L
  PROVE  \E h \in Heads(L) : c = h \/ c \in Past(h)
<1>. DEFINE Above == {f \in L : c = f \/ c \in Past(f)}
<1>1. Len(entries) \in Nat /\ Above \subseteq 1..Len(entries) /\ c \in Above
  BY EntriesAre DEF Change
<1>2. PICK h \in Above : \A f \in Above : f <= h
  <2>. HIDE DEF Above
  <2>. QED
    BY <1>1, LargestIs
<1>3. ASSUME NEW g \in L, h \in Past(g) PROVE FALSE
  <2>1. Past(h) \subseteq Past(g) /\ Past(g) \subseteq 1..(g - 1)
    BY <1>3 DEF Graph
  <2>2. g \in Above
    BY <1>3, <2>1
  <2>3. g <= h /\ h \in 1..(g - 1) /\ g \in Nat /\ h \in Nat
    BY <1>1, <1>2, <1>3, <2>1, <2>2
  <2>. QED
    BY <2>3
<1>. QED
  BY <1>2, <1>3 DEF Heads

-----------------------------------------------------------------------------
(* What a step does to the messages that are about.                        *)

Kind == {"op", "announce", "want", "blocks"}
All  == UNION {Out(p) \cup In(p) : p \in Peer}

\* Blocks that bring the other device all that it lacks.
Covers(x, C) == \A c \in log[x] \ log[Other(x)] : c \in Below(Heads(log[x]) \cap C)

\* A reply of x that says all it has, and brings it where it goes to the other device.
Answers(x, n) == /\ IsReply(n) /\ n.from = x
                 /\ n.t = "blocks" => n.heads = Heads(log[x]) /\ (n.to = Other(x) => Covers(x, n.blocks))

\* What was on its way goes on, is replaced by a newer answer, or was taken up by p.
Moves(p, h) ==
  \A x \in Peer : \A m \in Chan(x) : m.t \in Kind =>
    \/ m \in Chan(x)' \/ (x = Other(p) /\ m = h)
    \/ \E n \in Chan(x)' : Answers(x, n) /\ n.t = m.t /\ n.to = m.to

\* What p has heard is left as it was, but for h.
Heard(p, h) == \A q \in Peer : /\ In(q)' \subseteq In(q) \cup {Idle}
                               /\ In(q) \ (IF q = p THEN {h, Idle} ELSE {Idle}) \subseteq In(q)'

LEMMA PostMoves ==
  ASSUME OpsTypeOK, NEW p \in Peer, NEW m \in Msg, Post(p, m), IsReply(m) => Answers(p, m), NEW h, Heard(p, h)
  PROVE  All' \subseteq All \cup {m, Idle} /\ (Shed \/ (m \in Chan(p)' /\ Moves(p, h)))
<1>1. Other(p) \in Peer /\ Other(p) # p /\ Other(Other(p)) = p /\ Peer = {p, Other(p)}
  BY TwoPeers
<1>2. /\ \A q \in Peer \ {p} : sending'[q] = sending[q] /\ outbox'[q] = outbox[q]
      /\ Out(p)' \subseteq Out(p) \cup {m}
      /\ Shed \/ (m \in Out(p)' /\ \A n \in Out(p) \ {Idle} : Kept(p, n, {m}))
  BY Posting
<1>3. \A q \in Peer \ {p} : Out(q)' = Out(q)
  BY <1>2 DEF Out
<1>4. All' \subseteq All \cup {m, Idle}
  BY <1>2, <1>3 DEF All, Heard
<1>5. ASSUME ~ Shed PROVE m \in Chan(p)' /\ Moves(p, h)
  <2>1. m \in Chan(p)'
    BY <1>2, <1>5 DEF Chan
  <2>2. ASSUME NEW n \in Chan(p), n.t \in Kind
        PROVE  n \in Chan(p)' \/ \E x \in Chan(p)' : Answers(p, x) /\ x.t = n.t /\ x.to = n.to
    <3>1. n # Idle
      BY <2>2 DEF Kind, Idle
    <3>2. CASE n \in Out(p)
      BY <1>2, <1>5, <2>1, <3>1, <3>2 DEF Kept, Chan
    <3>3. CASE n \in In(Other(p))
      BY <1>1, <3>1, <3>3 DEF Heard, Chan
    <3>. QED
      BY <3>2, <3>3 DEF Chan
  <2>3. ASSUME NEW n \in Chan(Other(p)), n.t \in Kind, n # h
        PROVE  n \in Chan(Other(p))'
    <3>1. n # Idle
      BY <2>3 DEF Kind, Idle
    <3>. QED
      BY <1>1, <1>3, <2>3, <3>1 DEF Heard, Chan
  <2>. QED
    BY <1>1, <2>1, <2>2, <2>3 DEF Moves
<1>. QED
  BY <1>4, <1>5

LEMMA PostTwoMoves ==
  ASSUME OpsTypeOK, NEW p \in Peer, NEW m \in Msg, NEW n \in Msg, Post2(p, m, n), m.t # n.t,
         Answers(p, m), Answers(p, n), NEW h, Heard(p, h)
  PROVE  All' \subseteq All \cup {m, n, Idle} /\ (Shed \/ ({m, n} \subseteq Chan(p)' /\ Moves(p, h)))
<1>1. Other(p) \in Peer /\ Other(p) # p /\ Other(Other(p)) = p /\ Peer = {p, Other(p)}
  BY TwoPeers
<1>2. /\ \A q \in Peer \ {p} : sending'[q] = sending[q] /\ outbox'[q] = outbox[q]
      /\ Out(p)' \subseteq Out(p) \cup {m, n}
      /\ Shed \/ ({m, n} \subseteq Out(p)' /\ \A x \in Out(p) \ {Idle} : Kept(p, x, {m, n}))
  BY PostingTwo
<1>3. \A q \in Peer \ {p} : Out(q)' = Out(q)
  BY <1>2 DEF Out
<1>4. All' \subseteq All \cup {m, n, Idle}
  BY <1>2, <1>3 DEF All, Heard
<1>5. ASSUME ~ Shed PROVE {m, n} \subseteq Chan(p)' /\ Moves(p, h)
  <2>1. {m, n} \subseteq Chan(p)'
    BY <1>2, <1>5 DEF Chan
  <2>2. ASSUME NEW l \in Chan(p), l.t \in Kind
        PROVE  l \in Chan(p)' \/ \E x \in Chan(p)' : Answers(p, x) /\ x.t = l.t /\ x.to = l.to
    <3>1. l # Idle
      BY <2>2 DEF Kind, Idle
    <3>2. CASE l \in Out(p)
      BY <1>2, <1>5, <2>1, <3>1, <3>2 DEF Kept, Chan
    <3>3. CASE l \in In(Other(p))
      BY <1>1, <3>1, <3>3 DEF Heard, Chan
    <3>. QED
      BY <3>2, <3>3 DEF Chan
  <2>3. ASSUME NEW l \in Chan(Other(p)), l.t \in Kind, l # h
        PROVE  l \in Chan(Other(p))'
    <3>1. l # Idle
      BY <2>3 DEF Kind, Idle
    <3>. QED
      BY <1>1, <1>3, <2>3, <3>1 DEF Heard, Chan
  <2>. QED
    BY <1>1, <2>1, <2>2, <2>3 DEF Moves
<1>. QED
  BY <1>4, <1>5

\* Nothing is said.
LEMMA SilentMoves ==
  ASSUME NEW p \in Peer, NEW h, Heard(p, h), UNCHANGED <<sending, outbox>>
  PROVE  All' \subseteq All \cup {Idle} /\ Moves(p, h)
<1>1. Other(p) \in Peer /\ Other(p) # p /\ Other(Other(p)) = p /\ Peer = {p, Other(p)}
  BY TwoPeers
<1>2. \A q \in Peer : Out(q)' = Out(q)
  BY DEF Out
<1>3. All' \subseteq All \cup {Idle}
  BY <1>2 DEF All, Heard
<1>4. \A m : m.t \in Kind => m # Idle
  BY DEF Kind, Idle
<1>5. ASSUME NEW m \in Chan(p), m.t \in Kind PROVE m \in Chan(p)'
  BY <1>1, <1>2, <1>4, <1>5 DEF Heard, Chan
<1>6. ASSUME NEW m \in Chan(Other(p)), m.t \in Kind, m # h PROVE m \in Chan(Other(p))'
  BY <1>1, <1>2, <1>4, <1>6 DEF Heard, Chan
<1>. QED
  BY <1>1, <1>3, <1>5, <1>6 DEF Moves

\* A task is taken up: with `done` it is over, or else it is awaited.
LEMMA TakingUp ==
  ASSUME OpsTypeOK, NEW p \in Peer, queue[p] # <<>>, Taken(p), UNCHANGED air
  PROVE  /\ queue' \in [Peer -> Seq(Work)] /\ Head(queue[p]) \in Work /\ Head(queue[p]) \in ToSet(queue[p])
         /\ \A q \in Peer : ToSet(queue'[q]) \subseteq ToSet(queue[q])
         /\ UNCHANGED doing => Heard(p, Head(queue[p]))
         /\ doing[p] = Idle /\ doing' = [doing EXCEPT ![p] = Head(queue[p])] =>
              \A q \in Peer : In(q)' \subseteq In(q) /\ In(q) \ {Idle} \subseteq In(q)'
<1>1. queue \in [Peer -> Seq(Work)] /\ doing \in [Peer -> Msg \cup {Idle}]
  BY DEF OpsTypeOK
<1>2. /\ Head(queue[p]) \in Work /\ Tail(queue[p]) \in Seq(Work) /\ Head(queue[p]) \in ToSet(queue[p])
      /\ ToSet(queue[p]) = {Head(queue[p])} \cup ToSet(Tail(queue[p]))
  BY <1>1, Taking
<1>3. /\ queue' \in [Peer -> Seq(Work)] /\ queue'[p] = Tail(queue[p])
      /\ \A q \in Peer \ {p} : queue'[q] = queue[q]
  BY <1>1, <1>2 DEF Taken
<1>4. \A q \in Peer : ToSet(queue'[q]) \subseteq ToSet(queue[q])
  BY <1>2, <1>3
<1>5. ASSUME UNCHANGED doing PROVE Heard(p, Head(queue[p]))
  <2>1. \A q \in Peer \ {p} : In(q)' = In(q)
    BY <1>3, <1>5 DEF In
  <2>2. In(p)' \subseteq In(p) /\ In(p) \ {Head(queue[p])} \subseteq In(p)'
    BY <1>2, <1>3, <1>5 DEF In
  <2>. QED
    BY <2>1, <2>2 DEF Heard
<1>6. ASSUME doing[p] = Idle, doing' = [doing EXCEPT ![p] = Head(queue[p])]
      PROVE  \A q \in Peer : In(q)' \subseteq In(q) /\ In(q) \ {Idle} \subseteq In(q)'
  <2>1. doing'[p] = Head(queue[p]) /\ \A q \in Peer \ {p} : doing'[q] = doing[q]
    BY <1>1, <1>6
  <2>2. \A q \in Peer \ {p} : In(q)' = In(q)
    BY <1>3, <2>1 DEF In
  <2>3. In(p)' \subseteq In(p) /\ In(p) \ {Idle} \subseteq In(p)'
    BY <1>2, <1>3, <1>6, <2>1 DEF In
  <2>. QED
    BY <2>2, <2>3
<1>. QED
  BY <1>2, <1>3, <1>4, <1>5, <1>6

\* What was awaited is over.
LEMMA DoneWith ==
  ASSUME OpsTypeOK, NEW p \in Peer, doing' = [doing EXCEPT ![p] = Idle], UNCHANGED <<air, queue>>
  PROVE  doing' \in [Peer -> Msg \cup {Idle}] /\ Heard(p, doing[p])
<1>1. doing \in [Peer -> Msg \cup {Idle}]
  BY DEF OpsTypeOK
<1>2. doing'[p] = Idle /\ \A q \in Peer \ {p} : doing'[q] = doing[q]
  BY <1>1
<1>3. \A q \in Peer \ {p} : In(q)' = In(q)
  BY <1>2 DEF In
<1>4. In(p)' \subseteq In(p) \cup {Idle} /\ In(p) \ {doing[p]} \subseteq In(p)'
  BY <1>2 DEF In
<1>. QED
  BY <1>1, <1>3, <1>4 DEF Heard

-----------------------------------------------------------------------------
(* That what is sound stays sound.                                         *)

\* Entries and logs are only added to.
Grows ==
  /\ Change \subseteq Change' /\ Writes \subseteq Writes' /\ \A e \in Change : entries'[e] = entries[e]
  /\ \A p \in Peer : log[p] \subseteq log'[p]

LEMMA SameGraph ==
  ASSUME OpsTypeOK, Graph, UNCHANGED <<entries, log>>
  PROVE  Graph' /\ Grows /\ Writes' = Writes /\ Change' = Change
BY DEF Graph, Grows, Writes, Change, Past

LEMMA StaysHonest ==
  ASSUME Honest, Grows, NEW New, All' \subseteq All \cup New \cup {Idle},
         \A m \in New : HonestIs(m)', \A p \in Peer : \A m \in Out(p) \cup In(p) : m.t \in {"announce", "want", "blocks"} => m.from \in Peer
  PROVE  Honest'
<1>1. ASSUME NEW m, HonestIs(m), m.t \in {"announce", "want", "blocks"} => m.from \in Peer PROVE HonestIs(m)'
  BY <1>1 DEF HonestIs, Grows
<1>2. HonestIs(Idle)'
  BY DEF HonestIs, Idle
<1>3. \A m \in All : HonestIs(m)'
  BY <1>1 DEF All, Honest
<1>4. \A p \in Peer : Out(p)' \cup In(p)' \subseteq All'
  BY DEF All
<1>. QED
  BY <1>2, <1>3, <1>4 DEF Honest

LEMMA FromPeers ==
  ASSUME OpsTypeOK
  PROVE  /\ \A p \in Peer : \A m \in Out(p) \cup In(p) : m \in Work \cup {Idle}
         /\ \A p \in Peer : \A m \in Out(p) \cup In(p) : m.t \in {"announce", "want", "blocks"} => m.from \in Peer
<1>1. ASSUME NEW p \in Peer, NEW m \in Out(p) \cup In(p) PROVE m \in Work \cup {Idle}
  <2>1. /\ sending[p] \in Msg \cup {Idle} /\ doing[p] \in Msg \cup {Idle}
        /\ outbox[p] \in Seq(Msg) /\ air[p] \in Seq(Msg) /\ queue[p] \in Seq(Work)
    BY DEF OpsTypeOK
  <2>2. ToSet(outbox[p]) \subseteq Msg /\ ToSet(air[p]) \subseteq Msg /\ ToSet(queue[p]) \subseteq Work
    BY <2>1, ElementOfSeq, LenProperties DEF ToSet
  <2>. QED
    BY <2>1, <2>2, Kinds DEF Out, In
<1>2. ASSUME NEW p \in Peer, NEW m \in Out(p) \cup In(p), m.t \in {"announce", "want", "blocks"} PROVE m.from \in Peer
  <2>1. m \in Work
    BY <1>1, <1>2 DEF Idle
  <2>. QED
    BY <1>2, <2>1, Kinds DEF AnnounceMsg, WantMsg, BlocksMsg
<1>. QED
  BY <1>1, <1>2

LEMMA StaysMine ==
  ASSUME OpsTypeOK, Own, Grows,
         \A p \in Peer : /\ \A c \in ToSet(pending'[p]) \cup ToSet(going'[p]) :
                              c \in ToSet(pending[p]) \cup ToSet(going[p]) \/ Mine(p, c)'
                         /\ \A m \in ToSet(queue'[p]) : m.t = "ship" => m \in ToSet(queue[p]) \/ Mine(p, m.id)'
  PROVE  Own'
<1>1. ASSUME NEW p \in Peer, NEW c, Mine(p, c) PROVE Mine(p, c)'
  BY <1>1 DEF Mine, Grows, Writes, Change
<1>. QED
  BY <1>1 DEF Own

LEMMA Spoiling ==
  ASSUME OpsTypeOK, NEW b \in BOOLEAN, Spoils(b)
  PROVE  spoiled' \in BOOLEAN /\ level' \in BOOLEAN /\ (spoiled => spoiled') /\ (level' => level) /\ (b => Shed)
<1>1. spoiled \in BOOLEAN /\ level \in BOOLEAN
  BY DEF OpsTypeOK
<1>2. spoiled' = (spoiled \/ b) /\ level' = (level /\ ~ b)
  BY DEF Spoils
<1>. QED
  BY <1>1, <1>2 DEF Shed

LEMMA Faulting ==
  ASSUME OpsTypeOK, NEW f, OpsFault(f) PROVE opsFaults' \in Nat
BY DEF OpsFault, OpsTypeOK

\* The carrier says nothing new; what it does not move is on its way, or was lost.
Carried(p) == Sound' /\ Grows /\ Writes' = Writes /\ All' \subseteq All \cup {Idle} /\ (Shed \/ Moves(p, Idle))

LEMMA Carrying ==
  ASSUME Sound, NEW p \in Peer, UNCHANGED <<entries, log, eager, parked, pending, going, overlooked>>,
         OpsTypeOK', All' \subseteq All \cup {Idle},
         \A q \in Peer : \A m \in ToSet(queue'[q]) : m.t = "ship" => m \in ToSet(queue[q]),
         Shed \/ \A q \in Peer : \A m \in Chan(q) : m.t \in Kind => m \in Chan(q)'
  PROVE  Carried(p)
<1>1. Graph' /\ Grows /\ Writes' = Writes
  BY SameGraph DEF Sound
<1>2. Honest'
  <2>1. PICK New : New = {}
    OBVIOUS
  <2>2. All' \subseteq All \cup New \cup {Idle} /\ \A m \in New : HonestIs(m)'
    BY <2>1
  <2>3. OpsTypeOK /\ Honest
    BY DEF Sound
  <2>. QED
    BY <1>1, <2>2, <2>3, FromPeers, StaysHonest
<1>3. Own'
  BY <1>1, StaysMine DEF Sound
<1>. QED
  BY <1>1, <1>2, <1>3 DEF Carried, Sound, Moves

LEMMA SendResolvesStep ==
  ASSUME Sound, NEW p \in Peer, SendResolves(p) PROVE Carried(p)
<1>1. Other(p) \in Peer /\ Other(p) # p /\ Other(Other(p)) = p /\ Peer = {p, Other(p)}
  BY TwoPeers
<1>2. OpsTypeOK /\ NextOut(p) /\ UNCHANGED <<data, control, opsFaults, presses, ghosts>>
  BY DEF Sound, SendResolves
<1>3. /\ sending' \in [Peer -> Msg \cup {Idle}] /\ outbox' \in [Peer -> Seq(Msg)]
      /\ \A q \in Peer \ {p} : sending'[q] = sending[q] /\ outbox'[q] = outbox[q]
      /\ sending[p] \in Msg /\ Out(p)' \subseteq Out(p) \cup {Idle}
      /\ \A n \in Out(p) : n = sending[p] \/ n \in Out(p)'
  BY <1>2, GoingOut
<1>4. air[Other(p)] \in Seq(Msg) /\ air \in [Peer -> Seq(Msg)]
  BY <1>1, <1>2 DEF OpsTypeOK
<1>5. /\ Append(air[Other(p)], sending[p]) \in Seq(Msg)
      /\ ToSet(Append(air[Other(p)], sending[p])) = ToSet(air[Other(p)]) \cup {sending[p]}
  BY <1>3, <1>4, Appending
<1>6. air' = [air EXCEPT ![Other(p)] = Append(air[Other(p)], sending[p])]
  BY DEF SendResolves
<1>7. /\ air' \in [Peer -> Seq(Msg)] /\ air'[p] = air[p]
      /\ ToSet(air'[Other(p)]) = ToSet(air[Other(p)]) \cup {sending[p]}
  BY <1>1, <1>4, <1>5, <1>6
<1>8. OpsTypeOK'
  BY <1>2, <1>3, <1>7 DEF OpsTypeOK, data, control, ghosts
<1>9. /\ In(p)' = In(p) /\ In(Other(p))' = In(Other(p)) \cup {sending[p]}
      /\ Out(Other(p))' = Out(Other(p)) /\ sending[p] \in Out(p)
  BY <1>1, <1>2, <1>3, <1>7 DEF In, Out, control
<1>10. All' \subseteq All \cup {Idle}
  BY <1>1, <1>3, <1>9 DEF All
<1>11. \A q \in Peer : \A m \in Chan(q) : m \in Chan(q)'
  BY <1>1, <1>3, <1>9 DEF Chan
<1>12. queue' = queue /\ UNCHANGED <<entries, log, eager, parked, pending, going, overlooked>>
  BY <1>2 DEF data, control, ghosts
<1>. QED
  BY <1>8, <1>10, <1>11, <1>12, Carrying

LEMMA SendFailsStep ==
  ASSUME Sound, NEW p \in Peer, SendFails(p) PROVE Carried(p)
<1>2. OpsTypeOK /\ NextOut(p) /\ UNCHANGED <<data, control, air, presses, overlooked>> /\ Shed /\ opsFaults' \in Nat
      /\ spoiled' \in BOOLEAN /\ level' \in BOOLEAN
  BY Spoiling, Faulting DEF Sound, SendFails
<1>3. /\ sending' \in [Peer -> Msg \cup {Idle}] /\ outbox' \in [Peer -> Seq(Msg)]
      /\ \A q \in Peer \ {p} : sending'[q] = sending[q] /\ outbox'[q] = outbox[q]
      /\ Out(p)' \subseteq Out(p) \cup {Idle}
  BY <1>2, GoingOut
<1>4. OpsTypeOK'
  BY <1>2, <1>3 DEF OpsTypeOK, data, control
<1>5. All' \subseteq All \cup {Idle}
  <2>1. \A q \in Peer : In(q)' = In(q)
    BY <1>2 DEF In, control
  <2>2. \A q \in Peer : Out(q)' \subseteq Out(q) \cup {Idle}
    BY <1>3 DEF Out
  <2>. QED
    BY <2>1, <2>2 DEF All
<1>6. queue' = queue /\ UNCHANGED <<entries, log, eager, parked, pending, going, overlooked>>
  BY <1>2 DEF data, control
<1>. QED
  BY <1>2, <1>4, <1>5, <1>6, Carrying

LEMMA LoseStep ==
  ASSUME Sound, NEW p \in Peer, Lose(p) PROVE Carried(p)
<1>1. OpsTypeOK /\ UNCHANGED <<data, control, sending, outbox, presses, overlooked>> /\ Shed /\ opsFaults' \in Nat
      /\ spoiled' \in BOOLEAN /\ level' \in BOOLEAN
  BY Spoiling, Faulting DEF Sound, Lose
<1>2. air \in [Peer -> Seq(Msg)] /\ air[p] # <<>> /\ air' = [air EXCEPT ![p] = Tail(air[p])]
  BY DEF Sound, OpsTypeOK, Lose
<1>3. Tail(air[p]) \in Seq(Msg) /\ ToSet(air[p]) = {Head(air[p])} \cup ToSet(Tail(air[p]))
  BY <1>2, Taking
<1>4. air' \in [Peer -> Seq(Msg)] /\ \A q \in Peer : ToSet(air'[q]) \subseteq ToSet(air[q])
  BY <1>2, <1>3
<1>5. OpsTypeOK'
  BY <1>1, <1>4 DEF OpsTypeOK, data, control
<1>6. All' \subseteq All \cup {Idle}
  <2>1. \A q \in Peer : In(q)' \subseteq In(q) /\ Out(q)' = Out(q)
    BY <1>1, <1>4 DEF In, Out, control
  <2>. QED
    BY <2>1 DEF All
<1>7. queue' = queue /\ UNCHANGED <<entries, log, eager, parked, pending, going, overlooked>>
  BY <1>1 DEF data, control
<1>. QED
  BY <1>1, <1>5, <1>6, <1>7, Carrying

LEMMA OvertakeStep ==
  ASSUME Sound, NEW p \in Peer, Overtake(p) PROVE Carried(p)
<1>1. OpsTypeOK /\ UNCHANGED <<data, control, sending, outbox, presses, ghosts>> /\ opsFaults' \in Nat
  BY DEF Sound, Overtake, OpsFault, OpsTypeOK
<1>2. /\ air \in [Peer -> Seq(Msg)] /\ Len(air[p]) > 1
      /\ air' = [air EXCEPT ![p] = <<air[p][2], air[p][1]>> \o SubSeq(air[p], 3, Len(air[p]))]
  BY DEF Sound, OpsTypeOK, Overtake
<1>3. /\ <<air[p][2], air[p][1]>> \o SubSeq(air[p], 3, Len(air[p])) \in Seq(Msg)
      /\ ToSet(<<air[p][2], air[p][1]>> \o SubSeq(air[p], 3, Len(air[p]))) = ToSet(air[p])
  BY <1>2, Swapping
<1>4. air' \in [Peer -> Seq(Msg)] /\ \A q \in Peer : ToSet(air'[q]) = ToSet(air[q])
  BY <1>2, <1>3
<1>5. OpsTypeOK'
  BY <1>1, <1>4 DEF OpsTypeOK, data, control, ghosts
<1>6. \A q \in Peer : In(q)' = In(q) /\ Out(q)' = Out(q)
  BY <1>1, <1>4 DEF In, Out, control
<1>7. All' \subseteq All \cup {Idle} /\ \A q \in Peer : \A m \in Chan(q) : m \in Chan(q)'
  BY <1>6, TwoPeers DEF All, Chan
<1>8. queue' = queue /\ UNCHANGED <<entries, log, eager, parked, pending, going, overlooked>>
  BY <1>1 DEF data, control, ghosts
<1>. QED
  BY <1>5, <1>7, <1>8, Carrying

LEMMA DeliverStep ==
  ASSUME Sound, NEW p \in Peer, Deliver(p) PROVE Carried(p)
<1>0. Other(p) \in Peer /\ Other(p) # p /\ Other(Other(p)) = p /\ Peer = {p, Other(p)}
  BY TwoPeers
<1>1. /\ OpsTypeOK /\ UNCHANGED <<data, started, pending, going, seen, doing, sending, outbox, presses, overlooked>>
      /\ opsFaults' \in Nat /\ spoiled' \in BOOLEAN /\ level' \in BOOLEAN /\ (~ started[p] => Shed)
  <2>1. OpsTypeOK /\ Spoils(~ started[p]) /\ UNCHANGED <<data, started, pending, going, seen, doing, sending, outbox, presses, overlooked>>
    BY DEF Sound, Deliver
  <2>2. opsFaults' \in Nat
    <3>1. UNCHANGED opsFaults \/ OpsFault("double") \/ OpsFault("echo")
      BY DEF Deliver
    <3>. QED
      BY <2>1, <3>1, Faulting DEF OpsTypeOK
  <2>. QED
    BY <2>1, <2>2, Spoiling
<1>2. air \in [Peer -> Seq(Msg)] /\ air[p] # <<>> /\ queue \in [Peer -> Seq(Work)]
  BY DEF Sound, OpsTypeOK, Deliver
<1>3. PICK m \in Msg : m = Head(air[p]) /\ m \in ToSet(air[p]) /\ ToSet(air[p]) = {m} \cup ToSet(Tail(air[p]))
                       /\ Tail(air[p]) \in Seq(Msg) /\ m \in Work /\ m.t # "ship"
  BY <1>2, Taking, Kinds
<1>4. /\ Append(queue[p], m) \in Seq(Work) /\ ToSet(Append(queue[p], m)) = ToSet(queue[p]) \cup {m}
      /\ Append(air[Other(p)], m) \in Seq(Msg) /\ ToSet(Append(air[Other(p)], m)) = ToSet(air[Other(p)]) \cup {m}
  BY <1>0, <1>2, <1>3, Appending
<1>5. queue' = IF started[p] THEN [queue EXCEPT ![p] = Append(queue[p], m)] ELSE queue
  BY <1>3 DEF Deliver, Received
<1>6. /\ queue' \in [Peer -> Seq(Work)] /\ \A q \in Peer : ToSet(queue[q]) \subseteq ToSet(queue'[q])
      /\ \A q \in Peer : ToSet(queue'[q]) \subseteq ToSet(queue[q]) \cup {m}
      /\ ToSet(queue'[Other(p)]) = ToSet(queue[Other(p)])
      /\ started[p] => m \in ToSet(queue'[p])
  BY <1>0, <1>2, <1>4, <1>5
<1>7. /\ air' \in [Peer -> Seq(Msg)] /\ \A q \in Peer : ToSet(air'[q]) \subseteq ToSet(air[q]) \cup {m}
      /\ \A q \in Peer : \A n \in ToSet(air[q]) : n \in ToSet(air'[q]) \/ (q = p /\ n = m)
  <2>1. CASE air' = [air EXCEPT ![p] = Tail(air[p])]
    BY <1>2, <1>3, <2>1
  <2>2. CASE UNCHANGED air
    BY <1>2, <2>2
  <2>3. CASE air' = [air EXCEPT ![p] = Tail(air[p]), ![Other(p)] = Append(air[Other(p)], Head(air[p]))]
    <3>1. air'[p] = Tail(air[p]) /\ air'[Other(p)] = Append(air[Other(p)], m) /\ air' \in [Peer -> Seq(Msg)]
      BY <1>0, <1>2, <1>3, <1>4, <2>3
    <3>. QED
      BY <1>0, <1>3, <1>4, <3>1
  <2>. QED
    BY <2>1, <2>2, <2>3 DEF Deliver
<1>8. OpsTypeOK'
  BY <1>1, <1>6, <1>7 DEF OpsTypeOK, data
<1>9. m \in All /\ \A q \in Peer : Out(q)' = Out(q) /\ In(q)' \subseteq In(q) \cup {m}
  BY <1>1, <1>3, <1>6, <1>7 DEF All, Out, In
<1>10. All' \subseteq All \cup {Idle}
  BY <1>9 DEF All
<1>11. ASSUME started[p], NEW q \in Peer, NEW n \in Chan(q) PROVE n \in Chan(q)'
  <2>1. \A o \in Peer : In(o) \subseteq In(o)'
    BY <1>1, <1>6, <1>7, <1>11 DEF In
  <2>. QED
    BY <1>0, <1>9, <2>1 DEF Chan
<1>12. \A q \in Peer : \A n \in ToSet(queue'[q]) : n.t = "ship" => n \in ToSet(queue[q])
  BY <1>3, <1>6
<1>13. UNCHANGED <<entries, log, eager, parked, pending, going, overlooked>>
  BY <1>1 DEF data
<1>. QED
  BY <1>1, <1>8, <1>10, <1>11, <1>12, <1>13, Carrying

-----------------------------------------------------------------------------
(* What a device says and does.                                            *)

LEMMA Remembering ==
  ASSUME OpsTypeOK, NEW p \in Peer, NEW id \in Nat, Remember(p, id)
  PROVE  /\ seen' \in [Peer -> Seq(Nat)] /\ \A q \in Peer \ {p} : seen'[q] = seen[q]
         /\ id \in ToSet(seen'[p]) /\ ToSet(seen'[p]) \subseteq ToSet(seen[p]) \cup {id}
         /\ Known(p, id) => seen' = seen
         /\ ~ Known(p, id) /\ Len(seen[p]) < SeenOps => seen'[p] = Append(seen[p], id)
<1>1. seen \in [Peer -> Seq(Nat)] /\ seen[p] \in Seq(Nat) /\ SeenOps \in Nat \ {0} /\ Len(seen[p]) \in Nat
  BY OpsAssumption DEF OpsTypeOK
<1>2. seen' = [seen EXCEPT ![p] = IF Known(p, id) THEN seen[p]
                                  ELSE IF Len(seen[p]) < SeenOps THEN Append(seen[p], id)
                                  ELSE Append(Tail(seen[p]), id)]
  BY DEF Remember
<1>3. CASE Known(p, id)
  <2>1. seen' = [seen EXCEPT ![p] = seen[p]]
    BY <1>2, <1>3
  <2>2. seen' = seen
    BY <1>1, <2>1
  <2>3. id \in ToSet(seen[p])
    BY <1>3 DEF Known
  <2>4. seen' \in [Peer -> Seq(Nat)] /\ seen'[p] = seen[p] /\ \A q \in Peer \ {p} : seen'[q] = seen[q]
    BY <1>1, <2>2
  <2>5. ToSet(seen'[p]) = ToSet(seen[p])
    BY <2>4
  <2>6. id \in ToSet(seen'[p]) /\ ToSet(seen'[p]) \subseteq ToSet(seen[p]) \cup {id}
    BY <2>3, <2>5
  <2>. QED
    BY <1>3, <2>2, <2>4, <2>6
<1>4. CASE ~ Known(p, id) /\ Len(seen[p]) < SeenOps
  <2>1. seen' = [seen EXCEPT ![p] = Append(seen[p], id)]
    BY <1>2, <1>4
  <2>2. Append(seen[p], id) \in Seq(Nat) /\ ToSet(Append(seen[p], id)) = ToSet(seen[p]) \cup {id}
    BY <1>1, Appending
  <2>3. /\ seen' \in [Peer -> Seq(Nat)] /\ seen'[p] = Append(seen[p], id)
        /\ \A q \in Peer \ {p} : seen'[q] = seen[q]
    BY <1>1, <2>1, <2>2
  <2>4. id \in ToSet(seen'[p]) /\ ToSet(seen'[p]) \subseteq ToSet(seen[p]) \cup {id}
    BY <2>2, <2>3
  <2>. QED
    BY <1>4, <2>3, <2>4
<1>5. CASE ~ Known(p, id) /\ ~ (Len(seen[p]) < SeenOps)
  <2>1. seen[p] # <<>>
    BY <1>1, <1>5, EmptySeq
  <2>2. PICK s \in Seq(Nat) : s = Tail(seen[p]) /\ ToSet(s) \subseteq ToSet(seen[p])
    BY <1>1, <2>1, Taking
  <2>3. Append(s, id) \in Seq(Nat) /\ ToSet(Append(s, id)) = ToSet(s) \cup {id}
    BY Appending
  <2>4. seen'[p] = Append(s, id) /\ seen' \in [Peer -> Seq(Nat)] /\ \A q \in Peer \ {p} : seen'[q] = seen[q]
    BY <1>1, <1>2, <1>5, <2>2, <2>3
  <2>. QED
    BY <1>5, <2>2, <2>3, <2>4
<1>. QED
  BY <1>3, <1>4, <1>5

\* What is said is a message, and is honest.
LEMMA Saying ==
  ASSUME Sound, NEW p \in Peer, NEW r \in BOOLEAN
  PROVE  /\ Announce(p, r) \in Msg /\ HonestIs(Announce(p, r)) /\ ~ IsReply(Announce(p, r))
         /\ Announce(p, r).t = "announce" /\ Announce(p, r).r = r /\ Announce(p, r).from = p
         /\ Announce(p, r).heads = Heads(log[p])
<1>1. log[p] \in SUBSET Nat /\ Heads(log[p]) \subseteq log[p]
  BY DEF Sound, OpsTypeOK, Heads
<1>2. Announce(p, r) \in AnnounceMsg
  BY <1>1 DEF Announce, AnnounceMsg
<1>3. Announce(p, r).t = "announce" /\ Announce(p, r).r = r /\ Announce(p, r).from = p /\ Announce(p, r).heads = Heads(log[p])
  BY DEF Announce
<1>. QED
  BY <1>1, <1>2, <1>3 DEF HonestIs, IsReply, Msg

LEMMA Asking ==
  ASSUME Sound, NEW p \in Peer, NEW q \in Peer, NEW C \in SUBSET Nat
  PROVE  /\ Want(p, q, C) \in Msg /\ HonestIs(Want(p, q, C)) /\ Answers(p, Want(p, q, C))
         /\ Want(p, q, C).t = "want" /\ Want(p, q, C).from = p
<1>1. log[p] \in SUBSET Nat /\ Heads(log[p]) \subseteq log[p]
  BY DEF Sound, OpsTypeOK, Heads
<1>2. Want(p, q, C) \in WantMsg
  BY <1>1 DEF Want, WantMsg
<1>3. Want(p, q, C).t = "want" /\ Want(p, q, C).from = p /\ Want(p, q, C).have = Heads(log[p])
  BY DEF Want
<1>. QED
  BY <1>1, <1>2, <1>3 DEF Msg, HonestIs, Answers, IsReply

LEMMA Answering ==
  ASSUME Sound, NEW p \in Peer, NEW q \in Peer, NEW C \in SUBSET Change, q = Other(p) => Covers(p, C)
  PROVE  /\ Blocks(p, q, C) \in Msg /\ HonestIs(Blocks(p, q, C)) /\ Answers(p, Blocks(p, q, C))
         /\ Blocks(p, q, C).t = "blocks" /\ Blocks(p, q, C).to = q
<1>1. log[p] \in SUBSET Nat /\ Heads(log[p]) \subseteq log[p] /\ C \in SUBSET Nat
  BY EntriesAre DEF Sound, OpsTypeOK, Heads
<1>2. Blocks(p, q, C) \in BlocksMsg
  BY <1>1 DEF Blocks, BlocksMsg
<1>3. /\ Blocks(p, q, C).t = "blocks" /\ Blocks(p, q, C).from = p /\ Blocks(p, q, C).to = q
      /\ Blocks(p, q, C).heads = Heads(log[p]) /\ Blocks(p, q, C).blocks = C
  BY DEF Blocks
<1>. QED
  BY <1>1, <1>2, <1>3 DEF Msg, HonestIs, Answers, IsReply

\* Above what the other device has is all that it lacks, with what is on top of it.
LEMMA DeltaCovers ==
  ASSUME Sound, NEW p \in Peer, NEW H, H \subseteq log[Other(p)], NEW C, log[p] \ Below(H \cap log[p]) \subseteq C
  PROVE  Covers(p, C)
<1>. SUFFICES ASSUME NEW c \in log[p] \ log[Other(p)] PROVE c \in Below(Heads(log[p]) \cap C)
  BY DEF Covers
<1>1. OpsTypeOK /\ Graph /\ Other(p) \in Peer /\ log[p] \subseteq Change
  BY TwoPeers DEF Sound, Graph
<1>2. PICK k \in Heads(log[p]) : c = k \/ c \in Past(k)
  BY <1>1, HeadsReach
<1>3. k \in log[p] /\ k \notin log[Other(p)]
  BY <1>1, <1>2 DEF Heads, Graph
<1>4. Below(H \cap log[p]) \subseteq log[Other(p)]
  BY <1>1, BelowIsIn
<1>5. k \in C
  BY <1>3, <1>4
<1>. QED
  BY <1>2, <1>5 DEF Below

LEMMA SayingOp ==
  ASSUME Sound, NEW p \in Peer, NEW c, Mine(p, c)
  PROVE  /\ c \in Nat /\ Op(c) \in Msg /\ HonestIs(Op(c)) /\ ~ IsReply(Op(c)) /\ Op(c).t = "op" /\ Op(c).id = c
<1>1. c \in Nat /\ c \in Writes
  BY EntriesAre DEF Sound, Mine
<1>2. Op(c) \in OpMsg /\ Op(c).t = "op" /\ Op(c).id = c
  BY <1>1 DEF Op, OpMsg
<1>. QED
  BY <1>1, <1>2 DEF HonestIs, IsReply, Msg

\* A step that writes no entry, and ships only what is remembered.
Step(p, h) ==
  /\ Sound' /\ Grows /\ Writes' = Writes /\ (Shed \/ Moves(p, h))
  /\ \A m \in All' : m.t = "op" => m \in All \/ (Mine(p, m.id) /\ m.id \in ToSet(seen'[p]))

LEMMA Stepping ==
  ASSUME Sound, NEW p \in Peer, NEW h, UNCHANGED <<entries, log>>, OpsTypeOK',
         NEW New, All' \subseteq All \cup New \cup {Idle}, \A m \in New : HonestIs(m),
         \A q \in Peer : /\ \A c \in ToSet(pending'[q]) \cup ToSet(going'[q]) :
                              c \in ToSet(pending[q]) \cup ToSet(going[q])
                         /\ ToSet(queue'[q]) \subseteq ToSet(queue[q]),
         Shed \/ Moves(p, h), \A m \in New : m.t = "op" => Mine(p, m.id) /\ m.id \in ToSet(seen'[p])
  PROVE  Step(p, h)
<1>1. Graph' /\ Grows /\ Writes' = Writes /\ OpsTypeOK /\ Honest /\ Own
  BY SameGraph DEF Sound
<1>2. \A m \in New : HonestIs(m)'
  BY <1>1 DEF HonestIs, Change
<1>3. Honest'
  BY <1>1, <1>2, FromPeers, StaysHonest
<1>4. Own'
  BY <1>1, StaysMine
<1>5. \A m \in All' : m.t = "op" => m \in All \/ (Mine(p, m.id) /\ m.id \in ToSet(seen'[p]))
  BY DEF Idle
<1>. QED
  BY <1>1, <1>3, <1>4, <1>5 DEF Step, Sound

\* The same when nothing is said, and when one message is.
LEMMA SilentStep ==
  ASSUME Sound, NEW p \in Peer, NEW h, UNCHANGED <<entries, log, sending, outbox>>, OpsTypeOK', Heard(p, h),
         \A q \in Peer : /\ \A c \in ToSet(pending'[q]) \cup ToSet(going'[q]) :
                              c \in ToSet(pending[q]) \cup ToSet(going[q])
                         /\ ToSet(queue'[q]) \subseteq ToSet(queue[q])
  PROVE  Step(p, h)
<1>1. PICK New : New = {}
  OBVIOUS
<1>2. /\ All' \subseteq All \cup New \cup {Idle} /\ Moves(p, h) /\ \A m \in New : HonestIs(m)
      /\ \A m \in New : m.t = "op" => Mine(p, m.id) /\ m.id \in ToSet(seen'[p])
  BY <1>1, SilentMoves
<1>. QED
  BY <1>2, Stepping

LEMMA PostStep ==
  ASSUME Sound, NEW p \in Peer, NEW h, NEW m \in Msg, UNCHANGED <<entries, log>>, OpsTypeOK', Heard(p, h),
         Post(p, m), HonestIs(m), IsReply(m) => Answers(p, m),
         m.t = "op" => Mine(p, m.id) /\ m.id \in ToSet(seen'[p]),
         \A q \in Peer : /\ \A c \in ToSet(pending'[q]) \cup ToSet(going'[q]) :
                              c \in ToSet(pending[q]) \cup ToSet(going[q])
                         /\ ToSet(queue'[q]) \subseteq ToSet(queue[q])
  PROVE  Step(p, h) /\ (Shed \/ m \in Chan(p)')
<1>1. All' \subseteq All \cup {m, Idle} /\ (Shed \/ (m \in Chan(p)' /\ Moves(p, h)))
  BY PostMoves DEF Sound
<1>2. PICK New : New = {m}
  OBVIOUS
<1>3. /\ All' \subseteq All \cup New \cup {Idle} /\ \A n \in New : HonestIs(n)
      /\ \A n \in New : n.t = "op" => Mine(p, n.id) /\ n.id \in ToSet(seen'[p])
  BY <1>1, <1>2
<1>. QED
  BY <1>1, <1>3, Stepping

LEMMA ShipTaskStep ==
  ASSUME Sound, NEW p \in Peer, ShipTask(p)
  PROVE  LET c == Head(queue[p]).id IN
         /\ Step(p, Head(queue[p])) /\ Mine(p, c) /\ Remember(p, c) /\ (Shed \/ Op(c) \in Chan(p)')
         /\ \A q \in Peer : \A d \in Nat : [t |-> "ship", id |-> d] \in ToSet(queue[q]) =>
              [t |-> "ship", id |-> d] \in ToSet(queue'[q]) \/ (q = p /\ d = c)
<1>1. OpsTypeOK /\ queue[p] # <<>> /\ Taken(p) /\ Head(queue[p]).t = "ship"
      /\ UNCHANGED <<data, started, pending, going, doing, air, opsFaults, presses, overlooked>>
  BY DEF Sound, ShipTask, Task
<1>2. PICK h \in Work : h = Head(queue[p]) /\ h \in ToSet(queue[p]) /\ h.t = "ship"
  BY <1>1, TakingUp
<1>3. PICK c : c = h.id
  OBVIOUS
<1>4. Mine(p, c)
  BY <1>2, <1>3 DEF Sound, Own
<1>5. c \in Nat /\ Op(c) \in Msg /\ HonestIs(Op(c)) /\ ~ IsReply(Op(c)) /\ Op(c).id = c
  BY <1>4, SayingOp
<1>6. Remember(p, c) /\ Post(p, Op(c))
  BY <1>2, <1>3 DEF ShipTask, Ship
<1>7. seen' \in [Peer -> Seq(Nat)] /\ c \in ToSet(seen'[p])
  BY <1>1, <1>5, <1>6, Remembering
<1>8. queue' \in [Peer -> Seq(Work)] /\ Heard(p, h) /\ \A q \in Peer : ToSet(queue'[q]) \subseteq ToSet(queue[q])
  BY <1>1, <1>2, TakingUp
<1>9. OpsTypeOK'
  BY <1>1, <1>5, <1>6, <1>7, <1>8, Posting DEF OpsTypeOK, data
<1>10. \A q \in Peer : ToSet(pending'[q]) \cup ToSet(going'[q]) \subseteq ToSet(pending[q]) \cup ToSet(going[q])
  BY <1>1
<1>11. UNCHANGED <<entries, log>>
  BY <1>1 DEF data
<1>12. Step(p, h) /\ (Shed \/ Op(c) \in Chan(p)')
  BY <1>4, <1>5, <1>6, <1>7, <1>8, <1>9, <1>10, <1>11, PostStep
<1>13. ASSUME NEW q \in Peer, NEW d \in Nat, [t |-> "ship", id |-> d] \in ToSet(queue[q]), ~ (q = p /\ d = c)
       PROVE  [t |-> "ship", id |-> d] \in ToSet(queue'[q])
  <2>1. queue[p] \in Seq(Work) /\ queue \in [Peer -> Seq(Work)]
    BY <1>1 DEF OpsTypeOK
  <2>2. ToSet(queue[p]) = {h} \cup ToSet(Tail(queue[p]))
    BY <1>1, <1>2, <2>1, Taking
  <2>3. queue'[p] = Tail(queue[p]) /\ (q # p => queue'[q] = queue[q])
    BY <1>1, <2>1 DEF Taken
  <2>4. [t |-> "ship", id |-> d] = h => d = c
    BY <1>3
  <2>. QED
    BY <1>13, <2>2, <2>3, <2>4
<1>. QED
  BY <1>2, <1>3, <1>4, <1>6, <1>12, <1>13

LEMMA FlushStep ==
  ASSUME Sound, NEW p \in Peer, Flush(p)
  PROVE  LET c == Head(going[p]) IN
         /\ Step(p, Idle) /\ Mine(p, c) /\ Remember(p, c) /\ (Shed \/ Op(c) \in Chan(p)')
         /\ queue' = queue /\ pending' = pending
         /\ \A q \in Peer : \A d \in ToSet(going[q]) : d \in ToSet(going'[q]) \/ (q = p /\ d = c)
<1>1. OpsTypeOK /\ going[p] # <<>>
      /\ UNCHANGED <<data, started, pending, queue, doing, air, opsFaults, presses, overlooked>>
  BY DEF Sound, Flush
<1>2. going \in [Peer -> Seq(Nat)] /\ going[p] \in Seq(Nat)
  BY <1>1 DEF OpsTypeOK
<1>3. PICK c \in Nat : c = Head(going[p]) /\ c \in ToSet(going[p]) /\ ToSet(going[p]) = {c} \cup ToSet(Tail(going[p]))
                       /\ Tail(going[p]) \in Seq(Nat)
  BY <1>1, <1>2, Taking
<1>4. Mine(p, c)
  BY <1>3 DEF Sound, Own
<1>5. c \in Nat /\ Op(c) \in Msg /\ HonestIs(Op(c)) /\ ~ IsReply(Op(c)) /\ Op(c).id = c
  BY <1>4, SayingOp
<1>6. Remember(p, c) /\ Post(p, Op(c)) /\ going' = [going EXCEPT ![p] = Tail(going[p])]
  BY <1>3 DEF Flush, Ship
<1>7. seen' \in [Peer -> Seq(Nat)] /\ c \in ToSet(seen'[p])
  BY <1>1, <1>5, <1>6, Remembering
<1>8. /\ going' \in [Peer -> Seq(Nat)] /\ \A q \in Peer : ToSet(going'[q]) \subseteq ToSet(going[q])
      /\ \A q \in Peer : \A d \in ToSet(going[q]) : d \in ToSet(going'[q]) \/ (q = p /\ d = c)
  BY <1>2, <1>3, <1>6
<1>9. OpsTypeOK'
  BY <1>1, <1>5, <1>6, <1>7, <1>8, Posting DEF OpsTypeOK, data
<1>10. \A q \in Peer : ToSet(pending'[q]) \cup ToSet(going'[q]) \subseteq ToSet(pending[q]) \cup ToSet(going[q])
  BY <1>1, <1>8
<1>11. UNCHANGED <<entries, log>> /\ Heard(p, Idle)
  BY <1>1 DEF data, Heard, In
<1>12. Step(p, Idle) /\ (Shed \/ Op(c) \in Chan(p)')
  BY <1>1, <1>4, <1>5, <1>6, <1>7, <1>9, <1>10, <1>11, PostStep
<1>. QED
  BY <1>1, <1>3, <1>4, <1>6, <1>8, <1>12

LEMMA PressStep ==
  ASSUME Sound, NEW p \in Peer, Press(p)
  PROVE  /\ Step(p, Idle) /\ queue' = queue /\ seen' = seen /\ doing' = doing /\ overlooked' = overlooked
         /\ \A q \in Peer \ {p} : ToSet(pending[q]) = ToSet(pending'[q])
         /\ \A q \in Peer : ToSet(going[q]) \subseteq ToSet(going'[q])
         /\ \/ /\ ToSet(pending[p]) \subseteq ToSet(going'[p]) /\ level' = level /\ spoiled' = spoiled
            \/ Shed \/ Announce(p, TRUE) \in Chan(p)'
<1>1. OpsTypeOK /\ UNCHANGED <<data, started, seen, queue, doing, air, opsFaults, overlooked>>
  BY DEF Sound, Press
<1>2. pending \in [Peer -> Seq(Nat)] /\ going \in [Peer -> Seq(Nat)] /\ pending' = [pending EXCEPT ![p] = <<>>]
  BY <1>1 DEF OpsTypeOK, Press
<1>3. /\ pending' \in [Peer -> Seq(Nat)] /\ ToSet(pending'[p]) = {} /\ \A q \in Peer \ {p} : pending'[q] = pending[q]
  BY <1>2 DEF ToSet
<1>4. UNCHANGED <<entries, log>> /\ Heard(p, Idle)
  BY <1>1 DEF data, Heard, In
<1>5. CASE pending[p] # <<>> /\ Len(pending[p]) <= MaxPending
  <2>1. going' = [going EXCEPT ![p] = going[p] \o pending[p]] /\ Quietly
    BY <1>5 DEF Press
  <2>2. going[p] \o pending[p] \in Seq(Nat) /\ ToSet(going[p] \o pending[p]) = ToSet(going[p]) \cup ToSet(pending[p])
    BY <1>2, Joining
  <2>3. /\ going' \in [Peer -> Seq(Nat)] /\ ToSet(going'[p]) = ToSet(going[p]) \cup ToSet(pending[p])
        /\ \A q \in Peer \ {p} : going'[q] = going[q]
    BY <1>2, <2>1, <2>2
  <2>4. OpsTypeOK'
    BY <1>1, <1>3, <2>1, <2>3 DEF OpsTypeOK, data, Quietly
  <2>5. \A q \in Peer : ToSet(pending'[q]) \cup ToSet(going'[q]) \subseteq ToSet(pending[q]) \cup ToSet(going[q])
    BY <1>3, <2>3
  <2>6. Step(p, Idle)
    BY <1>1, <1>4, <2>1, <2>4, <2>5, SilentStep DEF Quietly
  <2>. QED
    BY <1>1, <1>3, <2>1, <2>3, <2>6 DEF Quietly
<1>6. CASE ~ (pending[p] # <<>> /\ Len(pending[p]) <= MaxPending)
  <2>1. Post(p, Announce(p, TRUE)) /\ going' = going
    BY <1>6 DEF Press
  <2>2. /\ Announce(p, TRUE) \in Msg /\ HonestIs(Announce(p, TRUE)) /\ ~ IsReply(Announce(p, TRUE))
        /\ Announce(p, TRUE).t = "announce"
    BY Saying
  <2>3. OpsTypeOK'
    BY <1>1, <1>3, <2>1, <2>2, Posting DEF OpsTypeOK, data
  <2>4. \A q \in Peer : ToSet(pending'[q]) \cup ToSet(going'[q]) \subseteq ToSet(pending[q]) \cup ToSet(going[q])
    BY <1>3, <2>1
  <2>5. Step(p, Idle) /\ (Shed \/ Announce(p, TRUE) \in Chan(p)')
    BY <1>1, <1>4, <2>1, <2>2, <2>3, <2>4, PostStep
  <2>. QED
    BY <1>1, <1>3, <2>1, <2>5
<1>. QED
  BY <1>5, <1>6

LEMMA StopStep ==
  ASSUME Sound, NEW p \in Peer, Stop(p) PROVE Step(p, Idle)
<1>1. OpsTypeOK /\ UNCHANGED <<data, pending, going, seen, queue, doing, carrier, presses, ghosts>>
  BY DEF Sound, Stop
<1>2. opsFaults' \in Nat /\ started' \in [Peer -> BOOLEAN]
  BY <1>1, Faulting DEF Stop, OpsTypeOK
<1>3. OpsTypeOK'
  BY <1>1, <1>2 DEF OpsTypeOK, data, carrier, ghosts
<1>4. UNCHANGED <<entries, log, sending, outbox>> /\ Heard(p, Idle)
  BY <1>1 DEF data, carrier, Heard, In
<1>5. \A q \in Peer : ToSet(pending'[q]) \cup ToSet(going'[q]) \subseteq ToSet(pending[q]) \cup ToSet(going[q])
                      /\ ToSet(queue'[q]) \subseteq ToSet(queue[q])
  BY <1>1
<1>. QED
  BY <1>3, <1>4, <1>5, SilentStep

LEMMA StartStep ==
  ASSUME Sound, NEW p \in Peer, Start(p) PROVE Step(p, Idle) /\ (Shed \/ Announce(p, TRUE) \in Chan(p)')
<1>1. OpsTypeOK /\ UNCHANGED <<data, pending, going, seen, queue, doing, air, opsFaults, presses, overlooked>>
  BY DEF Sound, Start
<1>2. started' \in [Peer -> BOOLEAN] /\ Post(p, Announce(p, TRUE))
  BY <1>1 DEF Start, OpsTypeOK
<1>3. /\ Announce(p, TRUE) \in Msg /\ HonestIs(Announce(p, TRUE)) /\ ~ IsReply(Announce(p, TRUE))
      /\ Announce(p, TRUE).t = "announce"
  BY Saying
<1>4. OpsTypeOK'
  BY <1>1, <1>2, <1>3, Posting DEF OpsTypeOK, data
<1>5. UNCHANGED <<entries, log>> /\ Heard(p, Idle)
  BY <1>1 DEF data, Heard, In
<1>6. \A q \in Peer : ToSet(pending'[q]) \cup ToSet(going'[q]) \subseteq ToSet(pending[q]) \cup ToSet(going[q])
                      /\ ToSet(queue'[q]) \subseteq ToSet(queue[q])
  BY <1>1
<1>. QED
  BY <1>2, <1>3, <1>4, <1>5, <1>6, PostStep

LEMMA HandleWantStep ==
  ASSUME Sound, Held, NEW p \in Peer, HandleWant(p)
  PROVE  LET h == Head(queue[p]) IN
         /\ Step(p, h) /\ h.t = "want"
         /\ Shed \/ \E m \in Chan(p)' : m.t = "blocks" /\ m.to = h.from /\ Answers(p, m)
<1>1. OpsTypeOK /\ queue[p] # <<>> /\ Taken(p) /\ Head(queue[p]).t = "want"
      /\ UNCHANGED <<data, started, pending, going, seen, doing, air, opsFaults, presses, overlooked>>
  BY DEF Sound, HandleWant, Task
<1>2. PICK h \in Work : /\ h = Head(queue[p]) /\ h \in ToSet(queue[p]) /\ h.t = "want" /\ h \in WantMsg
                        /\ h.have \subseteq log[h.from]
  <2>1. Head(queue[p]) \in Work /\ Head(queue[p]) \in ToSet(queue[p])
    BY <1>1, TakingUp
  <2>2. HonestIs(Head(queue[p]))
    BY <2>1 DEF Sound, Honest, In
  <2>. QED
    BY <1>1, <2>1, <2>2, Kinds DEF HonestIs
<1>3. PICK L : L = (log[p] \ Below(h.have \cap log[p])) \cup (h.cids \cap store[p])
  OBVIOUS
<1>4. L \in SUBSET Change /\ h.from \in Peer
  BY <1>2, <1>3 DEF Held, Sound, Graph, WantMsg
<1>5. PICK m \in Msg : /\ m = Blocks(p, h.from, L) /\ HonestIs(m) /\ Answers(p, m)
                       /\ m.t = "blocks" /\ m.to = h.from
  <2>1. h.from = Other(p) => Covers(p, L)
    BY <1>2, <1>3, DeltaCovers
  <2>. QED
    BY <1>4, <2>1, Answering
<1>6. Post(p, m)
  BY <1>2, <1>3, <1>5 DEF HandleWant
<1>7. queue' \in [Peer -> Seq(Work)] /\ Heard(p, h) /\ \A q \in Peer : ToSet(queue'[q]) \subseteq ToSet(queue[q])
  BY <1>1, <1>2, TakingUp
<1>8. OpsTypeOK'
  BY <1>1, <1>6, <1>7, Posting DEF OpsTypeOK, data
<1>9. UNCHANGED <<entries, log>>
      /\ \A q \in Peer : ToSet(pending'[q]) \cup ToSet(going'[q]) \subseteq ToSet(pending[q]) \cup ToSet(going[q])
  BY <1>1 DEF data
<1>10. Step(p, h) /\ (Shed \/ m \in Chan(p)')
  BY <1>5, <1>6, <1>7, <1>8, <1>9, PostStep
<1>. QED
  BY <1>2, <1>5, <1>10

\* What answering an announce comes to.
Answered(p, h, weLack, theyLack) ==
  /\ theyLack # {} => Shed \/ \E m \in Chan(p)' : m.t = "blocks" /\ m.to = h.from /\ Answers(p, m)
  /\ weLack # {} => Shed \/ \E m \in Chan(p)' : m.t = "want" /\ m.from = p

LEMMA HandleAnnounceStep ==
  ASSUME Sound, NEW p \in Peer, HandleAnnounce(p)
  PROVE  LET h == Head(queue[p]) IN
         /\ Step(p, h) /\ h.t = "announce"
         /\ h.r => Answered(p, h, h.heads \ log[p], Heads(log[p]) \ h.heads)
<1>1. OpsTypeOK /\ queue[p] # <<>> /\ Taken(p) /\ Head(queue[p]).t = "announce"
      /\ UNCHANGED <<data, started, pending, going, seen, doing, air, opsFaults, presses, overlooked>>
  BY DEF Sound, HandleAnnounce, Task
<1>2. PICK h \in Work : /\ h = Head(queue[p]) /\ h \in ToSet(queue[p]) /\ h.t = "announce" /\ h \in AnnounceMsg
                        /\ h.heads \subseteq log[h.from]
  <2>1. Head(queue[p]) \in Work /\ Head(queue[p]) \in ToSet(queue[p])
    BY <1>1, TakingUp
  <2>2. HonestIs(Head(queue[p]))
    BY <2>1 DEF Sound, Honest, In
  <2>. QED
    BY <1>1, <2>1, <2>2, Kinds DEF HonestIs
<1>3. PICK weLack, theyLack, L :
        weLack = h.heads \ log[p] /\ theyLack = Heads(log[p]) \ h.heads /\ L = log[p] \ Below(h.heads \cap log[p])
  OBVIOUS
<1>4. L \in SUBSET Change /\ h.from \in Peer /\ weLack \in SUBSET Nat
  BY <1>2, <1>3 DEF Sound, Graph, AnnounceMsg
<1>5. PICK m \in Msg : /\ m = Blocks(p, h.from, L) /\ HonestIs(m) /\ Answers(p, m)
                       /\ m.t = "blocks" /\ m.to = h.from
  <2>1. h.from = Other(p) => Covers(p, L)
    BY <1>2, <1>3, DeltaCovers
  <2>. QED
    BY <1>4, <2>1, Answering
<1>6. PICK n \in Msg : /\ n = Want(p, h.from, weLack) /\ HonestIs(n) /\ Answers(p, n)
                       /\ n.t = "want" /\ n.from = p
  BY <1>4, Asking
<1>7. IF ~ h.r THEN Quietly
      ELSE IF theyLack # {} /\ weLack # {} THEN Post2(p, m, n)
      ELSE IF theyLack # {} THEN Post(p, m)
      ELSE IF weLack # {} THEN Post(p, n)
      ELSE Quietly
  BY <1>2, <1>3, <1>5, <1>6 DEF HandleAnnounce, Reconciles
<1>8. queue' \in [Peer -> Seq(Work)] /\ Heard(p, h) /\ \A q \in Peer : ToSet(queue'[q]) \subseteq ToSet(queue[q])
  BY <1>1, <1>2, TakingUp
<1>9. UNCHANGED <<entries, log>>
      /\ \A q \in Peer : ToSet(pending'[q]) \cup ToSet(going'[q]) \subseteq ToSet(pending[q]) \cup ToSet(going[q])
  BY <1>1 DEF data
<1>10. ASSUME Quietly PROVE Step(p, h)
  <2>1. OpsTypeOK'
    BY <1>1, <1>8, <1>10 DEF OpsTypeOK, data, Quietly
  <2>. QED
    BY <1>8, <1>9, <1>10, <2>1, SilentStep DEF Quietly
<1>11. ASSUME NEW o \in {m, n}, Post(p, o) PROVE Step(p, h) /\ (Shed \/ o \in Chan(p)')
  <2>1. OpsTypeOK'
    BY <1>1, <1>8, <1>11, Posting DEF OpsTypeOK, data
  <2>. QED
    BY <1>5, <1>6, <1>8, <1>9, <1>11, <2>1, PostStep
<1>12. ASSUME Post2(p, m, n) PROVE Step(p, h) /\ (Shed \/ {m, n} \subseteq Chan(p)')
  <2>1. OpsTypeOK'
    BY <1>1, <1>8, <1>12, PostingTwo DEF OpsTypeOK, data
  <2>2. All' \subseteq All \cup {m, n, Idle} /\ (Shed \/ ({m, n} \subseteq Chan(p)' /\ Moves(p, h)))
    BY <1>1, <1>5, <1>6, <1>8, <1>12, PostTwoMoves
  <2>3. PICK New : New = {m, n}
    OBVIOUS
  <2>4. /\ All' \subseteq All \cup New \cup {Idle} /\ \A o \in New : HonestIs(o)
        /\ \A o \in New : o.t = "op" => Mine(p, o.id) /\ o.id \in ToSet(seen'[p])
    BY <1>5, <1>6, <2>2, <2>3
  <2>. QED
    BY <1>8, <1>9, <2>1, <2>2, <2>4, Stepping
<1>13. Step(p, h)
  BY <1>7, <1>10, <1>11, <1>12
<1>14. h.r => Answered(p, h, weLack, theyLack)
  BY <1>5, <1>6, <1>7, <1>11, <1>12 DEF Answered
<1>. QED
  BY <1>2, <1>3, <1>13, <1>14

LEMMA HandleBlocksStep ==
  ASSUME Sound, NEW p \in Peer, HandleBlocks(p)
  PROVE  /\ Step(p, Idle)
         /\ \A q \in Peer : \A m \in Chan(q) : m.t \in Kind => m \in Chan(q)'
<1>1. OpsTypeOK /\ queue[p] # <<>> /\ Taken(p) /\ Head(queue[p]).t = "blocks" /\ doing[p] = Idle
      /\ parked' = [parked EXCEPT ![p] = parked[p] \cup Head(queue[p]).blocks]
      /\ doing' = [doing EXCEPT ![p] = Head(queue[p])]
      /\ UNCHANGED <<eager, entries, log, started, pending, going, seen, carrier, opsFaults, presses, ghosts>>
  BY DEF Sound, HandleBlocks, Task
<1>2. PICK h \in Work : h = Head(queue[p]) /\ h \in ToSet(queue[p]) /\ h.t = "blocks" /\ h \in BlocksMsg /\ h \in Msg
  <2>1. Head(queue[p]) \in Work /\ Head(queue[p]) \in ToSet(queue[p])
    BY <1>1, TakingUp DEF carrier
  <2>. QED
    BY <1>1, <2>1, Kinds
<1>3. /\ queue' \in [Peer -> Seq(Work)] /\ \A q \in Peer : ToSet(queue'[q]) \subseteq ToSet(queue[q])
      /\ \A q \in Peer : In(q)' \subseteq In(q) /\ In(q) \ {Idle} \subseteq In(q)'
  BY <1>1, <1>2, TakingUp DEF carrier
<1>4. parked' \in [Peer -> SUBSET Nat] /\ doing' \in [Peer -> Msg \cup {Idle}]
  <2>1. h.blocks \in SUBSET Nat
    BY <1>2 DEF BlocksMsg
  <2>. QED
    BY <1>1, <1>2, <2>1 DEF OpsTypeOK
<1>5. OpsTypeOK'
  BY <1>1, <1>3, <1>4 DEF OpsTypeOK, carrier, ghosts
<1>6. Heard(p, Idle) /\ UNCHANGED <<entries, log, sending, outbox>>
  BY <1>1, <1>3 DEF Heard, carrier
<1>7. \A q \in Peer : ToSet(pending'[q]) \cup ToSet(going'[q]) \subseteq ToSet(pending[q]) \cup ToSet(going[q])
  BY <1>1
<1>8. Step(p, Idle)
  BY <1>3, <1>5, <1>6, <1>7, SilentStep
<1>9. ASSUME NEW q \in Peer, NEW m \in Chan(q), m.t \in Kind PROVE m \in Chan(q)'
  <2>1. Out(q)' = Out(q) /\ m # Idle
    BY <1>6, <1>9 DEF Out, Kind, Idle
  <2>. QED
    BY <1>3, <1>9, <2>1, TwoPeers DEF Chan
<1>. QED
  BY <1>8, <1>9

LEMMA HandleOpStep ==
  ASSUME Sound, NEW p \in Peer, HandleOp(p)
  PROVE  LET h == Head(queue[p]) IN
         /\ Step(p, h) /\ h.t = "op" /\ h \in ToSet(queue[p]) /\ h \in OpMsg /\ Remember(p, h.id)
         /\ doing[p] = Idle /\ doing' = IF Known(p, h.id) THEN doing ELSE [doing EXCEPT ![p] = h]
<1>1. OpsTypeOK /\ queue[p] # <<>> /\ Taken(p) /\ Head(queue[p]).t = "op" /\ doing[p] = Idle
      /\ UNCHANGED <<data, started, pending, going, carrier, opsFaults, presses, ghosts>>
  BY DEF Sound, HandleOp, Task
<1>2. PICK h \in Work : h = Head(queue[p]) /\ h \in ToSet(queue[p]) /\ h.t = "op" /\ h \in OpMsg /\ h \in Msg
  <2>1. Head(queue[p]) \in Work /\ Head(queue[p]) \in ToSet(queue[p])
    BY <1>1, TakingUp DEF carrier
  <2>. QED
    BY <1>1, <2>1, Kinds
<1>3. /\ Remember(p, h.id) /\ h.id \in Nat
      /\ doing' = IF Known(p, h.id) THEN doing ELSE [doing EXCEPT ![p] = h]
  BY <1>2 DEF HandleOp, OpMsg
<1>4. seen' \in [Peer -> Seq(Nat)]
  BY <1>1, <1>3, Remembering
<1>5. queue' \in [Peer -> Seq(Work)] /\ \A q \in Peer : ToSet(queue'[q]) \subseteq ToSet(queue[q])
  BY <1>1, TakingUp DEF carrier
<1>6. Heard(p, h)
  <2>1. CASE Known(p, h.id)
    BY <1>1, <1>2, <1>3, <2>1, TakingUp DEF carrier
  <2>2. CASE ~ Known(p, h.id)
    <3>1. \A q \in Peer : In(q)' \subseteq In(q) /\ In(q) \ {Idle} \subseteq In(q)'
      BY <1>1, <1>2, <1>3, <2>2, TakingUp DEF carrier
    <3>. QED
      BY <3>1 DEF Heard
  <2>. QED
    BY <2>1, <2>2
<1>7. doing' \in [Peer -> Msg \cup {Idle}]
  BY <1>1, <1>2, <1>3 DEF OpsTypeOK
<1>8. OpsTypeOK'
  BY <1>1, <1>4, <1>5, <1>7 DEF OpsTypeOK, data, carrier, ghosts
<1>9. UNCHANGED <<entries, log, sending, outbox>>
      /\ \A q \in Peer : ToSet(pending'[q]) \cup ToSet(going'[q]) \subseteq ToSet(pending[q]) \cup ToSet(going[q])
  BY <1>1 DEF data, carrier
<1>10. Step(p, h)
  BY <1>5, <1>6, <1>8, <1>9, SilentStep
<1>. QED
  BY <1>1, <1>2, <1>3, <1>10

LEMMA PerformFailsStep ==
  ASSUME Sound, NEW p \in Peer, PerformFails(p) PROVE Step(p, doing[p]) /\ Shed /\ doing[p].t = "op"
<1>1. OpsTypeOK /\ doing' = [doing EXCEPT ![p] = Idle] /\ Spoils(TRUE) /\ OpsFault("write") /\ doing[p].t = "op"
      /\ UNCHANGED <<data, started, pending, going, seen, queue, carrier, presses, overlooked>>
  BY DEF Sound, PerformFails
<1>2. opsFaults' \in Nat
  BY <1>1, Faulting
<1>3. Shed /\ spoiled' \in BOOLEAN /\ level' \in BOOLEAN
  BY <1>1, Spoiling
<1>4. doing' \in [Peer -> Msg \cup {Idle}] /\ Heard(p, doing[p])
  BY <1>1, DoneWith DEF carrier
<1>5. OpsTypeOK'
  BY <1>1, <1>2, <1>3, <1>4 DEF OpsTypeOK, data, carrier
<1>6. UNCHANGED <<entries, log, sending, outbox>>
  BY <1>1 DEF data, carrier
<1>7. \A q \in Peer : ToSet(pending'[q]) \cup ToSet(going'[q]) \subseteq ToSet(pending[q]) \cup ToSet(going[q])
                      /\ ToSet(queue'[q]) \subseteq ToSet(queue[q])
  BY <1>1
<1>. QED
  BY <1>1, <1>3, <1>4, <1>5, <1>6, <1>7, SilentStep

LEMMA GrowsIs ==
  ASSUME OpsTypeOK, Graph, NEW p \in Peer, NEW c \in Nat, Appended(p, c), c # 0 => c \in Writes
  PROVE  Grows
BY AppendingIs DEF Grows, Change

\* A write is known, waits, or is overlooked.
Ships(p, c) == [t |-> "ship", id |-> c] \in ToSet(queue[p])

LEMMA WriteStep ==
  ASSUME Sound, NEW p \in Peer, Write(p), NEW e, e = Len(entries) + 1
  PROVE  /\ Sound' /\ Grows /\ Writes' = Writes \cup {e} /\ Moves(p, Idle) /\ ~ level'
         /\ seen' = seen /\ doing' = doing /\ (spoiled => spoiled') /\ overlooked \subseteq overlooked'
         /\ Len(entries') = e /\ entries'[e].by = p /\ entries'[e].change = e /\ e \in log'[p]
         /\ \A q \in Peer \ {p} : log'[q] = log[q]
         /\ spoiled' \/ e \in overlooked' \/ Ships(p, e)' \/ e \in ToSet(pending'[p])
         /\ \A q \in Peer : /\ ToSet(pending[q]) \subseteq ToSet(pending'[q]) /\ ToSet(queue[q]) \subseteq ToSet(queue'[q])
                            /\ going'[q] = going[q]
         /\ All' \subseteq All \cup {Idle, [t |-> "ship", id |-> e]}
<1>1. /\ OpsTypeOK /\ Graph /\ Honest /\ Own /\ Appended(p, 0)
      /\ overlooked' = (IF started[p] /\ doing[p] # Idle THEN overlooked \cup {Len(entries) + 1} ELSE overlooked)
      /\ UNCHANGED <<eager, parked, started, going, seen, doing, carrier, opsFaults, presses>>
  BY DEF Sound, Write
<1>2. spoiled' \in BOOLEAN /\ (spoiled => spoiled') /\ (~ started[p] => spoiled') /\ level' = FALSE
  <2>1. spoiled' = (spoiled \/ ~ started[p]) /\ level' = FALSE
    BY DEF Write
  <2>2. spoiled \in BOOLEAN /\ started[p] \in BOOLEAN
    BY <1>1 DEF OpsTypeOK
  <2>. QED
    BY <2>1, <2>2
<1>3. e \in Nat /\ e = Len(entries) + 1
  BY <1>1, EntriesAre
<1>4. /\ entries' \in Seq(EntryType) /\ log' \in [Peer -> SUBSET Nat]
      /\ Len(entries') = e /\ entries'[e].by = p /\ entries'[e].change = e
      /\ Writes' = Writes \cup {e} /\ log'[p] = log[p] \cup {e} /\ \A q \in Peer \ {p} : log'[q] = log[q]
      /\ Graph'
  BY <1>1, <1>3, AppendingIs
<1>5. Grows
  BY <1>1, GrowsIs
<1>6. PICK m : m = [t |-> "ship", id |-> e]
  OBVIOUS
<1>7. m \in Work /\ m.t = "ship" /\ m.id = e
  BY <1>6 DEF Work
<1>8. /\ queue' \in [Peer -> Seq(Work)] /\ pending' \in [Peer -> Seq(Nat)]
      /\ \A q \in Peer : /\ ToSet(queue[q]) \subseteq ToSet(queue'[q])
                         /\ ToSet(queue'[q]) \subseteq ToSet(queue[q]) \cup (IF q = p THEN {m} ELSE {})
                         /\ ToSet(pending[q]) \subseteq ToSet(pending'[q])
                         /\ ToSet(pending'[q]) \subseteq ToSet(pending[q]) \cup (IF q = p THEN {e} ELSE {})
      /\ ~ started[p] \/ doing[p] # Idle \/ m \in ToSet(queue'[p]) \/ e \in ToSet(pending'[p])
  <2>1. queue \in [Peer -> Seq(Work)] /\ pending \in [Peer -> Seq(Nat)] /\ pending[p] \in Seq(Nat) /\ queue[p] \in Seq(Work)
    BY <1>1 DEF OpsTypeOK
  <2>2. CASE ~ started[p] \/ doing[p] # Idle
    <3>1. UNCHANGED <<queue, pending>>
      BY <2>2 DEF Write
    <3>. QED
      BY <2>1, <2>2, <3>1
  <2>3. CASE ~ (~ started[p] \/ doing[p] # Idle) /\ eager
    <3>1. queue' = [queue EXCEPT ![p] = Append(queue[p], m)] /\ pending' = pending
      BY <1>3, <1>6, <2>3 DEF Write
    <3>2. Append(queue[p], m) \in Seq(Work) /\ ToSet(Append(queue[p], m)) = ToSet(queue[p]) \cup {m}
      BY <1>7, <2>1, Appending
    <3>. QED
      BY <2>1, <3>1, <3>2
  <2>4. CASE ~ (~ started[p] \/ doing[p] # Idle) /\ ~ eager
    <3>1. pending' = [pending EXCEPT ![p] = Append(pending[p], e)] /\ queue' = queue
      BY <1>3, <2>4 DEF Write
    <3>2. Append(pending[p], e) \in Seq(Nat) /\ ToSet(Append(pending[p], e)) = ToSet(pending[p]) \cup {e}
      BY <2>1, Appending
    <3>. QED
      BY <2>1, <3>1, <3>2
  <2>. QED
    BY <2>2, <2>3, <2>4
<1>9. overlooked' \subseteq Nat /\ overlooked \subseteq overlooked' /\ (started[p] /\ doing[p] # Idle => e \in overlooked')
  BY <1>1, <1>3 DEF OpsTypeOK
<1>10. OpsTypeOK'
  BY <1>1, <1>2, <1>4, <1>8, <1>9 DEF OpsTypeOK, carrier
<1>11. \A q \in Peer : In(q)' \subseteq In(q) \cup {m} /\ In(q) \subseteq In(q)' /\ Out(q)' = Out(q)
  BY <1>1, <1>8 DEF In, Out, carrier
<1>12. All' \subseteq All \cup {Idle, m}
  BY <1>11 DEF All
<1>13. Moves(p, Idle)
  <2>1. \A q \in Peer : Chan(q) \subseteq Chan(q)'
    BY <1>11, TwoPeers DEF Chan
  <2>. QED
    BY <2>1 DEF Moves
<1>14. Honest'
  <2>1. PICK New : New = {m}
    OBVIOUS
  <2>2. HonestIs(m)'
    BY <1>7 DEF HonestIs
  <2>3. All' \subseteq All \cup New \cup {Idle} /\ \A n \in New : HonestIs(n)'
    BY <1>12, <2>1, <2>2
  <2>. QED
    BY <1>1, <1>5, <2>3, FromPeers, StaysHonest
<1>15. Own'
  <2>1. Mine(p, e)'
    BY <1>4 DEF Mine
  <2>2. \A q \in Peer : going'[q] = going[q]
    BY <1>1
  <2>. QED
    BY <1>1, <1>5, <1>7, <1>8, <2>1, <2>2, StaysMine
<1>16. Sound' /\ ~ level'
  BY <1>2, <1>4, <1>10, <1>14, <1>15 DEF Sound
<1>17. spoiled' \/ e \in overlooked' \/ Ships(p, e)' \/ e \in ToSet(pending'[p])
  BY <1>2, <1>6, <1>8, <1>9 DEF Ships
<1>18. /\ seen' = seen /\ doing' = doing /\ (spoiled => spoiled') /\ overlooked \subseteq overlooked'
       /\ Writes' = Writes \cup {e} /\ Len(entries') = e /\ entries'[e].by = p /\ entries'[e].change = e
       /\ e \in log'[p] /\ \A q \in Peer \ {p} : log'[q] = log[q]
  BY <1>1, <1>2, <1>4, <1>9
<1>19. \A q \in Peer : /\ ToSet(pending[q]) \subseteq ToSet(pending'[q]) /\ ToSet(queue[q]) \subseteq ToSet(queue'[q])
                       /\ going'[q] = going[q]
  BY <1>1, <1>8
<1>20. All' \subseteq All \cup {Idle, [t |-> "ship", id |-> e]}
  BY <1>6, <1>12
<1>. QED
  BY <1>3, <1>5, <1>13, <1>16, <1>17, <1>18, <1>19, <1>20

LEMMA PerformedStep ==
  ASSUME Sound, NEW p \in Peer, Performed(p), NEW e, e = Len(entries) + 1
  PROVE  /\ Sound' /\ Grows /\ Writes' = Writes /\ Moves(p, doing[p]) /\ ~ level'
         /\ doing[p] \in OpMsg /\ doing'[p] = Idle /\ \A q \in Peer \ {p} : doing'[q] = doing[q]
         /\ Len(entries') = e /\ entries'[e].by = p /\ entries'[e].change = doing[p].id /\ e \in log'[p]
         /\ \A q \in Peer \ {p} : log'[q] = log[q]
         /\ seen' = seen /\ spoiled' = spoiled /\ overlooked' = overlooked
         /\ pending' = pending /\ going' = going /\ queue' = queue
         /\ All' \subseteq All \cup {Idle}
<1>1. /\ OpsTypeOK /\ Graph /\ Honest /\ Own
      /\ doing[p].t = "op" /\ doing' = [doing EXCEPT ![p] = Idle] /\ Appended(p, doing[p].id) /\ level' = FALSE
      /\ UNCHANGED <<eager, parked, started, pending, going, seen, queue, carrier, opsFaults, presses, overlooked, spoiled>>
  BY DEF Sound, Performed
<1>2. PICK c \in Nat : c = doing[p].id /\ c \in Writes /\ doing[p] \in OpMsg /\ c # 0
  <2>1. doing[p] \in Msg \cup {Idle} /\ HonestIs(doing[p])
    BY <1>1 DEF OpsTypeOK, Honest, In
  <2>2. doing[p] # Idle
    BY <1>1 DEF Idle
  <2>3. doing[p] \in OpMsg
    BY <1>1, <2>1, <2>2, Kinds
  <2>4. doing[p].id \in Nat /\ doing[p].id \in Writes
    BY <1>1, <2>1, <2>3 DEF OpMsg, HonestIs
  <2>5. doing[p].id # 0
    <3>1. Len(entries) \in Nat /\ doing[p].id \in 1..Len(entries)
      BY <1>1, <2>4, EntriesAre DEF Change
    <3>. QED
      BY <3>1
  <2>. QED
    BY <2>3, <2>4, <2>5
<1>3. e = Len(entries) + 1
  OBVIOUS
<1>4. /\ entries' \in Seq(EntryType) /\ log' \in [Peer -> SUBSET Nat]
      /\ Len(entries') = e /\ entries'[e].by = p /\ entries'[e].change = c
      /\ Writes' = Writes /\ log'[p] = log[p] \cup {e} /\ \A q \in Peer \ {p} : log'[q] = log[q]
      /\ Graph'
  BY <1>1, <1>2, <1>3, AppendingIs
<1>5. Grows
  BY <1>1, <1>2, GrowsIs
<1>6. doing' \in [Peer -> Msg \cup {Idle}] /\ Heard(p, doing[p])
  BY <1>1, DoneWith DEF carrier
<1>7. doing'[p] = Idle /\ \A q \in Peer \ {p} : doing'[q] = doing[q]
  BY <1>1 DEF OpsTypeOK
<1>8. OpsTypeOK'
  BY <1>1, <1>4, <1>6 DEF OpsTypeOK, carrier
<1>9. All' \subseteq All \cup {Idle} /\ Moves(p, doing[p])
  BY <1>1, <1>6, SilentMoves DEF carrier
<1>10. Honest'
  <2>1. PICK New : New = {}
    OBVIOUS
  <2>2. All' \subseteq All \cup New \cup {Idle} /\ \A n \in New : HonestIs(n)'
    BY <1>9, <2>1
  <2>. QED
    BY <1>1, <1>5, <2>2, FromPeers, StaysHonest
<1>11. Own'
  BY <1>1, <1>5, StaysMine
<1>12. Sound' /\ ~ level'
  BY <1>1, <1>4, <1>8, <1>10, <1>11 DEF Sound
<1>. QED
  BY <1>1, <1>2, <1>3, <1>4, <1>5, <1>7, <1>9, <1>12

LEMMA AppliedStep ==
  ASSUME Sound, Held, NEW p \in Peer, Applied(p)
  PROVE  /\ Step(p, doing[p]) /\ doing[p] \in BlocksMsg /\ doing'[p] = Idle /\ \A q \in Peer \ {p} : doing'[q] = doing[q]
         /\ \A q \in Peer \ {p} : log'[q] = log[q]
         /\ log'[p] \subseteq log[p] \cup log[Other(p)]
         /\ \/ Below(doing[p].heads \cap doing[p].blocks) \subseteq log'[p]
            \/ Shed \/ \E m \in Chan(p)' : m.t = "want" /\ m.from = p
<1>1. /\ OpsTypeOK /\ Graph /\ Honest /\ Own /\ doing[p].t = "blocks" /\ doing' = [doing EXCEPT ![p] = Idle]
      /\ UNCHANGED <<eager, entries, started, pending, going, seen, queue, air, opsFaults, presses, overlooked>>
  BY DEF Sound, Applied
<1>2. PICK d \in BlocksMsg : d = doing[p] /\ d.from \in Peer /\ d.heads \in SUBSET log[d.from]
  <2>1. doing[p] \in Msg \cup {Idle} /\ HonestIs(doing[p])
    BY <1>1 DEF OpsTypeOK, Honest, In
  <2>2. doing[p] # Idle
    BY <1>1 DEF Idle
  <2>3. doing[p] \in BlocksMsg
    BY <1>1, <2>1, <2>2, Kinds
  <2>. QED
    BY <1>1, <2>1, <2>3 DEF HonestIs, BlocksMsg
<1>3. doing' \in [Peer -> Msg \cup {Idle}] /\ Heard(p, d)
  BY <1>1, <1>2, DoneWith
<1>4. doing'[p] = Idle /\ \A q \in Peer \ {p} : doing'[q] = doing[q]
  BY <1>1 DEF OpsTypeOK
<1>5. PICK H, missing : H = d.heads \cap parked[p] /\ missing = Missing(p)
  OBVIOUS
<1>6. /\ log \in [Peer -> SUBSET Nat] /\ Writes' = Writes /\ Change' = Change
      /\ H \subseteq log[d.from] /\ Below(H) \subseteq log[d.from]
  BY <1>1, <1>2, <1>5, BelowIsIn DEF OpsTypeOK, Writes, Change
<1>7. IF missing = {}
      THEN /\ log' = [log EXCEPT ![p] = log[p] \cup Below(H)]
           /\ parked' = [parked EXCEPT ![p] = {}]
           /\ Post(p, [Announce(p, FALSE) EXCEPT !.heads = Heads(log'[p])])
      ELSE Post(p, Want(p, d.from, missing)) /\ UNCHANGED <<log, parked>>
  BY <1>2, <1>5 DEF Applied
<1>8. \A q \in Peer : ToSet(pending'[q]) \cup ToSet(going'[q]) \subseteq ToSet(pending[q]) \cup ToSet(going[q])
                      /\ ToSet(queue'[q]) \subseteq ToSet(queue[q])
  BY <1>1
<1>9. CASE missing # {}
  <2>1. missing \in SUBSET Nat
    BY <1>1, <1>5, EntriesAre DEF Held, Missing
  <2>2. PICK m \in Msg : /\ m = Want(p, d.from, missing) /\ HonestIs(m) /\ Answers(p, m)
                         /\ m.t = "want" /\ m.from = p
    BY <1>2, <2>1, Asking
  <2>3. Post(p, m) /\ UNCHANGED <<log, parked>>
    BY <1>7, <1>9, <2>2
  <2>4. OpsTypeOK'
    BY <1>1, <1>3, <2>3, Posting DEF OpsTypeOK
  <2>5. Step(p, d) /\ (Shed \/ m \in Chan(p)')
    BY <1>1, <1>3, <1>8, <2>2, <2>3, <2>4, PostStep
  <2>. QED
    BY <1>2, <1>4, <2>2, <2>3, <2>5
<1>10. CASE missing = {}
  <2>1. /\ log' \in [Peer -> SUBSET Nat] /\ log'[p] = log[p] \cup Below(H) /\ \A q \in Peer \ {p} : log'[q] = log[q]
        /\ parked' \in [Peer -> SUBSET Nat]
    <3>1. log' = [log EXCEPT ![p] = log[p] \cup Below(H)] /\ parked' = [parked EXCEPT ![p] = {}]
      BY <1>7, <1>10
    <3>2. log[p] \cup Below(H) \in SUBSET Nat
      BY <1>1, <1>2, <1>6 DEF OpsTypeOK
    <3>. QED
      BY <1>1, <1>6, <3>1, <3>2 DEF OpsTypeOK
  <2>2. PICK m : m = [Announce(p, FALSE) EXCEPT !.heads = Heads(log'[p])]
    OBVIOUS
  <2>3. m = [t |-> "announce", from |-> p, heads |-> Heads(log'[p]), r |-> FALSE]
    BY <2>2 DEF Announce
  <2>4. Heads(log'[p]) \subseteq log'[p] /\ log'[p] \subseteq Nat
    BY <2>1 DEF Heads
  <2>5. m \in Msg /\ m.t = "announce" /\ m.from = p /\ m.heads \subseteq log'[p]
    <3>1. m \in AnnounceMsg
      BY <2>3, <2>4 DEF AnnounceMsg
    <3>. QED
      BY <2>3, <2>4, <3>1 DEF Msg
  <2>6. Post(p, m) /\ ~ IsReply(m)
    BY <1>7, <1>10, <2>2, <2>5 DEF IsReply
  <2>7. OpsTypeOK'
    BY <1>1, <1>3, <2>1, <2>5, <2>6, Posting DEF OpsTypeOK
  <2>8. All' \subseteq All \cup {m, Idle} /\ (Shed \/ Moves(p, d))
    BY <1>1, <1>3, <2>5, <2>6, PostMoves
  <2>9. Grows
    BY <1>1, <1>6, <2>1 DEF Grows
  <2>10. Honest'
    <3>1. PICK New : New = {m}
      OBVIOUS
    <3>2. HonestIs(m)'
      BY <2>5 DEF HonestIs
    <3>3. All' \subseteq All \cup New \cup {Idle} /\ \A n \in New : HonestIs(n)'
      BY <2>8, <3>1, <3>2
    <3>. QED
      BY <1>1, <2>9, <3>3, FromPeers, StaysHonest
  <2>11. Own'
    BY <1>1, <1>8, <2>9, StaysMine
  <2>12. Graph'
    <3>1. \A e : Past(e)' = Past(e)
      BY <1>1 DEF Past
    <3>2. \A e \in Change : e \in log'[entries[e].by]
      BY <2>9, <1>1, EntriesAre DEF Graph, Grows
    <3>3. \A q \in Peer : log'[q] \subseteq Change
      BY <1>1, <1>2, <1>6, <2>1 DEF Graph
    <3>4. \A e \in Below(H) : Past(e) \subseteq Below(H)
      BY <1>1, <1>2, <1>6 DEF Graph, Below
    <3>5. \A q \in Peer : \A e \in log'[q] : Past(e) \subseteq log'[q]
      BY <1>1, <2>1, <3>4 DEF Graph
    <3>6. /\ \A e \in Change : Past(e) \subseteq 1..(e - 1) /\ \A f \in Past(e) : Past(f) \subseteq Past(e)
          /\ \A e \in Change : entries[e].change \in Writes /\ entries[e].change <= e
      BY <1>1 DEF Graph
    <3>. QED
      BY <1>1, <1>6, <3>1, <3>2, <3>3, <3>5, <3>6 DEF Graph
  <2>13. Step(p, d)
    <3>1. \A n \in All' : n.t = "op" => n \in All
      BY <2>5, <2>8 DEF Idle
    <3>. QED
      BY <1>6, <2>7, <2>8, <2>9, <2>10, <2>11, <2>12, <3>1 DEF Step, Sound
  <2>14. log'[p] \subseteq log[p] \cup log[Other(p)] /\ Below(d.heads \cap d.blocks) \subseteq log'[p]
    <3>1. d.from = p \/ d.from = Other(p)
      BY <1>2, TwoPeers
    <3>2. d.heads \cap d.blocks \subseteq H
      BY <1>1, <1>2, <1>5 DEF Held
    <3>3. Below(d.heads \cap d.blocks) \subseteq Below(H)
      BY <3>2 DEF Below
    <3>. QED
      BY <1>6, <2>1, <3>1, <3>3
  <2>. QED
    BY <1>2, <1>4, <2>1, <2>13, <2>14
<1>. QED
  BY <1>9, <1>10

-----------------------------------------------------------------------------
(* All that is said holds of the devices' logs.                            *)

LEMMA StartsSound == OpsInit => Sound
<1>. SUFFICES ASSUME OpsInit PROVE Sound
  OBVIOUS
<1>1. /\ entries = <<>> /\ log = [p \in Peer |-> {}] /\ parked = [p \in Peer |-> {}]
      /\ eager \in BOOLEAN /\ started = [p \in Peer |-> TRUE]
      /\ pending = [p \in Peer |-> <<>>] /\ going = [p \in Peer |-> <<>>]
      /\ seen = [p \in Peer |-> <<>>] /\ queue = [p \in Peer |-> <<>>]
      /\ doing = [p \in Peer |-> Idle] /\ sending = [p \in Peer |-> Idle]
      /\ outbox = [p \in Peer |-> <<>>] /\ air = [p \in Peer |-> <<>>]
      /\ opsFaults = 0 /\ overlooked = {} /\ spoiled = FALSE /\ level = FALSE
  BY OpsAssumption DEF OpsInit
<1>2. \A S : <<>> \in Seq(S)
  OBVIOUS
<1>3. OpsTypeOK
  <2>1. /\ entries \in Seq(EntryType) /\ log \in [Peer -> SUBSET Nat] /\ parked \in [Peer -> SUBSET Nat]
        /\ started \in [Peer -> BOOLEAN]
    BY <1>1, <1>2
  <2>2. /\ pending \in [Peer -> Seq(Nat)] /\ going \in [Peer -> Seq(Nat)] /\ seen \in [Peer -> Seq(Nat)]
        /\ queue \in [Peer -> Seq(Work)] /\ outbox \in [Peer -> Seq(Msg)] /\ air \in [Peer -> Seq(Msg)]
    BY <1>1, <1>2
  <2>3. doing \in [Peer -> Msg \cup {Idle}] /\ sending \in [Peer -> Msg \cup {Idle}]
    BY <1>1
  <2>4. opsFaults \in Nat /\ overlooked \subseteq Nat /\ spoiled \in BOOLEAN /\ level \in BOOLEAN
    BY <1>1
  <2>. QED
    BY <1>1, <2>1, <2>2, <2>3, <2>4 DEF OpsTypeOK
<1>4. ToSet(<<>>) = {} /\ Change = {}
  BY <1>1 DEF ToSet, Change
<1>5. Graph
  BY <1>1, <1>4 DEF Graph
<1>6. Honest
  <2>1. HonestIs(Idle)
    BY DEF HonestIs, Idle
  <2>2. \A p \in Peer : Out(p) \cup In(p) = {Idle}
    BY <1>1, <1>4 DEF Out, In
  <2>. QED
    BY <2>1, <2>2 DEF Honest
<1>7. Own
  BY <1>1, <1>4 DEF Own
<1>. QED
  BY <1>3, <1>5, <1>6, <1>7 DEF Sound

LEMMA HeldStarts == OpsInit => Held
BY DEF OpsInit, Held, Idle

LEMMA SoundNext == Sound /\ Held /\ [OpsNext]_opsVars => Sound'
<1>. SUFFICES ASSUME Sound, Held, [OpsNext]_opsVars PROVE Sound'
  OBVIOUS
<1>1. ASSUME NEW p \in Peer, Write(p) PROVE Sound'
  BY <1>1, WriteStep
<1>2. ASSUME NEW p \in Peer, Performed(p) PROVE Sound'
  BY <1>2, PerformedStep
<1>3. ASSUME NEW p \in Peer, SendResolves(p) \/ SendFails(p) \/ Deliver(p) \/ Lose(p) \/ Overtake(p) PROVE Sound'
  BY <1>3, SendResolvesStep, SendFailsStep, DeliverStep, LoseStep, OvertakeStep DEF Carried
<1>4. ASSUME NEW p \in Peer, Press(p) \/ Flush(p) \/ ShipTask(p) \/ Stop(p) \/ Start(p) PROVE Sound'
  BY <1>4, PressStep, FlushStep, ShipTaskStep, StopStep, StartStep DEF Step
<1>5. ASSUME NEW p \in Peer, HandleAnnounce(p) \/ HandleWant(p) \/ HandleBlocks(p) \/ HandleOp(p) PROVE Sound'
  BY <1>5, HandleAnnounceStep, HandleWantStep, HandleBlocksStep, HandleOpStep DEF Step
<1>6. ASSUME NEW p \in Peer, Applied(p) \/ PerformFails(p) PROVE Sound'
  BY <1>6, AppliedStep, PerformFailsStep DEF Step
<1>7. CASE UNCHANGED opsVars
  <2>1. OpsTypeOK' /\ UNCHANGED <<entries, log>>
    BY <1>7 DEF Sound, OpsTypeOK, opsVars, data, control, carrier, ghosts
  <2>2. \A p \in Peer : Out(p)' = Out(p) /\ In(p)' = In(p)
    BY <1>7 DEF Out, In, opsVars, control, carrier
  <2>3. Graph'
    BY <2>1, SameGraph DEF Sound
  <2>4. Honest'
    BY <2>1, <2>2 DEF Sound, Honest, HonestIs, Writes, Change
  <2>5. Own'
    BY <1>7 DEF Sound, Own, Mine, Writes, opsVars, data, control
  <2>. QED
    BY <2>1, <2>3, <2>4, <2>5 DEF Sound
<1>. QED
  BY <1>1, <1>2, <1>3, <1>4, <1>5, <1>6, <1>7 DEF OpsNext

LEMMA NextGrows ==
  ASSUME Sound, Held, OpsNext PROVE Grows
<1>1. \A p \in Peer : Write(p) => Grows
  BY WriteStep
<1>2. \A p \in Peer : Performed(p) => Grows
  BY PerformedStep
<1>3. \A p \in Peer : SendResolves(p) \/ SendFails(p) \/ Deliver(p) \/ Lose(p) \/ Overtake(p) => Grows
  BY SendResolvesStep, SendFailsStep, DeliverStep, LoseStep, OvertakeStep DEF Carried
<1>4. \A p \in Peer : Press(p) \/ Flush(p) \/ ShipTask(p) \/ Stop(p) \/ Start(p) => Grows
  BY PressStep, FlushStep, ShipTaskStep, StopStep, StartStep DEF Step
<1>5. \A p \in Peer : HandleAnnounce(p) \/ HandleWant(p) \/ HandleBlocks(p) \/ HandleOp(p) => Grows
  BY HandleAnnounceStep, HandleWantStep, HandleBlocksStep, HandleOpStep DEF Step
<1>6. \A p \in Peer : Applied(p) \/ PerformFails(p) => Grows
  BY AppliedStep, PerformFailsStep DEF Step
<1>. QED
  BY <1>1, <1>2, <1>3, <1>4, <1>5, <1>6 DEF OpsNext

\* Entries come to be, and none goes; what is parked and stored came in a delivery.
LEMMA HeldNext == Sound /\ Held /\ [OpsNext]_opsVars => Held'
<1>. SUFFICES ASSUME Sound, Held, [OpsNext]_opsVars PROVE Held'
  OBVIOUS
<1>0. /\ Change \subseteq Change' /\ doing \in [Peer -> Msg \cup {Idle}]
      /\ OpsTypeOK /\ \A p \in Peer : log[p] \subseteq Change
  <2>1. CASE UNCHANGED opsVars
    BY <2>1 DEF opsVars, data, Change, Sound, Graph, OpsTypeOK
  <2>2. CASE OpsNext
    BY <2>2, NextGrows DEF Grows, Sound, Graph, OpsTypeOK
  <2>. QED
    BY <2>1, <2>2
<1>1. ASSUME UNCHANGED <<parked, store>>, \A p \in Peer : doing'[p].t = "blocks" => doing'[p] = doing[p] PROVE Held'
  BY <1>0, <1>1 DEF Held
<1>2. ASSUME NEW p \in Peer, Write(p) \/ Performed(p) PROVE Held'
  <2>1. PICK c \in Nat : Appended(p, c) /\ UNCHANGED parked
    <3>1. CASE Write(p)
      BY <3>1 DEF Write
    <3>2. CASE Performed(p)
      <4>1. doing[p] \in OpMsg /\ Appended(p, doing[p].id) /\ UNCHANGED parked
        <5>1. PICK e : e = Len(entries) + 1
          OBVIOUS
        <5>. QED
          BY <3>2, <5>1, PerformedStep DEF Performed
      <4>. QED
        BY <4>1 DEF OpMsg
    <3>. QED
      BY <1>2, <3>1, <3>2
  <2>2. \A q \in Peer : doing'[q].t = "blocks" => doing'[q] = doing[q]
    <3>1. CASE Write(p)
      BY <3>1 DEF Write
    <3>2. CASE Performed(p)
      BY <1>0, <3>2 DEF Performed, Idle
    <3>. QED
      BY <1>2, <3>1, <3>2
  <2>3. PICK e : e = Len(entries) + 1
    OBVIOUS
  <2>4. e \in Change'
    <3>1. Len(entries) \in Nat
      BY <1>0, EntriesAre
    <3>2. Len(entries') = e
      <4>1. CASE Write(p)
        BY <2>3, <4>1, WriteStep
      <4>2. CASE Performed(p)
        BY <2>3, <4>2, PerformedStep
      <4>. QED
        BY <1>2, <4>1, <4>2
    <3>. QED
      BY <2>3, <3>1, <3>2 DEF Change
  <2>5. \A q \in Peer : store'[q] \subseteq store[q] \cup {e}
    BY <2>1, <2>3 DEF Appended, Held
  <2>. QED
    BY <1>0, <2>1, <2>2, <2>4, <2>5 DEF Held
<1>3. ASSUME NEW p \in Peer, HandleBlocks(p) PROVE Held'
  <2>1. PICK h : /\ h = Head(queue[p]) /\ h \in ToSet(queue[p]) /\ h.t = "blocks"
                 /\ parked' = [parked EXCEPT ![p] = parked[p] \cup h.blocks]
                 /\ doing' = [doing EXCEPT ![p] = h] /\ UNCHANGED store
    <3>1. queue[p] # <<>> /\ queue[p] \in Seq(Work)
      BY <1>0, <1>3 DEF HandleBlocks, Task, OpsTypeOK
    <3>2. Head(queue[p]) \in ToSet(queue[p])
      BY <3>1, Taking
    <3>. QED
      BY <1>3, <3>2 DEF HandleBlocks, Task
  <2>2. h.blocks \subseteq Change
    BY <2>1 DEF Sound, Honest, HonestIs, In
  <2>. QED
    BY <1>0, <2>1, <2>2 DEF Held, OpsTypeOK
<1>4. ASSUME NEW p \in Peer, Applied(p) PROVE Held'
  <2>1. /\ doing' = [doing EXCEPT ![p] = Idle] /\ parked'[p] \subseteq parked[p]
        /\ \A q \in Peer \ {p} : parked'[q] = parked[q]
        /\ \A q \in Peer : store'[q] \subseteq store[q] \cup parked[q]
    BY <1>0, <1>4 DEF Applied, OpsTypeOK, Held
  <2>. QED
    BY <1>0, <2>1 DEF Held, Idle
<1>5. ASSUME NEW p \in Peer, HandleOp(p) \/ PerformFails(p) PROVE Held'
  <2>1. UNCHANGED <<parked, store>>
    BY <1>5 DEF HandleOp, PerformFails, data
  <2>2. ASSUME HandleOp(p), NEW q \in Peer, doing'[q].t = "blocks" PROVE doing'[q] = doing[q]
    BY <1>0, <2>2 DEF HandleOp, Task
  <2>3. ASSUME PerformFails(p), NEW q \in Peer, doing'[q].t = "blocks" PROVE doing'[q] = doing[q]
    BY <1>0, <2>3 DEF PerformFails, Idle
  <2>. QED
    BY <1>1, <1>5, <2>1, <2>2, <2>3
<1>6. ASSUME NEW p \in Peer,
             \/ Press(p) \/ Flush(p) \/ ShipTask(p)
             \/ SendResolves(p) \/ SendFails(p) \/ Deliver(p) \/ Lose(p) \/ Overtake(p)
             \/ HandleAnnounce(p) \/ HandleWant(p) \/ Stop(p) \/ Start(p)
      PROVE  Held'
  <2>1. UNCHANGED <<parked, store, doing>>
    BY <1>6 DEF Press, Flush, ShipTask, SendResolves, SendFails, Deliver, Lose, Overtake, HandleAnnounce,
                HandleWant, Stop, Start, data, control
  <2>. QED
    BY <1>1, <2>1
<1>7. CASE UNCHANGED opsVars
  BY <1>1, <1>7 DEF opsVars, data, control
<1>. QED
  BY <1>2, <1>3, <1>4, <1>5, <1>6, <1>7 DEF OpsNext

-----------------------------------------------------------------------------
(* The way of an entry to the other device, once someone has asked.        *)

\* What brings c of x to the other device when that hears it, and what makes x send it.
Says(c, x, m) == \/ m.t = "announce" /\ m.r /\ m.from = x /\ c \in Below(m.heads)
                 \/ m.t = "blocks" /\ m.to = Other(x) /\ c \in Below(m.heads \cap m.blocks)
Asks(x, m)    == m.from = Other(x) /\ (m.t = "want" \/ (m.t = "announce" /\ m.r))

Route(c, x) == \/ \E m \in Chan(x) : Says(c, x, m)
               \/ \E m \in Chan(Other(x)) : Asks(x, m)

LEMMA BelowStays ==
  ASSUME Grows, NEW L \in SUBSET Change, NEW c \in Below(L) PROVE c \in Below(L)'
BY DEF Grows, Below, Past

\* Below the heads of a log is all of it.
LEMMA HeadsAre ==
  ASSUME Sound, NEW x \in Peer, NEW c \in log[x]
  PROVE  Heads(log[x]) \subseteq Change /\ c \in Below(Heads(log[x]))
<1>1. OpsTypeOK /\ Graph /\ log[x] \subseteq Change
  BY DEF Sound, Graph
<1>2. Heads(log[x]) \subseteq log[x]
  BY DEF Heads
<1>3. PICK h \in Heads(log[x]) : c = h \/ c \in Past(h)
  BY <1>1, HeadsReach
<1>. QED
  BY <1>1, <1>2, <1>3 DEF Below

LEMMA SaidIsKnown ==
  ASSUME Sound, NEW x \in Peer, NEW m \in Chan(x), m.t \in {"announce", "blocks"}
  PROVE  m.heads \in SUBSET Change /\ m.from \in Peer /\ m.heads \subseteq log[m.from]
<1>1. PICK p \in Peer : m \in Out(p) \cup In(p)
  BY TwoPeers DEF Chan
<1>2. m.from \in Peer
  BY <1>1, FromPeers DEF Sound
<1>3. m.heads \subseteq log[m.from]
  BY <1>1 DEF Sound, Honest, HonestIs
<1>. QED
  BY <1>2, <1>3 DEF Sound, Graph

\* Blocks that answer the other device are a way for all that it lacks.
LEMMA AnswerRoutes ==
  ASSUME Sound, Grows, NEW x \in Peer, NEW c \in log[x], c \notin log[Other(x)],
         NEW n, n \in Chan(x)', n.t = "blocks", n.to = Other(x), Answers(x, n)
  PROVE  Route(c, x)'
<1>1. n.heads = Heads(log[x]) /\ c \in Below(n.heads \cap n.blocks)
  BY DEF Answers, Covers
<1>2. n.heads \cap n.blocks \in SUBSET Change
  BY <1>1 DEF Heads, Sound, Graph
<1>3. c \in Below(n.heads \cap n.blocks)'
  BY <1>1, <1>2, BelowStays
<1>. QED
  BY <1>3 DEF Route, Says

LEMMA RouteMoves ==
  ASSUME Sound, Grows, NEW x \in Peer, NEW c \in log[x], c \notin log[Other(x)], NEW p \in Peer, NEW h,
         Moves(p, h), Route(c, x)
  PROVE  \/ Route(c, x)'
         \/ p = Other(x) /\ Says(c, x, h) /\ h \in Chan(x)
         \/ p = x /\ Asks(x, h)
<1>1. Other(x) \in Peer /\ Other(p) \in Peer /\ Other(Other(p)) = p /\ (x = Other(p) <=> p = Other(x)) /\ (Other(x) = Other(p) <=> p = x)
  BY TwoPeers
<1>2. ASSUME NEW m \in Chan(x), Says(c, x, m), ~ (p = Other(x) /\ m = h) PROVE Route(c, x)'
  <2>1. m.t \in Kind /\ m.t \in {"announce", "blocks"}
    BY <1>2 DEF Says, Kind
  <2>2. m.heads \in SUBSET Change
    BY <1>2, <2>1, SaidIsKnown
  <2>3. CASE m \in Chan(x)'
    <3>1. CASE m.t = "announce"
      BY <1>2, <2>2, <2>3, <3>1, BelowStays DEF Route, Says
    <3>2. CASE m.t = "blocks"
      <4>1. m.heads \cap m.blocks \in SUBSET Change /\ c \in Below(m.heads \cap m.blocks)
        BY <1>2, <2>2, <3>2 DEF Says
      <4>2. c \in Below(m.heads \cap m.blocks)'
        BY <4>1, BelowStays
      <4>. QED
        BY <1>2, <2>3, <3>2, <4>2 DEF Route, Says
    <3>. QED
      BY <2>1, <3>1, <3>2
  <2>4. CASE \E n \in Chan(x)' : Answers(x, n) /\ n.t = m.t /\ n.to = m.to
    <3>1. PICK n \in Chan(x)' : Answers(x, n) /\ n.t = m.t /\ n.to = m.to
      BY <2>4
    <3>2. n.t = "blocks" /\ n.to = Other(x)
      BY <1>2, <2>1, <3>1 DEF Answers, IsReply, Says
    <3>. QED
      BY <3>1, <3>2, AnswerRoutes
  <2>. QED
    BY <1>1, <1>2, <2>1, <2>3, <2>4 DEF Moves
<1>3. ASSUME NEW m \in Chan(Other(x)), Asks(x, m), ~ (p = x /\ m = h) PROVE Route(c, x)'
  <2>1. m.t \in Kind
    BY <1>3 DEF Asks, Kind
  <2>2. CASE m \in Chan(Other(x))'
    BY <1>3, <2>2 DEF Route, Asks
  <2>3. CASE \E n \in Chan(Other(x))' : Answers(Other(x), n) /\ n.t = m.t
    BY <1>3, <2>3 DEF Route, Asks, Answers, IsReply
  <2>. QED
    BY <1>1, <1>3, <2>1, <2>2, <2>3 DEF Moves
<1>. QED
  BY <1>2, <1>3 DEF Route

\* What device x has and the other lacks is on its way until it is there.
LEMMA RouteStays ==
  ASSUME Sound, Held, OpsNext, NEW x \in Peer, NEW c \in log[x], c \notin log[Other(x)], Route(c, x)
  PROVE  Route(c, x)' \/ c \in log'[Other(x)] \/ Shed
<1>. DEFINE Goal == Route(c, x)' \/ c \in log'[Other(x)] \/ Shed
<1>0. Other(x) \in Peer /\ Peer = {x, Other(x)} /\ ~ Says(c, x, Idle) /\ ~ Asks(x, Idle) /\ Other(Other(x)) = x
  BY TwoPeers DEF Says, Asks, Idle
<1>1. ASSUME NEW p \in Peer, NEW h, Grows, Moves(p, h), ~ Says(c, x, h), ~ Asks(x, h) PROVE Goal
  BY <1>1, RouteMoves
<1>2. ASSUME NEW p \in Peer, Write(p) PROVE Goal
  <2>1. PICK e : e = Len(entries) + 1
    OBVIOUS
  <2>2. Grows /\ Moves(p, Idle)
    BY <1>2, <2>1, WriteStep
  <2>. QED
    BY <1>0, <1>1, <2>2
<1>3. ASSUME NEW p \in Peer, Performed(p) PROVE Goal
  <2>1. PICK e : e = Len(entries) + 1
    OBVIOUS
  <2>2. Grows /\ Moves(p, doing[p]) /\ doing[p] \in OpMsg
    BY <1>3, <2>1, PerformedStep
  <2>3. ~ Says(c, x, doing[p]) /\ ~ Asks(x, doing[p])
    BY <2>2 DEF Says, Asks, OpMsg
  <2>. QED
    BY <1>1, <2>2, <2>3
<1>4. ASSUME NEW p \in Peer, SendResolves(p) \/ SendFails(p) \/ Deliver(p) \/ Lose(p) \/ Overtake(p) PROVE Goal
  <2>1. Carried(p)
    BY <1>4, SendResolvesStep, SendFailsStep, DeliverStep, LoseStep, OvertakeStep
  <2>. QED
    BY <1>0, <1>1, <2>1 DEF Carried
<1>5. ASSUME NEW p \in Peer, Press(p) \/ Flush(p) \/ Stop(p) \/ Start(p) \/ HandleBlocks(p) PROVE Goal
  <2>1. Step(p, Idle)
    BY <1>5, PressStep, FlushStep, StopStep, StartStep, HandleBlocksStep
  <2>. QED
    BY <1>0, <1>1, <2>1 DEF Step
<1>6. ASSUME NEW p \in Peer, ShipTask(p) \/ HandleOp(p) PROVE Goal
  <2>1. Step(p, Head(queue[p])) /\ Head(queue[p]).t \in {"ship", "op"}
    BY <1>6, ShipTaskStep, HandleOpStep DEF ShipTask, Task
  <2>2. ~ Says(c, x, Head(queue[p])) /\ ~ Asks(x, Head(queue[p]))
    BY <2>1 DEF Says, Asks
  <2>. QED
    BY <1>1, <2>1, <2>2 DEF Step
<1>7. ASSUME NEW p \in Peer, PerformFails(p) PROVE Goal
  BY <1>7, PerformFailsStep
<1>8. ASSUME NEW n, n \in Chan(x)', n.t = "blocks", n.to = Other(x), Answers(x, n), Grows PROVE Goal
  BY <1>8, AnswerRoutes
<1>9. ASSUME NEW n, n \in Chan(Other(x))', n.t = "want", n.from = Other(x) PROVE Goal
  BY <1>9 DEF Route, Asks
<1>10. ASSUME NEW p \in Peer, HandleWant(p) PROVE Goal
  <2>1. PICK h : h = Head(queue[p])
    OBVIOUS
  <2>2. /\ Step(p, h) /\ h.t = "want"
        /\ Shed \/ \E m \in Chan(p)' : m.t = "blocks" /\ m.to = h.from /\ Answers(p, m)
    BY <1>10, <2>1, HandleWantStep
  <2>3. ~ Says(c, x, h)
    BY <2>2 DEF Says
  <2>4. CASE Shed
    BY <2>4
  <2>5. CASE ~ Shed /\ p = x /\ Asks(x, h)
    BY <1>8, <2>2, <2>5 DEF Step, Asks
  <2>6. CASE ~ Shed /\ ~ (p = x /\ Asks(x, h))
    BY <2>2, <2>3, <2>6, RouteMoves DEF Step
  <2>. QED
    BY <2>4, <2>5, <2>6
<1>11. ASSUME NEW p \in Peer, HandleAnnounce(p) PROVE Goal
  <2>1. PICK h : h = Head(queue[p])
    OBVIOUS
  <2>2. /\ Step(p, h) /\ h.t = "announce"
        /\ h.r => Answered(p, h, h.heads \ log[p], Heads(log[p]) \ h.heads)
    BY <1>11, <2>1, HandleAnnounceStep
  <2>3. CASE Shed
    BY <2>3
  <2>4. CASE ~ Shed /\ p = Other(x) /\ Says(c, x, h) /\ h \in Chan(x)
    <3>1. h.heads \ log[p] # {}
      <4>1. h.heads \subseteq log[p] => Below(h.heads) \subseteq log[p]
        BY BelowIsIn DEF Sound
      <4>. QED
        BY <2>2, <2>4, <4>1 DEF Says
    <3>2. h.r
      BY <2>2, <2>4 DEF Says
    <3>3. \E m \in Chan(p)' : m.t = "want" /\ m.from = p
      BY <2>2, <2>4, <3>1, <3>2 DEF Answered
    <3>. QED
      BY <1>9, <2>4, <3>3
  <2>5. CASE ~ Shed /\ p = x /\ Asks(x, h)
    <3>1. h.r /\ h.from = Other(x) /\ h \in Chan(Other(x))
      <4>1. h \in In(p)
        BY <1>11, <2>1, TakingUp DEF Sound, HandleAnnounce, Task, In
      <4>. QED
        BY <1>0, <2>2, <2>5, <4>1 DEF Asks, Chan
    <3>2. h.heads \subseteq log[Other(x)]
      BY <1>0, <2>2, <3>1, SaidIsKnown
    <3>3. PICK k \in Heads(log[x]) : c = k \/ c \in Past(k)
      BY HeadsReach DEF Sound, Graph
    <3>4. k \notin h.heads
      BY <1>0, <3>2, <3>3 DEF Sound, Graph
    <3>5. Heads(log[p]) \ h.heads # {}
      BY <2>5, <3>3, <3>4
    <3>6. \E m \in Chan(p)' : m.t = "blocks" /\ m.to = h.from /\ Answers(p, m)
      BY <2>2, <2>5, <3>1, <3>5 DEF Answered
    <3>. QED
      BY <1>8, <2>2, <2>5, <3>1, <3>6 DEF Step
  <2>6. CASE ~ Shed /\ ~ (p = Other(x) /\ Says(c, x, h) /\ h \in Chan(x)) /\ ~ (p = x /\ Asks(x, h))
    BY <2>2, <2>6, RouteMoves DEF Step
  <2>. QED
    BY <2>3, <2>4, <2>5, <2>6
<1>12. ASSUME NEW p \in Peer, Applied(p) PROVE Goal
  <2>1. PICK h : h = doing[p]
    OBVIOUS
  <2>2. /\ Step(p, h) /\ h \in BlocksMsg
        /\ \/ Below(h.heads \cap h.blocks) \subseteq log'[p]
           \/ Shed \/ \E m \in Chan(p)' : m.t = "want" /\ m.from = p
    BY <1>12, <2>1, AppliedStep
  <2>3. ~ Asks(x, h)
    BY <2>2 DEF Asks, BlocksMsg
  <2>4. CASE Shed
    BY <2>4
  <2>5. CASE ~ Shed /\ p = Other(x) /\ Says(c, x, h)
    <3>1. c \in Below(h.heads \cap h.blocks)
      BY <2>2, <2>5 DEF Says, BlocksMsg
    <3>. QED
      BY <1>9, <2>2, <2>5, <3>1
  <2>6. CASE ~ Shed /\ ~ (p = Other(x) /\ Says(c, x, h))
    BY <2>2, <2>3, <2>6, RouteMoves DEF Step
  <2>. QED
    BY <2>4, <2>5, <2>6
<1>. QED
  BY <1>2, <1>3, <1>4, <1>5, <1>6, <1>7, <1>10, <1>11, <1>12 DEF OpsNext

-----------------------------------------------------------------------------
(* The repair: what either device lacks is on its way to it.               *)

Levelling == level => \A x \in Peer : \A c \in log[x] \ log[Other(x)] : Route(c, x)

\* Only a press or a start asks, and only what writes nothing leaves the level alone.
LEMMA LevelIs ==
  ASSUME Sound, Held, OpsNext, level'
  PROVE  /\ \/ level
            \/ \E p \in Peer : (Press(p) \/ Start(p)) /\ ~ Shed /\ Announce(p, TRUE) \in Chan(p)'
         /\ \A x \in Peer : log'[x] \subseteq log[x] \cup log[Other(x)]
<1>1. ~ Shed
  BY DEF Shed
<1>2. ASSUME NEW p \in Peer, Write(p) \/ Performed(p) \/ PerformFails(p) \/ SendFails(p) \/ Lose(p) PROVE FALSE
  BY <1>2 DEF Write, Performed, PerformFails, SendFails, Lose, Spoils
<1>3. ASSUME NEW p \in Peer, Applied(p) \/ HandleAnnounce(p) \/ HandleWant(p) \/ HandleBlocks(p) \/ HandleOp(p)
      PROVE  level
  <2>1. \A q \in Peer : \A C : Want(p, q, C).t # "announce" /\ Blocks(p, q, C).t # "announce"
    BY DEF Want, Blocks
  <2>2. \A H : [Announce(p, FALSE) EXCEPT !.heads = H].r = FALSE
    BY DEF Announce
  <2>3. CASE Applied(p)
    BY <2>2, <2>3 DEF Applied, Post, Want
  <2>4. CASE HandleAnnounce(p)
    BY <2>4 DEF HandleAnnounce, Post, Post2, Quietly, Spoils, Want, Blocks
  <2>5. CASE HandleWant(p)
    BY <2>5 DEF HandleWant, Post, Blocks
  <2>6. CASE HandleBlocks(p) \/ HandleOp(p)
    BY <2>6 DEF HandleBlocks, HandleOp, ghosts
  <2>. QED
    BY <1>3, <2>3, <2>4, <2>5, <2>6
<1>4. ASSUME NEW p \in Peer, SendResolves(p) \/ Deliver(p) \/ Overtake(p) \/ Flush(p) \/ ShipTask(p) \/ Stop(p) PROVE level
  <2>1. CASE SendResolves(p) \/ Overtake(p) \/ Stop(p)
    BY <2>1 DEF SendResolves, Overtake, Stop, ghosts
  <2>2. CASE Deliver(p)
    BY <2>2 DEF Deliver, Spoils
  <2>3. CASE Flush(p) \/ ShipTask(p)
    BY <2>3 DEF Flush, ShipTask, Ship, Post, Op
  <2>. QED
    BY <1>4, <2>1, <2>2, <2>3
<1>5. ASSUME NEW p \in Peer, Press(p) \/ Start(p) PROVE level \/ Announce(p, TRUE) \in Chan(p)'
  <2>1. CASE Start(p)
    BY <1>1, <2>1, StartStep
  <2>2. CASE Press(p)
    BY <1>1, <2>2, PressStep
  <2>. QED
    BY <1>5, <2>1, <2>2
<1>6. ASSUME NEW p \in Peer, Applied(p), NEW x \in Peer PROVE log'[x] \subseteq log[x] \cup log[Other(x)]
  BY <1>6, AppliedStep
<1>7. ASSUME NEW p \in Peer, ~ Applied(p), NEW x \in Peer,
             Press(p) \/ Flush(p) \/ ShipTask(p) \/ SendResolves(p) \/ Deliver(p) \/ Overtake(p)
             \/ HandleAnnounce(p) \/ HandleWant(p) \/ HandleBlocks(p) \/ HandleOp(p) \/ Stop(p) \/ Start(p)
      PROVE  log' = log
  BY <1>7 DEF Press, Flush, ShipTask, SendResolves, Deliver, Overtake, HandleAnnounce, HandleWant, HandleBlocks,
              HandleOp, Stop, Start, data
<1>8. PICK p \in Peer :
        \/ Write(p) \/ Press(p) \/ Flush(p) \/ ShipTask(p)
        \/ SendResolves(p) \/ SendFails(p) \/ Deliver(p) \/ Lose(p) \/ Overtake(p)
        \/ HandleAnnounce(p) \/ HandleWant(p) \/ HandleBlocks(p) \/ Applied(p)
        \/ HandleOp(p) \/ Performed(p) \/ PerformFails(p)
        \/ Stop(p) \/ Start(p)
  BY DEF OpsNext
<1>9. level \/ \E q \in Peer : (Press(q) \/ Start(q)) /\ ~ Shed /\ Announce(q, TRUE) \in Chan(q)'
  BY <1>1, <1>2, <1>3, <1>4, <1>5, <1>8
<1>10. \A x \in Peer : log'[x] \subseteq log[x] \cup log[Other(x)]
  <2>1. CASE Applied(p)
    BY <1>6, <2>1
  <2>2. CASE ~ Applied(p)
    BY <1>2, <1>7, <1>8, <2>2
  <2>. QED
    BY <2>1, <2>2
<1>. QED
  BY <1>9, <1>10

LEMMA LevellingNext == Sound /\ Held /\ Levelling /\ [OpsNext]_opsVars => Levelling'
<1>. SUFFICES ASSUME Sound, Held, Levelling, [OpsNext]_opsVars, level', NEW x \in Peer, NEW c \in log'[x], c \notin log'[Other(x)]
              PROVE  Route(c, x)'
  BY DEF Levelling
<1>0. Other(x) \in Peer /\ Other(Other(x)) = x /\ Peer = {x, Other(x)}
  BY TwoPeers
<1>1. CASE UNCHANGED opsVars
  <2>1. level /\ Route(c, x)
    BY <1>1 DEF Levelling, opsVars, data, ghosts
  <2>2. \A q \in Peer : Chan(q)' = Chan(q)
    BY <1>1 DEF Chan, Out, In, opsVars, control, carrier
  <2>3. \A L : Below(L)' = Below(L)
    BY <1>1 DEF Below, Past, opsVars, data
  <2>. QED
    BY <1>0, <2>1, <2>2, <2>3 DEF Route, Says, Asks
<1>2. CASE OpsNext
  <2>1. \A q \in Peer : log[q] \subseteq log'[q]
    BY <1>2, NextGrows DEF Grows
  <2>2. c \in log[x] /\ c \notin log[Other(x)]
    BY <1>0, <1>2, <2>1, LevelIs
  <2>3. ~ Shed
    BY DEF Shed
  <2>4. CASE level
    BY <1>2, <2>2, <2>3, <2>4, RouteStays DEF Levelling
  <2>5. CASE \E p \in Peer : (Press(p) \/ Start(p)) /\ Announce(p, TRUE) \in Chan(p)'
    <3>1. PICK p \in Peer : (Press(p) \/ Start(p)) /\ Announce(p, TRUE) \in Chan(p)'
      BY <2>5
    <3>2. PICK m : m = Announce(p, TRUE)
      OBVIOUS
    <3>3. /\ m.t = "announce" /\ m.r /\ m.from = p /\ m.heads = Heads(log[p]) /\ m \in Chan(p)'
      BY <3>1, <3>2, Saying
    <3>4. Grows
      BY <3>1, PressStep, StartStep DEF Step
    <3>5. CASE p = x
      <4>1. m.heads \in SUBSET Change /\ c \in Below(m.heads)
        BY <2>2, <3>3, <3>5, HeadsAre
      <4>2. c \in Below(m.heads)'
        BY <3>4, <4>1, BelowStays
      <4>. QED
        BY <3>3, <3>5, <4>2 DEF Route, Says
    <3>6. CASE p = Other(x)
      BY <3>3, <3>6 DEF Route, Asks
    <3>. QED
      BY <1>0, <3>5, <3>6
  <2>. QED
    BY <1>2, <2>4, <2>5, LevelIs
<1>. QED
  BY <1>1, <1>2

\* When all is quiet nothing is on its way to anybody.
LEMMA QuietIs ==
  ASSUME OpsTypeOK, Quiet, NEW p \in Peer
  PROVE  /\ Chan(p) = {Idle} /\ \A c : ~ Route(c, p)
         /\ ToSet(queue[p]) = {} /\ ToSet(pending[p]) = {} /\ ToSet(going[p]) = {} /\ doing[p] = Idle
<1>1. \A q \in Peer : Chan(q) = {Idle}
  BY TwoPeers DEF Quiet, Chan, Out, In, ToSet
<1>2. \A c : ~ Route(c, p)
  <2>1. \A c : ~ Says(c, p, Idle) /\ ~ Asks(p, Idle)
    BY DEF Says, Asks, Idle
  <2>. QED
    BY <1>1, <2>1, TwoPeers DEF Route
<1>. QED
  BY <1>1, <1>2 DEF Quiet, ToSet

\* Whatever was lost, overlooked or refused: a reconciliation that ran its course leaves
\* both devices with the same log (announce() of courier-sync.js with nothing waiting).
THEOREM RepairEnds == OpsSpec => []RepairConverges
<1>1. OpsInit => Sound /\ Held /\ Levelling
  BY StartsSound, HeldStarts DEF OpsInit, Levelling
<1>2. Sound /\ Held /\ Levelling /\ [OpsNext]_opsVars => (Sound /\ Held /\ Levelling)'
  BY SoundNext, HeldNext, LevellingNext
<1>3. Sound /\ Levelling => RepairConverges
  <2>. SUFFICES ASSUME Sound, Levelling, Quiet, level, NEW p \in Peer, NEW q \in Peer PROVE log[p] = log[q]
    BY DEF RepairConverges
  <2>1. \A x \in Peer : log[x] \subseteq log[Other(x)]
    BY QuietIs DEF Sound, Levelling
  <2>. QED
    BY <2>1, TwoPeers
<1>. QED
  BY <1>1, <1>2, <1>3, PTL DEF OpsSpec

-----------------------------------------------------------------------------
(* The changes: each that was noticed is at the other device, or on its    *)
(* way, as long as nothing was lost.                                       *)

Waits(a, c) == Ships(a, c) \/ c \in ToSet(pending[a]) \/ c \in ToSet(going[a])

Arrives(c) == LET a == entries[c].by IN
  Has(Other(a), c) \/ Waits(a, c) \/ Op(c) \in Chan(a) \/ Route(c, a)

\* A change that is remembered is there, or being performed.
Arriving == ~ spoiled =>
  /\ \A c \in Writes \ overlooked : Arrives(c)
  /\ \A p \in Peer : \A c \in ToSet(seen[p]) : Has(p, c) \/ doing[p] = Op(c)

LEMMA HasStays ==
  ASSUME Sound, Grows, NEW p \in Peer, NEW c PROVE Has(p, c) => Has(p, c)'
BY DEF Has, Sound, Graph, Grows

LEMMA OpIs == \A m \in OpMsg : m = Op(m.id)
BY DEF OpMsg, Op

\* What waits to be shipped waits on, or is an operation then.
LEMMA WaitingStays ==
  ASSUME Sound, Held, OpsNext, NEW a \in Peer, NEW c \in Nat, Waits(a, c)
  PROVE  Waits(a, c)' \/ Op(c) \in Chan(a)' \/ Announce(a, TRUE) \in Chan(a)' \/ Shed
<1>. DEFINE Goal == Waits(a, c)' \/ Op(c) \in Chan(a)' \/ Announce(a, TRUE) \in Chan(a)' \/ Shed
<1>0. OpsTypeOK /\ queue \in [Peer -> Seq(Work)]
  BY DEF Sound, OpsTypeOK
<1>1. ASSUME \A q \in Peer : ToSet(queue[q]) \subseteq ToSet(queue'[q]), pending' = pending, going' = going PROVE Goal
  BY <1>1 DEF Waits, Ships
<1>2. ASSUME NEW p \in Peer, Write(p) PROVE Goal
  <2>1. PICK e : e = Len(entries) + 1
    OBVIOUS
  <2>2. /\ ToSet(pending[a]) \subseteq ToSet(pending'[a]) /\ ToSet(queue[a]) \subseteq ToSet(queue'[a])
        /\ going'[a] = going[a]
    BY <1>2, <2>1, WriteStep
  <2>. QED
    BY <2>2 DEF Waits, Ships
<1>3. ASSUME NEW p \in Peer, Performed(p) \/ PerformFails(p) \/ Applied(p) \/ SendResolves(p) \/ SendFails(p)
                             \/ Lose(p) \/ Overtake(p) \/ Stop(p) \/ Start(p)
      PROVE  Goal
  <2>1. queue' = queue /\ pending' = pending /\ going' = going
    BY <1>3 DEF Performed, PerformFails, Applied, SendResolves, SendFails, Lose, Overtake, Stop, Start, control
  <2>. QED
    BY <1>1, <2>1
<1>4. ASSUME NEW p \in Peer, Deliver(p) PROVE Goal
  <2>1. pending' = pending /\ going' = going /\ air[p] # <<>> /\ air[p] \in Seq(Msg)
        /\ queue' = IF started[p] THEN [queue EXCEPT ![p] = Append(queue[p], Head(air[p]))] ELSE queue
    BY <1>4 DEF Deliver, Received, Sound, OpsTypeOK
  <2>2. Head(air[p]) \in Work
    BY <2>1, Taking, Kinds
  <2>3. ToSet(Append(queue[p], Head(air[p]))) = ToSet(queue[p]) \cup {Head(air[p])}
    BY <1>0, <2>2, Appending
  <2>. QED
    BY <1>0, <1>1, <2>1, <2>3
<1>5. ASSUME NEW p \in Peer, Taken(p), queue[p] # <<>>, Head(queue[p]).t # "ship", pending' = pending, going' = going
      PROVE  Goal
  <2>1. ToSet(queue[p]) = {Head(queue[p])} \cup ToSet(Tail(queue[p]))
    BY <1>0, <1>5, Taking
  <2>2. queue'[p] = Tail(queue[p]) /\ \A q \in Peer \ {p} : queue'[q] = queue[q]
    BY <1>0, <1>5 DEF Taken
  <2>3. [t |-> "ship", id |-> c] # Head(queue[p])
    BY <1>5
  <2>. QED
    BY <1>5, <2>1, <2>2, <2>3 DEF Waits, Ships
<1>6. ASSUME NEW p \in Peer, HandleAnnounce(p) \/ HandleWant(p) \/ HandleBlocks(p) \/ HandleOp(p) PROVE Goal
  <2>1. Taken(p) /\ queue[p] # <<>> /\ Head(queue[p]).t # "ship" /\ pending' = pending /\ going' = going
    BY <1>6 DEF HandleAnnounce, HandleWant, HandleBlocks, HandleOp, Task
  <2>. QED
    BY <1>5, <2>1
<1>7. ASSUME NEW p \in Peer, ShipTask(p) PROVE Goal
  <2>1. pending' = pending /\ going' = going
    BY <1>7 DEF ShipTask
  <2>2. PICK d : d = Head(queue[p]).id
    OBVIOUS
  <2>3. /\ Shed \/ Op(d) \in Chan(p)'
        /\ [t |-> "ship", id |-> c] \in ToSet(queue[a]) => [t |-> "ship", id |-> c] \in ToSet(queue'[a]) \/ (a = p /\ c = d)
    BY <1>7, <2>2, ShipTaskStep
  <2>. QED
    BY <2>1, <2>3 DEF Waits, Ships
<1>8. ASSUME NEW p \in Peer, Flush(p) PROVE Goal
  <2>1. PICK d : d = Head(going[p])
    OBVIOUS
  <2>2. /\ Shed \/ Op(d) \in Chan(p)'
        /\ c \in ToSet(going[a]) => c \in ToSet(going'[a]) \/ (a = p /\ c = d)
    BY <1>8, <2>1, FlushStep
  <2>3. queue' = queue /\ pending' = pending
    BY <1>8, FlushStep
  <2>. QED
    BY <2>2, <2>3 DEF Waits, Ships
<1>9. ASSUME NEW p \in Peer, Press(p) PROVE Goal
  BY <1>9, PressStep DEF Waits, Ships
<1>. QED
  BY <1>2, <1>3, <1>4, <1>6, <1>7, <1>8, <1>9 DEF OpsNext

\* An operation under way goes on, or the other device has performed it.
LEMMA OpStays ==
  ASSUME Sound, Held, Arriving, OpsNext, ~ spoiled, NEW a \in Peer, NEW c \in Writes, Op(c) \in Chan(a)
  PROVE  Op(c) \in Chan(a)' \/ Has(Other(a), c)' \/ Shed
<1>. DEFINE Goal == Op(c) \in Chan(a)' \/ Has(Other(a), c)' \/ Shed
<1>0. /\ Other(a) \in Peer /\ Other(Other(a)) = a /\ Peer = {a, Other(a)}
      /\ Op(c).t = "op" /\ Op(c).id = c /\ Op(c) # Idle
  BY TwoPeers DEF Op, Idle
<1>1. ASSUME NEW p \in Peer, NEW h, Moves(p, h), ~ (p = Other(a) /\ h = Op(c)) PROVE Goal
  <2>1. Op(c).t \in Kind
    BY <1>0 DEF Kind
  <2>2. a = Other(p) => p = Other(a)
    BY TwoPeers
  <2>. QED
    BY <1>0, <1>1, <2>1, <2>2 DEF Moves, Answers, IsReply
<1>2. ASSUME NEW p \in Peer, Write(p) PROVE Goal
  <2>1. PICK e : e = Len(entries) + 1
    OBVIOUS
  <2>2. Moves(p, Idle)
    BY <1>2, <2>1, WriteStep
  <2>. QED
    BY <1>0, <1>1, <2>2
<1>3. ASSUME NEW p \in Peer, Performed(p) PROVE Goal
  <2>1. PICK e : e = Len(entries) + 1
    OBVIOUS
  <2>2. Moves(p, doing[p]) /\ e \in log'[p] /\ entries'[e].change = doing[p].id
    BY <1>3, <2>1, PerformedStep
  <2>. QED
    BY <1>0, <1>1, <2>2 DEF Has
<1>4. ASSUME NEW p \in Peer, SendResolves(p) \/ SendFails(p) \/ Deliver(p) \/ Lose(p) \/ Overtake(p) PROVE Goal
  <2>1. Carried(p)
    BY <1>4, SendResolvesStep, SendFailsStep, DeliverStep, LoseStep, OvertakeStep
  <2>. QED
    BY <1>0, <1>1, <2>1 DEF Carried
<1>5. ASSUME NEW p \in Peer, Press(p) \/ Flush(p) \/ Stop(p) \/ Start(p) \/ HandleBlocks(p) PROVE Goal
  <2>1. Step(p, Idle)
    BY <1>5, PressStep, FlushStep, StopStep, StartStep, HandleBlocksStep
  <2>. QED
    BY <1>0, <1>1, <2>1 DEF Step
<1>6. ASSUME NEW p \in Peer, ShipTask(p) \/ HandleWant(p) \/ HandleAnnounce(p) PROVE Goal
  <2>1. Step(p, Head(queue[p])) /\ Head(queue[p]).t # "op"
    BY <1>6, ShipTaskStep, HandleWantStep, HandleAnnounceStep DEF ShipTask, Task
  <2>. QED
    BY <1>0, <1>1, <2>1 DEF Step
<1>7. ASSUME NEW p \in Peer, PerformFails(p) PROVE Goal
  BY <1>7, PerformFailsStep
<1>8. ASSUME NEW p \in Peer, Applied(p) PROVE Goal
  <2>1. Step(p, doing[p]) /\ doing[p].t # "op"
    BY <1>8, AppliedStep DEF BlocksMsg
  <2>. QED
    BY <1>0, <1>1, <2>1 DEF Step
<1>9. ASSUME NEW p \in Peer, HandleOp(p) PROVE Goal
  <2>1. PICK h : h = Head(queue[p])
    OBVIOUS
  <2>2. /\ Step(p, h) /\ doing[p] = Idle /\ doing' = (IF Known(p, h.id) THEN doing ELSE [doing EXCEPT ![p] = h])
    BY <1>9, <2>1, HandleOpStep
  <2>3. CASE ~ (p = Other(a) /\ h = Op(c))
    BY <1>1, <2>2, <2>3 DEF Step
  <2>4. CASE p = Other(a) /\ h = Op(c) /\ Known(p, c)
    <3>1. Has(p, c)
      BY <1>0, <2>2, <2>4 DEF Arriving, Known
    <3>. QED
      BY <2>2, <2>4, <3>1, HasStays DEF Step
  <2>5. CASE p = Other(a) /\ h = Op(c) /\ ~ Known(p, c)
    <3>1. doing'[p] = Op(c)
      BY <1>0, <2>2, <2>5 DEF Sound, OpsTypeOK
    <3>. QED
      BY <2>5, <3>1 DEF Chan, In
  <2>. QED
    BY <2>3, <2>4, <2>5
<1>. QED
  BY <1>2, <1>3, <1>4, <1>5, <1>6, <1>7, <1>8, <1>9 DEF OpsNext

LEMMA SpoiledStays ==
  ASSUME OpsNext PROVE (spoiled => spoiled') /\ overlooked \subseteq overlooked'
<1>1. ASSUME NEW p \in Peer, Write(p) \/ Performed(p) \/ PerformFails(p) \/ SendFails(p) \/ Lose(p) \/ Deliver(p)
      PROVE  (spoiled => spoiled') /\ overlooked \subseteq overlooked'
  <2>1. CASE Write(p)
    <3>1. spoiled' = (spoiled \/ ~ started[p])
      BY <2>1 DEF Write
    <3>2. overlooked \subseteq overlooked'
      BY <2>1 DEF Write
    <3>. QED
      BY <3>1, <3>2
  <2>2. CASE Performed(p)
    BY <2>2 DEF Performed
  <2>3. CASE PerformFails(p) \/ SendFails(p) \/ Lose(p)
    BY <2>3 DEF PerformFails, SendFails, Lose, Spoils
  <2>4. CASE Deliver(p)
    <3>1. overlooked' = overlooked /\ spoiled' = (spoiled \/ ~ started[p])
      BY <2>4 DEF Deliver, Spoils
    <3>. QED
      BY <3>1
  <2>. QED
    BY <1>1, <2>1, <2>2, <2>3, <2>4
<1>2. ASSUME NEW p \in Peer, HandleAnnounce(p) \/ HandleWant(p) \/ Applied(p) \/ Press(p) \/ Start(p) \/ Flush(p) \/ ShipTask(p)
      PROVE  (spoiled => spoiled') /\ overlooked \subseteq overlooked'
  <2>1. overlooked' = overlooked
    BY <1>2 DEF HandleAnnounce, HandleWant, Applied, Press, Start, Flush, ShipTask
  <2>2. CASE HandleAnnounce(p)
    BY <2>1, <2>2 DEF HandleAnnounce, Post, Post2, Spoils, Quietly
  <2>3. CASE HandleWant(p) \/ Applied(p)
    BY <2>1, <2>3 DEF HandleWant, Applied, Post
  <2>4. CASE Press(p) \/ Start(p) \/ Flush(p) \/ ShipTask(p)
    BY <2>1, <2>4 DEF Press, Start, Flush, ShipTask, Ship, Post, Quietly
  <2>. QED
    BY <1>2, <2>2, <2>3, <2>4
<1>3. ASSUME NEW p \in Peer, SendResolves(p) \/ Overtake(p) \/ HandleBlocks(p) \/ HandleOp(p) \/ Stop(p)
      PROVE  (spoiled => spoiled') /\ overlooked \subseteq overlooked'
  BY <1>3 DEF SendResolves, Overtake, HandleBlocks, HandleOp, Stop, ghosts
<1>. QED
  BY <1>1, <1>2, <1>3 DEF OpsNext

\* What a device ships it wrote, and has.
LEMMA MineIsThere ==
  ASSUME Sound, NEW p \in Peer, NEW c, Mine(p, c) PROVE Has(p, c) /\ c \in log[p] /\ c \in Nat
BY EntriesAre DEF Sound, Graph, Mine, Has, Writes, Change

\* What is performed is awaited until it is there.
LEMMA DoingStays ==
  ASSUME Sound, Held, OpsNext, NEW p \in Peer, NEW c, doing[p] = Op(c)
  PROVE  doing'[p] = Op(c) \/ Has(p, c)' \/ Shed
<1>0. doing[p] # Idle /\ doing[p].t = "op" /\ doing[p].id = c /\ doing \in [Peer -> Msg \cup {Idle}]
  BY DEF Op, Idle, Sound, OpsTypeOK
<1>1. ASSUME NEW q \in Peer, Performed(q) PROVE doing'[p] = Op(c) \/ Has(p, c)'
  <2>1. PICK e : e = Len(entries) + 1
    OBVIOUS
  <2>2. /\ \A r \in Peer \ {q} : doing'[r] = doing[r]
        /\ e \in log'[q] /\ entries'[e].change = doing[q].id
    BY <1>1, <2>1, PerformedStep
  <2>. QED
    BY <1>0, <2>2 DEF Has
<1>2. ASSUME NEW q \in Peer, PerformFails(q) PROVE Shed
  BY <1>2, PerformFailsStep
<1>3. ASSUME NEW q \in Peer, Applied(q) PROVE doing'[p] = Op(c)
  BY <1>0, <1>3 DEF Applied
<1>4. ASSUME NEW q \in Peer, HandleBlocks(q) \/ HandleOp(q) PROVE doing'[p] = Op(c)
  BY <1>0, <1>4 DEF HandleBlocks, HandleOp, Task
<1>5. ASSUME NEW q \in Peer, Write(q) \/ Press(q) \/ Flush(q) \/ ShipTask(q) \/ SendResolves(q) \/ SendFails(q) \/ Deliver(q)
                             \/ Lose(q) \/ Overtake(q) \/ HandleAnnounce(q) \/ HandleWant(q) \/ Stop(q) \/ Start(q)
      PROVE  doing' = doing
  BY <1>5 DEF Write, Press, Flush, ShipTask, SendResolves, SendFails, Deliver, Lose, Overtake, HandleAnnounce,
              HandleWant, Stop, Start, control
<1>. QED
  BY <1>1, <1>2, <1>3, <1>4, <1>5 DEF OpsNext

\* What is newly remembered is there, or about to be performed.
LEMMA SeenIs ==
  ASSUME Sound, Held, OpsNext, NEW p \in Peer, NEW c \in ToSet(seen'[p]), c \notin ToSet(seen[p])
  PROVE  doing'[p] = Op(c) \/ Has(p, c)
<1>0. OpsTypeOK /\ Graph
  BY DEF Sound
<1>1. ASSUME NEW q \in Peer, NEW d \in Nat, Remember(q, d) PROVE q = p /\ d = c
  BY <1>0, <1>1, Remembering
<1>2. ASSUME NEW q \in Peer, ShipTask(q) \/ Flush(q) PROVE Has(p, c)
  <2>1. PICK d : Mine(q, d) /\ Remember(q, d)
    BY <1>2, ShipTaskStep, FlushStep
  <2>2. Has(q, d) /\ d \in Nat
    BY <2>1, MineIsThere
  <2>. QED
    BY <1>1, <2>1, <2>2
<1>3. ASSUME NEW q \in Peer, HandleOp(q) PROVE doing'[p] = Op(c)
  <2>1. PICK h : h = Head(queue[q])
    OBVIOUS
  <2>2. /\ h \in OpMsg /\ Remember(q, h.id)
        /\ doing' = IF Known(q, h.id) THEN doing ELSE [doing EXCEPT ![q] = h]
    BY <1>3, <2>1, HandleOpStep
  <2>3. h = Op(h.id) /\ h.id \in Nat
    BY <2>2, OpIs DEF OpMsg
  <2>4. q = p /\ h.id = c
    BY <1>1, <2>2, <2>3
  <2>5. doing'[p] = h
    BY <1>0, <2>2, <2>4 DEF Known, OpsTypeOK
  <2>. QED
    BY <2>3, <2>4, <2>5
<1>4. ASSUME NEW q \in Peer, Write(q) \/ Press(q) \/ SendResolves(q) \/ SendFails(q) \/ Deliver(q) \/ Applied(q)
                             \/ Performed(q) \/ PerformFails(q) \/ HandleBlocks(q)
                             \/ Lose(q) \/ Overtake(q) \/ HandleAnnounce(q) \/ HandleWant(q) \/ Stop(q) \/ Start(q)
      PROVE  seen' = seen
  BY <1>4 DEF Write, Press, Applied, Performed, PerformFails, HandleBlocks, SendResolves, SendFails, Deliver, Lose,
              Overtake, HandleAnnounce, HandleWant, Stop, Start, control
<1>. QED
  BY <1>2, <1>3, <1>4 DEF OpsNext

LEMMA ArrivingNext == Sound /\ Held /\ Arriving /\ [OpsNext]_opsVars => Arriving'
<1>. SUFFICES ASSUME Sound, Held, Arriving, [OpsNext]_opsVars, ~ spoiled' PROVE Arriving'
  BY DEF Arriving
<1>1. CASE UNCHANGED opsVars
  <2>1. UNCHANGED <<entries, log, overlooked, spoiled, pending, going, queue, seen, doing, sending, outbox, air>>
    BY <1>1 DEF opsVars, data, control, carrier, ghosts
  <2>2. \A q \in Peer : Chan(q)' = Chan(q)
    BY <2>1 DEF Chan, Out, In
  <2>3. \A L : Below(L)' = Below(L)
    BY <2>1 DEF Below, Past
  <2>4. \A q \in Peer : \A c : Has(q, c)' = Has(q, c)
    BY <2>1 DEF Has
  <2>5. \A q \in Peer : \A c : Route(c, q) => Route(c, q)'
    BY <2>2, <2>3, TwoPeers DEF Route, Says, Asks
  <2>6. \A q \in Peer : \A c : Waits(q, c)' = Waits(q, c)
    BY <2>1 DEF Waits, Ships
  <2>7. Writes' = Writes /\ \A c \in Writes : entries[c].by \in Peer
    BY <2>1, EntriesAre DEF Writes, Sound
  <2>8. \A c \in Writes : Arrives(c) => Arrives(c)'
    BY <2>1, <2>2, <2>4, <2>5, <2>6, <2>7, TwoPeers DEF Arrives
  <2>. QED
    BY <2>1, <2>4, <2>7, <2>8 DEF Arriving
<1>2. CASE OpsNext
  <2>0. ~ spoiled /\ ~ Shed /\ Grows /\ overlooked \subseteq overlooked'
    BY <1>2, SpoiledStays, NextGrows DEF Shed
  <2>1. ASSUME NEW c \in Writes, c \notin overlooked PROVE Arrives(c)'
    <3>1. PICK a \in Peer : a = entries[c].by
      BY EntriesAre DEF Sound
    <3>2. c \in Change /\ entries'[c].by = a /\ entries'[c].change = c /\ c \in log[a] /\ c \in Nat
      BY <2>0, <3>1, EntriesAre DEF Sound, Graph, Grows, Writes, Change
    <3>3. Other(a) \in Peer
      BY TwoPeers
    <3>4. Has(Other(a), c) \/ Waits(a, c) \/ Op(c) \in Chan(a) \/ Route(c, a)
      BY <2>0, <2>1, <3>1 DEF Arriving, Arrives
    <3>5. ASSUME Has(Other(a), c)' \/ Waits(a, c)' \/ Op(c) \in Chan(a)' \/ Route(c, a)' PROVE Arrives(c)'
      BY <3>2, <3>5 DEF Arrives
    <3>6. CASE Has(Other(a), c)
      BY <2>0, <3>3, <3>5, <3>6, HasStays
    <3>7. CASE Op(c) \in Chan(a)
      BY <1>2, <2>0, <2>1, <3>5, <3>7, OpStays
    <3>8. CASE Route(c, a) /\ ~ Has(Other(a), c)
      <4>1. c \notin log[Other(a)]
        BY <2>1, <3>8 DEF Has, Writes
      <4>2. Route(c, a)' \/ c \in log'[Other(a)]
        BY <1>2, <2>0, <3>2, <3>8, <4>1, RouteStays
      <4>. QED
        BY <3>2, <3>5, <4>2 DEF Has
    <3>9. CASE Waits(a, c)
      <4>1. Waits(a, c)' \/ Op(c) \in Chan(a)' \/ Announce(a, TRUE) \in Chan(a)'
        BY <1>2, <2>0, <3>2, <3>9, WaitingStays
      <4>2. CASE Announce(a, TRUE) \in Chan(a)'
        <5>1. PICK m : m = Announce(a, TRUE)
          OBVIOUS
        <5>2. /\ m.t = "announce" /\ m.r /\ m.from = a /\ m.heads = Heads(log[a]) /\ m \in Chan(a)'
          BY <4>2, <5>1, Saying
        <5>3. m.heads \in SUBSET Change /\ c \in Below(m.heads)
          BY <3>2, <5>2, HeadsAre
        <5>4. c \in Below(m.heads)'
          BY <2>0, <5>3, BelowStays
        <5>5. Route(c, a)'
          BY <5>2, <5>4 DEF Route, Says
        <5>. QED
          BY <3>5, <5>5
      <4>. QED
        BY <3>5, <4>1, <4>2
    <3>. QED
      BY <3>4, <3>6, <3>7, <3>8, <3>9
  <2>2. ASSUME NEW c \in Writes' \ overlooked', c \notin Writes PROVE Arrives(c)'
    <3>1. PICK p \in Peer : Write(p)
      <4>1. ASSUME NEW p \in Peer, ~ Write(p),
                   \/ Press(p) \/ Flush(p) \/ ShipTask(p)
                   \/ SendResolves(p) \/ SendFails(p) \/ Deliver(p) \/ Lose(p) \/ Overtake(p)
                   \/ HandleAnnounce(p) \/ HandleWant(p) \/ HandleBlocks(p) \/ Applied(p)
                   \/ HandleOp(p) \/ PerformFails(p) \/ Stop(p) \/ Start(p)
            PROVE  Writes' = Writes
        <5>1. entries' = entries
          BY <4>1 DEF Press, Flush, ShipTask, SendResolves, SendFails, Deliver, Lose, Overtake, HandleAnnounce,
                      HandleWant, HandleBlocks, Applied, HandleOp, PerformFails, Stop, Start, data
        <5>. QED
          BY <5>1 DEF Writes
      <4>2. ASSUME NEW p \in Peer, Performed(p) PROVE Writes' = Writes
        BY <4>2, PerformedStep
      <4>. QED
        BY <1>2, <2>2, <4>1, <4>2 DEF OpsNext
    <3>2. PICK e : e = Len(entries) + 1
      OBVIOUS
    <3>3. /\ Writes' = Writes \cup {e} /\ entries'[e].by = p
          /\ spoiled' \/ e \in overlooked' \/ Ships(p, e)' \/ e \in ToSet(pending'[p])
      BY <3>1, <3>2, WriteStep
    <3>4. c = e
      BY <2>2, <3>3
    <3>5. Waits(p, c)' /\ entries'[c].by = p
      BY <2>2, <3>3, <3>4 DEF Waits
    <3>. QED
      BY <3>5 DEF Arrives
  <2>3. ASSUME NEW p \in Peer, NEW c \in ToSet(seen'[p]) PROVE Has(p, c)' \/ doing'[p] = Op(c)
    <3>1. CASE c \in ToSet(seen[p])
      <4>1. Has(p, c) \/ doing[p] = Op(c)
        BY <2>0, <3>1 DEF Arriving
      <4>. QED
        BY <1>2, <2>0, <4>1, HasStays, DoingStays
    <3>2. CASE c \notin ToSet(seen[p])
      BY <1>2, <2>0, <2>3, <3>2, SeenIs, HasStays
    <3>. QED
      BY <3>1, <3>2
  <2>. QED
    BY <2>0, <2>1, <2>2, <2>3 DEF Arriving
<1>. QED
  BY <1>1, <1>2

\* Nothing being lost on the way, every change that was noticed is at both devices when
\* all is quiet, one by one or in a batch too long for that (flushOperations()).
THEOREM ChangesComeThrough == OpsSpec => []ChangesArrive
<1>1. OpsInit => Sound /\ Held /\ Arriving
  <2>. SUFFICES ASSUME OpsInit PROVE Sound /\ Held /\ Arriving
    OBVIOUS
  <2>1. Writes = {} /\ \A p \in Peer : ToSet(seen[p]) = {}
    BY DEF OpsInit, Writes, ToSet
  <2>. QED
    BY <2>1, StartsSound, HeldStarts DEF Arriving
<1>2. Sound /\ Held /\ Arriving /\ [OpsNext]_opsVars => (Sound /\ Held /\ Arriving)'
  BY SoundNext, HeldNext, ArrivingNext
<1>3. Sound /\ Arriving => ChangesArrive
  <2>. SUFFICES ASSUME Sound, Arriving, Quiet, ~ spoiled, NEW p \in Peer, NEW c \in Writes \ overlooked PROVE Has(p, c)
    BY DEF ChangesArrive
  <2>1. PICK a \in Peer : a = entries[c].by
    BY EntriesAre DEF Sound
  <2>2. Has(a, c)
    BY <2>1, MineIsThere DEF Mine
  <2>3. Has(Other(a), c)
    <3>1. Op(c) \notin Chan(a) /\ ~ Route(c, a) /\ ~ Waits(a, c)
      BY QuietIs DEF Sound, Op, Idle, Waits, Ships
    <3>. QED
      BY <2>1, <3>1 DEF Arriving, Arrives
  <2>. QED
    BY <2>2, <2>3, TwoPeers
<1>. QED
  BY <1>1, <1>2, <1>3, PTL DEF OpsSpec

-----------------------------------------------------------------------------
(* A change is performed once: whoever wrote or performed it remembers it,  *)
(* as long as no change has to be forgotten.                               *)

Distinct(s) == \A i, j \in 1..Len(s) : s[i] = s[j] => i = j

SeenOK  == \A p \in Peer : Distinct(seen[p]) /\ ToSet(seen[p]) \subseteq Writes
SaidOK  == \A m \in All : m.t = "op" => Known(entries[m.id].by, m.id)
MadeOK  == \A e \in Change : entries[e].change # e =>
             /\ Known(entries[e].by, entries[e].change)
             /\ entries[entries[e].change].by # entries[e].by
DoingOK == \A p \in Peer : doing[p].t = "op" =>
             /\ Known(p, doing[p].id) /\ entries[doing[p].id].by # p
             /\ \A e \in Change : entries[e].by = p => entries[e].change # doing[p].id
Once    == \A e, f \in Change : e # f /\ entries[e].by = entries[f].by => entries[e].change # entries[f].change

Enough == Cardinality(Writes) <= SeenOps
Unique == Enough => SeenOK /\ SaidOK /\ MadeOK /\ DoingOK /\ Once

\* A list without repetition is shorter than a set that holds it and more.
LEMMA ShorterThan ==
  ASSUME NEW S, IsFiniteSet(S), NEW s \in Seq(S), Distinct(s), NEW x \in S, x \notin ToSet(s)
  PROVE  Len(s) < Cardinality(S)
<1>1. Len(s) \in Nat /\ DOMAIN s = 1..Len(s) /\ s \in [1..Len(s) -> S]
  BY LenProperties
<1>2. PICK T : T = ToSet(s)
  OBVIOUS
<1>3. s \in [1..Len(s) -> T] /\ T \subseteq S
  BY <1>1, <1>2 DEF ToSet
<1>4. s \in Injection(1..Len(s), T)
  <2>1. IsInjective(s)
    BY <1>1 DEF IsInjective, Distinct
  <2>. QED
    BY <1>3, <2>1 DEF Injection
<1>5. s \in Surjection(1..Len(s), T)
  <2>1. \A t \in T : \E i \in 1..Len(s) : s[i] = t
    BY <1>1, <1>2 DEF ToSet
  <2>. QED
    BY <1>3, <2>1 DEF Surjection
<1>6. Cardinality(T) = Len(s)
  <2>1. ExistsBijection(1..Len(s), T)
    BY <1>4, <1>5 DEF ExistsBijection, Bijection
  <2>. QED
    BY <1>1, <2>1, FS_CountingElements
<1>7. IsFiniteSet(S \ {x}) /\ Cardinality(S \ {x}) = Cardinality(S) - 1 /\ Cardinality(S) \in Nat
  BY FS_RemoveElement, FS_CardinalityType
<1>8. T \in SUBSET (S \ {x})
  BY <1>2, <1>3
<1>9. Cardinality(T) <= Cardinality(S \ {x})
  BY <1>7, <1>8, FS_Subset
<1>. QED
  BY <1>1, <1>6, <1>7, <1>9

\* Nothing is forgotten.
LEMMA SeenGrows ==
  ASSUME Sound, Held, OpsNext, SeenOK, Enough, NEW p \in Peer
  PROVE  seen'[p] = seen[p] \/ \E c \in Writes : c \notin ToSet(seen[p]) /\ seen'[p] = Append(seen[p], c)
<1>0. OpsTypeOK /\ IsFiniteSet(Writes) /\ Writes \subseteq Nat /\ Cardinality(Writes) \in Nat /\ SeenOps \in Nat
      /\ seen[p] \in Seq(Nat)
  <2>1. OpsTypeOK /\ IsFiniteSet(Writes) /\ Writes \subseteq Nat
    BY EntriesAre DEF Sound
  <2>2. Cardinality(Writes) \in Nat
    BY <2>1, FS_CardinalityType
  <2>. QED
    BY <2>1, <2>2, OpsAssumption DEF OpsTypeOK
<1>1. ASSUME NEW q \in Peer, NEW c \in Writes, Remember(q, c)
      PROVE  seen'[p] = seen[p] \/ (c \notin ToSet(seen[p]) /\ seen'[p] = Append(seen[p], c))
  <2>1. CASE q # p \/ Known(q, c)
    BY <1>0, <1>1, <2>1, Remembering
  <2>2. CASE q = p /\ ~ Known(q, c)
    <3>1. seen[p] \in Seq(Writes) /\ Distinct(seen[p]) /\ c \notin ToSet(seen[p])
      <4>1. ToSet(seen[p]) \subseteq Writes /\ Distinct(seen[p]) /\ c \notin ToSet(seen[p])
        BY <2>2 DEF SeenOK, Known
      <4>2. \A i \in 1..Len(seen[p]) : seen[p][i] \in Writes
        BY <1>0, <4>1, LenProperties DEF ToSet
      <4>. QED
        BY <1>0, <4>1, <4>2, LenProperties
    <3>2. Len(seen[p]) < Cardinality(Writes) /\ Len(seen[p]) \in Nat
      BY <1>0, <3>1, ShorterThan, LenProperties
    <3>3. Len(seen[p]) < SeenOps
      BY <1>0, <3>2 DEF Enough
    <3>. QED
      BY <1>0, <1>1, <2>2, <3>1, <3>3, Remembering
  <2>. QED
    BY <2>1, <2>2
<1>2. ASSUME NEW q \in Peer, ShipTask(q) \/ Flush(q) PROVE \E c \in Writes : Remember(q, c)
  BY <1>2, ShipTaskStep, FlushStep DEF Mine
<1>3. ASSUME NEW q \in Peer, HandleOp(q) PROVE \E c \in Writes : Remember(q, c)
  <2>1. PICK h : h \in ToSet(queue[q]) /\ h \in OpMsg /\ Remember(q, h.id)
    BY <1>3, HandleOpStep
  <2>2. h.id \in Writes
    BY <2>1 DEF Sound, Honest, HonestIs, In, OpMsg
  <2>. QED
    BY <2>1, <2>2
<1>4. ASSUME NEW q \in Peer, Write(q) \/ Press(q) \/ SendResolves(q) \/ SendFails(q) \/ Deliver(q) \/ Applied(q)
                             \/ Performed(q) \/ PerformFails(q) \/ HandleBlocks(q)
                             \/ Lose(q) \/ Overtake(q) \/ HandleAnnounce(q) \/ HandleWant(q) \/ Stop(q) \/ Start(q)
      PROVE  seen' = seen
  BY <1>4 DEF Write, Press, Applied, Performed, PerformFails, HandleBlocks, SendResolves, SendFails, Deliver, Lose,
              Overtake, HandleAnnounce, HandleWant, Stop, Start, control
<1>. QED
  BY <1>1, <1>2, <1>3, <1>4 DEF OpsNext

LEMMA SeenOKNext ==
  ASSUME Sound, Held, OpsNext, SeenOK, Enough
  PROVE  SeenOK' /\ \A p \in Peer : \A c : Known(p, c) => Known(p, c)'
<1>0. Grows /\ seen \in [Peer -> Seq(Nat)] /\ Writes \subseteq Nat
  BY NextGrows, EntriesAre DEF Sound, OpsTypeOK
<1>1. ASSUME NEW p \in Peer PROVE Distinct(seen'[p]) /\ ToSet(seen[p]) \subseteq ToSet(seen'[p]) /\ ToSet(seen'[p]) \subseteq Writes
  <2>1. CASE seen'[p] = seen[p]
    BY <2>1 DEF SeenOK
  <2>2. CASE \E c \in Writes : c \notin ToSet(seen[p]) /\ seen'[p] = Append(seen[p], c)
    <3>1. PICK c \in Writes : c \notin ToSet(seen[p]) /\ seen'[p] = Append(seen[p], c)
      BY <2>2
    <3>2. PICK s \in Seq(Nat) : s = seen[p] /\ Len(s) \in Nat /\ DOMAIN s = 1..Len(s)
      BY <1>0, LenProperties
    <3>3. /\ Len(Append(s, c)) = Len(s) + 1 /\ Append(s, c)[Len(s) + 1] = c
          /\ \A i \in 1..Len(s) : Append(s, c)[i] = s[i]
          /\ ToSet(Append(s, c)) = ToSet(s) \cup {c}
      BY <1>0, <3>2, AppendProperties, Appending
    <3>4. \A i \in 1..Len(s) : s[i] # c
      BY <3>1, <3>2 DEF ToSet
    <3>5. Distinct(s) /\ ToSet(s) \subseteq Writes
      BY <3>2 DEF SeenOK
    <3>6. \A i \in 1..(Len(s) + 1) : i \in 1..Len(s) \/ i = Len(s) + 1
      BY <3>2
    <3>7. Distinct(Append(s, c))
      BY <3>3, <3>4, <3>5, <3>6 DEF Distinct
    <3>. QED
      BY <3>1, <3>2, <3>3, <3>5, <3>7
  <2>. QED
    BY <2>1, <2>2, SeenGrows
<1>. QED
  BY <1>0, <1>1 DEF SeenOK, Known, Grows

\* What a step may bring about in the entries, the awaited operations and what is said.
LEMMA MadeIs ==
  ASSUME Sound, Held, OpsNext
  PROVE  \/ entries' = entries
         \/ \E p \in Peer : \E e :
              /\ e = Len(entries) + 1 /\ Len(entries') = e /\ entries'[e].by = p
              /\ \/ entries'[e].change = e /\ doing' = doing
                 \/ /\ entries'[e].change = doing[p].id /\ doing[p] \in OpMsg /\ doing'[p] = Idle
                    /\ \A q \in Peer \ {p} : doing'[q] = doing[q]
<1>1. PICK e : e = Len(entries) + 1
  OBVIOUS
<1>2. ASSUME NEW p \in Peer, Write(p)
      PROVE  Len(entries') = e /\ entries'[e].by = p /\ entries'[e].change = e /\ doing' = doing
  BY <1>1, <1>2, WriteStep
<1>3. ASSUME NEW p \in Peer, Performed(p)
      PROVE  /\ Len(entries') = e /\ entries'[e].by = p
             /\ entries'[e].change = doing[p].id /\ doing[p] \in OpMsg /\ doing'[p] = Idle
             /\ \A q \in Peer \ {p} : doing'[q] = doing[q]
  BY <1>1, <1>3, PerformedStep
<1>4. ASSUME NEW p \in Peer,
             \/ Press(p) \/ Flush(p) \/ ShipTask(p)
             \/ SendResolves(p) \/ SendFails(p) \/ Deliver(p) \/ Lose(p) \/ Overtake(p)
             \/ HandleAnnounce(p) \/ HandleWant(p) \/ HandleBlocks(p) \/ Applied(p)
             \/ HandleOp(p) \/ PerformFails(p) \/ Stop(p) \/ Start(p)
      PROVE  entries' = entries
  BY <1>4 DEF Press, Flush, ShipTask, SendResolves, SendFails, Deliver, Lose, Overtake, HandleAnnounce,
              HandleWant, HandleBlocks, Applied, HandleOp, PerformFails, Stop, Start, data
<1>. QED
  BY <1>1, <1>2, <1>3, <1>4 DEF OpsNext

LEMMA DoingIs ==
  ASSUME Sound, Held, OpsNext, NEW p \in Peer, doing'[p].t = "op"
  PROVE  \/ doing'[p] = doing[p]
         \/ /\ doing'[p] \in ToSet(queue[p]) /\ ~ Known(p, doing'[p].id) /\ doing'[p].id \in ToSet(seen'[p]) /\ doing'[p].id \in Writes
            /\ entries' = entries
<1>0. doing \in [Peer -> Msg \cup {Idle}] /\ doing'[p] # Idle
  BY DEF Sound, OpsTypeOK, Idle
<1>1. ASSUME NEW q \in Peer, Performed(q) \/ PerformFails(q) \/ Applied(q) PROVE doing'[p] = doing[p]
  BY <1>0, <1>1 DEF Performed, PerformFails, Applied
<1>2. ASSUME NEW q \in Peer, HandleBlocks(q) PROVE doing'[p] = doing[p]
  BY <1>0, <1>2 DEF HandleBlocks, Task
<1>3. ASSUME NEW q \in Peer, HandleOp(q), doing'[p] # doing[p]
      PROVE  /\ doing'[p] \in ToSet(queue[p]) /\ ~ Known(p, doing'[p].id) /\ doing'[p].id \in ToSet(seen'[p]) /\ doing'[p].id \in Writes
             /\ entries' = entries
  <2>1. PICK h : h = Head(queue[q])
    OBVIOUS
  <2>2. /\ h.t = "op" /\ h \in ToSet(queue[q]) /\ h \in OpMsg /\ Remember(q, h.id)
        /\ doing' = IF Known(q, h.id) THEN doing ELSE [doing EXCEPT ![q] = h]
    BY <1>3, <2>1, HandleOpStep
  <2>3. q = p /\ ~ Known(p, h.id) /\ doing'[p] = h
    BY <1>0, <1>3, <2>2
  <2>4. h.id \in Nat /\ h.id \in Writes
    BY <2>2 DEF Sound, Honest, HonestIs, In, OpMsg
  <2>5. h.id \in ToSet(seen'[p])
    BY <2>2, <2>3, <2>4, Remembering DEF Sound
  <2>6. entries' = entries
    BY <1>3 DEF HandleOp, data
  <2>. QED
    BY <2>2, <2>3, <2>4, <2>5, <2>6 DEF Known
<1>4. ASSUME NEW q \in Peer, Write(q) \/ Press(q) \/ Flush(q) \/ ShipTask(q) \/ SendResolves(q) \/ SendFails(q) \/ Deliver(q)
                             \/ Lose(q) \/ Overtake(q) \/ HandleAnnounce(q) \/ HandleWant(q) \/ Stop(q) \/ Start(q)
      PROVE  doing' = doing
  BY <1>4 DEF Write, Press, Flush, ShipTask, SendResolves, SendFails, Deliver, Lose, Overtake, HandleAnnounce,
              HandleWant, Stop, Start, control
<1>. QED
  BY <1>1, <1>2, <1>3, <1>4 DEF OpsNext

LEMMA SaidIs ==
  ASSUME Sound, Held, OpsNext, NEW m \in All', m.t = "op"
  PROVE  m \in All \/ \E p \in Peer : Mine(p, m.id) /\ m.id \in ToSet(seen'[p])
<1>1. \A p \in Peer : Write(p) => m \in All
  BY WriteStep DEF Idle
<1>2. \A p \in Peer : Performed(p) => m \in All
  BY PerformedStep DEF Idle
<1>3. \A p \in Peer : SendResolves(p) \/ SendFails(p) \/ Deliver(p) \/ Lose(p) \/ Overtake(p) => m \in All
  BY SendResolvesStep, SendFailsStep, DeliverStep, LoseStep, OvertakeStep DEF Carried, Idle
<1>4. \A p \in Peer : Press(p) \/ Flush(p) \/ ShipTask(p) \/ Stop(p) \/ Start(p) => \E h : Step(p, h)
  BY PressStep, FlushStep, ShipTaskStep, StopStep, StartStep
<1>5. \A p \in Peer : HandleAnnounce(p) \/ HandleWant(p) \/ HandleBlocks(p) \/ HandleOp(p) => \E h : Step(p, h)
  BY HandleAnnounceStep, HandleWantStep, HandleBlocksStep, HandleOpStep
<1>6. \A p \in Peer : Applied(p) \/ PerformFails(p) => \E h : Step(p, h)
  BY AppliedStep, PerformFailsStep
<1>. QED
  BY <1>1, <1>2, <1>3, <1>4, <1>5, <1>6 DEF OpsNext, Step

LEMMA UniqueNext == Sound /\ Held /\ Unique /\ [OpsNext]_opsVars => Unique'
<1>. SUFFICES ASSUME Sound, Held, Unique, [OpsNext]_opsVars, Enough' PROVE (SeenOK /\ SaidOK /\ MadeOK /\ DoingOK /\ Once)'
  BY DEF Unique
<1>1. CASE UNCHANGED opsVars
  <2>1. UNCHANGED <<entries, queue, seen, doing, sending, outbox, air>>
    BY <1>1 DEF opsVars, data, control, carrier
  <2>2. Writes' = Writes /\ Change' = Change /\ All' = All /\ \A p, c : Known(p, c)' = Known(p, c)
    BY <2>1 DEF Writes, Change, All, Out, In, Known
  <2>3. SeenOK /\ SaidOK /\ MadeOK /\ DoingOK /\ Once
    BY <2>2 DEF Unique, Enough
  <2>. QED
    BY <2>1, <2>2, <2>3 DEF SeenOK, SaidOK, MadeOK, DoingOK, Once
<1>2. CASE OpsNext
  <2>0. /\ OpsTypeOK /\ Graph /\ Grows /\ Sound' /\ Len(entries) \in Nat
        /\ \A e \in Change : entries[e].by \in Peer /\ e \in Nat /\ entries[e].change \in Nat
    BY <1>2, SoundNext, NextGrows, EntriesAre DEF Sound
  <2>1. SeenOK /\ SaidOK /\ MadeOK /\ DoingOK /\ Once /\ Enough
    <3>1. IsFiniteSet(Writes') /\ Writes \in SUBSET (Writes')
      <4>1. Len(entries') \in Nat
        BY <2>0, LenProperties DEF Sound, OpsTypeOK
      <4>2. IsFiniteSet(1..Len(entries'))
        BY <4>1, FS_Interval
      <4>3. Writes' \in SUBSET (1..Len(entries'))
        BY DEF Writes
      <4>4. IsFiniteSet(Writes')
        BY <4>2, <4>3, FS_Subset
      <4>. QED
        BY <2>0, <4>4 DEF Grows
    <3>2. Cardinality(Writes) <= Cardinality(Writes') /\ IsFiniteSet(Writes)
      BY <3>1, FS_Subset
    <3>3. Cardinality(Writes) \in Nat /\ Cardinality(Writes') \in Nat /\ SeenOps \in Nat
      BY <3>1, <3>2, FS_CardinalityType, OpsAssumption
    <3>4. Enough
      BY <3>2, <3>3 DEF Enough
    <3>. QED
      BY <3>4 DEF Unique
  <2>2. SeenOK' /\ \A p \in Peer : \A c : Known(p, c) => Known(p, c)'
    BY <1>2, <2>1, SeenOKNext
  <2>3. SaidOK'
    <3>. SUFFICES ASSUME NEW m \in All', m.t = "op" PROVE Known(entries[m.id].by, m.id)'
      BY DEF SaidOK
    <3>1. CASE m \in All
      <4>1. m.id \in Writes
        BY <3>1 DEF Sound, Honest, HonestIs, All
      <4>2. m.id \in Change /\ entries[m.id].by \in Peer
        BY <2>0, <4>1 DEF Writes, Change
      <4>. QED
        BY <2>0, <2>1, <2>2, <3>1, <4>2 DEF SaidOK, Grows
    <3>2. CASE \E p \in Peer : Mine(p, m.id) /\ m.id \in ToSet(seen'[p])
      BY <2>0, <3>2 DEF Mine, Grows, Known, Writes, Change
    <3>. QED
      BY <1>2, <3>1, <3>2, SaidIs
  <2>4. \A p \in Peer : doing[p].t = "op" => doing[p] \in OpMsg /\ doing[p].id \in Change
    <3>. SUFFICES ASSUME NEW p \in Peer, doing[p].t = "op" PROVE doing[p] \in OpMsg /\ doing[p].id \in Change
      OBVIOUS
    <3>1. doing[p] \in Msg \cup {Idle} /\ doing[p] # Idle
      BY <2>0 DEF OpsTypeOK, Idle
    <3>2. doing[p] \in OpMsg
      BY <3>1, Kinds
    <3>3. HonestIs(doing[p])
      BY DEF Sound, Honest, In
    <3>. QED
      BY <3>2, <3>3 DEF HonestIs, Writes, Change
  <2>5. CASE entries' = entries
    <3>1. Change' = Change
      BY <2>5 DEF Change
    <3>2. MadeOK' /\ Once'
      BY <2>0, <2>1, <2>2, <2>5, <3>1 DEF MadeOK, Once
    <3>3. DoingOK'
      <4>. SUFFICES ASSUME NEW p \in Peer, doing'[p].t = "op", NEW d, d = doing'[p].id
                    PROVE  /\ d \in ToSet(seen'[p]) /\ entries[d].by # p
                           /\ \A e \in Change : entries[e].by = p => entries[e].change # d
        BY <2>5, <3>1 DEF DoingOK, Known
      <4>1. CASE doing'[p] = doing[p]
        BY <2>1, <2>2, <4>1 DEF DoingOK, Known
      <4>2. CASE doing'[p] \in ToSet(queue[p]) /\ ~ Known(p, d) /\ d \in ToSet(seen'[p]) /\ d \in Writes
        <5>1. Known(entries[d].by, d)
          BY <2>1, <4>2 DEF SaidOK, All, In
        <5>2. entries[d].by # p
          BY <4>2, <5>1
        <5>3. ASSUME NEW e \in Change, entries[e].by = p, entries[e].change = d PROVE FALSE
          BY <2>1, <4>2, <5>2, <5>3 DEF MadeOK
        <5>. QED
          BY <4>2, <5>2, <5>3
      <4>. QED
        BY <1>2, <4>1, <4>2, DoingIs
    <3>. QED
      BY <2>2, <2>3, <3>2, <3>3
  <2>6. ASSUME NEW q \in Peer, NEW e, e = Len(entries) + 1, Len(entries') = e, entries'[e].by = q,
               \/ entries'[e].change = e /\ doing' = doing
               \/ /\ entries'[e].change = doing[q].id /\ doing[q] \in OpMsg /\ doing'[q] = Idle
                  /\ \A r \in Peer \ {q} : doing'[r] = doing[r]
        PROVE  (SeenOK /\ SaidOK /\ MadeOK /\ DoingOK /\ Once)'
    <3>1. Change' = Change \cup {e} /\ e \notin Change /\ \A f \in Change : f < e
      BY <2>0, <2>6 DEF Change
    <3>2. \A f \in Change : entries'[f] = entries[f] /\ entries[f].change \in Change /\ entries[f].change < e
      BY <2>0, <3>1 DEF Grows, Graph, Writes, Change
    <3>3. \A f \in Change : entries'[f].change # f =>
            /\ entries'[f].change \in ToSet(seen'[entries'[f].by])
            /\ entries'[entries'[f].change].by # entries'[f].by
      <4>. SUFFICES ASSUME NEW f \in Change, NEW c \in Change, c = entries[f].change, c # f, NEW p \in Peer, p = entries[f].by
                    PROVE  c \in ToSet(seen'[p]) /\ entries'[c].by # p
        BY <2>0, <3>2 DEF Known
      <4>. QED
        BY <2>1, <2>2, <3>2 DEF MadeOK, Known
    <3>4. CASE entries'[e].change = e /\ doing' = doing
      <4>1. MadeOK'
        BY <3>1, <3>3, <3>4 DEF MadeOK, Known
      <4>2. Once'
        BY <2>0, <2>1, <3>1, <3>2, <3>4 DEF Once
      <4>3. DoingOK'
        BY <2>1, <2>2, <2>4, <3>1, <3>2, <3>4 DEF DoingOK
      <4>. QED
        BY <2>2, <2>3, <4>1, <4>2, <4>3
    <3>5. CASE /\ entries'[e].change = doing[q].id /\ doing[q] \in OpMsg /\ doing'[q] = Idle
               /\ \A r \in Peer \ {q} : doing'[r] = doing[r]
      <4>1. PICK c \in Change :
              /\ c = doing[q].id /\ c = entries'[e].change /\ Known(q, c) /\ entries[c].by # q
              /\ \A f \in Change : entries[f].by = q => entries[f].change # c
        BY <2>1, <2>4, <3>5 DEF DoingOK, OpMsg
      <4>2. MadeOK'
        <5>1. c \in ToSet(seen'[q]) /\ entries'[c].by # q
          BY <2>2, <3>2, <4>1 DEF Known
        <5>. QED
          BY <2>6, <3>1, <3>3, <4>1, <5>1 DEF MadeOK, Known
      <4>3. Once'
        BY <2>1, <2>6, <3>1, <3>2, <4>1 DEF Once
      <4>4. DoingOK'
        <5>. SUFFICES ASSUME NEW p \in Peer \ {q}, doing[p].t = "op", NEW d \in Change, d = doing[p].id
                      PROVE  /\ d \in ToSet(seen'[p]) /\ entries'[d].by # p
                             /\ \A f \in Change' : entries'[f].by = p => entries'[f].change # d
          BY <2>4, <3>5 DEF DoingOK, Known, Idle
        <5>. QED
          BY <2>1, <2>2, <2>6, <3>1, <3>2 DEF DoingOK, Known
      <4>. QED
        BY <2>2, <2>3, <4>2, <4>3, <4>4
    <3>. QED
      BY <2>6, <3>4, <3>5
  <2>. QED
    BY <1>2, <2>5, <2>6, MadeIs
<1>. QED
  BY <1>1, <1>2

\* However often an operation arrives, a device makes of it one entry at most, and none
\* of its own changes comes back as another (handleOperation(), rememberOp()).
THEOREM PerformedOnce == OpsSpec => []OnceEach
<1>1. OpsInit => Sound /\ Held /\ Unique
  <2>. SUFFICES ASSUME OpsInit PROVE Sound /\ Held /\ Unique
    OBVIOUS
  <2>1. /\ \A p \in Peer : seen[p] = <<>> /\ doing[p] = Idle /\ queue[p] = <<>> /\ air[p] = <<>> /\ outbox[p] = <<>> /\ sending[p] = Idle
        /\ entries = <<>>
    BY DEF OpsInit
  <2>2. Change = {} /\ ToSet(<<>>) = {} /\ \A i, j \in 1..Len(<<>>) : i = j
    BY <2>1 DEF Change, ToSet
  <2>3. SeenOK /\ MadeOK /\ Once
    BY <2>1, <2>2 DEF SeenOK, Distinct, MadeOK, Once
  <2>4. DoingOK /\ SaidOK
    BY <2>1, <2>2 DEF DoingOK, SaidOK, All, Out, In, Idle
  <2>. QED
    BY <2>3, <2>4, StartsSound, HeldStarts DEF Unique
<1>2. Sound /\ Held /\ Unique /\ [OpsNext]_opsVars => (Sound /\ Held /\ Unique)'
  BY SoundNext, HeldNext, UniqueNext
<1>3. Sound /\ Unique => OnceEach
  BY DEF Unique, Enough, Once, OnceEach
<1>. QED
  BY <1>1, <1>2, <1>3, PTL DEF OpsSpec

=============================================================================
