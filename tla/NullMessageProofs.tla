--------------------------- MODULE NullMessageProofs ---------------------------
(***************************************************************************)
(* Proofs about NullMessage, for every number of ranks, every topology and *)
(* all delays, as long as no two links join the same two ranks: no message *)
(* comes too late, and no guarantee is taken back.                         *)
(***************************************************************************)
EXTENDS NullMessage, SequenceTheorems, FiniteSetTheorems, WellFoundedInduction, TLAPS

(* The guarantee of a packet counts on the device being busy until the      *)
(* packet is sent; a second link of the bundle is not.                      *)
SingleLinks == \A l, m \in Links : Ends[l] = Ends[m] => l = m

-----------------------------------------------------------------------------
EventRec == [ts : Nat, uid : Nat, kind : {"user", "stop", "null", "complete"},
             arg : Ranks \cup Links \cup {NoArg}]
Message  == [rxTime : Nat, guarantee : Nat]

Domains ==
  /\ DOMAIN pc = Ranks /\ DOMAIN m_events = Ranks /\ DOMAIN m_uid = Ranks
  /\ DOMAIN m_currentTs = Ranks /\ DOMAIN m_safeTime = Ranks /\ DOMAIN m_guaranteeTime = Ranks
  /\ DOMAIN m_nullEventId = Ranks /\ DOMAIN busy = Ranks /\ DOMAIN network = Ranks

TypesOf(r, p, q, now, uid, nid, bz, safe, gt) ==
  /\ p \in {"program", "loop", "event", "receive", "done"}
  /\ q \in SUBSET EventRec /\ now \in Nat /\ uid \in Nat /\ nid \in [Neighbours(r) -> Nat]
  /\ bz \in SUBSET Links /\ safe \in Nat /\ gt \in [Neighbours(r) -> Nat]

Types ==
  /\ Domains
  /\ \A r \in Ranks :
       /\ TypesOf(r, pc[r], m_events[r], m_currentTs[r], m_uid[r], m_nullEventId[r], busy[r],
                  m_safeTime[r], m_guaranteeTime[r])
       /\ network[r] \in [Neighbours(r) -> Seq(Message)]

(* Of rank r with the events q, at time now: nothing is due in the past, a   *)
(* uid stands for one event, and only a busy device has an event complete,   *)
(* and one.                                                                  *)
EventsOK(r, q, now, uid, bz) ==
  /\ \A e \in q : now <= e.ts /\ e.uid < uid
  /\ \A e, f \in q : e.uid = f.uid => e = f
  /\ \A e \in q : e.kind = "complete" => e.arg \in bz /\ e.arg \in LinksOf(r)
  /\ \A e, f \in q : e.kind = "complete" /\ f.kind = "complete" /\ e.arg = f.arg => e = f
  /\ \A e \in q : e.kind = "null" => e.arg \in Neighbours(r)

Live(e, n, nid) == e.kind = "null" /\ e.arg = n /\ e.uid = nid[n]

NullsOK(r, q, now, nid) ==
  \A n \in Neighbours(r) : \E e \in q : Live(e, n, nid) /\ e.ts <= now + Period(r, n)

(* Time t is not before what the guarantee g to neighbour n promised.        *)
Late(r, n, g, t) == g <= t + BundleDelay(r, n)

(* Rank r keeps the guarantee g it gave n. Either everything it will do is   *)
(* late enough, but for its next null message to n, which looks only at the  *)
(* other events; or the device to n is busy and what can end that, and the   *)
(* next null message, are late enough.                                       *)
Free(r, n, q, now, p, nid, g) ==
  /\ \A e \in q : Live(e, n, nid) \/ Late(r, n, g, e.ts)
  /\ p = "event" => Late(r, n, g, now)

Held(r, n, q, nid, bz, g) ==
  /\ \E l \in bz : Ends[l] = {r, n}
  /\ \A e \in q : Live(e, n, nid) \/ (e.kind = "complete" /\ Ends[e.arg] = {r, n})
                    => Late(r, n, g, e.ts)

Keeps(r, n, q, now, p, nid, bz, g) ==
  Free(r, n, q, now, p, nid, g) \/ Held(r, n, q, nid, bz, g)

(* The messages q on the way to a rank that has the guarantee g. *)
Chain(q, g) ==
  /\ \A i \in DOMAIN q : g <= q[i].guarantee /\ (q[i].rxTime > 0 => g <= q[i].rxTime)
  /\ \A i, j \in DOMAIN q :
       i < j => /\ q[i].guarantee <= q[j].guarantee
                /\ q[j].rxTime > 0 => q[i].guarantee <= q[j].rxTime

LastOf(q, g) == IF q = <<>> THEN g ELSE q[Len(q)].guarantee

LastGuarantee(r, n) == LastOf(network[r][n], m_guaranteeTime[n][r])

RankOK(r, p, q, now, uid, nid, bz, safe, gt) ==
  /\ EventsOK(r, q, now, uid, bz)
  /\ p \in {"loop", "event", "receive"} => NullsOK(r, q, now, nid)
  /\ now <= safe /\ safe <= MaxTime
  /\ \A n \in Neighbours(r) : safe <= gt[n]
  /\ p = "program" => safe = 0

(* What rank r owes neighbour n: net are the messages on the way, and gt the *)
(* guarantee n has received.                                                 *)
PairOK(r, n, p, q, now, nid, bz, safe, net, gt) ==
  /\ Chain(net, gt)
  /\ Late(r, n, LastOf(net, gt), safe)
  /\ Keeps(r, n, q, now, p, nid, bz, LastOf(net, gt))

RankInv(r) ==
  RankOK(r, pc[r], m_events[r], m_currentTs[r], m_uid[r], m_nullEventId[r], busy[r],
         m_safeTime[r], m_guaranteeTime[r])

PairInv(r, n) ==
  PairOK(r, n, pc[r], m_events[r], m_currentTs[r], m_nullEventId[r], busy[r], m_safeTime[r],
         network[r][n], m_guaranteeTime[n][r])

NInv ==
  /\ Types
  /\ \A r \in Ranks : RankInv(r) /\ \A n \in Neighbours(r) : PairInv(r, n)

-----------------------------------------------------------------------------
(* Facts about the constants. *)
LEMMA NatMinimum ==
  ASSUME NEW S, S \subseteq Nat, S # {} PROVE \E m \in S : \A x \in S : m <= x
<1> DEFINE R == OpToRel(<, Nat)
<1>1. PICK m \in S : \A y \in S : <<y, m>> \notin R
  BY WFMin, NatLessThanWellFounded
<1>2. \A y \in S : ~ (y < m)
  BY <1>1 DEF OpToRel
<1>3. \A y \in S : m <= y
  BY <1>2
<1> QED BY <1>3

LEMMA NeighbourFacts ==
  ASSUME NEW r \in Ranks, NEW n \in Neighbours(r)
  PROVE  n \in Ranks /\ n # r /\ r \in Neighbours(n)
<1>1. n \in Ranks /\ n # r /\ Bundle(r, n) # {}
  BY DEF Neighbours
<1>2. {r, n} = {n, r}
  OBVIOUS
<1>3. Bundle(n, r) = Bundle(r, n)
  BY <1>2 DEF Bundle
<1> QED BY <1>1, <1>3 DEF Neighbours

LEMMA EndFacts ==
  ASSUME NEW r \in Ranks, NEW l \in LinksOf(r), NEW n \in Ends[l] \ {r}
  PROVE  n \in Neighbours(r) /\ Ends[l] = {r, n} /\ l \in Links
<1>1. l \in Links /\ r \in Ends[l] /\ Ends[l] \subseteq Ranks /\ Cardinality(Ends[l]) = 2
  BY NullMessageAssumption DEF LinksOf
<1>2. IsFiniteSet(Ends[l])
  BY <1>1, FS_Subset, NullMessageAssumption
<1>3. IsFiniteSet(Ends[l] \ {r}) /\ Cardinality(Ends[l] \ {r}) = 2 - 1
  BY <1>1, <1>2, FS_RemoveElement
<1>4. IsFiniteSet((Ends[l] \ {r}) \ {n}) /\ Cardinality((Ends[l] \ {r}) \ {n}) = 2 - 1 - 1
  BY <1>3, FS_RemoveElement
<1>5. (Ends[l] \ {r}) \ {n} = {}
  BY <1>4, FS_EmptySet
<1>6. Ends[l] = {r, n}
  BY <1>1, <1>5
<1> QED BY <1>1, <1>6 DEF Neighbours, Bundle

LEMMA DelayFacts ==
  ASSUME SingleLinks, NEW r \in Ranks, NEW n \in Neighbours(r)
  PROVE  /\ BundleDelay(r, n) \in Nat /\ Period(r, n) \in Nat
         /\ \A l \in Links : Ends[l] = {r, n} => Delay[l] = BundleDelay(r, n)
<1>1. PICK l \in Links : Ends[l] = {r, n}
  BY DEF Neighbours, Bundle
<1>2. Bundle(r, n) = {l}
  BY <1>1 DEF Bundle, SingleLinks
<1>3. Delay[l] \in Nat
  BY NullMessageAssumption
<1>4. {Delay[k] : k \in Bundle(r, n)} = {Delay[l]}
  BY <1>2
<1>5. BundleDelay(r, n) = Delay[l]
  BY <1>2, <1>3, <1>4 DEF BundleDelay
<1>6. \A k \in Links : Ends[k] = {r, n} => Delay[k] = BundleDelay(r, n)
  BY <1>2, <1>5 DEF Bundle
<1>7. PICK d : d = BundleDelay(r, n)
  OBVIOUS
<1>8. d \in Nat /\ TunePercent \in Nat
  BY <1>3, <1>5, <1>7, NullMessageAssumption
<1>9. TunePercent * d \in Nat
  BY <1>8
<1>10. (TunePercent * d + 50) \div 100 \in Nat
  BY <1>9
<1> QED BY <1>6, <1>7, <1>8, <1>10 DEF Period

LEMMA SafeFacts ==
  ASSUME NEW r \in Ranks, NEW gt \in [Neighbours(r) -> Nat]
  PROVE  /\ SafeTime(r, gt) \in Nat /\ SafeTime(r, gt) <= MaxTime
         /\ \A n \in Neighbours(r) : SafeTime(r, gt) <= gt[n]
         /\ \A b \in Nat : b <= MaxTime /\ (\A n \in Neighbours(r) : b <= gt[n])
                             => b <= SafeTime(r, gt)
<1> DEFINE S == {MaxTime} \cup {gt[n] : n \in Neighbours(r)}
<1>1. S \subseteq Nat /\ S # {}
  BY NullMessageAssumption
<1>2. \E m \in S : \A x \in S : m <= x
  BY <1>1, NatMinimum
<1>3. \E m \in S : m <= MaxTime /\ \A n \in Neighbours(r) : m <= gt[n]
  BY <1>2
<1>4. PICK t : t = SafeTime(r, gt)
  OBVIOUS
<1>5. t \in S /\ t <= MaxTime /\ \A n \in Neighbours(r) : t <= gt[n]
  BY <1>3, <1>4 DEF SafeTime
<1>6. t = MaxTime \/ \E n \in Neighbours(r) : t = gt[n]
  BY <1>5
<1> QED BY <1>1, <1>4, <1>5, <1>6

-----------------------------------------------------------------------------
(* The messages on the way. *)
LEMMA ChainAppend ==
  ASSUME NEW q \in Seq(Message), NEW g \in Nat, NEW m \in Message, Chain(q, g),
         LastOf(q, g) <= m.guarantee, m.rxTime > 0 => LastOf(q, g) <= m.rxTime
  PROVE  Chain(Append(q, m), g) /\ LastOf(Append(q, m), g) = m.guarantee
<1> DEFINE a == Append(q, m)
<1>1. /\ a \in Seq(Message) /\ Len(q) \in Nat /\ Len(a) = Len(q) + 1 /\ a[Len(q) + 1] = m
      /\ DOMAIN a = 1 .. Len(q) + 1 /\ DOMAIN q = 1 .. Len(q)
      /\ \A i \in 1 .. Len(q) : a[i] = q[i]
  OBVIOUS
<1> HIDE DEF a
<1>2. \A i \in 1 .. Len(q) : q[i] \in Message
  OBVIOUS
<1>3. \A i \in 1 .. Len(q) : q[i].guarantee \in Nat /\ q[i].rxTime \in Nat
  BY <1>2 DEF Message
<1>4. m.guarantee \in Nat /\ m.rxTime \in Nat
  BY DEF Message
<1>5. LastOf(q, g) \in Nat /\ g <= LastOf(q, g)
      /\ \A i \in 1 .. Len(q) : q[i].guarantee <= LastOf(q, g)
  <2>1. CASE q = <<>>
    BY <2>1 DEF LastOf
  <2>2. CASE q # <<>>
    <3>1. PICK k : k = Len(q)
      OBVIOUS
    <3>2. k \in Nat \ {0} /\ LastOf(q, g) = q[k].guarantee
      BY <2>2, <3>1, EmptySeq DEF LastOf
    <3>3. k \in 1 .. k /\ DOMAIN q = 1 .. k
      BY <1>1, <3>1, <3>2
    <3>4. q[k].guarantee \in Nat /\ g <= q[k].guarantee
      BY <1>3, <3>1, <3>3 DEF Chain
    <3>5. ASSUME NEW i \in 1 .. k PROVE q[i].guarantee <= q[k].guarantee
      <4>1. i = k \/ i < k
        BY <3>2
      <4> QED BY <3>3, <3>4, <4>1 DEF Chain
    <3> QED BY <3>1, <3>2, <3>4, <3>5
  <2> QED BY <2>1, <2>2
<1>6. \A i \in DOMAIN a : i \in 1 .. Len(q) \/ i = Len(q) + 1
  BY <1>1
<1>7. \A i \in DOMAIN a : g <= a[i].guarantee /\ (a[i].rxTime > 0 => g <= a[i].rxTime)
  BY <1>1, <1>3, <1>4, <1>5, <1>6 DEF Chain
<1>8. ASSUME NEW i \in DOMAIN a, NEW j \in DOMAIN a, i < j
      PROVE  /\ a[i].guarantee <= a[j].guarantee
             /\ a[j].rxTime > 0 => a[i].guarantee <= a[j].rxTime
  <2>1. i \in 1 .. Len(q)
    BY <1>1, <1>8
  <2>2. CASE j \in 1 .. Len(q)
    BY <1>1, <1>8, <2>1, <2>2 DEF Chain
  <2>3. CASE j = Len(q) + 1
    BY <1>1, <1>3, <1>4, <1>5, <2>1, <2>3
  <2> QED BY <1>6, <2>2, <2>3
<1>9. LastOf(a, g) = m.guarantee
  BY <1>1 DEF LastOf
<1> QED BY <1>7, <1>8, <1>9 DEF Chain, a

LEMMA ChainTail ==
  ASSUME NEW q \in Seq(Message), q # <<>>, NEW g \in Nat, Chain(q, g)
  PROVE  /\ Head(q) \in Message /\ Tail(q) \in Seq(Message)
         /\ g <= Head(q).guarantee /\ (Head(q).rxTime > 0 => g <= Head(q).rxTime)
         /\ Chain(Tail(q), Head(q).guarantee)
         /\ LastOf(Tail(q), Head(q).guarantee) = LastOf(q, g)
<1> DEFINE t == Tail(q)
<1>1. /\ t \in Seq(Message) /\ Len(q) \in Nat /\ Len(q) > 0 /\ Len(t) = Len(q) - 1
      /\ DOMAIN t = 1 .. Len(q) - 1 /\ DOMAIN q = 1 .. Len(q) /\ Head(q) = q[1]
      /\ \A i \in 1 .. Len(q) - 1 : t[i] = q[i + 1]
  OBVIOUS
<1> HIDE DEF t
<1>2. q[1] \in Message
  BY <1>1
<1>3. g <= q[1].guarantee /\ (q[1].rxTime > 0 => g <= q[1].rxTime)
  BY <1>1 DEF Chain
<1>4. \A i \in DOMAIN t : i + 1 \in DOMAIN q /\ 1 < i + 1 /\ t[i] = q[i + 1]
  BY <1>1
<1>5. \A i \in DOMAIN t : /\ q[1].guarantee <= t[i].guarantee
                          /\ t[i].rxTime > 0 => q[1].guarantee <= t[i].rxTime
  <2>1. 1 \in DOMAIN q
    BY <1>1
  <2> QED BY <1>4, <2>1 DEF Chain
<1>6. \A i, j \in DOMAIN t : i < j =>
        /\ t[i].guarantee <= t[j].guarantee
        /\ t[j].rxTime > 0 => t[i].guarantee <= t[j].rxTime
  <2>1. \A i, j \in DOMAIN t : i < j => i + 1 < j + 1
    BY <1>1
  <2> QED BY <1>4, <2>1 DEF Chain
<1>7. LastOf(t, q[1].guarantee) = LastOf(q, g)
  <2>1. CASE t = <<>>
    <3>1. Len(t) = 0
      BY <2>1
    <3>2. Len(q) = 1
      BY <1>1, <3>1
    <3> QED BY <2>1, <3>2 DEF LastOf
  <2>2. CASE t # <<>>
    <3>1. Len(t) \in DOMAIN t /\ Len(t) + 1 = Len(q)
      BY <1>1, <2>2, EmptySeq
    <3>2. t[Len(t)] = q[Len(q)]
      BY <1>4, <3>1
    <3> QED BY <2>2, <3>2 DEF LastOf
  <2> QED BY <2>1, <2>2
<1> QED BY <1>1, <1>2, <1>3, <1>5, <1>6, <1>7 DEF Chain, t

-----------------------------------------------------------------------------
(* The events of a rank: one is taken, or one is added. *)
LEMMA FieldTypes ==
  ASSUME NEW e \in EventRec
  PROVE  e.ts \in Nat /\ e.uid \in Nat
  BY DEF EventRec

LEMMA NextIsFirst ==
  ASSUME NEW q \in SUBSET EventRec, NEW e, IsNext(q, e)
  PROVE  e \in q /\ e \in EventRec /\ \A f \in q : e.ts <= f.ts
<1>1. e \in q /\ e \in EventRec
  BY DEF IsNext
<1>2. ASSUME NEW f \in q PROVE e.ts <= f.ts
  <2>1. e.ts \in Nat /\ f.ts \in Nat
    BY <1>1, FieldTypes
  <2>2. f = e \/ e.ts < f.ts \/ e.ts = f.ts
    BY DEF IsNext
  <2> QED BY <2>1, <2>2
<1> QED BY <1>1, <1>2

LEMMA TakeEvents ==
  ASSUME NEW r \in Ranks, NEW q \in SUBSET EventRec, NEW e, NEW now \in Nat, NEW uid \in Nat,
         NEW bz \in SUBSET Links, EventsOK(r, q, now, uid, bz), IsNext(q, e)
  PROVE  /\ EventsOK(r, q \ {e}, e.ts, uid, bz) /\ now <= e.ts
         /\ e.kind = "complete" => EventsOK(r, q \ {e}, e.ts, uid, bz \ {e.arg})
<1>1. e \in q /\ \A f \in q : e.ts <= f.ts
  BY NextIsFirst
<1>2. now <= e.ts
  BY <1>1 DEF EventsOK
<1>3. EventsOK(r, q \ {e}, e.ts, uid, bz)
  BY <1>1 DEF EventsOK
<1>4. ASSUME e.kind = "complete" PROVE \A f \in q \ {e} : f.kind = "complete" => f.arg # e.arg
  BY <1>1, <1>4 DEF EventsOK
<1>5. ASSUME e.kind = "complete" PROVE EventsOK(r, q \ {e}, e.ts, uid, bz \ {e.arg})
  BY <1>3, <1>4, <1>5 DEF EventsOK
<1> QED BY <1>2, <1>3, <1>5

LEMMA AddEvent ==
  ASSUME NEW r \in Ranks, NEW q \in SUBSET EventRec, NEW f \in EventRec, NEW now \in Nat,
         NEW uid \in Nat, NEW uid2 \in Nat, NEW bz \in SUBSET Links, NEW bz2 \in SUBSET Links,
         EventsOK(r, q, now, uid, bz), bz \subseteq bz2,
         now <= f.ts, uid <= f.uid, f.uid < uid2,
         f.kind = "null" => f.arg \in Neighbours(r),
         f.kind = "complete" => /\ f.arg \in bz2 /\ f.arg \in LinksOf(r)
                                /\ \A e \in q : e.kind = "complete" => e.arg # f.arg
  PROVE  EventsOK(r, q \cup {f}, now, uid2, bz2)
<1>1. \A e \in q : now <= e.ts /\ e.uid < uid /\ e.uid \in Nat
  BY FieldTypes DEF EventsOK
<1>2. f.uid \in Nat
  BY FieldTypes
<1>3. \A e \in q : e.uid < uid2 /\ e.uid # f.uid
  BY <1>1, <1>2
<1>4. \A e \in q \cup {f} : now <= e.ts /\ e.uid < uid2
  BY <1>1, <1>3
<1>5. \A e, h \in q \cup {f} : e.uid = h.uid => e = h
  BY <1>3 DEF EventsOK
<1>6. \A e \in q \cup {f} : e.kind = "complete" => e.arg \in bz2 /\ e.arg \in LinksOf(r)
  BY DEF EventsOK
<1>7. \A e, h \in q \cup {f} :
        e.kind = "complete" /\ h.kind = "complete" /\ e.arg = h.arg => e = h
  BY DEF EventsOK
<1>8. \A e \in q \cup {f} : e.kind = "null" => e.arg \in Neighbours(r)
  BY DEF EventsOK
<1> QED BY <1>4, <1>5, <1>6, <1>7, <1>8 DEF EventsOK

LEMMA TakeNulls ==
  ASSUME SingleLinks, NEW r \in Ranks, NEW q \in SUBSET EventRec, NEW e \in q, NEW now \in Nat,
         NEW nid, NullsOK(r, q, now, nid), now <= e.ts,
         NEW n \in Neighbours(r), ~ Live(e, n, nid)
  PROVE  \E f \in q \ {e} : Live(f, n, nid) /\ f.ts <= e.ts + Period(r, n)
<1>1. PICK f \in q : Live(f, n, nid) /\ f.ts <= now + Period(r, n)
  BY DEF NullsOK
<1>2. f # e
  BY <1>1
<1>3. f.ts \in Nat /\ e.ts \in Nat /\ Period(r, n) \in Nat
  BY FieldTypes, DelayFacts
<1>4. f.ts <= e.ts + Period(r, n)
  BY <1>1, <1>3
<1> QED BY <1>1, <1>2, <1>4

LEMMA LateMonotone ==
  ASSUME SingleLinks, NEW r \in Ranks, NEW n \in Neighbours(r), NEW g \in Nat,
         NEW s \in Nat, NEW t \in Nat, s <= t, Late(r, n, g, s)
  PROVE  Late(r, n, g, t)
<1>1. BundleDelay(r, n) \in Nat
  BY DelayFacts
<1> QED BY <1>1 DEF Late

(* Taking an event that is not the next null message to n. *)
LEMMA TakeKeeps ==
  ASSUME SingleLinks, NEW r \in Ranks, NEW n \in Neighbours(r), NEW q \in SUBSET EventRec,
         NEW e, NEW now \in Nat, NEW p, NEW p2, NEW nid, NEW bz \in SUBSET Links, NEW g \in Nat,
         Keeps(r, n, q, now, p, nid, bz, g), IsNext(q, e), ~ Live(e, n, nid)
  PROVE  /\ Keeps(r, n, q \ {e}, e.ts, p2, nid, bz, g)
         /\ e.kind = "complete" => Keeps(r, n, q \ {e}, e.ts, p2, nid, bz \ {e.arg}, g)
<1>1. e \in q /\ e.ts \in Nat /\ \A f \in q : e.ts <= f.ts /\ f.ts \in Nat
  BY NextIsFirst, FieldTypes
<1>2. CASE Free(r, n, q, now, p, nid, g)
  <2>1. Late(r, n, g, e.ts)
    BY <1>1, <1>2 DEF Free
  <2>2. Free(r, n, q \ {e}, e.ts, p2, nid, g)
    BY <1>2, <2>1 DEF Free
  <2> QED BY <2>2 DEF Keeps
<1>3. CASE Held(r, n, q, nid, bz, g)
  <2>1. Held(r, n, q \ {e}, nid, bz, g)
    BY <1>3 DEF Held
  <2>2. ASSUME e.kind = "complete"
        PROVE  Keeps(r, n, q \ {e}, e.ts, p2, nid, bz \ {e.arg}, g)
    <3>1. PICK l \in bz : Ends[l] = {r, n}
      BY <1>3 DEF Held
    <3>2. CASE e.arg = l
      <4>1. Late(r, n, g, e.ts)
        BY <1>1, <1>3, <2>2, <3>1, <3>2 DEF Held
      <4>2. \A f \in q : Late(r, n, g, f.ts)
        BY <1>1, <4>1, LateMonotone
      <4> QED BY <4>1, <4>2 DEF Keeps, Free
    <3>3. CASE e.arg # l
      <4>1. Held(r, n, q \ {e}, nid, bz \ {e.arg}, g)
        BY <2>1, <3>1, <3>3 DEF Held
      <4> QED BY <4>1 DEF Keeps
    <3> QED BY <3>2, <3>3
  <2> QED BY <2>1, <2>2 DEF Keeps
<1> QED BY <1>2, <1>3 DEF Keeps

(* Adding an event that does not concern n but for its time. *)
LEMMA AddKeeps ==
  ASSUME SingleLinks, NEW r \in Ranks, NEW n \in Neighbours(r), NEW q \in SUBSET EventRec,
         NEW f \in EventRec, NEW now \in Nat, NEW p, NEW nid, NEW nid2, NEW g \in Nat,
         NEW bz \in SUBSET Links, NEW bz2 \in SUBSET Links, bz \subseteq bz2,
         Keeps(r, n, q, now, p, nid, bz, g), nid2[n] = nid[n],
         f.kind = "complete" => Ends[f.arg] # {r, n},
         f.kind = "null" => f.arg # n,
         Held(r, n, q, nid, bz, g) \/ Late(r, n, g, f.ts)
  PROVE  Keeps(r, n, q \cup {f}, now, p, nid2, bz2, g)
<1>1. \A e \in q : Live(e, n, nid2) <=> Live(e, n, nid)
  BY DEF Live
<1>2. ~ Live(f, n, nid2)
  BY DEF Live
<1>3. CASE Held(r, n, q, nid, bz, g)
  <2>1. Held(r, n, q \cup {f}, nid2, bz2, g)
    BY <1>1, <1>2, <1>3 DEF Held
  <2> QED BY <2>1 DEF Keeps
<1>4. CASE Free(r, n, q, now, p, nid, g) /\ Late(r, n, g, f.ts)
  <2>1. Free(r, n, q \cup {f}, now, p, nid2, g)
    BY <1>1, <1>4 DEF Free
  <2> QED BY <2>1 DEF Keeps
<1> QED BY <1>3, <1>4 DEF Keeps

-----------------------------------------------------------------------------
(* The steps of a rank, seen from the rank and from one of its neighbours.   *)
LEMMA LastOfNat ==
  ASSUME NEW net \in Seq(Message), NEW gt \in Nat PROVE LastOf(net, gt) \in Nat
<1>1. CASE net = <<>>
  BY <1>1 DEF LastOf
<1>2. CASE net # <<>>
  <2>1. net[Len(net)] \in Message
    BY <1>2, EmptySeq
  <2> QED BY <1>2, <2>1 DEF LastOf, Message
<1> QED BY <1>1, <1>2

LEMMA RankTake ==
  ASSUME SingleLinks, NEW r \in Ranks, NEW q \in SUBSET EventRec, NEW e, NEW now \in Nat,
         NEW uid \in Nat, NEW nid, NEW bz \in SUBSET Links, NEW safe, NEW gt, NEW p2,
         RankOK(r, "loop", q, now, uid, nid, bz, safe, gt), IsNext(q, e), e.ts <= safe,
         \A n \in Neighbours(r) : ~ Live(e, n, nid), p2 # "program"
  PROVE  /\ RankOK(r, p2, q \ {e}, e.ts, uid, nid, bz, safe, gt)
         /\ e.kind = "complete" =>
              RankOK(r, p2, q \ {e}, e.ts, uid, nid, bz \ {e.arg}, safe, gt)
<1>1. /\ EventsOK(r, q, now, uid, bz) /\ NullsOK(r, q, now, nid)
      /\ safe <= MaxTime /\ \A n \in Neighbours(r) : safe <= gt[n]
  BY DEF RankOK
<1>2. e \in q
  BY DEF IsNext
<1>3. /\ EventsOK(r, q \ {e}, e.ts, uid, bz) /\ now <= e.ts
      /\ e.kind = "complete" => EventsOK(r, q \ {e}, e.ts, uid, bz \ {e.arg})
  BY <1>1, TakeEvents
<1>4. NullsOK(r, q \ {e}, e.ts, nid)
  BY <1>1, <1>2, <1>3, TakeNulls DEF NullsOK
<1> QED BY <1>1, <1>3, <1>4 DEF RankOK

LEMMA PairTake ==
  ASSUME SingleLinks, NEW r \in Ranks, NEW n \in Neighbours(r), NEW q \in SUBSET EventRec, NEW e,
         NEW now \in Nat, NEW nid, NEW bz \in SUBSET Links, NEW safe, NEW net \in Seq(Message),
         NEW gt \in Nat, NEW p, NEW p2,
         PairOK(r, n, p, q, now, nid, bz, safe, net, gt), IsNext(q, e), ~ Live(e, n, nid)
  PROVE  /\ PairOK(r, n, p2, q \ {e}, e.ts, nid, bz, safe, net, gt)
         /\ e.kind = "complete" =>
              PairOK(r, n, p2, q \ {e}, e.ts, nid, bz \ {e.arg}, safe, net, gt)
<1>1. LastOf(net, gt) \in Nat
  BY LastOfNat
<1> QED BY <1>1, TakeKeeps DEF PairOK

LEMMA NullsMore ==
  ASSUME NEW r, NEW q, NEW q2, NEW now, NEW nid, q \subseteq q2, NullsOK(r, q, now, nid)
  PROVE  NullsOK(r, q2, now, nid)
  BY DEF NullsOK

LEMMA RankAdd ==
  ASSUME NEW r \in Ranks, NEW q \in SUBSET EventRec, NEW f \in EventRec, NEW now \in Nat,
         NEW uid \in Nat, NEW nid, NEW bz \in SUBSET Links, NEW safe, NEW gt, NEW p,
         RankOK(r, p, q, now, uid, nid, bz, safe, gt), f.kind = "user", f.uid = uid, now <= f.ts
  PROVE  RankOK(r, p, q \cup {f}, now, uid + 1, nid, bz, safe, gt)
<1>1. EventsOK(r, q, now, uid, bz)
  BY DEF RankOK
<1>2. uid + 1 \in Nat /\ uid <= f.uid /\ f.uid < uid + 1
  OBVIOUS
<1>3. f.kind # "null" /\ f.kind # "complete"
  OBVIOUS
<1>4. EventsOK(r, q \cup {f}, now, uid + 1, bz)
  BY <1>1, <1>2, <1>3, AddEvent
<1>5. p \in {"loop", "event", "receive"} => NullsOK(r, q \cup {f}, now, nid)
  BY NullsMore DEF RankOK
<1> QED BY <1>4, <1>5 DEF RankOK

LEMMA PairAdd ==
  ASSUME SingleLinks, NEW r \in Ranks, NEW n \in Neighbours(r), NEW q \in SUBSET EventRec,
         NEW f \in EventRec, NEW now \in Nat, NEW nid, NEW bz \in SUBSET Links, NEW safe \in Nat,
         NEW net \in Seq(Message), NEW gt \in Nat, NEW p,
         PairOK(r, n, p, q, now, nid, bz, safe, net, gt), f.kind = "user",
         \/ p = "event" /\ now <= f.ts
         \/ safe <= f.ts
  PROVE  PairOK(r, n, p, q \cup {f}, now, nid, bz, safe, net, gt)
<1>1. PICK g \in Nat : g = LastOf(net, gt)
  BY LastOfNat
<1>2. Keeps(r, n, q, now, p, nid, bz, g) /\ Late(r, n, g, safe)
  BY <1>1 DEF PairOK
<1>3. f.ts \in Nat
  BY FieldTypes
<1>4. Held(r, n, q, nid, bz, g) \/ Late(r, n, g, f.ts)
  <2>1. CASE safe <= f.ts
    BY <1>2, <1>3, <2>1, LateMonotone
  <2>2. CASE p = "event" /\ now <= f.ts /\ Free(r, n, q, now, p, nid, g)
    <3>1. Late(r, n, g, now)
      BY <2>2 DEF Free
    <3> QED BY <1>3, <2>2, <3>1, LateMonotone
  <2> QED BY <1>2, <2>1, <2>2 DEF Keeps
<1>5. f.kind # "null" /\ f.kind # "complete"
  OBVIOUS
<1>6. Keeps(r, n, q \cup {f}, now, p, nid, bz, g)
  BY <1>2, <1>4, <1>5, AddKeeps
<1> QED BY <1>1, <1>6 DEF PairOK

(* A new safe time. *)
LEMMA RankSafe ==
  ASSUME NEW r \in Ranks, NEW q, NEW now \in Nat, NEW uid, NEW nid, NEW bz, NEW safe \in Nat,
         NEW gt \in [Neighbours(r) -> Nat], NEW p, NEW p2, p # "program", p2 \in {"loop", "receive"},
         p \in {"loop", "receive"},
         RankOK(r, p, q, now, uid, nid, bz, safe, gt)
  PROVE  /\ RankOK(r, p2, q, now, uid, nid, bz, SafeTime(r, gt), gt)
         /\ safe <= SafeTime(r, gt)
<1>1. PICK t : t = SafeTime(r, gt)
  OBVIOUS
<1>2. t \in Nat /\ t <= MaxTime /\ \A n \in Neighbours(r) : t <= gt[n]
  BY <1>1, SafeFacts
<1>3. safe <= t
  BY <1>1, SafeFacts DEF RankOK
<1>4. now <= t
  BY <1>2, <1>3 DEF RankOK
<1>5. EventsOK(r, q, now, uid, bz) /\ NullsOK(r, q, now, nid)
  BY DEF RankOK
<1> QED BY <1>1, <1>2, <1>3, <1>4, <1>5 DEF RankOK

LEMMA PairSafe ==
  ASSUME SingleLinks, NEW r \in Ranks, NEW n \in Neighbours(r), NEW q, NEW now, NEW nid, NEW bz,
         NEW safe \in Nat, NEW safe2 \in Nat, safe <= safe2, NEW net \in Seq(Message),
         NEW gt \in Nat, NEW p, NEW p2, p2 # "event",
         PairOK(r, n, p, q, now, nid, bz, safe, net, gt)
  PROVE  PairOK(r, n, p2, q, now, nid, bz, safe2, net, gt)
<1>1. LastOf(net, gt) \in Nat
  BY LastOfNat
<1>2. Late(r, n, LastOf(net, gt), safe2)
  BY <1>1, LateMonotone DEF PairOK
<1> QED BY <1>2 DEF PairOK, Keeps, Free


Renewed(nid, n, uid) == [nid EXCEPT ![n] = uid]

Completion(l, now, tx, uid) == Event(now + tx, uid, "complete", l)
PutOff(r, n, now, uid)      == Event(now + Period(r, n), uid + 1, "null", n)
Repeated(r, n, e, uid)      == Event(e.ts + Period(r, n), uid, "null", n)

(* TransmitStart, with the device ready before. *)
LEMMA TransmitEvents ==
  ASSUME SingleLinks, NEW r \in Ranks, NEW l \in LinksOf(r), NEW n \in Ends[l] \ {r},
         NEW now \in Nat, NEW uid \in Nat, NEW tx \in Nat
  PROVE  /\ Completion(l, now, tx, uid) \in EventRec
         /\ PutOff(r, n, now, uid) \in EventRec
<1>1. n \in Neighbours(r) /\ l \in Links
  BY EndFacts
<1>2. Period(r, n) \in Nat /\ n \in Ranks
  BY <1>1, DelayFacts, NeighbourFacts
<1>3. now + tx \in Nat /\ now + Period(r, n) \in Nat /\ uid + 1 \in Nat
  BY <1>2
<1> QED BY <1>1, <1>2, <1>3 DEF Event, Completion, PutOff, Repeated, EventRec

LEMMA RankTransmit ==
  ASSUME SingleLinks, NEW r \in Ranks, NEW l \in LinksOf(r), NEW n \in Ends[l] \ {r},
         NEW q \in SUBSET EventRec, NEW now \in Nat, NEW uid \in Nat, NEW tx \in Nat,
         NEW nid \in [Neighbours(r) -> Nat], NEW bz \in SUBSET Links, l \notin bz, NEW safe, NEW gt,
         NEW c \in EventRec, NEW z \in EventRec,
         c = Completion(l, now, tx, uid), z = PutOff(r, n, now, uid),
         RankOK(r, "event", q, now, uid, nid, bz, safe, gt)
  PROVE  RankOK(r, "event", (q \cup {c}) \cup {z}, now, uid + 2, Renewed(nid, n, uid + 1),
                bz \cup {l}, safe, gt)
<1>1. n \in Neighbours(r) /\ l \in Links
  BY EndFacts
<1>2. Period(r, n) \in Nat
  BY <1>1, DelayFacts
<1>3. EventsOK(r, q, now, uid, bz) /\ NullsOK(r, q, now, nid)
  BY DEF RankOK
<1>4. c.ts = now + tx /\ c.uid = uid /\ c.kind = "complete" /\ c.arg = l
  BY DEF Event, Completion, PutOff, Repeated
<1>5. z.ts = now + Period(r, n) /\ z.uid = uid + 1 /\ z.kind = "null" /\ z.arg = n
  BY DEF Event, Completion, PutOff, Repeated
<1>6. /\ now <= c.ts /\ now <= z.ts /\ uid + 1 \in Nat /\ uid + 2 \in Nat
      /\ uid <= c.uid /\ c.uid < uid + 1 /\ uid + 1 <= z.uid /\ z.uid < uid + 2
  BY <1>2, <1>4, <1>5
<1>7. \A e \in q : e.kind = "complete" => e.arg # c.arg
  BY <1>3, <1>4 DEF EventsOK
<1>8. EventsOK(r, q \cup {c}, now, uid + 1, bz \cup {l})
  <2>1. bz \cup {l} \in SUBSET Links /\ bz \subseteq bz \cup {l} /\ c.kind # "null"
        /\ c.arg \in bz \cup {l} /\ c.arg \in LinksOf(r)
    BY <1>1, <1>4
  <2> QED BY <1>3, <1>6, <1>7, <2>1, AddEvent
<1>9. EventsOK(r, (q \cup {c}) \cup {z}, now, uid + 2, bz \cup {l})
  <2>1. bz \cup {l} \in SUBSET Links /\ z.kind # "complete" /\ z.arg \in Neighbours(r)
        /\ q \cup {c} \in SUBSET EventRec
    BY <1>1, <1>5
  <2> HIDE DEF EventsOK
  <2> QED BY <1>6, <1>8, <2>1, AddEvent
<1>10. NullsOK(r, (q \cup {c}) \cup {z}, now, Renewed(nid, n, uid + 1))
  <2> DEFINE nid2 == [nid EXCEPT ![n] = uid + 1]
  <2>1. nid2[n] = uid + 1 /\ \A k \in Neighbours(r) \ {n} : nid2[k] = nid[k]
    BY <1>1
  <2> HIDE DEF nid2, Renewed
  <2>2. ASSUME NEW k \in Neighbours(r)
        PROVE  \E e \in (q \cup {c}) \cup {z} : Live(e, k, nid2) /\ e.ts <= now + Period(r, k)
    <3>1. CASE k = n
      <4>1. Live(z, k, nid2)
        BY <1>5, <2>1, <3>1 DEF Live
      <4>2. z.ts <= now + Period(r, k)
        BY <1>2, <1>5, <3>1
      <4> QED BY <4>1, <4>2
    <3>2. CASE k # n
      <4>1. PICK e \in q : Live(e, k, nid) /\ e.ts <= now + Period(r, k)
        BY <1>3 DEF NullsOK
      <4>2. Live(e, k, nid2)
        BY <2>1, <3>2, <4>1 DEF Live
      <4> QED BY <4>1, <4>2
    <3> QED BY <3>1, <3>2
  <2>3. NullsOK(r, (q \cup {c}) \cup {z}, now, nid2)
    BY <2>2 DEF NullsOK
  <2> QED BY <2>3 DEF nid2, Renewed
<1> QED BY <1>9, <1>10 DEF RankOK

LEMMA PairTransmitOther ==
  ASSUME SingleLinks, NEW r \in Ranks, NEW l \in LinksOf(r), NEW n \in Ends[l] \ {r},
         NEW k \in Neighbours(r), k # n,
         NEW q \in SUBSET EventRec, NEW now \in Nat, NEW uid \in Nat, NEW tx \in Nat,
         NEW nid \in [Neighbours(r) -> Nat], NEW bz \in SUBSET Links, NEW safe,
         NEW net \in Seq(Message), NEW gt \in Nat,
         NEW c \in EventRec, NEW z \in EventRec,
         c = Completion(l, now, tx, uid), z = PutOff(r, n, now, uid),
         PairOK(r, k, "event", q, now, nid, bz, safe, net, gt)
  PROVE  PairOK(r, k, "event", (q \cup {c}) \cup {z}, now, Renewed(nid, n, uid + 1),
                bz \cup {l}, safe, net, gt)
<1>1. n \in Neighbours(r) /\ l \in Links /\ Ends[l] = {r, n} /\ n # r /\ k # r
  BY EndFacts, NeighbourFacts
<1>2. Period(r, n) \in Nat
  BY <1>1, DelayFacts
<1>3. PICK g \in Nat : g = LastOf(net, gt)
  BY LastOfNat
<1>4. Keeps(r, k, q, now, "event", nid, bz, g)
  BY <1>3 DEF PairOK
<1>5. c.ts = now + tx /\ c.kind = "complete" /\ c.arg = l
  BY DEF Event, Completion, PutOff, Repeated
<1>6. z.ts = now + Period(r, n) /\ z.kind = "null" /\ z.arg = n
  BY DEF Event, Completion, PutOff, Repeated
<1>7. now <= c.ts /\ now <= z.ts /\ c.ts \in Nat /\ z.ts \in Nat
  BY <1>2, <1>5, <1>6
<1>8. Ends[c.arg] # {r, k} /\ c.kind # "null" /\ z.kind # "complete" /\ z.arg # k
  BY <1>1, <1>5, <1>6
<1> DEFINE nid2 == [nid EXCEPT ![n] = uid + 1]
<1>9. nid2[k] = nid[k]
  BY <1>1
<1> HIDE DEF nid2, Renewed
<1>10. bz \cup {l} \in SUBSET Links /\ bz \subseteq bz \cup {l} /\ q \cup {c} \in SUBSET EventRec
  BY <1>1
<1>11. CASE Held(r, k, q, nid, bz, g)
  <2>1. \A e \in (q \cup {c}) \cup {z} :
          Live(e, k, nid2) \/ (e.kind = "complete" /\ Ends[e.arg] = {r, k}) =>
            e \in q /\ (Live(e, k, nid) \/ (e.kind = "complete" /\ Ends[e.arg] = {r, k}))
    BY <1>5, <1>6, <1>8, <1>9 DEF Live
  <2>2. Held(r, k, (q \cup {c}) \cup {z}, nid2, bz \cup {l}, g)
    BY <1>11, <2>1 DEF Held
  <2> QED BY <1>3, <2>2 DEF PairOK, Keeps, nid2, Renewed
<1>12. CASE Free(r, k, q, now, "event", nid, g)
  <2>1. Late(r, k, g, now)
    BY <1>12 DEF Free
  <2>2. Late(r, k, g, c.ts) /\ Late(r, k, g, z.ts)
    BY <1>7, <2>1, LateMonotone
  <2>3. \A e \in q : Live(e, k, nid) => Live(e, k, nid2)
    BY <1>9 DEF Live
  <2>4. Free(r, k, (q \cup {c}) \cup {z}, now, "event", nid2, g)
    BY <1>12, <2>1, <2>2, <2>3 DEF Free
  <2> QED BY <1>3, <2>4 DEF PairOK, Keeps, nid2, Renewed
<1> QED BY <1>4, <1>11, <1>12 DEF Keeps

LEMMA PairTransmitSelf ==
  ASSUME SingleLinks, NEW r \in Ranks, NEW l \in LinksOf(r), NEW n \in Ends[l] \ {r},
         NEW q \in SUBSET EventRec, NEW now \in Nat, NEW uid \in Nat, NEW tx \in Nat,
         NEW nid \in [Neighbours(r) -> Nat], NEW bz \in SUBSET Links, l \notin bz, NEW safe \in Nat,
         NEW net \in Seq(Message), NEW gt \in Nat, NEW gts,
         NEW c \in EventRec, NEW z \in EventRec,
         c = Completion(l, now, tx, uid), z = PutOff(r, n, now, uid),
         NEW next, IsNext(q \cup {c}, next),
         RankOK(r, "event", q, now, uid, nid, bz, safe, gts),
         PairOK(r, n, "event", q, now, nid, bz, safe, net, gt)
  PROVE  LET m == Packet(now + tx + Delay[l], Min(next.ts, safe) + BundleDelay(r, n))
         IN  m \in Message /\
             PairOK(r, n, "event", (q \cup {c}) \cup {z}, now, Renewed(nid, n, uid + 1),
                    bz \cup {l}, safe, Append(net, m), gt)
<1>1. n \in Neighbours(r) /\ l \in Links /\ Ends[l] = {r, n}
  BY EndFacts
<1>2. PICK d \in Nat : d = BundleDelay(r, n) /\ d = Delay[l]
  BY <1>1, DelayFacts
<1>3. PICK per \in Nat : per = Period(r, n)
  BY <1>1, DelayFacts
<1>4. PICK g \in Nat : g = LastOf(net, gt)
  BY LastOfNat
<1>5. Keeps(r, n, q, now, "event", nid, bz, g) /\ Late(r, n, g, safe) /\ Chain(net, gt)
  BY <1>4 DEF PairOK
<1>6. ~ Held(r, n, q, nid, bz, g)
  BY <1>1 DEF Held, SingleLinks
<1>7. g <= now + d /\ g <= safe + d
  BY <1>2, <1>5, <1>6 DEF Keeps, Free, Late
<1>8. c.ts = now + tx /\ c.kind = "complete" /\ c.arg = l /\ c.uid = uid
  BY DEF Event, Completion, PutOff, Repeated
<1>9. z.ts = now + per /\ z.kind = "null" /\ z.arg = n /\ z.uid = uid + 1
  BY <1>3 DEF Event, Completion, PutOff, Repeated
<1>10. EventsOK(r, q, now, uid, bz) /\ NullsOK(r, q, now, nid)
  BY DEF RankOK
<1>11. next \in q \cup {c} /\ next \in EventRec /\ \A f \in q \cup {c} : next.ts <= f.ts
  <2>1. q \cup {c} \in SUBSET EventRec
    OBVIOUS
  <2> QED BY <2>1, NextIsFirst
<1>12. PICK t \in Nat : t = next.ts
  BY <1>11, FieldTypes
<1>13. now <= t
  BY <1>8, <1>10, <1>11, <1>12 DEF EventsOK
<1>14. t <= now + per
  <2>1. PICK e \in q : e.ts <= now + Period(r, n)
    BY <1>1, <1>10 DEF NullsOK
  <2>2. e.ts \in Nat /\ t <= e.ts
    BY <1>11, <1>12, FieldTypes
  <2> QED BY <1>3, <2>1, <2>2
<1>15. PICK u : u = Min(t, safe)
  OBVIOUS
<1>16. u \in Nat /\ u <= t /\ u <= safe /\ g <= u + d
  BY <1>7, <1>13, <1>15 DEF Min
<1>17. PICK m : m = Packet(now + tx + d, u + d)
  OBVIOUS
<1>18. m.rxTime = now + tx + d /\ m.guarantee = u + d
  BY <1>17 DEF Packet
<1>19. now + tx + d \in Nat /\ u + d \in Nat
  BY <1>16
<1>20. m \in Message
  BY <1>17, <1>19 DEF Packet, Message
<1>21. g <= m.guarantee /\ g <= m.rxTime
  BY <1>7, <1>16, <1>18
<1>22. Chain(Append(net, m), gt) /\ LastOf(Append(net, m), gt) = u + d
  BY <1>4, <1>5, <1>18, <1>20, <1>21, ChainAppend
<1>23. Late(r, n, u + d, safe)
  BY <1>2, <1>16 DEF Late
<1> DEFINE nid2 == [nid EXCEPT ![n] = uid + 1]
<1>24. nid2[n] = uid + 1
  BY <1>1
<1> HIDE DEF nid2, Renewed
<1>25. \A e \in q : ~ Live(e, n, nid2)
  <2>1. \A e \in q : e.uid \in Nat /\ e.uid < uid
    BY <1>10, FieldTypes DEF EventsOK
  <2>2. \A e \in q : e.uid # uid + 1
    BY <2>1
  <2> QED BY <1>24, <2>2 DEF Live
<1>26. ASSUME NEW e \in (q \cup {c}) \cup {z},
              Live(e, n, nid2) \/ (e.kind = "complete" /\ Ends[e.arg] = {r, n})
       PROVE  Late(r, n, u + d, e.ts)
  <2>1. e.ts \in Nat
    BY FieldTypes
  <2>2. CASE e \in q \cup {c}
    <3>1. t <= e.ts
      BY <1>11, <1>12, <2>2
    <3> QED BY <1>2, <1>16, <2>1, <3>1 DEF Late
  <2>3. CASE e = z
    BY <1>2, <1>9, <1>14, <1>16, <2>3 DEF Late
  <2> QED BY <2>2, <2>3
<1>27. Held(r, n, (q \cup {c}) \cup {z}, nid2, bz \cup {l}, u + d)
  BY <1>1, <1>26 DEF Held
<1>28. PairOK(r, n, "event", (q \cup {c}) \cup {z}, now, nid2, bz \cup {l}, safe, Append(net, m), gt)
  BY <1>22, <1>23, <1>27 DEF PairOK, Keeps
<1> QED BY <1>2, <1>12, <1>15, <1>17, <1>20, <1>28 DEF nid2, Renewed


(* NullMessageEventHandler, for the bundle of n. *)
LEMMA RankNull ==
  ASSUME SingleLinks, NEW r \in Ranks, NEW n \in Neighbours(r), NEW q \in SUBSET EventRec, NEW e,
         NEW now \in Nat, NEW uid \in Nat, NEW nid \in [Neighbours(r) -> Nat],
         NEW bz \in SUBSET Links, NEW safe, NEW gt,
         RankOK(r, "loop", q, now, uid, nid, bz, safe, gt), IsNext(q, e), e.ts <= safe,
         Live(e, n, nid), NEW z, z = Repeated(r, n, e, uid)
  PROVE  /\ z \in EventRec
         /\ RankOK(r, "receive", (q \ {e}) \cup {z}, e.ts, uid + 1, Renewed(nid, n, uid), bz,
                   safe, gt)
<1>1. /\ EventsOK(r, q, now, uid, bz) /\ NullsOK(r, q, now, nid)
      /\ safe <= MaxTime /\ \A k \in Neighbours(r) : safe <= gt[k]
  BY DEF RankOK
<1>2. e \in q /\ e.ts \in Nat
  BY NextIsFirst, FieldTypes
<1>3. EventsOK(r, q \ {e}, e.ts, uid, bz) /\ now <= e.ts
  BY <1>1, TakeEvents
<1>4. PICK per \in Nat : per = Period(r, n)
  BY DelayFacts
<1>5. e.ts + per \in Nat /\ n \in Ranks
  BY <1>2, NeighbourFacts
<1>6. z \in EventRec
  BY <1>4, <1>5 DEF Event, Completion, PutOff, Repeated, EventRec
<1>7. z.ts = e.ts + per /\ z.uid = uid /\ z.kind = "null" /\ z.arg = n
  BY <1>4 DEF Event, Completion, PutOff, Repeated
<1>8. /\ e.ts <= z.ts /\ uid <= z.uid /\ z.uid < uid + 1 /\ uid + 1 \in Nat
      /\ q \ {e} \in SUBSET EventRec
  BY <1>2, <1>7
<1>9. EventsOK(r, (q \ {e}) \cup {z}, e.ts, uid + 1, bz)
  <2>1. z.kind # "complete" /\ z.arg \in Neighbours(r) /\ bz \subseteq bz
    BY <1>7
  <2> QED BY <1>2, <1>3, <1>6, <1>8, <2>1, AddEvent
<1> DEFINE nid2 == [nid EXCEPT ![n] = uid]
<1>10. nid2[n] = uid /\ \A k \in Neighbours(r) \ {n} : nid2[k] = nid[k]
  OBVIOUS
<1> HIDE DEF nid2, Renewed
<1>11. ASSUME NEW k \in Neighbours(r)
       PROVE  \E f \in (q \ {e}) \cup {z} : Live(f, k, nid2) /\ f.ts <= e.ts + Period(r, k)
  <2>1. CASE k = n
    <3>1. Live(z, k, nid2)
      BY <1>7, <1>10, <2>1 DEF Live
    <3>2. z.ts <= e.ts + Period(r, k)
      BY <1>2, <1>4, <1>7, <2>1
    <3> QED BY <3>1, <3>2
  <2>2. CASE k # n
    <3>1. ~ Live(e, k, nid)
      BY <2>2 DEF Live
    <3>2. PICK f \in q \ {e} : Live(f, k, nid) /\ f.ts <= e.ts + Period(r, k)
      BY <1>1, <1>2, <1>3, <3>1, TakeNulls
    <3>3. Live(f, k, nid2)
      BY <1>10, <2>2, <3>2 DEF Live
    <3> QED BY <3>2, <3>3
  <2> QED BY <2>1, <2>2
<1>12. NullsOK(r, (q \ {e}) \cup {z}, e.ts, nid2)
  BY <1>11 DEF NullsOK
<1> QED BY <1>1, <1>6, <1>9, <1>12 DEF RankOK, nid2, Renewed

LEMMA PairNullOther ==
  ASSUME SingleLinks, NEW r \in Ranks, NEW n \in Neighbours(r), NEW k \in Neighbours(r), k # n,
         NEW q \in SUBSET EventRec, NEW e, NEW now \in Nat, NEW uid \in Nat,
         NEW nid \in [Neighbours(r) -> Nat], NEW bz \in SUBSET Links, NEW safe,
         NEW net \in Seq(Message), NEW gt \in Nat,
         PairOK(r, k, "loop", q, now, nid, bz, safe, net, gt), IsNext(q, e), Live(e, n, nid),
         NEW z \in EventRec, z = Repeated(r, n, e, uid)
  PROVE  PairOK(r, k, "receive", (q \ {e}) \cup {z}, e.ts, Renewed(nid, n, uid), bz, safe,
                net, gt)
<1>1. PICK g \in Nat : g = LastOf(net, gt)
  BY LastOfNat
<1>2. e \in q /\ e.ts \in Nat
  BY NextIsFirst, FieldTypes
<1>3. ~ Live(e, k, nid)
  BY DEF Live
<1>4. Keeps(r, k, q, now, "loop", nid, bz, g)
  BY <1>1 DEF PairOK
<1>5. Keeps(r, k, q \ {e}, e.ts, "event", nid, bz, g)
  BY <1>2, <1>3, <1>4, TakeKeeps
<1>6. Period(r, n) \in Nat
  BY DelayFacts
<1>7. z.ts = e.ts + Period(r, n) /\ z.kind = "null" /\ z.arg = n
  BY DEF Event, Completion, PutOff, Repeated
<1>8. z.ts \in Nat /\ e.ts <= z.ts
  BY <1>2, <1>6, <1>7
<1>9. Held(r, k, q \ {e}, nid, bz, g) \/ Late(r, k, g, z.ts)
  <2>1. CASE Free(r, k, q \ {e}, e.ts, "event", nid, g)
    <3>1. Late(r, k, g, e.ts)
      BY <2>1 DEF Free
    <3> QED BY <1>2, <1>8, <3>1, LateMonotone
  <2> QED BY <1>5, <2>1 DEF Keeps
<1> DEFINE nid2 == [nid EXCEPT ![n] = uid]
<1>10. nid2[k] = nid[k]
  OBVIOUS
<1> HIDE DEF nid2, Renewed
<1>11. Keeps(r, k, (q \ {e}) \cup {z}, e.ts, "event", nid2, bz, g)
  <2>1. q \ {e} \in SUBSET EventRec /\ z.kind # "complete" /\ z.arg # k /\ bz \subseteq bz
    BY <1>7
  <2> QED BY <1>2, <1>5, <1>9, <1>10, <2>1, AddKeeps
<1>12. Keeps(r, k, (q \ {e}) \cup {z}, e.ts, "receive", nid2, bz, g)
  BY <1>11 DEF Keeps, Free
<1> QED BY <1>1, <1>12 DEF PairOK, nid2, Renewed

LEMMA PairNullSelf ==
  ASSUME SingleLinks, NEW r \in Ranks, NEW n \in Neighbours(r), NEW q \in SUBSET EventRec, NEW e,
         NEW now \in Nat, NEW uid \in Nat, NEW nid \in [Neighbours(r) -> Nat],
         NEW bz \in SUBSET Links, NEW safe \in Nat, NEW net \in Seq(Message), NEW gt \in Nat,
         EventsOK(r, q, now, uid, bz),
         PairOK(r, n, "loop", q, now, nid, bz, safe, net, gt), IsNext(q, e), Live(e, n, nid),
         NEW next, IsNext(q \ {e}, next),
         NEW z \in EventRec, z = Repeated(r, n, e, uid)
  PROVE  LET m == NullMsg(Min(next.ts, safe) + BundleDelay(r, n))
         IN  m \in Message /\
             PairOK(r, n, "receive", (q \ {e}) \cup {z}, e.ts, Renewed(nid, n, uid), bz, safe,
                    Append(net, m), gt)
<1>1. PICK g \in Nat : g = LastOf(net, gt)
  BY LastOfNat
<1>2. PICK d \in Nat : d = BundleDelay(r, n)
  BY DelayFacts
<1>3. e \in q /\ e.ts \in Nat /\ \A f \in q : e.ts <= f.ts
  BY NextIsFirst, FieldTypes
<1>4. next \in q \ {e} /\ next \in EventRec /\ \A f \in q \ {e} : next.ts <= f.ts
  <2>1. q \ {e} \in SUBSET EventRec
    OBVIOUS
  <2> QED BY <2>1, NextIsFirst
<1>5. PICK t \in Nat : t = next.ts
  BY <1>4, FieldTypes
<1>6. Keeps(r, n, q, now, "loop", nid, bz, g) /\ Late(r, n, g, safe) /\ Chain(net, gt)
  BY <1>1 DEF PairOK
<1>7. g <= safe + d /\ g <= t + d
  <2>1. g <= safe + d
    BY <1>2, <1>6 DEF Late
  <2>2. CASE Free(r, n, q, now, "loop", nid, g)
    <3>1. next.uid # e.uid
      BY <1>3, <1>4 DEF EventsOK
    <3>2. ~ Live(next, n, nid)
      BY <3>1 DEF Live
    <3>3. Late(r, n, g, next.ts)
      BY <1>4, <2>2, <3>2 DEF Free
    <3> QED BY <1>2, <1>5, <2>1, <3>3 DEF Late
  <2>3. CASE Held(r, n, q, nid, bz, g)
    <3>1. Late(r, n, g, e.ts)
      BY <1>3, <2>3 DEF Held
    <3>2. e.ts <= t
      BY <1>3, <1>4, <1>5
    <3> QED BY <1>2, <1>3, <2>1, <3>1, <3>2 DEF Late
  <2> QED BY <1>6, <2>2, <2>3 DEF Keeps
<1>8. PICK u : u = Min(t, safe)
  OBVIOUS
<1>9. u \in Nat /\ u <= t /\ u <= safe /\ g <= u + d
  BY <1>7, <1>8 DEF Min
<1>10. PICK m : m = NullMsg(u + d)
  OBVIOUS
<1>11. m.rxTime = 0 /\ m.guarantee = u + d
  BY <1>10 DEF NullMsg, Packet
<1>12. u + d \in Nat
  BY <1>9
<1>13. m \in Message
  BY <1>10, <1>12 DEF NullMsg, Packet, Message
<1>14. g <= m.guarantee /\ ~ (m.rxTime > 0)
  BY <1>9, <1>11
<1>15. Chain(Append(net, m), gt) /\ LastOf(Append(net, m), gt) = u + d
  BY <1>1, <1>6, <1>11, <1>13, <1>14, ChainAppend
<1>16. Late(r, n, u + d, safe)
  BY <1>2, <1>9 DEF Late
<1> DEFINE nid2 == [nid EXCEPT ![n] = uid]
<1>17. Live(z, n, nid2)
  BY DEF Live, Event, Completion, PutOff, Repeated
<1> HIDE DEF nid2, Renewed
<1>18. ASSUME NEW f \in q \ {e} PROVE Late(r, n, u + d, f.ts)
  <2>1. f.ts \in Nat /\ t <= f.ts
    BY <1>4, <1>5, FieldTypes
  <2> QED BY <1>2, <1>9, <2>1 DEF Late
<1>19. Free(r, n, (q \ {e}) \cup {z}, e.ts, "receive", nid2, u + d)
  BY <1>17, <1>18 DEF Free
<1>20. PairOK(r, n, "receive", (q \ {e}) \cup {z}, e.ts, nid2, bz, safe, Append(net, m), gt)
  BY <1>15, <1>16, <1>19 DEF PairOK, Keeps
<1> QED BY <1>2, <1>5, <1>8, <1>10, <1>13, <1>20 DEF nid2, Renewed

(* Run, up to its loop. *)
Below(r, n) == {k \in Neighbours(r) : k < n}

NullUids(r, uid) == [n \in Neighbours(r) |-> uid + 1 + Cardinality(Below(r, n))]

NullEvents(r, now, uids) ==
  {Event(now + Period(r, n), uids[n], "null", n) : n \in Neighbours(r)}

LEMMA BelowFacts ==
  ASSUME NEW r \in Ranks
  PROVE  /\ Cardinality(Neighbours(r)) \in Nat
         /\ \A n \in Neighbours(r) : /\ Cardinality(Below(r, n)) \in Nat
                                     /\ Cardinality(Below(r, n)) < Cardinality(Neighbours(r))
         /\ \A n, k \in Neighbours(r) :
              Cardinality(Below(r, n)) = Cardinality(Below(r, k)) => n = k
<1>1. IsFiniteSet(Neighbours(r)) /\ Neighbours(r) \subseteq Nat
  <2>1. Neighbours(r) \in SUBSET Ranks
    BY DEF Neighbours
  <2> QED BY <2>1, FS_Subset, NullMessageAssumption
<1>2. Cardinality(Neighbours(r)) \in Nat
  BY <1>1, FS_CardinalityType
<1>3. \A S \in SUBSET Neighbours(r) : IsFiniteSet(S) /\ Cardinality(S) \in Nat
  BY <1>1, FS_Subset, FS_CardinalityType
<1>4. ASSUME NEW T \in SUBSET Neighbours(r), NEW S \in SUBSET T, S # T
      PROVE  Cardinality(S) < Cardinality(T)
  <2>1. IsFiniteSet(T) /\ Cardinality(T) \in Nat /\ Cardinality(S) \in Nat
    <3>1. S \in SUBSET Neighbours(r)
      OBVIOUS
    <3> QED BY <1>3, <3>1
  <2>2. Cardinality(S) <= Cardinality(T) /\ Cardinality(S) # Cardinality(T)
    BY <1>4, <2>1, FS_Subset
  <2> QED BY <2>1, <2>2
<1>5. \A n \in Neighbours(r) : Below(r, n) \in SUBSET Neighbours(r) /\ n \notin Below(r, n)
  BY <1>1 DEF Below
<1>6. ASSUME NEW n \in Neighbours(r)
      PROVE  /\ Cardinality(Below(r, n)) \in Nat
             /\ Cardinality(Below(r, n)) < Cardinality(Neighbours(r))
  <2>1. Below(r, n) # Neighbours(r)
    BY <1>5
  <2> QED BY <1>3, <1>4, <1>5, <2>1
<1>7. ASSUME NEW n \in Neighbours(r), NEW k \in Neighbours(r), n < k
      PROVE  Cardinality(Below(r, n)) < Cardinality(Below(r, k))
  <2>1. Below(r, n) \in SUBSET Below(r, k) /\ n \in Below(r, k)
    BY <1>1, <1>7 DEF Below
  <2>2. Below(r, n) # Below(r, k)
    BY <1>5, <2>1
  <2> QED BY <1>4, <1>5, <2>1, <2>2
<1>8. ASSUME NEW n \in Neighbours(r), NEW k \in Neighbours(r),
             Cardinality(Below(r, n)) = Cardinality(Below(r, k))
      PROVE  n = k
  <2>1. n \in Nat /\ k \in Nat
    BY <1>1
  <2>2. n < k \/ n = k \/ k < n
    BY <2>1
  <2>3. Cardinality(Below(r, n)) \in Nat /\ Cardinality(Below(r, k)) \in Nat
    BY <1>6
  <2> QED BY <1>7, <1>8, <2>2, <2>3
<1> QED BY <1>2, <1>6, <1>8

LEMMA RankRun ==
  ASSUME SingleLinks, NEW r \in Ranks, NEW q \in SUBSET EventRec, NEW now \in Nat,
         NEW uid \in Nat, NEW nid, NEW bz \in SUBSET Links, NEW safe, NEW gt,
         RankOK(r, "program", q, now, uid, nid, bz, safe, gt), now <= StopTime,
         NEW s, s = Event(StopTime, uid, "stop", NoArg),
         NEW nullUid, nullUid = NullUids(r, uid), NEW Z, Z = NullEvents(r, now, nullUid)
  PROVE  /\ (q \cup {s}) \cup Z \in SUBSET EventRec /\ nullUid \in [Neighbours(r) -> Nat]
         /\ RankOK(r, "loop", (q \cup {s}) \cup Z, now, uid + 1 + Cardinality(Neighbours(r)),
                   nullUid, bz, safe, gt)
<1>1. PICK c \in Nat : c = Cardinality(Neighbours(r))
  BY BelowFacts
<1>2. PICK b : b = [n \in Neighbours(r) |-> Cardinality(Below(r, n))]
  OBVIOUS
<1>3. /\ \A n \in Neighbours(r) : b[n] \in Nat /\ b[n] < c
      /\ \A n, k \in Neighbours(r) : b[n] = b[k] => n = k
  BY <1>1, <1>2, BelowFacts
<1>4. \A n \in Neighbours(r) : nullUid[n] = uid + 1 + b[n]
  BY <1>2 DEF NullUids
<1>5. /\ \A n \in Neighbours(r) : nullUid[n] \in Nat /\ uid < nullUid[n] /\ nullUid[n] < uid + 1 + c
      /\ \A n, k \in Neighbours(r) : nullUid[n] = nullUid[k] => n = k
  BY <1>3, <1>4
<1>6. \A n \in Neighbours(r) : Period(r, n) \in Nat /\ n \in Ranks /\ now + Period(r, n) \in Nat
                               /\ now <= now + Period(r, n)
  BY DelayFacts, NeighbourFacts
<1>7. ASSUME NEW z \in Z
      PROVE  /\ z \in EventRec /\ now <= z.ts /\ uid < z.uid /\ z.uid < uid + 1 + c
             /\ z.kind = "null" /\ z.arg \in Neighbours(r) /\ z.uid = nullUid[z.arg]
             /\ z = Event(now + Period(r, z.arg), nullUid[z.arg], "null", z.arg)
  <2>1. PICK n \in Neighbours(r) : z = Event(now + Period(r, n), nullUid[n], "null", n)
    BY DEF NullEvents
  <2>2. z.ts = now + Period(r, n) /\ z.uid = nullUid[n] /\ z.kind = "null" /\ z.arg = n
    BY <2>1 DEF Event
  <2>3. z \in EventRec
    BY <1>5, <1>6, <2>1 DEF Event, EventRec
  <2> QED BY <1>5, <1>6, <2>1, <2>2, <2>3
<1>8. s \in EventRec /\ s.ts = StopTime /\ s.uid = uid /\ s.kind = "stop"
  BY NullMessageAssumption DEF Event, EventRec
<1>9. EventsOK(r, q, now, uid, bz) /\ now <= safe /\ safe <= MaxTime
      /\ \A n \in Neighbours(r) : safe <= gt[n]
  BY DEF RankOK
<1>10. uid + 1 \in Nat /\ uid + 1 + c \in Nat /\ uid < uid + 1 + c
  OBVIOUS
<1>11. EventsOK(r, q \cup {s}, now, uid + 1, bz)
  <2>1. bz \subseteq bz /\ s.kind # "null" /\ s.kind # "complete" /\ uid <= s.uid /\ s.uid < uid + 1
        /\ now <= s.ts
    BY <1>8
  <2> QED BY <1>8, <1>9, <1>10, <2>1, AddEvent
<1> DEFINE q2 == q \cup {s}
<1>12. q2 \in SUBSET EventRec /\ EventsOK(r, q2, now, uid + 1, bz)
  BY <1>8, <1>11
<1> HIDE DEF q2
<1>13. EventsOK(r, q2 \cup Z, now, uid + 1 + c, bz)
  <2>1. \A e \in q2 : e.uid \in Nat /\ e.uid < uid + 1 /\ now <= e.ts
    BY <1>12, FieldTypes DEF EventsOK
  <2>2. \A e \in q2 : e.uid < uid + 1 + c
    BY <2>1
  <2>3. \A e \in q2, z \in Z : e.uid # z.uid
    <3>1. \A z \in Z : z.uid \in Nat /\ uid < z.uid
      BY <1>7, FieldTypes
    <3> QED BY <2>1, <3>1
  <2>4. \A y, z \in Z : y.uid = z.uid => y = z
    BY <1>5, <1>7
  <2>5. \A e \in q2 \cup Z : now <= e.ts /\ e.uid < uid + 1 + c
    BY <1>7, <2>1, <2>2
  <2>6. \A e, f \in q2 \cup Z : e.uid = f.uid => e = f
    BY <1>12, <2>3, <2>4 DEF EventsOK
  <2>7. \A e \in q2 \cup Z : e.kind = "complete" => e \in q2
    BY <1>7
  <2>8. \A e \in q2 \cup Z : e.kind = "null" => e.arg \in Neighbours(r)
    BY <1>7, <1>12 DEF EventsOK
  <2> QED BY <1>12, <2>5, <2>6, <2>7, <2>8 DEF EventsOK
<1>14. NullsOK(r, q2 \cup Z, now, nullUid)
  <2>1. ASSUME NEW n \in Neighbours(r)
        PROVE  \E e \in q2 \cup Z : Live(e, n, nullUid) /\ e.ts <= now + Period(r, n)
    <3>1. PICK z : z = Event(now + Period(r, n), nullUid[n], "null", n)
      OBVIOUS
    <3>2. z \in Z
      BY <3>1 DEF NullEvents
    <3>3. Live(z, n, nullUid) /\ z.ts = now + Period(r, n)
      BY <3>1 DEF Live, Event
    <3>4. z.ts <= now + Period(r, n)
      BY <1>6, <3>3
    <3> QED BY <3>2, <3>3, <3>4
  <2> QED BY <2>1 DEF NullsOK
<1>15. RankOK(r, "loop", q2 \cup Z, now, uid + 1 + c, nullUid, bz, safe, gt)
  BY <1>9, <1>13, <1>14 DEF RankOK
<1>16. q2 \cup Z \in SUBSET EventRec
  BY <1>7, <1>12
<1>17. nullUid \in [Neighbours(r) -> Nat]
  BY <1>5 DEF NullUids
<1> QED BY <1>1, <1>15, <1>16, <1>17 DEF q2

LEMMA PairRun ==
  ASSUME SingleLinks, NEW r \in Ranks, NEW n \in Neighbours(r), NEW q, NEW now, NEW nid,
         NEW bz, NEW q2 \in SUBSET EventRec, NEW nid2,
         NEW net \in Seq(Message), NEW gt \in Nat,
         PairOK(r, n, "program", q, now, nid, bz, 0, net, gt)
  PROVE  LET m == NullMsg(BundleDelay(r, n))
         IN  m \in Message /\ PairOK(r, n, "loop", q2, now, nid2, bz, 0, Append(net, m), gt)
<1>1. PICK g \in Nat : g = LastOf(net, gt)
  BY LastOfNat
<1>2. PICK d \in Nat : d = BundleDelay(r, n)
  BY DelayFacts
<1>3. g <= d /\ Chain(net, gt)
  BY <1>1, <1>2 DEF PairOK, Late
<1>4. PICK m : m = NullMsg(d)
  OBVIOUS
<1>5. m.rxTime = 0 /\ m.guarantee = d /\ m \in Message
  BY <1>4 DEF NullMsg, Packet, Message
<1>6. Chain(Append(net, m), gt) /\ LastOf(Append(net, m), gt) = d
  BY <1>1, <1>3, <1>5, ChainAppend
<1>7. \A t \in Nat : Late(r, n, d, t)
  BY <1>2 DEF Late
<1>8. \A e \in q2 : Late(r, n, d, e.ts)
  BY <1>7, FieldTypes
<1>9. Free(r, n, q2, now, "loop", nid2, d)
  BY <1>8 DEF Free
<1> QED BY <1>2, <1>4, <1>5, <1>6, <1>7, <1>9 DEF PairOK, Keeps

-----------------------------------------------------------------------------
(* A step of rank r: what becomes of its own state, the others' staying.     *)
Becomes(r, p, q, now, uid, nid, bz, safe, gt) ==
  /\ pc'[r] = p /\ m_events'[r] = q /\ m_currentTs'[r] = now /\ m_uid'[r] = uid
  /\ m_nullEventId'[r] = nid /\ busy'[r] = bz /\ m_safeTime'[r] = safe /\ m_guaranteeTime'[r] = gt
  /\ \A s \in Ranks \ {r} :
       /\ pc'[s] = pc[s] /\ m_events'[s] = m_events[s] /\ m_currentTs'[s] = m_currentTs[s]
       /\ m_uid'[s] = m_uid[s] /\ m_nullEventId'[s] = m_nullEventId[s] /\ busy'[s] = busy[s]
       /\ m_safeTime'[s] = m_safeTime[s] /\ m_guaranteeTime'[s] = m_guaranteeTime[s]

LEMMA Frame ==
  ASSUME NInv, Domains', NEW r \in Ranks, NEW p, NEW q, NEW now, NEW uid, NEW nid, NEW bz,
         NEW safe, NEW gt, Becomes(r, p, q, now, uid, nid, bz, safe, gt),
         TypesOf(r, p, q, now, uid, nid, bz, safe, gt),
         \A s \in Ranks : network'[s] \in [Neighbours(s) -> Seq(Message)],
         \A s \in Ranks \ {r} : \A n \in Neighbours(s) \ {r} : network'[s][n] = network[s][n],
         RankOK(r, p, q, now, uid, nid, bz, safe, gt),
         \A n \in Neighbours(r) :
           /\ PairOK(r, n, p, q, now, nid, bz, safe, network'[r][n], m_guaranteeTime[n][r])
           /\ PairOK(n, r, pc[n], m_events[n], m_currentTs[n], m_nullEventId[n], busy[n],
                     m_safeTime[n], network'[n][r], gt[n])
  PROVE  NInv'
<1>1. Types'
  <2>1. ASSUME NEW s \in Ranks
        PROVE  /\ TypesOf(s, pc'[s], m_events'[s], m_currentTs'[s], m_uid'[s], m_nullEventId'[s],
                          busy'[s], m_safeTime'[s], m_guaranteeTime'[s])
               /\ network'[s] \in [Neighbours(s) -> Seq(Message)]
    <3>1. CASE s = r
      BY <3>1 DEF Becomes
    <3>2. CASE s # r
      BY <3>2 DEF Becomes, NInv, Types
    <3> QED BY <3>1, <3>2
  <2> QED BY <2>1 DEF Types
<1>2. ASSUME NEW s \in Ranks
      PROVE  RankOK(s, pc'[s], m_events'[s], m_currentTs'[s], m_uid'[s], m_nullEventId'[s],
                    busy'[s], m_safeTime'[s], m_guaranteeTime'[s])
  <2>1. CASE s = r
    BY <2>1 DEF Becomes
  <2>2. CASE s # r
    <3>1. RankInv(s)
      BY DEF NInv
    <3> QED BY <2>2, <3>1 DEF Becomes, RankInv
  <2> QED BY <2>1, <2>2
<1>3. ASSUME NEW s \in Ranks, NEW n \in Neighbours(s)
      PROVE  PairOK(s, n, pc'[s], m_events'[s], m_currentTs'[s], m_nullEventId'[s], busy'[s],
                    m_safeTime'[s], network'[s][n], m_guaranteeTime'[n][s])
  <2>1. n \in Ranks /\ n # s /\ s \in Neighbours(n)
    BY NeighbourFacts
  <2>2. CASE s = r
    <3>1. m_guaranteeTime'[n] = m_guaranteeTime[n]
      BY <2>1, <2>2 DEF Becomes
    <3>2. PairOK(r, n, p, q, now, nid, bz, safe, network'[r][n], m_guaranteeTime[n][r])
      BY <2>2
    <3> QED BY <2>2, <3>1, <3>2 DEF Becomes
  <2>3. CASE n = r
    <3>1. PairOK(s, r, pc[s], m_events[s], m_currentTs[s], m_nullEventId[s], busy[s],
                 m_safeTime[s], network'[s][r], gt[s])
      BY <2>1, <2>3
    <3> QED BY <2>1, <2>3, <3>1 DEF Becomes
  <2>4. CASE s # r /\ n # r
    <3>1. PairInv(s, n)
      BY DEF NInv
    <3>2. network'[s][n] = network[s][n]
      BY <2>4
    <3>3. m_guaranteeTime'[n] = m_guaranteeTime[n]
      BY <2>1, <2>4 DEF Becomes
    <3> QED BY <2>4, <3>1, <3>2, <3>3 DEF Becomes, PairInv
  <2> QED BY <2>2, <2>3, <2>4
<1> QED BY <1>1, <1>2, <1>3 DEF NInv, RankInv, PairInv

(* The same where r has received nothing. *)
LEMMA LocalFrame ==
  ASSUME NInv, Domains', NEW r \in Ranks, NEW p, NEW q, NEW now, NEW uid, NEW nid, NEW bz,
         NEW safe, Becomes(r, p, q, now, uid, nid, bz, safe, m_guaranteeTime[r]),
         TypesOf(r, p, q, now, uid, nid, bz, safe, m_guaranteeTime[r]),
         network'[r] \in [Neighbours(r) -> Seq(Message)],
         \A s \in Ranks \ {r} : network'[s] = network[s],
         RankOK(r, p, q, now, uid, nid, bz, safe, m_guaranteeTime[r]),
         \A n \in Neighbours(r) :
           PairOK(r, n, p, q, now, nid, bz, safe, network'[r][n], m_guaranteeTime[n][r])
  PROVE  NInv'
<1>1. \A s \in Ranks : network'[s] \in [Neighbours(s) -> Seq(Message)]
  BY DEF NInv, Types
<1>2. \A s \in Ranks \ {r} : \A n \in Neighbours(s) \ {r} : network'[s][n] = network[s][n]
  OBVIOUS
<1>3. ASSUME NEW n \in Neighbours(r)
      PROVE  PairOK(n, r, pc[n], m_events[n], m_currentTs[n], m_nullEventId[n], busy[n],
                    m_safeTime[n], network'[n][r], m_guaranteeTime[r][n])
  <2>1. n \in Ranks /\ n # r /\ r \in Neighbours(n)
    BY NeighbourFacts
  <2>2. PairInv(n, r) /\ network'[n] = network[n]
    BY <2>1 DEF NInv
  <2> QED BY <2>2 DEF PairInv
<1> QED BY <1>1, <1>2, <1>3, Frame

LEMMA InitNInv == ASSUME SingleLinks, Init PROVE NInv
<1>1. Types
  BY NullMessageAssumption DEF Init, Types, Domains, TypesOf
<1>2. ASSUME NEW r \in Ranks PROVE RankInv(r)
  <2>1. /\ pc[r] = "program" /\ m_events[r] = {} /\ m_currentTs[r] = 0 /\ m_safeTime[r] = 0
        /\ m_guaranteeTime[r] = [n \in Neighbours(r) |-> 0]
    BY DEF Init
  <2>2. \A n \in Neighbours(r) : m_safeTime[r] <= m_guaranteeTime[r][n]
    BY <2>1
  <2> QED BY <2>1, <2>2, NullMessageAssumption DEF RankInv, RankOK, EventsOK
<1>3. ASSUME NEW r \in Ranks, NEW n \in Neighbours(r) PROVE PairInv(r, n)
  <2>1. n \in Ranks /\ r \in Neighbours(n)
    BY NeighbourFacts
  <2>2. /\ pc[r] = "program" /\ m_events[r] = {} /\ m_safeTime[r] = 0
        /\ m_guaranteeTime[n][r] = 0 /\ network[r][n] = <<>>
    BY <2>1 DEF Init
  <2>3. Chain(<<>>, 0) /\ LastOf(<<>>, 0) = 0
    BY DEF Chain, LastOf
  <2>4. BundleDelay(r, n) \in Nat
    BY DelayFacts
  <2> QED BY <2>2, <2>3, <2>4 DEF PairInv, PairOK, Keeps, Free, Late
<1> QED BY <1>1, <1>2, <1>3 DEF NInv

-----------------------------------------------------------------------------
(* The steps keep the invariant. *)
LEMMA Here ==
  ASSUME NInv, NEW r \in Ranks
  PROVE  /\ Domains
         /\ pc[r] \in {"program", "loop", "event", "receive", "done"}
         /\ m_events[r] \in SUBSET EventRec /\ m_currentTs[r] \in Nat /\ m_uid[r] \in Nat
         /\ m_nullEventId[r] \in [Neighbours(r) -> Nat] /\ busy[r] \in SUBSET Links
         /\ m_safeTime[r] \in Nat /\ m_guaranteeTime[r] \in [Neighbours(r) -> Nat]
         /\ network[r] \in [Neighbours(r) -> Seq(Message)]
         /\ RankOK(r, pc[r], m_events[r], m_currentTs[r], m_uid[r], m_nullEventId[r], busy[r],
                   m_safeTime[r], m_guaranteeTime[r])
  BY DEF NInv, Types, TypesOf, RankInv

LEMMA Near ==
  ASSUME NInv, NEW r \in Ranks, NEW n \in Neighbours(r)
  PROVE  /\ n \in Ranks /\ n # r /\ r \in Neighbours(n)
         /\ network[r][n] \in Seq(Message) /\ m_guaranteeTime[n][r] \in Nat
         /\ PairOK(r, n, pc[r], m_events[r], m_currentTs[r], m_nullEventId[r], busy[r],
                   m_safeTime[r], network[r][n], m_guaranteeTime[n][r])
<1>1. n \in Ranks /\ n # r /\ r \in Neighbours(n)
  BY NeighbourFacts
<1>2. network[r] \in [Neighbours(r) -> Seq(Message)] /\ m_guaranteeTime[n] \in [Neighbours(n) -> Nat]
  BY <1>1, Here
<1> QED BY <1>1, <1>2 DEF NInv, PairInv

LEMMA StutterStep == ASSUME NInv, UNCHANGED vars PROVE NInv'
  BY DEF NInv, Types, Domains, RankInv, PairInv, vars

LEMMA QuietStep ==
  ASSUME SingleLinks, NInv, NEW r \in Ranks, NEW p \in {"receive", "done"},
         pc[r] \in {"event", "loop"}, pc' = [pc EXCEPT ![r] = p],
         UNCHANGED <<m_events, m_uid, m_currentTs, m_stop, m_safeTime, m_guaranteeTime,
                     m_nullEventId, busy, m_queue, network, calls>>
  PROVE  NInv'
<1>1. Becomes(r, p, m_events[r], m_currentTs[r], m_uid[r], m_nullEventId[r], busy[r],
              m_safeTime[r], m_guaranteeTime[r])
  BY Here DEF Becomes, Domains
<1>2. Domains' /\ network' = network
  BY Here DEF Domains
<1>3. TypesOf(r, p, m_events[r], m_currentTs[r], m_uid[r], m_nullEventId[r], busy[r],
              m_safeTime[r], m_guaranteeTime[r])
  BY Here DEF TypesOf
<1>4. RankOK(r, p, m_events[r], m_currentTs[r], m_uid[r], m_nullEventId[r], busy[r],
             m_safeTime[r], m_guaranteeTime[r])
  BY Here DEF RankOK
<1>5. ASSUME NEW n \in Neighbours(r)
      PROVE  PairOK(r, n, p, m_events[r], m_currentTs[r], m_nullEventId[r], busy[r],
                    m_safeTime[r], network[r][n], m_guaranteeTime[n][r])
  <2>1. m_safeTime[r] \in Nat /\ m_safeTime[r] <= m_safeTime[r] /\ p # "event"
    BY Here
  <2> QED BY <2>1, Near, PairSafe
<1> QED BY <1>1, <1>2, <1>3, <1>4, <1>5, Here, LocalFrame

LEMMA SendLaterStep ==
  ASSUME NInv, NEW r \in Ranks, NEW l \in LinksOf(r), SendLater(r, l) PROVE NInv'
  BY DEF SendLater, NInv, Types, Domains, RankInv, PairInv

LEMMA ScheduleStep ==
  ASSUME SingleLinks, NInv, NEW r \in Ranks, NEW delay \in Delays, Schedule(r, delay)
  PROVE  NInv'
<1>1. PICK now \in Nat : now = m_currentTs[r]
  BY Here
<1>2. PICK uid \in Nat : uid = m_uid[r]
  BY Here
<1>3. PICK f : f = Event(now + delay, uid, "user", NoArg)
  OBVIOUS
<1>4. now + delay \in Nat /\ now <= now + delay /\ uid + 1 \in Nat
  BY NullMessageAssumption
<1>5. f \in EventRec /\ f.ts = now + delay /\ f.uid = uid /\ f.kind = "user"
  BY <1>3, <1>4 DEF Event, EventRec
<1>6. Becomes(r, pc[r], m_events[r] \cup {f}, now, uid + 1, m_nullEventId[r], busy[r],
              m_safeTime[r], m_guaranteeTime[r])
  BY <1>1, <1>2, <1>3, Here DEF Becomes, Domains, Schedule, Insert
<1>7. Domains' /\ network' = network
  BY Here DEF Domains, Schedule, Insert
<1>8. TypesOf(r, pc[r], m_events[r] \cup {f}, now, uid + 1, m_nullEventId[r], busy[r],
              m_safeTime[r], m_guaranteeTime[r])
  BY <1>4, <1>5, Here DEF TypesOf
<1>9. RankOK(r, pc[r], m_events[r] \cup {f}, now, uid + 1, m_nullEventId[r], busy[r],
             m_safeTime[r], m_guaranteeTime[r])
  BY <1>1, <1>2, <1>4, <1>5, Here, RankAdd
<1>10. ASSUME NEW n \in Neighbours(r)
       PROVE  PairOK(r, n, pc[r], m_events[r] \cup {f}, now, m_nullEventId[r], busy[r],
                     m_safeTime[r], network[r][n], m_guaranteeTime[n][r])
  <2>1. (pc[r] = "event" /\ now <= f.ts) \/ m_safeTime[r] <= f.ts
    <3>1. pc[r] = "event" \/ pc[r] = "program"
      BY DEF Schedule
    <3>2. pc[r] = "program" => m_safeTime[r] = 0
      BY Here DEF RankOK
    <3> QED BY <1>4, <1>5, <3>1, <3>2
  <2> QED BY <1>1, <1>5, <2>1, Here, Near, PairAdd
<1> QED BY <1>6, <1>7, <1>8, <1>9, <1>10, Here, LocalFrame

LEMMA RunStep == ASSUME SingleLinks, NInv, NEW r \in Ranks, Run(r) PROVE NInv'
<1>1. PICK now \in Nat : now = m_currentTs[r]
  BY Here
<1>2. PICK uid \in Nat : uid = m_uid[r]
  BY Here
<1>3. pc[r] = "program"
  BY DEF Run
<1>4. m_safeTime[r] = 0 /\ now <= StopTime
  <2>1. m_safeTime[r] = 0 /\ now <= m_safeTime[r]
    BY <1>1, <1>3, Here DEF RankOK
  <2> QED BY <2>1, NullMessageAssumption
<1>5. PICK s : s = Event(StopTime, uid, "stop", NoArg)
  OBVIOUS
<1>6. PICK nullUid : nullUid = NullUids(r, uid)
  OBVIOUS
<1>7. PICK Z : Z = NullEvents(r, now, nullUid)
  OBVIOUS
<1>8. PICK q : q = (m_events[r] \cup {s}) \cup Z
  OBVIOUS
<1>9. PICK net : net = [n \in Neighbours(r) |-> Append(network[r][n], NullMsg(BundleDelay(r, n)))]
  OBVIOUS
<1>10. PICK uid2 : uid2 = uid + 1 + Cardinality(Neighbours(r))
  OBVIOUS
<1>11. /\ q \in SUBSET EventRec /\ nullUid \in [Neighbours(r) -> Nat]
       /\ RankOK(r, "loop", q, now, uid2, nullUid, busy[r], m_safeTime[r], m_guaranteeTime[r])
  <2>1. RankOK(r, "program", m_events[r], now, uid, m_nullEventId[r], busy[r], m_safeTime[r],
               m_guaranteeTime[r])
    BY <1>1, <1>2, <1>3, Here
  <2>2. m_events[r] \in SUBSET EventRec /\ busy[r] \in SUBSET Links
    BY Here
  <2>3. /\ (m_events[r] \cup {s}) \cup Z \in SUBSET EventRec /\ nullUid \in [Neighbours(r) -> Nat]
        /\ RankOK(r, "loop", (m_events[r] \cup {s}) \cup Z, now,
                  uid + 1 + Cardinality(Neighbours(r)), nullUid, busy[r], m_safeTime[r],
                  m_guaranteeTime[r])
    BY <1>4, <1>5, <1>6, <1>7, <2>1, <2>2, RankRun
  <2> QED BY <1>8, <1>10, <2>3
<1>12. Z = {Event(m_currentTs[r] + Period(r, n),
                  m_uid[r] + 1 + Cardinality({k \in Neighbours(r) : k < n}), "null", n)
              : n \in Neighbours(r)}
  BY <1>1, <1>2, <1>6, <1>7 DEF Below, NullUids, NullEvents
<1>13. nullUid = [n \in Neighbours(r) |->
                    m_uid[r] + 1 + Cardinality({k \in Neighbours(r) : k < n})]
  BY <1>2, <1>6 DEF Below, NullUids
<1>14. m_events' = [m_events EXCEPT ![r] = q]
  BY <1>2, <1>5, <1>8, <1>12 DEF Run
<1>15. m_nullEventId' = [m_nullEventId EXCEPT ![r] = nullUid]
  BY <1>13 DEF Run
<1>16. /\ m_uid' = [m_uid EXCEPT ![r] = uid2] /\ network' = [network EXCEPT ![r] = net]
       /\ pc' = [pc EXCEPT ![r] = "loop"]
       /\ UNCHANGED <<m_currentTs, m_safeTime, m_guaranteeTime, busy, m_queue>>
  BY <1>2, <1>9, <1>10 DEF Run
<1>17. Becomes(r, "loop", q, now, uid2, nullUid, busy[r], m_safeTime[r], m_guaranteeTime[r])
  BY <1>1, <1>14, <1>15, <1>16, Here DEF Becomes, Domains
<1>18. Domains' /\ network'[r] = net /\ \A k \in Ranks \ {r} : network'[k] = network[k]
  BY <1>14, <1>15, <1>16, Here DEF Domains
<1>19. uid2 \in Nat
  BY <1>10, BelowFacts
<1>20. TypesOf(r, "loop", q, now, uid2, nullUid, busy[r], m_safeTime[r], m_guaranteeTime[r])
  BY <1>11, <1>19, Here DEF TypesOf
<1>21. ASSUME NEW n \in Neighbours(r)
       PROVE  /\ net[n] \in Seq(Message)
              /\ PairOK(r, n, "loop", q, now, nullUid, busy[r], m_safeTime[r], net[n],
                        m_guaranteeTime[n][r])
  <2>1. PICK m : m = NullMsg(BundleDelay(r, n))
    OBVIOUS
  <2>2. net[n] = Append(network[r][n], m)
    BY <1>9, <2>1
  <2>3. /\ m \in Message
        /\ PairOK(r, n, "loop", q, now, nullUid, busy[r], 0, Append(network[r][n], m),
                  m_guaranteeTime[n][r])
    <3>1. /\ network[r][n] \in Seq(Message) /\ m_guaranteeTime[n][r] \in Nat
          /\ PairOK(r, n, "program", m_events[r], now, m_nullEventId[r], busy[r], 0,
                    network[r][n], m_guaranteeTime[n][r])
      BY <1>1, <1>3, <1>4, Near
    <3> QED BY <1>11, <2>1, <3>1, PairRun
  <2>4. Append(network[r][n], m) \in Seq(Message)
    BY <2>3, Near
  <2> QED BY <1>4, <2>2, <2>3, <2>4
<1>22. net \in [Neighbours(r) -> Seq(Message)]
  BY <1>9, <1>21
<1> QED BY <1>11, <1>17, <1>18, <1>20, <1>21, <1>22, LocalFrame

LEMMA TakeStep ==
  ASSUME SingleLinks, NInv, NEW r \in Ranks, NEW e, NEW p \in {"event", "receive"}, NEW bz,
         TakeEvent(r, e, p), \A n \in Neighbours(r) : ~ Live(e, n, m_nullEventId[r]),
         bz = busy[r] \/ (e.kind = "complete" /\ bz = busy[r] \ {e.arg}),
         m_events' = [m_events EXCEPT ![r] = @ \ {e}],
         busy'[r] = bz, \A s \in Ranks \ {r} : busy'[s] = busy[s], DOMAIN busy' = Ranks,
         UNCHANGED <<m_uid, m_safeTime, m_guaranteeTime, m_nullEventId, network>>
  PROVE  NInv'
<1>1. IsNext(m_events[r], e) /\ e.ts <= m_safeTime[r] /\ pc[r] = "loop"
  BY DEF TakeEvent, MayProcess
<1>2. e \in m_events[r] /\ e.ts \in Nat
  BY <1>1, Here, NextIsFirst, FieldTypes
<1>3. PICK q : q = m_events[r] \ {e}
  OBVIOUS
<1>4. Becomes(r, p, q, e.ts, m_uid[r], m_nullEventId[r], bz, m_safeTime[r], m_guaranteeTime[r])
  BY <1>3, Here DEF Becomes, Domains, TakeEvent
<1>5. Domains' /\ network' = network
  BY Here DEF Domains, TakeEvent
<1>6. q \in SUBSET EventRec /\ bz \in SUBSET Links
  BY <1>3, Here
<1>7. TypesOf(r, p, q, e.ts, m_uid[r], m_nullEventId[r], bz, m_safeTime[r], m_guaranteeTime[r])
  BY <1>2, <1>6, Here DEF TypesOf
<1>8. RankOK(r, p, q, e.ts, m_uid[r], m_nullEventId[r], bz, m_safeTime[r], m_guaranteeTime[r])
  <2>1. RankOK(r, "loop", m_events[r], m_currentTs[r], m_uid[r], m_nullEventId[r], busy[r],
               m_safeTime[r], m_guaranteeTime[r])
    BY <1>1, Here
  <2>2. m_events[r] \in SUBSET EventRec /\ m_currentTs[r] \in Nat /\ m_uid[r] \in Nat
        /\ busy[r] \in SUBSET Links /\ p # "program"
    BY Here
  <2>3. /\ RankOK(r, p, m_events[r] \ {e}, e.ts, m_uid[r], m_nullEventId[r], busy[r],
                  m_safeTime[r], m_guaranteeTime[r])
        /\ e.kind = "complete" =>
             RankOK(r, p, m_events[r] \ {e}, e.ts, m_uid[r], m_nullEventId[r], busy[r] \ {e.arg},
                    m_safeTime[r], m_guaranteeTime[r])
    BY <1>1, <2>1, <2>2, RankTake
  <2> QED BY <1>3, <2>3
<1>9. ASSUME NEW n \in Neighbours(r)
      PROVE  PairOK(r, n, p, q, e.ts, m_nullEventId[r], bz, m_safeTime[r], network[r][n],
                    m_guaranteeTime[n][r])
  <2>1. /\ PairOK(r, n, pc[r], m_events[r], m_currentTs[r], m_nullEventId[r], busy[r],
                  m_safeTime[r], network[r][n], m_guaranteeTime[n][r])
        /\ network[r][n] \in Seq(Message) /\ m_guaranteeTime[n][r] \in Nat
    BY Near
  <2>2. m_events[r] \in SUBSET EventRec /\ m_currentTs[r] \in Nat /\ busy[r] \in SUBSET Links
    BY Here
  <2>3. /\ PairOK(r, n, p, m_events[r] \ {e}, e.ts, m_nullEventId[r], busy[r], m_safeTime[r],
                  network[r][n], m_guaranteeTime[n][r])
        /\ e.kind = "complete" =>
             PairOK(r, n, p, m_events[r] \ {e}, e.ts, m_nullEventId[r], busy[r] \ {e.arg},
                    m_safeTime[r], network[r][n], m_guaranteeTime[n][r])
    BY <1>1, <2>1, <2>2, PairTake
  <2> QED BY <1>3, <2>3
<1> QED BY <1>4, <1>5, <1>7, <1>8, <1>9, Here, LocalFrame

(* The events that send nothing. *)
LEMMA ProcessStep ==
  ASSUME SingleLinks, NInv, NEW r \in Ranks, NEW e \in m_events[r],
         \/ ProcessUser(r, e) \/ ProcessStop(r, e) \/ ProcessCancelled(r, e)
         \/ TransmitCompleteIdle(r, e)
  PROVE  NInv'
<1>1. DOMAIN busy = Ranks
  BY Here DEF Domains
<1>2. CASE ProcessUser(r, e)
  <2>1. \A n \in Neighbours(r) : ~ Live(e, n, m_nullEventId[r])
    BY <1>2 DEF ProcessUser, Live
  <2> QED BY <1>1, <1>2, <2>1, TakeStep DEF ProcessUser
<1>3. CASE ProcessStop(r, e)
  <2>1. \A n \in Neighbours(r) : ~ Live(e, n, m_nullEventId[r])
    BY <1>3 DEF ProcessStop, Live
  <2> QED BY <1>1, <1>3, <2>1, TakeStep DEF ProcessStop
<1>4. CASE ProcessCancelled(r, e)
  <2>1. \A n \in Neighbours(r) : ~ Live(e, n, m_nullEventId[r])
    BY <1>4 DEF ProcessCancelled, Live
  <2> QED BY <1>1, <1>4, <2>1, TakeStep DEF ProcessCancelled
<1>5. CASE TransmitCompleteIdle(r, e)
  <2>1. \A n \in Neighbours(r) : ~ Live(e, n, m_nullEventId[r])
    BY <1>5 DEF TransmitCompleteIdle, Live
  <2>2. /\ busy'[r] = busy[r] \ {e.arg} /\ \A s \in Ranks \ {r} : busy'[s] = busy[s]
        /\ DOMAIN busy' = Ranks
    BY <1>1, <1>5 DEF TransmitCompleteIdle
  <2> QED BY <1>5, <2>1, <2>2, TakeStep DEF TransmitCompleteIdle
<1> QED BY <1>2, <1>3, <1>4, <1>5

(* TransmitStart over the ready link l, at time now with the events q. *)
LEMMA TransmitStep ==
  ASSUME SingleLinks, NInv, NEW r \in Ranks, NEW l \in LinksOf(r), NEW tx \in TxTimes,
         NEW now \in Nat, NEW q \in SUBSET EventRec, NEW bz \in SUBSET Links, l \notin bz,
         NEW p \in {"event", "receive"},
         RankOK(r, "event", q, now, m_uid[r], m_nullEventId[r], bz, m_safeTime[r],
                m_guaranteeTime[r]),
         \A n \in Neighbours(r) :
           PairOK(r, n, "event", q, now, m_nullEventId[r], bz, m_safeTime[r], network[r][n],
                  m_guaranteeTime[n][r]),
         TransmitStart(r, l, tx, now, q),
         pc'[r] = p, \A s \in Ranks \ {r} : pc'[s] = pc[s], DOMAIN pc' = Ranks,
         m_currentTs'[r] = now, \A s \in Ranks \ {r} : m_currentTs'[s] = m_currentTs[s],
         DOMAIN m_currentTs' = Ranks,
         busy'[r] = bz \cup {l}, \A s \in Ranks \ {r} : busy'[s] = busy[s], DOMAIN busy' = Ranks,
         UNCHANGED <<m_safeTime, m_guaranteeTime>>
  PROVE  NInv'
<1>1. PICK uid \in Nat : uid = m_uid[r]
  BY Here
<1>2. PICK nid \in [Neighbours(r) -> Nat] : nid = m_nullEventId[r]
  BY Here
<1>3. PICK safe \in Nat : safe = m_safeTime[r]
  BY Here
<1>4. tx \in Nat
  BY NullMessageAssumption
<1>5. PICK c : c = Completion(l, now, tx, uid)
  OBVIOUS
<1>6. PICK n \in Ends[l] \ {r} :
        /\ \E next \in q \cup {Event(now + tx, m_uid[r], "complete", l)} :
             /\ IsNext(q \cup {Event(now + tx, m_uid[r], "complete", l)}, next)
             /\ network' = [network EXCEPT ![r][n] =
                  Append(@, Packet(now + tx + Delay[l], GuaranteeTime(r, n, next)))]
        /\ m_events' = [m_events EXCEPT ![r] =
             (q \cup {Event(now + tx, m_uid[r], "complete", l)})
               \cup {Event(now + Period(r, n), m_uid[r] + 1, "null", n)}]
        /\ m_nullEventId' = [m_nullEventId EXCEPT ![r][n] = m_uid[r] + 1]
        /\ m_uid' = [m_uid EXCEPT ![r] = @ + 2]
  BY Zenon DEF TransmitStart
<1>7. PICK next :
        /\ IsNext(q \cup {c}, next)
        /\ network' = [network EXCEPT ![r][n] =
             Append(@, Packet(now + tx + Delay[l], GuaranteeTime(r, n, next)))]
  BY <1>1, <1>5, <1>6 DEF Completion
<1>8. PICK z : z = PutOff(r, n, now, uid)
  OBVIOUS
<1>9. c \in EventRec /\ z \in EventRec
  BY <1>4, <1>5, <1>8, TransmitEvents
<1>10. n \in Neighbours(r)
  BY EndFacts
<1>11. PICK m : m = Packet(now + tx + Delay[l], Min(next.ts, safe) + BundleDelay(r, n))
  OBVIOUS
<1>12. PICK net : net = [network[r] EXCEPT ![n] = Append(network[r][n], m)]
  OBVIOUS
<1>13. PICK nid2 : nid2 = Renewed(nid, n, uid + 1)
  OBVIOUS
<1>14. PICK q2 : q2 = (q \cup {c}) \cup {z}
  OBVIOUS
<1>15. RankOK(r, p, q2, now, uid + 2, nid2, bz \cup {l}, safe, m_guaranteeTime[r])
  <2>1. RankOK(r, "event", q, now, uid, nid, bz, safe, m_guaranteeTime[r])
    BY <1>1, <1>2, <1>3
  <2>2. RankOK(r, "event", q2, now, uid + 2, nid2, bz \cup {l}, safe, m_guaranteeTime[r])
    BY <1>4, <1>5, <1>8, <1>9, <1>13, <1>14, <2>1, RankTransmit
  <2> QED BY <2>2 DEF RankOK
<1>16. /\ m \in Message
       /\ PairOK(r, n, p, q2, now, nid2, bz \cup {l}, safe, Append(network[r][n], m),
                 m_guaranteeTime[n][r])
  <2>1. RankOK(r, "event", q, now, uid, nid, bz, safe, m_guaranteeTime[r])
    BY <1>1, <1>2, <1>3
  <2>2. PairOK(r, n, "event", q, now, nid, bz, safe, network[r][n], m_guaranteeTime[n][r])
    BY <1>2, <1>3, <1>10
  <2>3. network[r][n] \in Seq(Message) /\ m_guaranteeTime[n][r] \in Nat
    BY <1>10, Near
  <2>4. /\ m \in Message
        /\ PairOK(r, n, "event", q2, now, nid2, bz \cup {l}, safe, Append(network[r][n], m),
                  m_guaranteeTime[n][r])
    BY <1>4, <1>5, <1>7, <1>8, <1>9, <1>11, <1>13, <1>14, <2>1, <2>2, <2>3, PairTransmitSelf
  <2> QED BY <2>4 DEF PairOK, Keeps, Free
<1>17. ASSUME NEW k \in Neighbours(r), k # n
       PROVE  PairOK(r, k, p, q2, now, nid2, bz \cup {l}, safe, network[r][k],
                     m_guaranteeTime[k][r])
  <2>1. PairOK(r, k, "event", q, now, nid, bz, safe, network[r][k], m_guaranteeTime[k][r])
    BY <1>2, <1>3
  <2>2. network[r][k] \in Seq(Message) /\ m_guaranteeTime[k][r] \in Nat
    BY Near
  <2>3. PairOK(r, k, "event", q2, now, nid2, bz \cup {l}, safe, network[r][k],
               m_guaranteeTime[k][r])
    BY <1>4, <1>5, <1>8, <1>9, <1>13, <1>14, <1>17, <2>1, <2>2, PairTransmitOther
  <2> QED BY <2>3 DEF PairOK, Keeps, Free
<1>18. network[r] \in [Neighbours(r) -> Seq(Message)]
  BY Here
<1>19. /\ net \in [Neighbours(r) -> Seq(Message)] /\ net[n] = Append(network[r][n], m)
       /\ \A k \in Neighbours(r) \ {n} : net[k] = network[r][k]
  <2>1. Append(network[r][n], m) \in Seq(Message)
    BY <1>10, <1>16, <1>18
  <2> QED BY <1>10, <1>12, <1>18, <2>1
<1>20. network'[r] = net /\ (\A s \in Ranks \ {r} : network'[s] = network[s])
       /\ DOMAIN network' = Ranks
  <2>1. GuaranteeTime(r, n, next) = Min(next.ts, safe) + BundleDelay(r, n)
    BY <1>3 DEF GuaranteeTime
  <2>2. network' = [network EXCEPT ![r][n] = Append(@, m)]
    BY <1>7, <1>11, <2>1
  <2>3. DOMAIN network = Ranks
    BY Here DEF Domains
  <2> QED BY <1>12, <2>2, <2>3
<1>21. m_nullEventId'[r] = nid2 /\ (\A s \in Ranks \ {r} : m_nullEventId'[s] = m_nullEventId[s])
       /\ DOMAIN m_nullEventId' = Ranks
  <2>1. DOMAIN m_nullEventId = Ranks
    BY Here DEF Domains
  <2> QED BY <1>1, <1>2, <1>6, <1>13, <2>1 DEF Renewed
<1>22. m_events' = [m_events EXCEPT ![r] = q2] /\ m_uid' = [m_uid EXCEPT ![r] = uid + 2]
  BY <1>1, <1>5, <1>6, <1>8, <1>14 DEF Completion, PutOff
<1>23. Becomes(r, p, q2, now, uid + 2, nid2, bz \cup {l}, safe, m_guaranteeTime[r])
  BY <1>3, <1>21, <1>22, Here DEF Becomes, Domains
<1>24. Domains'
  <2>1. DOMAIN m_events' = Ranks /\ DOMAIN m_uid' = Ranks
    BY <1>22, Here DEF Domains
  <2>2. DOMAIN m_safeTime' = Ranks /\ DOMAIN m_guaranteeTime' = Ranks
    BY Here DEF Domains
  <2> QED BY <1>20, <1>21, <2>1, <2>2 DEF Domains
<1>25. q2 \in SUBSET EventRec /\ nid2 \in [Neighbours(r) -> Nat] /\ uid + 2 \in Nat
       /\ bz \cup {l} \in SUBSET Links
  BY <1>9, <1>10, <1>13, <1>14 DEF LinksOf, Renewed
<1>26. TypesOf(r, p, q2, now, uid + 2, nid2, bz \cup {l}, safe, m_guaranteeTime[r])
  BY <1>25, Here DEF TypesOf
<1>27. ASSUME NEW k \in Neighbours(r)
       PROVE  PairOK(r, k, p, q2, now, nid2, bz \cup {l}, safe, network'[r][k],
                     m_guaranteeTime[k][r])
  BY <1>16, <1>17, <1>19, <1>20
<1> QED BY <1>15, <1>19, <1>20, <1>23, <1>24, <1>26, <1>27, LocalFrame

LEMMA SendNowStep ==
  ASSUME SingleLinks, NInv, NEW r \in Ranks, NEW l \in LinksOf(r), NEW tx \in TxTimes,
         SendNow(r, l, tx)
  PROVE  NInv'
<1>1. /\ pc[r] = "event" /\ l \notin busy[r]
      /\ TransmitStart(r, l, tx, m_currentTs[r], m_events[r])
      /\ busy' = [busy EXCEPT ![r] = @ \cup {l}]
      /\ UNCHANGED <<pc, m_currentTs, m_safeTime, m_guaranteeTime>>
  BY DEF SendNow
<1>2. RankOK(r, "event", m_events[r], m_currentTs[r], m_uid[r], m_nullEventId[r], busy[r],
             m_safeTime[r], m_guaranteeTime[r])
  BY <1>1, Here
<1>3. \A n \in Neighbours(r) :
        PairOK(r, n, "event", m_events[r], m_currentTs[r], m_nullEventId[r], busy[r],
               m_safeTime[r], network[r][n], m_guaranteeTime[n][r])
  BY <1>1, Near
<1>4. /\ m_currentTs[r] \in Nat /\ m_events[r] \in SUBSET EventRec /\ busy[r] \in SUBSET Links
      /\ DOMAIN pc = Ranks /\ DOMAIN m_currentTs = Ranks /\ DOMAIN busy = Ranks
  BY Here DEF Domains
<1>5. busy'[r] = busy[r] \cup {l} /\ (\A s \in Ranks \ {r} : busy'[s] = busy[s])
      /\ DOMAIN busy' = Ranks
  BY <1>1, <1>4
<1>6. pc'[r] = "event" /\ m_currentTs'[r] = m_currentTs[r]
      /\ UNCHANGED <<m_safeTime, m_guaranteeTime>>
      /\ (\A s \in Ranks \ {r} : pc'[s] = pc[s] /\ m_currentTs'[s] = m_currentTs[s])
      /\ DOMAIN pc' = Ranks /\ DOMAIN m_currentTs' = Ranks
  BY <1>1, <1>4
<1> QED BY <1>1, <1>2, <1>3, <1>4, <1>5, <1>6, TransmitStep

LEMMA TransmitNextStep ==
  ASSUME SingleLinks, NInv, NEW r \in Ranks, NEW e \in m_events[r], NEW tx \in TxTimes,
         TransmitCompleteNext(r, e, tx)
  PROVE  NInv'
<1>1. /\ e.kind = "complete" /\ IsNext(m_events[r], e) /\ e.ts <= m_safeTime[r] /\ pc[r] = "loop"
      /\ pc' = [pc EXCEPT ![r] = "receive"] /\ m_currentTs' = [m_currentTs EXCEPT ![r] = e.ts]
      /\ TransmitStart(r, e.arg, tx, e.ts, m_events[r] \ {e})
      /\ UNCHANGED <<m_safeTime, m_guaranteeTime, busy>>
  BY DEF TransmitCompleteNext, TakeEvent, MayProcess
<1>2. PICK l : l = e.arg
  OBVIOUS
<1>3. PICK bz : bz = busy[r] \ {l}
  OBVIOUS
<1>4. /\ m_events[r] \in SUBSET EventRec /\ m_currentTs[r] \in Nat /\ m_uid[r] \in Nat
      /\ busy[r] \in SUBSET Links
      /\ DOMAIN pc = Ranks /\ DOMAIN m_currentTs = Ranks /\ DOMAIN busy = Ranks
  BY Here DEF Domains
<1>5. RankOK(r, "loop", m_events[r], m_currentTs[r], m_uid[r], m_nullEventId[r], busy[r],
             m_safeTime[r], m_guaranteeTime[r])
  BY <1>1, Here
<1>6. l \in busy[r] /\ l \in LinksOf(r)
  BY <1>1, <1>2, <1>5 DEF RankOK, EventsOK
<1>7. \A n : ~ Live(e, n, m_nullEventId[r])
  BY <1>1 DEF Live
<1>8. RankOK(r, "event", m_events[r] \ {e}, e.ts, m_uid[r], m_nullEventId[r], bz,
             m_safeTime[r], m_guaranteeTime[r])
  <2>1. "event" # "program"
    OBVIOUS
  <2> QED BY <1>1, <1>2, <1>3, <1>4, <1>5, <1>7, <2>1, RankTake
<1>9. ASSUME NEW n \in Neighbours(r)
      PROVE  PairOK(r, n, "event", m_events[r] \ {e}, e.ts, m_nullEventId[r], bz,
                    m_safeTime[r], network[r][n], m_guaranteeTime[n][r])
  <2>1. /\ PairOK(r, n, pc[r], m_events[r], m_currentTs[r], m_nullEventId[r], busy[r],
                  m_safeTime[r], network[r][n], m_guaranteeTime[n][r])
        /\ network[r][n] \in Seq(Message) /\ m_guaranteeTime[n][r] \in Nat
    BY Near
  <2> QED BY <1>1, <1>2, <1>3, <1>4, <1>7, <2>1, PairTake
<1>10. e.ts \in Nat /\ m_events[r] \ {e} \in SUBSET EventRec /\ bz \in SUBSET Links /\ l \notin bz
       /\ busy[r] = bz \cup {l}
  BY <1>3, <1>4, <1>6, FieldTypes
<1>11. pc'[r] = "receive" /\ m_currentTs'[r] = e.ts /\ busy'[r] = bz \cup {l}
       /\ UNCHANGED <<m_safeTime, m_guaranteeTime>>
       /\ (\A s \in Ranks \ {r} : pc'[s] = pc[s] /\ m_currentTs'[s] = m_currentTs[s]
                                  /\ busy'[s] = busy[s])
       /\ DOMAIN pc' = Ranks /\ DOMAIN m_currentTs' = Ranks /\ DOMAIN busy' = Ranks
  BY <1>1, <1>4, <1>10
<1>12. TransmitStart(r, l, tx, e.ts, m_events[r] \ {e})
  BY <1>1, <1>2
<1> QED BY <1>6, <1>8, <1>9, <1>10, <1>11, <1>12, TransmitStep

LEMMA NullStep ==
  ASSUME SingleLinks, NInv, NEW r \in Ranks, NEW e \in m_events[r], NullMessageEventHandler(r, e)
  PROVE  NInv'
<1>1. PICK n : n = e.arg
  OBVIOUS
<1>2. PICK uid \in Nat : uid = m_uid[r]
  BY Here
<1>3. PICK nid \in [Neighbours(r) -> Nat] : nid = m_nullEventId[r]
  BY Here
<1>4. PICK safe \in Nat : safe = m_safeTime[r]
  BY Here
<1>5. PICK q \in SUBSET EventRec : q = m_events[r]
  BY Here
<1>6. /\ IsNext(q, e) /\ e.ts <= safe /\ pc[r] = "loop" /\ Live(e, n, nid) /\ e.kind = "null"
      /\ pc' = [pc EXCEPT ![r] = "receive"] /\ m_currentTs' = [m_currentTs EXCEPT ![r] = e.ts]
      /\ UNCHANGED <<m_safeTime, m_guaranteeTime, busy>>
  BY <1>1, <1>3, <1>4, <1>5 DEF NullMessageEventHandler, TakeEvent, MayProcess, Live
<1>7. /\ RankOK(r, "loop", q, m_currentTs[r], uid, nid, busy[r], safe, m_guaranteeTime[r])
      /\ m_currentTs[r] \in Nat /\ busy[r] \in SUBSET Links
  BY <1>2, <1>3, <1>4, <1>5, <1>6, Here
<1>8. EventsOK(r, q, m_currentTs[r], uid, busy[r])
  BY <1>7 DEF RankOK
<1>9. n \in Neighbours(r)
  BY <1>1, <1>5, <1>6, <1>8 DEF EventsOK
<1>10. PICK next : /\ IsNext(q \ {e}, next)
                   /\ network' = [network EXCEPT ![r][n] =
                        Append(@, NullMsg(GuaranteeTime(r, n, next)))]
  BY <1>1, <1>5 DEF NullMessageEventHandler
<1>11. PICK z : z = Repeated(r, n, e, uid)
  OBVIOUS
<1>12. PICK nid2 : nid2 = Renewed(nid, n, uid)
  OBVIOUS
<1>13. PICK q2 : q2 = (q \ {e}) \cup {z}
  OBVIOUS
<1>14. PICK m : m = NullMsg(Min(next.ts, safe) + BundleDelay(r, n))
  OBVIOUS
<1>15. PICK net : net = [network[r] EXCEPT ![n] = Append(network[r][n], m)]
  OBVIOUS
<1>16. /\ z \in EventRec
       /\ RankOK(r, "receive", q2, e.ts, uid + 1, nid2, busy[r], safe, m_guaranteeTime[r])
  BY <1>6, <1>7, <1>9, <1>11, <1>12, <1>13, RankNull
<1>17. /\ m \in Message
       /\ PairOK(r, n, "receive", q2, e.ts, nid2, busy[r], safe, Append(network[r][n], m),
                 m_guaranteeTime[n][r])
  <2>1. /\ PairOK(r, n, "loop", q, m_currentTs[r], nid, busy[r], safe, network[r][n],
                  m_guaranteeTime[n][r])
        /\ network[r][n] \in Seq(Message) /\ m_guaranteeTime[n][r] \in Nat
    BY <1>3, <1>4, <1>5, <1>6, <1>9, Near
  <2> QED BY <1>6, <1>7, <1>8, <1>9, <1>10, <1>11, <1>12, <1>13, <1>14, <1>16, <2>1, PairNullSelf
<1>18. ASSUME NEW k \in Neighbours(r), k # n
       PROVE  PairOK(r, k, "receive", q2, e.ts, nid2, busy[r], safe, network[r][k],
                     m_guaranteeTime[k][r])
  <2>1. /\ PairOK(r, k, "loop", q, m_currentTs[r], nid, busy[r], safe, network[r][k],
                  m_guaranteeTime[k][r])
        /\ network[r][k] \in Seq(Message) /\ m_guaranteeTime[k][r] \in Nat
    BY <1>3, <1>4, <1>5, <1>6, Near
  <2> QED BY <1>6, <1>7, <1>9, <1>11, <1>12, <1>13, <1>16, <1>18, <2>1, PairNullOther
<1>19. network[r] \in [Neighbours(r) -> Seq(Message)]
  BY Here
<1>20. /\ net \in [Neighbours(r) -> Seq(Message)] /\ net[n] = Append(network[r][n], m)
       /\ \A k \in Neighbours(r) \ {n} : net[k] = network[r][k]
  <2>1. Append(network[r][n], m) \in Seq(Message)
    BY <1>9, <1>17, <1>19
  <2> QED BY <1>9, <1>15, <1>19, <2>1
<1>21. network'[r] = net /\ (\A s \in Ranks \ {r} : network'[s] = network[s])
       /\ DOMAIN network' = Ranks
  <2>1. GuaranteeTime(r, n, next) = Min(next.ts, safe) + BundleDelay(r, n)
    BY <1>4 DEF GuaranteeTime
  <2>2. network' = [network EXCEPT ![r][n] = Append(@, m)]
    BY <1>10, <1>14, <2>1
  <2>3. DOMAIN network = Ranks
    BY Here DEF Domains
  <2> QED BY <1>15, <2>2, <2>3
<1>22. m_nullEventId'[r] = nid2 /\ (\A s \in Ranks \ {r} : m_nullEventId'[s] = m_nullEventId[s])
       /\ DOMAIN m_nullEventId' = Ranks
  <2>1. DOMAIN m_nullEventId = Ranks
    BY Here DEF Domains
  <2>2. m_nullEventId' = [m_nullEventId EXCEPT ![r][n] = uid]
    BY <1>1, <1>2 DEF NullMessageEventHandler
  <2> QED BY <1>3, <1>12, <2>1, <2>2 DEF Renewed
<1>23. m_events' = [m_events EXCEPT ![r] = q2] /\ m_uid' = [m_uid EXCEPT ![r] = uid + 1]
  BY <1>1, <1>2, <1>5, <1>11, <1>13 DEF NullMessageEventHandler, Repeated
<1>24. Becomes(r, "receive", q2, e.ts, uid + 1, nid2, busy[r], safe, m_guaranteeTime[r])
  BY <1>4, <1>6, <1>22, <1>23, Here DEF Becomes, Domains
<1>25. Domains'
  BY <1>6, <1>21, <1>22, <1>23, Here DEF Domains
<1>26. q2 \in SUBSET EventRec /\ nid2 \in [Neighbours(r) -> Nat] /\ uid + 1 \in Nat
       /\ e.ts \in Nat
  BY <1>5, <1>9, <1>12, <1>13, <1>16, FieldTypes DEF Renewed
<1>27. TypesOf(r, "receive", q2, e.ts, uid + 1, nid2, busy[r], safe, m_guaranteeTime[r])
  BY <1>26, Here DEF TypesOf
<1>28. ASSUME NEW k \in Neighbours(r)
       PROVE  PairOK(r, k, "receive", q2, e.ts, nid2, busy[r], safe, network'[r][k],
                     m_guaranteeTime[k][r])
  BY <1>17, <1>18, <1>20, <1>21
<1> QED BY <1>16, <1>20, <1>21, <1>24, <1>25, <1>27, <1>28, LocalFrame

-----------------------------------------------------------------------------
(* What rank r has after ReceiveMessages. *)
Got(r, q, uid, gt) ==
  /\ q \in SUBSET EventRec /\ uid \in Nat /\ gt \in [Neighbours(r) -> Nat]
  /\ m_events'[r] = q /\ m_uid'[r] = uid /\ m_guaranteeTime'[r] = gt
  /\ DOMAIN m_events' = Ranks /\ DOMAIN m_uid' = Ranks /\ DOMAIN m_guaranteeTime' = Ranks
  /\ DOMAIN network' = Ranks
  /\ \A s \in Ranks \ {r} : /\ m_events'[s] = m_events[s] /\ m_uid'[s] = m_uid[s]
                            /\ m_guaranteeTime'[s] = m_guaranteeTime[s]
  /\ \A s \in Ranks : network'[s] \in [Neighbours(s) -> Seq(Message)]
  /\ \A s \in Ranks \ {r} : \A n \in Neighbours(s) \ {r} : network'[s][n] = network[s][n]
  /\ RankOK(r, pc[r], q, m_currentTs[r], uid, m_nullEventId[r], busy[r], m_safeTime[r], gt)
  /\ \A n \in Neighbours(r) :
       /\ PairOK(r, n, pc[r], q, m_currentTs[r], m_nullEventId[r], busy[r], m_safeTime[r],
                 network'[r][n], m_guaranteeTime[n][r])
       /\ PairOK(n, r, pc[n], m_events[n], m_currentTs[n], m_nullEventId[n], busy[n],
                 m_safeTime[n], network'[n][r], gt[n])

LEMMA GotNone ==
  ASSUME NInv, NEW r \in Ranks, UNCHANGED <<network, m_guaranteeTime, m_events, m_uid>>
  PROVE  Got(r, m_events[r], m_uid[r], m_guaranteeTime[r])
<1>1. \A s \in Ranks : network[s] \in [Neighbours(s) -> Seq(Message)]
  BY Here
<1>2. \A n \in Neighbours(r) :
       /\ PairOK(r, n, pc[r], m_events[r], m_currentTs[r], m_nullEventId[r], busy[r],
                 m_safeTime[r], network[r][n], m_guaranteeTime[n][r])
       /\ PairOK(n, r, pc[n], m_events[n], m_currentTs[n], m_nullEventId[n], busy[n],
                 m_safeTime[n], network[n][r], m_guaranteeTime[r][n])
  BY Near
<1> QED BY <1>1, <1>2, Here DEF Got, Domains

LEMMA GotOne ==
  ASSUME SingleLinks, NInv, NEW r \in Ranks, NEW n \in Neighbours(r), Receive(r, n)
  PROVE  \E q, uid, gt : Got(r, q, uid, gt)
<1>1. n \in Ranks /\ n # r /\ r \in Neighbours(n)
  BY NeighbourFacts
<1>2. PICK s \in Seq(Message) : s = network[n][r]
  BY <1>1, Near
<1>3. PICK g \in Nat : g = m_guaranteeTime[r][n]
  BY Here
<1>4. PICK m : m = Head(s)
  OBVIOUS
<1>5. s # <<>>
  BY <1>2 DEF Receive
<1>6. PairOK(n, r, pc[n], m_events[n], m_currentTs[n], m_nullEventId[n], busy[n],
             m_safeTime[n], s, g)
  BY <1>1, <1>2, <1>3, Near
<1>7. Chain(s, g)
  BY <1>6 DEF PairOK
<1>8. /\ m \in Message /\ Tail(s) \in Seq(Message)
      /\ g <= m.guarantee /\ (m.rxTime > 0 => g <= m.rxTime)
      /\ Chain(Tail(s), m.guarantee) /\ LastOf(Tail(s), m.guarantee) = LastOf(s, g)
  BY <1>4, <1>5, <1>7, ChainTail
<1>9. m.guarantee \in Nat /\ m.rxTime \in Nat
  BY <1>8 DEF Message
<1>10. PairOK(n, r, pc[n], m_events[n], m_currentTs[n], m_nullEventId[n], busy[n],
              m_safeTime[n], Tail(s), m.guarantee)
  BY <1>6, <1>8 DEF PairOK
<1>11. PICK gt : gt = [m_guaranteeTime[r] EXCEPT ![n] = m.guarantee]
  OBVIOUS
<1>12. /\ gt \in [Neighbours(r) -> Nat] /\ gt[n] = m.guarantee
       /\ \A k \in Neighbours(r) \ {n} : gt[k] = m_guaranteeTime[r][k]
  BY <1>9, <1>11, Here
<1>13. PICK q : q = m_events'[r]
  OBVIOUS
<1>14. PICK uid : uid = m_uid'[r]
  OBVIOUS
<1>15. /\ network' = [network EXCEPT ![n][r] = Tail(s)]
       /\ m_guaranteeTime' = [m_guaranteeTime EXCEPT ![r][n] = m.guarantee]
  BY <1>2, <1>4 DEF Receive
<1>16. m_guaranteeTime'[r] = gt /\ (\A k \in Ranks \ {r} : m_guaranteeTime'[k] = m_guaranteeTime[k])
       /\ DOMAIN m_guaranteeTime' = Ranks
  BY <1>11, <1>15, Here DEF Domains
<1>17. /\ DOMAIN network' = Ranks /\ network'[n][r] = Tail(s)
       /\ \A k \in Ranks \ {n} : network'[k] = network[k]
       /\ network'[n] = [network[n] EXCEPT ![r] = Tail(s)]
  <2>1. DOMAIN network = Ranks /\ network[n] \in [Neighbours(n) -> Seq(Message)]
    BY <1>1, Here DEF Domains
  <2> QED BY <1>1, <1>15, <2>1
<1>18. \A k \in Ranks : network'[k] \in [Neighbours(k) -> Seq(Message)]
  <2>1. \A k \in Ranks : network[k] \in [Neighbours(k) -> Seq(Message)]
    BY Here
  <2>2. network'[n] \in [Neighbours(n) -> Seq(Message)]
    BY <1>1, <1>8, <1>17, <2>1
  <2>3. \A k \in Ranks : k = n \/ network'[k] = network[k]
    BY <1>17
  <2> QED BY <2>1, <2>2, <2>3
<1>19. \A k \in Ranks \ {r} : \A j \in Neighbours(k) \ {r} : network'[k][j] = network[k][j]
  <2>1. \A k \in Ranks : network[k] \in [Neighbours(k) -> Seq(Message)]
    BY Here
  <2> QED BY <1>1, <1>17, <2>1
<1>20. RankOK(r, pc[r], m_events[r], m_currentTs[r], m_uid[r], m_nullEventId[r], busy[r],
              m_safeTime[r], gt)
  <2>1. RankOK(r, pc[r], m_events[r], m_currentTs[r], m_uid[r], m_nullEventId[r], busy[r],
               m_safeTime[r], m_guaranteeTime[r]) /\ m_safeTime[r] \in Nat
    BY Here
  <2>2. m_safeTime[r] <= g
    BY <1>3, <2>1 DEF RankOK
  <2>3. \A k \in Neighbours(r) : m_safeTime[r] <= gt[k]
    BY <1>8, <1>9, <1>12, <2>1, <2>2 DEF RankOK
  <2> QED BY <2>1, <2>3 DEF RankOK
<1>21. m_safeTime[r] <= g /\ m_currentTs[r] <= m_safeTime[r]
  BY <1>3, Here DEF RankOK
<1>22. /\ q \in SUBSET EventRec /\ uid \in Nat
       /\ DOMAIN m_events' = Ranks /\ DOMAIN m_uid' = Ranks
       /\ \A k \in Ranks \ {r} : m_events'[k] = m_events[k] /\ m_uid'[k] = m_uid[k]
       /\ RankOK(r, pc[r], q, m_currentTs[r], uid, m_nullEventId[r], busy[r], m_safeTime[r], gt)
       /\ \A k \in Neighbours(r) :
            PairOK(r, k, pc[r], q, m_currentTs[r], m_nullEventId[r], busy[r], m_safeTime[r],
                   network[r][k], m_guaranteeTime[k][r])
  <2>1. CASE m.rxTime > 0
    <3>1. PICK f : f = Event(m.rxTime, m_uid[r], "user", NoArg)
      OBVIOUS
    <3>2. f \in EventRec /\ f.ts = m.rxTime /\ f.uid = m_uid[r] /\ f.kind = "user"
      BY <1>9, <3>1, Here DEF Event, EventRec
    <3>3. /\ m_events' = [m_events EXCEPT ![r] = @ \cup {f}]
          /\ m_uid' = [m_uid EXCEPT ![r] = @ + 1]
      BY <1>2, <1>4, <2>1, <3>1 DEF Receive, Insert
    <3>4. q = m_events[r] \cup {f} /\ uid = m_uid[r] + 1
      BY <1>13, <1>14, <3>3, Here DEF Domains
    <3>5. m_safeTime[r] <= f.ts /\ m_currentTs[r] <= f.ts
      BY <1>8, <1>9, <1>21, <2>1, <3>2, Here
    <3>6. RankOK(r, pc[r], q, m_currentTs[r], uid, m_nullEventId[r], busy[r], m_safeTime[r], gt)
      BY <1>20, <3>2, <3>4, <3>5, Here, RankAdd
    <3>7. ASSUME NEW k \in Neighbours(r)
          PROVE  PairOK(r, k, pc[r], q, m_currentTs[r], m_nullEventId[r], busy[r], m_safeTime[r],
                        network[r][k], m_guaranteeTime[k][r])
      BY <3>2, <3>4, <3>5, Here, Near, PairAdd
    <3>8. q \in SUBSET EventRec /\ uid \in Nat
      BY <3>2, <3>4, Here
    <3>9. /\ DOMAIN m_events' = Ranks /\ DOMAIN m_uid' = Ranks
          /\ \A k \in Ranks \ {r} : m_events'[k] = m_events[k] /\ m_uid'[k] = m_uid[k]
      BY <3>3, Here DEF Domains
    <3> QED BY <3>6, <3>7, <3>8, <3>9
  <2>2. CASE ~ (m.rxTime > 0)
    <3>1. m_events' = m_events /\ m_uid' = m_uid
      BY <1>2, <1>4, <2>2 DEF Receive
    <3>2. q = m_events[r] /\ uid = m_uid[r]
      BY <1>13, <1>14, <3>1
    <3>3. \A k \in Neighbours(r) :
            PairOK(r, k, pc[r], q, m_currentTs[r], m_nullEventId[r], busy[r], m_safeTime[r],
                   network[r][k], m_guaranteeTime[k][r])
      BY <3>2, Near
    <3> QED BY <1>20, <3>1, <3>2, <3>3, Here DEF Domains
  <2> QED BY <2>1, <2>2
<1>23. ASSUME NEW k \in Neighbours(r)
       PROVE  /\ PairOK(r, k, pc[r], q, m_currentTs[r], m_nullEventId[r], busy[r], m_safeTime[r],
                        network'[r][k], m_guaranteeTime[k][r])
              /\ PairOK(k, r, pc[k], m_events[k], m_currentTs[k], m_nullEventId[k], busy[k],
                        m_safeTime[k], network'[k][r], gt[k])
  <2>1. network'[r] = network[r]
    BY <1>1, <1>17
  <2>2. CASE k = n
    BY <1>10, <1>12, <1>17, <1>22, <2>1, <2>2
  <2>3. CASE k # n
    <3>1. k \in Ranks /\ network'[k] = network[k] /\ gt[k] = m_guaranteeTime[r][k]
      BY <1>12, <1>17, <2>3, Near
    <3>2. r \in Neighbours(k)
      BY Near
    <3>3. PairOK(k, r, pc[k], m_events[k], m_currentTs[k], m_nullEventId[k], busy[k],
                 m_safeTime[k], network[k][r], m_guaranteeTime[r][k])
      BY <3>1, <3>2, Near
    <3> QED BY <1>22, <2>1, <3>1, <3>3
  <2> QED BY <2>2, <2>3
<1>24. Got(r, q, uid, gt)
  BY <1>12, <1>13, <1>14, <1>16, <1>17, <1>18, <1>19, <1>22, <1>23 DEF Got
<1> QED BY <1>24

LEMMA GotStep ==
  ASSUME SingleLinks, NInv, NEW r \in Ranks, NEW q, NEW uid, NEW gt, Got(r, q, uid, gt),
         NEW p \in {"loop", "receive"}, pc[r] \in {"loop", "receive"},
         pc'[r] = p, \A s \in Ranks \ {r} : pc'[s] = pc[s], DOMAIN pc' = Ranks,
         NEW safe, safe = SafeTime(r, gt) \/ (safe = m_safeTime[r] /\ p = pc[r]),
         m_safeTime'[r] = safe, \A s \in Ranks \ {r} : m_safeTime'[s] = m_safeTime[s],
         DOMAIN m_safeTime' = Ranks,
         UNCHANGED <<m_currentTs, m_nullEventId, busy>>
  PROVE  NInv'
<1>1. /\ q \in SUBSET EventRec /\ uid \in Nat /\ gt \in [Neighbours(r) -> Nat]
      /\ RankOK(r, pc[r], q, m_currentTs[r], uid, m_nullEventId[r], busy[r], m_safeTime[r], gt)
  BY DEF Got
<1>2. m_currentTs[r] \in Nat /\ m_safeTime[r] \in Nat
  BY Here
<1>3. /\ RankOK(r, p, q, m_currentTs[r], uid, m_nullEventId[r], busy[r], safe, gt)
      /\ safe \in Nat /\ m_safeTime[r] <= safe
  <2>1. CASE safe = SafeTime(r, gt)
    <3>1. pc[r] # "program"
      OBVIOUS
    <3>2. /\ RankOK(r, p, q, m_currentTs[r], uid, m_nullEventId[r], busy[r], SafeTime(r, gt), gt)
          /\ m_safeTime[r] <= SafeTime(r, gt)
      BY <1>1, <1>2, <3>1, RankSafe
    <3>3. SafeTime(r, gt) \in Nat
      BY <1>1, SafeFacts
    <3> QED BY <2>1, <3>2, <3>3
  <2>2. CASE safe = m_safeTime[r] /\ p = pc[r]
    BY <1>1, <1>2, <2>2
  <2> QED BY <2>1, <2>2
<1>4. ASSUME NEW n \in Neighbours(r)
      PROVE  /\ PairOK(r, n, p, q, m_currentTs[r], m_nullEventId[r], busy[r], safe,
                       network'[r][n], m_guaranteeTime[n][r])
             /\ PairOK(n, r, pc[n], m_events[n], m_currentTs[n], m_nullEventId[n], busy[n],
                       m_safeTime[n], network'[n][r], gt[n])
  <2>1. /\ PairOK(r, n, pc[r], q, m_currentTs[r], m_nullEventId[r], busy[r], m_safeTime[r],
                  network'[r][n], m_guaranteeTime[n][r])
        /\ PairOK(n, r, pc[n], m_events[n], m_currentTs[n], m_nullEventId[n], busy[n],
                  m_safeTime[n], network'[n][r], gt[n])
    BY DEF Got
  <2>2. network'[r][n] \in Seq(Message)
    BY DEF Got
  <2>3. m_guaranteeTime[n][r] \in Nat
    BY Near
  <2>4. p # "event"
    OBVIOUS
  <2>5. PairOK(r, n, p, q, m_currentTs[r], m_nullEventId[r], busy[r], safe,
               network'[r][n], m_guaranteeTime[n][r])
    BY <1>2, <1>3, <2>1, <2>2, <2>3, <2>4, PairSafe
  <2> QED BY <2>1, <2>5
<1>5. Becomes(r, p, q, m_currentTs[r], uid, m_nullEventId[r], busy[r], safe, gt)
  BY Here DEF Becomes, Domains, Got
<1>6. Domains'
  BY Here DEF Domains, Got
<1>7. TypesOf(r, p, q, m_currentTs[r], uid, m_nullEventId[r], busy[r], safe, gt)
  BY <1>1, <1>3, Here DEF TypesOf
<1>8. /\ \A s \in Ranks : network'[s] \in [Neighbours(s) -> Seq(Message)]
      /\ \A s \in Ranks \ {r} : \A n \in Neighbours(s) \ {r} : network'[s][n] = network[s][n]
  BY DEF Got
<1> QED BY <1>3, <1>4, <1>5, <1>6, <1>7, <1>8, Frame

LEMMA ReceiveSteps ==
  ASSUME SingleLinks, NInv, NEW r \in Ranks,
         \/ \E n \in Neighbours(r) : ReceiveMessage(r, n)
         \/ EndReceive(r)
         \/ ReceiveBlocking(r)
  PROVE  NInv'
<1>1. DOMAIN pc = Ranks /\ DOMAIN m_safeTime = Ranks
  BY Here DEF Domains
<1>2. ASSUME NEW n \in Neighbours(r), ReceiveMessage(r, n) PROVE NInv'
  <2>1. pc[r] = "receive" /\ Receive(r, n)
        /\ UNCHANGED <<pc, m_currentTs, m_safeTime, m_nullEventId, busy>>
    BY <1>2 DEF ReceiveMessage
  <2>2. PICK q, uid, gt : Got(r, q, uid, gt)
    BY <2>1, GotOne
  <2> QED BY <1>1, <2>1, <2>2, GotStep
<1>3. CASE EndReceive(r)
  <2>1. /\ pc[r] = "receive" /\ pc' = [pc EXCEPT ![r] = "loop"]
        /\ m_safeTime' = [m_safeTime EXCEPT ![r] = SafeTime(r, m_guaranteeTime[r])]
        /\ UNCHANGED <<m_currentTs, m_nullEventId, busy>>
        /\ UNCHANGED <<network, m_guaranteeTime, m_events, m_uid>>
    BY <1>3 DEF EndReceive
  <2>2. Got(r, m_events[r], m_uid[r], m_guaranteeTime[r])
    BY <2>1, GotNone
  <2>3. /\ pc'[r] = "loop" /\ (\A s \in Ranks \ {r} : pc'[s] = pc[s]) /\ DOMAIN pc' = Ranks
        /\ m_safeTime'[r] = SafeTime(r, m_guaranteeTime[r])
        /\ (\A s \in Ranks \ {r} : m_safeTime'[s] = m_safeTime[s]) /\ DOMAIN m_safeTime' = Ranks
    BY <1>1, <2>1
  <2> QED BY <2>1, <2>2, <2>3, GotStep
<1>4. CASE ReceiveBlocking(r)
  <2>1. /\ pc[r] = "loop" /\ ReceiveMessages(r)
        /\ m_safeTime' = [m_safeTime EXCEPT ![r] = SafeTime(r, m_guaranteeTime'[r])]
        /\ UNCHANGED <<pc, m_currentTs, m_nullEventId, busy>>
    BY <1>4 DEF ReceiveBlocking, MustWait
  <2>2. PICK q, uid, gt : Got(r, q, uid, gt)
    <3>1. CASE Neighbours(r) = {}
      <4>1. UNCHANGED <<network, m_guaranteeTime, m_events, m_uid>>
        BY <2>1, <3>1 DEF ReceiveMessages
      <4>2. Got(r, m_events[r], m_uid[r], m_guaranteeTime[r])
        BY <4>1, GotNone
      <4> QED BY <4>2
    <3>2. CASE Neighbours(r) # {}
      <4>1. PICK n \in Neighbours(r) : Receive(r, n)
        BY <2>1, <3>2 DEF ReceiveMessages
      <4> QED BY <4>1, GotOne
    <3> QED BY <3>1, <3>2
  <2>3. m_guaranteeTime'[r] = gt
    BY <2>2 DEF Got
  <2>4. /\ pc'[r] = "loop" /\ (\A s \in Ranks \ {r} : pc'[s] = pc[s]) /\ DOMAIN pc' = Ranks
        /\ m_safeTime'[r] = SafeTime(r, gt)
        /\ (\A s \in Ranks \ {r} : m_safeTime'[s] = m_safeTime[s]) /\ DOMAIN m_safeTime' = Ranks
    BY <1>1, <2>1, <2>3
  <2> QED BY <2>1, <2>2, <2>4, GotStep
<1> QED BY <1>2, <1>3, <1>4

LEMMA NextNInv == ASSUME SingleLinks, NInv, [Next]_vars PROVE NInv'
<1>1. CASE UNCHANGED vars
  BY <1>1, StutterStep
<1>2. CASE Next
  <2>1. PICK r \in Ranks :
          UserCode(r) \/ Engine(r) \/ \E n \in Neighbours(r) : ReceiveMessage(r, n)
    BY <1>2 DEF Next
  <2>2. CASE UserCode(r)
    <3>1. ASSUME NEW delay \in Delays, Schedule(r, delay) PROVE NInv'
      BY <3>1, ScheduleStep
    <3>2. ASSUME NEW l \in LinksOf(r), NEW txTime \in TxTimes, SendNow(r, l, txTime) PROVE NInv'
      BY <3>2, SendNowStep
    <3>3. ASSUME NEW l \in LinksOf(r), SendLater(r, l) PROVE NInv'
      BY <3>3, SendLaterStep
    <3> QED BY <2>2, <3>1, <3>2, <3>3 DEF UserCode
  <2>3. CASE Run(r)
    BY <2>3, RunStep
  <2>4. CASE EventReturn(r)
    BY <2>4, QuietStep DEF EventReturn
  <2>5. CASE RunReturn(r)
    BY <2>5, QuietStep DEF RunReturn
  <2>6. CASE EndReceive(r) \/ ReceiveBlocking(r) \/ \E n \in Neighbours(r) : ReceiveMessage(r, n)
    BY <2>6, ReceiveSteps
  <2>7. ASSUME NEW e \in m_events[r],
               \/ ProcessUser(r, e) \/ ProcessStop(r, e) \/ ProcessCancelled(r, e)
               \/ TransmitCompleteIdle(r, e)
        PROVE  NInv'
    BY <2>7, ProcessStep
  <2>8. ASSUME NEW e \in m_events[r], NullMessageEventHandler(r, e) PROVE NInv'
    BY <2>8, NullStep
  <2>9. ASSUME NEW e \in m_events[r], NEW txTime \in TxTimes, TransmitCompleteNext(r, e, txTime)
        PROVE  NInv'
    BY <2>9, TransmitNextStep
  <2> QED BY <2>1, <2>2, <2>3, <2>4, <2>5, <2>6, <2>7, <2>8, <2>9 DEF Engine
<1> QED BY <1>1, <1>2

-----------------------------------------------------------------------------
(* The invariant: what each rank has queued, received and promised fits the  *)
(* promises its neighbours have from it.                                     *)
THEOREM Inductive == ASSUME SingleLinks PROVE Spec => []NInv
<1>1. Init => NInv
  BY InitNInv
<1>2. NInv /\ [Next]_vars => NInv'
  BY NextNInv
<1> QED BY <1>1, <1>2, PTL DEF Spec

(* No packet arrives that is due before the guarantee its receiver counts on *)
(* or before the receiver's clock, and no event of any queue is in the past. *)
THEOREM NoneTooLate == ASSUME SingleLinks PROVE Spec => []NoStraggler
<1>1. NInv => NoStraggler
  <2> SUFFICES ASSUME NInv, NEW r \in Ranks
               PROVE  /\ \A e \in m_events[r] : m_currentTs[r] <= e.ts
                      /\ \A n \in Neighbours(r) : \A i \in DOMAIN network[n][r] :
                           network[n][r][i].rxTime > 0 =>
                             /\ network[n][r][i].rxTime >= m_guaranteeTime[r][n]
                             /\ network[n][r][i].rxTime >= m_currentTs[r]
    BY DEF NoStraggler
  <2>1. RankOK(r, pc[r], m_events[r], m_currentTs[r], m_uid[r], m_nullEventId[r], busy[r],
               m_safeTime[r], m_guaranteeTime[r])
    BY Here
  <2>2. \A e \in m_events[r] : m_currentTs[r] <= e.ts
    BY <2>1 DEF RankOK, EventsOK
  <2>3. ASSUME NEW n \in Neighbours(r), NEW i \in DOMAIN network[n][r],
               network[n][r][i].rxTime > 0
        PROVE  /\ network[n][r][i].rxTime >= m_guaranteeTime[r][n]
               /\ network[n][r][i].rxTime >= m_currentTs[r]
    <3>1. n \in Ranks /\ r \in Neighbours(n)
      BY Near
    <3>2. network[n][r] \in Seq(Message) /\ m_guaranteeTime[r][n] \in Nat
          /\ Chain(network[n][r], m_guaranteeTime[r][n])
      BY <3>1, Near DEF PairOK
    <3>3. network[n][r][i] \in Message
      BY <3>2
    <3>4. network[n][r][i].rxTime \in Nat
      BY <3>3 DEF Message
    <3>5. m_guaranteeTime[r][n] <= network[n][r][i].rxTime
      BY <2>3, <3>2 DEF Chain
    <3>6. /\ m_currentTs[r] \in Nat /\ m_safeTime[r] \in Nat
          /\ m_currentTs[r] <= m_safeTime[r] /\ m_safeTime[r] <= m_guaranteeTime[r][n]
      BY <2>1, Here DEF RankOK
    <3> QED BY <3>2, <3>4, <3>5, <3>6
  <2> QED BY <2>2, <2>3
<1> QED BY <1>1, Inductive, PTL

(* A guarantee on the way is never below the one before it, and no clock     *)
(* has passed a guarantee its rank has received: the assertions of           *)
(* SetGuaranteeTime and CalculateSafeTime cannot fail.                       *)
THEOREM PromisesKept == ASSUME SingleLinks PROVE Spec => []GuaranteesHold
<1>1. NInv => GuaranteesHold
  <2> SUFFICES ASSUME NInv, NEW r \in Ranks, NEW n \in Neighbours(r)
               PROVE  /\ m_guaranteeTime[r][n] >= m_currentTs[r]
                      /\ \A i \in DOMAIN network[n][r] :
                           network[n][r][i].guarantee >=
                             IF i = 1 THEN m_guaranteeTime[r][n] ELSE network[n][r][i - 1].guarantee
    BY DEF GuaranteesHold
  <2>1. /\ m_currentTs[r] \in Nat /\ m_safeTime[r] \in Nat /\ m_guaranteeTime[r][n] \in Nat
        /\ m_currentTs[r] <= m_safeTime[r] /\ m_safeTime[r] <= m_guaranteeTime[r][n]
    BY Here DEF RankOK
  <2>2. m_guaranteeTime[r][n] >= m_currentTs[r]
    BY <2>1
  <2>3. n \in Ranks /\ r \in Neighbours(n)
    BY Near
  <2>4. PICK q \in Seq(Message) : q = network[n][r]
    BY <2>3, Near
  <2>5. PICK g \in Nat : g = m_guaranteeTime[r][n]
    BY <2>1
  <2>6. Chain(q, g)
    BY <2>3, <2>4, <2>5, Near DEF PairOK
  <2>7. ASSUME NEW i \in DOMAIN q PROVE q[i].guarantee \in Nat
    <3>1. q[i] \in Message
      OBVIOUS
    <3> QED BY <3>1 DEF Message
  <2>8. ASSUME NEW i \in DOMAIN q
        PROVE  q[i].guarantee >= IF i = 1 THEN g ELSE q[i - 1].guarantee
    <3>1. CASE i = 1
      BY <2>6, <2>7, <3>1 DEF Chain
    <3>2. CASE i # 1
      <4>1. i - 1 \in DOMAIN q /\ i - 1 < i
        BY <3>2
      <4>2. q[i - 1].guarantee <= q[i].guarantee
        BY <2>6, <4>1 DEF Chain
      <4>3. q[i - 1].guarantee \in Nat /\ q[i].guarantee \in Nat
        BY <2>7, <4>1
      <4> QED BY <3>2, <4>2, <4>3
    <3> QED BY <3>1, <3>2
  <2> QED BY <2>2, <2>4, <2>5, <2>8
<1> QED BY <1>1, Inductive, PTL

(* Each bundle has a null message event that is queued, not cancelled and    *)
(* due within a period, as long as Run is in its loop.                       *)
THEOREM NullMessagesContinue == ASSUME SingleLinks PROVE Spec => []NullMessagesGoOn
<1>1. NInv => NullMessagesGoOn
  <2> SUFFICES ASSUME NInv, NEW r \in Ranks, pc[r] \in {"loop", "event", "receive"},
                      NEW n \in Neighbours(r)
               PROVE  \E e \in m_events[r] :
                        /\ e.kind = "null" /\ e.arg = n /\ e.uid = m_nullEventId[r][n]
                        /\ e.ts <= m_currentTs[r] + Period(r, n)
    BY DEF NullMessagesGoOn
  <2>1. NullsOK(r, m_events[r], m_currentTs[r], m_nullEventId[r])
    BY Here DEF RankOK
  <2> QED BY <2>1 DEF NullsOK, Live
<1> QED BY <1>1, Inductive, PTL

=============================================================================
