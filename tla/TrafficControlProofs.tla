-------------------------- MODULE TrafficControlProofs --------------------------
(***************************************************************************)
(* Proofs about TrafficControl, for every set of packet sizes, every size  *)
(* of the queues and of the counters, every quota and every range of the   *)
(* byte limits.                                                            *)
(***************************************************************************)
EXTENDS TrafficControl, SequenceTheorems, WellFoundedInduction, TLAPS

Limits ==
  [limit : 0 .. MaxLimit, numQueued : Int, numCompleted : Int, adjLimit : Int, lastObjCnt : Int,
   prevNumQueued : Int, prevLastObjCnt : Int, prevOvlimit : Int, lowestSlack : Int]

Device ==
  [queue : Seq(Sizes), busy : BOOLEAN, byDevice : BOOLEAN, byLimits : BOOLEAN, wakes : Nat,
   discarded : SUBSET Sizes, ql : Limits]

Types ==
  /\ unit \in {"packets", "bytes"} /\ root \in BOOLEAN /\ limited \in BOOLEAN
  /\ disc \in Nat /\ quota \in Nat /\ m_running \in BOOLEAN /\ spent \in BOOLEAN
  /\ dev \in Device

(* The counters of the limits agree with the device queue, modulo Word. *)
Linked(d) ==
  limited => /\ Unsigned(d.ql.numQueued - d.ql.numCompleted) = Bytes(d.queue)
             /\ d.ql.adjLimit = Unsigned(d.ql.limit + d.ql.numCompleted)

(* A packet is added only to a queue that the limits have not stopped, and   *)
(* such a queue is within the largest limit, if not within a limit that has  *)
(* been lowered since.                                                       *)
Within(d) ==
  limited => /\ d.queue # <<>> => Bytes(d.queue) - d.queue[Len(d.queue)] <= MaxLimit
             /\ ~d.byLimits => Bytes(d.queue) <= MaxLimit

(* A queue the device has not stopped has room for a packet of Mtu. *)
Roomy(d) == ~d.byDevice => Fits(d.queue, Mtu)

Unlimited(d) == ~limited => ~d.byLimits

Core(d) == Linked(d) /\ Within(d) /\ Roomy(d) /\ Unlimited(d)

(* Packets wait in the device only behind one that is being sent. *)
Serving(d) == d.queue # <<>> => d.busy
Stops(d)   == IsStopped(d) => d.queue # <<>> /\ d.busy

RunInv ==
  /\ m_running => quota > 0
  /\ disc > 0 => root

TInv ==
  /\ Types /\ Core(dev) /\ Serving(dev) /\ Stops(dev) /\ RunInv
  /\ NothingForgotten /\ RoomForPacket

-----------------------------------------------------------------------------
(* Counters that wrap: numbers that differ by a multiple of Word. *)
Cong(a, b) == \E k \in Int : a = b + k * Word

LEMMA WordType == Word \in Nat \ {0}
  BY TrafficControlAssumption

LEMMA CongRefl == ASSUME NEW a \in Int PROVE Cong(a, a)
<1>1. a = a + 0 * Word
  BY WordType
<1> QED BY <1>1 DEF Cong

LEMMA CongSum ==
  ASSUME NEW a \in Int, NEW b \in Int, NEW c \in Int, NEW d \in Int, Cong(a, b), Cong(c, d)
  PROVE  Cong(a + c, b + d) /\ Cong(a - c, b - d)
<1>1. PICK k \in Int : a = b + k * Word
  BY DEF Cong
<1>2. PICK m \in Int : c = d + m * Word
  BY DEF Cong
<1>3. /\ (k + m) * Word = k * Word + m * Word /\ (k - m) * Word = k * Word - m * Word
      /\ k * Word \in Int /\ m * Word \in Int /\ k + m \in Int /\ k - m \in Int
  BY WordType
<1>4. a + c = (b + d) + (k + m) * Word /\ a - c = (b - d) + (k - m) * Word
  BY <1>1, <1>2, <1>3
<1> QED BY <1>3, <1>4 DEF Cong

LEMMA CongTrans ==
  ASSUME NEW a \in Int, NEW b \in Int, NEW c \in Int, Cong(a, b), Cong(b, c)
  PROVE  Cong(a, c)
<1>1. PICK k \in Int : a = b + k * Word
  BY DEF Cong
<1>2. PICK m \in Int : b = c + m * Word
  BY DEF Cong
<1>3. (k + m) * Word = k * Word + m * Word /\ k * Word \in Int /\ m * Word \in Int /\ k + m \in Int
  BY WordType
<1>4. a = c + (k + m) * Word
  BY <1>1, <1>2, <1>3
<1> QED BY <1>3, <1>4 DEF Cong

LEMMA CongSym == ASSUME NEW a \in Int, NEW b \in Int, Cong(a, b) PROVE Cong(b, a)
<1>1. PICK k \in Int : a = b + k * Word
  BY DEF Cong
<1>2. (-k) * Word = -(k * Word) /\ k * Word \in Int /\ -k \in Int
  BY WordType
<1>3. b = a + (-k) * Word
  BY <1>1, <1>2
<1> QED BY <1>2, <1>3 DEF Cong

LEMMA CongEqual ==
  ASSUME NEW a \in Int, NEW b \in Int, Cong(a, b), a - b < Word, b - a < Word
  PROVE  a = b
<1>1. PICK k \in Int : a = b + k * Word
  BY DEF Cong
<1>2. k * Word \in Int /\ k * Word < Word /\ k * Word > -Word
  BY <1>1, WordType
<1>3. CASE k >= 1
  <2>1. k * Word >= Word
    BY <1>3, WordType
  <2> QED BY <1>2, <2>1, WordType
<1>4. CASE k <= -1
  <2>1. k * Word <= -Word
    BY <1>4, WordType
  <2> QED BY <1>2, <2>1, WordType
<1>5. CASE k = 0
  BY <1>1, <1>5, WordType
<1> QED BY <1>3, <1>4, <1>5

LEMMA CongUnsigned ==
  ASSUME NEW a \in Int
  PROVE  Unsigned(a) \in 0 .. Word - 1 /\ Unsigned(a) \in Int /\ Cong(Unsigned(a), a) /\ Cong(a, Unsigned(a))
<1>1. /\ a % Word \in 0 .. Word - 1 /\ a \div Word \in Int
      /\ a = Word * (a \div Word) + (a % Word)
  BY WordType
<1>2. PICK k \in Int : k = a \div Word
  BY <1>1
<1>3. PICK r \in 0 .. Word - 1 : r = a % Word
  BY <1>1
<1>4. a = r + k * Word
  BY <1>1, <1>2, <1>3, WordType
<1>5. Cong(a, r) /\ r \in Int
  BY <1>4, WordType DEF Cong
<1>6. Cong(r, a)
  BY <1>5, CongSym
<1> QED BY <1>3, <1>5, <1>6 DEF Unsigned

(* The representatives that the code computes with. *)
LEMMA UnsignedIs ==
  ASSUME NEW a \in Int, NEW r \in Int, Cong(a, r), 0 <= r, r < Word
  PROVE  Unsigned(a) = r
<1>1. PICK u \in Int : u = Unsigned(a)
  BY CongUnsigned
<1>2. u \in 0 .. Word - 1 /\ Cong(u, a)
  BY <1>1, CongUnsigned
<1>3. Cong(u, r)
  BY <1>2, CongTrans
<1>4. u - r < Word /\ r - u < Word
  BY <1>2, WordType
<1> QED BY <1>1, <1>3, <1>4, CongEqual

LEMMA SignedIs ==
  ASSUME NEW a \in Int, NEW s \in Int, Cong(a, s), -(Word \div 2) <= s, s < Word \div 2
  PROVE  Signed(a) = s
<1>1. PICK h \in Int : h = Word \div 2
  BY WordType
<1>2. 0 <= h /\ h + h <= Word
  BY <1>1, WordType
<1>3. CASE s >= 0
  <2>1. Unsigned(a) = s
    BY <1>1, <1>2, <1>3, UnsignedIs, WordType
  <2> QED BY <2>1 DEF Signed
<1>4. CASE s < 0
  <2>1. s + Word \in Int /\ 0 <= s + Word /\ s + Word < Word /\ ~(s + Word < h)
    BY <1>1, <1>2, <1>4, WordType
  <2>2. Cong(a, s + Word)
    <3>1. PICK k \in Int : a = s + k * Word
      BY DEF Cong
    <3>2. (k - 1) * Word = k * Word - Word /\ k * Word \in Int /\ k - 1 \in Int
      BY WordType
    <3>3. a = (s + Word) + (k - 1) * Word
      BY <3>1, <3>2, WordType
    <3> QED BY <3>2, <3>3 DEF Cong
  <2>3. Unsigned(a) = s + Word
    BY <2>1, <2>2, UnsignedIs
  <2> QED BY <1>1, <2>1, <2>3, WordType DEF Signed
<1> QED BY <1>3, <1>4

LEMMA SignedInt == ASSUME NEW a \in Int PROVE Signed(a) \in Int
<1>1. Unsigned(a) \in Int
  BY CongUnsigned
<1> QED BY <1>1, WordType DEF Signed

-----------------------------------------------------------------------------
(* Induction for a set of numbers, from the least number outside it. *)
LEMMA SetInduction ==
  ASSUME NEW S, 0 \in S, \A n \in Nat : n \in S => n + 1 \in S
  PROVE  Nat \subseteq S
<1> SUFFICES ASSUME Nat \ S # {} PROVE FALSE
  OBVIOUS
<1> DEFINE R == OpToRel(<, Nat)
<1>1. PICK m \in Nat \ S : \A y \in Nat \ S : <<y, m>> \notin R
  BY WFMin, NatLessThanWellFounded
<1>2. \A y \in Nat \ S : ~ (y < m)
  BY <1>1 DEF OpToRel
<1>3. m # 0 /\ m \in Nat
  BY <1>1
<1>4. m - 1 \in Nat /\ m - 1 < m /\ m - 1 + 1 = m
  BY <1>3
<1>5. m - 1 \in S
  BY <1>2, <1>4
<1>6. m - 1 + 1 \in S
  BY <1>4, <1>5
<1> QED BY <1>1, <1>4, <1>6

(* The sums of the prefixes of a queue: what Bytes computes. *)
Sums(f, q) ==
  /\ f \in [0 .. Len(q) -> Nat] /\ f[0] = 0
  /\ \A i \in 1 .. Len(q) : f[i] = f[i - 1] + q[i]

Recursion(f, q) == f = [i \in 0 .. Len(q) |-> IF i = 0 THEN 0 ELSE f[i - 1] + q[i]]

LEMMA SumsExist == ASSUME NEW q \in Seq(Nat) PROVE \E f : Recursion(f, q)
<1> DEFINE P(n) == \E f : f = [i \in 0 .. n |-> IF i = 0 THEN 0 ELSE f[i - 1] + q[i]]
           S == {n \in Nat : P(n)}
<1>1. 0 \in S
  <2>1. PICK f : f = [i \in 0 .. 0 |-> 0]
    OBVIOUS
  <2>2. f = [i \in 0 .. 0 |-> IF i = 0 THEN 0 ELSE f[i - 1] + q[i]]
    BY <2>1
  <2> QED BY <2>2
<1>2. ASSUME NEW n \in Nat, n \in S PROVE n + 1 \in S
  <2>1. PICK f : f = [i \in 0 .. n |-> IF i = 0 THEN 0 ELSE f[i - 1] + q[i]]
    BY <1>2
  <2>2. PICK g : g = [i \in 0 .. n + 1 |-> IF i = n + 1 THEN f[n] + q[n + 1] ELSE f[i]]
    OBVIOUS
  <2>3. ASSUME NEW i \in 0 .. n + 1 PROVE g[i] = IF i = 0 THEN 0 ELSE g[i - 1] + q[i]
    <3>1. CASE i = n + 1
      <4>1. g[i] = f[n] + q[n + 1] /\ g[n] = f[n] /\ i # 0 /\ i - 1 = n
        BY <2>2, <3>1
      <4> QED BY <3>1, <4>1
    <3>2. CASE i # n + 1 /\ i # 0
      <4>1. i \in 0 .. n /\ i - 1 \in 0 .. n + 1 /\ i - 1 # n + 1
        BY <3>2
      <4>2. g[i] = f[i] /\ g[i - 1] = f[i - 1]
        BY <2>2, <3>2, <4>1
      <4>3. f[i] = IF i = 0 THEN 0 ELSE f[i - 1] + q[i]
        BY <2>1, <4>1
      <4>4. i # 0
        BY <3>2
      <4> QED BY <4>2, <4>3, <4>4
    <3>3. CASE i = 0
      <4>1. g[0] = f[0] /\ f[0] = 0
        BY <2>1, <2>2, <3>3
      <4> QED BY <3>3, <4>1
    <3> QED BY <3>1, <3>2, <3>3
  <2>4. g = [i \in 0 .. n + 1 |-> g[i]]
    BY <2>2
  <2>5. g = [i \in 0 .. n + 1 |-> IF i = 0 THEN 0 ELSE g[i - 1] + q[i]]
    BY <2>3, <2>4
  <2>6. P(n + 1)
    BY <2>5
  <2>7. n + 1 \in Nat
    OBVIOUS
  <2> HIDE DEF P
  <2> QED BY <2>6, <2>7
<1> HIDE DEF S
<1>3. Nat \subseteq S
  BY <1>1, <1>2, SetInduction
<1>4. Len(q) \in S
  BY <1>3
<1> QED BY <1>4 DEF S, Recursion

LEMMA BytesSums == ASSUME NEW q \in Seq(Nat) PROVE \E f : Sums(f, q) /\ Bytes(q) = f[Len(q)]
<1>1. PICK f : f = CHOOSE g : Recursion(g, q)
  OBVIOUS
<1>2. Recursion(f, q)
  BY <1>1, SumsExist
<1>3. Bytes(q) = f[Len(q)]
  BY <1>1 DEF Bytes, Recursion
<1>4. DOMAIN f = 0 .. Len(q) /\ Len(q) \in Nat
  BY <1>2 DEF Recursion
<1>5. f[0] = 0 /\ \A i \in 1 .. Len(q) : f[i] = f[i - 1] + q[i]
  BY <1>2, <1>4 DEF Recursion
<1> DEFINE S == {n \in Nat : n <= Len(q) => f[n] \in Nat}
<1>6. 0 \in S
  BY <1>5
<1>7. ASSUME NEW n \in Nat, n \in S PROVE n + 1 \in S
  <2> SUFFICES ASSUME n + 1 <= Len(q) PROVE f[n + 1] \in Nat
    OBVIOUS
  <2>1. f[n] \in Nat /\ n + 1 \in 1 .. Len(q)
    BY <1>4, <1>7
  <2>2. f[n + 1] = f[n] + q[n + 1] /\ q[n + 1] \in Nat
    BY <1>5, <2>1
  <2> QED BY <2>1, <2>2
<1> HIDE DEF S
<1>8. Nat \subseteq S
  BY <1>6, <1>7, SetInduction
<1>9. ASSUME NEW i \in 0 .. Len(q) PROVE f[i] \in Nat
  <2>1. i \in Nat /\ i <= Len(q)
    BY <1>4
  <2> QED BY <1>8, <2>1 DEF S
<1>10. f = [i \in 0 .. Len(q) |-> f[i]]
  BY <1>2 DEF Recursion
<1>11. f \in [0 .. Len(q) -> Nat]
  BY <1>9, <1>10
<1> QED BY <1>3, <1>5, <1>11 DEF Sums

LEMMA BytesNat == ASSUME NEW q \in Seq(Nat) PROVE Bytes(q) \in Nat
<1>1. PICK f : Sums(f, q) /\ Bytes(q) = f[Len(q)]
  BY BytesSums
<1>2. Len(q) \in 0 .. Len(q)
  OBVIOUS
<1> QED BY <1>1, <1>2 DEF Sums

LEMMA BytesEmpty == Bytes(<<>>) = 0
<1>0. <<>> \in Seq(Nat)
  OBVIOUS
<1>1. PICK q \in Seq(Nat) : q = <<>>
  BY <1>0
<1>2. PICK f : Sums(f, q) /\ Bytes(q) = f[Len(q)]
  BY BytesSums
<1>3. Len(q) = 0
  BY <1>1
<1> QED BY <1>1, <1>2, <1>3 DEF Sums

(* Queue::DoEnqueue adds the size of the packet to m_nBytes. *)
LEMMA BytesAppend ==
  ASSUME NEW q \in Seq(Nat), NEW n \in Nat
  PROVE  Bytes(Append(q, n)) = Bytes(q) + n
<1>0. Append(q, n) \in Seq(Nat)
  OBVIOUS
<1>1. PICK t \in Seq(Nat) : t = Append(q, n)
  BY <1>0
<1>2. Len(q) \in Nat /\ Len(t) = Len(q) + 1 /\ t[Len(q) + 1] = n /\ \A i \in 1 .. Len(q) : t[i] = q[i]
  BY <1>1
<1>3. PICK f : Sums(f, q) /\ Bytes(q) = f[Len(q)]
  BY BytesSums
<1>4. PICK g : Sums(g, t) /\ Bytes(t) = g[Len(t)]
  BY BytesSums
<1> DEFINE S == {i \in Nat : i <= Len(q) => g[i] = f[i]}
<1>5. 0 \in S
  BY <1>3, <1>4 DEF Sums
<1>6. ASSUME NEW i \in Nat, i \in S PROVE i + 1 \in S
  <2> SUFFICES ASSUME i + 1 <= Len(q) PROVE g[i + 1] = f[i + 1]
    OBVIOUS
  <2>1. i + 1 \in 1 .. Len(q) /\ i + 1 \in 1 .. Len(t) /\ g[i] = f[i] /\ i + 1 - 1 = i
    BY <1>2, <1>6
  <2>2. f[i + 1] = f[i] + q[i + 1]
    BY <1>3, <2>1 DEF Sums
  <2>3. g[i + 1] = g[i] + t[i + 1]
    BY <1>4, <2>1 DEF Sums
  <2>4. t[i + 1] = q[i + 1]
    BY <1>2, <2>1
  <2> QED BY <2>1, <2>2, <2>3, <2>4
<1> HIDE DEF S
<1>7. Len(q) \in S
  BY <1>2, <1>5, <1>6, SetInduction
<1>8. g[Len(q)] = f[Len(q)]
  BY <1>2, <1>7 DEF S
<1>9. Len(q) + 1 \in 1 .. Len(t) /\ Len(q) + 1 - 1 = Len(q)
  BY <1>2
<1>10. g[Len(q) + 1] = g[Len(q)] + n
  BY <1>2, <1>4, <1>9 DEF Sums
<1> QED BY <1>1, <1>2, <1>3, <1>4, <1>8, <1>10

(* Queue::DoDequeue subtracts it. *)
LEMMA BytesTail ==
  ASSUME NEW q \in Seq(Nat), q # <<>>
  PROVE  Bytes(q) = Bytes(Tail(q)) + Head(q)
<1>0. Tail(q) \in Seq(Nat)
  OBVIOUS
<1>1. PICK t \in Seq(Nat) : t = Tail(q)
  BY <1>0
<1>2. /\ Len(q) \in Nat /\ Len(t) \in Nat /\ Len(q) = Len(t) + 1 /\ Head(q) = q[1] /\ q[1] \in Nat
      /\ \A i \in 1 .. Len(t) : t[i] = q[i + 1]
  BY <1>1
<1>3. PICK f : Sums(f, q) /\ Bytes(q) = f[Len(q)]
  BY BytesSums
<1>4. PICK g : Sums(g, t) /\ Bytes(t) = g[Len(t)]
  BY BytesSums
<1> DEFINE S == {i \in Nat : i <= Len(t) => f[i + 1] = g[i] + q[1]}
<1>5. 0 \in S
  <2>1. 1 \in 1 .. Len(q) /\ 1 - 1 = 0 /\ 0 + 1 = 1
    BY <1>2
  <2>2. f[1] = f[0] + q[1]
    BY <1>3, <2>1 DEF Sums
  <2>3. f[0] = 0 /\ g[0] = 0
    BY <1>3, <1>4 DEF Sums
  <2> QED BY <2>1, <2>2, <2>3
<1>6. ASSUME NEW i \in Nat, i \in S PROVE i + 1 \in S
  <2> SUFFICES ASSUME i + 1 <= Len(t) PROVE f[i + 1 + 1] = g[i + 1] + q[1]
    OBVIOUS
  <2>1. PICK k \in Nat : k = i + 1
    OBVIOUS
  <2>2. /\ k + 1 \in 1 .. Len(q) /\ k \in 1 .. Len(t) /\ k + 1 - 1 = k /\ k - 1 = i
        /\ i \in 0 .. Len(t) /\ f[k] = g[i] + q[1]
    BY <1>2, <1>6, <2>1
  <2>3. f[k + 1] = f[k] + q[k + 1]
    BY <1>3, <2>2 DEF Sums
  <2>4. g[k] = g[i] + t[k]
    BY <1>4, <2>2 DEF Sums
  <2>5. t[k] = q[k + 1] /\ t[k] \in Nat /\ g[i] \in Nat
    <3>1. t[k] \in Nat
      BY <2>2
    <3>2. g \in [0 .. Len(t) -> Nat]
      BY <1>4 DEF Sums
    <3> QED BY <1>2, <2>2, <3>1, <3>2
  <2> QED BY <1>2, <2>1, <2>2, <2>3, <2>4, <2>5
<1> HIDE DEF S
<1>7. Len(t) \in S
  BY <1>2, <1>5, <1>6, SetInduction
<1>8. f[Len(q)] = g[Len(t)] + q[1]
  BY <1>2, <1>7 DEF S
<1> QED BY <1>1, <1>2, <1>3, <1>4, <1>8

(* A queue is not shorter, in bytes, than its last packet. *)
LEMMA BytesLast ==
  ASSUME NEW q \in Seq(Nat), q # <<>>
  PROVE  Bytes(q) >= q[Len(q)] /\ q[Len(q)] \in Nat
<1>1. PICK f : Sums(f, q) /\ Bytes(q) = f[Len(q)]
  BY BytesSums
<1>2. Len(q) \in 1 .. Len(q) /\ Len(q) - 1 \in 0 .. Len(q)
  OBVIOUS
<1>3. PICK n : n = Len(q)
  OBVIOUS
<1>4. q[n] \in Nat
  BY <1>2, <1>3
<1>5. f \in [0 .. n -> Nat] /\ f[n] = f[n - 1] + q[n]
  BY <1>1, <1>2, <1>3 DEF Sums
<1>6. f[n - 1] \in Nat
  BY <1>2, <1>3, <1>5
<1>7. Bytes(q) = f[n]
  BY <1>1, <1>3
<1>8. Bytes(q) >= q[n]
  BY <1>4, <1>5, <1>6, <1>7
<1> QED BY <1>3, <1>4, <1>8

-----------------------------------------------------------------------------
(* DynamicQueueLimits. *)
LEMMA SizeFacts ==
  /\ \A n \in Sizes : n \in Nat /\ n > 0 /\ n <= DevBytes /\ MaxLimit + n < Word \div 2
  /\ Mtu \in Nat /\ DevBytes \in Nat /\ Mtu <= DevBytes /\ DevPackets \in Nat /\ DevPackets > 0
  /\ MaxLimit \in Nat /\ MinLimit \in Nat /\ m_quota \in Nat /\ m_quota > 0
  /\ Seq(Sizes) \subseteq Seq(Nat)
<1>1. /\ \A n \in Sizes : n \in Nat /\ n > 0 /\ n <= DevBytes /\ MaxLimit + n < Word \div 2
      /\ DevPackets \in Nat /\ DevPackets > 0
      /\ MaxLimit \in Nat /\ MinLimit \in Nat /\ m_quota \in Nat /\ m_quota > 0
  BY TrafficControlAssumption
<1>2. Mtu \in Nat /\ DevBytes \in Nat /\ Mtu <= DevBytes
  BY TrafficControlAssumption
<1>3. ASSUME NEW q \in Seq(Sizes) PROVE q \in Seq(Nat)
  BY <1>1
<1> QED BY <1>1, <1>2, <1>3

LEMMA PosdiffInt == ASSUME NEW a \in Int, NEW b \in Int PROVE Posdiff(a, b) \in Int
<1>1. a - b \in Int
  OBVIOUS
<1>2. Signed(a - b) \in Int
  BY <1>1, SignedInt
<1> QED BY <1>2 DEF Posdiff, Larger

(* Completed keeps the limit in its range and adjLimit in step with it. *)
LEMMA RecalculatedFacts ==
  ASSUME NEW ql \in Limits, NEW count \in Nat, NEW expired \in BOOLEAN
  PROVE  LET r == Recalculated(ql, count, expired)
         IN  /\ r \in Limits /\ r.numQueued = ql.numQueued
             /\ r.numCompleted = Unsigned(ql.numCompleted + count)
             /\ r.adjLimit = Unsigned(r.limit + r.numCompleted)
<1> DEFINE completed        == Unsigned(ql.numCompleted + count)
           ovlimit          == Posdiff(Unsigned(ql.numQueued - ql.numCompleted), ql.limit)
           inprogress       == Unsigned(ql.numQueued - completed)
           prevInprogress   == Unsigned(ql.prevNumQueued - ql.numCompleted)
           allPrevCompleted == Signed(completed - ql.prevNumQueued) >= 0
           starved  == (ovlimit > 0 /\ inprogress = 0) \/ (ql.prevOvlimit > 0 /\ allPrevCompleted)
           busy     == ~starved /\ inprogress > 0 /\ prevInprogress > 0 /\ ~allPrevCompleted
           slack    == Larger(Posdiff(ql.limit + ql.prevOvlimit, 2 * count),
                              IF ql.prevOvlimit > 0 THEN Posdiff(ql.prevLastObjCnt, ql.prevOvlimit) ELSE 0)
           lowest   == Smaller(slack, ql.lowestSlack)
           wanted   == CASE starved -> ql.limit + Posdiff(completed, ql.prevNumQueued) + ql.prevOvlimit
                         [] busy /\ expired -> Posdiff(ql.limit, lowest)
                         [] OTHER -> ql.limit
           limit    == Smaller(Larger(wanted, MinLimit), MaxLimit)
           lowestSlack == CASE starved \/ (busy /\ expired) -> Word - 1
                            [] busy /\ ~expired -> lowest
                            [] OTHER -> ql.lowestSlack
           adjLimit == Unsigned(limit + completed)
           prevOv   == IF limit = ql.limit THEN ovlimit ELSE 0
           r == [ql EXCEPT !.limit = limit, !.lowestSlack = lowestSlack, !.adjLimit = adjLimit,
                           !.prevOvlimit = prevOv, !.prevLastObjCnt = ql.lastObjCnt,
                           !.numCompleted = completed, !.prevNumQueued = ql.numQueued]
<1>1. Recalculated(ql, count, expired) = r
  BY DEF Recalculated
<1>2. /\ ql.limit \in 0 .. MaxLimit /\ ql.limit \in Int /\ ql.numQueued \in Int
      /\ ql.numCompleted \in Int /\ ql.lastObjCnt \in Int /\ ql.prevNumQueued \in Int
      /\ ql.prevLastObjCnt \in Int /\ ql.prevOvlimit \in Int /\ ql.lowestSlack \in Int
  BY DEF Limits
<1>3. completed \in Int
  <2>1. ql.numCompleted + count \in Int
    BY <1>2
  <2> QED BY <2>1, CongUnsigned
<1>4. ovlimit \in Int
  <2>1. ql.numQueued - ql.numCompleted \in Int
    BY <1>2
  <2>2. Unsigned(ql.numQueued - ql.numCompleted) \in Int
    BY <2>1, CongUnsigned
  <2> QED BY <1>2, <2>2, PosdiffInt
<1>5. slack \in Int
  <2>1. ql.limit + ql.prevOvlimit \in Int /\ 2 * count \in Int
    BY <1>2
  <2>2. Posdiff(ql.limit + ql.prevOvlimit, 2 * count) \in Int
    BY <2>1, PosdiffInt
  <2>3. Posdiff(ql.prevLastObjCnt, ql.prevOvlimit) \in Int
    BY <1>2, PosdiffInt
  <2> QED BY <2>2, <2>3 DEF Larger
<1> HIDE DEF completed, ovlimit, inprogress, prevInprogress, allPrevCompleted, slack
<1>6. lowest \in Int
  BY <1>2, <1>5 DEF Smaller
<1> HIDE DEF lowest, starved, busy
<1>7. wanted \in Int
  <2>1. Posdiff(completed, ql.prevNumQueued) \in Int /\ Posdiff(ql.limit, lowest) \in Int
    BY <1>2, <1>3, <1>6, PosdiffInt
  <2>2. ql.limit + Posdiff(completed, ql.prevNumQueued) + ql.prevOvlimit \in Int
    BY <1>2, <2>1
  <2> QED BY <1>2, <2>1, <2>2
<1> HIDE DEF wanted
<1>8. limit \in 0 .. MaxLimit /\ limit \in Int
  BY <1>7, SizeFacts DEF Smaller, Larger
<1> HIDE DEF limit
<1>9. lowestSlack \in Int /\ prevOv \in Int
  <2>1. Word - 1 \in Int
    BY WordType
  <2> QED BY <1>2, <1>4, <1>6, <2>1
<1>10. adjLimit \in Int
  <2>1. limit + completed \in Int
    BY <1>3, <1>8
  <2> QED BY <2>1, CongUnsigned
<1> HIDE DEF lowestSlack, prevOv, adjLimit
<1>11. r \in Limits
  BY <1>2, <1>3, <1>8, <1>9, <1>10 DEF Limits
<1>12. /\ r.numQueued = ql.numQueued /\ r.numCompleted = completed /\ r.limit = limit
       /\ r.adjLimit = adjLimit
  BY DEF Limits
<1> HIDE DEF r
<1> QED BY <1>1, <1>11, <1>12 DEF completed, adjLimit

(* What Available says: how far the queue is below the limit. *)
LEMMA AvailableIs ==
  ASSUME NEW ql \in Limits, NEW b \in Nat, b < Word \div 2, MaxLimit < Word \div 2,
         Unsigned(ql.numQueued - ql.numCompleted) = b,
         ql.adjLimit = Unsigned(ql.limit + ql.numCompleted)
  PROVE  Available(ql) = ql.limit - b
<1>1. PICK x, c, l, a \in Int : /\ x = ql.numQueued /\ c = ql.numCompleted /\ l = ql.limit
                                /\ a = ql.adjLimit
  BY DEF Limits
<1>2. 0 <= l /\ l <= MaxLimit
  BY <1>1, SizeFacts DEF Limits
<1>3. Cong(a, l + c) /\ Cong(x - c, b)
  <2>1. l + c \in Int /\ x - c \in Int
    OBVIOUS
  <2> QED BY <1>1, <2>1, CongUnsigned
<1>4. Cong((l + c) - x, l - b)
  <2>1. Cong(l, l)
    BY CongRefl
  <2>2. Cong(l - (x - c), l - b)
    BY <1>3, <2>1, CongSum
  <2>3. l - (x - c) = (l + c) - x
    OBVIOUS
  <2> QED BY <2>2, <2>3
<1>5. Cong(a - x, (l + c) - x)
  <2>1. Cong(x, x) /\ l + c \in Int
    BY CongRefl
  <2> QED BY <1>3, <2>1, CongSum
<1>6. Cong(a - x, l - b)
  BY <1>4, <1>5, CongTrans
<1>7. /\ a - x \in Int /\ l - b \in Int
      /\ -(Word \div 2) <= l - b /\ l - b < Word \div 2
  <2>1. Word \div 2 \in Int
    BY WordType
  <2> QED BY <1>2, <2>1, SizeFacts
<1>8. Signed(a - x) = l - b
  BY <1>6, <1>7, SignedIs
<1> QED BY <1>1, <1>8 DEF Available

(* Queued and Completed keep the difference of the counters equal to the     *)
(* bytes in the queue, whether or not they wrap.                             *)
LEMMA QueuedLinks ==
  ASSUME NEW ql \in Limits, NEW b \in Nat, NEW n \in Nat, b + n < Word,
         Unsigned(ql.numQueued - ql.numCompleted) = b
  PROVE  LET r == Queued(ql, n)
         IN  /\ r \in Limits /\ r.limit = ql.limit /\ r.adjLimit = ql.adjLimit
             /\ r.numCompleted = ql.numCompleted
             /\ Unsigned(r.numQueued - r.numCompleted) = b + n
<1>1. PICK x, c \in Int : x = ql.numQueued /\ c = ql.numCompleted
  BY DEF Limits
<1>2. x + n \in Int /\ x - c \in Int
  OBVIOUS
<1>3. PICK y \in Int : y = Unsigned(x + n)
  BY <1>2, CongUnsigned
<1>4. PICK r : r = [ql EXCEPT !.lastObjCnt = n, !.numQueued = y]
  OBVIOUS
<1>5. Queued(ql, n) = r
  BY <1>1, <1>3, <1>4 DEF Queued
<1>6. /\ r \in Limits /\ r.limit = ql.limit /\ r.adjLimit = ql.adjLimit
      /\ r.numCompleted = c /\ r.numQueued = y
  <2>1. n \in Int
    OBVIOUS
  <2>2. r \in Limits
    BY <1>4, <2>1 DEF Limits
  <2>3. r.limit = ql.limit /\ r.adjLimit = ql.adjLimit /\ r.numCompleted = ql.numCompleted
    BY <1>4 DEF Limits
  <2>4. r.numQueued = y
    BY <1>4 DEF Limits
  <2> QED BY <1>1, <2>2, <2>3, <2>4
<1>7. Cong(y, x + n)
  BY <1>2, <1>3, CongUnsigned
<1>8. Cong(y - c, (x + n) - c)
  <2>1. Cong(c, c)
    BY CongRefl
  <2> QED BY <1>2, <1>7, <2>1, CongSum
<1>9. Cong((x - c) + n, b + n)
  <2>1. Cong(x - c, b)
    BY <1>1, <1>2, CongUnsigned
  <2> QED BY <1>2, <2>1, CongSum, CongRefl
<1>10. (x + n) - c = (x - c) + n
  OBVIOUS
<1>11. Cong(y - c, b + n)
  <2>1. y - c \in Int /\ (x - c) + n \in Int /\ b + n \in Int /\ Cong(y - c, (x - c) + n)
    BY <1>8, <1>10
  <2> QED BY <1>9, <2>1, CongTrans
<1>12. Unsigned(y - c) = b + n
  <2>1. y - c \in Int /\ b + n \in Int /\ 0 <= b + n
    OBVIOUS
  <2> QED BY <1>11, <2>1, UnsignedIs
<1> QED BY <1>1, <1>5, <1>6, <1>12

LEMMA CompletedLinks ==
  ASSUME NEW ql \in Limits, NEW b \in Nat, NEW n \in Nat, b + n < Word,
         Unsigned(ql.numQueued - ql.numCompleted) = b + n, NEW r \in Completed(ql, n)
  PROVE  /\ r \in Limits /\ r.adjLimit = Unsigned(r.limit + r.numCompleted)
         /\ Unsigned(r.numQueued - r.numCompleted) = b
<1>1. PICK x, c \in Int : x = ql.numQueued /\ c = ql.numCompleted
  BY DEF Limits
<1>2. c + n \in Int /\ x - c \in Int
  OBVIOUS
<1>3. PICK y \in Int : y = Unsigned(c + n)
  BY <1>2, CongUnsigned
<1>4. PICK expired \in BOOLEAN : r = Recalculated(ql, n, expired)
  BY DEF Completed
<1>5. /\ r \in Limits /\ r.adjLimit = Unsigned(r.limit + r.numCompleted)
      /\ r.numQueued = x /\ r.numCompleted = y
  BY <1>1, <1>3, <1>4, RecalculatedFacts
<1>6. Cong(x - y, x - (c + n))
  <2>1. Cong(y, c + n)
    BY <1>2, <1>3, CongUnsigned
  <2> QED BY <1>2, <2>1, CongSum, CongRefl
<1>7. Cong((x - c) - n, (b + n) - n)
  <2>1. Cong(x - c, b + n) /\ b + n \in Int /\ Cong(n, n)
    BY <1>1, <1>2, CongUnsigned, CongRefl
  <2> QED BY <1>2, <2>1, CongSum
<1>8. x - (c + n) = (x - c) - n /\ (b + n) - n = b
  OBVIOUS
<1>9. Cong(x - y, b)
  <2>1. x - y \in Int /\ (x - c) - n \in Int /\ Cong(x - y, (x - c) - n) /\ Cong((x - c) - n, b)
    BY <1>6, <1>7, <1>8
  <2> QED BY <2>1, CongTrans
<1>10. Unsigned(x - y) = b
  <2>1. x - y \in Int /\ b \in Int /\ 0 <= b /\ b < Word
    BY WordType
  <2> QED BY <1>9, <2>1, UnsignedIs
<1> QED BY <1>5, <1>10

-----------------------------------------------------------------------------
(* The room in the device queue. *)
LEMMA FitsEmpty == ASSUME NEW n \in Nat, n <= DevBytes PROVE Fits(<<>>, n)
<1>1. Bytes(<<>>) = 0 /\ Len(<<>>) = 0
  BY BytesEmpty
<1> QED BY <1>1, SizeFacts DEF Fits

LEMMA FitsTail ==
  ASSUME NEW q \in Seq(Sizes), q # <<>>, Fits(q, Mtu)
  PROVE  Fits(Tail(q), Mtu)
<1>1. Len(Tail(q)) = Len(q) - 1 /\ Len(q) \in Nat /\ Head(q) \in Sizes /\ Tail(q) \in Seq(Sizes)
  OBVIOUS
<1>2. Bytes(q) = Bytes(Tail(q)) + Head(q)
  BY SizeFacts, BytesTail
<1>3. Bytes(q) \in Nat /\ Bytes(Tail(q)) \in Nat /\ Head(q) \in Nat
  BY <1>1, SizeFacts, BytesNat
<1> QED BY <1>1, <1>2, <1>3, SizeFacts DEF Fits

LEMMA FitsNot ==
  ASSUME NEW q \in Seq(Sizes), NEW n \in Sizes, Fits(q, Mtu), ~Fits(q, n),
         unit \in {"packets", "bytes"}
  PROVE  unit = "bytes" /\ n > Mtu /\ q # <<>>
<1>1. unit = "bytes"
  BY DEF Fits
<1>2. Bytes(q) \in Nat /\ n \in Nat
  BY SizeFacts, BytesNat
<1>3. Bytes(q) + Mtu <= DevBytes /\ ~(Bytes(q) + n <= DevBytes)
  BY <1>1 DEF Fits
<1>4. n > Mtu
  BY <1>2, <1>3, SizeFacts
<1>5. q # <<>>
  BY SizeFacts, FitsEmpty
<1> QED BY <1>1, <1>4, <1>5

(* The last packet of what is left is the last packet. *)
LEMMA TailLast ==
  ASSUME NEW q \in Seq(Sizes), q # <<>>
  PROVE  /\ Tail(q) \in Seq(Sizes) /\ Head(q) \in Sizes
         /\ Tail(q) # <<>> => Tail(q)[Len(Tail(q))] = q[Len(q)]
         /\ q[Len(q)] \in Sizes
<1>1. PICK t : t = Tail(q)
  OBVIOUS
<1>2. /\ t \in Seq(Sizes) /\ Len(q) \in Nat /\ Len(t) = Len(q) - 1 /\ Head(q) \in Sizes
      /\ Len(q) >= 1 /\ q[Len(q)] \in Sizes
  BY <1>1
<1>3. \A i \in 1 .. Len(t) : t[i] = q[i + 1]
  BY <1>1, <1>2
<1>4. ASSUME t # <<>> PROVE t[Len(t)] = q[Len(q)]
  <2>1. Len(t) \in 1 .. Len(t) /\ Len(t) + 1 = Len(q)
    BY <1>2, <1>4
  <2> QED BY <1>3, <2>1
<1> QED BY <1>1, <1>2, <1>4

-----------------------------------------------------------------------------
(* The bytes in the queue are far from wrapping. *)
LEMMA BytesSmall ==
  ASSUME NEW d \in Device, Within(d), limited, d.queue # <<>>
  PROVE  Bytes(d.queue) \in Nat /\ Bytes(d.queue) < Word \div 2 /\ Bytes(d.queue) < Word
<1>1. d.queue \in Seq(Sizes)
  BY DEF Device
<1>2. PICK n \in Sizes : n = d.queue[Len(d.queue)]
  BY <1>1, TailLast
<1>3. n \in Nat /\ MaxLimit + n < Word \div 2 /\ MaxLimit \in Nat
  BY SizeFacts
<1>4. Bytes(d.queue) \in Nat
  BY <1>1, BytesNat, SizeFacts
<1>5. Bytes(d.queue) - n <= MaxLimit
  BY <1>2 DEF Within
<1>6. Word \div 2 \in Int /\ Word \div 2 <= Word
  BY WordType
<1> QED BY <1>3, <1>4, <1>5, <1>6, WordType

(* The queue takes a packet: PacketEnqueued. *)
LEMMA EnqueueKeeps ==
  ASSUME NEW d \in Device, Core(d), ~IsStopped(d), NEW n \in Sizes, NEW e,
         e = PacketEnqueued([d EXCEPT !.queue = Append(@, n)], n)
  PROVE  /\ e \in Device /\ Core(e)
         /\ e.queue = Append(d.queue, n) /\ e.queue # <<>>
         /\ e.busy = d.busy /\ e.wakes = d.wakes /\ e.discarded = d.discarded
<1>d. /\ d.queue \in Seq(Sizes) /\ d.ql \in Limits /\ d.busy \in BOOLEAN /\ d.wakes \in Nat
      /\ d.discarded \in SUBSET Sizes
  BY DEF Device
<1>s. ~d.byDevice /\ ~d.byLimits
  BY DEF IsStopped
<1>q. PICK q : q = Append(d.queue, n)
  OBVIOUS
<1>t. q \in Seq(Sizes) /\ q # <<>> /\ q[Len(q)] = n
  BY <1>d, <1>q
<1>b. Bytes(q) = Bytes(d.queue) + n /\ Bytes(d.queue) \in Nat /\ n \in Nat
  <2>1. d.queue \in Seq(Nat) /\ n \in Nat
    BY <1>d, SizeFacts
  <2> QED BY <1>q, <2>1, BytesAppend, BytesNat
<1>1. PICK d1 : d1 = [d EXCEPT !.queue = q]
  OBVIOUS
<1>2. d1 \in Device /\ d1.queue = q /\ d1.ql = d.ql /\ d1.byLimits = d.byLimits
      /\ d1.byDevice = d.byDevice
      /\ d1.busy = d.busy /\ d1.wakes = d.wakes /\ d1.discarded = d.discarded
  BY <1>1, <1>t DEF Device
<1>3. e = PacketEnqueued(d1, n)
  BY <1>1, <1>q
<1>4. PICK f : f = NotifyQueuedBytes(d1, n)
  OBVIOUS
<1>5. e = [f EXCEPT !.byDevice = f.byDevice \/ WouldOverflow(f.queue)]
  BY <1>3, <1>4 DEF PacketEnqueued
<1>6. /\ f \in Device /\ f.queue = q /\ f.byDevice = d.byDevice
      /\ f.busy = d.busy /\ f.wakes = d.wakes /\ f.discarded = d.discarded
      /\ Linked(f) /\ Within(f) /\ Unlimited(f)
  <2>1. CASE ~limited
    <3>1. f = d1
      BY <1>4, <2>1 DEF NotifyQueuedBytes
    <3> QED BY <1>2, <1>s, <2>1, <3>1 DEF Linked, Within, Unlimited
  <2>2. CASE limited
    <3>1. PICK r : r = Queued(d.ql, n)
      OBVIOUS
    <3>2. f = [d1 EXCEPT !.ql = r, !.byLimits = d1.byLimits \/ Available(r) < 0]
      BY <1>2, <1>4, <2>2, <3>1 DEF NotifyQueuedBytes
    <3>3. /\ Unsigned(d.ql.numQueued - d.ql.numCompleted) = Bytes(d.queue)
          /\ d.ql.adjLimit = Unsigned(d.ql.limit + d.ql.numCompleted)
          /\ Bytes(d.queue) <= MaxLimit
      BY <1>s, <2>2 DEF Core, Linked, Within
    <3>4. /\ Bytes(d.queue) + n < Word \div 2 /\ Bytes(d.queue) + n < Word /\ MaxLimit < Word \div 2
      <4>1. MaxLimit + n < Word \div 2 /\ MaxLimit \in Nat /\ Word \div 2 \in Int /\ Word \div 2 <= Word
        BY SizeFacts, WordType
      <4> QED BY <1>b, <3>3, <4>1, WordType
    <3>5. /\ r \in Limits /\ r.limit = d.ql.limit /\ r.adjLimit = d.ql.adjLimit
          /\ r.numCompleted = d.ql.numCompleted
          /\ Unsigned(r.numQueued - r.numCompleted) = Bytes(d.queue) + n
      BY <1>b, <1>d, <3>1, <3>3, <3>4, QueuedLinks
    <3>6. Available(r) = r.limit - Bytes(q)
      <4>1. PICK b \in Nat : b = Bytes(q)
        BY <1>b
      <4>2. b < Word \div 2 /\ Unsigned(r.numQueued - r.numCompleted) = b
            /\ r.adjLimit = Unsigned(r.limit + r.numCompleted)
        BY <1>b, <3>3, <3>4, <3>5, <4>1
      <4> QED BY <3>4, <3>5, <4>1, <4>2, AvailableIs
    <3>7. PICK bl \in BOOLEAN : bl = (d1.byLimits \/ Available(r) < 0)
      OBVIOUS
    <3>8. /\ f \in Device /\ f.queue = q /\ f.byDevice = d.byDevice /\ f.ql = r /\ f.byLimits = bl
          /\ f.busy = d.busy /\ f.wakes = d.wakes /\ f.discarded = d.discarded
      BY <1>2, <3>2, <3>5, <3>7 DEF Device
    <3>9. Linked(f)
      BY <1>b, <3>3, <3>5, <3>8 DEF Linked
    <3>10. ~bl => Bytes(q) <= MaxLimit
      <4>1. r.limit \in 0 .. MaxLimit
        BY <3>5 DEF Limits
      <4>2. ~(r.limit - Bytes(q) < 0) => Bytes(q) <= MaxLimit
        BY <1>b, <4>1, SizeFacts
      <4> QED BY <3>6, <3>7, <4>2
    <3>11. Bytes(q) - n <= MaxLimit
      BY <1>b, <3>3, SizeFacts
    <3>12. Within(f)
      BY <1>t, <3>8, <3>10, <3>11 DEF Within
    <3> QED BY <2>2, <3>8, <3>9, <3>12 DEF Unlimited
  <2> QED BY <2>1, <2>2
<1>7. PICK bd \in BOOLEAN : bd = (f.byDevice \/ WouldOverflow(f.queue))
  OBVIOUS
<1>8. /\ e \in Device /\ e.queue = q /\ e.byDevice = bd /\ e.ql = f.ql /\ e.byLimits = f.byLimits
      /\ e.busy = d.busy /\ e.wakes = d.wakes /\ e.discarded = d.discarded
  BY <1>5, <1>6, <1>7 DEF Device
<1>9. Linked(e) /\ Within(e) /\ Unlimited(e)
  BY <1>6, <1>8 DEF Linked, Within, Unlimited
<1>10. Roomy(e)
  BY <1>6, <1>7, <1>8 DEF Roomy, WouldOverflow
<1> QED BY <1>8, <1>9, <1>10, <1>q, <1>t DEF Core

(* NotifyTransmittedBytes: the limits let the queue go on at the latest when *)
(* it is empty, and then schedule the wake callback.                         *)
LEMMA TransmittedKeeps ==
  ASSUME NEW d \in Device, Linked(d), Within(d), Unlimited(d), d.queue # <<>>,
         NEW d1, d1 = [d EXCEPT !.queue = Tail(@), !.busy = TRUE],
         NEW f \in NotifyTransmittedBytes(d1, Head(d.queue))
  PROVE  /\ f \in Device /\ f.queue = Tail(d.queue) /\ f.busy /\ f.byDevice = d.byDevice
         /\ f.discarded = d.discarded /\ f.wakes >= d.wakes
         /\ Linked(f) /\ Within(f) /\ Unlimited(f)
         /\ Tail(d.queue) = <<>> => ~f.byLimits
         /\ d.byLimits /\ ~f.byLimits /\ root => f.wakes > 0
<1>d. d.queue \in Seq(Sizes) /\ d.ql \in Limits /\ d.wakes \in Nat /\ d.byLimits \in BOOLEAN
  BY DEF Device
<1>1. PICK t, n : t = Tail(d.queue) /\ n = Head(d.queue)
  OBVIOUS
<1>2. t \in Seq(Sizes) /\ n \in Sizes
  BY <1>1, <1>d, TailLast
<1>3. Bytes(d.queue) = Bytes(t) + n /\ Bytes(t) \in Nat /\ n \in Nat
  <2>1. d.queue \in Seq(Nat) /\ t \in Seq(Nat) /\ n \in Nat
    BY <1>d, <1>2, SizeFacts
  <2> QED BY <1>1, <2>1, BytesTail, BytesNat
<1>4. d1 = [d EXCEPT !.queue = t, !.busy = TRUE]
  BY <1>1
<1>5. /\ d1 \in Device /\ d1.queue = t /\ d1.busy /\ d1.byDevice = d.byDevice
      /\ d1.byLimits = d.byLimits /\ d1.discarded = d.discarded /\ d1.wakes = d.wakes
      /\ d1.ql = d.ql
  BY <1>2, <1>4 DEF Device
<1>6. f \in NotifyTransmittedBytes(d1, n)
  BY <1>1
<1>7. CASE ~limited
  <2>1. f = d1
    BY <1>6, <1>7 DEF NotifyTransmittedBytes
  <2>2. ~d.byLimits
    BY <1>7 DEF Unlimited
  <2>3. f.wakes >= d.wakes
    BY <1>5, <1>d, <2>1
  <2> QED BY <1>1, <1>5, <1>7, <2>1, <2>2, <2>3 DEF Linked, Within, Unlimited
<1>8. CASE limited
  <2>1. PICK r \in Completed(d.ql, n) :
          f = IF Available(r) < 0 THEN [d1 EXCEPT !.ql = r]
              ELSE ScheduleWake([d1 EXCEPT !.ql = r, !.byLimits = FALSE], d1.byLimits)
    BY <1>5, <1>6, <1>8 DEF NotifyTransmittedBytes
  <2>2. Unsigned(d.ql.numQueued - d.ql.numCompleted) = Bytes(t) + n
    BY <1>3, <1>8 DEF Linked
  <2>3. Bytes(t) + n < Word /\ Bytes(t) < Word \div 2 /\ MaxLimit < Word \div 2
    <3>1. Bytes(d.queue) < Word \div 2 /\ Bytes(d.queue) < Word
      BY <1>8, BytesSmall
    <3>2. MaxLimit + n < Word \div 2 /\ MaxLimit \in Nat /\ Word \div 2 \in Int
      BY <1>2, SizeFacts, WordType
    <3> QED BY <1>3, <3>1, <3>2
  <2>4. /\ r \in Limits /\ r.adjLimit = Unsigned(r.limit + r.numCompleted)
        /\ Unsigned(r.numQueued - r.numCompleted) = Bytes(t)
    BY <1>3, <1>d, <2>2, <2>3, CompletedLinks
  <2>5. Available(r) = r.limit - Bytes(t) /\ r.limit \in 0 .. MaxLimit
    <3>1. r.limit \in 0 .. MaxLimit
      BY <2>4 DEF Limits
    <3> QED BY <1>3, <2>3, <2>4, <3>1, AvailableIs
  <2>6. t # <<>> => Bytes(t) - t[Len(t)] <= MaxLimit
    <3> SUFFICES ASSUME t # <<>> PROVE Bytes(t) - t[Len(t)] <= MaxLimit
      OBVIOUS
    <3>1. PICK z : z = d.queue[Len(d.queue)]
      OBVIOUS
    <3>2. t[Len(t)] = z /\ z \in Nat
      BY <1>1, <1>d, <3>1, TailLast, SizeFacts
    <3>3. Bytes(d.queue) - z <= MaxLimit
      BY <1>8, <3>1 DEF Within
    <3> QED BY <1>3, <3>2, <3>3, SizeFacts
  <2>7. ~d.byLimits => Bytes(t) <= MaxLimit
    <3>1. ~d.byLimits => Bytes(d.queue) <= MaxLimit
      BY <1>8 DEF Within
    <3>2. Bytes(d.queue) <= MaxLimit => Bytes(t) <= MaxLimit
      BY <1>3, SizeFacts
    <3> QED BY <3>1, <3>2
  <2>8. CASE Available(r) < 0
    <3>1. f = [d1 EXCEPT !.ql = r]
      BY <2>1, <2>8
    <3>2. /\ f \in Device /\ f.queue = t /\ f.busy /\ f.byDevice = d.byDevice
          /\ f.byLimits = d.byLimits /\ f.discarded = d.discarded /\ f.wakes = d.wakes /\ f.ql = r
      BY <1>5, <2>4, <3>1 DEF Device
    <3>3. Linked(f)
      BY <2>4, <3>2 DEF Linked
    <3>4. Within(f)
      BY <2>6, <2>7, <3>2 DEF Within
    <3>5. t # <<>>
      <4>1. Bytes(t) # 0
        BY <1>3, <2>5, <2>8, SizeFacts
      <4> QED BY <4>1, BytesEmpty
    <3>6. f.wakes >= d.wakes
      BY <1>d, <3>2
    <3> QED BY <1>1, <1>8, <3>2, <3>3, <3>4, <3>5, <3>6 DEF Unlimited
  <2>9. CASE ~(Available(r) < 0)
    <3>0. PICK w \in Nat : /\ w = d.wakes + IF d.byLimits /\ root THEN 1 ELSE 0
                           /\ w >= d.wakes /\ (d.byLimits /\ root => w > 0)
      <4> DEFINE x == IF d.byLimits /\ root THEN 1 ELSE 0
      <4>1. x \in {0, 1} /\ (d.byLimits /\ root => x = 1)
        OBVIOUS
      <4> HIDE DEF x
      <4>2. d.wakes + x \in Nat /\ d.wakes + x >= d.wakes /\ (x = 1 => d.wakes + x > 0)
        BY <1>d, <4>1
      <4> QED BY <4>1, <4>2 DEF x
    <3>1. PICK d2 : d2 = [d1 EXCEPT !.ql = r, !.byLimits = FALSE]
      OBVIOUS
    <3>2. f = [d2 EXCEPT !.wakes = w]
      <4>1. d2.wakes = d.wakes
        BY <1>5, <3>1 DEF Device
      <4> QED BY <1>5, <2>1, <2>9, <3>0, <3>1, <4>1 DEF ScheduleWake
    <3>3. /\ f \in Device /\ f.queue = t /\ f.busy /\ f.byDevice = d.byDevice
          /\ ~f.byLimits /\ f.discarded = d.discarded /\ f.wakes = w /\ f.ql = r
      BY <1>5, <2>4, <3>1, <3>2 DEF Device
    <3>4. Linked(f)
      BY <2>4, <3>3 DEF Linked
    <3>5. Bytes(t) <= MaxLimit
      BY <1>3, <2>5, <2>9, SizeFacts
    <3>6. Within(f)
      BY <2>6, <3>3, <3>5 DEF Within
    <3> QED BY <1>1, <1>8, <3>0, <3>3, <3>4, <3>6 DEF Unlimited
  <2> QED BY <2>8, <2>9
<1> QED BY <1>7, <1>8

(* Dequeue and TransmitStart. A queue that was stopped and no longer is has  *)
(* a wake callback scheduled.                                                *)
LEMMA TransmitKeeps ==
  ASSUME NEW d \in Device, Core(d), d.queue # <<>>, NEW e \in TransmitNext(d)
  PROVE  /\ e \in Device /\ Core(e) /\ Serving(e) /\ Stops(e)
         /\ e.discarded = d.discarded /\ e.wakes >= d.wakes
         /\ IsStopped(d) /\ ~IsStopped(e) /\ root => e.wakes > 0
<1>1. PICK d1 : d1 = [d EXCEPT !.queue = Tail(@), !.busy = TRUE]
  OBVIOUS
<1>2. PICK f \in NotifyTransmittedBytes(d1, Head(d.queue)) :
        e = IF WouldOverflow(f.queue) THEN f ELSE Wake(f)
  BY <1>1 DEF TransmitNext, PacketDequeued
<1>3. /\ f \in Device /\ f.queue = Tail(d.queue) /\ f.busy /\ f.byDevice = d.byDevice
      /\ f.discarded = d.discarded /\ f.wakes >= d.wakes
      /\ Linked(f) /\ Within(f) /\ Unlimited(f)
      /\ Tail(d.queue) = <<>> => ~f.byLimits
      /\ d.byLimits /\ ~f.byLimits /\ root => f.wakes > 0
  BY <1>1, TransmittedKeeps DEF Core
<1>4. d.queue \in Seq(Sizes) /\ d.wakes \in Nat /\ f.wakes \in Nat /\ f.byDevice \in BOOLEAN
  BY <1>3 DEF Device
<1>5. CASE WouldOverflow(f.queue)
  <2>1. e = f
    BY <1>2, <1>5
  <2>2. f.queue # <<>>
    <3>1. Fits(<<>>, Mtu)
      BY FitsEmpty, SizeFacts
    <3> QED BY <1>5, <3>1 DEF WouldOverflow
  <2>3. f.byDevice
    <3>1. ~d.byDevice => Fits(d.queue, Mtu)
      BY DEF Core, Roomy
    <3>2. Fits(d.queue, Mtu) => Fits(Tail(d.queue), Mtu)
      BY <1>4, FitsTail
    <3> QED BY <1>3, <1>5, <3>1, <3>2 DEF WouldOverflow
  <2>4. Core(f)
    BY <1>3, <2>3 DEF Core, Roomy
  <2>5. Serving(f) /\ Stops(f) /\ IsStopped(f)
    BY <1>3, <2>2, <2>3 DEF Serving, Stops, IsStopped
  <2> QED BY <1>3, <2>1, <2>4, <2>5
<1>6. CASE ~WouldOverflow(f.queue)
  <2>0. PICK w \in Nat : /\ w = f.wakes + IF f.byDevice /\ root THEN 1 ELSE 0
                         /\ w >= f.wakes /\ (f.byDevice /\ root => w > 0)
    <3> DEFINE x == IF f.byDevice /\ root THEN 1 ELSE 0
    <3>1. x \in {0, 1} /\ (f.byDevice /\ root => x = 1)
      OBVIOUS
    <3> HIDE DEF x
    <3>2. f.wakes + x \in Nat /\ f.wakes + x >= f.wakes /\ (x = 1 => f.wakes + x > 0)
      BY <1>4, <3>1
    <3> QED BY <3>1, <3>2 DEF x
  <2>1. PICK g : g = [f EXCEPT !.byDevice = FALSE]
    OBVIOUS
  <2>2. e = [g EXCEPT !.wakes = w]
    <3>1. g.wakes = f.wakes
      BY <1>3, <2>1 DEF Device
    <3> QED BY <1>2, <1>6, <2>0, <2>1, <3>1 DEF Wake, ScheduleWake
  <2>3. /\ e \in Device /\ e.queue = f.queue /\ e.busy /\ ~e.byDevice /\ e.byLimits = f.byLimits
        /\ e.discarded = f.discarded /\ e.wakes = w /\ e.ql = f.ql
    BY <1>3, <2>1, <2>2 DEF Device
  <2>4. Core(e)
    BY <1>3, <1>6, <2>3 DEF Core, Linked, Within, Unlimited, Roomy, WouldOverflow
  <2>5. Serving(e) /\ Stops(e)
    BY <1>3, <2>3 DEF Serving, Stops, IsStopped
  <2>6. e.wakes >= d.wakes /\ (f.wakes > 0 => e.wakes > 0)
    BY <1>3, <1>4, <2>0, <2>3
  <2>7. IsStopped(d) /\ ~IsStopped(e) /\ root => e.wakes > 0
    BY <1>3, <2>0, <2>3, <2>6 DEF IsStopped
  <2> QED BY <1>3, <2>3, <2>4, <2>5, <2>6, <2>7
<1> QED BY <1>5, <1>6

(* PointToPointNetDevice::Send, called only while the queue is not stopped. *)
LEMMA SendKeeps ==
  ASSUME unit \in {"packets", "bytes"}, NEW d \in Device, Core(d), Serving(d), ~IsStopped(d),
         NEW n \in Sizes, NEW e \in DeviceSend(d, n)
  PROVE  /\ e \in Device /\ Core(e) /\ Serving(e) /\ Stops(e)
         /\ \A m \in e.discarded : m \in d.discarded \/ (unit = "bytes" /\ m > Mtu)
<1>d. d.queue \in Seq(Sizes)
  BY DEF Device
<1>1. CASE ~Fits(d.queue, n)
  <2>1. e = [d EXCEPT !.byDevice = TRUE, !.discarded = d.discarded \cup {n}]
    BY <1>1 DEF DeviceSend, PacketDiscarded
  <2>2. /\ e \in Device /\ e.queue = d.queue /\ e.busy = d.busy /\ e.byDevice
        /\ e.byLimits = d.byLimits /\ e.ql = d.ql /\ e.discarded = d.discarded \cup {n}
    BY <2>1 DEF Device
  <2>3. unit = "bytes" /\ n > Mtu /\ d.queue # <<>>
    <3>1. Fits(d.queue, Mtu)
      BY DEF Core, Roomy, IsStopped
    <3> QED BY <1>1, <1>d, <3>1, FitsNot
  <2>4. Core(e)
    BY <2>2 DEF Core, Linked, Within, Roomy, Unlimited
  <2>5. Serving(e) /\ Stops(e)
    BY <2>2, <2>3 DEF Serving, Stops
  <2> QED BY <2>2, <2>3, <2>4, <2>5
<1>2. CASE Fits(d.queue, n)
  <2>1. PICK g : g = PacketEnqueued([d EXCEPT !.queue = Append(@, n)], n)
    OBVIOUS
  <2>2. e \in IF g.busy THEN {g} ELSE TransmitNext(g)
    BY <1>2, <2>1 DEF DeviceSend
  <2>3. g \in Device /\ Core(g) /\ g.queue # <<>> /\ g.discarded = d.discarded
    BY <2>1, EnqueueKeeps
  <2>4. CASE g.busy
    BY <2>2, <2>3, <2>4 DEF Serving, Stops
  <2>5. CASE ~g.busy
    <3>1. e \in TransmitNext(g)
      BY <2>2, <2>5
    <3> QED BY <2>3, <3>1, TransmitKeeps
  <2> QED BY <2>4, <2>5
<1> QED BY <1>1, <1>2

-----------------------------------------------------------------------------
DevInv == dev \in Device /\ Core(dev) /\ Serving(dev) /\ Stops(dev)

LEMMA InitTInv == Init => TInv
<1> SUFFICES ASSUME Init PROVE TInv
  OBVIOUS
<1>1. dev.ql \in Limits /\ dev.ql.numQueued = 0 /\ dev.ql.numCompleted = 0
      /\ dev.ql.adjLimit = 0 /\ dev.ql.limit = 0
  <2>1. PICK ql : ql = [limit |-> 0, numQueued |-> 0, numCompleted |-> 0, adjLimit |-> 0,
                        lastObjCnt |-> 0, prevNumQueued |-> 0, prevLastObjCnt |-> 0,
                        prevOvlimit |-> 0, lowestSlack |-> Word - 1]
    OBVIOUS
  <2>2. Word - 1 \in Int /\ 0 \in 0 .. MaxLimit
    BY WordType, SizeFacts
  <2>3. ql \in Limits
    BY <2>1, <2>2 DEF Limits
  <2>4. dev.ql = ql
    BY <2>1 DEF Init
  <2> QED BY <2>1, <2>3, <2>4
<1>2. /\ dev.queue = <<>> /\ dev.busy = FALSE /\ dev.byDevice = FALSE /\ dev.byLimits = FALSE
      /\ dev.wakes = 0 /\ dev.discarded = {}
  BY DEF Init
<1>3. dev \in Device
  <2>1. dev = [queue |-> <<>>, busy |-> FALSE, byDevice |-> FALSE, byLimits |-> FALSE,
               wakes |-> 0, discarded |-> {}, ql |-> dev.ql]
    BY DEF Init
  <2>2. PICK q, l, w, D : q = <<>> /\ l = dev.ql /\ w = 0 /\ D = {}
    OBVIOUS
  <2>3. q \in Seq(Sizes) /\ l \in Limits /\ w \in Nat /\ D \in SUBSET Sizes
    BY <1>1, <2>2
  <2>4. dev = [queue |-> q, busy |-> FALSE, byDevice |-> FALSE, byLimits |-> FALSE,
               wakes |-> w, discarded |-> D, ql |-> l]
    BY <2>1, <2>2
  <2> QED BY <2>3, <2>4 DEF Device
<1>4. Types
  BY <1>3 DEF Init, Types
<1>5. Bytes(dev.queue) = 0
  BY <1>2, BytesEmpty
<1>6. Unsigned(0) = 0
  BY CongRefl, UnsignedIs, WordType
<1>7. Linked(dev)
  <2>1. dev.ql.numQueued - dev.ql.numCompleted = 0 /\ dev.ql.limit + dev.ql.numCompleted = 0
    BY <1>1
  <2> QED BY <1>1, <1>5, <1>6, <2>1 DEF Linked
<1>8. Within(dev)
  BY <1>2, <1>5, SizeFacts DEF Within
<1>9. Roomy(dev)
  BY <1>2, FitsEmpty, SizeFacts DEF Roomy
<1>10. Unlimited(dev) /\ Serving(dev) /\ Stops(dev)
  BY <1>2 DEF Unlimited, Serving, Stops, IsStopped
<1>11. RunInv /\ NothingForgotten
  BY DEF Init, RunInv, NothingForgotten
<1>12. RoomForPacket
  BY <1>2 DEF RoomForPacket
<1> QED BY <1>4, <1>7, <1>8, <1>9, <1>10, <1>11, <1>12 DEF TInv, Core

(* The invariant of the device, for a step that gives dev the value e. *)
LEMMA DeviceStep ==
  ASSUME NEW e, dev' = e, UNCHANGED config, e \in Device, Core(e), Serving(e), Stops(e)
  PROVE  DevInv'
<1>1. UNCHANGED <<unit, root, limited>>
  BY DEF config
<1>2. Core(dev)'
  BY <1>1 DEF Core, Linked, Within, Roomy, Unlimited, Fits
<1> QED BY <1>2 DEF DevInv, Serving, Stops, IsStopped

LEMMA NextTInv == TInv /\ [Next]_vars => TInv'
<1> SUFFICES ASSUME TInv, [Next]_vars PROVE TInv'
  OBVIOUS
<1>t. /\ unit \in {"packets", "bytes"} /\ root \in BOOLEAN /\ limited \in BOOLEAN
      /\ disc \in Nat /\ quota \in Nat /\ m_running \in BOOLEAN /\ spent \in BOOLEAN
      /\ dev \in Device /\ dev.wakes \in Nat
  BY DEF TInv, Types, Device
<1>d. Core(dev) /\ Serving(dev) /\ Stops(dev) /\ RoomForPacket
  BY DEF TInv
<1>r. (m_running => quota > 0) /\ (disc > 0 => root) /\ NothingForgotten
  BY DEF TInv, RunInv
<1>q. m_quota \in Nat /\ m_quota > 0
  BY SizeFacts
<1>i. ASSUME UNCHANGED config, DevInv', RoomForPacket', NothingForgotten',
             disc' \in Nat, quota' \in Nat, m_running' \in BOOLEAN, spent' \in BOOLEAN,
             m_running' => quota' > 0, disc' > 0 => root
      PROVE  TInv'
  BY <1>i, <1>t DEF TInv, DevInv, Types, RunInv, config
(* steps that leave the device alone, but for a wake callback *)
<1>w. ASSUME UNCHANGED config, dev' = [dev EXCEPT !.wakes = dev'.wakes], dev'.wakes \in Nat
      PROVE  DevInv' /\ RoomForPacket'
  <2>1. PICK e : e = dev'
    OBVIOUS
  <2>2. /\ e \in Device /\ e.queue = dev.queue /\ e.busy = dev.busy /\ e.byDevice = dev.byDevice
        /\ e.byLimits = dev.byLimits /\ e.ql = dev.ql /\ e.discarded = dev.discarded
    BY <1>t, <1>w, <2>1 DEF Device
  <2>3. Core(e) /\ Serving(e) /\ Stops(e)
    BY <1>d, <2>2 DEF Core, Linked, Within, Roomy, Unlimited, Serving, Stops, IsStopped
  <2>4. DevInv'
    BY <1>w, <2>1, <2>2, <2>3, DeviceStep
  <2>5. RoomForPacket'
    BY <1>d, <1>w, <2>1, <2>2 DEF RoomForPacket, config
  <2> QED BY <2>4, <2>5
<1>u. ASSUME dev' = dev PROVE dev' = [dev EXCEPT !.wakes = dev'.wakes] /\ dev'.wakes \in Nat
  BY <1>t, <1>u DEF Device
<1>1. CASE Send
  <2>1. /\ root /\ dev' = dev /\ UNCHANGED config /\ spent' = spent /\ m_running' = TRUE
        /\ quota' = m_quota /\ (disc' = disc + 1 \/ disc' = disc)
    BY <1>1 DEF Send, BeginRun
  <2>2. DevInv' /\ RoomForPacket'
    BY <1>u, <1>w, <2>1
  <2>3. disc' \in Nat
    BY <1>t, <2>1
  <2>4. NothingForgotten'
    BY <2>1 DEF NothingForgotten
  <2> QED BY <1>i, <1>q, <1>t, <2>1, <2>2, <2>3, <2>4
<1>2. CASE WakeCallback
  <2>1. /\ dev.wakes > 0 /\ dev' = [dev EXCEPT !.wakes = dev.wakes - 1] /\ UNCHANGED config
        /\ spent' = spent /\ m_running' = TRUE /\ quota' = m_quota /\ disc' = disc
    BY <1>2 DEF WakeCallback, BeginRun
  <2>2. PICK w \in Nat : w = dev.wakes - 1
    BY <1>t, <2>1
  <2>3. dev'.wakes = w /\ dev' = [dev EXCEPT !.wakes = w]
    BY <1>t, <2>1, <2>2 DEF Device
  <2>4. DevInv' /\ RoomForPacket'
    BY <1>w, <2>1, <2>3
  <2>5. NothingForgotten'
    BY <2>1 DEF NothingForgotten
  <2> QED BY <1>i, <1>q, <1>r, <1>t, <2>1, <2>4, <2>5
<1>3. CASE RunEnd
  <2>1. /\ (disc = 0 \/ IsStopped(dev)) /\ dev' = dev /\ UNCHANGED config /\ disc' = disc
        /\ m_running' = FALSE /\ quota' = 0 /\ spent' = FALSE
    BY <1>3 DEF RunEnd
  <2>2. DevInv' /\ RoomForPacket'
    BY <1>u, <1>w, <2>1
  <2>3. NothingForgotten'
    <3>1. IsStopped(dev)' <=> IsStopped(dev)
      BY <2>1 DEF IsStopped
    <3>2. disc = 0 => ~(disc > 0)
      OBVIOUS
    <3> QED BY <2>1, <3>1, <3>2 DEF NothingForgotten
  <2> QED BY <1>i, <1>r, <1>t, <2>1, <2>2, <2>3
(* the device is given a packet *)
<1>4. ASSUME NEW n \in Sizes, dev' \in DeviceSend(dev, n), ~IsStopped(dev), UNCHANGED config
      PROVE  DevInv' /\ RoomForPacket'
  <2>1. PICK e : e = dev'
    OBVIOUS
  <2>2. /\ e \in Device /\ Core(e) /\ Serving(e) /\ Stops(e)
        /\ \A m \in e.discarded : m \in dev.discarded \/ (unit = "bytes" /\ m > Mtu)
    BY <1>4, <1>d, <1>t, <2>1, SendKeeps
  <2>3. DevInv'
    BY <1>4, <2>1, <2>2, DeviceStep
  <2>4. RoomForPacket'
    BY <1>4, <1>d, <2>1, <2>2 DEF RoomForPacket, config
  <2> QED BY <2>3, <2>4
<1>5. ASSUME NEW n \in Sizes, SendWithoutDisc(n) PROVE TInv'
  <2>1. /\ ~root /\ ~IsStopped(dev) /\ dev' \in DeviceSend(dev, n) /\ UNCHANGED config
        /\ UNCHANGED <<disc, m_running, quota, spent>>
    BY <1>5 DEF SendWithoutDisc
  <2>2. DevInv' /\ RoomForPacket'
    BY <1>4, <2>1
  <2>3. NothingForgotten'
    BY <1>r, <2>1 DEF NothingForgotten
  <2> QED BY <1>i, <1>r, <1>t, <2>1, <2>2, <2>3
<1>6. ASSUME NEW n \in Sizes, Restart(n) PROVE TInv'
  <2>1. /\ m_running /\ disc > 0 /\ ~IsStopped(dev) /\ disc' = disc - 1
        /\ dev' \in DeviceSend(dev, n) /\ UNCHANGED config
    BY <1>6 DEF Restart
  <2>2. DevInv' /\ RoomForPacket'
    BY <1>4, <2>1
  <2>3. disc' \in Nat /\ quota > 0 /\ root
    BY <1>r, <1>t, <2>1
  <2>4. CASE disc' = 0 \/ IsStopped(dev')
    <3>1. quota' = 0 /\ m_running' = FALSE /\ spent' = FALSE
      BY <1>6, <2>4 DEF Restart
    <3>2. disc' = 0 => ~(disc' > 0)
      OBVIOUS
    <3>3. NothingForgotten'
      BY <2>4, <3>1, <3>2 DEF NothingForgotten, IsStopped
    <3> QED BY <1>i, <2>1, <2>2, <2>3, <3>1, <3>3
  <2>5. CASE ~(disc' = 0 \/ IsStopped(dev'))
    <3>1. quota' = quota - 1 /\ m_running' = (quota' > 0) /\ spent' = (quota' = 0)
      BY <1>6, <2>5 DEF Restart
    <3>2. quota' \in Nat /\ (quota' > 0 \/ quota' = 0)
      BY <1>t, <2>3, <3>1
    <3>3. NothingForgotten'
      BY <3>1, <3>2 DEF NothingForgotten
    <3>4. m_running' \in BOOLEAN /\ spent' \in BOOLEAN /\ (m_running' => quota' > 0)
      <4>1. (quota' > 0) \in BOOLEAN /\ (quota' = 0) \in BOOLEAN
        OBVIOUS
      <4>2. m_running' \in BOOLEAN /\ spent' \in BOOLEAN
        BY <3>1, <4>1
      <4>3. m_running' => quota' > 0
        BY <3>1
      <4> QED BY <4>2, <4>3
    <3> QED BY <1>i, <2>1, <2>2, <2>3, <3>2, <3>3, <3>4
  <2> QED BY <2>4, <2>5
<1>7. CASE TransmitComplete
  <2>1. /\ ~m_running /\ dev.wakes = 0 /\ UNCHANGED config
        /\ UNCHANGED <<disc, m_running, quota, spent>>
        /\ dev' \in IF dev.queue = <<>> THEN {[dev EXCEPT !.busy = FALSE]} ELSE TransmitNext(dev)
    BY <1>7 DEF TransmitComplete
  <2>2. PICK e : e = dev'
    OBVIOUS
  <2>3. /\ e \in Device /\ Core(e) /\ Serving(e) /\ Stops(e) /\ e.discarded = dev.discarded
        /\ IsStopped(dev) /\ ~IsStopped(e) /\ root => e.wakes > 0
    <3>1. CASE dev.queue = <<>>
      <4>1. e = [dev EXCEPT !.busy = FALSE]
        BY <2>1, <2>2, <3>1
      <4>2. /\ e \in Device /\ e.queue = dev.queue /\ e.byDevice = dev.byDevice
            /\ e.byLimits = dev.byLimits /\ e.ql = dev.ql /\ e.discarded = dev.discarded
        BY <1>t, <4>1 DEF Device
      <4>3. ~IsStopped(dev)
        BY <1>d, <3>1 DEF Stops
      <4>4. Core(e)
        BY <1>d, <4>2 DEF Core, Linked, Within, Roomy, Unlimited
      <4>5. Serving(e) /\ Stops(e)
        BY <3>1, <4>2, <4>3 DEF Serving, Stops, IsStopped
      <4> QED BY <4>2, <4>3, <4>4, <4>5
    <3>2. CASE dev.queue # <<>>
      <4>1. e \in TransmitNext(dev)
        BY <2>1, <2>2, <3>2
      <4> QED BY <1>d, <1>t, <3>2, <4>1, TransmitKeeps
    <3> QED BY <3>1, <3>2
  <2>4. DevInv'
    BY <2>1, <2>2, <2>3, DeviceStep
  <2>5. RoomForPacket'
    BY <1>d, <2>1, <2>2, <2>3 DEF RoomForPacket, config
  <2>6. NothingForgotten'
    <3> SUFFICES ASSUME disc' > 0, ~IsStopped(dev)' PROVE dev'.wakes > 0 \/ spent'
      BY DEF NothingForgotten
    <3>1. disc > 0 /\ root /\ ~IsStopped(e)
      BY <1>r, <2>1, <2>2 DEF IsStopped
    <3>2. CASE IsStopped(dev)
      BY <2>2, <2>3, <3>1, <3>2
    <3>3. CASE ~IsStopped(dev)
      <4>1. ~(dev.wakes > 0)
        BY <2>1
      <4> QED BY <1>r, <2>1, <3>1, <3>3, <4>1 DEF NothingForgotten
    <3> QED BY <3>2, <3>3
  <2> QED BY <1>i, <1>r, <1>t, <2>1, <2>4, <2>5, <2>6
<1>8. CASE UNCHANGED vars
  <2>1. UNCHANGED config /\ UNCHANGED <<disc, m_running, quota, spent, dev>>
    BY <1>8 DEF vars, config
  <2>2. DevInv' /\ RoomForPacket'
    BY <1>u, <1>w, <2>1
  <2>3. NothingForgotten'
    BY <1>r, <2>1 DEF NothingForgotten, IsStopped
  <2> QED BY <1>i, <1>r, <1>t, <2>1, <2>2, <2>3
<1> QED
  BY <1>1, <1>2, <1>3, <1>5, <1>6, <1>7, <1>8 DEF Next, Arrival, Loop

-----------------------------------------------------------------------------
(* The inductive invariant holds in every order of arrivals, transmissions  *)
(* and wake callbacks, whatever the limits make of the time.                *)
THEOREM Inductive == Spec => []TInv
<1> QED BY InitTInv, NextTInv, PTL DEF Spec

(* A queue stopped by the device or by the limits has a packet behind one    *)
(* that is being sent, whose end wakes it.                                   *)
THEOREM WakesFollow == Spec => []StoppedWillWake
<1>1. TInv => StoppedWillWake
  BY DEF TInv, Stops, StoppedWillWake
<1> QED BY <1>1, Inductive, PTL

(* Between events a queue disc with packets is held by a stopped device, has *)
(* a wake callback scheduled, or ended its last Run with the quota.          *)
THEOREM DiscNotForgotten == Spec => []NothingForgotten
<1>1. TInv => NothingForgotten
  BY DEF TInv
<1> QED BY <1>1, Inductive, PTL

(* The device queue drops only packets larger than the Mtu, and only when    *)
(* its size is in bytes.                                                     *)
THEOREM RoomWhenAsked == Spec => []RoomForPacket
<1>1. TInv => RoomForPacket
  BY DEF TInv
<1> QED BY <1>1, Inductive, PTL

(* The wrapping counters of the limits give the bytes in the queue.          *)
THEOREM CountersAgree == Spec => []BytesAccounted
<1>1. TInv => BytesAccounted
  BY DEF TInv, Core, Linked, BytesAccounted
<1> QED BY <1>1, Inductive, PTL

(* The limits keep the device queue within the largest limit and a packet.   *)
THEOREM LimitsBound == Spec => []BacklogBounded
<1>1. TInv => BacklogBounded
  BY DEF TInv, Core, Within, BacklogBounded
<1> QED BY <1>1, Inductive, PTL
=============================================================================
