--------------------------- MODULE EventQueueProofs ---------------------------
(***************************************************************************)
(* The event queue implements EventList, for any set of events, whichever  *)
(* of its three schedulers is in use and however often it is replaced.     *)
(***************************************************************************)
EXTENDS EventQueue, SequenceTheorems, FiniteSetTheorems, WellFoundedInduction, TLAPS

-----------------------------------------------------------------------------
(* Induction and loops.                                                    *)

LEMMA NatSet ==
  ASSUME NEW S, 0 \in S, \A n \in Nat : n \in S => n + 1 \in S
  PROVE  Nat \subseteq S
<1> SUFFICES ASSUME Nat \ S # {} PROVE FALSE OBVIOUS
<1> DEFINE R == OpToRel(<, Nat)
<1>1. PICK x \in Nat \ S : \A y \in Nat \ S : ~(<<y, x>> \in R)
  <2>1. IsWellFoundedOn(R, Nat) BY NatLessThanWellFounded
  <2>2. Nat \ S \subseteq Nat OBVIOUS
  <2> HIDE DEF R
  <2> QED BY <2>1, <2>2, WFMin
<1>2. x # 0 /\ x - 1 \in Nat OBVIOUS
<1>3. <<x - 1, x>> \in R BY <1>2 DEF OpToRel
<1>4. x - 1 \in S BY <1>1, <1>2, <1>3
<1> QED BY <1>2, <1>4

LEMMA Least ==
  ASSUME NEW S, S \subseteq Nat, S # {}
  PROVE  \E n \in S : \A m \in S : n <= m
<1> DEFINE R == OpToRel(<, Nat)
<1>1. PICK n \in S : \A m \in S : ~(<<m, n>> \in R)
  <2>1. IsWellFoundedOn(R, Nat) BY NatLessThanWellFounded
  <2> HIDE DEF R
  <2> QED BY <2>1, WFMin
<1>2. ASSUME NEW m \in S PROVE n <= m
  <2>1. m \in Nat /\ n \in Nat OBVIOUS
  <2>2. m < n => <<m, n>> \in R BY <2>1 DEF OpToRel
  <2> HIDE DEF R
  <2>3. ~(m < n) BY <1>1, <2>2
  <2> QED BY <2>1, <2>3
<1> QED BY <1>2

(* f holds the states of a loop of N rounds: a to begin with, and after the *)
(* n-th round what G[n] makes of the state before.                          *)
Loop(f, N, a, G) ==
  /\ f = [n \in 0 .. N |-> f[n]]
  /\ f[0] = a
  /\ \A n \in 1 .. N : f[n] = G[n][f[n - 1]]

(* A loop whose n-th round leads from a state of T[n - 1] to one of T[n]. *)
LEMMA LoopExists ==
  ASSUME NEW N \in Nat, NEW T, NEW a \in T[0], NEW G,
         \A n \in 1 .. N : \A x \in T[n - 1] : G[n][x] \in T[n]
  PROVE  \E f : Loop(f, N, a, G) /\ \A n \in 0 .. N : f[n] \in T[n]
<1> DEFINE Is(f, m) == Loop(f, m, a, G) /\ \A n \in 0 .. m : f[n] \in T[n]
           S == {m \in Nat : m <= N => \E f : Is(f, m)}
<1>1. 0 \in S
  <2>1. Is([n \in 0 .. 0 |-> a], 0) BY DEF Loop
  <2> QED BY <2>1
<1>2. ASSUME NEW m \in Nat, m \in S PROVE m + 1 \in S
  <2> SUFFICES ASSUME m + 1 <= N PROVE \E f : Is(f, m + 1) OBVIOUS
  <2>1. PICK f : Is(f, m) BY <1>2
  <2> DEFINE g == [n \in 0 .. m + 1 |-> IF n <= m THEN f[n] ELSE G[n][f[m]]]
  <2>2. /\ f[0] = a
        /\ \A n \in 1 .. m : f[n] = G[n][f[n - 1]]
        /\ \A n \in 0 .. m : f[n] \in T[n]
    BY <2>1 DEF Loop
  <2>3. \A n \in 0 .. m : g[n] = f[n] OBVIOUS
  <2>4. g[m + 1] = G[m + 1][g[m]] OBVIOUS
  <2>5. g = [n \in 0 .. m + 1 |-> g[n]] OBVIOUS
  <2> HIDE DEF g
  <2>6. \A n \in 1 .. m + 1 : g[n] = G[n][g[n - 1]]
    <3> SUFFICES ASSUME NEW n \in 1 .. m + 1 PROVE g[n] = G[n][g[n - 1]] OBVIOUS
    <3>1. CASE n <= m BY <3>1, <2>2, <2>3
    <3>2. CASE n = m + 1 BY <3>2, <2>4
    <3> QED BY <3>1, <3>2
  <2>7. g[0] = a BY <2>2, <2>3
  <2>8. \A n \in 0 .. m + 1 : g[n] \in T[n]
    <3>1. \A n \in 0 .. m : g[n] \in T[n] BY <2>2, <2>3
    <3>2. g[m + 1] \in T[m + 1] BY <3>1, <2>4
    <3> QED BY <3>1, <3>2
  <2> QED BY <2>5, <2>6, <2>7, <2>8 DEF Loop
<1> HIDE DEF Is
<1>3. Nat \subseteq S BY <1>1, <1>2, NatSet
<1>4. \E f : Is(f, N) BY <1>3
<1> QED BY <1>4 DEF Is

(* The states of a loop are in T when each round leads from T to T. *)
LEMMA Along ==
  ASSUME NEW N \in Nat, NEW f, NEW T, f[0] \in T[0],
         \A n \in 1 .. N : f[n - 1] \in T[n - 1] => f[n] \in T[n]
  PROVE  \A n \in 0 .. N : f[n] \in T[n]
<1> DEFINE S == {n \in Nat : n <= N => f[n] \in T[n]}
<1>1. 0 \in S OBVIOUS
<1>2. \A n \in Nat : n \in S => n + 1 \in S OBVIOUS
<1>3. Nat \subseteq S
  <2> HIDE DEF S
  <2> QED BY <1>1, <1>2, NatSet
<1> QED BY <1>3

-----------------------------------------------------------------------------
(* The order of the keys.                                                  *)

(* The keys of events with different uids are ordered. *)
LEMMA KeyOrder ==
  ASSUME NEW a \in Events \cup {Start}, NEW b \in Events, NEW c \in Events
  PROVE  /\ ~KeyLess(b, b)
         /\ KeyLess(a, b) /\ KeyLess(b, c) => KeyLess(a, c)
         /\ b # c /\ ~KeyLess(b, c) => KeyLess(c, b)
         /\ KeyLess(b, c) => ~KeyLess(c, b)
<1>1. /\ a.ts \in Nat /\ a.uid \in Nat /\ b.ts \in Nat /\ b.uid \in Nat
      /\ c.ts \in Nat /\ c.uid \in Nat
  BY EventsAssumption DEF Start
<1>2. b.uid = c.uid => b = c BY EventsAssumption
<1> QED BY <1>1, <1>2 DEF KeyLess

LEMMA KeyTime ==
  ASSUME NEW a \in Events \cup {Start}, NEW b \in Events \cup {Start}
  PROVE  /\ a.ts \in Nat /\ b.ts \in Nat
         /\ KeyLess(a, b) => a.ts <= b.ts
         /\ a.ts < b.ts => KeyLess(a, b)
<1>1. a.ts \in Nat /\ b.ts \in Nat BY EventsAssumption DEF Start
<1> QED BY <1>1 DEF KeyLess

(* One of some events is the earliest. *)
LEMMA EarliestExists ==
  ASSUME NEW S, S \subseteq Events, S # {}
  PROVE  \E e \in S : IsEarliest(e, S)
<1> DEFINE times == {e.ts : e \in S}
<1>1. \A e \in S : e.ts \in Nat /\ e.uid \in Nat BY EventsAssumption
<1>2. PICK t \in times : \A u \in times : t <= u
  <2>1. times \subseteq Nat /\ times # {} BY <1>1
  <2> HIDE DEF times
  <2> QED BY <2>1, Least
<1> DEFINE uids == {e.uid : e \in {f \in S : f.ts = t}}
<1>3. PICK u \in uids : \A v \in uids : u <= v
  <2>1. uids \subseteq Nat /\ uids # {} BY <1>1
  <2> HIDE DEF uids
  <2> QED BY <2>1, Least
<1>4. PICK e \in S : e.ts = t /\ e.uid = u OBVIOUS
<1>5. ASSUME NEW f \in S \ {e} PROVE KeyLess(e, f)
  <2>1. t <= f.ts BY <1>2
  <2>2. f.ts = t => u <= f.uid BY <1>3
  <2>3. f.uid # u BY <1>4, EventsAssumption
  <2>4. t \in Nat /\ u \in Nat /\ f.ts \in Nat /\ f.uid \in Nat BY <1>1, <1>4
  <2> QED BY <1>4, <2>1, <2>2, <2>3, <2>4 DEF KeyLess
<1> QED BY <1>5 DEF IsEarliest

LEMMA EarliestUnique ==
  ASSUME NEW S, S \subseteq Events, NEW e, NEW f, IsEarliest(e, S), IsEarliest(f, S)
  PROVE  e = f
BY KeyOrder DEF IsEarliest

-----------------------------------------------------------------------------
(* Sequences of events in order: a list, and the buckets of a calendar,    *)
(* which the attribute Reverse (r) turns around.                           *)

(* What InsertAt returns, element by element. *)
LEMMA InsertAtElements ==
  ASSUME NEW S, NEW s \in Seq(S), NEW i \in 1 .. Len(s) + 1, NEW e \in S
  PROVE  /\ SE!InsertAt(s, i, e) \in Seq(S)
         /\ Len(SE!InsertAt(s, i, e)) = Len(s) + 1
         /\ \A k \in 1 .. i - 1 : SE!InsertAt(s, i, e)[k] = s[k]
         /\ SE!InsertAt(s, i, e)[i] = e
         /\ \A k \in i + 1 .. Len(s) + 1 : SE!InsertAt(s, i, e)[k] = s[k - 1]
<1> DEFINE front == SubSeq(s, 1, i - 1)
           back  == SubSeq(s, i, Len(s))
<1>1. /\ front \in Seq(S) /\ Len(front) = i - 1
      /\ \A k \in 1 .. i - 1 : front[k] = s[k]
  OBVIOUS
<1>2. /\ back \in Seq(S) /\ Len(back) = Len(s) - i + 1
      /\ \A k \in 1 .. Len(s) - i + 1 : back[k] = s[i + k - 1]
  OBVIOUS
<1> DEFINE left == front \o <<e>>
<1>3. <<e>> \in Seq(S) /\ Len(<<e>>) = 1 /\ <<e>>[1] = e OBVIOUS
<1> HIDE DEF front, back
<1>4. left \in Seq(S) /\ Len(left) = i
  BY <1>1, <1>3, ConcatProperties
<1>5. /\ \A k \in 1 .. i - 1 : left[k] = s[k]
      /\ left[i] = e
  BY <1>1, <1>3, ConcatProperties
<1> HIDE DEF left
<1>6. SE!InsertAt(s, i, e) = left \o back BY DEF SE!InsertAt, left, front, back
<1>7. /\ left \o back \in Seq(S) /\ Len(left \o back) = Len(s) + 1
      /\ \A k \in 1 .. i : (left \o back)[k] = left[k]
      /\ \A k \in i + 1 .. Len(s) + 1 : (left \o back)[k] = back[k - i]
  <2>1. /\ left \o back \in Seq(S) /\ Len(left \o back) = Len(left) + Len(back)
        /\ \A k \in 1 .. Len(left) + Len(back) :
             (left \o back)[k] = IF k <= Len(left) THEN left[k] ELSE back[k - Len(left)]
    BY <1>2, <1>4, ConcatProperties
  <2>2. Len(left) = i /\ Len(left) + Len(back) = Len(s) + 1 BY <1>2, <1>4
  <2> QED BY <2>1, <2>2
<1>8. \A k \in i + 1 .. Len(s) + 1 : back[k - i] = s[k - 1]
  <2> SUFFICES ASSUME NEW k \in i + 1 .. Len(s) + 1 PROVE back[k - i] = s[k - 1]
    OBVIOUS
  <2>1. k - i \in 1 .. Len(s) - i + 1 /\ i + (k - i) - 1 = k - 1 OBVIOUS
  <2> QED BY <1>2, <2>1
<1> QED BY <1>5, <1>6, <1>7, <1>8

LEMMA RemoveAtElements ==
  ASSUME NEW S, NEW s \in Seq(S), NEW i \in 1 .. Len(s)
  PROVE  /\ SE!RemoveAt(s, i) \in Seq(S)
         /\ Len(SE!RemoveAt(s, i)) = Len(s) - 1
         /\ \A k \in 1 .. Len(s) - 1 :
              SE!RemoveAt(s, i)[k] = IF k < i THEN s[k] ELSE s[k + 1]
<1> DEFINE front == SubSeq(s, 1, i - 1)
           back  == SubSeq(s, i + 1, Len(s))
<1>1. /\ front \in Seq(S) /\ Len(front) = i - 1
      /\ \A k \in 1 .. i - 1 : front[k] = s[k]
  OBVIOUS
<1>2. /\ back \in Seq(S) /\ Len(back) = Len(s) - i
      /\ \A k \in 1 .. Len(s) - i : back[k] = s[i + k]
  OBVIOUS
<1>3. SE!RemoveAt(s, i) = front \o back BY DEF SE!RemoveAt
<1> HIDE DEF front, back
<1>4. /\ front \o back \in Seq(S) /\ Len(front \o back) = Len(s) - 1
      /\ \A k \in 1 .. i - 1 : (front \o back)[k] = front[k]
      /\ \A k \in i .. Len(s) - 1 : (front \o back)[k] = back[k - i + 1]
  <2>1. /\ front \o back \in Seq(S) /\ Len(front \o back) = Len(front) + Len(back)
        /\ \A k \in 1 .. Len(front) + Len(back) :
             (front \o back)[k] =
               IF k <= Len(front) THEN front[k] ELSE back[k - Len(front)]
    BY <1>1, <1>2, ConcatProperties
  <2>2. Len(front) = i - 1 /\ Len(front) + Len(back) = Len(s) - 1 BY <1>1, <1>2
  <2>3. \A k \in i .. Len(s) - 1 : k - (i - 1) = k - i + 1 OBVIOUS
  <2> QED BY <2>1, <2>2, <2>3
<1>5. \A k \in i .. Len(s) - 1 : back[k - i + 1] = s[k + 1]
  <2> SUFFICES ASSUME NEW k \in i .. Len(s) - 1 PROVE back[k - i + 1] = s[k + 1]
    OBVIOUS
  <2>1. k - i + 1 \in 1 .. Len(s) - i /\ i + (k - i + 1) = k + 1 OBVIOUS
  <2> QED BY <1>2, <2>1
<1> QED BY <1>1, <1>3, <1>4, <1>5

Ord(r, a, b) == IF r THEN KeyLess(b, a) ELSE KeyLess(a, b)

InOrder(r, s) == \A i, j \in 1 .. Len(s) : i < j => Ord(r, s[i], s[j])

(* before the first element that e precedes, else at the end *)
Spot(r, s, e, i) ==
  /\ \A j \in 1 .. i - 1 : ~Ord(r, e, s[j])
  /\ i <= Len(s) => Ord(r, e, s[i])

LEMMA OrdOrder ==
  ASSUME NEW r, NEW a \in Events, NEW b \in Events, NEW c \in Events
  PROVE  /\ ~Ord(r, b, b)
         /\ Ord(r, a, b) /\ Ord(r, b, c) => Ord(r, a, c)
         /\ b # c /\ ~Ord(r, b, c) => Ord(r, c, b)
<1>1. CASE r BY <1>1, KeyOrder DEF Ord
<1>2. CASE ~r BY <1>2, KeyOrder DEF Ord
<1> QED BY <1>1, <1>2

LEMMA ToSetElements ==
  ASSUME NEW S, NEW s \in Seq(S)
  PROVE  /\ \A x : x \in SE!ToSet(s) <=> \E i \in 1 .. Len(s) : x = s[i]
         /\ SE!ToSet(s) \subseteq S
         /\ SE!ToSet(s) = {} <=> s = <<>>
<1>1. DOMAIN s = 1 .. Len(s) /\ Len(s) \in Nat OBVIOUS
<1>2. \A x : x \in SE!ToSet(s) <=> \E i \in 1 .. Len(s) : x = s[i] BY <1>1 DEF SE!ToSet
<1>3. SE!ToSet(s) \subseteq S BY <1>2
<1>4. ASSUME SE!ToSet(s) = {} PROVE s = <<>>
  <2>1. Len(s) = 0 BY <1>1, <1>2, <1>4
  <2> QED BY <2>1
<1>5. ASSUME s = <<>> PROVE SE!ToSet(s) = {}
  <2>1. Len(s) = 0 BY <1>5
  <2> QED BY <1>2, <2>1
<1> QED BY <1>2, <1>3, <1>4, <1>5

LEMMA SpotExists ==
  ASSUME NEW r, NEW s \in Seq(Events), NEW e
  PROVE  \E i \in 1 .. Len(s) + 1 : Spot(r, s, e, i)
<1> DEFINE S == {i \in 1 .. Len(s) + 1 : i <= Len(s) => Ord(r, e, s[i])}
<1>1. S \subseteq Nat /\ Len(s) + 1 \in S OBVIOUS
<1>2. PICK i \in S : \A j \in S : i <= j
  <2> HIDE DEF S
  <2> QED BY <1>1, Least
<1>3. \A j \in 1 .. i - 1 : j \notin S BY <1>2
<1> QED BY <1>3 DEF Spot

(* An event put at its spot leaves the sequence in order. *)
LEMMA InsertInOrder ==
  ASSUME NEW r, NEW s \in Seq(Events), InOrder(r, s),
         NEW e \in Events, e \notin SE!ToSet(s),
         NEW i \in 1 .. Len(s) + 1, Spot(r, s, e, i)
  PROVE  /\ SE!InsertAt(s, i, e) \in Seq(Events)
         /\ InOrder(r, SE!InsertAt(s, i, e))
         /\ SE!ToSet(SE!InsertAt(s, i, e)) = SE!ToSet(s) \cup {e}
<1> DEFINE t == SE!InsertAt(s, i, e)
<1>1. /\ t \in Seq(Events) /\ Len(t) = Len(s) + 1
      /\ \A k \in 1 .. i - 1 : t[k] = s[k]
      /\ t[i] = e
      /\ \A k \in i + 1 .. Len(s) + 1 : t[k] = s[k - 1]
  BY InsertAtElements
<1> HIDE DEF t
<1>2. \A k \in 1 .. Len(s) : s[k] \in Events /\ s[k] # e BY ToSetElements
<1>3. \A k \in 1 .. i - 1 : Ord(r, s[k], e)
  <2> SUFFICES ASSUME NEW k \in 1 .. i - 1 PROVE Ord(r, s[k], e) OBVIOUS
  <2>1. s[k] \in Events /\ s[k] # e BY <1>2
  <2>2. ~Ord(r, e, s[k]) BY DEF Spot
  <2> QED BY <2>1, <2>2, OrdOrder
<1>4. \A k \in i .. Len(s) : Ord(r, e, s[k])
  <2> SUFFICES ASSUME NEW k \in i .. Len(s) PROVE Ord(r, e, s[k]) OBVIOUS
  <2>1. Ord(r, e, s[i]) BY DEF Spot
  <2>2. k = i \/ Ord(r, s[i], s[k]) BY DEF InOrder
  <2>3. s[i] \in Events /\ s[k] \in Events BY <1>2
  <2> QED BY <2>1, <2>2, <2>3, OrdOrder
<1>5. InOrder(r, t)
  <2> SUFFICES ASSUME NEW a \in 1 .. Len(s) + 1, NEW b \in 1 .. Len(s) + 1, a < b
               PROVE  Ord(r, t[a], t[b])
    BY <1>1 DEF InOrder
  <2>1. CASE b < i
    <3>1. a \in 1 .. i - 1 /\ b \in 1 .. i - 1 BY <2>1
    <3>2. t[a] = s[a] /\ t[b] = s[b] BY <3>1, <1>1
    <3>3. a \in 1 .. Len(s) /\ b \in 1 .. Len(s) BY <2>1
    <3> QED BY <3>2, <3>3 DEF InOrder
  <2>2. CASE b = i BY <2>2, <1>1, <1>3
  <2>3. CASE a < i /\ i < b
    <3>1. t[a] = s[a] /\ t[b] = s[b - 1] BY <2>3, <1>1
    <3>2. a \in 1 .. Len(s) /\ b - 1 \in 1 .. Len(s) /\ a < b - 1 BY <2>3
    <3> QED BY <3>1, <3>2 DEF InOrder
  <2>4. CASE a = i
    <3>1. t[a] = e /\ t[b] = s[b - 1] BY <2>4, <1>1
    <3>2. b - 1 \in i .. Len(s) BY <2>4
    <3> QED BY <3>1, <3>2, <1>4
  <2>5. CASE i < a
    <3>1. t[a] = s[a - 1] /\ t[b] = s[b - 1] BY <2>5, <1>1
    <3>2. a - 1 \in 1 .. Len(s) /\ b - 1 \in 1 .. Len(s) /\ a - 1 < b - 1 BY <2>5
    <3> QED BY <3>1, <3>2 DEF InOrder
  <2> QED BY <2>1, <2>2, <2>3, <2>4, <2>5
<1>6. SE!ToSet(t) = SE!ToSet(s) \cup {e}
  <2>1. \A k \in 1 .. Len(s) + 1 : t[k] \in SE!ToSet(s) \cup {e}
    <3> SUFFICES ASSUME NEW k \in 1 .. Len(s) + 1, k # i PROVE t[k] \in SE!ToSet(s)
      BY <1>1
    <3>1. CASE k < i
      <4>1. t[k] = s[k] /\ k \in 1 .. Len(s) BY <3>1, <1>1
      <4> QED BY <4>1, ToSetElements
    <3>2. CASE i < k
      <4>1. t[k] = s[k - 1] /\ k - 1 \in 1 .. Len(s) BY <3>2, <1>1
      <4> QED BY <4>1, ToSetElements
    <3> QED BY <3>1, <3>2
  <2>2. \A k \in 1 .. Len(s) : \E l \in 1 .. Len(s) + 1 : t[l] = s[k]
    <3> SUFFICES ASSUME NEW k \in 1 .. Len(s)
                 PROVE  \E l \in 1 .. Len(s) + 1 : t[l] = s[k]
      OBVIOUS
    <3>1. CASE k < i BY <3>1, <1>1
    <3>2. CASE i <= k
      <4>1. k + 1 \in 1 .. Len(s) + 1 /\ k + 1 \in i + 1 .. Len(s) + 1 BY <3>2
      <4>2. t[k + 1] = s[(k + 1) - 1] BY <4>1, <1>1
      <4> QED BY <4>1, <4>2
    <3> QED BY <3>1, <3>2
  <2>3. \A x : x \in SE!ToSet(t) <=> \E k \in 1 .. Len(s) + 1 : x = t[k]
    BY <1>1, ToSetElements
  <2>4. \A x : x \in SE!ToSet(s) <=> \E k \in 1 .. Len(s) : x = s[k] BY ToSetElements
  <2> QED BY <2>1, <2>2, <2>3, <2>4, <1>1
<1> QED BY <1>1, <1>5, <1>6 DEF t

LEMMA DistinctInOrder ==
  ASSUME NEW r, NEW s \in Seq(Events), InOrder(r, s)
  PROVE  \A i, j \in 1 .. Len(s) : i # j => s[i] # s[j]
<1> SUFFICES ASSUME NEW i \in 1 .. Len(s), NEW j \in 1 .. Len(s), i # j
             PROVE  s[i] # s[j]
  OBVIOUS
<1>1. s[i] \in Events /\ s[j] \in Events OBVIOUS
<1>2. i < j \/ j < i OBVIOUS
<1> QED BY <1>1, <1>2, OrdOrder DEF InOrder

(* Taking an element out of a sequence without duplicates takes it from the *)
(* set of its elements.                                                     *)
LEMMA TakeOut ==
  ASSUME NEW s \in Seq(Events), \A i, j \in 1 .. Len(s) : i # j => s[i] # s[j],
         NEW k \in 1 .. Len(s)
  PROVE  /\ SE!RemoveAt(s, k) \in Seq(Events)
         /\ SE!ToSet(SE!RemoveAt(s, k)) = SE!ToSet(s) \ {s[k]}
         /\ \A r : InOrder(r, s) => InOrder(r, SE!RemoveAt(s, k))
<1> DEFINE t == SE!RemoveAt(s, k)
           old(i) == IF i < k THEN i ELSE i + 1
<1>1. /\ t \in Seq(Events) /\ Len(t) = Len(s) - 1
      /\ \A i \in 1 .. Len(s) - 1 : t[i] = IF i < k THEN s[i] ELSE s[i + 1]
  BY RemoveAtElements
<1> HIDE DEF t
<1>2. \A i \in 1 .. Len(t) : old(i) \in 1 .. Len(s) /\ old(i) # k /\ t[i] = s[old(i)]
  BY <1>1
<1>3. \A i, j \in 1 .. Len(t) : i < j => old(i) < old(j) BY <1>1
<1>4. \A i \in 1 .. Len(s) : i # k => \E j \in 1 .. Len(t) : old(j) = i
  <2> SUFFICES ASSUME NEW i \in 1 .. Len(s), i # k
               PROVE  \E j \in 1 .. Len(t) : old(j) = i
    OBVIOUS
  <2>1. CASE i < k BY <2>1, <1>1
  <2>2. CASE k < i
    <3>1. i - 1 \in 1 .. Len(t) /\ old(i - 1) = i BY <2>2, <1>1
    <3> QED BY <3>1
  <2> QED BY <2>1, <2>2
<1> HIDE DEF old
<1>5. \A r : InOrder(r, s) => InOrder(r, t) BY <1>2, <1>3 DEF InOrder
<1>6. SE!ToSet(t) = SE!ToSet(s) \ {s[k]}
  <2>1. \A x : x \in SE!ToSet(t) <=> \E i \in 1 .. Len(t) : x = t[i]
    BY <1>1, ToSetElements
  <2>2. \A x : x \in SE!ToSet(s) <=> \E i \in 1 .. Len(s) : x = s[i] BY ToSetElements
  <2>3. ASSUME NEW x \in SE!ToSet(s), x # s[k] PROVE x \in SE!ToSet(t)
    <3>1. PICK i \in 1 .. Len(s) : x = s[i] BY <2>2
    <3>2. i # k BY <3>1, <2>3
    <3>3. PICK j \in 1 .. Len(t) : old(j) = i BY <3>2, <1>4
    <3> QED BY <3>1, <3>3, <2>1, <1>2
  <2>4. ASSUME NEW x \in SE!ToSet(t) PROVE x \in SE!ToSet(s) /\ x # s[k]
    <3>1. PICK i \in 1 .. Len(t) : x = t[i] BY <2>1
    <3> QED BY <3>1, <2>2, <1>2
  <2> QED BY <2>3, <2>4
<1> QED BY <1>1, <1>5, <1>6 DEF t

(* The element at the front, or at the back of a reversed sequence, is the  *)
(* earliest.                                                                *)
LEMMA FrontIsEarliest ==
  ASSUME NEW r, NEW s \in Seq(Events), s # <<>>, InOrder(r, s),
         NEW k, k = IF r THEN Len(s) ELSE 1
  PROVE  k \in 1 .. Len(s) /\ IsEarliest(s[k], SE!ToSet(s))
<1>1. Len(s) \in Nat \ {0} OBVIOUS
<1>2. k \in 1 .. Len(s)
  <2>1. CASE r BY <2>1, <1>1
  <2>2. CASE ~r BY <2>2, <1>1
  <2> QED BY <2>1, <2>2
<1>3. s[k] \in SE!ToSet(s) BY <1>2, ToSetElements
<1>4. ASSUME NEW f \in SE!ToSet(s) \ {s[k]} PROVE KeyLess(s[k], f)
  <2>1. PICK j \in 1 .. Len(s) : f = s[j] BY ToSetElements
  <2>2. j # k BY <2>1
  <2>3. CASE r
    <3>1. k = Len(s) BY <2>3
    <3>2. j < k BY <3>1, <2>2, <1>1
    <3>3. Ord(r, s[j], s[k]) BY <3>2, <1>2 DEF InOrder
    <3> QED BY <2>1, <2>3, <3>3 DEF Ord
  <2>4. CASE ~r
    <3>1. k = 1 BY <2>4
    <3>2. k < j BY <3>1, <2>2, <1>1
    <3>3. Ord(r, s[k], s[j]) BY <3>2, <1>2 DEF InOrder
    <3> QED BY <2>1, <2>4, <3>3 DEF Ord
  <2> QED BY <2>3, <2>4
<1> QED BY <1>2, <1>3, <1>4 DEF IsEarliest

-----------------------------------------------------------------------------
(* The heap.                                                               *)

Distinct(h) == \A i, j \in 1 .. Len(h) : i # j => h[i] # h[j]

HeapGood(h) ==
  /\ h \in Seq(Events)
  /\ Distinct(h)
  /\ \A j \in 2 .. Len(h) : ~KeyLess(h[j], h[j \div 2])

LEMMA HeapKeys ==
  /\ \A h, a, b : Heap!IsLessStrictly(h, a, b) <=> KeyLess(h[a], h[b])
  /\ \A h, a, b : Heap!Smallest(h, a, b) = IF KeyLess(h[a], h[b]) THEN a ELSE b
BY DEF Heap!IsLessStrictly, Heap!Smallest, Heap!KeyLess, KeyLess

LEMMA ExchElements ==
  ASSUME NEW h \in Seq(Events), NEW a \in 1 .. Len(h), NEW b \in 1 .. Len(h)
  PROVE  /\ Heap!Exch(h, a, b) \in Seq(Events)
         /\ Len(Heap!Exch(h, a, b)) = Len(h)
         /\ \A k \in 1 .. Len(h) :
              Heap!Exch(h, a, b)[k] = IF k = a THEN h[b] ELSE IF k = b THEN h[a] ELSE h[k]
         /\ SE!ToSet(Heap!Exch(h, a, b)) = SE!ToSet(h)
         /\ Distinct(h) => Distinct(Heap!Exch(h, a, b))
<1> DEFINE g == Heap!Exch(h, a, b)
           to(k) == IF k = a THEN b ELSE IF k = b THEN a ELSE k
<1>1. g \in Seq(Events) /\ Len(g) = Len(h) BY DEF Heap!Exch
<1>2. \A k \in 1 .. Len(h) : g[k] = IF k = a THEN h[b] ELSE IF k = b THEN h[a] ELSE h[k]
  BY DEF Heap!Exch
<1> HIDE DEF g
<1>3. \A k \in 1 .. Len(h) : to(k) \in 1 .. Len(h) /\ g[k] = h[to(k)] /\ to(to(k)) = k
  BY <1>2
<1>4. SE!ToSet(g) = SE!ToSet(h)
  <2>1. \A x : x \in SE!ToSet(g) <=> \E k \in 1 .. Len(h) : x = g[k]
    BY <1>1, ToSetElements
  <2>2. \A x : x \in SE!ToSet(h) <=> \E k \in 1 .. Len(h) : x = h[k] BY ToSetElements
  <2> HIDE DEF to
  <2>3. \A k \in 1 .. Len(h) : g[k] \in SE!ToSet(h) BY <1>3, <2>2
  <2>4. \A k \in 1 .. Len(h) : h[k] \in SE!ToSet(g)
    <3> SUFFICES ASSUME NEW k \in 1 .. Len(h) PROVE h[k] \in SE!ToSet(g) OBVIOUS
    <3>1. to(k) \in 1 .. Len(h) /\ g[to(k)] = h[k] BY <1>3
    <3> QED BY <3>1, <2>1
  <2> QED BY <2>1, <2>2, <2>3, <2>4
<1>5. Distinct(h) => Distinct(g)
  <2> SUFFICES ASSUME Distinct(h), NEW i \in 1 .. Len(h), NEW j \in 1 .. Len(h), i # j
               PROVE  g[i] # g[j]
    BY <1>1 DEF Distinct
  <2>1. to(i) # to(j) BY <1>3
  <2> HIDE DEF to
  <2> QED BY <1>3, <2>1 DEF Distinct
<1> QED BY <1>1, <1>2, <1>4, <1>5 DEF g

(* The first element of a heap is the earliest. *)
LEMMA RootEarliest ==
  ASSUME NEW h, HeapGood(h), h # <<>>
  PROVE  IsEarliest(h[1], SE!ToSet(h)) /\ 1 \in 1 .. Len(h)
<1>1. h \in Seq(Events) /\ Len(h) \in Nat /\ 1 \in 1 .. Len(h) BY DEF HeapGood
<1> DEFINE S == {n \in Nat : \A k \in 1 .. Len(h) : k <= n => ~KeyLess(h[k], h[1])}
<1>2. 0 \in S OBVIOUS
<1>3. ASSUME NEW n \in Nat, n \in S PROVE n + 1 \in S
  <2> SUFFICES ASSUME n + 1 \in 1 .. Len(h) PROVE ~KeyLess(h[n + 1], h[1])
    BY <1>3
  <2>1. h[n + 1] \in Events /\ h[1] \in Events BY <1>1
  <2>2. CASE n = 0 BY <2>1, <2>2, KeyOrder
  <2>3. CASE n # 0
    <3> DEFINE p == (n + 1) \div 2
    <3>1. p \in 1 .. Len(h) /\ p <= n /\ n + 1 \in 2 .. Len(h) BY <2>3
    <3>2. ~KeyLess(h[n + 1], h[p]) BY <3>1 DEF HeapGood
    <3>3. ~KeyLess(h[p], h[1]) BY <3>1, <1>3
    <3>4. h[p] \in Events BY <1>1, <3>1
    <3> HIDE DEF p
    <3> QED BY <2>1, <3>2, <3>3, <3>4, KeyOrder
  <2> QED BY <2>2, <2>3
<1>4. Nat \subseteq S
  <2> HIDE DEF S
  <2> QED BY <1>2, <1>3, NatSet
<1>5. \A k \in 1 .. Len(h) : ~KeyLess(h[k], h[1]) BY <1>1, <1>4
<1>6. ASSUME NEW f \in SE!ToSet(h) \ {h[1]} PROVE KeyLess(h[1], f)
  <2>1. PICK k \in 1 .. Len(h) : f = h[k] BY <1>1, ToSetElements
  <2>2. h[1] \in Events /\ f \in Events BY <1>1, <2>1
  <2> QED BY <2>1, <2>2, <1>5, KeyOrder
<1>7. h[1] \in SE!ToSet(h) BY <1>1, ToSetElements
<1> QED BY <1>1, <1>6, <1>7 DEF IsEarliest

(* What BottomUp keeps: the heap is in order except between the element at  *)
(* the index and its parent; what is below it is not below a later one.     *)
Up(at, L, S) ==
  /\ at.heap \in Seq(Events) /\ Len(at.heap) = L
  /\ Distinct(at.heap)
  /\ SE!ToSet(at.heap) = S
  /\ at.index \in 1 .. L
  /\ \A j \in 2 .. L : j # at.index => ~KeyLess(at.heap[j], at.heap[j \div 2])
  /\ \A j \in 2 .. L : j \div 2 = at.index /\ at.index # 1 =>
       ~KeyLess(at.heap[j], at.heap[at.index \div 2])

Risen(at) == at.index = 1 \/ ~KeyLess(at.heap[at.index], at.heap[at.index \div 2])

LEMMA RiseStep ==
  ASSUME NEW at \in [heap : Seq(Events), index : Nat], NEW L \in Nat, NEW S, Up(at, L, S)
  PROVE  /\ Risen(at) => Heap!Rise(at) = at
         /\ ~Risen(at) => /\ Heap!Rise(at) \in [heap : Seq(Events), index : Nat]
                          /\ Up(Heap!Rise(at), L, S)
                          /\ Heap!Rise(at).index < at.index
<1>1. Risen(at) => Heap!Rise(at) = at BY HeapKeys DEF Risen, Heap!Rise
<1>2. ASSUME ~Risen(at)
      PROVE  /\ Heap!Rise(at) \in [heap : Seq(Events), index : Nat]
             /\ Up(Heap!Rise(at), L, S)
             /\ Heap!Rise(at).index < at.index
  <2> DEFINE h == at.heap
             i == at.index
             p == i \div 2
             g == Heap!Exch(h, i, p)
  <2>1. Heap!Rise(at) = [heap |-> g, index |-> p] BY <1>2, HeapKeys DEF Risen, Heap!Rise
  <2>2. i # 1 /\ KeyLess(h[i], h[p]) BY <1>2 DEF Risen
  <2>3. /\ h \in Seq(Events) /\ Len(h) = L /\ Distinct(h) /\ SE!ToSet(h) = S
        /\ i \in 1 .. L
        /\ \A j \in 2 .. L : j # i => ~KeyLess(h[j], h[j \div 2])
        /\ \A j \in 2 .. L : j \div 2 = i => ~KeyLess(h[j], h[p])
    BY <2>2 DEF Up
  <2> HIDE DEF h, i
  <2>4. i \in 2 .. L /\ p \in 1 .. L /\ p < i BY <2>2, <2>3
  <2>p. p = i \div 2 OBVIOUS
  <2> HIDE DEF p
  <2>5. /\ g \in Seq(Events) /\ Len(g) = L /\ Distinct(g) /\ SE!ToSet(g) = S
        /\ \A k \in 1 .. L : g[k] = IF k = i THEN h[p] ELSE IF k = p THEN h[i] ELSE h[k]
    <3>1. h \in Seq(Events) /\ i \in 1 .. Len(h) /\ p \in 1 .. Len(h) BY <2>3, <2>4
    <3>2. /\ g \in Seq(Events) /\ Len(g) = Len(h) /\ SE!ToSet(g) = SE!ToSet(h)
          /\ \A k \in 1 .. Len(h) :
               g[k] = IF k = i THEN h[p] ELSE IF k = p THEN h[i] ELSE h[k]
          /\ Distinct(h) => Distinct(g)
      BY <3>1, ExchElements
    <3> HIDE DEF g
    <3> QED BY <2>3, <3>2
  <2>6. \A k \in 1 .. L : h[k] \in Events BY <2>3
  <2> HIDE DEF g
  <2>7. ASSUME NEW j \in 2 .. L, j # p PROVE ~KeyLess(g[j], g[j \div 2])
    <3> DEFINE q == j \div 2
    <3>1. q \in 1 .. L /\ q < j OBVIOUS
    <3>2. h[i] \in Events /\ h[p] \in Events /\ h[j] \in Events /\ h[q] \in Events
      BY <2>4, <2>6, <3>1
    <3>3. CASE j = i
      <4>1. g[j] = h[p] /\ g[q] = h[i] BY <3>3, <3>1, <2>4, <2>5, <2>p
      <4> QED BY <4>1, <2>2, <3>2, KeyOrder
    <3>4. CASE j # i /\ q = i
      <4>1. g[j] = h[j] /\ g[q] = h[p] BY <3>4, <3>1, <2>4, <2>5, <2>7
      <4> QED BY <4>1, <2>3, <3>4
    <3>5. CASE j # i /\ q = p
      <4>1. g[j] = h[j] /\ g[q] = h[i] BY <3>5, <3>1, <2>4, <2>5, <2>7
      <4>2. ~KeyLess(h[j], h[p]) BY <3>5, <2>3
      <4> QED BY <4>1, <4>2, <2>2, <3>2, KeyOrder
    <3>6. CASE j # i /\ q # i /\ q # p
      <4>1. g[j] = h[j] /\ g[q] = h[q] BY <3>6, <3>1, <2>5, <2>7
      <4> QED BY <4>1, <2>3, <3>6
    <3> QED BY <3>3, <3>4, <3>5, <3>6
  <2>8. ASSUME NEW j \in 2 .. L, j \div 2 = p, p # 1 PROVE ~KeyLess(g[j], g[p \div 2])
    <3> DEFINE q == p \div 2
    <3>1. q \in 1 .. L /\ q < p /\ p < j /\ p \in 2 .. L BY <2>4, <2>8
    <3>2. h[p] \in Events /\ h[j] \in Events /\ h[q] \in Events BY <2>6, <3>1
    <3>3. g[q] = h[q] BY <3>1, <2>4, <2>5
    <3>4. ~KeyLess(h[p], h[q]) BY <3>1, <2>4, <2>3
    <3>5. CASE j = i
      <4>1. g[j] = h[p] BY <3>5, <2>5
      <4> QED BY <4>1, <3>3, <3>4
    <3>6. CASE j # i
      <4>1. g[j] = h[j] BY <3>6, <3>1, <2>5
      <4>2. ~KeyLess(h[j], h[p]) BY <3>6, <2>3, <2>8
      <4>3. ~KeyLess(h[j], h[q])
        <5> HIDE DEF q
        <5> QED BY <4>2, <3>2, <3>4, KeyOrder
      <4> QED BY <4>1, <4>3, <3>3
    <3> QED BY <3>5, <3>6
  <2>9. Up([heap |-> g, index |-> p], L, S) BY <2>4, <2>5, <2>7, <2>8 DEF Up
  <2>10. [heap |-> g, index |-> p] \in [heap : Seq(Events), index : Nat] BY <2>4, <2>5
  <2> QED BY <2>1, <2>4, <2>9, <2>10 DEF i
<1> QED BY <1>1, <1>2

LEMMA BottomUpOrders ==
  ASSUME NEW h \in Seq(Events), h # <<>>, Distinct(h),
         \A j \in 2 .. Len(h) - 1 : ~KeyLess(h[j], h[j \div 2])
  PROVE  HeapGood(Heap!BottomUp(h)) /\ SE!ToSet(Heap!BottomUp(h)) = SE!ToSet(h)
<1> DEFINE L == Len(h)
           S == SE!ToSet(h)
           U == [heap : Seq(Events), index : Nat]
           a == [heap |-> h, index |-> L]
           round[n \in 0 .. Len(h)] ==
             IF n = 0 THEN [heap |-> h, index |-> Len(h)] ELSE Heap!Rise(round[n - 1])
           T == [n \in 0 .. L |-> {at \in U : Up(at, L, S) /\ (Risen(at) \/ at.index <= L - n)}]
           G == [n \in 1 .. L |-> [at \in U |-> Heap!Rise(at)]]
<1>1. Heap!BottomUp(h) = round[L].heap BY DEF Heap!BottomUp
<1>2. L \in Nat /\ L # 0 OBVIOUS
<1>3. a \in T[0]
  <2>1. a \in U BY <1>2
  <2>2. Up(a, L, S)
    <3>1. \A j \in 2 .. L : j # L => j \in 2 .. L - 1 OBVIOUS
    <3>2. \A j \in 2 .. L : j \div 2 # L OBVIOUS
    <3> QED BY <1>2, <3>1, <3>2 DEF Up
  <2> QED BY <1>2, <2>1, <2>2
<1>4. ASSUME NEW n \in 1 .. L, NEW at \in U, at \in T[n - 1]
      PROVE  Heap!Rise(at) \in T[n]
  <2>1. n - 1 \in 0 .. L OBVIOUS
  <2>2. Up(at, L, S) /\ (Risen(at) \/ at.index <= L - (n - 1)) BY <1>4, <2>1
  <2>3. CASE Risen(at) BY <2>2, <2>3, RiseStep
  <2>4. CASE ~Risen(at)
    <3>1. /\ Heap!Rise(at) \in U /\ Up(Heap!Rise(at), L, S)
          /\ Heap!Rise(at).index < at.index
      BY <2>2, <2>4, RiseStep
    <3>2. Heap!Rise(at).index <= L - n BY <3>1, <2>2, <2>4
    <3> QED BY <3>1, <3>2
  <2> QED BY <2>3, <2>4
<1>5. /\ \A n \in 0 .. L : \A at \in T[n] : at \in U
      /\ \A n \in 1 .. L : \A at \in U : G[n][at] = Heap!Rise(at)
  OBVIOUS
<1>6. PICK f : Loop(f, L, a, G) /\ \A n \in 0 .. L : f[n] \in T[n]
  <2>1. \A n \in 1 .. L : \A at \in T[n - 1] : G[n][at] \in T[n]
    <3> SUFFICES ASSUME NEW n \in 1 .. L, NEW at \in T[n - 1] PROVE G[n][at] \in T[n]
      OBVIOUS
    <3>1. at \in U BY <1>5
    <3>2. G[n][at] = Heap!Rise(at) BY <3>1, <1>5
    <3> HIDE DEF T, U
    <3> QED BY <3>1, <3>2, <1>4
  <2> HIDE DEF L, a, G, T
  <2> QED BY <2>1, <1>2, <1>3, LoopExists
<1>7. f = [n \in 0 .. Len(h) |->
             IF n = 0 THEN [heap |-> h, index |-> Len(h)] ELSE Heap!Rise(f[n - 1])]
  <2>1. \A n \in 0 .. L : f[n] \in U BY <1>5, <1>6
  <2>2. \A n \in 1 .. L : f[n] = Heap!Rise(f[n - 1])
    <3> SUFFICES ASSUME NEW n \in 1 .. L PROVE f[n] = Heap!Rise(f[n - 1]) OBVIOUS
    <3>1. f[n] = G[n][f[n - 1]] BY <1>6 DEF Loop
    <3>2. f[n - 1] \in U BY <2>1
    <3> HIDE DEF U, G, T, L
    <3> QED BY <3>1, <3>2, <1>5
  <2>3. f[0] = a /\ f = [n \in 0 .. L |-> f[n]] BY <1>6 DEF Loop
  <2> DEFINE g == [n \in 0 .. L |-> IF n = 0 THEN a ELSE Heap!Rise(f[n - 1])]
  <2>4. g[0] = a /\ \A n \in 1 .. L : g[n] = Heap!Rise(f[n - 1])
    <3> HIDE DEF a, L
    <3> QED BY <1>2
  <2>5. g = [n \in 0 .. L |-> g[n]] OBVIOUS
  <2>6. f = g
    <3> HIDE DEF g, a, L
    <3>1. \A n \in 0 .. L : f[n] = g[n] BY <1>2, <2>2, <2>3, <2>4
    <3> QED BY <2>3, <2>5, <3>1
  <2> QED BY <2>6
<1>8. round = [n \in 0 .. Len(h) |->
             IF n = 0 THEN [heap |-> h, index |-> Len(h)] ELSE Heap!Rise(round[n - 1])]
  BY <1>7, Zenon
<1> HIDE DEF round
<1>9. \A n \in 0 .. L : round[n] \in T[n]
  <2>1. round[0] = a /\ \A n \in 1 .. L : round[n] = Heap!Rise(round[n - 1]) BY <1>8
  <2>2. \A n \in 1 .. L : round[n - 1] \in T[n - 1] => round[n] \in T[n]
    <3> SUFFICES ASSUME NEW n \in 1 .. L, round[n - 1] \in T[n - 1] PROVE round[n] \in T[n]
      OBVIOUS
    <3>1. round[n - 1] \in U
      <4>1. n - 1 \in 0 .. L OBVIOUS
      <4> HIDE DEF T, U
      <4> QED BY <1>5, <4>1
    <3> HIDE DEF T, U
    <3> QED BY <3>1, <2>1, <1>4
  <2> HIDE DEF T, a, L
  <2> QED BY <2>1, <2>2, <1>2, <1>3, Along
<1>10. LET at == round[L] IN Up(at, L, S) /\ (Risen(at) \/ at.index <= 0)
  <2>1. L \in 0 .. L /\ L - L = 0 BY <1>2
  <2>2. round[L] \in T[L] BY <1>9, <2>1
  <2> QED BY <2>1, <2>2
<1>11. HeapGood(round[L].heap) /\ SE!ToSet(round[L].heap) = S
  BY <1>10 DEF Up, Risen, HeapGood
<1> QED BY <1>1, <1>11

(* What TopDown keeps: the heap is in order except between the element at   *)
(* the index and its children, which are not below a later one.             *)
Down(at, L, S) ==
  /\ at.heap \in Seq(Events) /\ Len(at.heap) = L
  /\ Distinct(at.heap)
  /\ SE!ToSet(at.heap) = S
  /\ at.index \in Nat \ {0}
  /\ \A j \in 2 .. L : j \div 2 # at.index => ~KeyLess(at.heap[j], at.heap[j \div 2])
  /\ \A j \in 2 .. L : j \div 2 = at.index /\ at.index # 1 =>
       ~KeyLess(at.heap[j], at.heap[at.index \div 2])

Sunk(at) ==
  \A j \in 2 .. Len(at.heap) : j \div 2 = at.index => ~KeyLess(at.heap[j], at.heap[at.index])

LEMMA SinkStep ==
  ASSUME NEW at \in [heap : Seq(Events), index : Nat], NEW L \in Nat, NEW S, Down(at, L, S)
  PROVE  /\ Heap!Sink(at) \in [heap : Seq(Events), index : Nat]
         /\ Down(Heap!Sink(at), L, S)
         /\ Sunk(at) => Heap!Sink(at) = at
         /\ ~Sunk(at) => at.index < Heap!Sink(at).index
<1> DEFINE h == at.heap
           i == at.index
           left == i * 2
           right == i * 2 + 1
           tmp == IF right <= Len(h) THEN Heap!Smallest(h, left, right) ELSE left
           g == Heap!Exch(h, i, tmp)
<1>1. Heap!Sink(at) = IF left <= Len(h) /\ ~Heap!IsLessStrictly(h, i, tmp)
                      THEN [heap |-> g, index |-> tmp] ELSE at
  BY DEF Heap!Sink
<1>2. /\ h \in Seq(Events) /\ Len(h) = L /\ Distinct(h) /\ SE!ToSet(h) = S
      /\ i \in Nat \ {0}
      /\ \A j \in 2 .. L : j \div 2 # i => ~KeyLess(h[j], h[j \div 2])
      /\ \A j \in 2 .. L : j \div 2 = i /\ i # 1 => ~KeyLess(h[j], h[i \div 2])
  BY DEF Down
<1>3. tmp = IF right <= L /\ ~KeyLess(h[left], h[right]) THEN right ELSE left
  BY <1>2, HeapKeys
<1>4. Sunk(at) <=> \A j \in 2 .. L : j \div 2 = i => ~KeyLess(h[j], h[i])
  BY <1>2 DEF Sunk
<1>5. at = [heap |-> h, index |-> i] OBVIOUS
<1> HIDE DEF h, i, tmp
<1>6. /\ left \in Nat /\ right = left + 1 /\ i < left
      /\ left \div 2 = i /\ right \div 2 = i
      /\ \A j \in 2 .. L : j \div 2 = i => j = left \/ j = right
      /\ tmp = left \/ tmp = right
  BY <1>2, <1>3
<1>7. \A k \in 1 .. L : h[k] \in Events BY <1>2
<1> HIDE DEF left, right
(* The element at tmp is the earlier of the children. *)
<1>8. ASSUME left <= L
      PROVE  /\ tmp \in 2 .. L /\ tmp \div 2 = i /\ i \in 1 .. L
             /\ \A j \in 2 .. L : j \div 2 = i => j = tmp \/ KeyLess(h[tmp], h[j])
  <2>1. tmp \in 2 .. L /\ tmp \div 2 = i /\ i \in 1 .. L BY <1>2, <1>3, <1>6, <1>8
  <2>2. ASSUME NEW j \in 2 .. L, j \div 2 = i, j # tmp PROVE KeyLess(h[tmp], h[j])
    <3>1. h[tmp] # h[j] BY <2>1, <2>2, <1>2 DEF Distinct
    <3>2. h[tmp] \in Events /\ h[j] \in Events BY <2>1, <1>7
    <3>3. j = left \/ j = right BY <2>2, <1>6
    <3>4. CASE j = left
      <4>1. tmp = right /\ ~KeyLess(h[left], h[right]) BY <3>4, <2>2, <1>3
      <4> QED BY <3>1, <3>2, <3>4, <4>1, KeyOrder
    <3>5. CASE j = right
      <4>1. tmp = left /\ right <= L BY <3>5, <2>2, <1>6
      <4>2. KeyLess(h[left], h[right]) BY <4>1, <1>3, <1>6
      <4> QED BY <3>5, <4>1, <4>2
    <3> QED BY <3>3, <3>4, <3>5
  <2> QED BY <2>1, <2>2
<1>9. CASE ~(left <= L /\ ~KeyLess(h[i], h[tmp]))
  <2>1. Heap!Sink(at) = at BY <1>1, <1>2, <1>9, HeapKeys
  <2>2. Sunk(at)
    <3> SUFFICES ASSUME NEW j \in 2 .. L, j \div 2 = i PROVE ~KeyLess(h[j], h[i]) BY <1>4
    <3>1. left <= L BY <1>6
    <3>2. KeyLess(h[i], h[tmp]) BY <1>9, <3>1
    <3>3. h[i] \in Events /\ h[tmp] \in Events /\ h[j] \in Events BY <3>1, <1>7, <1>8
    <3>4. j = tmp \/ KeyLess(h[tmp], h[j]) BY <3>1, <1>8
    <3> QED BY <3>2, <3>3, <3>4, KeyOrder
  <2> QED BY <2>1, <2>2
<1>10. CASE left <= L /\ ~KeyLess(h[i], h[tmp])
  <2>1. Heap!Sink(at) = [heap |-> g, index |-> tmp] BY <1>1, <1>2, <1>10, HeapKeys
  <2>2. /\ tmp \in 2 .. L /\ tmp \div 2 = i /\ i \in 1 .. L /\ i < tmp
        /\ \A j \in 2 .. L : j \div 2 = i => j = tmp \/ KeyLess(h[tmp], h[j])
    BY <1>8, <1>10
  <2>3. /\ g \in Seq(Events) /\ Len(g) = L /\ Distinct(g) /\ SE!ToSet(g) = S
        /\ \A k \in 1 .. L : g[k] = IF k = i THEN h[tmp] ELSE IF k = tmp THEN h[i] ELSE h[k]
    <3>1. h \in Seq(Events) /\ i \in 1 .. Len(h) /\ tmp \in 1 .. Len(h) BY <1>2, <2>2
    <3>2. /\ g \in Seq(Events) /\ Len(g) = Len(h) /\ SE!ToSet(g) = SE!ToSet(h)
          /\ \A k \in 1 .. Len(h) :
               g[k] = IF k = i THEN h[tmp] ELSE IF k = tmp THEN h[i] ELSE h[k]
          /\ Distinct(h) => Distinct(g)
      BY <3>1, ExchElements
    <3> HIDE DEF g
    <3> QED BY <1>2, <3>2
  <2> HIDE DEF g
  <2>4. KeyLess(h[tmp], h[i])
    <3>1. h[tmp] # h[i] BY <2>2, <1>2 DEF Distinct
    <3>2. h[tmp] \in Events /\ h[i] \in Events BY <2>2, <1>7
    <3> QED BY <3>1, <3>2, <1>10, KeyOrder
  <2>5. ~Sunk(at) BY <2>2, <2>4, <1>4
  <2>6. ASSUME NEW j \in 2 .. L, j \div 2 # tmp PROVE ~KeyLess(g[j], g[j \div 2])
    <3> DEFINE q == j \div 2
    <3>1. q \in 1 .. L /\ q < j /\ q # tmp BY <2>6
    <3>2. h[i] \in Events /\ h[tmp] \in Events /\ h[j] \in Events /\ h[q] \in Events
      BY <2>2, <1>7, <3>1
    <3>3. CASE q = i
      <4>1. j # i /\ g[q] = h[tmp] BY <3>1, <3>3, <2>3
      <4>2. CASE j = tmp
        <5>1. g[j] = h[i] BY <4>1, <4>2, <2>3
        <5> QED BY <4>1, <5>1, <2>4, <3>2, KeyOrder
      <4>3. CASE j # tmp
        <5>1. g[j] = h[j] /\ KeyLess(h[tmp], h[j]) BY <4>1, <4>3, <3>3, <2>2, <2>3
        <5> QED BY <4>1, <5>1, <3>2, KeyOrder
      <4> QED BY <4>2, <4>3
    <3>4. CASE q # i
      <4>1. g[q] = h[q] /\ j # tmp BY <3>1, <3>4, <2>2, <2>3
      <4>2. CASE j = i
        <5>1. g[j] = h[tmp] BY <4>2, <2>3
        <5>2. i # 1 BY <4>2
        <5>3. ~KeyLess(h[tmp], h[q]) BY <4>2, <5>2, <1>2, <2>2
        <5> QED BY <4>1, <5>1, <5>3
      <4>3. CASE j # i
        <5>1. g[j] = h[j] BY <4>1, <4>3, <2>3
        <5>2. ~KeyLess(h[j], h[q]) BY <3>4, <1>2
        <5> QED BY <4>1, <5>1, <5>2
      <4> QED BY <4>2, <4>3
    <3> QED BY <3>3, <3>4
  <2>7. ASSUME NEW j \in 2 .. L, j \div 2 = tmp PROVE ~KeyLess(g[j], g[tmp \div 2])
    <3>1. tmp < j BY <2>2, <2>7
    <3>2. g[j] = h[j] /\ g[tmp \div 2] = h[tmp] BY <3>1, <2>2, <2>3
    <3>3. ~KeyLess(h[j], h[tmp]) BY <1>2, <2>2, <2>7
    <3> QED BY <3>2, <3>3
  <2>8. Down([heap |-> g, index |-> tmp], L, S) BY <2>2, <2>3, <2>6, <2>7 DEF Down
  <2>9. [heap |-> g, index |-> tmp] \in [heap : Seq(Events), index : Nat] BY <2>2, <2>3
  <2> QED BY <2>1, <2>2, <2>5, <2>8, <2>9 DEF i
<1> QED BY <1>9, <1>10

LEMMA TopDownOrders ==
  ASSUME NEW h \in Seq(Events), NEW start \in Nat \ {0},
         Down([heap |-> h, index |-> start], Len(h), SE!ToSet(h))
  PROVE  HeapGood(Heap!TopDown(h, start)) /\ SE!ToSet(Heap!TopDown(h, start)) = SE!ToSet(h)
<1> DEFINE L == Len(h)
           S == SE!ToSet(h)
           U == [heap : Seq(Events), index : Nat]
           a == [heap |-> h, index |-> start]
           round[n \in 0 .. L] == IF n = 0 THEN a ELSE Heap!Sink(round[n - 1])
           T == [n \in 0 .. L |-> {at \in U : Down(at, L, S) /\ (Sunk(at) \/ n < at.index)}]
           G == [n \in 1 .. L |-> [at \in U |-> Heap!Sink(at)]]
<1>1. Heap!TopDown(h, start) = round[L].heap BY DEF Heap!TopDown
<1>2. L \in Nat OBVIOUS
<1>3. a \in T[0]
  <2>1. a \in U /\ 0 < a.index OBVIOUS
  <2> QED BY <1>2, <2>1
<1>4. ASSUME NEW n \in 1 .. L, NEW at \in U, at \in T[n - 1]
      PROVE  Heap!Sink(at) \in T[n]
  <2>1. n - 1 \in 0 .. L OBVIOUS
  <2>2. Down(at, L, S) /\ (Sunk(at) \/ n - 1 < at.index) BY <1>4, <2>1
  <2>3. Heap!Sink(at) \in U /\ Down(Heap!Sink(at), L, S) BY <2>2, <1>2, SinkStep
  <2>4. CASE Sunk(at) BY <2>2, <2>4, <1>2, SinkStep
  <2>5. CASE ~Sunk(at)
    <3>1. at.index < Heap!Sink(at).index BY <2>2, <2>5, <1>2, SinkStep
    <3>2. n < Heap!Sink(at).index BY <3>1, <2>2, <2>3, <2>5
    <3> QED BY <3>2, <2>3
  <2> QED BY <2>4, <2>5
<1>5. /\ \A n \in 0 .. L : \A at \in T[n] : at \in U
      /\ \A n \in 1 .. L : \A at \in U : G[n][at] = Heap!Sink(at)
  OBVIOUS
<1>6. PICK f : Loop(f, L, a, G) /\ \A n \in 0 .. L : f[n] \in T[n]
  <2>1. \A n \in 1 .. L : \A at \in T[n - 1] : G[n][at] \in T[n]
    <3> SUFFICES ASSUME NEW n \in 1 .. L, NEW at \in T[n - 1] PROVE G[n][at] \in T[n]
      OBVIOUS
    <3>1. n - 1 \in 0 .. L BY <1>2
    <3>2. at \in U BY <1>5, <3>1
    <3>3. G[n][at] = Heap!Sink(at) BY <3>2, <1>5
    <3> HIDE DEF T, U
    <3> QED BY <3>2, <3>3, <1>4
  <2> HIDE DEF L, a, G, T
  <2> QED BY <2>1, <1>2, <1>3, LoopExists
<1>7. f = [n \in 0 .. L |-> IF n = 0 THEN a ELSE Heap!Sink(f[n - 1])]
  <2>1. \A n \in 0 .. L : f[n] \in U BY <1>5, <1>6
  <2>2. \A n \in 1 .. L : f[n] = Heap!Sink(f[n - 1])
    <3> SUFFICES ASSUME NEW n \in 1 .. L PROVE f[n] = Heap!Sink(f[n - 1]) OBVIOUS
    <3>1. f[n] = G[n][f[n - 1]] BY <1>6 DEF Loop
    <3>2. f[n - 1] \in U
      <4>1. n - 1 \in 0 .. L BY <1>2
      <4> QED BY <2>1, <4>1
    <3> HIDE DEF U, G, T, L
    <3> QED BY <3>1, <3>2, <1>5
  <2>3. f[0] = a /\ f = [n \in 0 .. L |-> f[n]] BY <1>6 DEF Loop
  <2> DEFINE g == [n \in 0 .. L |-> IF n = 0 THEN a ELSE Heap!Sink(f[n - 1])]
  <2>4. g[0] = a /\ \A n \in 1 .. L : g[n] = Heap!Sink(f[n - 1])
    <3> HIDE DEF a, L
    <3> QED BY <1>2
  <2>5. g = [n \in 0 .. L |-> g[n]] OBVIOUS
  <2>6. f = g
    <3> HIDE DEF g, a, L
    <3>1. \A n \in 0 .. L : f[n] = g[n] BY <1>2, <2>2, <2>3, <2>4
    <3> QED BY <2>3, <2>5, <3>1
  <2> QED BY <2>6
<1>8. round = [n \in 0 .. L |-> IF n = 0 THEN a ELSE Heap!Sink(round[n - 1])]
  BY <1>7, Zenon
<1> HIDE DEF round
<1>9. round[0] = a /\ \A n \in 1 .. L : round[n] = Heap!Sink(round[n - 1])
  <2> HIDE DEF a, L
  <2> QED BY <1>2, <1>8
<1>10. \A n \in 0 .. L : round[n] \in T[n]
  <2>1. \A n \in 1 .. L : round[n - 1] \in T[n - 1] => round[n] \in T[n]
    <3> SUFFICES ASSUME NEW n \in 1 .. L, round[n - 1] \in T[n - 1] PROVE round[n] \in T[n]
      OBVIOUS
    <3>1. round[n - 1] \in U
      <4>1. n - 1 \in 0 .. L BY <1>2
      <4> HIDE DEF T, U
      <4> QED BY <1>5, <4>1
    <3> HIDE DEF T, U, a
    <3> QED BY <3>1, <1>4, <1>9
  <2> HIDE DEF T, a, L
  <2> QED BY <2>1, <1>2, <1>3, <1>9, Along
<1>11. LET at == round[L] IN Down(at, L, S) /\ (Sunk(at) \/ L < at.index)
  <2>1. L \in 0 .. L BY <1>2
  <2>2. round[L] \in T[L] BY <1>10, <2>1
  <2> QED BY <2>1, <2>2
<1>12. HeapGood(round[L].heap) /\ SE!ToSet(round[L].heap) = S
  <2> DEFINE at == round[L]
  <2>1. Sunk(at)
    <3>1. CASE L < at.index
      <4>1. \A j \in 2 .. L : j \div 2 # at.index
        <5>1. at.index \in Nat BY <1>11 DEF Down
        <5> QED BY <3>1, <5>1, <1>2
      <4>2. Len(at.heap) = L BY <1>11 DEF Down
      <4> QED BY <4>1, <4>2 DEF Sunk
    <3> QED BY <3>1, <1>11
  <2>2. Down(at, L, S) BY <1>11
  <2> HIDE DEF at, L, S
  <2> QED BY <2>1, <2>2 DEF Down, Sunk, HeapGood, at, S
<1> QED BY <1>1, <1>12

(* The place of the i-th element suits the last one: always at the root,    *)
(* and elsewhere unless the parent is later than it.                        *)
Fits(h, i) == i \in {1, Len(h)} \/ ~KeyLess(h[Len(h)], h[i \div 2])

LEMMA HeapInserted ==
  ASSUME NEW h, HeapGood(h), NEW e \in Events, e \notin SE!ToSet(h)
  PROVE  /\ HeapGood(Heap!Inserted(h, e))
         /\ SE!ToSet(Heap!Inserted(h, e)) = SE!ToSet(h) \cup {e}
<1> DEFINE g == Append(h, e)
<1>1. h \in Seq(Events) /\ Distinct(h) BY DEF HeapGood
<1>2. /\ g \in Seq(Events) /\ Len(g) = Len(h) + 1 /\ g # <<>> /\ Len(h) \in Nat
      /\ \A k \in 1 .. Len(h) : g[k] = h[k]
      /\ g[Len(h) + 1] = e
  BY <1>1
<1> HIDE DEF g
<1>3. \A x : x \in SE!ToSet(h) <=> \E k \in 1 .. Len(h) : x = h[k] BY <1>1, ToSetElements
<1>4. Distinct(g)
  <2> SUFFICES ASSUME NEW i \in 1 .. Len(h) + 1, NEW j \in 1 .. Len(h) + 1, i # j
               PROVE  g[i] # g[j]
    BY <1>2 DEF Distinct
  <2>1. CASE i \in 1 .. Len(h) /\ j \in 1 .. Len(h) BY <2>1, <1>1, <1>2 DEF Distinct
  <2>2. CASE i = Len(h) + 1
    <3>1. j \in 1 .. Len(h) BY <2>2
    <3> QED BY <3>1, <2>2, <1>2, <1>3
  <2>3. CASE j = Len(h) + 1
    <3>1. i \in 1 .. Len(h) BY <2>3
    <3> QED BY <3>1, <2>3, <1>2, <1>3
  <2> QED BY <2>1, <2>2, <2>3
<1>5. SE!ToSet(g) = SE!ToSet(h) \cup {e}
  <2>1. \A x : x \in SE!ToSet(g) <=> \E k \in 1 .. Len(h) + 1 : x = g[k]
    BY <1>2, ToSetElements
  <2>2. \A k \in 1 .. Len(h) + 1 : k \in 1 .. Len(h) \/ k = Len(h) + 1 BY <1>2
  <2>3. \A k \in 1 .. Len(h) : k \in 1 .. Len(h) + 1 BY <1>2
  <2>4. Len(h) + 1 \in 1 .. Len(h) + 1 BY <1>2
  <2> QED BY <2>1, <2>2, <2>3, <2>4, <1>2, <1>3
<1>6. \A j \in 2 .. Len(g) - 1 : ~KeyLess(g[j], g[j \div 2])
  <2> SUFFICES ASSUME NEW j \in 2 .. Len(h) PROVE ~KeyLess(g[j], g[j \div 2]) BY <1>2
  <2>1. g[j] = h[j] /\ g[j \div 2] = h[j \div 2] BY <1>2
  <2> QED BY <2>1 DEF HeapGood
<1>7. Heap!Inserted(h, e) = Heap!BottomUp(g) BY DEF Heap!Inserted, g
<1> QED BY <1>2, <1>4, <1>5, <1>6, <1>7, BottomUpOrders

LEMMA HeapTakenOut ==
  ASSUME NEW h, HeapGood(h), NEW i \in 1 .. Len(h), Fits(h, i)
  PROVE  /\ HeapGood(Heap!TakenOut(h, i))
         /\ SE!ToSet(Heap!TakenOut(h, i)) = SE!ToSet(h) \ {h[i]}
<1> DEFINE g == Heap!SE!Front(Heap!Exch(h, i, Len(h)))
           L == Len(h) - 1
<1>1. /\ h \in Seq(Events) /\ Len(h) \in Nat \ {0} /\ Distinct(h)
      /\ \A j \in 2 .. Len(h) : ~KeyLess(h[j], h[j \div 2])
  BY DEF HeapGood
<1>2. /\ g \in Seq(Events) /\ Len(g) = L /\ L \in Nat
      /\ \A k \in 1 .. L : g[k] = IF k = i THEN h[Len(h)] ELSE h[k]
  <2> DEFINE m == Len(h)
             f == Heap!Exch(h, i, m)
  <2>1. m \in 1 .. Len(h) /\ m = Len(h) BY <1>1
  <2>2. /\ f \in Seq(Events) /\ Len(f) = Len(h)
        /\ \A k \in 1 .. Len(h) :
             f[k] = IF k = i THEN h[Len(h)] ELSE IF k = Len(h) THEN h[i] ELSE h[k]
    <3> HIDE DEF m
    <3>0. h \in Seq(Events) /\ i \in 1 .. Len(h) /\ m \in 1 .. Len(h) BY <1>1, <2>1
    <3>1. /\ f \in Seq(Events) /\ Len(f) = Len(h)
          /\ \A k \in 1 .. Len(h) :
               f[k] = IF k = i THEN h[m] ELSE IF k = m THEN h[i] ELSE h[k]
      BY <3>0, ExchElements
    <3> HIDE DEF f
    <3> QED BY <2>1, <3>1
  <2>3. g = SubSeq(f, 1, Len(f) - 1) BY DEF Heap!SE!Front
  <2> HIDE DEF f, g
  <2>4. /\ g \in Seq(Events) /\ Len(g) = Len(f) - 1
        /\ \A k \in 1 .. Len(f) - 1 : g[k] = f[k]
    BY <1>1, <2>2, <2>3
  <2> QED BY <1>1, <2>2, <2>4
<1>3. Heap!TakenOut(h, i) = Heap!TopDown(g, i) BY DEF Heap!TakenOut
<1> HIDE DEF g
(* g is h without its last place, which the removed element could have. *)
<1> DEFINE from(k) == IF k = i THEN Len(h) ELSE k
<1>4. /\ \A k \in 1 .. L : from(k) \in 1 .. Len(h) /\ g[k] = h[from(k)] /\ from(k) # i
      /\ \A k, l \in 1 .. L : k # l => from(k) # from(l)
      /\ \A m \in 1 .. Len(h) : m # i => \E k \in 1 .. L : from(k) = m
  <2>1. \A k \in 1 .. L : from(k) \in 1 .. Len(h) /\ g[k] = h[from(k)] /\ from(k) # i
    BY <1>1, <1>2
  <2>2. \A k, l \in 1 .. L : k # l => from(k) # from(l) BY <1>1
  <2>3. ASSUME NEW m \in 1 .. Len(h), m # i PROVE \E k \in 1 .. L : from(k) = m
    <3>1. CASE m = Len(h)
      <4>1. i \in 1 .. L /\ from(i) = m BY <3>1, <2>3, <1>1
      <4> QED BY <4>1
    <3>2. CASE m # Len(h)
      <4>1. m \in 1 .. L /\ from(m) = m BY <3>2, <2>3, <1>1
      <4> QED BY <4>1
    <3> QED BY <3>1, <3>2
  <2> QED BY <2>1, <2>2, <2>3
<1>5. \A k \in 1 .. L : k # i => g[k] = h[k] BY <1>2
<1>6. i \in 1 .. L => g[i] = h[Len(h)] BY <1>2
<1> HIDE DEF from
<1>7. Distinct(g)
  <2> SUFFICES ASSUME NEW k \in 1 .. L, NEW l \in 1 .. L, k # l PROVE g[k] # g[l]
    BY <1>2 DEF Distinct
  <2>1. /\ from(k) \in 1 .. Len(h) /\ from(l) \in 1 .. Len(h) /\ from(k) # from(l)
        /\ g[k] = h[from(k)] /\ g[l] = h[from(l)]
    BY <1>4
  <2>2. \A a, b \in 1 .. Len(h) : a # b => h[a] # h[b] BY <1>1 DEF Distinct
  <2> QED BY <2>1, <2>2
<1>8. SE!ToSet(g) = SE!ToSet(h) \ {h[i]}
  <2>1. \A x : x \in SE!ToSet(g) <=> \E k \in 1 .. L : x = g[k] BY <1>2, ToSetElements
  <2>2. \A x : x \in SE!ToSet(h) <=> \E k \in 1 .. Len(h) : x = h[k] BY <1>1, ToSetElements
  <2>3. ASSUME NEW x \in SE!ToSet(g) PROVE x \in SE!ToSet(h) /\ x # h[i]
    <3>1. PICK k \in 1 .. L : x = g[k] BY <2>1
    <3> QED BY <3>1, <2>2, <1>1, <1>4 DEF Distinct
  <2>4. ASSUME NEW x \in SE!ToSet(h), x # h[i] PROVE x \in SE!ToSet(g)
    <3>1. PICK m \in 1 .. Len(h) : x = h[m] BY <2>2
    <3>2. PICK k \in 1 .. L : from(k) = m BY <3>1, <2>4, <1>4
    <3> QED BY <3>1, <3>2, <2>1, <1>4
  <2> QED BY <2>3, <2>4
<1>9. ASSUME NEW j \in 2 .. L, j \div 2 # i PROVE ~KeyLess(g[j], g[j \div 2])
  <2>1. j \div 2 \in 1 .. L /\ g[j \div 2] = h[j \div 2] BY <1>2, <1>5, <1>9
  <2>2. CASE j # i
    <3>1. g[j] = h[j] /\ j \in 2 .. Len(h) BY <2>2, <1>1, <1>2, <1>5
    <3> QED BY <2>1, <3>1, <1>1
  <2>3. CASE j = i
    <3>1. ~KeyLess(h[Len(h)], h[i \div 2]) BY <2>3, <1>1 DEF Fits
    <3>2. g[j] = h[Len(h)] BY <2>3, <1>2, <1>6
    <3> QED BY <2>1, <2>3, <3>1, <3>2
  <2> QED BY <2>2, <2>3
<1>10. ASSUME NEW j \in 2 .. L, j \div 2 = i, i # 1 PROVE ~KeyLess(g[j], g[i \div 2])
  <2> DEFINE q == i \div 2
  <2>1. i < j /\ q \in 1 .. L /\ q < i /\ i \in 2 .. Len(h) /\ j \in 2 .. Len(h)
    BY <1>1, <1>2, <1>10
  <2>2. g[j] = h[j] /\ g[q] = h[q] BY <2>1, <1>2, <1>5
  <2>3. ~KeyLess(h[j], h[i]) /\ ~KeyLess(h[i], h[q]) BY <2>1, <1>1, <1>10
  <2>4. h[j] \in Events /\ h[i] \in Events /\ h[q] \in Events BY <2>1, <1>1, <1>2
  <2>5. ~KeyLess(h[j], h[q])
    <3> HIDE DEF q
    <3> QED BY <2>3, <2>4, KeyOrder
  <2> QED BY <2>2, <2>5
<1>11. Down([heap |-> g, index |-> i], Len(g), SE!ToSet(g))
  <2> DEFINE at == [heap |-> g, index |-> i]
  <2>1. at.heap = g /\ at.index = i OBVIOUS
  <2>2. g \in Seq(Events) /\ Len(g) = L /\ i \in Nat \ {0} BY <1>1, <1>2
  <2> HIDE DEF at
  <2>3. \A j \in 2 .. L : j \div 2 # at.index => ~KeyLess(at.heap[j], at.heap[j \div 2])
    BY <2>1, <1>9
  <2>4. \A j \in 2 .. L : j \div 2 = at.index /\ at.index # 1 =>
          ~KeyLess(at.heap[j], at.heap[at.index \div 2])
    BY <2>1, <1>10
  <2>5. Down(at, Len(g), SE!ToSet(g)) BY <2>1, <2>2, <2>3, <2>4, <1>7 DEF Down
  <2> QED BY <2>5 DEF at
<1>12. HeapGood(Heap!TopDown(g, i)) /\ SE!ToSet(Heap!TopDown(g, i)) = SE!ToSet(g)
  <2>1. g \in Seq(Events) /\ i \in Nat \ {0} BY <1>1, <1>2
  <2> QED BY <2>1, <1>11, TopDownOrders
<1> QED BY <1>3, <1>8, <1>12

LEMMA HeapNextRemoved ==
  ASSUME NEW h, HeapGood(h), h # <<>>
  PROVE  /\ IsEarliest(Heap!PeekNext(h), SE!ToSet(h))
         /\ HeapGood(Heap!NextRemoved(h))
         /\ SE!ToSet(Heap!NextRemoved(h)) = SE!ToSet(h) \ {Heap!PeekNext(h)}
<1>1. 1 \in 1 .. Len(h) /\ IsEarliest(h[1], SE!ToSet(h)) BY RootEarliest
<1>2. Fits(h, 1) BY DEF Fits
<1> QED BY <1>1, <1>2, HeapTakenOut DEF Heap!PeekNext, Heap!NextRemoved

(* With five elements or fewer every place suits the last one. *)
LEMMA SmallHeapFits ==
  ASSUME NEW h, HeapGood(h), Len(h) <= 5, NEW i \in 1 .. Len(h)
  PROVE  Fits(h, i)
<1> SUFFICES ASSUME i # 1, i # Len(h) PROVE ~KeyLess(h[Len(h)], h[i \div 2]) BY DEF Fits
<1>1. h \in Seq(Events) /\ Len(h) \in Nat BY DEF HeapGood
<1>2. CASE i \div 2 = 1
  <2>1. h # <<>> BY <1>1
  <2>2. IsEarliest(h[1], SE!ToSet(h)) BY <2>1, RootEarliest
  <2>3. h[Len(h)] \in SE!ToSet(h) /\ h[Len(h)] \in Events /\ h[1] \in Events
    <3>1. Len(h) \in 1 .. Len(h) /\ 1 \in 1 .. Len(h) BY <1>1
    <3> QED BY <1>1, <3>1, ToSetElements
  <2> QED BY <1>2, <2>2, <2>3, KeyOrder DEF IsEarliest
<1>3. CASE i \div 2 # 1
  <2>1. Len(h) = 5 /\ i = 4
    <3> DEFINE m == Len(h)
    <3>1. m \in Nat /\ m <= 5 /\ i \in Nat /\ 1 <= i /\ i <= m /\ i # m BY <1>1
    <3> HIDE DEF m
    <3>2. i \in {2, 3, 4} BY <3>1
    <3>3. i = 4 BY <3>2, <1>3
    <3>4. m = 5 BY <3>1, <3>3
    <3> QED BY <3>3, <3>4 DEF m
  <2>2. ~KeyLess(h[5], h[5 \div 2]) BY <2>1 DEF HeapGood
  <2>3. 5 \div 2 = 2 /\ i \div 2 = 2 BY <2>1
  <2> QED BY <2>1, <2>2, <2>3
<1> QED BY <1>2, <1>3

-----------------------------------------------------------------------------
(* The list.                                                               *)

ListGood(s) == s \in Seq(Events) /\ InOrder(FALSE, s)

LEMMA ListInserted ==
  ASSUME NEW s, ListGood(s), NEW e \in Events, e \notin SE!ToSet(s)
  PROVE  /\ ListGood(List!Inserted(s, e))
         /\ SE!ToSet(List!Inserted(s, e)) = SE!ToSet(s) \cup {e}
<1> DEFINE P(i) == /\ \A j \in 1 .. i - 1 : ~KeyLess(e, s[j])
                   /\ i <= Len(s) => KeyLess(e, s[i])
           i == List!Place(s, e)
<1>1. s \in Seq(Events) /\ InOrder(FALSE, s) BY DEF ListGood
<1>2. \A k : P(k) <=> Spot(FALSE, s, e, k) BY DEF Spot, Ord
<1>3. i = CHOOSE k \in 1 .. Len(s) + 1 : P(k) BY DEF List!Place, List!KeyLess, KeyLess
<1> HIDE DEF P, i
<1>4. i \in 1 .. Len(s) + 1 /\ Spot(FALSE, s, e, i) BY <1>1, <1>2, <1>3, SpotExists
<1>5. List!Inserted(s, e) = SE!InsertAt(s, i, e)
  BY DEF List!Inserted, List!SE!InsertAt, SE!InsertAt, i
<1>6. /\ SE!InsertAt(s, i, e) \in Seq(Events) /\ InOrder(FALSE, SE!InsertAt(s, i, e))
      /\ SE!ToSet(SE!InsertAt(s, i, e)) = SE!ToSet(s) \cup {e}
  <2>1. \A r : InOrder(r, s) /\ Spot(r, s, e, i) =>
          /\ SE!InsertAt(s, i, e) \in Seq(Events) /\ InOrder(r, SE!InsertAt(s, i, e))
          /\ SE!ToSet(SE!InsertAt(s, i, e)) = SE!ToSet(s) \cup {e}
    BY <1>1, <1>4, InsertInOrder
  <2> QED BY <1>1, <1>4, <2>1
<1> QED BY <1>5, <1>6 DEF ListGood

LEMMA ListTakenOut ==
  ASSUME NEW s, ListGood(s), NEW i \in 1 .. Len(s)
  PROVE  /\ ListGood(SE!RemoveAt(s, i))
         /\ SE!ToSet(SE!RemoveAt(s, i)) = SE!ToSet(s) \ {s[i]}
BY DistinctInOrder, TakeOut DEF ListGood

LEMMA ListNextRemoved ==
  ASSUME NEW s, ListGood(s), s # <<>>
  PROVE  /\ IsEarliest(List!PeekNext(s), SE!ToSet(s))
         /\ ListGood(List!NextRemoved(s))
         /\ SE!ToSet(List!NextRemoved(s)) = SE!ToSet(s) \ {List!PeekNext(s)}
<1>1. s \in Seq(Events) /\ InOrder(FALSE, s) BY DEF ListGood
<1>n. Len(s) \in Nat \ {0} BY <1>1
<1>2. 1 \in 1 .. Len(s) /\ IsEarliest(s[1], SE!ToSet(s))
  <2>1. \A k : k = (IF FALSE THEN Len(s) ELSE 1) => IsEarliest(s[k], SE!ToSet(s))
    BY <1>1, FrontIsEarliest
  <2> QED BY <1>n, <2>1
<1>3. List!PeekNext(s) = s[1] BY <1>1, <1>n DEF List!PeekNext
<1>4. List!NextRemoved(s) = SE!RemoveAt(s, 1)
  <2> DEFINE t == SE!RemoveAt(s, 1)
             u == Tail(s)
  <2>1. t \in Seq(Events) /\ Len(t) = Len(s) - 1 /\ \A k \in 1 .. Len(s) - 1 : t[k] = s[k + 1]
    BY <1>1, <1>n, RemoveAtElements
  <2>2. u \in Seq(Events) /\ Len(u) = Len(s) - 1 /\ \A k \in 1 .. Len(s) - 1 : u[k] = s[k + 1]
    BY <1>1, <1>n
  <2> HIDE DEF t, u
  <2>3. t = u
    <3>1. Len(t) = Len(u) /\ \A k \in 1 .. Len(t) : t[k] = u[k] BY <2>1, <2>2
    <3> QED BY <2>1, <2>2, <3>1, SeqEqual
  <2> QED BY <2>3 DEF t, u, List!NextRemoved
<1> QED BY <1>2, <1>3, <1>4, ListTakenOut

-----------------------------------------------------------------------------
(* Slots of a calendar.                                                    *)

LEMMA SlotBounds ==
  ASSUME NEW w \in Nat \ {0}, NEW t \in Nat
  PROVE  /\ t \div w \in Nat
         /\ (t \div w) * w <= t
         /\ t < (t \div w + 1) * w
OBVIOUS

LEMMA SlotOrder ==
  ASSUME NEW w \in Nat \ {0}, NEW t \in Nat, NEW q \in Nat
  PROVE  t < (q + 1) * w <=> t \div w <= q
<1> DEFINE p == t \div w
<1>1. p \in Nat /\ p * w <= t /\ t < (p + 1) * w BY SlotBounds
<1> HIDE DEF p
<1>2. ASSUME p <= q PROVE (p + 1) * w <= (q + 1) * w BY <1>1, <1>2
<1>3. ASSUME q + 1 <= p PROVE (q + 1) * w <= p * w BY <1>1, <1>3
<1> QED BY <1>1, <1>2, <1>3 DEF p

LEMMA SlotMonotonic ==
  ASSUME NEW w \in Nat \ {0}, NEW t \in Nat, NEW u \in Nat, t <= u
  PROVE  t \div w <= u \div w
<1>1. u \div w \in Nat /\ u < (u \div w + 1) * w BY SlotBounds
<1> DEFINE q == u \div w
           b == (q + 1) * w
<1>2. q \in Nat /\ b \in Nat /\ u < b BY <1>1
<1> HIDE DEF b
<1>3. t < b BY <1>2
<1> HIDE DEF q
<1>4. t \div w <= q BY <1>2, <1>3, SlotOrder DEF b
<1> QED BY <1>4 DEF q

(* Quotient and remainder. *)
LEMMA Division ==
  ASSUME NEW n \in Nat \ {0}, NEW a \in Nat
  PROVE  /\ a \div n \in Nat /\ a % n \in 0 .. n - 1
         /\ a = (a \div n) * n + (a % n)
OBVIOUS

LEMMA Remainder ==
  ASSUME NEW n \in Nat \ {0}, NEW x \in Nat, NEW r \in 0 .. n - 1
  PROVE  (x * n + r) % n = r
<1> DEFINE a == x * n + r
           q == a \div n
           s == a % n
<1>1. a \in Nat OBVIOUS
<1>2. q \in Nat /\ s \in 0 .. n - 1 /\ a = q * n + s
  <2> HIDE DEF a
  <2> QED BY <1>1, Division
<1>3. x * n + r = q * n + s BY <1>2
<1> HIDE DEF q, s
<1>4. ASSUME q < x PROVE FALSE
  <2>1. (q + 1) * n <= x * n BY <1>2, <1>4
  <2> QED BY <1>2, <1>3, <2>1
<1>5. ASSUME x < q PROVE FALSE
  <2>1. (x + 1) * n <= q * n BY <1>2, <1>5
  <2> QED BY <1>2, <1>3, <2>1
<1>6. x = q BY <1>2, <1>4, <1>5
<1>7. s = r BY <1>2, <1>3, <1>6
<1> QED BY <1>7 DEF s

(* The buckets of consecutive slots. *)
LEMMA BucketOf ==
  ASSUME NEW n \in Nat \ {0}, NEW p \in Nat, NEW k \in Nat
  PROVE  p % n \in 0 .. n - 1 /\ ((p % n) + k) % n = (p + k) % n
<1> DEFINE x == p \div n
           r == p % n
           b == r + k
           y == b \div n
           u == b % n
<1>1. x \in Nat /\ r \in 0 .. n - 1 /\ p = x * n + r BY Division
<1> HIDE DEF x, r
<1>2. b \in Nat BY <1>1
<1>3. y \in Nat /\ u \in 0 .. n - 1 /\ b = y * n + u
  <2> HIDE DEF b
  <2> QED BY <1>2, Division
<1>u. b % n = u OBVIOUS
<1>b. b = r + k OBVIOUS
<1> HIDE DEF b, y, u
<1>4. x + y \in Nat BY <1>1, <1>3
<1>5. p + k = (x + y) * n + u BY <1>1, <1>3, <1>b
<1>6. ((x + y) * n + u) % n = u BY <1>3, <1>4, Remainder
<1>7. (r + k) % n = (p + k) % n BY <1>5, <1>6, <1>u, <1>b
<1> QED BY <1>1, <1>7 DEF r

(* Slots less than a year apart that share a bucket are the same. *)
LEMMA SameSlot ==
  ASSUME NEW n \in Nat \ {0}, NEW p \in Nat, NEW q \in Nat, q <= p, p < q + n,
         p % n = q % n
  PROVE  p = q
<1> DEFINE x == p \div n
           r == p % n
           y == q \div n
<1>1. x \in Nat /\ r \in 0 .. n - 1 /\ p = x * n + r BY Division
<1>2. y \in Nat /\ q = y * n + r BY Division
<1> HIDE DEF x, y, r
<1>3. ASSUME y < x PROVE FALSE
  <2>1. (y + 1) * n <= x * n BY <1>1, <1>2, <1>3
  <2> QED BY <1>1, <1>2, <2>1
<1>4. ASSUME x < y PROVE FALSE
  <2>1. (x + 1) * n <= y * n BY <1>1, <1>2, <1>4
  <2> QED BY <1>1, <1>2, <2>1
<1>5. x = y BY <1>1, <1>2, <1>3, <1>4
<1> QED BY <1>1, <1>2, <1>5

(* Every bucket is that of a slot of the year that begins with slot p. *)
LEMMA BucketVisited ==
  ASSUME NEW n \in Nat \ {0}, NEW p \in Nat, NEW b \in 0 .. n - 1
  PROVE  \E k \in 0 .. n - 1 : (p + k) % n = b
<1> DEFINE r == p % n
           k == IF r <= b THEN b - r ELSE b - r + n
<1>1. r \in 0 .. n - 1 BY BucketOf
<1>r. r = p % n OBVIOUS
<1> HIDE DEF r
<1>2. k \in 0 .. n - 1 BY <1>1
<1>3. k \in Nat BY <1>2
<1>4. (r + k) % n = (p + k) % n
  <2> HIDE DEF k
  <2> QED BY <1>3, <1>r, BucketOf
<1>5. (r + k) % n = b
  <2>1. CASE r <= b
    <3>1. r + k = b BY <1>1, <2>1
    <3>2. (0 * n + b) % n = b BY Remainder
    <3>3. 0 * n + b = b OBVIOUS
    <3> HIDE DEF k
    <3> QED BY <3>1, <3>2, <3>3
  <2>2. CASE ~(r <= b)
    <3>1. r + k = 1 * n + b BY <1>1, <2>2
    <3>2. (1 * n + b) % n = b BY Remainder
    <3> HIDE DEF k
    <3> QED BY <3>1, <3>2
  <2> QED BY <2>1, <2>2
<1> HIDE DEF k
<1> QED BY <1>2, <1>4, <1>5

-----------------------------------------------------------------------------
(* The calendar: its members, and the buckets in order.                    *)

Cals ==
  UNION {[m_buckets : [0 .. n - 1 -> Seq(Events)], m_nBuckets : {n}, m_width : Nat \ {0},
          m_lastPrio : Nat, m_lastBucket : Nat, m_bucketTop : Nat, m_qSize : Int,
          m_reverse : BOOLEAN] : n \in Nat \ {0}}

(* c and d differ in their buckets at most *)
Same(c, d) ==
  /\ d.m_nBuckets = c.m_nBuckets /\ d.m_width = c.m_width
  /\ d.m_lastPrio = c.m_lastPrio /\ d.m_lastBucket = c.m_lastBucket
  /\ d.m_bucketTop = c.m_bucketTop /\ d.m_qSize = c.m_qSize
  /\ d.m_reverse = c.m_reverse

Shape(c) ==
  /\ c \in Cals
  /\ \A b \in 0 .. c.m_nBuckets - 1 :
       /\ InOrder(c.m_reverse, c.m_buckets[b])
       /\ \A e \in SE!ToSet(c.m_buckets[b]) : Cal!Hash(c, e.ts) = b

LEMMA CalMembers ==
  ASSUME NEW c \in Cals
  PROVE  /\ c.m_nBuckets \in Nat \ {0} /\ c.m_width \in Nat \ {0}
         /\ c.m_lastPrio \in Nat /\ c.m_lastBucket \in Nat /\ c.m_bucketTop \in Nat
         /\ c.m_qSize \in Int /\ c.m_reverse \in BOOLEAN
         /\ c.m_buckets \in [0 .. c.m_nBuckets - 1 -> Seq(Events)]
BY DEF Cals

(* Cals is closed under changes of the buckets, the position and m_qSize. *)
LEMMA CalChanged ==
  ASSUME NEW c \in Cals, NEW b \in 0 .. c.m_nBuckets - 1, NEW s \in Seq(Events),
         NEW p \in Nat, NEW l \in Nat, NEW t \in Nat, NEW q \in Int
  PROVE  [c EXCEPT !.m_buckets[b] = s, !.m_lastPrio = p, !.m_lastBucket = l,
                   !.m_bucketTop = t, !.m_qSize = q] \in Cals
<1>1. PICK n \in Nat \ {0} :
        c \in [m_buckets : [0 .. n - 1 -> Seq(Events)], m_nBuckets : {n}, m_width : Nat \ {0},
          m_lastPrio : Nat, m_lastBucket : Nat, m_bucketTop : Nat, m_qSize : Int,
          m_reverse : BOOLEAN]
  BY DEF Cals
<1>2. [c EXCEPT !.m_buckets[b] = s, !.m_lastPrio = p, !.m_lastBucket = l,
                !.m_bucketTop = t, !.m_qSize = q] \in
        [m_buckets : [0 .. n - 1 -> Seq(Events)], m_nBuckets : {n}, m_width : Nat \ {0},
          m_lastPrio : Nat, m_lastBucket : Nat, m_bucketTop : Nat, m_qSize : Int,
          m_reverse : BOOLEAN]
  BY <1>1
<1> QED BY <1>2 DEF Cals

LEMMA HashBucket ==
  ASSUME NEW c \in Cals, NEW t \in Nat
  PROVE  Cal!Hash(c, t) \in 0 .. c.m_nBuckets - 1
<1>1. c.m_nBuckets \in Nat \ {0} /\ c.m_width \in Nat \ {0} BY CalMembers
<1>2. t \div c.m_width \in Nat BY <1>1, SlotBounds
<1> QED BY <1>1, <1>2, Division DEF Cal!Hash

LEMMA HeldElements ==
  ASSUME NEW c \in Cals
  PROVE  /\ \A e : e \in Cal!Held(c) <=>
                     \E b \in 0 .. c.m_nBuckets - 1 : e \in SE!ToSet(c.m_buckets[b])
         /\ Cal!Held(c) \subseteq Events
<1>1. c.m_buckets \in [0 .. c.m_nBuckets - 1 -> Seq(Events)] BY CalMembers
<1>2. DOMAIN c.m_buckets = 0 .. c.m_nBuckets - 1 BY <1>1
<1>3. Cal!Held(c) = UNION {SE!ToSet(c.m_buckets[b]) : b \in 0 .. c.m_nBuckets - 1}
  BY <1>2 DEF Cal!Held, Cal!SE!ToSet, SE!ToSet
<1>4. \A b \in 0 .. c.m_nBuckets - 1 : SE!ToSet(c.m_buckets[b]) \subseteq Events
  BY <1>1, ToSetElements
<1> QED BY <1>3, <1>4

(* Another bucket b leaves the events of the others where they are. *)
LEMMA BucketChanged ==
  ASSUME NEW c, Shape(c), NEW b \in 0 .. c.m_nBuckets - 1,
         NEW s \in Seq(Events), InOrder(c.m_reverse, s),
         \A e \in SE!ToSet(s) : Cal!Hash(c, e.ts) = b,
         NEW d \in Cals, d.m_buckets = [c.m_buckets EXCEPT ![b] = s],
         d.m_nBuckets = c.m_nBuckets, d.m_width = c.m_width, d.m_reverse = c.m_reverse
  PROVE  /\ Shape(d)
         /\ Cal!Held(d) = (Cal!Held(c) \ SE!ToSet(c.m_buckets[b])) \cup SE!ToSet(s)
<1>1. c \in Cals BY DEF Shape
<1>2. c.m_buckets \in [0 .. c.m_nBuckets - 1 -> Seq(Events)] BY <1>1, CalMembers
<1>3. /\ d.m_buckets[b] = s
      /\ \A a \in 0 .. c.m_nBuckets - 1 : a # b => d.m_buckets[a] = c.m_buckets[a]
  BY <1>2
<1>4. \A t : Cal!Hash(d, t) = Cal!Hash(c, t) BY DEF Cal!Hash
<1>5. Shape(d)
  <2> SUFFICES ASSUME NEW a \in 0 .. c.m_nBuckets - 1
               PROVE  /\ InOrder(c.m_reverse, d.m_buckets[a])
                      /\ \A e \in SE!ToSet(d.m_buckets[a]) : Cal!Hash(c, e.ts) = a
    BY <1>4 DEF Shape
  <2>1. CASE a = b BY <2>1, <1>3
  <2>2. CASE a # b BY <2>2, <1>3 DEF Shape
  <2> QED BY <2>1, <2>2
<1>6. ASSUME NEW e
      PROVE  e \in Cal!Held(d) <=>
               e \in (Cal!Held(c) \ SE!ToSet(c.m_buckets[b])) \cup SE!ToSet(s)
  <2>1. e \in Cal!Held(d) <=>
          \E a \in 0 .. c.m_nBuckets - 1 : e \in SE!ToSet(d.m_buckets[a])
    BY HeldElements
  <2>2. e \in Cal!Held(c) <=>
          \E a \in 0 .. c.m_nBuckets - 1 : e \in SE!ToSet(c.m_buckets[a])
    BY <1>1, HeldElements
  <2>3. \A a \in 0 .. c.m_nBuckets - 1 :
          e \in SE!ToSet(c.m_buckets[a]) => Cal!Hash(c, e.ts) = a
    BY DEF Shape
  <2>4. ASSUME NEW a \in 0 .. c.m_nBuckets - 1, e \in SE!ToSet(c.m_buckets[a]), a # b
        PROVE  e \notin SE!ToSet(c.m_buckets[b])
    BY <2>3, <2>4
  <2> QED BY <2>1, <2>2, <2>4, <1>3
<1> QED BY <1>5, <1>6

(* DoInsert and DoInsertAll add events to the buckets. *)
LEMMA CalDoInsert ==
  ASSUME NEW c, Shape(c), NEW e \in Events, e \notin Cal!Held(c)
  PROVE  /\ Shape(Cal!DoInsert(c, e)) /\ Same(c, Cal!DoInsert(c, e))
         /\ Cal!Held(Cal!DoInsert(c, e)) = Cal!Held(c) \cup {e}
<1> DEFINE b == Cal!Hash(c, e.ts)
           s == c.m_buckets[b]
           i == Cal!Place(c, s, e)
           t == SE!InsertAt(s, i, e)
           d == Cal!DoInsert(c, e)
<1>1. c \in Cals BY DEF Shape
<1>2. /\ c.m_buckets \in [0 .. c.m_nBuckets - 1 -> Seq(Events)]
      /\ c.m_lastPrio \in Nat /\ c.m_lastBucket \in Nat /\ c.m_bucketTop \in Nat
      /\ c.m_qSize \in Int
  BY <1>1, CalMembers
<1>3. e.ts \in Nat BY KeyTime
<1>4. b \in 0 .. c.m_nBuckets - 1 BY <1>1, <1>3, HashBucket
<1>5. s \in Seq(Events) /\ InOrder(c.m_reverse, s) BY <1>2, <1>4 DEF Shape
<1>6. i = CHOOSE k \in 1 .. Len(s) + 1 : Spot(c.m_reverse, s, e, k)
  BY DEF Cal!Place, Cal!Order, Cal!KeyLess, Spot, Ord, KeyLess
<1>7. e \notin SE!ToSet(s) BY <1>1, <1>4, HeldElements
<1>8. d = [c EXCEPT !.m_buckets[b] = t]
  BY DEF Cal!DoInsert, Cal!SE!InsertAt, SE!InsertAt
<1> HIDE DEF b, s, i, d
<1>9. i \in 1 .. Len(s) + 1 /\ Spot(c.m_reverse, s, e, i) BY <1>5, <1>6, SpotExists
<1>10. t \in Seq(Events) /\ InOrder(c.m_reverse, t) /\ SE!ToSet(t) = SE!ToSet(s) \cup {e}
  BY <1>5, <1>7, <1>9, InsertInOrder
<1> HIDE DEF t
<1>11. d = [c EXCEPT !.m_buckets[b] = t, !.m_lastPrio = c.m_lastPrio,
              !.m_lastBucket = c.m_lastBucket, !.m_bucketTop = c.m_bucketTop,
              !.m_qSize = c.m_qSize]
  BY <1>1, <1>8 DEF Cals
<1>12. d \in Cals BY <1>1, <1>2, <1>4, <1>10, <1>11, CalChanged
<1>13. Same(c, d) /\ d.m_buckets = [c.m_buckets EXCEPT ![b] = t]
  BY <1>1, <1>8 DEF Cals, Same
<1>14. \A f \in SE!ToSet(t) : Cal!Hash(c, f.ts) = b
  <2>1. Cal!Hash(c, e.ts) = b BY DEF b
  <2>2. \A f \in SE!ToSet(s) : Cal!Hash(c, f.ts) = b BY <1>4 DEF Shape, s
  <2> QED BY <2>1, <2>2, <1>10
<1>15. /\ Shape(d)
       /\ Cal!Held(d) = (Cal!Held(c) \ SE!ToSet(c.m_buckets[b])) \cup SE!ToSet(t)
  BY <1>4, <1>10, <1>12, <1>13, <1>14, BucketChanged DEF Same
<1>16. SE!ToSet(s) \subseteq Cal!Held(c) /\ s = c.m_buckets[b]
  BY <1>1, <1>4, HeldElements DEF s
<1>17. Cal!Held(d) = Cal!Held(c) \cup {e} BY <1>10, <1>15, <1>16
<1> QED BY <1>13, <1>15, <1>17 DEF d

LEMMA CalDoInsertAll ==
  ASSUME NEW c, Shape(c), NEW s \in Seq(Events), Distinct(s),
         \A e \in SE!ToSet(s) : e \notin Cal!Held(c)
  PROVE  /\ Shape(Cal!DoInsertAll(c, s)) /\ Same(c, Cal!DoInsertAll(c, s))
         /\ Cal!Held(Cal!DoInsertAll(c, s)) = Cal!Held(c) \cup SE!ToSet(s)
<1> DEFINE L == Len(s)
           U == Cals
           a == c
           round[n \in 0 .. L] == IF n = 0 THEN a ELSE Cal!DoInsert(round[n - 1], s[n])
           T == [n \in 0 .. L |->
                   {d \in U : /\ Shape(d) /\ Same(c, d)
                              /\ Cal!Held(d) = Cal!Held(c) \cup {s[i] : i \in 1 .. n}}]
           G == [n \in 1 .. L |-> [d \in U |-> Cal!DoInsert(d, s[n])]]
<1>1. Cal!DoInsertAll(c, s) = round[L] BY DEF Cal!DoInsertAll
<1>2. L \in Nat OBVIOUS
<1>s. \A x : x \in SE!ToSet(s) <=> \E i \in 1 .. L : x = s[i] BY ToSetElements
<1>3. a \in T[0]
  <2>1. c \in Cals /\ Same(c, c) BY DEF Shape, Same
  <2>2. {s[i] : i \in 1 .. 0} = {} OBVIOUS
  <2> QED BY <1>2, <2>1, <2>2
<1>4. ASSUME NEW n \in 1 .. L, NEW d \in U, d \in T[n - 1]
      PROVE  Cal!DoInsert(d, s[n]) \in T[n]
  <2> DEFINE g == Cal!DoInsert(d, s[n])
  <2>1. n - 1 \in 0 .. L /\ n \in 0 .. L OBVIOUS
  <2>2. /\ Shape(d) /\ Same(c, d)
        /\ Cal!Held(d) = Cal!Held(c) \cup {s[i] : i \in 1 .. n - 1}
    BY <1>4, <2>1
  <2>3. s[n] \in Events /\ s[n] \notin Cal!Held(c) BY <1>s
  <2>4. \A i \in 1 .. n - 1 : s[i] # s[n] BY DEF Distinct
  <2>5. s[n] \notin Cal!Held(d) BY <2>2, <2>3, <2>4
  <2>6. Shape(g) /\ Same(d, g) /\ Cal!Held(g) = Cal!Held(d) \cup {s[n]}
    BY <2>2, <2>3, <2>5, CalDoInsert
  <2> HIDE DEF g
  <2>7. Same(c, g) BY <2>2, <2>6 DEF Same
  <2>8. {s[i] : i \in 1 .. n} = {s[i] : i \in 1 .. n - 1} \cup {s[n]}
    <3>1. \A i \in 1 .. n : i \in 1 .. n - 1 \/ i = n OBVIOUS
    <3>2. \A i \in 1 .. n - 1 : i \in 1 .. n OBVIOUS
    <3>3. n \in 1 .. n OBVIOUS
    <3> QED BY <3>1, <3>2, <3>3
  <2>9. Cal!Held(g) = Cal!Held(c) \cup {s[i] : i \in 1 .. n} BY <2>2, <2>6, <2>8
  <2>10. g \in Cals BY <2>6 DEF Shape
  <2>11. g \in T[n] BY <2>1, <2>6, <2>7, <2>9, <2>10
  <2> QED BY <2>11 DEF g
<1>5. /\ \A n \in 0 .. L : \A d \in T[n] : d \in U
      /\ \A n \in 1 .. L : \A d \in U : G[n][d] = Cal!DoInsert(d, s[n])
  OBVIOUS
<1>6. PICK f : Loop(f, L, a, G) /\ \A n \in 0 .. L : f[n] \in T[n]
  <2>1. \A n \in 1 .. L : \A d \in T[n - 1] : G[n][d] \in T[n]
    <3> SUFFICES ASSUME NEW n \in 1 .. L, NEW d \in T[n - 1] PROVE G[n][d] \in T[n]
      OBVIOUS
    <3>1. n - 1 \in 0 .. L BY <1>2
    <3>2. d \in U BY <1>5, <3>1
    <3>3. G[n][d] = Cal!DoInsert(d, s[n]) BY <3>2, <1>5
    <3> HIDE DEF T, U
    <3> QED BY <3>2, <3>3, <1>4
  <2> HIDE DEF L, a, G, T
  <2> QED BY <2>1, <1>2, <1>3, LoopExists
<1>7. f = [n \in 0 .. L |-> IF n = 0 THEN a ELSE Cal!DoInsert(f[n - 1], s[n])]
  <2>1. \A n \in 0 .. L : f[n] \in U BY <1>5, <1>6
  <2>2. \A n \in 1 .. L : f[n] = Cal!DoInsert(f[n - 1], s[n])
    <3> SUFFICES ASSUME NEW n \in 1 .. L PROVE f[n] = Cal!DoInsert(f[n - 1], s[n]) OBVIOUS
    <3>1. f[n] = G[n][f[n - 1]] BY <1>6 DEF Loop
    <3>2. f[n - 1] \in U
      <4>1. n - 1 \in 0 .. L BY <1>2
      <4> QED BY <2>1, <4>1
    <3> HIDE DEF U, G, T, L
    <3> QED BY <3>1, <3>2, <1>5
  <2>3. f[0] = a /\ f = [n \in 0 .. L |-> f[n]] BY <1>6 DEF Loop
  <2> DEFINE g == [n \in 0 .. L |-> IF n = 0 THEN a ELSE Cal!DoInsert(f[n - 1], s[n])]
  <2>4. g[0] = a /\ \A n \in 1 .. L : g[n] = Cal!DoInsert(f[n - 1], s[n])
    <3> HIDE DEF a, L
    <3> QED BY <1>2
  <2>5. g = [n \in 0 .. L |-> g[n]] OBVIOUS
  <2>6. f = g
    <3> HIDE DEF g, a, L
    <3>1. f[0] = g[0] /\ \A n \in 1 .. L : f[n] = g[n] BY <2>2, <2>3, <2>4
    <3>2. \A n \in 0 .. L : n = 0 \/ n \in 1 .. L BY <1>2
    <3>3. \A n \in 0 .. L : f[n] = g[n] BY <3>1, <3>2
    <3> QED BY <2>3, <2>5, <3>3
  <2> QED BY <2>6
<1>8. round = [n \in 0 .. L |-> IF n = 0 THEN a ELSE Cal!DoInsert(round[n - 1], s[n])]
  BY <1>7, Zenon
<1> HIDE DEF round
<1>9. round[0] = a /\ \A n \in 1 .. L : round[n] = Cal!DoInsert(round[n - 1], s[n])
  <2> HIDE DEF a, L
  <2> QED BY <1>2, <1>8
<1>10. \A n \in 0 .. L : round[n] \in T[n]
  <2>1. \A n \in 1 .. L : round[n - 1] \in T[n - 1] => round[n] \in T[n]
    <3> SUFFICES ASSUME NEW n \in 1 .. L, round[n - 1] \in T[n - 1] PROVE round[n] \in T[n]
      OBVIOUS
    <3>1. round[n - 1] \in U
      <4>1. n - 1 \in 0 .. L BY <1>2
      <4> HIDE DEF T, U
      <4> QED BY <1>5, <4>1
    <3> HIDE DEF T, U, a
    <3> QED BY <3>1, <1>4, <1>9
  <2> HIDE DEF T, a, L
  <2> QED BY <2>1, <1>2, <1>3, <1>9, Along
<1>11. /\ Shape(round[L]) /\ Same(c, round[L])
       /\ Cal!Held(round[L]) = Cal!Held(c) \cup {s[i] : i \in 1 .. L}
  <2>1. L \in 0 .. L BY <1>2
  <2>2. round[L] \in T[L] BY <1>10, <2>1
  <2> HIDE DEF L
  <2> QED BY <2>1, <2>2
<1>12. {s[i] : i \in 1 .. L} = SE!ToSet(s) BY <1>s
<1> QED BY <1>1, <1>11, <1>12


-----------------------------------------------------------------------------
(* The search for the next event of the calendar.                          *)

Position(c) ==
  /\ c.m_lastBucket = (c.m_lastPrio \div c.m_width) % c.m_nBuckets
  /\ c.m_bucketTop = (c.m_lastPrio \div c.m_width + 1) * c.m_width
  /\ \A e \in Cal!Held(c) : c.m_lastPrio <= e.ts

(* The k-th visit is to the bucket of the k-th slot after that of m_lastPrio, *)
(* with the end of that slot.                                               *)
LEMMA VisitOf ==
  ASSUME NEW c, Shape(c), Position(c), NEW p, p = c.m_lastPrio \div c.m_width, NEW k \in Nat
  PROVE  /\ p \in Nat
         /\ Cal!Visited(c, k) = (p + k) % c.m_nBuckets
         /\ Cal!Visited(c, k) \in 0 .. c.m_nBuckets - 1
         /\ Cal!Top(c, k) = (p + k + 1) * c.m_width
<1> DEFINE n == c.m_nBuckets
           w == c.m_width
<1>1. c \in Cals BY DEF Shape
<1>2. n \in Nat \ {0} /\ w \in Nat \ {0} /\ c.m_lastPrio \in Nat BY <1>1, CalMembers
<1>3. p \in Nat BY <1>2, SlotBounds
<1>4. c.m_lastBucket = p % n /\ c.m_bucketTop = (p + 1) * w BY DEF Position
<1>5. Cal!Visited(c, k) = ((p % n) + k) % n /\ Cal!Top(c, k) = (p + 1) * w + k * w
  BY <1>4 DEF Cal!Visited, Cal!Top
<1> HIDE DEF n, w
<1>6. ((p % n) + k) % n = (p + k) % n BY <1>2, <1>3, BucketOf
<1>7. (p + k) % n \in 0 .. n - 1
  <2>1. p + k \in Nat BY <1>3
  <2> QED BY <1>2, <2>1, Division
<1>8. (p + 1) * w + k * w = (p + k + 1) * w BY <1>2, <1>3
<1> QED BY <1>3, <1>5, <1>6, <1>7, <1>8 DEF n, w

(* The next event of a bucket is its earliest. *)
LEMMA HeadOf ==
  ASSUME NEW c, Shape(c), NEW b \in 0 .. c.m_nBuckets - 1, c.m_buckets[b] # <<>>
  PROVE  /\ Cal!Front(c, b) \in 1 .. Len(c.m_buckets[b])
         /\ Cal!NextEvent(c, b) = c.m_buckets[b][Cal!Front(c, b)]
         /\ IsEarliest(Cal!NextEvent(c, b), SE!ToSet(c.m_buckets[b]))
         /\ Cal!NextEvent(c, b) \in Cal!Held(c)
<1> DEFINE s == c.m_buckets[b]
           k == Cal!Front(c, b)
           r == c.m_reverse
<1>1. c \in Cals BY DEF Shape
<1>2. c.m_buckets \in [0 .. c.m_nBuckets - 1 -> Seq(Events)] BY <1>1, CalMembers
<1>3. s \in Seq(Events) /\ InOrder(r, s) /\ s # <<>> BY <1>2 DEF Shape
<1>4. k = IF r THEN Len(s) ELSE 1 BY DEF Cal!Front
<1>5. Cal!NextEvent(c, b) = s[k] BY DEF Cal!NextEvent
<1>6. k \in 1 .. Len(s) /\ IsEarliest(s[k], SE!ToSet(s))
  <2> HIDE DEF s, k, r
  <2> QED BY <1>3, <1>4, FrontIsEarliest
<1>7. s[k] \in SE!ToSet(s) BY <1>6 DEF IsEarliest
<1>8. s[k] \in Cal!Held(c) BY <1>1, <1>7, HeldElements
<1> QED BY <1>5, <1>6, <1>8

(* Every event is in the bucket of its slot, and that slot is not before    *)
(* the one of m_lastPrio.                                                   *)
LEMMA SlotOf ==
  ASSUME NEW c, Shape(c), Position(c), NEW e \in Cal!Held(c),
         NEW p, p = c.m_lastPrio \div c.m_width, NEW q, q = e.ts \div c.m_width
  PROVE  /\ e \in Events /\ e.ts \in Nat /\ p \in Nat /\ q \in Nat /\ p <= q
         /\ q % c.m_nBuckets \in 0 .. c.m_nBuckets - 1
         /\ e \in SE!ToSet(c.m_buckets[q % c.m_nBuckets])
         /\ c.m_buckets[q % c.m_nBuckets] # <<>>
<1>1. c \in Cals BY DEF Shape
<1>2. e \in Events /\ e.ts \in Nat
  <2>1. e \in Events BY <1>1, HeldElements
  <2> QED BY <2>1, KeyTime
<1>3. c.m_width \in Nat \ {0} /\ c.m_lastPrio \in Nat BY <1>1, CalMembers
<1>4. p \in Nat /\ q \in Nat BY <1>2, <1>3, SlotBounds
<1>5. p <= q
  <2>1. c.m_lastPrio <= e.ts BY DEF Position
  <2> QED BY <1>2, <1>3, <2>1, SlotMonotonic
<1>6. PICK b \in 0 .. c.m_nBuckets - 1 : e \in SE!ToSet(c.m_buckets[b])
  BY <1>1, HeldElements
<1>7. b = q % c.m_nBuckets
  <2>1. Cal!Hash(c, e.ts) = b BY <1>6 DEF Shape
  <2> QED BY <2>1 DEF Cal!Hash
<1>8. c.m_buckets[b] # <<>>
  <2>1. c.m_buckets[b] \in Seq(Events) BY <1>1, CalMembers
  <2> QED BY <1>6, <2>1, ToSetElements
<1> QED BY <1>2, <1>4, <1>5, <1>6, <1>7, <1>8

(* A visit finds an event of the current year when that event is of the     *)
(* very slot visited.                                                       *)
LEMMA YearOf ==
  ASSUME NEW c, Shape(c), Position(c), NEW p, p = c.m_lastPrio \div c.m_width,
         NEW k \in Cal!InYear(c)
  PROVE  /\ k \in 0 .. c.m_nBuckets - 1
         /\ c.m_buckets[Cal!Visited(c, k)] # <<>>
         /\ Cal!NextEvent(c, Cal!Visited(c, k)) \in Cal!Held(c)
         /\ Cal!NextEvent(c, Cal!Visited(c, k)).ts \div c.m_width = p + k
<1> DEFINE b == Cal!Visited(c, k)
           e == Cal!NextEvent(c, b)
           n == c.m_nBuckets
           w == c.m_width
           q == e.ts \div w
<1>1. k \in 0 .. n - 1 /\ c.m_buckets[b] # <<>> /\ e.ts < Cal!Top(c, k)
  BY DEF Cal!InYear, Cal!Visits
<1>2. c \in Cals BY DEF Shape
<1>3. n \in Nat \ {0} /\ w \in Nat \ {0} BY <1>2, CalMembers
<1>4. k \in Nat BY <1>1, <1>3
<1>5. b = (p + k) % n /\ b \in 0 .. n - 1 /\ p \in Nat /\ Cal!Top(c, k) = (p + k + 1) * w
  BY <1>4, VisitOf
<1> HIDE DEF b
<1>6. e \in Cal!Held(c) /\ e \in SE!ToSet(c.m_buckets[b])
  BY <1>1, <1>5, HeadOf DEF IsEarliest
<1>t. q = e.ts \div w /\ n = c.m_nBuckets /\ w = c.m_width OBVIOUS
<1> HIDE DEF e, n, w, q
<1>7. e.ts \in Nat /\ q \in Nat /\ p <= q BY <1>6, <1>t, SlotOf
<1>8. q % n = b
  <2>1. Cal!Hash(c, e.ts) = b BY <1>5, <1>6, <1>t DEF Shape
  <2> QED BY <2>1, <1>t DEF Cal!Hash
<1>9. q <= p + k
  <2>1. p + k \in Nat /\ e.ts < (p + k + 1) * w BY <1>1, <1>4, <1>5
  <2> DEFINE m == p + k
  <2>2. m \in Nat /\ e.ts < (m + 1) * w BY <2>1
  <2> HIDE DEF m
  <2>3. q <= m BY <2>2, <1>3, <1>7, <1>t, SlotOrder
  <2> QED BY <2>3 DEF m
<1>10. q = p + k
  <2> DEFINE m == p + k
  <2>1. p \in Nat /\ k < n BY <1>1, <1>3, <1>5
  <2>2. m \in Nat /\ q <= m /\ m < q + n BY <2>1, <1>3, <1>4, <1>7, <1>9
  <2>3. m % n = q % n BY <1>5, <1>8
  <2> HIDE DEF m
  <2>4. m = q BY <2>2, <2>3, <1>3, <1>7, SameSlot
  <2> QED BY <2>4 DEF m
<1> QED BY <1>1, <1>6, <1>10, <1>t DEF b, e

(* The search finds the earliest event. *)
LEMMA CalFound ==
  ASSUME NEW c, Shape(c), Position(c), Cal!Held(c) # {}
  PROVE  /\ Cal!Found(c) \in 0 .. c.m_nBuckets - 1
         /\ c.m_buckets[Cal!Found(c)] # <<>>
         /\ IsEarliest(Cal!PeekNext(c), Cal!Held(c))
         /\ Cal!InYear(c) # {} =>
              Cal!Top(c, Cal!First(c)) = (Cal!PeekNext(c).ts \div c.m_width + 1) * c.m_width
<1> DEFINE n == c.m_nBuckets
           w == c.m_width
           p == c.m_lastPrio \div w
<1>1. c \in Cals BY DEF Shape
<1>2. n \in Nat \ {0} /\ w \in Nat \ {0} BY <1>1, CalMembers
<1>3. p \in Nat BY VisitOf
<1>p. n = c.m_nBuckets /\ w = c.m_width /\ p = c.m_lastPrio \div c.m_width OBVIOUS
<1> HIDE DEF n, w, p
<1>4. CASE Cal!InYear(c) # {}
  <2> DEFINE k == Cal!First(c)
             b == Cal!Visited(c, k)
             e == Cal!NextEvent(c, b)
  <2>1. k = CHOOSE i \in Cal!InYear(c) : \A j \in Cal!InYear(c) : i <= j BY DEF Cal!First
  <2>2. Cal!Found(c) = b /\ Cal!PeekNext(c) = e BY <1>4 DEF Cal!Found, Cal!PeekNext
  <2>e. b = Cal!Visited(c, k) /\ e = Cal!NextEvent(c, Cal!Visited(c, k)) OBVIOUS
  <2> HIDE DEF k, b, e
  <2>3. k \in Cal!InYear(c) /\ \A j \in Cal!InYear(c) : k <= j
    <3>1. Cal!InYear(c) \subseteq Nat BY <1>2, <1>p DEF Cal!InYear, Cal!Visits
    <3>2. \E i \in Cal!InYear(c) : \A j \in Cal!InYear(c) : i <= j BY <3>1, <1>4, Least
    <3> QED BY <2>1, <3>2
  <2>4. /\ k \in 0 .. n - 1 /\ c.m_buckets[b] # <<>> /\ e \in Cal!Held(c)
        /\ e.ts \div w = p + k
    BY <2>3, <2>e, <1>p, YearOf
  <2>5. k \in Nat BY <2>4, <1>2
  <2>6. b \in 0 .. n - 1 /\ Cal!Top(c, k) = (p + k + 1) * w
    BY <2>5, <2>e, <1>p, VisitOf
  <2>7. IsEarliest(e, SE!ToSet(c.m_buckets[b])) BY <2>4, <2>6, <2>e, <1>p, HeadOf
  <2>8. b = (p + k) % n BY <2>5, <2>e, <1>p, VisitOf
  <2>9. ASSUME NEW f \in Cal!Held(c) \ {e} PROVE KeyLess(e, f)
    <3> DEFINE q == f.ts \div w
    <3>1. /\ f \in Events /\ f.ts \in Nat /\ q \in Nat /\ p <= q
          /\ q % n \in 0 .. n - 1
          /\ f \in SE!ToSet(c.m_buckets[q % n]) /\ c.m_buckets[q % n] # <<>>
      BY <1>p, SlotOf
    <3>q. q = f.ts \div w OBVIOUS
    <3> HIDE DEF q
    <3>2. e \in Events /\ e.ts \in Nat BY <2>4, SlotOf
    <3>3. ASSUME q < p + k PROVE FALSE
      <4> DEFINE j == q - p
                 h == Cal!NextEvent(c, Cal!Visited(c, j))
      <4>1. j \in 0 .. n - 1 /\ j \in Nat /\ j < k /\ p + j = q
        BY <3>1, <3>3, <2>4, <2>5, <1>2, <1>3
      <4> HIDE DEF j
      <4>2. Cal!Visited(c, j) = q % n /\ Cal!Top(c, j) = (q + 1) * w
        <5>1. Cal!Visited(c, j) = (p + j) % n /\ Cal!Top(c, j) = (p + j + 1) * w
          BY <4>1, <1>p, VisitOf
        <5> QED BY <4>1, <5>1
      <4>3. IsEarliest(h, SE!ToSet(c.m_buckets[q % n])) /\ h \in Cal!Held(c)
        BY <3>1, <4>2, <1>p, HeadOf
      <4> HIDE DEF h
      <4>4. h \in Events BY <4>3, <1>1, HeldElements
      <4>5. h.ts <= f.ts /\ h.ts \in Nat
        <5>1. h = f \/ KeyLess(h, f) BY <3>1, <4>3 DEF IsEarliest
        <5> QED BY <5>1, <4>4, <3>1, KeyTime
      <4>6. f.ts < (q + 1) * w BY <3>1, <3>q, <1>2, SlotBounds
      <4>7. h.ts < Cal!Top(c, j)
        <5> DEFINE t == (q + 1) * w
        <5>1. t \in Nat /\ f.ts < t BY <4>6, <3>1, <1>2
        <5> HIDE DEF t
        <5>2. h.ts < t BY <5>1, <4>5, <3>1
        <5> QED BY <5>2, <4>2 DEF t
      <4>8. j \in Cal!InYear(c)
        BY <4>1, <4>2, <4>7, <3>1, <1>p DEF Cal!InYear, Cal!Visits, h
      <4> QED BY <4>8, <4>1, <2>3, <2>5
    <3>4. CASE q = p + k
      <4>1. f \in SE!ToSet(c.m_buckets[b]) BY <3>1, <3>4, <2>8
      <4> QED BY <4>1, <2>7 DEF IsEarliest
    <3>5. CASE p + k < q
      <4> DEFINE m == p + k
      <4>1. m \in Nat /\ e.ts \div w <= m BY <1>3, <2>4, <2>5
      <4>2. ~(q <= m) BY <3>1, <3>5, <4>1
      <4> HIDE DEF m
      <4>3. e.ts < (m + 1) * w BY <4>1, <3>2, <1>2, SlotOrder
      <4>4. ~(f.ts < (m + 1) * w) BY <4>1, <4>2, <3>1, <3>q, <1>2, SlotOrder
      <4> DEFINE t == (m + 1) * w
      <4>5. t \in Nat BY <4>1, <1>2
      <4>6. e.ts < t /\ ~(f.ts < t) BY <4>3, <4>4
      <4> HIDE DEF t
      <4>7. e.ts < f.ts BY <4>5, <4>6, <3>1, <3>2
      <4> QED BY <4>7, <3>1, <3>2, KeyTime
    <3> QED BY <3>1, <3>3, <3>4, <3>5, <1>3, <2>5
  <2>10. IsEarliest(e, Cal!Held(c)) BY <2>4, <2>9 DEF IsEarliest
  <2>11. Cal!Top(c, k) = (e.ts \div w + 1) * w BY <2>4, <2>6
  <2> QED BY <2>2, <2>4, <2>6, <2>10, <2>11, <1>p DEF k
<1>5. CASE Cal!InYear(c) = {}
  <2> DEFINE b == Cal!Found(c)
             e == Cal!NextEvent(c, b)
             H == Cal!Heads(c)
  <2>1. b = CHOOSE a \in DOMAIN c.m_buckets :
              c.m_buckets[a] # <<>> /\ IsEarliest(Cal!NextEvent(c, a), H)
    BY <1>5 DEF Cal!Found, Cal!IsEarliest, Cal!KeyLess, IsEarliest, KeyLess
  <2>2. Cal!PeekNext(c) = e BY DEF Cal!PeekNext
  <2>3. DOMAIN c.m_buckets = 0 .. n - 1 BY <1>1, <1>p, CalMembers
  <2>e. e = Cal!NextEvent(c, b) OBVIOUS
  <2> HIDE DEF b, e
  <2>4. \A h : h \in H <=> \E a \in 0 .. n - 1 : c.m_buckets[a] # <<>> /\ h = Cal!NextEvent(c, a)
    <3>1. ASSUME NEW h \in H
          PROVE  \E a \in 0 .. n - 1 : c.m_buckets[a] # <<>> /\ h = Cal!NextEvent(c, a)
      <4>1. PICK k \in 0 .. n - 1 : /\ c.m_buckets[Cal!Visited(c, k)] # <<>>
                                    /\ h = Cal!NextEvent(c, Cal!Visited(c, k))
        BY <1>p DEF Cal!Heads, Cal!Visits
      <4>2. k \in Nat BY <1>2
      <4>3. Cal!Visited(c, k) \in 0 .. n - 1 BY <4>2, <1>p, VisitOf
      <4> QED BY <4>1, <4>3
    <3>2. ASSUME NEW a \in 0 .. n - 1, c.m_buckets[a] # <<>>
          PROVE  Cal!NextEvent(c, a) \in H
      <4>1. PICK k \in 0 .. n - 1 : (p + k) % n = a BY <1>2, <1>3, BucketVisited
      <4>2. k \in Nat BY <1>2
      <4>3. Cal!Visited(c, k) = a BY <4>1, <4>2, <1>p, VisitOf
      <4> QED BY <3>2, <4>1, <4>3, <1>p DEF Cal!Heads, Cal!Visits
    <3> QED BY <3>1, <3>2
  <2> HIDE DEF H
  <2>5. H \subseteq Cal!Held(c) BY <2>4, <1>p, HeadOf
  <2>6. ASSUME NEW f \in Cal!Held(c)
        PROVE  \E h \in H : h = f \/ KeyLess(h, f)
    <3>1. PICK a \in 0 .. n - 1 : f \in SE!ToSet(c.m_buckets[a]) BY <1>1, <1>p, HeldElements
    <3>2. c.m_buckets[a] # <<>>
      <4>1. c.m_buckets[a] \in Seq(Events) BY <1>1, <1>p, CalMembers
      <4> QED BY <3>1, <4>1, ToSetElements
    <3>3. IsEarliest(Cal!NextEvent(c, a), SE!ToSet(c.m_buckets[a])) BY <3>2, <1>p, HeadOf
    <3>4. Cal!NextEvent(c, a) \in H BY <3>2, <2>4
    <3> QED BY <3>1, <3>3, <3>4 DEF IsEarliest
  <2>7. Cal!Held(c) \subseteq Events BY <1>1, HeldElements
  <2>8. PICK h \in H : IsEarliest(h, H)
    <3>1. H # {} BY <2>6
    <3> QED BY <3>1, <2>5, <2>7, EarliestExists
  <2>9. b \in 0 .. n - 1 /\ c.m_buckets[b] # <<>> /\ IsEarliest(e, H)
    <3>1. PICK a \in 0 .. n - 1 : c.m_buckets[a] # <<>> /\ h = Cal!NextEvent(c, a) BY <2>4
    <3> QED BY <3>1, <2>1, <2>3, <2>8, <2>e
  <2>10. ASSUME NEW f \in Cal!Held(c) \ {e} PROVE KeyLess(e, f)
    <3>1. PICK g \in H : g = f \/ KeyLess(g, f) BY <2>6
    <3>2. e = g \/ KeyLess(e, g) BY <2>9 DEF IsEarliest
    <3>3. e \in Events /\ g \in Events /\ f \in Events BY <2>5, <2>7, <2>9 DEF IsEarliest
    <3> QED BY <2>10, <3>1, <3>2, <3>3, KeyOrder
  <2>11. IsEarliest(e, Cal!Held(c)) BY <2>5, <2>9, <2>10 DEF IsEarliest
  <2> QED BY <1>5, <2>2, <2>9, <2>11, <1>p DEF b
<1> QED BY <1>4, <1>5

(* c and d differ in their buckets and their position at most *)
Kept(c, d) ==
  /\ d.m_nBuckets = c.m_nBuckets /\ d.m_width = c.m_width
  /\ d.m_qSize = c.m_qSize /\ d.m_reverse = c.m_reverse

(* DoRemoveNext takes the earliest event out, and leaves the calendar at    *)
(* the slot of that event.                                                  *)
LEMMA CalDoRemoveNext ==
  ASSUME NEW c, Shape(c), Position(c), Cal!Held(c) # {}
  PROVE  /\ IsEarliest(Cal!PeekNext(c), Cal!Held(c)) /\ Cal!PeekNext(c) \in Events
         /\ Shape(Cal!DoRemoveNext(c)) /\ Position(Cal!DoRemoveNext(c))
         /\ Kept(c, Cal!DoRemoveNext(c))
         /\ Cal!DoRemoveNext(c).m_lastPrio = Cal!PeekNext(c).ts
         /\ Cal!Held(Cal!DoRemoveNext(c)) = Cal!Held(c) \ {Cal!PeekNext(c)}
<1> DEFINE b == Cal!Found(c)
           s == c.m_buckets[b]
           k == Cal!Front(c, b)
           e == Cal!PeekNext(c)
           t == SE!RemoveAt(s, k)
           l == Cal!Hash(c, e.ts)
           u == (e.ts \div c.m_width + 1) * c.m_width
           d == Cal!DoRemoveNext(c)
<1>1. c \in Cals BY DEF Shape
<1>2. /\ c.m_buckets \in [0 .. c.m_nBuckets - 1 -> Seq(Events)]
      /\ c.m_width \in Nat \ {0} /\ c.m_qSize \in Int
  BY <1>1, CalMembers
<1>3. /\ b \in 0 .. c.m_nBuckets - 1 /\ s # <<>> /\ IsEarliest(e, Cal!Held(c))
      /\ Cal!InYear(c) # {} => Cal!Top(c, Cal!First(c)) = u
  BY CalFound
<1>4. e \in Events /\ e.ts \in Nat
  <2>1. e \in Cal!Held(c) BY <1>3 DEF IsEarliest
  <2>2. e \in Events BY <2>1, <1>1, HeldElements
  <2> QED BY <2>2, KeyTime
<1>5. e = Cal!NextEvent(c, b) BY DEF Cal!PeekNext
<1>6. k \in 1 .. Len(s) /\ e = s[k] /\ e \in SE!ToSet(s)
  BY <1>3, <1>5, HeadOf DEF IsEarliest
<1>7. l = b BY <1>3, <1>6 DEF Shape
<1>8. d = [c EXCEPT !.m_lastPrio = e.ts,
              !.m_lastBucket = IF Cal!InYear(c) # {} THEN b ELSE l,
              !.m_bucketTop = IF Cal!InYear(c) # {} THEN Cal!Top(c, Cal!First(c)) ELSE u,
              !.m_buckets[b] = t]
  BY DEF Cal!DoRemoveNext, Cal!Pop, Cal!SE!RemoveAt, SE!RemoveAt
<1>9. d = [c EXCEPT !.m_lastPrio = e.ts, !.m_lastBucket = l, !.m_bucketTop = u,
              !.m_buckets[b] = t]
  <2> HIDE DEF b, e, t, l, u, d
  <2>1. CASE Cal!InYear(c) # {} BY <1>3, <1>7, <1>8, <2>1
  <2>2. CASE Cal!InYear(c) = {} BY <1>8, <2>2
  <2> QED BY <2>1, <2>2
<1>10. s \in Seq(Events) /\ InOrder(c.m_reverse, s) BY <1>2, <1>3 DEF Shape
<1>11. t \in Seq(Events) /\ SE!ToSet(t) = SE!ToSet(s) \ {e} /\ InOrder(c.m_reverse, t)
  <2> HIDE DEF s, k, e
  <2>1. \A i, j \in 1 .. Len(s) : i # j => s[i] # s[j] BY <1>10, DistinctInOrder
  <2> QED BY <1>6, <1>10, <2>1, TakeOut
<1>12. l \in Nat /\ u \in Nat
  <2>1. l \in Nat
    <3>1. l \in 0 .. c.m_nBuckets - 1 BY <1>3, <1>7
    <3>2. c.m_nBuckets \in Nat BY <1>1, CalMembers
    <3> HIDE DEF l
    <3> QED BY <3>1, <3>2
  <2>2. u \in Nat
    <3> DEFINE q == e.ts \div c.m_width
    <3>1. q \in Nat BY <1>2, <1>4, SlotBounds
    <3> HIDE DEF q
    <3>2. (q + 1) * c.m_width \in Nat BY <1>2, <3>1
    <3> QED BY <3>2 DEF q
  <2> QED BY <2>1, <2>2
<1>13. l = (e.ts \div c.m_width) % c.m_nBuckets BY DEF Cal!Hash
<1>14. /\ s = c.m_buckets[b] /\ l = Cal!Hash(c, e.ts)
       /\ u = (e.ts \div c.m_width + 1) * c.m_width
  OBVIOUS
<1> HIDE DEF b, s, k, e, t, l, u, d
<1>15. d = [c EXCEPT !.m_buckets[b] = t, !.m_lastPrio = e.ts, !.m_lastBucket = l,
               !.m_bucketTop = u, !.m_qSize = c.m_qSize]
  BY <1>1, <1>9 DEF Cals
<1>16. d \in Cals BY <1>1, <1>2, <1>3, <1>4, <1>11, <1>12, <1>15, CalChanged
<1>17. /\ Kept(c, d) /\ d.m_buckets = [c.m_buckets EXCEPT ![b] = t]
       /\ d.m_lastPrio = e.ts /\ d.m_lastBucket = l /\ d.m_bucketTop = u
  BY <1>1, <1>15 DEF Cals, Kept
<1>18. \A f \in SE!ToSet(t) : Cal!Hash(c, f.ts) = b BY <1>3, <1>11, <1>14 DEF Shape
<1>19. /\ Shape(d)
       /\ Cal!Held(d) = (Cal!Held(c) \ SE!ToSet(c.m_buckets[b])) \cup SE!ToSet(t)
  BY <1>3, <1>11, <1>16, <1>17, <1>18, BucketChanged DEF Kept
<1>20. SE!ToSet(s) \subseteq Cal!Held(c) BY <1>1, <1>3, <1>14, HeldElements
<1>21. Cal!Held(d) = Cal!Held(c) \ {e} BY <1>6, <1>11, <1>14, <1>19, <1>20
<1>22. Position(d)
  <2>1. ASSUME NEW f \in Cal!Held(d) PROVE e.ts <= f.ts
    <3>1. f \in Cal!Held(c) \ {e} BY <1>21
    <3>2. KeyLess(e, f) BY <3>1, <1>3 DEF IsEarliest
    <3>3. f \in Events BY <3>1, <1>1, HeldElements
    <3> QED BY <3>2, <3>3, <1>4, KeyTime
  <2>2. d.m_width = c.m_width /\ d.m_nBuckets = c.m_nBuckets BY <1>17 DEF Kept
  <2> QED BY <2>1, <2>2, <1>13, <1>14, <1>17 DEF Position
<1> QED BY <1>3, <1>4, <1>17, <1>19, <1>21, <1>22 DEF d, e

LEMMA CalGather ==
  ASSUME NEW c, Shape(c), Position(c), IsFiniteSet(Cal!Held(c)),
         NEW m \in Nat, m <= Cardinality(Cal!Held(c))
  PROVE  LET g == Cal!Gather(c, m)
         IN /\ g.samples \in Seq(Events) /\ Len(g.samples) = m /\ Distinct(g.samples)
            /\ Shape(g.cal) /\ Kept(c, g.cal)
            /\ \A e \in SE!ToSet(g.samples) : e \notin Cal!Held(g.cal)
            /\ Cal!Held(g.cal) \cup SE!ToSet(g.samples) = Cal!Held(c)
<1> DEFINE U == [cal : Cals, samples : Seq(Events)]
           a == [cal |-> c, samples |-> <<>>]
           C == Cardinality(Cal!Held(c))
           round[n \in 0 .. m] == IF n = 0 THEN a ELSE Cal!Sample(round[n - 1])
           Good(g, n) ==
             /\ Len(g.samples) = n /\ Distinct(g.samples)
             /\ Shape(g.cal) /\ Position(g.cal) /\ Kept(c, g.cal)
             /\ IsFiniteSet(Cal!Held(g.cal)) /\ Cardinality(Cal!Held(g.cal)) = C - n
             /\ \A e \in SE!ToSet(g.samples) : e \notin Cal!Held(g.cal)
             /\ Cal!Held(g.cal) \cup SE!ToSet(g.samples) = Cal!Held(c)
           T == [n \in 0 .. m |-> {g \in U : Good(g, n)}]
           G == [n \in 1 .. m |-> [g \in U |-> Cal!Sample(g)]]
<1>1. Cal!Gather(c, m) = round[m] BY DEF Cal!Gather
<1>2. m \in Nat OBVIOUS
<1>c. C \in Nat /\ m <= C BY FS_CardinalityType
<1> HIDE DEF C
<1>3. a \in T[0]
  <2>1. c \in Cals /\ Kept(c, c) BY DEF Shape, Kept
  <2>2. <<>> \in Seq(Events) /\ Len(<<>>) = 0 /\ Distinct(<<>>) BY DEF Distinct
  <2>3. SE!ToSet(<<>>) = {} BY <2>2, ToSetElements
  <2>4. Cardinality(Cal!Held(c)) = C - 0 BY <1>c DEF C
  <2>5. a \in U BY <2>1, <2>2
  <2>6. Good(a, 0) BY <2>1, <2>2, <2>3, <2>4
  <2> QED BY <1>2, <2>5, <2>6
<1>4. ASSUME NEW n \in 1 .. m, NEW g \in U, g \in T[n - 1]
      PROVE  Cal!Sample(g) \in T[n]
  <2> DEFINE d == g.cal
             s == g.samples
             e == Cal!PeekNext(d)
             f == Cal!DoRemoveNext(d)
             t == Append(s, e)
  <2>1. n - 1 \in 0 .. m /\ n \in 0 .. m OBVIOUS
  <2>2. Good(g, n - 1) BY <1>4, <2>1
  <2>3. d \in Cals /\ s \in Seq(Events) OBVIOUS
  <2>4. Cal!Sample(g) = [cal |-> f, samples |-> t] BY DEF Cal!Sample
  <2>5. /\ Len(s) = n - 1 /\ Distinct(s)
        /\ Shape(d) /\ Position(d) /\ Kept(c, d)
        /\ IsFiniteSet(Cal!Held(d)) /\ Cardinality(Cal!Held(d)) = C - (n - 1)
        /\ \A x \in SE!ToSet(s) : x \notin Cal!Held(d)
        /\ Cal!Held(d) \cup SE!ToSet(s) = Cal!Held(c)
    BY <2>2
  <2> HIDE DEF d, s, Good
  <2>6. Cal!Held(d) # {}
    <3>1. C - (n - 1) # 0 BY <1>c
    <3> QED BY <3>1, <2>5, FS_EmptySet
  <2>7. /\ IsEarliest(e, Cal!Held(d)) /\ e \in Events
        /\ Shape(f) /\ Position(f) /\ Kept(d, f) /\ Cal!Held(f) = Cal!Held(d) \ {e}
    BY <2>5, <2>6, CalDoRemoveNext
  <2> HIDE DEF e, f
  <2>8. e \in Cal!Held(d) BY <2>7 DEF IsEarliest
  <2>9. Kept(c, f) BY <2>5, <2>7 DEF Kept
  <2>10. IsFiniteSet(Cal!Held(f)) /\ Cardinality(Cal!Held(f)) = C - n
    <3>1. /\ IsFiniteSet(Cal!Held(d) \ {e})
          /\ Cardinality(Cal!Held(d) \ {e}) = Cardinality(Cal!Held(d)) - 1
      BY <2>5, <2>8, FS_RemoveElement
    <3>2. C - (n - 1) - 1 = C - n BY <1>c
    <3> QED BY <3>1, <3>2, <2>5, <2>7
  <2>11. /\ t \in Seq(Events) /\ Len(t) = n /\ t[n] = e
         /\ \A i \in 1 .. n - 1 : t[i] = s[i]
    BY <2>3, <2>5, <2>7
  <2> HIDE DEF t
  <2>12. \A x : x \in SE!ToSet(s) <=> \E i \in 1 .. n - 1 : x = s[i] BY <2>3, <2>5, ToSetElements
  <2>13. \A x : x \in SE!ToSet(t) <=> \E i \in 1 .. n : x = t[i] BY <2>11, ToSetElements
  <2>14. /\ \A i \in 1 .. n : i \in 1 .. n - 1 \/ i = n
         /\ \A i \in 1 .. n - 1 : i \in 1 .. n
         /\ n \in 1 .. n
    OBVIOUS
  <2>15. SE!ToSet(t) = SE!ToSet(s) \cup {e} BY <2>11, <2>12, <2>13, <2>14
  <2>16. Distinct(t)
    <3>1. \A i \in 1 .. n - 1 : s[i] # e BY <2>5, <2>8, <2>12
    <3>2. \A i, j \in 1 .. n - 1 : i # j => s[i] # s[j] BY <2>5 DEF Distinct
    <3> QED BY <3>1, <3>2, <2>11, <2>14 DEF Distinct
  <2>17. \A x \in SE!ToSet(t) : x \notin Cal!Held(f) BY <2>5, <2>7, <2>15
  <2>18. Cal!Held(f) \cup SE!ToSet(t) = Cal!Held(c) BY <2>5, <2>7, <2>8, <2>15
  <2>19. [cal |-> f, samples |-> t] \in U BY <2>7, <2>11 DEF Shape
  <2>20. Good([cal |-> f, samples |-> t], n)
    BY <2>7, <2>9, <2>10, <2>11, <2>16, <2>17, <2>18 DEF Good
  <2> QED BY <2>1, <2>4, <2>19, <2>20
<1> HIDE DEF Good
<1>5. /\ \A n \in 0 .. m : \A g \in T[n] : g \in U
      /\ \A n \in 1 .. m : \A g \in U : G[n][g] = Cal!Sample(g)
  OBVIOUS
<1>6. PICK f : Loop(f, m, a, G) /\ \A n \in 0 .. m : f[n] \in T[n]
  <2>1. \A n \in 1 .. m : \A g \in T[n - 1] : G[n][g] \in T[n]
    <3> SUFFICES ASSUME NEW n \in 1 .. m, NEW g \in T[n - 1] PROVE G[n][g] \in T[n]
      OBVIOUS
    <3>1. n - 1 \in 0 .. m BY <1>2
    <3>2. g \in U BY <1>5, <3>1
    <3>3. G[n][g] = Cal!Sample(g) BY <3>2, <1>5
    <3> HIDE DEF T, U
    <3> QED BY <3>2, <3>3, <1>4
  <2> HIDE DEF a, G, T
  <2> QED BY <2>1, <1>2, <1>3, LoopExists
<1>7. f = [n \in 0 .. m |-> IF n = 0 THEN a ELSE Cal!Sample(f[n - 1])]
  <2>1. \A n \in 0 .. m : f[n] \in U BY <1>5, <1>6
  <2>2. \A n \in 1 .. m : f[n] = Cal!Sample(f[n - 1])
    <3> SUFFICES ASSUME NEW n \in 1 .. m PROVE f[n] = Cal!Sample(f[n - 1]) OBVIOUS
    <3>1. f[n] = G[n][f[n - 1]] BY <1>6 DEF Loop
    <3>2. f[n - 1] \in U
      <4>1. n - 1 \in 0 .. m BY <1>2
      <4> QED BY <2>1, <4>1
    <3> HIDE DEF U, G, T
    <3> QED BY <3>1, <3>2, <1>5
  <2>3. f[0] = a /\ f = [n \in 0 .. m |-> f[n]] BY <1>6 DEF Loop
  <2> DEFINE g == [n \in 0 .. m |-> IF n = 0 THEN a ELSE Cal!Sample(f[n - 1])]
  <2>4. g[0] = a /\ \A n \in 1 .. m : g[n] = Cal!Sample(f[n - 1])
    <3> HIDE DEF a
    <3> QED BY <1>2
  <2>5. g = [n \in 0 .. m |-> g[n]] OBVIOUS
  <2>6. f = g
    <3> HIDE DEF g, a
    <3>1. f[0] = g[0] /\ \A n \in 1 .. m : f[n] = g[n] BY <2>2, <2>3, <2>4
    <3>2. \A n \in 0 .. m : n = 0 \/ n \in 1 .. m BY <1>2
    <3>3. \A n \in 0 .. m : f[n] = g[n] BY <3>1, <3>2
    <3> QED BY <2>3, <2>5, <3>3
  <2> QED BY <2>6
<1>8. round = [n \in 0 .. m |-> IF n = 0 THEN a ELSE Cal!Sample(round[n - 1])]
  BY <1>7, Zenon
<1> HIDE DEF round
<1>9. round[0] = a /\ \A n \in 1 .. m : round[n] = Cal!Sample(round[n - 1])
  <2> HIDE DEF a
  <2> QED BY <1>2, <1>8
<1>10. \A n \in 0 .. m : round[n] \in T[n]
  <2>1. \A n \in 1 .. m : round[n - 1] \in T[n - 1] => round[n] \in T[n]
    <3> SUFFICES ASSUME NEW n \in 1 .. m, round[n - 1] \in T[n - 1] PROVE round[n] \in T[n]
      OBVIOUS
    <3>1. round[n - 1] \in U
      <4>1. n - 1 \in 0 .. m BY <1>2
      <4> HIDE DEF T, U
      <4> QED BY <1>5, <4>1
    <3> HIDE DEF T, U, a
    <3> QED BY <3>1, <1>4, <1>9
  <2> HIDE DEF T, a
  <2> QED BY <2>1, <1>2, <1>3, <1>9, Along
<1>11. round[m] \in U /\ Good(round[m], m)
  <2>1. m \in 0 .. m BY <1>2
  <2>2. round[m] \in T[m] BY <1>10, <2>1
  <2> QED BY <2>1, <2>2
<1> QED BY <1>1, <1>11 DEF Good


-----------------------------------------------------------------------------
(* The calendar: resizing.                                                 *)

LEMMA CalMoved ==
  ASSUME NEW c \in Cals, NEW p \in Nat, NEW l \in Nat, NEW t \in Nat, NEW q \in Int
  PROVE  [c EXCEPT !.m_lastPrio = p, !.m_lastBucket = l, !.m_bucketTop = t,
                   !.m_qSize = q] \in Cals
<1>1. PICK n \in Nat \ {0} :
        c \in [m_buckets : [0 .. n - 1 -> Seq(Events)], m_nBuckets : {n}, m_width : Nat \ {0},
          m_lastPrio : Nat, m_lastBucket : Nat, m_bucketTop : Nat, m_qSize : Int,
          m_reverse : BOOLEAN]
  BY DEF Cals
<1>2. [c EXCEPT !.m_lastPrio = p, !.m_lastBucket = l, !.m_bucketTop = t, !.m_qSize = q] \in
        [m_buckets : [0 .. n - 1 -> Seq(Events)], m_nBuckets : {n}, m_width : Nat \ {0},
          m_lastPrio : Nat, m_lastBucket : Nat, m_bucketTop : Nat, m_qSize : Int,
          m_reverse : BOOLEAN]
  BY <1>1
<1> QED BY <1>2 DEF Cals

(* Shape and the events held depend on the buckets only. *)
LEMMA SameBuckets ==
  ASSUME NEW c, Shape(c), NEW d \in Cals, d.m_buckets = c.m_buckets,
         d.m_nBuckets = c.m_nBuckets, d.m_width = c.m_width, d.m_reverse = c.m_reverse
  PROVE  Shape(d) /\ Cal!Held(d) = Cal!Held(c)
BY DEF Shape, Cal!Hash, Cal!Held

LEMMA FreshCalendar ==
  ASSUME NEW n \in Nat \ {0}, NEW w \in Nat \ {0}, NEW p \in Nat, NEW q \in Int,
         NEW r \in BOOLEAN, NEW c, c = Cal!Calendar(n, w, p, q, r)
  PROVE  /\ Shape(c) /\ Position(c) /\ Cal!Held(c) = {}
         /\ c.m_nBuckets = n /\ c.m_width = w /\ c.m_lastPrio = p /\ c.m_qSize = q
         /\ c.m_reverse = r
<1> DEFINE l == (p \div w) % n
           t == (p \div w + 1) * w
<1>1. l \in Nat /\ t \in Nat
  <2>1. p \div w \in Nat BY SlotBounds
  <2> DEFINE x == p \div w
  <2>2. x \in Nat BY <2>1
  <2> HIDE DEF x
  <2>3. x % n \in Nat /\ (x + 1) * w \in Nat
    <3>1. x % n \in 0 .. n - 1 BY <2>2, Division
    <3> QED BY <2>2, <3>1
  <2> QED BY <2>3 DEF x
<1>2. c = [m_buckets |-> [b \in 0 .. n - 1 |-> <<>>], m_nBuckets |-> n, m_width |-> w,
           m_lastPrio |-> p, m_lastBucket |-> l, m_bucketTop |-> t, m_qSize |-> q,
           m_reverse |-> r]
  BY DEF Cal!Calendar
<1>3. /\ c.m_nBuckets = n /\ c.m_width = w /\ c.m_lastPrio = p /\ c.m_qSize = q
      /\ c.m_reverse = r /\ c.m_lastBucket = l /\ c.m_bucketTop = t
      /\ \A b \in 0 .. n - 1 : c.m_buckets[b] = <<>>
  BY <1>2
<1>4. c \in Cals
  <2> HIDE DEF l, t
  <2>1. c \in [m_buckets : [0 .. n - 1 -> Seq(Events)], m_nBuckets : {n}, m_width : Nat \ {0},
          m_lastPrio : Nat, m_lastBucket : Nat, m_bucketTop : Nat, m_qSize : Int,
          m_reverse : BOOLEAN]
    BY <1>1, <1>2
  <2> QED BY <2>1 DEF Cals
<1>5. <<>> \in Seq(Events) /\ SE!ToSet(<<>>) = {}
  <2>1. <<>> \in Seq(Events) OBVIOUS
  <2> QED BY <2>1, ToSetElements
<1>6. Shape(c)
  <2>1. \A x : InOrder(x, <<>>) BY DEF InOrder
  <2> QED BY <1>3, <1>4, <1>5, <2>1 DEF Shape
<1>7. Cal!Held(c) = {} BY <1>3, <1>4, <1>5, HeldElements
<1>8. Position(c) BY <1>3, <1>7 DEF Position
<1> QED BY <1>3, <1>6, <1>7, <1>8

LEMMA SumIsInt ==
  ASSUME NEW s \in Seq(Int)
  PROVE  Cal!Sum(s) \in Int
<1> DEFINE L == Len(s)
           U == Int
           a == 0
           round[n \in 0 .. L] == IF n = 0 THEN a ELSE round[n - 1] + s[n]
           T == [n \in 0 .. L |-> Int]
           G == [n \in 1 .. L |-> [x \in U |-> x + s[n]]]
<1>1. Cal!Sum(s) = round[L] BY DEF Cal!Sum
<1>2. L \in Nat OBVIOUS
<1>3. a \in T[0] BY <1>2
<1>4. ASSUME NEW n \in 1 .. L, NEW x \in U, x \in T[n - 1]
      PROVE  x + s[n] \in T[n]
  <2>1. n \in 0 .. L /\ s[n] \in Int OBVIOUS
  <2> QED BY <2>1
<1>5. /\ \A n \in 0 .. L : \A x \in T[n] : x \in U
      /\ \A n \in 1 .. L : \A x \in U : G[n][x] = x + s[n]
  OBVIOUS
<1>6. PICK f : Loop(f, L, a, G) /\ \A n \in 0 .. L : f[n] \in T[n]
  <2>1. \A n \in 1 .. L : \A x \in T[n - 1] : G[n][x] \in T[n]
    <3> SUFFICES ASSUME NEW n \in 1 .. L, NEW x \in T[n - 1] PROVE G[n][x] \in T[n]
      OBVIOUS
    <3>1. n - 1 \in 0 .. L BY <1>2
    <3>2. x \in U BY <1>5, <3>1
    <3>3. G[n][x] = x + s[n] BY <3>2, <1>5
    <3> HIDE DEF T, U
    <3> QED BY <3>2, <3>3, <1>4
  <2> HIDE DEF L, a, G, T
  <2> QED BY <2>1, <1>2, <1>3, LoopExists
<1>7. f = [n \in 0 .. L |-> IF n = 0 THEN a ELSE f[n - 1] + s[n]]
  <2>1. \A n \in 0 .. L : f[n] \in U BY <1>5, <1>6
  <2>2. \A n \in 1 .. L : f[n] = f[n - 1] + s[n]
    <3> SUFFICES ASSUME NEW n \in 1 .. L PROVE f[n] = f[n - 1] + s[n] OBVIOUS
    <3>1. f[n] = G[n][f[n - 1]] BY <1>6 DEF Loop
    <3>2. f[n - 1] \in U
      <4>1. n - 1 \in 0 .. L BY <1>2
      <4> QED BY <2>1, <4>1
    <3> HIDE DEF U, G, T, L
    <3> QED BY <3>1, <3>2, <1>5
  <2>3. f[0] = a /\ f = [n \in 0 .. L |-> f[n]] BY <1>6 DEF Loop
  <2> DEFINE g == [n \in 0 .. L |-> IF n = 0 THEN a ELSE f[n - 1] + s[n]]
  <2>4. g[0] = a /\ \A n \in 1 .. L : g[n] = f[n - 1] + s[n]
    <3> HIDE DEF a, L
    <3> QED BY <1>2
  <2>5. g = [n \in 0 .. L |-> g[n]] OBVIOUS
  <2>6. f = g
    <3> HIDE DEF g, a, L
    <3>1. f[0] = g[0] /\ \A n \in 1 .. L : f[n] = g[n] BY <2>2, <2>3, <2>4
    <3>2. \A n \in 0 .. L : n = 0 \/ n \in 1 .. L BY <1>2
    <3>3. \A n \in 0 .. L : f[n] = g[n] BY <3>1, <3>2
    <3> QED BY <2>3, <2>5, <3>3
  <2> QED BY <2>6
<1>8. round = [n \in 0 .. L |-> IF n = 0 THEN a ELSE round[n - 1] + s[n]]
  BY <1>7, Zenon
<1> HIDE DEF round
<1>9. round[0] = a /\ \A n \in 1 .. L : round[n] = round[n - 1] + s[n]
  <2> HIDE DEF a, L
  <2> QED BY <1>2, <1>8
<1>10. \A n \in 0 .. L : round[n] \in T[n]
  <2>1. \A n \in 1 .. L : round[n - 1] \in T[n - 1] => round[n] \in T[n]
    <3> SUFFICES ASSUME NEW n \in 1 .. L, round[n - 1] \in T[n - 1] PROVE round[n] \in T[n]
      OBVIOUS
    <3>1. round[n - 1] \in U
      <4>1. n - 1 \in 0 .. L BY <1>2
      <4> HIDE DEF T, U
      <4> QED BY <1>5, <4>1
    <3> HIDE DEF T, U, a
    <3> QED BY <3>1, <1>4, <1>9
  <2> HIDE DEF T, a, L
  <2> QED BY <2>1, <1>2, <1>3, <1>9, Along
<1>11. round[L] \in Int
  <2>1. L \in 0 .. L BY <1>2
  <2>2. round[L] \in T[L] BY <1>10, <2>1
  <2> QED BY <2>1, <2>2
<1> QED BY <1>1, <1>11

LEMMA WidthIsPositive ==
  ASSUME NEW s \in Seq(Events), Len(s) >= 2
  PROVE  Cal!Width(s) \in Nat \ {0}
<1> DEFINE seps == [i \in 1 .. Len(s) - 1 |-> s[i + 1].ts - s[i].ts]
           avg == (Cal!Sum(seps) \div (Len(s) - 1)) * 2
           low == [i \in DOMAIN seps |-> IF seps[i] <= avg THEN seps[i] ELSE 0]
           total == Cal!Sum(low) * 3
<1>1. Cal!Width(s) = IF total > 1 THEN total ELSE 1 BY DEF Cal!Width
<1>2. Len(s) \in Nat /\ Len(s) - 1 \in Nat OBVIOUS
<1>3. \A i \in 1 .. Len(s) - 1 : s[i + 1].ts - s[i].ts \in Int
  <2> SUFFICES ASSUME NEW i \in 1 .. Len(s) - 1 PROVE s[i + 1].ts - s[i].ts \in Int OBVIOUS
  <2>1. s[i + 1] \in Events /\ s[i] \in Events OBVIOUS
  <2>2. s[i + 1].ts \in Nat /\ s[i].ts \in Nat BY <2>1, KeyTime
  <2> QED BY <2>2
<1>4. seps \in [1 .. Len(s) - 1 -> Int] BY <1>3
<1>5. \A m \in Nat : \A f \in [1 .. m -> Int] : f \in Seq(Int) OBVIOUS
<1> HIDE DEF seps, avg
<1>6. low \in [1 .. Len(s) - 1 -> Int] BY <1>4
<1> HIDE DEF low
<1>7. Cal!Sum(low) \in Int
  <2>1. low \in Seq(Int) BY <1>2, <1>5, <1>6
  <2> QED BY <2>1, SumIsInt
<1>8. total \in Int BY <1>7
<1> HIDE DEF total
<1> QED BY <1>1, <1>8

LEMMA NSamplesRange ==
  ASSUME NEW q \in Nat, q >= 2
  PROVE  Cal!NSamples(q) \in Nat /\ Cal!NSamples(q) >= 2 /\ Cal!NSamples(q) <= q
BY DEF Cal!NSamples

Counted(c) == IsFiniteSet(Cal!Held(c)) /\ c.m_qSize = Cardinality(Cal!Held(c))

(* CalculateNewWidth leaves the calendar as it found it. *)
LEMMA CalPutBack ==
  ASSUME NEW c, Shape(c), Position(c), Counted(c), c.m_qSize >= 2
  PROVE  /\ Shape(Cal!PutBack(c)) /\ Same(c, Cal!PutBack(c))
         /\ Cal!Held(Cal!PutBack(c)) = Cal!Held(c)
         /\ Cal!NewWidth(c) \in Nat \ {0}
<1> DEFINE m == Cal!NSamples(c.m_qSize)
           g == Cal!Gather(c, m)
           e == Cal!DoInsertAll(g.cal, g.samples)
           d == Cal!PutBack(c)
<1>1. c \in Cals BY DEF Shape
<1>2. c.m_lastPrio \in Nat /\ c.m_lastBucket \in Nat /\ c.m_bucketTop \in Nat
  BY <1>1, CalMembers
<1>3. IsFiniteSet(Cal!Held(c)) /\ c.m_qSize = Cardinality(Cal!Held(c)) BY DEF Counted
<1>4. c.m_qSize \in Nat BY <1>3, FS_CardinalityType
<1>5. m \in Nat /\ m >= 2 /\ m <= Cardinality(Cal!Held(c)) BY <1>3, <1>4, NSamplesRange
<1>6. d = [e EXCEPT !.m_lastBucket = c.m_lastBucket, !.m_bucketTop = c.m_bucketTop,
                    !.m_lastPrio = c.m_lastPrio]
  BY DEF Cal!PutBack
<1>7. Cal!NewWidth(c) = Cal!Width(g.samples) BY DEF Cal!NewWidth
<1> HIDE DEF m
<1>8. /\ g.samples \in Seq(Events) /\ Len(g.samples) = m /\ Distinct(g.samples)
      /\ Shape(g.cal) /\ Kept(c, g.cal)
      /\ \A x \in SE!ToSet(g.samples) : x \notin Cal!Held(g.cal)
      /\ Cal!Held(g.cal) \cup SE!ToSet(g.samples) = Cal!Held(c)
  BY <1>3, <1>5, CalGather
<1> HIDE DEF g
<1>9. Cal!NewWidth(c) \in Nat \ {0} BY <1>5, <1>7, <1>8, WidthIsPositive
<1>10. Shape(e) /\ Same(g.cal, e) /\ Cal!Held(e) = Cal!Held(g.cal) \cup SE!ToSet(g.samples)
  BY <1>8, CalDoInsertAll
<1> HIDE DEF e, d
<1>11. e \in Cals /\ e.m_qSize \in Int
  <2>1. e \in Cals BY <1>10 DEF Shape
  <2> QED BY <2>1, CalMembers
<1>12. d = [e EXCEPT !.m_lastPrio = c.m_lastPrio, !.m_lastBucket = c.m_lastBucket,
                     !.m_bucketTop = c.m_bucketTop, !.m_qSize = e.m_qSize]
  BY <1>6, <1>11 DEF Cals
<1>13. d \in Cals
  <2> DEFINE p == c.m_lastPrio
             l == c.m_lastBucket
             t == c.m_bucketTop
             q == e.m_qSize
  <2>1. p \in Nat /\ l \in Nat /\ t \in Nat /\ q \in Int BY <1>2, <1>11
  <2>2. d = [e EXCEPT !.m_lastPrio = p, !.m_lastBucket = l, !.m_bucketTop = t, !.m_qSize = q]
    BY <1>12
  <2> HIDE DEF p, l, t, q
  <2> QED BY <2>1, <2>2, <1>11, CalMoved
<1>14. /\ d.m_buckets = e.m_buckets
       /\ d.m_nBuckets = e.m_nBuckets /\ d.m_width = e.m_width
       /\ d.m_reverse = e.m_reverse /\ d.m_lastPrio = c.m_lastPrio
       /\ d.m_lastBucket = c.m_lastBucket
       /\ d.m_bucketTop = c.m_bucketTop /\ d.m_qSize = e.m_qSize
  BY <1>11, <1>12 DEF Cals
<1>15. Shape(d) /\ Cal!Held(d) = Cal!Held(e) BY <1>10, <1>13, <1>14, SameBuckets
<1>16. Same(c, d) BY <1>8, <1>10, <1>14 DEF Same, Kept
<1>17. Cal!Held(d) = Cal!Held(c) BY <1>8, <1>10, <1>15
<1> QED BY <1>9, <1>16, <1>17, <1>15 DEF d

LEMMA CalDoResize ==
  ASSUME NEW c, Shape(c), \A e \in Cal!Held(c) : c.m_lastPrio <= e.ts,
         NEW size \in Nat \ {0}, NEW width \in Nat \ {0}
  PROVE  LET d == Cal!DoResize(c, size, width)
         IN /\ Shape(d) /\ Position(d) /\ Cal!Held(d) = Cal!Held(c)
            /\ d.m_qSize = c.m_qSize /\ d.m_lastPrio = c.m_lastPrio
<1> DEFINE L == c.m_nBuckets
           U == Cals
           a == Cal!Calendar(size, width, c.m_lastPrio, c.m_qSize, c.m_reverse)
           round[n \in 0 .. L] ==
             IF n = 0 THEN a ELSE Cal!DoInsertAll(round[n - 1], c.m_buckets[n - 1])
           Good(d, n) ==
             /\ Shape(d) /\ Same(a, d)
             /\ \A e : e \in Cal!Held(d) <=> \E b \in 0 .. n - 1 : e \in SE!ToSet(c.m_buckets[b])
           T == [n \in 0 .. L |-> {d \in U : Good(d, n)}]
           G == [n \in 1 .. L |-> [d \in U |-> Cal!DoInsertAll(d, c.m_buckets[n - 1])]]
<1>1. Cal!DoResize(c, size, width) = round[L] BY DEF Cal!DoResize
<1>c. c \in Cals BY DEF Shape
<1>2. L \in Nat BY <1>c, CalMembers
<1>m. /\ c.m_lastPrio \in Nat /\ c.m_qSize \in Int /\ c.m_reverse \in BOOLEAN
      /\ c.m_buckets \in [0 .. L - 1 -> Seq(Events)]
  BY <1>c, CalMembers
<1>a. /\ Shape(a) /\ Position(a) /\ Cal!Held(a) = {}
      /\ a.m_lastPrio = c.m_lastPrio /\ a.m_qSize = c.m_qSize
  BY <1>m, FreshCalendar
<1> HIDE DEF a
<1>3. a \in T[0]
  <2>1. a \in Cals /\ Same(a, a) BY <1>a DEF Shape, Same
  <2>2. ~\E b \in 0 .. 0 - 1 : TRUE OBVIOUS
  <2>3. Good(a, 0) BY <1>a, <2>1, <2>2
  <2> QED BY <1>2, <2>1, <2>3
<1>4. ASSUME NEW n \in 1 .. L, NEW d \in U, d \in T[n - 1]
      PROVE  Cal!DoInsertAll(d, c.m_buckets[n - 1]) \in T[n]
  <2> DEFINE s == c.m_buckets[n - 1]
             e == Cal!DoInsertAll(d, s)
  <2>1. n - 1 \in 0 .. L /\ n \in 0 .. L /\ n - 1 \in 0 .. L - 1 BY <1>2
  <2>2. Good(d, n - 1) BY <1>4, <2>1
  <2>3. s \in Seq(Events) /\ InOrder(c.m_reverse, s) BY <1>m, <2>1 DEF Shape
  <2>4. /\ Shape(d) /\ Same(a, d)
        /\ \A x : x \in Cal!Held(d) <=>
                    \E b \in 0 .. n - 1 - 1 : x \in SE!ToSet(c.m_buckets[b])
    BY <2>2
  <2>5. Distinct(s)
    <3> HIDE DEF s
    <3> QED BY <2>3, DistinctInOrder DEF Distinct
  <2>6. /\ \A b \in 0 .. n - 1 - 1 : b \in 0 .. n - 1 /\ b \in 0 .. L - 1 /\ b # n - 1
        /\ \A b \in 0 .. n - 1 : b \in 0 .. n - 1 - 1 \/ b = n - 1
        /\ n - 1 \in 0 .. n - 1
    BY <1>2
  <2>7. \A x \in SE!ToSet(s) : x \notin Cal!Held(d)
    <3> SUFFICES ASSUME NEW x \in SE!ToSet(s), NEW b \in 0 .. n - 1 - 1,
                        x \in SE!ToSet(c.m_buckets[b])
                 PROVE  FALSE
      BY <2>4
    <3>1. Cal!Hash(c, x.ts) = n - 1 BY <2>1 DEF Shape
    <3>2. Cal!Hash(c, x.ts) = b BY <2>6 DEF Shape
    <3> QED BY <3>1, <3>2, <2>6
  <2>8. Shape(e) /\ Same(d, e) /\ Cal!Held(e) = Cal!Held(d) \cup SE!ToSet(s)
    <3> HIDE DEF s
    <3> QED BY <2>3, <2>4, <2>5, <2>7, CalDoInsertAll
  <2>9. Same(a, e)
    <3> HIDE DEF e
    <3> QED BY <2>4, <2>8 DEF Same
  <2>10. \A x : x \in Cal!Held(e) <=> \E b \in 0 .. n - 1 : x \in SE!ToSet(c.m_buckets[b])
    <3>1. s = c.m_buckets[n - 1] OBVIOUS
    <3> HIDE DEF s, e
    <3> QED BY <2>4, <2>6, <2>8, <3>1
  <2>11. e \in Cals BY <2>8 DEF Shape
  <2>12. e \in T[n]
    <3> HIDE DEF e
    <3> QED BY <2>1, <2>8, <2>9, <2>10, <2>11
  <2> QED BY <2>12
<1> HIDE DEF Good
<1>5. /\ \A n \in 0 .. L : \A d \in T[n] : d \in U
      /\ \A n \in 1 .. L : \A d \in U : G[n][d] = Cal!DoInsertAll(d, c.m_buckets[n - 1])
  OBVIOUS
<1>6. PICK f : Loop(f, L, a, G) /\ \A n \in 0 .. L : f[n] \in T[n]
  <2>1. \A n \in 1 .. L : \A d \in T[n - 1] : G[n][d] \in T[n]
    <3> SUFFICES ASSUME NEW n \in 1 .. L, NEW d \in T[n - 1] PROVE G[n][d] \in T[n]
      OBVIOUS
    <3>1. n - 1 \in 0 .. L BY <1>2
    <3>2. d \in U BY <1>5, <3>1
    <3>3. G[n][d] = Cal!DoInsertAll(d, c.m_buckets[n - 1]) BY <3>2, <1>5
    <3> HIDE DEF T, U
    <3> QED BY <3>2, <3>3, <1>4
  <2> HIDE DEF L, G, T
  <2> QED BY <2>1, <1>2, <1>3, LoopExists
<1>7. f = [n \in 0 .. L |-> IF n = 0 THEN a ELSE Cal!DoInsertAll(f[n - 1], c.m_buckets[n - 1])]
  <2>1. \A n \in 0 .. L : f[n] \in U BY <1>5, <1>6
  <2>2. \A n \in 1 .. L : f[n] = Cal!DoInsertAll(f[n - 1], c.m_buckets[n - 1])
    <3> SUFFICES ASSUME NEW n \in 1 .. L PROVE f[n] = Cal!DoInsertAll(f[n - 1], c.m_buckets[n - 1]) OBVIOUS
    <3>1. f[n] = G[n][f[n - 1]] BY <1>6 DEF Loop
    <3>2. f[n - 1] \in U
      <4>1. n - 1 \in 0 .. L BY <1>2
      <4> QED BY <2>1, <4>1
    <3> HIDE DEF U, G, T, L
    <3> QED BY <3>1, <3>2, <1>5
  <2>3. f[0] = a /\ f = [n \in 0 .. L |-> f[n]] BY <1>6 DEF Loop
  <2> DEFINE g == [n \in 0 .. L |-> IF n = 0 THEN a ELSE Cal!DoInsertAll(f[n - 1], c.m_buckets[n - 1])]
  <2>4. g[0] = a /\ \A n \in 1 .. L : g[n] = Cal!DoInsertAll(f[n - 1], c.m_buckets[n - 1])
    <3> HIDE DEF L
    <3> QED BY <1>2
  <2>5. g = [n \in 0 .. L |-> g[n]] OBVIOUS
  <2>6. f = g
    <3> HIDE DEF g, L
    <3>1. f[0] = g[0] /\ \A n \in 1 .. L : f[n] = g[n] BY <2>2, <2>3, <2>4
    <3>2. \A n \in 0 .. L : n = 0 \/ n \in 1 .. L BY <1>2
    <3>3. \A n \in 0 .. L : f[n] = g[n] BY <3>1, <3>2
    <3> QED BY <2>3, <2>5, <3>3
  <2> QED BY <2>6
<1>8. round = [n \in 0 .. L |-> IF n = 0 THEN a ELSE Cal!DoInsertAll(round[n - 1], c.m_buckets[n - 1])]
  BY <1>7, Zenon
<1> HIDE DEF round
<1>9. round[0] = a /\ \A n \in 1 .. L : round[n] = Cal!DoInsertAll(round[n - 1], c.m_buckets[n - 1])
  <2> HIDE DEF L
  <2> QED BY <1>2, <1>8
<1>10. \A n \in 0 .. L : round[n] \in T[n]
  <2>1. \A n \in 1 .. L : round[n - 1] \in T[n - 1] => round[n] \in T[n]
    <3> SUFFICES ASSUME NEW n \in 1 .. L, round[n - 1] \in T[n - 1] PROVE round[n] \in T[n]
      OBVIOUS
    <3>1. round[n - 1] \in U
      <4>1. n - 1 \in 0 .. L BY <1>2
      <4> HIDE DEF T, U
      <4> QED BY <1>5, <4>1
    <3> HIDE DEF T, U
    <3> QED BY <3>1, <1>4, <1>9
  <2> HIDE DEF T, L
  <2> QED BY <2>1, <1>2, <1>3, <1>9, Along
<1>11. Good(round[L], L)
  <2>1. L \in 0 .. L BY <1>2
  <2>2. round[L] \in T[L] BY <1>10, <2>1
  <2> QED BY <2>1, <2>2
<1> DEFINE d == round[L]
<1>12. d = round[L] OBVIOUS
<1> HIDE DEF d
<1>13. /\ Shape(d) /\ Same(a, d)
       /\ \A e : e \in Cal!Held(d) <=> \E b \in 0 .. L - 1 : e \in SE!ToSet(c.m_buckets[b])
  BY <1>11, <1>12 DEF Good
<1>14. Cal!Held(d) = Cal!Held(c) BY <1>13, <1>c, HeldElements
<1>15. Position(d) BY <1>13, <1>14, <1>a DEF Position, Same
<1>16. d.m_qSize = c.m_qSize /\ d.m_lastPrio = c.m_lastPrio BY <1>13, <1>a DEF Same
<1> QED BY <1>1, <1>12, <1>13, <1>14, <1>15, <1>16

CalGood(c) == Shape(c) /\ Position(c) /\ Counted(c)

(* Resizing keeps the events and m_lastPrio. *)
Resized(c, d) ==
  CalGood(d) /\ Cal!Held(d) = Cal!Held(c) /\ d.m_lastPrio = c.m_lastPrio

LEMMA CalResize ==
  ASSUME NEW c, CalGood(c), NEW size \in Nat \ {0}
  PROVE  Resized(c, Cal!Resize(c, size))
<1>1. Shape(c) /\ Position(c) /\ Counted(c) BY DEF CalGood
<1>2. c.m_qSize \in Nat BY <1>1, FS_CardinalityType DEF Counted
<1>3. CASE c.m_qSize < 2
  <2> DEFINE d == Cal!DoResize(c, size, 1)
  <2>1. Cal!Resize(c, size) = d BY <1>3 DEF Cal!Resize
  <2>2. 1 \in Nat \ {0} /\ \A e \in Cal!Held(c) : c.m_lastPrio <= e.ts
    BY <1>1 DEF Position
  <2>3. /\ Shape(d) /\ Position(d) /\ Cal!Held(d) = Cal!Held(c)
        /\ d.m_qSize = c.m_qSize /\ d.m_lastPrio = c.m_lastPrio
    BY <1>1, <2>2, CalDoResize
  <2> HIDE DEF d
  <2> QED BY <1>1, <2>1, <2>3 DEF Resized, CalGood, Counted
<1>4. CASE ~(c.m_qSize < 2)
  <2> DEFINE p == Cal!PutBack(c)
             w == Cal!NewWidth(c)
             d == Cal!DoResize(p, size, w)
  <2>1. Cal!Resize(c, size) = d BY <1>4 DEF Cal!Resize
  <2>2. Shape(p) /\ Same(c, p) /\ Cal!Held(p) = Cal!Held(c) /\ w \in Nat \ {0}
    BY <1>1, <1>2, <1>4, CalPutBack
  <2> HIDE DEF p, w
  <2>3. \A e \in Cal!Held(p) : p.m_lastPrio <= e.ts BY <1>1, <2>2 DEF Position, Same
  <2>4. /\ Shape(d) /\ Position(d) /\ Cal!Held(d) = Cal!Held(p)
        /\ d.m_qSize = p.m_qSize /\ d.m_lastPrio = p.m_lastPrio
    BY <2>2, <2>3, CalDoResize
  <2> HIDE DEF d
  <2> QED BY <1>1, <2>1, <2>2, <2>4 DEF Resized, CalGood, Counted, Same
<1> QED BY <1>3, <1>4

LEMMA CalResizeUpDown ==
  ASSUME NEW c, CalGood(c)
  PROVE  Resized(c, Cal!ResizeUp(c)) /\ Resized(c, Cal!ResizeDown(c))
<1> DEFINE n == c.m_nBuckets
           up == n * 2
           down == n \div 2
<1>1. c \in Cals BY DEF CalGood, Shape
<1>2. n \in Nat \ {0} BY <1>1, CalMembers
<1>3. c.m_qSize \in Nat BY FS_CardinalityType DEF CalGood, Counted
<1>4. Resized(c, c) BY DEF Resized
<1>5. Resized(c, Cal!ResizeUp(c))
  <2>1. up \in Nat \ {0} BY <1>2
  <2>2. Cal!ResizeUp(c) \in {c, Cal!Resize(c, up)} BY DEF Cal!ResizeUp
  <2> HIDE DEF up
  <2> QED BY <1>4, <2>1, <2>2, CalResize
<1>6. Resized(c, Cal!ResizeDown(c))
  <2>1. CASE c.m_qSize < down
    <3>1. down \in Nat \ {0} BY <1>2, <1>3, <2>1
    <3>2. Cal!ResizeDown(c) = Cal!Resize(c, down) BY <2>1 DEF Cal!ResizeDown
    <3> HIDE DEF down
    <3> QED BY <3>1, <3>2, CalResize
  <2>2. CASE ~(c.m_qSize < down) BY <1>4, <2>2 DEF Cal!ResizeDown
  <2> QED BY <2>1, <2>2
<1> QED BY <1>5, <1>6


-----------------------------------------------------------------------------
(* The calendar: what the calls leave.                                     *)

(* m_qSize takes no part in the rest. *)
LEMMA Recounted ==
  ASSUME NEW c, Shape(c), NEW q \in Int
  PROVE  LET d == [c EXCEPT !.m_qSize = q]
         IN /\ Shape(d) /\ Cal!Held(d) = Cal!Held(c) /\ d.m_qSize = q
            /\ d.m_lastPrio = c.m_lastPrio /\ (Position(c) => Position(d))
<1> DEFINE d == [c EXCEPT !.m_qSize = q]
           p == c.m_lastPrio
           l == c.m_lastBucket
           t == c.m_bucketTop
<1>1. c \in Cals BY DEF Shape
<1>2. p \in Nat /\ l \in Nat /\ t \in Nat BY <1>1, CalMembers
<1>3. d = [c EXCEPT !.m_lastPrio = p, !.m_lastBucket = l, !.m_bucketTop = t, !.m_qSize = q]
  BY <1>1 DEF Cals
<1>4. /\ d.m_buckets = c.m_buckets /\ d.m_nBuckets = c.m_nBuckets /\ d.m_width = c.m_width
      /\ d.m_reverse = c.m_reverse /\ d.m_lastPrio = c.m_lastPrio
      /\ d.m_lastBucket = c.m_lastBucket /\ d.m_bucketTop = c.m_bucketTop /\ d.m_qSize = q
  BY <1>1 DEF Cals
<1>d. d = [c EXCEPT !.m_qSize = q] OBVIOUS
<1> HIDE DEF d
<1>5. d \in Cals
  <2> HIDE DEF p, l, t
  <2> QED BY <1>1, <1>2, <1>3, CalMoved
<1>6. Shape(d) /\ Cal!Held(d) = Cal!Held(c) BY <1>4, <1>5, SameBuckets
<1>7. Position(c) => Position(d) BY <1>4, <1>6 DEF Position
<1> QED BY <1>4, <1>6, <1>7, <1>d

LEMMA CalInserted ==
  ASSUME NEW c, CalGood(c), NEW e \in Events, e \notin Cal!Held(c), c.m_lastPrio <= e.ts
  PROVE  /\ CalGood(Cal!Inserted(c, e))
         /\ Cal!Held(Cal!Inserted(c, e)) = Cal!Held(c) \cup {e}
         /\ Cal!Inserted(c, e).m_lastPrio = c.m_lastPrio
<1> DEFINE d == Cal!DoInsert(c, e)
           q == d.m_qSize + 1
           f == [d EXCEPT !.m_qSize = q]
<1>1. Shape(c) /\ Position(c) /\ Counted(c) BY DEF CalGood
<1>2. Shape(d) /\ Same(c, d) /\ Cal!Held(d) = Cal!Held(c) \cup {e} BY <1>1, CalDoInsert
<1>3. Cal!Inserted(c, e) = Cal!ResizeUp(f) BY DEF Cal!Inserted
<1> HIDE DEF d
<1>4. Position(d) BY <1>1, <1>2 DEF Position, Same
<1>5. /\ IsFiniteSet(Cal!Held(d)) /\ Cardinality(Cal!Held(d)) = c.m_qSize + 1
      /\ c.m_qSize \in Nat
  BY <1>1, <1>2, FS_AddElement, FS_CardinalityType DEF Counted
<1>6. q \in Int /\ q = Cardinality(Cal!Held(d)) BY <1>2, <1>5 DEF Same
<1> HIDE DEF q
<1>7. /\ Shape(f) /\ Cal!Held(f) = Cal!Held(d) /\ f.m_qSize = q
      /\ f.m_lastPrio = d.m_lastPrio /\ Position(f)
  BY <1>2, <1>4, <1>6, Recounted
<1> HIDE DEF f
<1>8. CalGood(f) BY <1>5, <1>6, <1>7 DEF CalGood, Counted
<1>9. Resized(f, Cal!ResizeUp(f)) BY <1>8, CalResizeUpDown
<1> QED BY <1>2, <1>3, <1>7, <1>9 DEF Resized, Same

LEMMA CalNextRemoved ==
  ASSUME NEW c, CalGood(c), Cal!Held(c) # {}
  PROVE  /\ IsEarliest(Cal!PeekNext(c), Cal!Held(c))
         /\ CalGood(Cal!NextRemoved(c))
         /\ Cal!Held(Cal!NextRemoved(c)) = Cal!Held(c) \ {Cal!PeekNext(c)}
         /\ Cal!NextRemoved(c).m_lastPrio = Cal!PeekNext(c).ts
<1> DEFINE e == Cal!PeekNext(c)
           d == Cal!DoRemoveNext(c)
           q == d.m_qSize - 1
           f == [d EXCEPT !.m_qSize = q]
<1>1. Shape(c) /\ Position(c) /\ Counted(c) BY DEF CalGood
<1>2. /\ IsEarliest(e, Cal!Held(c)) /\ Shape(d) /\ Position(d) /\ Kept(c, d)
      /\ d.m_lastPrio = e.ts /\ Cal!Held(d) = Cal!Held(c) \ {e}
  BY <1>1, CalDoRemoveNext
<1>3. Cal!NextRemoved(c) = Cal!ResizeDown(f) BY DEF Cal!NextRemoved
<1>e. e = Cal!PeekNext(c) OBVIOUS
<1> HIDE DEF d, e
<1>4. e \in Cal!Held(c) BY <1>2 DEF IsEarliest
<1>5. /\ IsFiniteSet(Cal!Held(d)) /\ Cardinality(Cal!Held(d)) = c.m_qSize - 1
      /\ c.m_qSize \in Nat
  BY <1>1, <1>2, <1>4, FS_RemoveElement, FS_CardinalityType DEF Counted
<1>6. q \in Int /\ q = Cardinality(Cal!Held(d)) BY <1>2, <1>5 DEF Kept
<1> HIDE DEF q
<1>7. /\ Shape(f) /\ Cal!Held(f) = Cal!Held(d) /\ f.m_qSize = q
      /\ f.m_lastPrio = d.m_lastPrio /\ Position(f)
  BY <1>2, <1>6, Recounted
<1> HIDE DEF f
<1>8. CalGood(f) BY <1>5, <1>6, <1>7 DEF CalGood, Counted
<1>9. Resized(f, Cal!ResizeDown(f)) BY <1>8, CalResizeUpDown
<1> QED BY <1>2, <1>3, <1>7, <1>9, <1>e DEF Resized

LEMMA CalTakenOut ==
  ASSUME NEW c, CalGood(c), NEW b \in 0 .. c.m_nBuckets - 1,
         NEW i \in 1 .. Len(c.m_buckets[b])
  PROVE  /\ CalGood(Cal!TakenOut(c, b, i))
         /\ Cal!Held(Cal!TakenOut(c, b, i)) = Cal!Held(c) \ {c.m_buckets[b][i]}
         /\ Cal!TakenOut(c, b, i).m_lastPrio = c.m_lastPrio
<1> DEFINE s == c.m_buckets[b]
           t == SE!RemoveAt(s, i)
           e == s[i]
           p == c.m_lastPrio
           l == c.m_lastBucket
           u == c.m_bucketTop
           q == c.m_qSize - 1
           f == [c EXCEPT !.m_buckets[b] = t, !.m_lastPrio = p, !.m_lastBucket = l,
                          !.m_bucketTop = u, !.m_qSize = q]
<1>1. Shape(c) /\ Position(c) /\ Counted(c) /\ c \in Cals BY DEF CalGood, Shape
<1>2. /\ c.m_buckets \in [0 .. c.m_nBuckets - 1 -> Seq(Events)]
      /\ p \in Nat /\ l \in Nat /\ u \in Nat
  BY <1>1, CalMembers
<1>3. s \in Seq(Events) /\ InOrder(c.m_reverse, s) BY <1>1, <1>2 DEF Shape
<1>4. Cal!TakenOut(c, b, i) = Cal!ResizeDown(f)
  <2>1. Cal!TakenOut(c, b, i) =
          Cal!ResizeDown([c EXCEPT !.m_buckets[b] = t, !.m_qSize = q])
    BY DEF Cal!TakenOut, Cal!SE!RemoveAt, SE!RemoveAt
  <2>2. [c EXCEPT !.m_buckets[b] = t, !.m_qSize = q] = f
    <3> HIDE DEF t, q
    <3> QED BY <1>1 DEF Cals
  <2> QED BY <2>1, <2>2
<1>5. t \in Seq(Events) /\ SE!ToSet(t) = SE!ToSet(s) \ {e} /\ InOrder(c.m_reverse, t)
  <2> HIDE DEF s
  <2>1. \A m, j \in 1 .. Len(s) : m # j => s[m] # s[j] BY <1>3, DistinctInOrder
  <2>2. i \in 1 .. Len(s) BY DEF s
  <2> QED BY <1>3, <2>1, <2>2, TakeOut
<1>6. e \in SE!ToSet(s) BY <1>3, ToSetElements
<1>7. SE!ToSet(s) \subseteq Cal!Held(c) BY <1>1, HeldElements
<1>8. /\ IsFiniteSet(Cal!Held(c) \ {e}) /\ Cardinality(Cal!Held(c) \ {e}) = q
      /\ q \in Int
  <2>1. IsFiniteSet(Cal!Held(c)) /\ c.m_qSize = Cardinality(Cal!Held(c)) /\ e \in Cal!Held(c)
    BY <1>1, <1>6, <1>7 DEF Counted
  <2> HIDE DEF e
  <2> QED BY <2>1, FS_RemoveElement, FS_CardinalityType
<1>9. \A x \in SE!ToSet(t) : Cal!Hash(c, x.ts) = b BY <1>1, <1>5 DEF Shape
<1>s. s = c.m_buckets[b] /\ p = c.m_lastPrio OBVIOUS
<1>10. f.m_buckets = [c.m_buckets EXCEPT ![b] = t] /\ f.m_nBuckets = c.m_nBuckets
       /\ f.m_width = c.m_width /\ f.m_reverse = c.m_reverse /\ f.m_lastPrio = c.m_lastPrio
       /\ f.m_lastBucket = c.m_lastBucket /\ f.m_bucketTop = c.m_bucketTop /\ f.m_qSize = q
  <2> HIDE DEF s, t, e, q
  <2> QED BY <1>1 DEF Cals
<1> HIDE DEF s, t, e, p, l, u, q
<1>11. f \in Cals BY <1>1, <1>2, <1>5, <1>8, CalChanged
<1> HIDE DEF f
<1>12. /\ Shape(f)
       /\ Cal!Held(f) = (Cal!Held(c) \ SE!ToSet(c.m_buckets[b])) \cup SE!ToSet(t)
  BY <1>1, <1>5, <1>9, <1>10, <1>11, BucketChanged
<1>13. Cal!Held(f) = Cal!Held(c) \ {e} BY <1>5, <1>6, <1>7, <1>12, <1>s
<1>14. Position(f) BY <1>1, <1>10, <1>13 DEF Position
<1>15. CalGood(f) BY <1>8, <1>10, <1>12, <1>13, <1>14 DEF CalGood, Counted
<1>16. Resized(f, Cal!ResizeDown(f)) BY <1>15, CalResizeUpDown
<1> QED BY <1>4, <1>10, <1>13, <1>16 DEF Resized, e, s


-----------------------------------------------------------------------------
(* The three schedulers alike.                                             *)

Good(t, s) ==
  /\ t \in Types
  /\ t = "list" => ListGood(s)
  /\ t = "heap" => HeapGood(s)
  /\ t = "calendar" => CalGood(s)

(* A calendar takes no event that is earlier than the one it gave back last. *)
Before(t, s, l) == t = "calendar" => s.m_lastPrio <= l

LEMMA TypesApart ==
  /\ \A t \in Types : t = "list" \/ t = "heap" \/ t = "calendar"
  /\ "list" # "heap" /\ "list" # "calendar" /\ "heap" # "calendar"
BY DEF Types

LEMMA GoodHeld ==
  ASSUME NEW t, NEW s, Good(t, s)
  PROVE  Held(t, s) \subseteq Events /\ IsFiniteSet(Held(t, s))
<1>1. CASE t = "calendar"
  <2>1. CalGood(s) /\ Held(t, s) = Cal!Held(s) BY <1>1 DEF Good, Held
  <2>2. s \in Cals /\ IsFiniteSet(Cal!Held(s)) BY <2>1 DEF CalGood, Shape, Counted
  <2> QED BY <2>1, <2>2, HeldElements
<1>2. CASE t # "calendar"
  <2>1. s \in Seq(Events) BY <1>2, TypesApart DEF Good, ListGood, HeapGood
  <2>2. Held(t, s) = SE!ToSet(s) BY <1>2 DEF Held
  <2>3. IsFiniteSet(SE!ToSet(s))
    <3>1. IsFiniteSet(1 .. Len(s))
      <4>1. 1 \in Int /\ Len(s) \in Int BY <2>1
      <4> QED BY <4>1, FS_Interval
    <3>2. \A x : x \in SE!ToSet(s) <=> \E i \in 1 .. Len(s) : x = s[i]
      BY <2>1, ToSetElements
    <3>3. s \in [1 .. Len(s) -> SE!ToSet(s)] BY <2>1, <3>2
    <3>4. s \in Surjection(1 .. Len(s), SE!ToSet(s)) BY <3>2, <3>3 DEF Surjection
    <3> QED BY <3>1, <3>4, FS_Surjection
  <2> QED BY <2>1, <2>2, <2>3, ToSetElements
<1> QED BY <1>1, <1>2

LEMMA GoodFresh ==
  ASSUME NEW t \in Types, NEW s \in Fresh(t)
  PROVE  Good(t, s) /\ Held(t, s) = {} /\ Before(t, s, 0) /\ s \in Seq(Events) \cup Cals
<1>1. CASE t = "calendar"
  <2>1. PICK r \in BOOLEAN : s = Cal!Calendar(2, 1, 0, 0, r) BY <1>1 DEF Fresh
  <2>2. /\ Shape(s) /\ Position(s) /\ Cal!Held(s) = {}
        /\ s.m_lastPrio = 0 /\ s.m_qSize = 0
    <3>1. 2 \in Nat \ {0} /\ 1 \in Nat \ {0} /\ 0 \in Nat /\ 0 \in Int OBVIOUS
    <3> QED BY <2>1, <3>1, FreshCalendar
  <2>3. CalGood(s) BY <2>2, FS_EmptySet DEF CalGood, Counted
  <2> QED BY <1>1, <2>2, <2>3, TypesApart DEF Good, Held, Before, Shape
<1>2. CASE t # "calendar"
  <2>1. s = <<>> BY <1>2 DEF Fresh
  <2>2. s \in Seq(Events) /\ Len(s) = 0 BY <2>1
  <2>3. ListGood(s) /\ HeapGood(s) BY <2>2 DEF ListGood, InOrder, HeapGood, Distinct
  <2>4. SE!ToSet(s) = {} BY <2>1, <2>2, ToSetElements
  <2> QED BY <1>2, <2>2, <2>3, <2>4 DEF Good, Held, Before
<1> QED BY <1>1, <1>2

LEMMA GoodInserted ==
  ASSUME NEW t, NEW s, Good(t, s), NEW e \in Events, e \notin Held(t, s), Before(t, s, e.ts)
  PROVE  /\ Good(t, Inserted(t, s, e))
         /\ Held(t, Inserted(t, s, e)) = Held(t, s) \cup {e}
         /\ \A l : Before(t, s, l) => Before(t, Inserted(t, s, e), l)
<1> DEFINE u == Inserted(t, s, e)
<1>1. CASE t = "list"
  <2>1. u = List!Inserted(s, e) BY <1>1 DEF Inserted
  <2>2. ListGood(s) /\ e \notin SE!ToSet(s) BY <1>1, TypesApart DEF Good, Held
  <2>3. ListGood(u) /\ SE!ToSet(u) = SE!ToSet(s) \cup {e} BY <2>1, <2>2, ListInserted
  <2> HIDE DEF u
  <2>4. t \in Types BY DEF Good
  <2> QED BY <1>1, <2>3, <2>4, TypesApart DEF Good, Held, Before, u
<1>2. CASE t = "heap"
  <2>1. u = Heap!Inserted(s, e) BY <1>2, TypesApart DEF Inserted
  <2>2. HeapGood(s) /\ e \notin SE!ToSet(s) BY <1>2, TypesApart DEF Good, Held
  <2>3. HeapGood(u) /\ SE!ToSet(u) = SE!ToSet(s) \cup {e} BY <2>1, <2>2, HeapInserted
  <2> HIDE DEF u
  <2>4. t \in Types BY DEF Good
  <2> QED BY <1>2, <2>3, <2>4, TypesApart DEF Good, Held, Before, u
<1>3. CASE t = "calendar"
  <2>1. u = Cal!Inserted(s, e) BY <1>3, TypesApart DEF Inserted
  <2>2. CalGood(s) /\ e \notin Cal!Held(s) /\ s.m_lastPrio <= e.ts
    BY <1>3, TypesApart DEF Good, Held, Before
  <2>3. CalGood(u) /\ Cal!Held(u) = Cal!Held(s) \cup {e} /\ u.m_lastPrio = s.m_lastPrio
    BY <2>1, <2>2, CalInserted
  <2> HIDE DEF u
  <2>4. t \in Types BY DEF Good
  <2> QED BY <1>3, <2>3, <2>4, TypesApart DEF Good, Held, Before, u
<1> QED BY <1>1, <1>2, <1>3, TypesApart DEF Good

LEMMA GoodNextRemoved ==
  ASSUME NEW t, NEW s, Good(t, s), Held(t, s) # {}
  PROVE  /\ IsEarliest(PeekNext(t, s), Held(t, s))
         /\ Good(t, NextRemoved(t, s))
         /\ Held(t, NextRemoved(t, s)) = Held(t, s) \ {PeekNext(t, s)}
         /\ PeekNext(t, s) \in Events
         /\ Before(t, NextRemoved(t, s), PeekNext(t, s).ts)
<1> DEFINE u == NextRemoved(t, s)
           e == PeekNext(t, s)
<1>0. t \in Types BY DEF Good
<1>1. CASE t = "list"
  <2>1. u = List!NextRemoved(s) /\ e = List!PeekNext(s) BY <1>1 DEF NextRemoved, PeekNext
  <2>2. ListGood(s) /\ SE!ToSet(s) # {} BY <1>1, TypesApart DEF Good, Held
  <2>3. s # <<>> BY <2>2, ToSetElements DEF ListGood
  <2>4. ListGood(u) /\ SE!ToSet(u) = SE!ToSet(s) \ {e} /\ IsEarliest(e, SE!ToSet(s))
    BY <2>1, <2>2, <2>3, ListNextRemoved
  <2> HIDE DEF u, e
  <2>5. Held(t, s) = SE!ToSet(s) /\ Held(t, u) = SE!ToSet(u) /\ Good(t, u)
    BY <1>0, <1>1, <2>4, TypesApart DEF Good, Held
  <2>6. Held(t, s) \subseteq Events /\ e \in Held(t, s) BY <2>4, <2>5, GoodHeld DEF IsEarliest
  <2>7. Before(t, u, e.ts) BY <1>1, TypesApart DEF Before
  <2> QED BY <2>4, <2>5, <2>6, <2>7 DEF u, e
<1>2. CASE t = "heap"
  <2>1. u = Heap!NextRemoved(s) /\ e = Heap!PeekNext(s)
    BY <1>2, TypesApart DEF NextRemoved, PeekNext
  <2>2. HeapGood(s) /\ SE!ToSet(s) # {} BY <1>2, TypesApart DEF Good, Held
  <2>3. s # <<>> BY <2>2, ToSetElements DEF HeapGood
  <2>4. HeapGood(u) /\ SE!ToSet(u) = SE!ToSet(s) \ {e} /\ IsEarliest(e, SE!ToSet(s))
    BY <2>1, <2>2, <2>3, HeapNextRemoved
  <2> HIDE DEF u, e
  <2>5. Held(t, s) = SE!ToSet(s) /\ Held(t, u) = SE!ToSet(u) /\ Good(t, u)
    BY <1>0, <1>2, <2>4, TypesApart DEF Good, Held
  <2>6. Held(t, s) \subseteq Events /\ e \in Held(t, s) BY <2>4, <2>5, GoodHeld DEF IsEarliest
  <2>7. Before(t, u, e.ts) BY <1>2, TypesApart DEF Before
  <2> QED BY <2>4, <2>5, <2>6, <2>7 DEF u, e
<1>3. CASE t = "calendar"
  <2>1. u = Cal!NextRemoved(s) /\ e = Cal!PeekNext(s)
    BY <1>3, TypesApart DEF NextRemoved, PeekNext
  <2>2. CalGood(s) /\ Cal!Held(s) # {} BY <1>3, TypesApart DEF Good, Held
  <2>3. /\ CalGood(u) /\ Cal!Held(u) = Cal!Held(s) \ {e} /\ IsEarliest(e, Cal!Held(s))
        /\ u.m_lastPrio = e.ts
    BY <2>1, <2>2, CalNextRemoved
  <2> HIDE DEF u, e
  <2>4. Held(t, s) = Cal!Held(s) /\ Held(t, u) = Cal!Held(u) /\ Good(t, u)
    BY <1>0, <1>3, <2>3, TypesApart DEF Good, Held
  <2>5. Held(t, s) \subseteq Events /\ e \in Held(t, s) BY <2>3, <2>4, GoodHeld DEF IsEarliest
  <2>6. e.ts \in Nat BY <2>5, KeyTime
  <2>7. Before(t, u, e.ts) BY <2>3, <2>6 DEF Before
  <2> QED BY <2>3, <2>4, <2>5, <2>7 DEF u, e
<1> QED BY <1>0, <1>1, <1>2, <1>3, TypesApart

LEMMA GoodStored ==
  ASSUME NEW t, NEW s, Good(t, s)
  PROVE  s \in Seq(Events) \cup Cals
BY TypesApart DEF Good, ListGood, HeapGood, CalGood, Shape


-----------------------------------------------------------------------------
(* SetScheduler: after every round the events are in the old or the new    *)
(* scheduler, and at the end all of them are in the new one.                *)

LEMMA MovedAll ==
  ASSUME Good(type, store), NEW t \in Types, NEW fresh \in Fresh(t)
  PROVE  LET s == Moved(t, fresh, Cardinality(Contents))
         IN Good(t, s) /\ Held(t, s) = Contents /\ Before(t, s, 0)
<1> DEFINE L == Cardinality(Contents)
           Stores == Seq(Events) \cup Cals
           U == [old : Stores, new : Stores]
           a == [old |-> store, new |-> fresh]
           round[n \in 0 .. L] == IF n = 0 THEN a ELSE Move(t, round[n - 1])
           Half(m, n) ==
             /\ Good(type, m.old) /\ Good(t, m.new) /\ Before(t, m.new, 0)
             /\ \A e \in Held(type, m.old) : e \notin Held(t, m.new)
             /\ Held(type, m.old) \cup Held(t, m.new) = Contents
             /\ Cardinality(Held(type, m.old)) = L - n
           T == [n \in 0 .. L |-> {m \in U : Half(m, n)}]
           G == [n \in 1 .. L |-> [m \in U |-> Move(t, m)]]
<1>1. Moved(t, fresh, L) = round[L].new BY DEF Moved
<1>f. Contents \subseteq Events /\ IsFiniteSet(Contents) BY GoodHeld DEF Contents
<1>2. L \in Nat BY <1>f, FS_CardinalityType
<1>l. L = Cardinality(Contents) OBVIOUS
<1> HIDE DEF L
<1>3. a \in T[0]
  <2>1. Good(t, fresh) /\ Held(t, fresh) = {} /\ Before(t, fresh, 0) /\ fresh \in Stores
    BY GoodFresh
  <2>2. store \in Stores BY GoodStored
  <2> HIDE DEF Stores
  <2>3. Held(type, store) = Contents BY DEF Contents
  <2>4. a.old = store /\ a.new = fresh /\ a \in U BY <2>1, <2>2
  <2>5. Cardinality(Held(type, store)) = L - 0 BY <1>l, <1>2, <2>3
  <2> HIDE DEF a
  <2>6. Half(a, 0) BY <2>1, <2>3, <2>4, <2>5
  <2> QED BY <1>2, <2>4, <2>6
<1>4. ASSUME NEW n \in 1 .. L, NEW m \in U, m \in T[n - 1]
      PROVE  Move(t, m) \in T[n]
  <2> DEFINE o == m.old
             w == m.new
             e == PeekNext(type, o)
             p == NextRemoved(type, o)
             x == Inserted(t, w, e)
  <2>1. n - 1 \in 0 .. L /\ n \in 0 .. L BY <1>2
  <2>2. Half(m, n - 1) BY <1>4, <2>1
  <2>3. Move(t, m) = [old |-> p, new |-> x] BY DEF Move
  <2>4. /\ Good(type, o) /\ Good(t, w) /\ Before(t, w, 0)
        /\ \A y \in Held(type, o) : y \notin Held(t, w)
        /\ Held(type, o) \cup Held(t, w) = Contents
        /\ Cardinality(Held(type, o)) = L - (n - 1)
    BY <2>2
  <2> HIDE DEF o, w, Half
  <2>5. IsFiniteSet(Held(type, o)) BY <2>4, GoodHeld
  <2>6. Held(type, o) # {}
    <3>1. L - (n - 1) # 0 BY <1>2
    <3> QED BY <3>1, <2>4, <2>5, FS_EmptySet
  <2>7. /\ IsEarliest(e, Held(type, o)) /\ Good(type, p)
        /\ Held(type, p) = Held(type, o) \ {e} /\ e \in Events
    BY <2>4, <2>6, GoodNextRemoved
  <2> HIDE DEF e, p
  <2>8. e \in Held(type, o) BY <2>7 DEF IsEarliest
  <2>9. Before(t, w, e.ts)
    <3>1. CASE t = "calendar"
      <4>1. CalGood(w) /\ w.m_lastPrio <= 0 BY <3>1, <2>4 DEF Good, Before
      <4>2. w.m_lastPrio \in Nat BY <4>1, CalMembers DEF CalGood, Shape
      <4>3. e.ts \in Nat BY <2>7, KeyTime
      <4>4. w.m_lastPrio <= e.ts BY <4>1, <4>2, <4>3
      <4> QED BY <4>4 DEF Before
    <3>2. CASE t # "calendar" BY <3>2 DEF Before
    <3> QED BY <3>1, <3>2
  <2>10. e \notin Held(t, w) BY <2>4, <2>8
  <2>11. /\ Good(t, x) /\ Held(t, x) = Held(t, w) \cup {e} /\ Before(t, x, 0)
    BY <2>4, <2>7, <2>9, <2>10, GoodInserted
  <2> HIDE DEF x
  <2>12. Cardinality(Held(type, p)) = L - n
    <3>1. Cardinality(Held(type, o) \ {e}) = Cardinality(Held(type, o)) - 1
      BY <2>5, <2>8, FS_RemoveElement
    <3>2. L - (n - 1) - 1 = L - n BY <1>2
    <3> QED BY <3>1, <3>2, <2>4, <2>7
  <2>13. /\ \A y \in Held(type, p) : y \notin Held(t, x)
         /\ Held(type, p) \cup Held(t, x) = Contents
    BY <2>4, <2>7, <2>8, <2>11
  <2>14. p \in Stores /\ x \in Stores BY <2>7, <2>11, GoodStored
  <2> HIDE DEF Stores
  <2>15. [old |-> p, new |-> x] \in U BY <2>14
  <2>16. Half([old |-> p, new |-> x], n) BY <2>7, <2>11, <2>12, <2>13 DEF Half
  <2> QED BY <2>1, <2>3, <2>15, <2>16
<1> HIDE DEF Half, Stores
<1>5. /\ \A n \in 0 .. L : \A m \in T[n] : m \in U
      /\ \A n \in 1 .. L : \A m \in U : G[n][m] = Move(t, m)
  OBVIOUS
<1>6. PICK f : Loop(f, L, a, G) /\ \A n \in 0 .. L : f[n] \in T[n]
  <2>1. \A n \in 1 .. L : \A m \in T[n - 1] : G[n][m] \in T[n]
    <3> SUFFICES ASSUME NEW n \in 1 .. L, NEW m \in T[n - 1] PROVE G[n][m] \in T[n]
      OBVIOUS
    <3>1. n - 1 \in 0 .. L BY <1>2
    <3>2. m \in U BY <1>5, <3>1
    <3>3. G[n][m] = Move(t, m) BY <3>2, <1>5
    <3> HIDE DEF T, U
    <3> QED BY <3>2, <3>3, <1>4
  <2> HIDE DEF a, G, T
  <2> QED BY <2>1, <1>2, <1>3, LoopExists
<1>7. f = [n \in 0 .. L |-> IF n = 0 THEN a ELSE Move(t, f[n - 1])]
  <2>1. \A n \in 0 .. L : f[n] \in U BY <1>5, <1>6
  <2>2. \A n \in 1 .. L : f[n] = Move(t, f[n - 1])
    <3> SUFFICES ASSUME NEW n \in 1 .. L PROVE f[n] = Move(t, f[n - 1]) OBVIOUS
    <3>1. f[n] = G[n][f[n - 1]] BY <1>6 DEF Loop
    <3>2. f[n - 1] \in U
      <4>1. n - 1 \in 0 .. L BY <1>2
      <4> QED BY <2>1, <4>1
    <3> HIDE DEF U, G, T
    <3> QED BY <3>1, <3>2, <1>5
  <2>3. f[0] = a /\ f = [n \in 0 .. L |-> f[n]] BY <1>6 DEF Loop
  <2> DEFINE g == [n \in 0 .. L |-> IF n = 0 THEN a ELSE Move(t, f[n - 1])]
  <2>4. g[0] = a /\ \A n \in 1 .. L : g[n] = Move(t, f[n - 1])
    <3> HIDE DEF a
    <3> QED BY <1>2
  <2>5. g = [n \in 0 .. L |-> g[n]] OBVIOUS
  <2>6. f = g
    <3> HIDE DEF g, a
    <3>1. f[0] = g[0] /\ \A n \in 1 .. L : f[n] = g[n] BY <2>2, <2>3, <2>4
    <3>2. \A n \in 0 .. L : n = 0 \/ n \in 1 .. L BY <1>2
    <3>3. \A n \in 0 .. L : f[n] = g[n] BY <3>1, <3>2
    <3> QED BY <2>3, <2>5, <3>3
  <2> QED BY <2>6
<1>8. round = [n \in 0 .. L |-> IF n = 0 THEN a ELSE Move(t, round[n - 1])]
  BY <1>7, Zenon
<1> HIDE DEF round
<1>9. round[0] = a /\ \A n \in 1 .. L : round[n] = Move(t, round[n - 1])
  <2> HIDE DEF a
  <2> QED BY <1>2, <1>8
<1>10. \A n \in 0 .. L : round[n] \in T[n]
  <2>1. \A n \in 1 .. L : round[n - 1] \in T[n - 1] => round[n] \in T[n]
    <3> SUFFICES ASSUME NEW n \in 1 .. L, round[n - 1] \in T[n - 1] PROVE round[n] \in T[n]
      OBVIOUS
    <3>1. round[n - 1] \in U
      <4>1. n - 1 \in 0 .. L BY <1>2
      <4> HIDE DEF T, U
      <4> QED BY <1>5, <4>1
    <3> HIDE DEF T, U, a
    <3> QED BY <3>1, <1>4, <1>9
  <2> HIDE DEF T, a
  <2> QED BY <2>1, <1>2, <1>3, <1>9, Along
<1>11. round[L] \in U /\ Half(round[L], L)
  <2>1. L \in 0 .. L BY <1>2
  <2>2. round[L] \in T[L] BY <1>10, <2>1
  <2> QED BY <2>1, <2>2
<1> DEFINE m == round[L]
<1>m. m = round[L] OBVIOUS
<1> HIDE DEF m
<1>12. /\ Good(type, m.old) /\ Good(t, m.new) /\ Before(t, m.new, 0)
       /\ Held(type, m.old) \cup Held(t, m.new) = Contents
       /\ Cardinality(Held(type, m.old)) = L - L
  BY <1>11, <1>m DEF Half
<1>13. Held(type, m.old) = {}
  <2>1. L - L = 0 BY <1>2
  <2>2. IsFiniteSet(Held(type, m.old)) BY <1>12, GoodHeld
  <2> QED BY <1>12, <2>1, <2>2, FS_EmptySet
<1>14. Held(t, m.new) = Contents BY <1>12, <1>13
<1> QED BY <1>1, <1>12, <1>14, <1>m, <1>l

-----------------------------------------------------------------------------
(* The event queue.                                                        *)

(* The inductive invariant: the data structure in use is in order, a        *)
(* calendar is not past the event removed last, and nothing in the queue    *)
(* is earlier than that event.                                              *)
IInv ==
  /\ Good(type, store)
  /\ Before(type, store, last.ts)
  /\ last \in Events \cup {Start}
  /\ \A e \in Contents : KeyLess(last, e)

LEMMA InitIInv ==
  ASSUME Init
  PROVE  IInv /\ EL!Init
<1>1. type \in Types /\ store \in Fresh(type) /\ last = Start
  BY TypesApart DEF Init, List!Init, Heap!Init, Cal!Init, Fresh, Types, Start,
     List!Start, Heap!Start, Cal!Start
<1>2. Good(type, store) /\ Held(type, store) = {} /\ Before(type, store, 0)
  BY <1>1, GoodFresh
<1>3. last.ts = 0 BY <1>1 DEF Start
<1>4. Contents = {} BY <1>2 DEF Contents
<1>5. EL!Init BY <1>1, <1>4 DEF EL!Init, EL!Start, Start
<1> QED BY <1>1, <1>2, <1>3, <1>4, <1>5 DEF IInv

(* Every call leads to a state with the invariant, and does to Contents     *)
(* what the event list promises.                                            *)
LEMMA InsertStep ==
  ASSUME IInv, NEW ev \in Events, Insert(ev)
  PROVE  IInv' /\ EL!Insert(ev)
<1>1. /\ ev \notin Contents /\ KeyLess(last, ev) /\ store' = Inserted(type, store, ev)
      /\ type' = type /\ last' = last
  <2>1. CASE type = "list" /\ List!Insert(ev)
    <3>1. Contents = SE!ToSet(store) /\ Inserted(type, store, ev) = List!Inserted(store, ev)
      BY <2>1, TypesApart DEF Contents, Held, Inserted
    <3> QED BY <2>1, <3>1 DEF Insert, List!Insert, List!SE!ToSet, SE!ToSet, List!KeyLess, KeyLess
  <2>2. CASE type = "heap" /\ Heap!Insert(ev)
    <3>1. Contents = SE!ToSet(store) /\ Inserted(type, store, ev) = Heap!Inserted(store, ev)
      BY <2>2, TypesApart DEF Contents, Held, Inserted
    <3> QED BY <2>2, <3>1 DEF Insert, Heap!Insert, Heap!SE!ToSet, SE!ToSet, Heap!KeyLess, KeyLess
  <2>3. CASE type = "calendar" /\ Cal!Insert(ev)
    <3>1. Contents = Cal!Held(store) /\ Inserted(type, store, ev) = Cal!Inserted(store, ev)
      BY <2>3, TypesApart DEF Contents, Held, Inserted
    <3> QED BY <2>3, <3>1 DEF Insert, Cal!Insert, Cal!Contents, Cal!KeyLess, KeyLess
  <2> QED BY <2>1, <2>2, <2>3 DEF Insert
<1>2. /\ Good(type, store) /\ Before(type, store, last.ts) /\ last \in Events \cup {Start}
      /\ \A e \in Contents : KeyLess(last, e)
  BY DEF IInv
<1>3. Before(type, store, ev.ts)
  <2>1. last.ts <= ev.ts /\ last.ts \in Nat /\ ev.ts \in Nat BY <1>1, <1>2, KeyTime
  <2>2. CASE type = "calendar"
    <3>1. store.m_lastPrio <= last.ts BY <1>2, <2>2 DEF Before
    <3>2. store.m_lastPrio \in Nat BY <1>2, <2>2, CalMembers DEF Good, CalGood, Shape
    <3>3. store.m_lastPrio <= ev.ts BY <2>1, <3>1, <3>2
    <3> QED BY <3>3 DEF Before
  <2>3. CASE type # "calendar" BY <2>3 DEF Before
  <2> QED BY <2>2, <2>3
<1>4. ev \notin Held(type, store) /\ Contents' = Held(type, store') BY <1>1 DEF Contents
<1>5. /\ Good(type, store') /\ Held(type, store') = Held(type, store) \cup {ev}
      /\ Before(type, store', last.ts)
  BY <1>1, <1>2, <1>3, <1>4, GoodInserted
<1>6. Contents' = Contents \cup {ev} BY <1>4, <1>5 DEF Contents
<1>7. IInv' BY <1>1, <1>2, <1>5, <1>6 DEF IInv
<1> QED BY <1>1, <1>6, <1>7 DEF EL!Insert, EL!KeyLess, KeyLess

LEMMA RemoveNextStep ==
  ASSUME IInv, RemoveNext
  PROVE  IInv' /\ EL!RemoveNext
<1>1. /\ Good(type, store) /\ Before(type, store, last.ts) /\ last \in Events \cup {Start}
  BY DEF IInv
<1>2. /\ Contents # {} /\ last' = PeekNext(type, store)
      /\ store' = NextRemoved(type, store) /\ type' = type
  <2>1. CASE type = "list" /\ List!RemoveNext
    <3>1. /\ Contents = SE!ToSet(store) /\ NextRemoved(type, store) = List!NextRemoved(store)
          /\ PeekNext(type, store) = List!PeekNext(store)
      BY <2>1, TypesApart DEF Contents, Held, NextRemoved, PeekNext
    <3>2. store \in Seq(Events) BY <1>1, <2>1 DEF Good, ListGood
    <3> QED BY <2>1, <3>1, <3>2, ToSetElements DEF RemoveNext, List!RemoveNext
  <2>2. CASE type = "heap" /\ Heap!RemoveNext
    <3>1. /\ Contents = SE!ToSet(store) /\ NextRemoved(type, store) = Heap!NextRemoved(store)
          /\ PeekNext(type, store) = Heap!PeekNext(store)
      BY <2>2, TypesApart DEF Contents, Held, NextRemoved, PeekNext
    <3>2. store \in Seq(Events) BY <1>1, <2>2 DEF Good, HeapGood
    <3> QED BY <2>2, <3>1, <3>2, ToSetElements DEF RemoveNext, Heap!RemoveNext
  <2>3. CASE type = "calendar" /\ Cal!RemoveNext
    <3>1. /\ Contents = Cal!Held(store) /\ NextRemoved(type, store) = Cal!NextRemoved(store)
          /\ PeekNext(type, store) = Cal!PeekNext(store)
      BY <2>3, TypesApart DEF Contents, Held, NextRemoved, PeekNext
    <3>2. Counted(store) BY <1>1, <2>3 DEF Good, CalGood
    <3>3. store.m_qSize # 0 BY <2>3 DEF Cal!RemoveNext
    <3>4. Cal!Held(store) # {} BY <3>2, <3>3, FS_EmptySet DEF Counted
    <3> QED BY <2>3, <3>1, <3>4 DEF RemoveNext, Cal!RemoveNext
  <2> QED BY <2>1, <2>2, <2>3 DEF RemoveNext
<1> DEFINE e == PeekNext(type, store)
<1>3. Held(type, store) = Contents /\ Contents' = Held(type, store') BY <1>2 DEF Contents
<1>4. /\ IsEarliest(e, Contents) /\ Good(type, store') /\ Held(type, store') = Contents \ {e}
      /\ e \in Events /\ Before(type, store', e.ts)
  BY <1>1, <1>2, <1>3, GoodNextRemoved
<1>e. last' = e BY <1>2
<1> HIDE DEF e
<1>5. Contents' = Contents \ {e} BY <1>3, <1>4
<1>6. \A f \in Contents' : KeyLess(e, f) BY <1>4, <1>5 DEF IsEarliest
<1>7. IInv' BY <1>2, <1>4, <1>6, <1>e DEF IInv
<1>8. e \in Contents BY <1>4 DEF IsEarliest
<1> QED BY <1>4, <1>5, <1>7, <1>8, <1>e
    DEF EL!RemoveNext, EL!IsEarliest, IsEarliest, EL!KeyLess, KeyLess

LEMMA RemoveStep ==
  ASSUME IInv, NEW ev \in Events, Remove(ev)
  PROVE  IInv' /\ EL!Remove(ev)
<1>1. /\ Good(type, store) /\ Before(type, store, last.ts) /\ last \in Events \cup {Start}
      /\ \A e \in Contents : KeyLess(last, e)
  BY DEF IInv
<1>u. \A e \in Events : e.uid = ev.uid => e = ev BY EventsAssumption
<1>2. /\ ev \in Contents /\ Good(type, store') /\ Held(type, store') = Contents \ {ev}
      /\ Before(type, store', last.ts) /\ type' = type /\ last' = last
  <2>1. CASE type = "list" /\ List!Remove(ev)
    <3>1. PICK i \in 1 .. Len(store) : store[i].uid = ev.uid /\ store' = SE!RemoveAt(store, i)
      BY <2>1 DEF List!Remove, List!SE!RemoveAt, SE!RemoveAt
    <3>2. ListGood(store) /\ store \in Seq(Events) BY <1>1, <2>1 DEF Good, ListGood
    <3>3. store[i] = ev BY <1>u, <3>1, <3>2
    <3>4. ev \in SE!ToSet(store) BY <3>2, <3>3, ToSetElements
    <3>5. ListGood(store') /\ SE!ToSet(store') = SE!ToSet(store) \ {ev}
      BY <3>1, <3>2, <3>3, ListTakenOut
    <3>6. type' = type /\ last' = last BY <2>1 DEF Remove, List!Remove
    <3> QED BY <1>1, <2>1, <3>4, <3>5, <3>6, TypesApart DEF Contents, Held, Good, Before, Types
  <2>2. CASE type = "heap" /\ Heap!Remove(ev)
    <3>1. PICK i \in 1 .. Len(store) :
            store[i].uid = ev.uid /\ store' = Heap!TakenOut(store, i)
      BY <2>2 DEF Heap!Remove
    <3>2. HeapGood(store) /\ store \in Seq(Events) BY <1>1, <2>2 DEF Good, HeapGood
    <3>3. store[i] = ev BY <1>u, <3>1, <3>2
    <3>4. ev \in SE!ToSet(store) BY <3>2, <3>3, ToSetElements
    <3>5. Fits(store, i)
      <4>1. Len(store) <= MaxRemove BY <2>2 DEF Heap!Remove
      <4>2. Len(store) \in Nat BY <3>2
      <4>3. Len(store) <= 5 BY <4>1, <4>2, MaxRemoveAssumption
      <4> QED BY <3>2, <4>3, SmallHeapFits
    <3>6. HeapGood(store') /\ SE!ToSet(store') = SE!ToSet(store) \ {ev}
      BY <3>1, <3>2, <3>3, <3>5, HeapTakenOut
    <3>7. type' = type /\ last' = last BY <2>2 DEF Remove, Heap!Remove
    <3> QED BY <1>1, <2>2, <3>4, <3>6, <3>7, TypesApart DEF Contents, Held, Good, Before, Types
  <2>3. CASE type = "calendar" /\ Cal!Remove(ev)
    <3> DEFINE b == Cal!Hash(store, ev.ts)
               s == store.m_buckets[b]
    <3>1. CalGood(store) /\ store \in Cals BY <1>1, <2>3 DEF Good, CalGood, Shape
    <3>2. b \in 0 .. store.m_nBuckets - 1
      <4>1. ev.ts \in Nat BY KeyTime
      <4> QED BY <3>1, <4>1, HashBucket
    <3>3. s \in Seq(Events)
      <4> HIDE DEF b
      <4> QED BY <3>1, <3>2, CalMembers
    <3>4. DOMAIN s = 1 .. Len(s) BY <3>3
    <3>5. PICK i \in 1 .. Len(s) : s[i].uid = ev.uid /\ store' = Cal!TakenOut(store, b, i)
      BY <2>3, <3>4 DEF Cal!Remove
    <3> HIDE DEF b
    <3>6. s[i] = ev BY <1>u, <3>3, <3>5
    <3>7. ev \in Cal!Held(store)
      <4>1. ev \in SE!ToSet(s) BY <3>3, <3>6, ToSetElements
      <4> QED BY <3>1, <3>2, <4>1, HeldElements
    <3>8. /\ CalGood(store') /\ Cal!Held(store') = Cal!Held(store) \ {ev}
          /\ store'.m_lastPrio = store.m_lastPrio
      <4> DEFINE u == Cal!TakenOut(store, b, i)
      <4>1. /\ CalGood(u) /\ Cal!Held(u) = Cal!Held(store) \ {store.m_buckets[b][i]}
            /\ u.m_lastPrio = store.m_lastPrio
        <5>1. \A k \in 1 .. Len(store.m_buckets[b]) :
                /\ CalGood(Cal!TakenOut(store, b, k))
                /\ Cal!Held(Cal!TakenOut(store, b, k)) = Cal!Held(store) \ {store.m_buckets[b][k]}
                /\ Cal!TakenOut(store, b, k).m_lastPrio = store.m_lastPrio
          BY <3>1, <3>2, CalTakenOut
        <5> QED BY <5>1
      <4>2. store' = u /\ store.m_buckets[b][i] = ev BY <3>5, <3>6
      <4> HIDE DEF u
      <4> QED BY <4>1, <4>2
    <3>9. type' = type /\ last' = last BY <2>3 DEF Remove, Cal!Remove
    <3> QED BY <1>1, <2>3, <3>7, <3>8, <3>9, TypesApart DEF Contents, Held, Good, Before, Types
  <2> QED BY <2>1, <2>2, <2>3 DEF Remove
<1>3. Contents' = Contents \ {ev} BY <1>2 DEF Contents
<1>4. IInv' BY <1>1, <1>2, <1>3 DEF IInv
<1> QED BY <1>2, <1>3, <1>4 DEF EL!Remove

LEMMA SetSchedulerStep ==
  ASSUME IInv, NEW t \in Types, SetScheduler(t)
  PROVE  IInv' /\ Contents' = Contents /\ last' = last
<1>1. /\ Good(type, store) /\ last \in Events \cup {Start}
      /\ \A e \in Contents : KeyLess(last, e)
  BY DEF IInv
<1>2. PICK fresh \in Fresh(t) : store' = Moved(t, fresh, Cardinality(Contents))
  BY DEF SetScheduler
<1>3. type' = t /\ last' = last BY DEF SetScheduler
<1>4. Good(t, store') /\ Held(t, store') = Contents /\ Before(t, store', 0)
  BY <1>1, <1>2, MovedAll
<1>5. Contents' = Contents BY <1>3, <1>4 DEF Contents
<1>6. Before(t, store', last.ts)
  <2>1. last.ts \in Nat BY <1>1, EventsAssumption DEF Start
  <2>2. CASE t = "calendar"
    <3>1. store'.m_lastPrio <= 0 BY <1>4, <2>2 DEF Before
    <3>2. store'.m_lastPrio \in Nat BY <1>4, <2>2, CalMembers DEF Good, CalGood, Shape
    <3>3. store'.m_lastPrio <= last.ts BY <2>1, <3>1, <3>2
    <3> QED BY <3>3 DEF Before
  <2>3. CASE t # "calendar" BY <2>3 DEF Before
  <2> QED BY <2>2, <2>3
<1>7. IInv' BY <1>1, <1>3, <1>4, <1>5, <1>6 DEF IInv
<1> QED BY <1>3, <1>5, <1>7

LEMMA NextStep ==
  ASSUME IInv, [Next]_vars
  PROVE  /\ IInv'
         /\ [EL!Next]_<<Contents, last>>
         /\ type' # type => Contents' = Contents
<1>1. ASSUME NEW ev \in Events, Insert(ev)
      PROVE  IInv' /\ EL!Next /\ type' = type
  BY <1>1, InsertStep DEF EL!Next, Insert
<1>2. ASSUME NEW ev \in Events, Remove(ev)
      PROVE  IInv' /\ EL!Next /\ type' = type
  BY <1>2, RemoveStep DEF EL!Next, Remove
<1>3. ASSUME RemoveNext PROVE IInv' /\ EL!Next /\ type' = type
  BY <1>3, RemoveNextStep DEF EL!Next, RemoveNext
<1>4. ASSUME NEW t \in Types, SetScheduler(t)
      PROVE  IInv' /\ Contents' = Contents /\ last' = last
  BY <1>4, SetSchedulerStep
<1>5. ASSUME UNCHANGED vars PROVE IInv' /\ Contents' = Contents /\ last' = last /\ type' = type
  BY <1>5 DEF vars, IInv, Contents
<1> QED BY <1>1, <1>2, <1>3, <1>4, <1>5 DEF Next

LEMMA IInvRepresentation ==
  ASSUME IInv
  PROVE  RepresentationHolds
<1>1. /\ Good(type, store) /\ \A e \in Contents : KeyLess(last, e) BY DEF IInv
<1>2. ASSUME type = "list" PROVE List!Sorted
  <2>1. store \in Seq(Events) /\ InOrder(FALSE, store) BY <1>1, <1>2 DEF Good, ListGood
  <2>2. Contents = SE!ToSet(store) BY <1>2, TypesApart DEF Contents, Held
  <2>3. \A i \in 1 .. Len(store) : KeyLess(last, store[i]) BY <1>1, <2>1, <2>2, ToSetElements
  <2>4. \A i, j \in 1 .. Len(store) : i < j => KeyLess(store[i], store[j])
    BY <2>1 DEF InOrder, Ord
  <2> QED BY <2>3, <2>4 DEF List!Sorted, List!KeyLess, KeyLess
<1>3. ASSUME type = "heap" PROVE Heap!HeapOrdered
  <2>1. HeapGood(store) BY <1>1, <1>3 DEF Good
  <2> QED BY <2>1, HeapKeys DEF HeapGood, Heap!HeapOrdered
<1>4. ASSUME type = "calendar" PROVE Cal!QSizeIsExact /\ Cal!PositionIsExact
  <2>1. Shape(store) /\ Position(store) /\ Counted(store) /\ store \in Cals
    BY <1>1, <1>4 DEF Good, CalGood, Shape
  <2>2. DOMAIN store.m_buckets = 0 .. store.m_nBuckets - 1 BY <2>1, CalMembers
  <2>3. Cal!QSizeIsExact
    <3>1. store.m_qSize = Cal!Cardinality(Cal!Contents)
      <4>1. store.m_qSize = Cardinality(Cal!Held(store)) BY <2>1 DEF Counted
      <4> QED BY <4>1 DEF Cal!Contents, Cal!Cardinality, Cardinality
    <3>2. \A b \in DOMAIN store.m_buckets :
            \A e \in SE!ToSet(store.m_buckets[b]) : Cal!Hash(store, e.ts) = b
      BY <2>1, <2>2 DEF Shape
    <3>3. \A b : Cal!SE!ToSet(store.m_buckets[b]) = SE!ToSet(store.m_buckets[b])
      BY DEF Cal!SE!ToSet, SE!ToSet
    <3> QED BY <3>1, <3>2, <3>3 DEF Cal!QSizeIsExact
  <2>4. /\ store.m_lastPrio < store.m_bucketTop
        /\ store.m_bucketTop <= store.m_lastPrio + store.m_width
    <3> DEFINE p == store.m_lastPrio
               w == store.m_width
               q == p \div w
    <3>1. p \in Nat /\ w \in Nat \ {0} BY <2>1, CalMembers
    <3>2. q \in Nat /\ q * w <= p /\ p < (q + 1) * w BY <3>1, SlotBounds
    <3>3. store.m_bucketTop = (q + 1) * w BY <2>1 DEF Position
    <3> HIDE DEF p, w, q
    <3>4. (q + 1) * w = q * w + w BY <3>1, <3>2
    <3> DEFINE z == q * w
    <3>5. z \in Nat /\ z <= p /\ p < z + w /\ store.m_bucketTop = z + w
      BY <3>1, <3>2, <3>3, <3>4
    <3> HIDE DEF z
    <3> QED BY <3>1, <3>5 DEF p, w
  <2>5. store.m_lastBucket = Cal!Hash(store, store.m_lastPrio)
    BY <2>1 DEF Position, Cal!Hash
  <2>6. \A e \in Cal!Held(store) : store.m_lastPrio <= e.ts BY <2>1 DEF Position
  <2>7. Cal!PositionIsExact BY <2>4, <2>5, <2>6 DEF Cal!PositionIsExact, Cal!Contents
  <2> QED BY <2>3, <2>7
<1> QED BY <1>2, <1>3, <1>4 DEF RepresentationHolds

(* Through inserts, removals and replacements of the scheduler, in any      *)
(* order: a list stays sorted, a heap stays ordered, and a calendar counts  *)
(* its events exactly, has each in the bucket of its time stamp, and        *)
(* searches from a slot that is not beyond any event.                       *)
THEOREM RepresentationIsInvariant == Spec => []RepresentationHolds
<1>1. Init => IInv BY InitIInv
<1>2. IInv /\ [Next]_vars => IInv' BY NextStep
<1>3. IInv => RepresentationHolds BY IInvRepresentation
<1> QED BY <1>1, <1>2, <1>3, PTL DEF Spec

(* Whatever the scheduler, RemoveNext returns the earliest event of the     *)
(* queue, every event comes back once, and SetScheduler loses none.         *)
THEOREM QueueImplementsEventList == Spec => ImplementsEventList
<1>1. Init => IInv /\ EL!Init BY InitIInv
<1>2. IInv /\ [Next]_vars =>
        IInv' /\ [EL!Next]_<<Contents, last>> /\ [type' # type => Contents' = Contents]_vars
  BY NextStep
<1> QED BY <1>1, <1>2, PTL DEF Spec, ImplementsEventList, EL!Spec
=============================================================================
