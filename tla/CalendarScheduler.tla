--------------------------- MODULE CalendarScheduler ---------------------------
(***************************************************************************)
(* The event list kept as a calendar queue: buckets of a fixed width, used *)
(* again year after year, whose number and width follow the load.          *)
(*                                                                         *)
(*   src/src/core/model/calendar-scheduler.cc                              *)
(*                                                                         *)
(* The calendar is one record with the members of the class: m_reverse is  *)
(* the attribute Reverse, which keeps the buckets in reverse chronological *)
(* order.                                                                  *)
(***************************************************************************)
EXTENDS EventKey, Sequences, FiniteSets

SE == INSTANCE SequencesExt

CONSTANTS
  MaxBuckets,    \* 32768 in ResizeUp
  MaxQueued      \* bound: events in the calendar

VARIABLES
  cal,    \* the members of the class
  last    \* the event the last RemoveNext returned

vars == <<cal, last>>

-----------------------------------------------------------------------------
Order(c, a, b) == IF c.m_reverse THEN KeyLess(b, a) ELSE KeyLess(a, b)

(* the place in bucket b of its next event *)
Front(c, b)     == IF c.m_reverse THEN Len(c.m_buckets[b]) ELSE 1
NextEvent(c, b) == c.m_buckets[b][Front(c, b)]
Pop(c, b)       == SE!RemoveAt(c.m_buckets[b], Front(c, b))

Hash(c, ts) == (ts \div c.m_width) % c.m_nBuckets

(* CalendarScheduler::Init, which leaves m_qSize and m_reverse alone *)
Calendar(nBuckets, width, startPrio, qSize, reverse) ==
  [m_buckets |-> [b \in 0 .. nBuckets - 1 |-> <<>>], m_nBuckets |-> nBuckets,
   m_width |-> width, m_lastPrio |-> startPrio,
   m_lastBucket |-> (startPrio \div width) % nBuckets,
   m_bucketTop |-> (startPrio \div width + 1) * width, m_qSize |-> qSize,
   m_reverse |-> reverse]

(* before the first event of its bucket that it precedes in the order kept, *)
(* else at the end                                                          *)
Place(c, s, ev) ==
  CHOOSE i \in 1 .. Len(s) + 1 :
    /\ \A j \in 1 .. i - 1 : ~Order(c, ev, s[j])
    /\ i <= Len(s) => Order(c, ev, s[i])

DoInsert(c, ev) ==
  [c EXCEPT !.m_buckets[Hash(c, ev.ts)] = SE!InsertAt(@, Place(c, @, ev), ev)]

(* DoInsert of every event of s, in the order of s *)
DoInsertAll(c, s) ==
  LET round[n \in 0 .. Len(s)] == IF n = 0 THEN c ELSE DoInsert(round[n - 1], s[n])
  IN round[Len(s)]

-----------------------------------------------------------------------------
(* The search of DoRemoveNext and PeekNext visits every bucket once, the    *)
(* k-th of them with the top of the year's k-th slot.                       *)
Visited(c, k) == (c.m_lastBucket + k) % c.m_nBuckets
Top(c, k)     == c.m_bucketTop + k * c.m_width
Visits(c)     == {k \in 0 .. c.m_nBuckets - 1 : c.m_buckets[Visited(c, k)] # <<>>}
Heads(c)      == {NextEvent(c, Visited(c, k)) : k \in Visits(c)}

(* the visits that find an event of the current year *)
InYear(c) == {k \in Visits(c) : NextEvent(c, Visited(c, k)).ts < Top(c, k)}

First(c) == CHOOSE k \in InYear(c) : \A j \in InYear(c) : k <= j

(* the first of them, or else the bucket with the earliest head *)
Found(c) ==
  IF InYear(c) # {}
  THEN Visited(c, First(c))
  ELSE CHOOSE b \in DOMAIN c.m_buckets :
         c.m_buckets[b] # <<>> /\ IsEarliest(NextEvent(c, b), Heads(c))

PeekNext(c) == NextEvent(c, Found(c))

(* Defect: a new year is not noticed; the bucket found keeps the old top. *)
DoRemoveNextMutant(c) ==
  [c EXCEPT !.m_lastPrio = PeekNext(c).ts, !.m_lastBucket = Found(c),
            !.m_buckets[Found(c)] = Pop(c, Found(c))]

(* The calendar is left at the slot of the event found: a search that found *)
(* none of this year computes it from the time stamp.                       *)
DoRemoveNext(c) ==
  LET next == PeekNext(c)
  IN [c EXCEPT !.m_lastPrio = next.ts,
               !.m_lastBucket = IF InYear(c) # {} THEN Found(c) ELSE Hash(c, next.ts),
               !.m_bucketTop = IF InYear(c) # {} THEN Top(c, First(c))
                               ELSE (next.ts \div c.m_width + 1) * c.m_width,
               !.m_buckets[Found(c)] = Pop(c, Found(c))]

-----------------------------------------------------------------------------
NSamples(qSize) ==
  LET n == IF qSize <= 5 THEN qSize ELSE 5 + qSize \div 10
  IN IF n > 25 THEN 25 ELSE n

(* A call of DoRemoveNext, whose result is added to the samples. *)
Sample(g) ==
  [cal |-> DoRemoveNext(g.cal), samples |-> Append(g.samples, PeekNext(g.cal))]

Gather(c, nSamples) ==
  LET round[n \in 0 .. nSamples] ==
        IF n = 0 THEN [cal |-> c, samples |-> <<>>] ELSE Sample(round[n - 1])
  IN round[nSamples]

(* CalculateNewWidth puts the samples back and restores the position *)
PutBack(c) ==
  LET gathered == Gather(c, NSamples(c.m_qSize))
  IN [DoInsertAll(gathered.cal, gathered.samples) EXCEPT
        !.m_lastBucket = c.m_lastBucket, !.m_bucketTop = c.m_bucketTop,
        !.m_lastPrio = c.m_lastPrio]

Sum(s) ==
  LET sum[n \in 0 .. Len(s)] == IF n = 0 THEN 0 ELSE sum[n - 1] + s[n]
  IN sum[Len(s)]

(* three times the sum of the separations that are not above twice their    *)
(* average, and at least 1                                                  *)
Width(samples) ==
  LET seps     == [i \in 1 .. Len(samples) - 1 |-> samples[i + 1].ts - samples[i].ts]
      twiceAvg == (Sum(seps) \div (Len(samples) - 1)) * 2
      total    == Sum([i \in DOMAIN seps |-> IF seps[i] <= twiceAvg THEN seps[i] ELSE 0]) * 3
  IN IF total > 1 THEN total ELSE 1

NewWidth(c) == Width(Gather(c, NSamples(c.m_qSize)).samples)

(* every event of every old bucket is inserted again *)
DoResize(c, newSize, newWidth) ==
  LET round[n \in 0 .. c.m_nBuckets] ==
        IF n = 0
        THEN Calendar(newSize, newWidth, c.m_lastPrio, c.m_qSize, c.m_reverse)
        ELSE DoInsertAll(round[n - 1], c.m_buckets[n - 1])
  IN round[c.m_nBuckets]

Resize(c, newSize) ==
  IF c.m_qSize < 2 THEN DoResize(c, newSize, 1)
  ELSE DoResize(PutBack(c), newSize, NewWidth(c))

ResizeUp(c) ==
  IF c.m_qSize > c.m_nBuckets * 2 /\ c.m_nBuckets < MaxBuckets
  THEN Resize(c, c.m_nBuckets * 2) ELSE c

ResizeDown(c) ==
  IF c.m_qSize < c.m_nBuckets \div 2 THEN Resize(c, c.m_nBuckets \div 2) ELSE c

(* what the calls return and leave *)
Inserted(c, ev)    == ResizeUp([DoInsert(c, ev) EXCEPT !.m_qSize = @ + 1])
NextRemoved(c)     == ResizeDown([DoRemoveNext(c) EXCEPT !.m_qSize = @ - 1])
TakenOut(c, b, i)  ==
  ResizeDown([c EXCEPT !.m_buckets[b] = SE!RemoveAt(@, i), !.m_qSize = @ - 1])

Held(c) == UNION {SE!ToSet(c.m_buckets[b]) : b \in DOMAIN c.m_buckets}

-----------------------------------------------------------------------------
Contents == Held(cal)

Init ==
  /\ cal \in {Calendar(2, 1, 0, 0, reverse) : reverse \in BOOLEAN}
  /\ last = Start

Insert(ev) ==
  /\ ev \in Events \ Contents
  /\ KeyLess(last, ev)
  /\ cal.m_qSize < MaxQueued
  /\ cal' = Inserted(cal, ev)
  /\ UNCHANGED last

RemoveNext ==
  /\ cal.m_qSize # 0
  /\ last' = PeekNext(cal)
  /\ cal' = NextRemoved(cal)

Remove(ev) ==
  /\ \E i \in DOMAIN cal.m_buckets[Hash(cal, ev.ts)] :
       /\ cal.m_buckets[Hash(cal, ev.ts)][i].uid = ev.uid
       /\ cal' = TakenOut(cal, Hash(cal, ev.ts), i)
  /\ UNCHANGED last

Next ==
  \/ \E ev \in Events : Insert(ev) \/ Remove(ev)
  \/ RemoveNext

Spec == Init /\ [][Next]_vars

-----------------------------------------------------------------------------
(* m_qSize, which decides about IsEmpty and about resizing, is the number   *)
(* of events in the buckets, and every event is in the bucket Remove will   *)
(* look for it in.                                                          *)
QSizeIsExact ==
  /\ cal.m_qSize = Cardinality(Contents)
  /\ \A b \in DOMAIN cal.m_buckets : \A e \in SE!ToSet(cal.m_buckets[b]) : Hash(cal, e.ts) = b

(* The slot the next search starts from is never beyond an event: after any *)
(* resizing, m_lastBucket and m_bucketTop still describe the slot of        *)
(* m_lastPrio, and no event is earlier than that.                           *)
PositionIsExact ==
  /\ cal.m_lastBucket = Hash(cal, cal.m_lastPrio)
  /\ cal.m_lastPrio < cal.m_bucketTop
  /\ cal.m_bucketTop <= cal.m_lastPrio + cal.m_width
  /\ \A e \in Contents : cal.m_lastPrio <= e.ts
=============================================================================
