----------------------------- MODULE HeapScheduler -----------------------------
(***************************************************************************)
(* The event list kept as a binary heap in a std::vector.                  *)
(*                                                                         *)
(*   src/src/core/model/heap-scheduler.cc                                  *)
(*                                                                         *)
(* The first element of the vector is not used, so the indexes of the heap *)
(* are those of a sequence.                                                *)
(***************************************************************************)
EXTENDS EventKey, Sequences

SE == INSTANCE SequencesExt

CONSTANTS
  MaxQueued,   \* bound: events in the heap
  MaxRemove    \* bound: events in the heap when Remove is called

VARIABLES m_heap, last

vars == <<m_heap, last>>

Exch(h, a, b) == [h EXCEPT ![a] = h[b], ![b] = h[a]]

IsLessStrictly(h, a, b) == KeyLess(h[a], h[b])

Smallest(h, a, b) == IF IsLessStrictly(h, a, b) THEN a ELSE b

(* A round of the loop of BottomUp, on the heap and the index it has come   *)
(* to; a loop that has ended stays where it is.                             *)
Rise(at) ==
  LET parent == at.index \div 2
  IN IF at.index # 1 /\ IsLessStrictly(at.heap, at.index, parent)
     THEN [heap |-> Exch(at.heap, at.index, parent), index |-> parent]
     ELSE at

(* at most as many rounds as there are elements *)
BottomUp(h) ==
  LET round[n \in 0 .. Len(h)] ==
        IF n = 0 THEN [heap |-> h, index |-> Len(h)] ELSE Rise(round[n - 1])
  IN round[Len(h)].heap

(* A round of the loop of TopDown; what follows the loop, for an element    *)
(* with a left child only, is its last round.                               *)
Sink(at) ==
  LET h     == at.heap
      left  == at.index * 2
      right == at.index * 2 + 1
      tmp   == IF right <= Len(h) THEN Smallest(h, left, right) ELSE left
  IN IF left <= Len(h) /\ ~IsLessStrictly(h, at.index, tmp)
     THEN [heap |-> Exch(h, at.index, tmp), index |-> tmp]
     ELSE at

TopDown(h, start) ==
  LET round[n \in 0 .. Len(h)] ==
        IF n = 0 THEN [heap |-> h, index |-> start] ELSE Sink(round[n - 1])
  IN round[Len(h)].heap

(* Exch with the last element, pop_back, TopDown *)
TakenOut(h, i) == TopDown(SE!Front(Exch(h, i, Len(h))), i)

(* what the calls return and leave *)
Inserted(h, ev) == BottomUp(Append(h, ev))
PeekNext(h)     == h[1]
NextRemoved(h)  == TakenOut(h, 1)

-----------------------------------------------------------------------------
Init ==
  /\ m_heap = <<>>
  /\ last = Start

Insert(ev) ==
  /\ ev \in Events \ SE!ToSet(m_heap)
  /\ KeyLess(last, ev)
  /\ Len(m_heap) < MaxQueued
  /\ m_heap' = Inserted(m_heap, ev)
  /\ UNCHANGED last

RemoveNext ==
  /\ m_heap # <<>>
  /\ last' = PeekNext(m_heap)
  /\ m_heap' = NextRemoved(m_heap)

(* The last element takes the place of the one removed, and only ever moves *)
(* down from there.                                                         *)
Remove(ev) ==
  /\ Len(m_heap) <= MaxRemove
  /\ \E i \in 1 .. Len(m_heap) :
       /\ m_heap[i].uid = ev.uid
       /\ m_heap' = TakenOut(m_heap, i)
  /\ UNCHANGED last

Next ==
  \/ \E ev \in Events : Insert(ev) \/ Remove(ev)
  \/ RemoveNext

Spec == Init /\ [][Next]_vars

-----------------------------------------------------------------------------
(* No element is earlier than its parent, whatever was inserted and removed.*)
HeapOrdered ==
  \A i \in 2 .. Len(m_heap) : ~IsLessStrictly(m_heap, i, i \div 2)

(* "Remove the earliest event from the event list" and "the next earliest   *)
(* event": what PeekNext and RemoveNext return is the earliest event.       *)
RootIsEarliest == m_heap # <<>> => IsEarliest(m_heap[1], SE!ToSet(m_heap))
=============================================================================
