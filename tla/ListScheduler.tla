----------------------------- MODULE ListScheduler -----------------------------
(***************************************************************************)
(* The event list kept as a sorted std::list.                              *)
(*                                                                         *)
(*   src/src/core/model/list-scheduler.cc                                  *)
(***************************************************************************)
EXTENDS EventKey, Sequences

SE == INSTANCE SequencesExt

VARIABLES m_events, last

vars == <<m_events, last>>

(* before the first event with a larger key, else at the end *)
Place(s, ev) ==
  CHOOSE i \in 1 .. Len(s) + 1 :
    /\ \A j \in 1 .. i - 1 : ~KeyLess(ev, s[j])
    /\ i <= Len(s) => KeyLess(ev, s[i])

(* what the calls return and leave *)
Inserted(s, ev) == SE!InsertAt(s, Place(s, ev), ev)
PeekNext(s)     == Head(s)
NextRemoved(s)  == Tail(s)

-----------------------------------------------------------------------------
Init ==
  /\ m_events = <<>>
  /\ last = Start

Insert(ev) ==
  /\ ev \in Events \ SE!ToSet(m_events)
  /\ KeyLess(last, ev)
  /\ m_events' = Inserted(m_events, ev)
  /\ UNCHANGED last

RemoveNext ==
  /\ m_events # <<>>
  /\ last' = PeekNext(m_events)
  /\ m_events' = NextRemoved(m_events)

Remove(ev) ==
  /\ \E i \in 1 .. Len(m_events) :
       /\ m_events[i].uid = ev.uid
       /\ \A j \in 1 .. i - 1 : m_events[j].uid # ev.uid
       /\ m_events' = SE!RemoveAt(m_events, i)
  /\ UNCHANGED last

Next ==
  \/ \E ev \in Events : Insert(ev) \/ Remove(ev)
  \/ RemoveNext

Spec == Init /\ [][Next]_vars

-----------------------------------------------------------------------------
(* PeekNext and RemoveNext read the front only: the list is sorted by key,  *)
(* and nothing in it is earlier than the event that was removed last.       *)
Sorted ==
  /\ \A i, j \in 1 .. Len(m_events) : i < j => KeyLess(m_events[i], m_events[j])
  /\ \A i \in 1 .. Len(m_events) : KeyLess(last, m_events[i])
=============================================================================
