------------------------------- MODULE EventQueue -------------------------------
(***************************************************************************)
(* The event queue of an engine: a scheduler made by a factory, which      *)
(* SetScheduler may replace by one of another type at any time, before or  *)
(* during a run.                                                           *)
(*                                                                         *)
(*   src/src/core/model/default-simulator-impl.cc, SetScheduler            *)
(*                                                                         *)
(* The schedulers with an algorithm of their own are the three instances;  *)
(* store is the data structure of the one in use.                          *)
(***************************************************************************)
EXTENDS EventKey, Sequences, FiniteSets

SE == INSTANCE SequencesExt

CONSTANTS MaxBuckets, MaxQueued, MaxRemove

(* HeapScheduler::Remove keeps its promise on at most five events only (see *)
(* HeapScheduler.RootIsEarliest).                                           *)
ASSUME MaxRemoveAssumption == MaxRemove \in 0 .. 5

VARIABLES
  type,    \* the TypeId of the factory: "list", "heap" or "calendar"
  store,   \* m_events, m_heap or the members of the calendar
  last     \* the event the engine removed last

vars == <<type, store, last>>

List == INSTANCE ListScheduler WITH m_events <- store
Heap == INSTANCE HeapScheduler WITH m_heap <- store
Cal  == INSTANCE CalendarScheduler WITH cal <- store

Types == {"list", "heap", "calendar"}

-----------------------------------------------------------------------------
(* The calls of a scheduler of type t with the members s. *)
Held(t, s) == IF t = "calendar" THEN Cal!Held(s) ELSE SE!ToSet(s)

Inserted(t, s, ev) ==
  CASE t = "list"     -> List!Inserted(s, ev)
    [] t = "heap"     -> Heap!Inserted(s, ev)
    [] t = "calendar" -> Cal!Inserted(s, ev)

PeekNext(t, s) ==
  CASE t = "list"     -> List!PeekNext(s)
    [] t = "heap"     -> Heap!PeekNext(s)
    [] t = "calendar" -> Cal!PeekNext(s)

NextRemoved(t, s) ==
  CASE t = "list"     -> List!NextRemoved(s)
    [] t = "heap"     -> Heap!NextRemoved(s)
    [] t = "calendar" -> Cal!NextRemoved(s)

Contents == Held(type, store)

-----------------------------------------------------------------------------
Init ==
  \/ type = "list" /\ List!Init
  \/ type = "heap" /\ Heap!Init
  \/ type = "calendar" /\ Cal!Init

Insert(ev) ==
  /\ \/ type = "list" /\ List!Insert(ev)
     \/ type = "heap" /\ Heap!Insert(ev)
     \/ type = "calendar" /\ Cal!Insert(ev)
  /\ UNCHANGED type

RemoveNext ==
  /\ \/ type = "list" /\ List!RemoveNext
     \/ type = "heap" /\ Heap!RemoveNext
     \/ type = "calendar" /\ Cal!RemoveNext
  /\ UNCHANGED type

Remove(ev) ==
  /\ \/ type = "list" /\ List!Remove(ev)
     \/ type = "heap" /\ Heap!Remove(ev)
     \/ type = "calendar" /\ Cal!Remove(ev)
  /\ UNCHANGED type

(* The members of a scheduler fresh from its constructor; the factory sets  *)
(* the attribute Reverse of a calendar.                                     *)
Fresh(t) ==
  IF t = "calendar" THEN {Cal!Calendar(2, 1, 0, 0, reverse) : reverse \in BOOLEAN}
  ELSE {<<>>}

(* A round of the loop of SetScheduler: the old scheduler gives an event    *)
(* back and the new one, of type t, takes it.                               *)
Move(t, m) ==
  [old |-> NextRemoved(type, m.old), new |-> Inserted(t, m.new, PeekNext(type, m.old))]

(* the new scheduler after the given number of rounds *)
Moved(t, fresh, rounds) ==
  LET round[n \in 0 .. rounds] ==
        IF n = 0 THEN [old |-> store, new |-> fresh] ELSE Move(t, round[n - 1])
  IN round[rounds].new

(* Defect: the loop stops one event early. *)
SetSchedulerMutant(t) ==
  /\ type' = t
  /\ \E fresh \in Fresh(t) :
       store' = IF Contents = {} THEN fresh
                ELSE Moved(t, fresh, Cardinality(Contents) - 1)
  /\ UNCHANGED last

(* until the old scheduler is empty *)
SetScheduler(t) ==
  /\ type' = t
  /\ \E fresh \in Fresh(t) : store' = Moved(t, fresh, Cardinality(Contents))
  /\ UNCHANGED last

Next ==
  \/ \E ev \in Events : Insert(ev) \/ Remove(ev)
  \/ RemoveNext
  \/ \E t \in Types : SetScheduler(t)

Spec == Init /\ [][Next]_vars

-----------------------------------------------------------------------------
(* The scheduler in use keeps its data structure in order, through Remove   *)
(* from the middle and through SetScheduler in mid-run: the list is sorted; *)
(* no element of the heap is earlier than its parent; the calendar counts   *)
(* its events exactly, has each in the bucket Remove looks for it in, and   *)
(* starts its next search from a slot that is not beyond any event.         *)
RepresentationHolds ==
  /\ type = "list" => List!Sorted
  /\ type = "heap" => Heap!HeapOrdered
  /\ type = "calendar" => Cal!QSizeIsExact /\ Cal!PositionIsExact

(* Whichever scheduler is in use, and however often it is replaced, the     *)
(* queue gives every event back once and earliest first; replacing it moves *)
(* every event.                                                             *)
EL == INSTANCE EventList WITH events <- Contents

ImplementsEventList == EL!Spec /\ [][type' # type => Contents' = Contents]_vars
=============================================================================
