------------------------------- MODULE EventList -------------------------------
(***************************************************************************)
(* What a Scheduler promises to the simulator: an event list that gives    *)
(* its events back earliest first.                                         *)
(*                                                                         *)
(*   src/src/core/model/scheduler.h                                        *)
(*   src/src/core/model/map-scheduler.cc                                   *)
(*                                                                         *)
(* With a std::map ordered by the key, MapScheduler is this specification. *)
(* The simulator inserts an event at its current time or later and with a  *)
(* new uid, so that its key follows the key of the last event it removed.  *)
(***************************************************************************)
EXTENDS EventKey

VARIABLES
  events,   \* the events in the list
  last      \* the event the last RemoveNext returned

Init ==
  /\ events = {}
  /\ last = Start

Insert(ev) ==
  /\ ev \notin events
  /\ KeyLess(last, ev)
  /\ events' = events \cup {ev}
  /\ UNCHANGED last

RemoveNext ==
  \E next \in events :
    /\ IsEarliest(next, events)
    /\ events' = events \ {next}
    /\ last' = next

Remove(ev) ==
  /\ ev \in events
  /\ events' = events \ {ev}
  /\ UNCHANGED last

Next ==
  \/ \E ev \in Events : Insert(ev) \/ Remove(ev)
  \/ RemoveNext

Spec == Init /\ [][Next]_<<events, last>>
=============================================================================
