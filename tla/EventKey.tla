-------------------------------- MODULE EventKey --------------------------------
(***************************************************************************)
(* The events an event list holds and the order of their keys.             *)
(*                                                                         *)
(*   src/src/core/model/scheduler.h                                        *)
(*                                                                         *)
(* The context of an event takes no part in the order and is left out; uid *)
(* also stands for the implementation of the event.                        *)
(***************************************************************************)
EXTENDS Integers

CONSTANT Events

ASSUME EventsAssumption ==
  /\ Events \subseteq [ts : Nat, uid : Nat \ {0}]
  /\ \A a, b \in Events : a.uid = b.uid => a = b

(* before the first RemoveNext: time 0, and no valid uid *)
Start == [ts |-> 0, uid |-> 0]

KeyLess(a, b) == a.ts < b.ts \/ (a.ts = b.ts /\ a.uid < b.uid)

IsEarliest(e, S) == e \in S /\ \A f \in S \ {e} : KeyLess(e, f)
=============================================================================
