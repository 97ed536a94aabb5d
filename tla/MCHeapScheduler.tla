---------------------------- MODULE MCHeapScheduler ----------------------------
(* One event at each time: every order of the keys occurs. *)
EXTENDS HeapScheduler

CONSTANT MaxTs

MCEvents == {[ts |-> t, uid |-> t] : t \in 1 .. MaxTs}
=============================================================================
