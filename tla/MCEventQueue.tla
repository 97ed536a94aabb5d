------------------------------ MODULE MCEventQueue ------------------------------
(* Ties at two times, uids that follow neither the times nor the order of   *)
(* insertion, neighbouring times and times many calendar years apart.       *)
EXTENDS EventQueue

MCEvents ==
  {[ts |-> 0, uid |-> 5], [ts |-> 1, uid |-> 4], [ts |-> 1, uid |-> 6],
   [ts |-> 2, uid |-> 7], [ts |-> 5, uid |-> 1], [ts |-> 8, uid |-> 3],
   [ts |-> 8, uid |-> 8], [ts |-> 30, uid |-> 2], [ts |-> 31, uid |-> 9]}
=============================================================================
