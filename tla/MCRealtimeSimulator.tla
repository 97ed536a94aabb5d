-------------------------- MODULE MCRealtimeSimulator --------------------------
(* One inserting thread beside the main thread. *)
EXTENDS RealtimeSimulator

CONSTANTS t1, none
=============================================================================
