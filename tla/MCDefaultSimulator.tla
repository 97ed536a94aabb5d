-------------------------- MODULE MCDefaultSimulator --------------------------
(* DefaultSimulator for TLC: the constants are given in the configurations. *)
EXTENDS DefaultSimulator
=============================================================================
