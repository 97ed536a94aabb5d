-------------------------- MODULE MCGrantedTimeWindow --------------------------
(***************************************************************************)
(* An instance of GrantedTimeWindow: a chain of three ranks whose two      *)
(* links have different delays, so that the ranks have different           *)
(* lookaheads, which their programs may also bound.                        *)
(***************************************************************************)
EXTENDS GrantedTimeWindow

CONSTANTS r1, r2, r3

ChainLinks == {[ends |-> {r1, r2}, delay |-> 1], [ends |-> {r2, r3}, delay |-> 2]}
=============================================================================
