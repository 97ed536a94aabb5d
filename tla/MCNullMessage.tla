----------------------------- MODULE MCNullMessage -----------------------------
(* Instances of NullMessage. *)
EXTENDS NullMessage, TLC

CONSTANTS l1, l2

(* two ranks, and a third beyond the second over a slower link *)
ChainEnds  == (l1 :> {0, 1}) @@ (l2 :> {1, 2})
ChainDelay == (l1 :> 1) @@ (l2 :> 2)

(* two links between the same two ranks *)
DoubleEnds  == (l1 :> {0, 1}) @@ (l2 :> {0, 1})
DoubleDelay == (l1 :> 2) @@ (l2 :> 2)
=============================================================================
