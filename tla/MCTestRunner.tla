------------------------------ MODULE MCTestRunner ------------------------------
(* Two suites, an example and two workers. *)
EXTENDS TestRunner

CONSTANTS w1, w2

MCJobList == <<"suite", "suite", "example">>
=============================================================================
