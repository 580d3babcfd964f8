------------------------------ MODULE MCRunner ------------------------------
(***************************************************************************)
(* EngineRunner for TLC.  The configurations give the constants model      *)
(* values: r1, r2 are runner slots, g1 a GoAway and t1 a request.          *)
(***************************************************************************)
EXTENDS EngineRunner

=============================================================================
