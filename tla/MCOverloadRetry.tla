--------------------------- MODULE MCOverloadRetry ---------------------------
(***************************************************************************)
(* A small instance of the overload retry for TLC.                         *)
(***************************************************************************)
EXTENDS OverloadRetry, TLC

ThreeJobs == 1 .. 3
=============================================================================
