-------------------------- MODULE MCAccountDispatch --------------------------
(***************************************************************************)
(* A small instance of the dispatch of accounts for TLC.                   *)
(***************************************************************************)
EXTENDS AccountDispatch, TLC

\* An overload calls for a rest.
Rests == [overload |-> 1]
=============================================================================
