---------------------------- MODULE MCBackground ----------------------------
(***************************************************************************)
(* A small instance of each part of Background for TLC.                    *)
(***************************************************************************)
EXTENDS Background, TLC

\* An overload calls for a rest, a page that went away for none.
Rests == [overload |-> 2, page |-> 0]

\* A check finds the one proxy at a Tor exit, with the highest risk.
Findings == [tor |-> 70]

FourJobs == 1 .. 4

Symmetry == Permutations(Procs) \cup Permutations(Jobs)
=============================================================================
