--------------------------- MODULE MCSoraJobQueue ---------------------------
(***************************************************************************)
(* Small instances of the generation queue for TLC.                        *)
(***************************************************************************)
EXTENDS SoraJobQueue, TLC

OneJob  == {1}
TwoJobs == {1, 2}

\* Owner names are interchangeable among those that stall and among those that do
\* not; job ids are not, they order the queue.
OwnerSymmetry == Permutations(Stalling) \cup Permutations(Owners \ Stalling)
=============================================================================
