--------------------------- MODULE MCNurtureBatch ---------------------------
(***************************************************************************)
(* Small instances of the nurture batches for TLC.                         *)
(***************************************************************************)
EXTENDS NurtureBatch, TLC

OneBatch   == {1}
OneJob     == {1}
TwoJobs    == {1, 2}

InOne == [j \in Jobs |-> 1]

OwnerSymmetry == Permutations(Owners)
=============================================================================
