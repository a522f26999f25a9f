---------------------------- MODULE MCRunnerLock ----------------------------
(***************************************************************************)
(* Instances of RunnerLock for TLC.                                        *)
(***************************************************************************)
EXTENDS RunnerLock, TLC

CONSTANTS s1, s2, s3, r   \* runner starts, a reset-card

StartSymmetry == Permutations(Starts)
=============================================================================
