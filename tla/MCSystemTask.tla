---------------------------- MODULE MCSystemTask ----------------------------
(* Instances of SystemTask for TLC.                                        *)
EXTENDS SystemTask, TLC

CONSTANTS r1, r2, cleanup

NoSkew == [r \in Runners |-> 0]
RunnerSymmetry == Permutations(Runners)
=============================================================================
