---------------------------- MODULE MCAsyncTask ----------------------------
(* Instances of AsyncTask for TLC.                                         *)
EXTENDS AsyncTask, TLC

CONSTANTS t1, p1, p2

PollerSymmetry == Permutations(Pollers)
=============================================================================
