----------------------------- MODULE MCAuthTabs -----------------------------
(* Instances of AuthTabs for TLC.                                          *)
EXTENDS AuthTabs, TLC

CONSTANTS t1, t2

\* One login is enough for what a missing lock changes.
Logins == (TRUE :> 2) @@ (FALSE :> 1)

TabSymmetry == Permutations(Tabs)
=============================================================================
