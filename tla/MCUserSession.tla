--------------------------- MODULE MCUserSession ---------------------------
(* Instances of UserSession for TLC.                                       *)
EXTENDS UserSession, TLC

CONSTANTS p1, p2

ProcSymmetry == Permutations(Procs)

-----------------------------------------------------------------------------
(* A session that nobody revokes: its requests validate, refresh and make  *)
(* security changes of their own.                                          *)

OwnStep(p) ==
    \/ BeginValidate(p) \/ BeginRefresh(p) \/ BeginAdvance(p)
    \/ Lookup(p) \/ ReadRow(p) \/ DenyFill(p)
    \/ Fill(p) \/ Script(p) \/ Filled(p) \/ Confirm(p)
    \/ Got(p) \/ RotRead(p) \/ Cas(p)
    \/ Candidate(p) \/ Fence(p) \/ Commit(p) \/ Final(p)
    \/ Bump(p) \/ AdvRead(p) \/ Advance(p)

OwnSpec == Init /\ [][Tick \/ \E p \in Procs : OwnStep(p)]_vars

\* A security change made in a session preserves that session (AdvanceUserSessionAuthVersion):
\* without a revocation, a replayed secret or a fault, the row stays active.
AdvanceKeepsSession == ~faulty => row.active
=============================================================================
