-------------------------- MODULE SessionAuthority --------------------------
(***************************************************************************)
(* What the session store promises to the rest of the server about one     *)
(* login session, whatever caches it keeps: a version of the session is    *)
(* granted to a request while the session is live at that version, and,    *)
(* after the version ended (a revocation, or an advance to the next        *)
(* version), only for less than Lag time units.  UserSession implements    *)
(* this specification.                                                     *)
(***************************************************************************)
EXTENDS Integers

CONSTANTS Requests,     \* the requests that ask for the session
          Versions,     \* the versions a session can have
          Lag           \* how long an ended version may still be granted

VARIABLES now,          \* the time
          live,         \* is the session active?
          version,      \* its current version
          ended,        \* ended[v]: when version v ended, -1 while it has not
          granted       \* granted[r]: the version granted to request r, or 0

vars == <<now, live, version, ended, granted>>

Init ==
    /\ now = 0
    /\ live = TRUE
    /\ version = 1
    /\ ended = [v \in Versions |-> -1]
    /\ granted = [r \in Requests |-> 0]

Tick ==
    /\ now' = now + 1
    /\ UNCHANGED <<live, version, ended, granted>>

\* A revocation ends the current version for good.
Revoke ==
    /\ live
    /\ live' = FALSE
    /\ ended' = [ended EXCEPT ![version] = now]
    /\ UNCHANGED <<now, version, granted>>

\* A security change replaces the current version by the next one.
Advance ==
    /\ live
    /\ version + 1 \in Versions
    /\ version' = version + 1
    /\ ended' = [ended EXCEPT ![version] = now]
    /\ UNCHANGED <<now, live, granted>>

Grantable(v) ==
    \/ live /\ v = version
    \/ ended[v] >= 0 /\ now < ended[v] + Lag

Grant(r) ==
    /\ granted[r] = 0
    /\ \E v \in Versions : Grantable(v) /\ granted' = [granted EXCEPT ![r] = v]
    /\ UNCHANGED <<now, live, version, ended>>

Release(r) ==
    /\ granted[r] # 0
    /\ granted' = [granted EXCEPT ![r] = 0]
    /\ UNCHANGED <<now, live, version, ended>>

Next ==
    \/ Tick
    \/ Revoke
    \/ Advance
    \/ \E r \in Requests : Grant(r) \/ Release(r)

Spec == Init /\ [][Next]_vars
=============================================================================
