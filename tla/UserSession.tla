---------------------------- MODULE UserSession ----------------------------
(***************************************************************************)
(* One login session of a user (model/user_session.go and                  *)
(* service/auth_session.go): its database row, its entry in Redis, and the *)
(* requests of the server's nodes that look it up, rotate its refresh      *)
(* token, advance its version after a security change, or revoke it.       *)
(*                                                                         *)
(* A request is a process; every call of the database or of Redis is one   *)
(* step, and the clock may move between any two steps.  Refresh secrets    *)
(* form a chain (deriveNextRefreshSecret is a function of the current      *)
(* secret), so a secret is its number in the chain, and hashing keeps      *)
(* different secrets apart: row.gen is refresh_hash, row.gen - 1 is        *)
(* previous_refresh_hash.                                                  *)
(***************************************************************************)
EXTENDS Integers

CONSTANTS Procs,        \* concurrent requests
          TTL,          \* userCacheTTLSeconds
          Grace,        \* RefreshReplayWindow
          Expires,      \* expires_at of the session
          MaxClock,     \* bound on the clock
          MaxVer,       \* bound on the session's version
          MaxGen,       \* bound on the refresh rotations
          MaxUser       \* bound on the user's auth version

ASSUME ConstantsAssumption ==
    /\ TTL \in Nat \ {0}
    /\ Grace \in Nat
    /\ Expires \in Nat \ {0}
    /\ MaxClock \in Nat
    /\ MaxVer \in Nat \ {0}
    /\ MaxGen \in Nat
    /\ MaxUser \in Nat \ {0}

VARIABLES clock,
          row,          \* the row of user_sessions
          userVer,      \* auth_version of the user's row
          cache,        \* the hash auth:session:<sid> in Redis
          proc,         \* the requests
          ended,        \* history: when a version of the session ended
          faulty        \* may Redis, the database and the processes fail?

vars == <<clock, row, userVer, cache, proc, ended, faulty>>

Vers == 1..MaxVer
Users == 1..MaxUser
Gens == 0..MaxGen
Time == 0..MaxClock
Deny == {"revoking", "revoked"}

Rows == [active: BOOLEAN, ver: Vers, uver: Users, gen: Gens, until: Int]

\* userSessionCacheEntry: "none" is the missing key.
Entries == [status: {"none", "active"} \cup Deny, ver: 0..MaxVer, uver: 0..MaxUser, until: Int]
NoEntry == [status |-> "none", ver |-> 0, uver |-> 0, until |-> 0]

OpNames == {"none", "validate", "refresh", "rotate", "reuse", "revoke", "revokeAll", "logout",
            "advance", "reset"}
PCs == {"idle", "lookup", "read", "deny", "fill", "script", "filled", "confirm", "got", "rotRead",
        "cas", "candidate", "byHash", "fence", "commit", "final", "bump", "advRead", "advance"}

Snaps == [ver: 0..MaxVer, uver: 0..MaxUser]
NoSnap == [ver |-> 0, uver |-> 0]
Locals == [op: OpNames, pc: PCs, now: Int, dl: Int, tok: Int, next: 0..MaxUser, snap: Snaps]
Idle == [op |-> "none", pc |-> "idle", now |-> 0, dl |-> 0, tok |-> 0, next |-> 0, snap |-> NoSnap]

TypeOK ==
    /\ clock \in Time
    /\ row \in Rows
    /\ userVer \in Users
    /\ cache \in Entries
    /\ proc \in [Procs -> Locals]
    /\ ended \in [Vers -> {-1} \cup Time]
    /\ faulty \in BOOLEAN

-----------------------------------------------------------------------------
Smaller(a, b) == IF a < b THEN a ELSE b

\* What Redis holds now: an entry disappears at its expiry.
Live == IF cache.until > clock THEN cache ELSE NoEntry

\* The row's predicate "status = active AND revoked_at = 0 AND expires_at > t".
ActiveAt(t) == row.active /\ t < Expires

RowSnap == [ver |-> row.ver, uver |-> row.uver]

\* Variant: a late fill replaces the fence.
Refused_NoFence(status, ver) == Live.ver > ver

\* The script's refusals: an active snapshot never replaces a deny state, and nothing replaces
\* a newer version.
Refused(status, ver) ==
    \/ status = "active" /\ Live.status \in Deny
    \/ Live.ver > ver

\* The lifetime of a deny state starts when it is published.
DenyUntil == clock + (IF Expires <= clock THEN 1 ELSE Smaller(Expires - clock, TTL))

\* Publishing a deny state of the version a request knows.
WriteDeny(status, snap) ==
    /\ ~Refused(status, snap.ver)
    /\ cache' = [status |-> status, ver |-> snap.ver, uver |-> snap.uver, until |-> DenyUntil]

Goto(p, pc) == proc' = [proc EXCEPT ![p].pc = pc]
Finish(p) == proc' = [proc EXCEPT ![p] = Idle]

\* A lookup or a write of the cache has succeeded: a lookup hands the session to its caller, a
\* rotation or an advance is over.
Return(p) ==
    IF proc[p].op \in {"validate", "refresh"}
    THEN proc' = [proc EXCEPT ![p].pc = "got", ![p].dl = 0]
    ELSE Finish(p)

-----------------------------------------------------------------------------
(* The state after CreateUserSession, whose write of the cache may have    *)
(* failed.                                                                 *)
Init ==
    /\ clock = 0
    /\ row = [active |-> TRUE, ver |-> 1, uver |-> 1, gen |-> 0, until |-> 0]
    /\ userVer = 1
    /\ cache \in {NoEntry, [status |-> "active", ver |-> 1, uver |-> 1,
                            until |-> Smaller(TTL, Expires)]}
    /\ proc = [p \in Procs |-> Idle]
    /\ ended = [v \in Vers |-> -1]
    /\ faulty \in BOOLEAN

Begin(p, op, pc, now, tok) ==
    /\ proc[p].pc = "idle"
    /\ proc' = [proc EXCEPT ![p] = [Idle EXCEPT !.op = op, !.pc = pc, !.now = now, !.tok = tok]]
    /\ UNCHANGED <<clock, row, userVer, cache, ended, faulty>>

\* A request with an access token asks for its session (ValidateLoginSession).
BeginValidate(p) == Begin(p, "validate", "lookup", 0, 0)

\* A refresh presents some secret of the chain that was handed out (RefreshLoginSession).
BeginRefresh(p) == \E t \in 0..row.gen : t < MaxGen /\ Begin(p, "refresh", "lookup", 0, t)

\* Sign-out, "revoke this session", or a failed issue of tokens (RevokeUserSession).
BeginRevoke(p) == Begin(p, "revoke", "candidate", clock, 0)

\* Sign-out authenticated by the cookie (RevokeUserSessionByRefreshHash).
BeginLogout(p) == \E t \in 0..row.gen : Begin(p, "logout", "byHash", clock, t)

\* A security change made in this session, which is to be kept (password, 2FA, passkey).
BeginAdvance(p) ==
    /\ userVer < MaxUser
    /\ row.ver < MaxVer
    /\ ActiveAt(clock)
    /\ row.uver = userVer
    /\ Begin(p, "advance", "bump", 0, row.ver)

\* A security change made elsewhere, which ends all sessions (password reset, administrator).
BeginReset(p) == userVer < MaxUser /\ Begin(p, "reset", "bump", 0, 0)

-----------------------------------------------------------------------------
(* GetUserSessionCached                                                    *)

Lookup(p) ==
    /\ proc[p].pc = "lookup"
    /\ \/ /\ Live.status = "active"
          /\ clock < Expires
          /\ proc' = [proc EXCEPT ![p].pc = "got",
                                  ![p].snap = [ver |-> Live.ver, uver |-> Live.uver]]
       \/ /\ Live.status \in Deny \/ (Live.status = "active" /\ clock >= Expires)
          /\ Finish(p)
       \/ /\ Live.status = "none" \/ faulty
          /\ proc' = [proc EXCEPT ![p].pc = "read", ![p].dl = clock + TTL]
    /\ UNCHANGED <<clock, row, userVer, cache, ended, faulty>>

ReadRow(p) ==
    /\ proc[p].pc = "read"
    /\ proc' = [proc EXCEPT ![p].pc = IF ActiveAt(clock) THEN "fill" ELSE "deny",
                            ![p].snap = RowSnap]
    /\ UNCHANGED <<clock, row, userVer, cache, ended, faulty>>

\* The row is not active: a tombstone is cached, and the request is denied whatever comes of it.
DenyFill(p) ==
    /\ proc[p].pc = "deny"
    /\ \/ WriteDeny("revoked", proc[p].snap)
       \/ Refused("revoked", proc[p].snap.ver) /\ UNCHANGED cache
    /\ Finish(p)
    /\ UNCHANGED <<clock, row, userVer, ended, faulty>>

-----------------------------------------------------------------------------
(* writeUserSessionCache of an active snapshot: the checks before the      *)
(* script, the script, and the checks after it.                            *)

Fill(p) ==
    /\ proc[p].pc = "fill"
    /\ \/ proc[p].dl <= clock /\ Goto(p, "confirm")
       \/ proc[p].dl > clock /\ Expires <= clock /\ Finish(p)
       \/ proc[p].dl > clock /\ Expires > clock /\ Goto(p, "script")
    /\ UNCHANGED <<clock, row, userVer, cache, ended, faulty>>

\* Variant: a fill gets the full lifetime, as if its snapshot had just been read.
Script_Fresh(p) ==
    /\ proc[p].pc = "script"
    /\ ~Refused("active", proc[p].snap.ver)
    /\ cache' = [status |-> "active", ver |-> proc[p].snap.ver, uver |-> proc[p].snap.uver,
                 until |-> clock + TTL]
    /\ Goto(p, "filled")
    /\ UNCHANGED <<clock, row, userVer, ended, faulty>>

\* The script.  An expiry in the past deletes the key, which Live expresses.
Script(p) ==
    /\ proc[p].pc = "script"
    /\ \/ /\ ~Refused("active", proc[p].snap.ver)
          /\ cache' = [status |-> "active", ver |-> proc[p].snap.ver, uver |-> proc[p].snap.uver,
                       until |-> Smaller(proc[p].dl, Expires)]
          /\ Goto(p, "filled")
       \/ /\ Refused("active", proc[p].snap.ver)
          /\ Finish(p)
          /\ UNCHANGED cache
    /\ UNCHANGED <<clock, row, userVer, ended, faulty>>

\* A Redis error: logged, except by an advance, which reports it.
ScriptFails(p) ==
    /\ proc[p].pc = "script"
    /\ faulty
    /\ clock < proc[p].dl
    /\ IF proc[p].op = "advance" THEN Finish(p) ELSE Return(p)
    /\ UNCHANGED <<clock, row, userVer, cache, ended, faulty>>

Filled(p) ==
    /\ proc[p].pc = "filled"
    /\ \/ clock >= proc[p].dl /\ Goto(p, "confirm")
       \/ clock < proc[p].dl /\ clock >= Expires /\ Finish(p)
       \/ clock < proc[p].dl /\ clock < Expires /\ Return(p)
    /\ UNCHANGED <<clock, row, userVer, cache, ended, faulty>>

\* confirmUserSessionActiveSnapshot: the observation is too old, the row decides.
Confirm(p) ==
    /\ proc[p].pc = "confirm"
    /\ IF ActiveAt(clock) /\ RowSnap = proc[p].snap THEN Return(p) ELSE Finish(p)
    /\ UNCHANGED <<clock, row, userVer, cache, ended, faulty>>

-----------------------------------------------------------------------------
(* RefreshLoginSession after the lookup, and RotateUserSessionRefresh      *)

\* The session is handed over: a validation is over; a refresh compares the user's version, and
\* either revokes the session or rotates its secret.
Got(p) ==
    /\ proc[p].pc = "got"
    /\ \/ /\ proc[p].op = "validate" \/ clock >= Expires
          /\ Finish(p)
       \/ /\ proc[p].op = "refresh"
          /\ clock < Expires
          /\ proc[p].snap.uver # userVer
          /\ proc' = [proc EXCEPT ![p] = [Idle EXCEPT !.op = "revoke", !.pc = "candidate",
                                                      !.now = clock]]
       \/ /\ proc[p].op = "refresh"
          /\ clock < Expires
          /\ proc[p].snap.uver = userVer
          /\ proc' = [proc EXCEPT ![p].op = "rotate", ![p].pc = "rotRead", ![p].now = clock,
                                  ![p].dl = clock + TTL, ![p].snap = NoSnap]
    /\ UNCHANGED <<clock, row, userVer, cache, ended, faulty>>

\* The secret is the current one, the previous one within its grace (both requests get the same
\* next secret), the previous one replayed later, or unknown.
RotRead(p) ==
    /\ proc[p].pc = "rotRead"
    /\ \/ /\ ActiveAt(proc[p].now)
          /\ proc[p].tok = row.gen
          /\ proc' = [proc EXCEPT ![p].pc = "cas", ![p].snap = RowSnap]
       \/ /\ ActiveAt(proc[p].now)
          /\ proc[p].tok = row.gen - 1
          /\ proc[p].now > row.until
          /\ proc' = [proc EXCEPT ![p].op = "reuse", ![p].pc = "fence", ![p].tok = 0, ![p].snap = RowSnap]
       \/ /\ \/ ~ActiveAt(proc[p].now)
             \/ proc[p].tok = row.gen - 1 /\ proc[p].now <= row.until
             \/ proc[p].tok \notin {row.gen, row.gen - 1}
          /\ Finish(p)
    /\ UNCHANGED <<clock, row, userVer, cache, ended, faulty>>

\* The compare-and-set on refresh_hash; its loser starts over.
Cas(p) ==
    /\ proc[p].pc = "cas"
    /\ \/ /\ ActiveAt(proc[p].now)
          /\ row.gen = proc[p].tok
          /\ row' = [row EXCEPT !.gen = @ + 1, !.until = proc[p].now + Grace]
          /\ proc' = [proc EXCEPT ![p].pc = "fill", ![p].now = 0, ![p].tok = 0]
       \/ /\ ~(ActiveAt(proc[p].now) /\ row.gen = proc[p].tok)
          /\ proc' = [proc EXCEPT ![p].pc = "rotRead", ![p].dl = clock + TTL, ![p].snap = NoSnap]
          /\ UNCHANGED row
    /\ UNCHANGED <<clock, userVer, cache, ended, faulty>>

-----------------------------------------------------------------------------
(* Revocation: RevokeUserSession, RevokeUserSessionByRefreshHash,          *)
(* revokeUserSessions and the reuse branch of the rotation.  All publish a *)
(* fence, revoke the row, and publish the tombstone.                       *)

Candidate(p) ==
    /\ proc[p].pc = "candidate"
    /\ IF ActiveAt(proc[p].now)
       THEN proc' = [proc EXCEPT ![p].pc = "fence", ![p].snap = RowSnap]
       ELSE Finish(p)
    /\ UNCHANGED <<clock, row, userVer, cache, ended, faulty>>

ByHash(p) ==
    /\ proc[p].pc = "byHash"
    /\ IF /\ ActiveAt(proc[p].now)
          /\ \/ proc[p].tok = row.gen
             \/ proc[p].tok = row.gen - 1 /\ proc[p].now <= row.until
       THEN proc' = [proc EXCEPT ![p].pc = "fence", ![p].tok = 0, ![p].snap = RowSnap]
       ELSE Finish(p)
    /\ UNCHANGED <<clock, row, userVer, cache, ended, faulty>>

\* The fence comes first; when Redis refuses it or fails, the row is left alone.
Fence(p) ==
    /\ proc[p].pc = "fence"
    /\ \/ /\ WriteDeny("revoking", proc[p].snap)
          /\ proc' = [proc EXCEPT ![p].pc = "commit", ![p].dl = DenyUntil]
       \/ /\ Refused("revoking", proc[p].snap.ver) \/ faulty
          /\ Finish(p)
          /\ UNCHANGED cache
    /\ UNCHANGED <<clock, row, userVer, ended, faulty>>

\* The transaction.  The bulk revocation keeps the row it has locked, the others their candidate.
Commit(p) ==
    /\ proc[p].pc = "commit"
    /\ \/ /\ ActiveAt(proc[p].now)
          /\ row' = [row EXCEPT !.active = FALSE]
          /\ ended' = [ended EXCEPT ![row.ver] = clock]
          /\ proc' = [proc EXCEPT ![p].pc = "final", ![p].now = 0,
                                  ![p].snap = IF proc[p].op = "revokeAll" THEN RowSnap ELSE @]
       \/ /\ ~ActiveAt(proc[p].now) \/ faulty
          /\ Finish(p)
          /\ UNCHANGED <<row, ended>>
    /\ UNCHANGED <<clock, userVer, cache, faulty>>

\* The tombstone; its failure is only logged.
Final(p) ==
    /\ proc[p].pc = "final"
    /\ \/ WriteDeny("revoked", proc[p].snap)
       \/ (Refused("revoked", proc[p].snap.ver) \/ faulty) /\ UNCHANGED cache
    /\ Finish(p)
    /\ UNCHANGED <<clock, row, userVer, ended, faulty>>

-----------------------------------------------------------------------------
(* Security changes: the user's auth version is incremented in the         *)
(* transaction of the change; then either all sessions are revoked         *)
(* (revokeUserSessions) or the current one is advanced                     *)
(* (AdvanceCurrentSessionToUserVersion).                                   *)

Bump(p) ==
    /\ proc[p].pc = "bump"
    /\ userVer < MaxUser
    /\ userVer' = userVer + 1
    /\ IF proc[p].op = "reset"
       THEN proc' = [proc EXCEPT ![p].op = "revokeAll", ![p].pc = "candidate", ![p].now = clock]
       ELSE Goto(p, "advRead")
    /\ UNCHANGED <<clock, row, cache, ended, faulty>>

\* Variant: the increment is added a second time.
AdvRead_Twice(p) ==
    /\ proc[p].pc = "advRead"
    /\ proc' = [proc EXCEPT ![p].pc = "advance", ![p].next = userVer + 1, ![p].dl = clock + TTL,
                            ![p].now = clock]
    /\ UNCHANGED <<clock, row, userVer, cache, ended, faulty>>

AdvRead(p) ==
    /\ proc[p].pc = "advRead"
    /\ proc' = [proc EXCEPT ![p].pc = "advance", ![p].next = userVer, ![p].dl = clock + TTL,
                            ![p].now = clock]
    /\ UNCHANGED <<clock, row, userVer, cache, ended, faulty>>

\* AdvanceUserSessionAuthVersion: the session's version moves with the user's.
Advance(p) ==
    /\ proc[p].pc = "advance"
    /\ IF ActiveAt(proc[p].now) /\ row.ver = proc[p].tok /\ row.ver < MaxVer
       THEN /\ row' = [row EXCEPT !.ver = @ + 1, !.uver = proc[p].next]
            /\ ended' = [ended EXCEPT ![row.ver] = clock]
            /\ proc' = [proc EXCEPT ![p].pc = "fill", ![p].now = 0, ![p].tok = 0, ![p].next = 0,
                                    ![p].snap = [ver |-> row.ver + 1, uver |-> proc[p].next]]
       ELSE Finish(p) /\ UNCHANGED <<row, ended>>
    /\ UNCHANGED <<clock, userVer, cache, faulty>>

-----------------------------------------------------------------------------
\* The process of a request dies, or the database fails a read: the request is over.
Abort(p) ==
    /\ faulty
    /\ proc[p].pc # "idle"
    /\ Finish(p)
    /\ UNCHANGED <<clock, row, userVer, cache, ended, faulty>>

\* Without faults a revocation gets from its fence to its tombstone while the fence lives.
Tick ==
    /\ clock < MaxClock
    /\ ~faulty => \A p \in Procs : proc[p].pc \in {"commit", "final"} => clock + 1 < proc[p].dl
    /\ clock' = clock + 1
    /\ UNCHANGED <<row, userVer, cache, proc, ended, faulty>>

Step(p) ==
    \/ BeginValidate(p) \/ BeginRefresh(p) \/ BeginRevoke(p)
    \/ BeginLogout(p) \/ BeginAdvance(p) \/ BeginReset(p)
    \/ Lookup(p) \/ ReadRow(p) \/ DenyFill(p)
    \/ Fill(p) \/ Script(p) \/ ScriptFails(p) \/ Filled(p) \/ Confirm(p)
    \/ Got(p) \/ RotRead(p) \/ Cas(p)
    \/ Candidate(p) \/ ByHash(p) \/ Fence(p) \/ Commit(p) \/ Final(p)
    \/ Bump(p) \/ AdvRead(p) \/ Advance(p)
    \/ Abort(p)

Next == Tick \/ \E p \in Procs : Step(p)

Spec == Init /\ [][Next]_vars

-----------------------------------------------------------------------------
\* The version a request has been handed.
Granted == [p \in Procs |-> IF proc[p].pc = "got" THEN proc[p].snap.ver ELSE 0]

\* Despite delayed fills of the cache, failed writes and dying processes, the session store
\* behaves like one that stops granting a version within TTL of its end.
Authority == INSTANCE SessionAuthority
    WITH Requests <- Procs, Versions <- Vers, Lag <- TTL, now <- clock, live <- row.active,
         version <- row.ver, granted <- Granted

ImplementsAuthority == Authority!Spec

\* When Redis and the processes do not fail and a revocation takes less than the cache's TTL, a
\* revoked session whose version never changed is not in the cache as an active one for a single
\* moment: the fence is there before the row is revoked, and no late fill gets in before or after
\* the tombstone (the Lua script and the deadlines of writeUserSessionCache).
RevokedIsDenied == ~faulty /\ ~row.active /\ row.ver = 1 => Live.status # "active"
=============================================================================
