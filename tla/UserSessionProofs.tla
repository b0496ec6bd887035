-------------------------- MODULE UserSessionProofs -------------------------
(***************************************************************************)
(* UserSession implements SessionAuthority, for any number of requests and *)
(* any TTL.  The argument is about deadlines: a request fixes the deadline *)
(* of what it reads before it reads, so a snapshot taken before a version  *)
(* ended cannot be believed longer than TTL after that end, however late   *)
(* it is written to the cache.  And without faults a revoked session is    *)
(* denied at once: its fence, its tombstone or the deadlines keep every    *)
(* late fill out of the cache.                                             *)
(***************************************************************************)
EXTENDS UserSession, TLAPS

\* A snapshot of version v with deadline d: the version is the current one of an active session,
\* or the deadline is within TTL of the version's end.
Bounded(v, d) ==
    \/ row.active /\ v = row.ver
    \/ ended[v] >= 0 /\ d <= ended[v] + TTL

\* What is known about the local state q of a request.
DeadlineInv(q) ==
    q.pc \in {"read", "rotRead", "cas", "advance", "fill", "script", "filled"} => q.dl <= clock + TTL
SnapInv(q) ==
    q.pc \in {"cas", "fill", "script", "filled"} => q.snap.ver \in Vers /\ Bounded(q.snap.ver, q.dl)
RangeInv(q) ==
    /\ q.pc = "got" => q.snap.ver \in Vers
    /\ q.pc = "advance" => q.next \in Users
    /\ q.pc = "byHash" => q.op = "logout"
    /\ q.pc \in {"bump", "advRead", "advance"} => q.op # "refresh"
    /\ q.op = "refresh" \/ q.pc \in {"rotRead", "cas"} => q.tok < MaxGen
LocalInv(q) == DeadlineInv(q) /\ SnapInv(q) /\ RangeInv(q)

\* What is known about the cache.
CacheInv ==
    cache.status = "active" =>
        cache.ver \in Vers /\ Bounded(cache.ver, cache.until) /\ cache.until <= clock + TTL

IInv == TypeOK /\ CacheInv /\ \A p \in Procs : LocalInv(proc[p])

\* Version v may be handed to a request now.
Grantable(v) ==
    \/ row.active /\ v = row.ver
    \/ ended[v] >= 0 /\ clock < ended[v] + TTL

\* A step of the abstract specification, or none.
AbstractStep == [Authority!Next]_(Authority!vars)

-----------------------------------------------------------------------------
(* How one step of a request is composed with what stays.                  *)

\* The row keeps its version, or the version ends now.
SameVersion == row'.active = row.active /\ row'.ver = row.ver /\ ended' = ended
EndsVersion ==
    /\ row.active
    /\ ended' = [ended EXCEPT ![row.ver] = clock]
    /\ \/ ~row'.active /\ row'.ver = row.ver
       \/ row'.active /\ row'.ver = row.ver + 1

\* A deadline fixed by now stays within TTL of the end of its version.
LEMMA BoundedKept ==
    ASSUME TypeOK, row' \in Rows, clock' = clock, SameVersion \/ EndsVersion,
           NEW v \in Vers, NEW d \in Int, d <= clock + TTL, Bounded(v, d)
    PROVE  Bounded(v, d)'
  <1>t. /\ ended \in [Vers -> {-1} \cup Time] /\ clock \in Int /\ TTL \in Int
        /\ clock >= 0 /\ \A w \in Vers : ended[w] \in Int
    BY ConstantsAssumption DEF TypeOK, Time
  <1>1. CASE SameVersion
    BY <1>1 DEF SameVersion, Bounded
  <1>2. CASE EndsVersion /\ v = row.ver
    BY <1>2, <1>t DEF EndsVersion, Bounded
  <1>3. CASE EndsVersion /\ v # row.ver
    BY <1>3, <1>t DEF EndsVersion, Bounded
  <1> QED
    BY <1>1, <1>2, <1>3

\* What is known about a request that does not move stays true.
LEMMA LocalKept ==
    ASSUME TypeOK, row' \in Rows, clock' = clock, SameVersion \/ EndsVersion,
           NEW q \in Locals, LocalInv(q)
    PROVE  LocalInv(q)'
  <1>1. q.dl \in Int
    BY DEF Locals
  <1>2. DeadlineInv(q)' /\ RangeInv(q)'
    BY DEF LocalInv, DeadlineInv, RangeInv
  <1>3. SnapInv(q)'
    BY <1>1, BoundedKept DEF LocalInv, DeadlineInv, SnapInv
  <1> QED
    BY <1>2, <1>3 DEF LocalInv

\* The version granted to the other requests does not change.
LEMMA GrantedStep ==
    ASSUME TypeOK, NEW p \in Procs, NEW q \in Locals, proc' = [proc EXCEPT ![p] = q]
    PROVE  Granted' = [Granted EXCEPT ![p] = IF q.pc = "got" THEN q.snap.ver ELSE 0]
BY DEF TypeOK, Granted

\* The types of what the requests share.
SharedOK ==
    /\ row \in Rows
    /\ userVer \in Users
    /\ cache \in Entries
    /\ ended \in [Vers -> {-1} \cup Time]

\* What is proved of every step.
Good == IInv' /\ AbstractStep

\* Request p moves to local state q, and hands the session to its caller only when it may.
Moves(p, q) ==
    /\ proc' = [proc EXCEPT ![p] = q]
    /\ q.pc = "got" => proc[p].pc # "got" /\ q.snap.ver \in Vers /\ Grantable(q.snap.ver)

\* Request p ends the version: it is not the caller of a lookup, before or after.
Ends(p, q) ==
    /\ proc' = [proc EXCEPT ![p] = q]
    /\ q.pc # "got" /\ proc[p].pc # "got"

LEMMA InvStep ==
    ASSUME IInv, NEW p \in Procs, NEW q \in Locals, proc' = [proc EXCEPT ![p] = q],
           UNCHANGED <<clock, faulty>>, SharedOK', CacheInv', SameVersion \/ EndsVersion,
           LocalInv(q)'
    PROVE  IInv'
  <1>1. TypeOK'
    BY DEF IInv, TypeOK, SharedOK
  <1>2. ASSUME NEW r \in Procs PROVE LocalInv(proc[r])'
    <2>1. CASE r = p
      <3>1. proc'[r] = q
        BY <2>1 DEF IInv, TypeOK
      <3> QED
        BY <3>1 DEF LocalInv, DeadlineInv, SnapInv, RangeInv, Bounded
    <2>2. CASE r # p
      <3>1. proc'[r] = proc[r] /\ proc[r] \in Locals
        BY <2>2 DEF IInv, TypeOK
      <3> DEFINE o == proc[r]
      <3>2. o \in Locals /\ LocalInv(o)
        BY <3>1 DEF IInv
      <3> HIDE DEF o
      <3>3. ASSUME NEW u \in Locals, LocalInv(u) PROVE LocalInv(u)'
        BY <3>3, LocalKept DEF IInv, SharedOK
      <3>4. PICK u \in Locals : u = o /\ LocalInv(u) /\ u = proc'[r]
        BY <3>1, <3>2 DEF o
      <3>5. LocalInv(u)'
        BY <3>3, <3>4
      <3> QED
        BY <3>4, <3>5 DEF LocalInv, DeadlineInv, SnapInv, RangeInv, Bounded
    <2> QED
      BY <2>1, <2>2
  <1> QED
    BY <1>1, <1>2 DEF IInv

LEMMA AbstractMove ==
    ASSUME IInv, NEW p \in Procs, NEW q \in Locals, Moves(p, q), clock' = clock, SameVersion
    PROVE  AbstractStep
  <1>1. Granted' = [Granted EXCEPT ![p] = IF q.pc = "got" THEN q.snap.ver ELSE 0]
    BY GrantedStep DEF IInv, Moves
  <1>2. Granted[p] = IF proc[p].pc = "got" THEN proc[p].snap.ver ELSE 0
    BY DEF Granted
  <1>u. UNCHANGED <<clock, row.active, row.ver, ended>>
    BY DEF SameVersion
  <1>3. CASE q.pc = "got"
    <2>1. Granted[p] = 0 /\ Granted' = [Granted EXCEPT ![p] = q.snap.ver]
      BY <1>1, <1>2, <1>3 DEF Moves
    <2>2. q.snap.ver \in Vers /\ Authority!Grantable(q.snap.ver)
      BY <1>3 DEF Moves, Grantable, Authority!Grantable
    <2>3. Authority!Grant(p)
      BY <2>1, <2>2, <1>u DEF Authority!Grant
    <2> QED
      BY <2>3 DEF AbstractStep, Authority!Next
  <1>4. CASE q.pc # "got" /\ proc[p].pc = "got"
    <2>1. Granted[p] # 0
      <3>1. LocalInv(proc[p])
        BY DEF IInv
      <3> QED
        BY <3>1, <1>2, <1>4, ConstantsAssumption DEF LocalInv, RangeInv, Vers
    <2>2. Authority!Release(p)
      BY <2>1, <1>1, <1>4, <1>u DEF Authority!Release
    <2> QED
      BY <2>2 DEF AbstractStep, Authority!Next
  <1>5. CASE q.pc # "got" /\ proc[p].pc # "got"
    <2>1. Granted' = Granted
      BY <1>1, <1>2, <1>5 DEF Granted
    <2> QED
      BY <2>1, <1>u DEF AbstractStep, Authority!vars
  <1> QED
    BY <1>3, <1>4, <1>5

LEMMA AbstractEnd ==
    ASSUME IInv, NEW p \in Procs, NEW q \in Locals, Ends(p, q), clock' = clock, EndsVersion,
           row' \in Rows
    PROVE  AbstractStep
  <1>1. Granted' = [Granted EXCEPT ![p] = 0] /\ Granted[p] = 0
    BY GrantedStep DEF IInv, Ends, Granted
  <1>2. Granted' = Granted
    BY <1>1 DEF Granted
  <1>3. row.active \in BOOLEAN /\ row'.active \in BOOLEAN /\ row'.ver \in Vers
    BY DEF IInv, TypeOK, Rows
  <1>4. CASE ~row'.active /\ row'.ver = row.ver
    <2>1. row'.active = FALSE
      BY <1>3, <1>4
    <2>2. Authority!Revoke
      BY <2>1, <1>2, <1>4 DEF EndsVersion, Authority!Revoke
    <2> QED
      BY <2>2 DEF AbstractStep, Authority!Next
  <1>5. CASE row'.active /\ row'.ver = row.ver + 1
    <2>1. row'.active = row.active
      BY <1>3, <1>5, Zenon DEF EndsVersion
    <2>2. Authority!Advance
      BY <2>1, <1>2, <1>3, <1>5 DEF EndsVersion, Authority!Advance
    <2> QED
      BY <2>2 DEF AbstractStep, Authority!Next
  <1> QED
    BY <1>4, <1>5 DEF EndsVersion

\* The cache keeps its bound when the entry does not change.
LEMMA CacheKept ==
    ASSUME IInv, row' \in Rows, UNCHANGED <<clock, cache>>, SameVersion \/ EndsVersion
    PROVE  CacheInv'
  <1>1. cache.until \in Int
    BY DEF IInv, TypeOK, Entries
  <1>2. CASE cache.status = "active"
    <2>1. Bounded(cache.ver, cache.until)'
      <3>1. ASSUME NEW v \in Vers, NEW d \in Int, d <= clock + TTL, Bounded(v, d)
            PROVE  Bounded(v, d)'
        BY <3>1, BoundedKept DEF IInv
      <3>2. PICK v \in Vers, d \in Int :
              v = cache.ver /\ d = cache.until /\ d <= clock + TTL /\ Bounded(v, d)
        BY <1>1, <1>2 DEF IInv, CacheInv
      <3>3. Bounded(v, d)'
        BY <3>1, <3>2
      <3> QED
        BY <3>2, <3>3 DEF Bounded
    <2> QED
      BY <1>2, <2>1 DEF IInv, CacheInv
  <1> QED
    BY <1>2 DEF CacheInv

-----------------------------------------------------------------------------
(* A step of a request that changes nothing but its own state.             *)

LEMMA LocalStep ==
    ASSUME IInv, NEW p \in Procs, NEW q \in Locals, Moves(p, q), LocalInv(q),
           UNCHANGED <<clock, row, userVer, cache, ended, faulty>>
    PROVE  Good
  <1>1. SameVersion /\ SharedOK'
    BY DEF SameVersion, SharedOK, IInv, TypeOK
  <1>2. CacheInv' /\ LocalInv(q)'
    BY DEF IInv, CacheInv, Bounded, LocalInv, DeadlineInv, SnapInv, RangeInv
  <1>3. IInv'
    BY <1>1, <1>2, InvStep DEF Moves
  <1>4. AbstractStep
    BY <1>1, AbstractMove
  <1> QED
    BY <1>3, <1>4 DEF Good

LEMMA IdleOK == Idle \in Locals /\ Idle.pc = "idle" /\ LocalInv(Idle)
  <1>1. Idle \in Locals
    BY ConstantsAssumption DEF Idle, Locals, OpNames, PCs, Snaps, NoSnap
  <1>2. Idle.pc = "idle" /\ Idle.op = "none"
    BY DEF Idle
  <1> QED
    BY <1>1, <1>2 DEF LocalInv, DeadlineInv, SnapInv, RangeInv

\* A request ends without writing anything.
LEMMA FinishStep ==
    ASSUME IInv, NEW p \in Procs, Finish(p),
           UNCHANGED <<clock, row, userVer, cache, ended, faulty>>
    PROVE  Good
BY IdleOK, LocalStep DEF Finish, Moves

\* A request goes on at pc, from a place with the same obligations.
LEMMA ReturnStep ==
    ASSUME IInv, NEW p \in Procs, Return(p), proc[p].pc # "got",
           proc[p].snap.ver \in Vers, Grantable(proc[p].snap.ver),
           UNCHANGED <<clock, row, userVer, cache, ended, faulty>>
    PROVE  Good
  <1>1. CASE proc[p].op \in {"validate", "refresh"}
    <2> DEFINE q == [proc[p] EXCEPT !.pc = "got", !.dl = 0]
    <2>0. proc[p] \in Locals /\ LocalInv(proc[p])
      BY DEF IInv, TypeOK
    <2>p. "got" \in PCs /\ 0 \in Int
      BY DEF PCs
    <2>1. q \in Locals
      BY <2>0, <2>p DEF Locals
    <2>f. q.pc = "got" /\ q.snap = proc[p].snap /\ q.op = proc[p].op /\ q.tok = proc[p].tok
      BY <2>0 DEF Locals
    <2>2. proc' = [proc EXCEPT ![p] = q]
      BY <1>1 DEF Return
    <2>3. LocalInv(q)
      BY <2>0, <2>f DEF LocalInv, DeadlineInv, SnapInv, RangeInv
    <2>4. Moves(p, q)
      BY <2>f, <2>2 DEF Moves
    <2> HIDE DEF q
    <2> QED
      BY <2>1, <2>3, <2>4, LocalStep
  <1>2. CASE proc[p].op \notin {"validate", "refresh"}
    BY <1>2, FinishStep DEF Return
  <1> QED
    BY <1>1, <1>2

\* A request starts with a fresh local state that has only an operation, a time and a secret.
Starts(p, op, pc, now, tok) ==
    /\ proc' = [proc EXCEPT ![p] = [Idle EXCEPT !.op = op, !.pc = pc, !.now = now, !.tok = tok]]
    /\ UNCHANGED <<clock, row, userVer, cache, ended, faulty>>

LEMMA StartsStep ==
    ASSUME IInv, NEW p \in Procs, NEW op \in OpNames, NEW pc \in {"lookup", "candidate", "byHash", "bump"},
           NEW now \in Int, NEW tok \in Int, op = "refresh" => tok < MaxGen,
           pc = "byHash" => op = "logout", pc = "bump" => op # "refresh", Starts(p, op, pc, now, tok)
    PROVE  Good
  <1> DEFINE q == [Idle EXCEPT !.op = op, !.pc = pc, !.now = now, !.tok = tok]
  <1>1. q \in Locals /\ q.pc = pc /\ q.op = op /\ q.tok = tok
    BY IdleOK DEF Locals, PCs
  <1>2. LocalInv(q) /\ Moves(p, q)
    BY <1>1 DEF LocalInv, DeadlineInv, SnapInv, RangeInv, Moves, Starts
  <1> HIDE DEF q
  <1> QED
    BY <1>1, <1>2, LocalStep DEF Starts

LEMMA BeginStep ==
    ASSUME IInv, NEW p \in Procs,
           \/ BeginValidate(p) \/ BeginRefresh(p) \/ BeginRevoke(p)
           \/ BeginLogout(p) \/ BeginAdvance(p) \/ BeginReset(p)
    PROVE  Good
  <1>t. clock \in Int /\ row.gen \in Int /\ row.ver \in Int
    BY DEF IInv, TypeOK, Time, Rows, Gens, Vers
  <1>b. \A op, pc, now, tok : Begin(p, op, pc, now, tok) => Starts(p, op, pc, now, tok)
    BY DEF Begin, Starts
  <1>1. CASE BeginValidate(p)
    BY <1>1, <1>b, StartsStep DEF BeginValidate, OpNames
  <1>2. CASE BeginRefresh(p)
    <2>1. PICK t \in 0..row.gen : t < MaxGen /\ Begin(p, "refresh", "lookup", 0, t)
      BY <1>2 DEF BeginRefresh
    <2> QED
      BY <2>1, <1>t, <1>b, StartsStep DEF OpNames
  <1>3. CASE BeginRevoke(p)
    BY <1>3, <1>t, <1>b, StartsStep DEF BeginRevoke, OpNames
  <1>4. CASE BeginLogout(p)
    <2>1. PICK t \in 0..row.gen : Begin(p, "logout", "byHash", clock, t)
      BY <1>4 DEF BeginLogout
    <2> QED
      BY <2>1, <1>t, <1>b, StartsStep DEF OpNames
  <1>5. CASE BeginAdvance(p)
    BY <1>5, <1>t, <1>b, StartsStep DEF BeginAdvance, OpNames
  <1>6. CASE BeginReset(p)
    BY <1>6, <1>b, StartsStep DEF BeginReset, OpNames
  <1> QED
    BY <1>1, <1>2, <1>3, <1>4, <1>5, <1>6

\* The names of the places and the types of a request.
LEMMA LocalTypes ==
    ASSUME IInv, NEW p \in Procs
    PROVE  /\ proc[p] \in Locals /\ LocalInv(proc[p])
           /\ clock \in Int /\ TTL \in Int /\ Expires \in Int /\ userVer \in Users
           /\ RowSnap \in Snaps /\ RowSnap.ver = row.ver /\ row.ver \in Vers /\ NoSnap \in Snaps
           /\ row.gen \in Int /\ row.active \in BOOLEAN
  <1>1. proc[p] \in Locals /\ LocalInv(proc[p])
    BY DEF IInv, TypeOK
  <1>2. clock \in Int /\ TTL \in Int /\ Expires \in Int /\ userVer \in Users
    BY ConstantsAssumption DEF IInv, TypeOK, Time
  <1>3. row.ver \in Vers /\ row.uver \in Users /\ row.gen \in Int /\ row.active \in BOOLEAN
    BY DEF IInv, TypeOK, Rows, Gens
  <1>4. RowSnap \in Snaps /\ RowSnap.ver = row.ver /\ NoSnap \in Snaps
    BY <1>3, ConstantsAssumption DEF RowSnap, Snaps, NoSnap, Vers, Users
  <1> QED
    BY <1>1, <1>2, <1>3, <1>4

\* A request only goes to another place, where no more is asked of its snapshot and deadline.
LEMMA GotoStep ==
    ASSUME IInv, NEW p \in Procs, NEW pc \in {"script", "confirm", "filled"}, Goto(p, pc),
           proc[p].pc \in {"fill", "script", "filled"},
           UNCHANGED <<clock, row, userVer, cache, ended, faulty>>
    PROVE  Good
  <1> DEFINE q == [proc[p] EXCEPT !.pc = pc]
  <1>0. pc \in PCs /\ proc[p] \in Locals /\ LocalInv(proc[p])
    BY LocalTypes DEF PCs
  <1>1. q \in Locals
    BY <1>0 DEF Locals
  <1>2. q.pc = pc /\ q.dl = proc[p].dl /\ q.snap = proc[p].snap /\ q.op = proc[p].op /\ q.tok = proc[p].tok
    BY <1>0 DEF Locals
  <1>3. LocalInv(q)
    BY <1>0, <1>2 DEF LocalInv, DeadlineInv, SnapInv, RangeInv
  <1>4. Moves(p, q)
    BY <1>2 DEF Moves, Goto
  <1> HIDE DEF q
  <1> QED
    BY <1>1, <1>3, <1>4, LocalStep

LEMMA LookupStep == ASSUME IInv, NEW p \in Procs, Lookup(p) PROVE Good
  <1>0. /\ proc[p] \in Locals /\ LocalInv(proc[p]) /\ clock \in Int /\ TTL \in Int
        /\ "got" \in PCs /\ "read" \in PCs /\ proc[p].pc = "lookup"
    BY LocalTypes DEF PCs, Lookup
  <1>1. CASE /\ Live.status = "active"
             /\ proc' = [proc EXCEPT ![p].pc = "got",
                                     ![p].snap = [ver |-> Live.ver, uver |-> Live.uver]]
    <2> DEFINE s == [ver |-> Live.ver, uver |-> Live.uver]
               q == [proc[p] EXCEPT !.pc = "got", !.snap = s]
    <2>1. Live = cache /\ cache.until > clock /\ cache.until \in Int
      BY <1>1 DEF Live, NoEntry, IInv, TypeOK, Entries
    <2>2. s \in Snaps /\ s.ver = cache.ver
      <3>1. cache.ver \in 0..MaxVer /\ cache.uver \in 0..MaxUser
        BY DEF IInv, TypeOK, Entries
      <3> QED
        BY <2>1, <3>1 DEF Snaps
    <2>3. cache.ver \in Vers /\ Bounded(cache.ver, cache.until)
      BY <1>1, <2>1 DEF IInv, CacheInv
    <2>4. Grantable(cache.ver)
      <3>1. ended[cache.ver] \in Int
        BY <2>3 DEF IInv, TypeOK, Time
      <3> QED
        BY <2>1, <2>3, <3>1, <1>0 DEF Bounded, Grantable
    <2> HIDE DEF s
    <2>5. q \in Locals
      BY <1>0, <2>2 DEF Locals
    <2>6. q.pc = "got" /\ q.snap = s /\ q.op = proc[p].op /\ q.tok = proc[p].tok
      BY <1>0 DEF Locals
    <2>7. LocalInv(q)
      BY <1>0, <2>2, <2>3, <2>6 DEF LocalInv, DeadlineInv, SnapInv, RangeInv
    <2>8. proc' = [proc EXCEPT ![p] = q]
      BY <1>1 DEF s
    <2>9. Moves(p, q)
      BY <1>0, <2>2, <2>3, <2>4, <2>6, <2>8 DEF Moves
    <2> HIDE DEF q
    <2> QED
      BY <2>5, <2>7, <2>9, LocalStep DEF Lookup
  <1>2. CASE Finish(p)
    BY <1>2, FinishStep DEF Lookup
  <1>3. CASE proc' = [proc EXCEPT ![p].pc = "read", ![p].dl = clock + TTL]
    <2> DEFINE d == clock + TTL
               q == [proc[p] EXCEPT !.pc = "read", !.dl = d]
    <2>d. d \in Int /\ d <= clock + TTL
      BY <1>0
    <2>e. proc' = [proc EXCEPT ![p].pc = "read", ![p].dl = d]
      BY <1>3
    <2> HIDE DEF d
    <2>f. proc' = [proc EXCEPT ![p] = q]
      BY <2>e
    <2>1. q \in Locals
      BY <1>0, <2>d DEF Locals
    <2>2. q.pc = "read" /\ q.dl = d /\ q.op = proc[p].op /\ q.tok = proc[p].tok
      BY <1>0 DEF Locals
    <2>3. LocalInv(q)
      BY <1>0, <2>d, <2>2 DEF LocalInv, DeadlineInv, SnapInv, RangeInv
    <2>4. Moves(p, q)
      BY <2>f, <2>2 DEF Moves
    <2> HIDE DEF q
    <2> QED
      BY <2>1, <2>3, <2>4, LocalStep DEF Lookup
  <1> QED
    BY <1>1, <1>2, <1>3 DEF Lookup

LEMMA ReadRowStep == ASSUME IInv, NEW p \in Procs, ReadRow(p) PROVE Good
  <1>0. /\ proc[p] \in Locals /\ LocalInv(proc[p]) /\ RowSnap \in Snaps
        /\ RowSnap.ver = row.ver /\ row.ver \in Vers /\ proc[p].pc = "read"
    BY LocalTypes DEF ReadRow
  <1> DEFINE pc == IF ActiveAt(clock) THEN "fill" ELSE "deny"
             q == [proc[p] EXCEPT !.pc = pc, !.snap = RowSnap]
  <1>1. pc \in PCs /\ (pc = "fill" => row.active) /\ pc \in {"fill", "deny"}
    BY DEF PCs, ActiveAt
  <1>2. proc' = [proc EXCEPT ![p] = q]
    BY DEF ReadRow
  <1> HIDE DEF pc
  <1>3. q \in Locals
    BY <1>0, <1>1 DEF Locals
  <1>4. q.pc = pc /\ q.snap = RowSnap /\ q.dl = proc[p].dl /\ q.op = proc[p].op /\ q.tok = proc[p].tok
    BY <1>0 DEF Locals
  <1>5. LocalInv(q)
    BY <1>0, <1>1, <1>4 DEF LocalInv, DeadlineInv, SnapInv, RangeInv, Bounded
  <1>6. Moves(p, q)
    BY <1>1, <1>2, <1>4 DEF Moves
  <1> HIDE DEF q
  <1> QED
    BY <1>3, <1>5, <1>6, LocalStep DEF ReadRow


LEMMA FillStep == ASSUME IInv, NEW p \in Procs, Fill(p) PROVE Good
  <1>1. CASE Goto(p, "confirm")
    BY <1>1, GotoStep DEF Fill
  <1>2. CASE Finish(p)
    BY <1>2, FinishStep DEF Fill
  <1>3. CASE Goto(p, "script")
    BY <1>3, GotoStep DEF Fill
  <1> QED
    BY <1>1, <1>2, <1>3 DEF Fill

\* Before its deadline a snapshot may be handed over.
LEMMA InTime ==
    ASSUME IInv, NEW p \in Procs, proc[p].pc \in {"script", "filled"}, clock < proc[p].dl
    PROVE  proc[p].snap.ver \in Vers /\ Grantable(proc[p].snap.ver)
  <1>1. proc[p] \in Locals /\ LocalInv(proc[p]) /\ clock \in Int /\ TTL \in Int
    BY LocalTypes
  <1>2. proc[p].snap.ver \in Vers /\ Bounded(proc[p].snap.ver, proc[p].dl) /\ proc[p].dl \in Int
    BY <1>1 DEF LocalInv, SnapInv, Locals
  <1>3. ended[proc[p].snap.ver] \in Int
    BY <1>2 DEF IInv, TypeOK, Time
  <1> QED
    BY <1>1, <1>2, <1>3 DEF Bounded, Grantable

LEMMA ScriptFailsStep == ASSUME IInv, NEW p \in Procs, ScriptFails(p) PROVE Good
  <1>1. CASE Finish(p)
    BY <1>1, FinishStep DEF ScriptFails
  <1>2. CASE Return(p)
    BY <1>2, InTime, ReturnStep DEF ScriptFails
  <1> QED
    BY <1>1, <1>2 DEF ScriptFails

LEMMA FilledStep == ASSUME IInv, NEW p \in Procs, Filled(p) PROVE Good
  <1>1. CASE Goto(p, "confirm")
    BY <1>1, GotoStep DEF Filled
  <1>2. CASE Finish(p)
    BY <1>2, FinishStep DEF Filled
  <1>3. CASE clock < proc[p].dl /\ Return(p)
    BY <1>3, InTime, ReturnStep DEF Filled
  <1> QED
    BY <1>1, <1>2, <1>3 DEF Filled

LEMMA ConfirmStep == ASSUME IInv, NEW p \in Procs, Confirm(p) PROVE Good
  <1>1. CASE ActiveAt(clock) /\ RowSnap = proc[p].snap
    <2>1. proc[p].snap.ver \in Vers /\ Grantable(proc[p].snap.ver)
      BY <1>1, LocalTypes DEF ActiveAt, Grantable
    <2> QED
      BY <1>1, <2>1, ReturnStep DEF Confirm
  <1>2. CASE ~(ActiveAt(clock) /\ RowSnap = proc[p].snap)
    BY <1>2, FinishStep DEF Confirm
  <1> QED
    BY <1>1, <1>2

LEMMA GotStep == ASSUME IInv, NEW p \in Procs, Got(p) PROVE Good
  <1>0. /\ proc[p] \in Locals /\ LocalInv(proc[p]) /\ clock \in Int /\ TTL \in Int /\ NoSnap \in Snaps
    BY LocalTypes
  <1>1. CASE Finish(p)
    BY <1>1, FinishStep DEF Got
  <1>2. CASE proc' = [proc EXCEPT ![p] = [Idle EXCEPT !.op = "revoke", !.pc = "candidate", !.now = clock]]
    <2> DEFINE q == [Idle EXCEPT !.op = "revoke", !.pc = "candidate", !.now = clock]
    <2>0. "revoke" \in OpNames /\ "candidate" \in PCs
      BY DEF OpNames, PCs
    <2>1. q \in Locals /\ q.pc = "candidate" /\ q.op = "revoke"
      BY <1>0, <2>0, IdleOK DEF Locals
    <2>2. proc' = [proc EXCEPT ![p] = q]
      BY <1>2
    <2>3. LocalInv(q) /\ Moves(p, q)
      BY <2>1, <2>2 DEF LocalInv, DeadlineInv, SnapInv, RangeInv, Moves
    <2> HIDE DEF q
    <2> QED
      BY <2>1, <2>3, LocalStep DEF Got
  <1>3. CASE /\ proc[p].op = "refresh"
             /\ proc' = [proc EXCEPT ![p].op = "rotate", ![p].pc = "rotRead", ![p].now = clock,
                                     ![p].dl = clock + TTL, ![p].snap = NoSnap]
    <2> DEFINE d == clock + TTL
               q == [proc[p] EXCEPT !.op = "rotate", !.pc = "rotRead", !.now = clock, !.dl = d,
                                    !.snap = NoSnap]
    <2>1. d \in Int /\ d <= clock + TTL /\ "rotate" \in OpNames /\ "rotRead" \in PCs
      BY <1>0 DEF OpNames, PCs
    <2>2. proc' = [proc EXCEPT ![p].op = "rotate", ![p].pc = "rotRead", ![p].now = clock,
                               ![p].dl = d, ![p].snap = NoSnap]
      BY <1>3
    <2> HIDE DEF d
    <2>3. proc' = [proc EXCEPT ![p] = q]
      BY <2>2
    <2>4. q \in Locals
      BY <1>0, <2>1 DEF Locals
    <2>5. q.pc = "rotRead" /\ q.dl = d /\ q.op = "rotate" /\ q.tok = proc[p].tok
      BY <1>0 DEF Locals
    <2>6. LocalInv(q)
      BY <1>0, <1>3, <2>1, <2>5 DEF LocalInv, DeadlineInv, SnapInv, RangeInv
    <2>7. Moves(p, q)
      BY <2>3, <2>5 DEF Moves
    <2> HIDE DEF q
    <2> QED
      BY <2>4, <2>6, <2>7, LocalStep DEF Got
  <1> QED
    BY <1>1, <1>2, <1>3 DEF Got

\* The row is read by a request that then fences it.
LEMMA ToFence ==
    ASSUME IInv, NEW p \in Procs, NEW op \in OpNames \ {"refresh"}, NEW tok \in Int,
           proc' = [proc EXCEPT ![p] = [proc[p] EXCEPT !.op = op, !.pc = "fence", !.tok = tok, !.snap = RowSnap]],
           UNCHANGED <<clock, row, userVer, cache, ended, faulty>>
    PROVE  Good
  <1> DEFINE q == [proc[p] EXCEPT !.op = op, !.pc = "fence", !.tok = tok, !.snap = RowSnap]
  <1>0. proc[p] \in Locals /\ RowSnap \in Snaps /\ "fence" \in PCs
    BY LocalTypes DEF PCs
  <1>1. q \in Locals
    BY <1>0 DEF Locals
  <1>2. q.pc = "fence" /\ q.op = op
    BY <1>0 DEF Locals
  <1>3. LocalInv(q) /\ Moves(p, q)
    BY <1>2 DEF LocalInv, DeadlineInv, SnapInv, RangeInv, Moves
  <1> HIDE DEF q
  <1> QED
    BY <1>1, <1>3, LocalStep


LEMMA RotReadStep == ASSUME IInv, NEW p \in Procs, RotRead(p) PROVE Good
  <1>0. /\ proc[p] \in Locals /\ LocalInv(proc[p]) /\ RowSnap \in Snaps /\ RowSnap.ver = row.ver
        /\ row.ver \in Vers /\ "cas" \in PCs /\ proc[p].pc = "rotRead"
    BY LocalTypes DEF PCs, RotRead
  <1>1. CASE ActiveAt(proc[p].now) /\ proc' = [proc EXCEPT ![p].pc = "cas", ![p].snap = RowSnap]
    <2> DEFINE q == [proc[p] EXCEPT !.pc = "cas", !.snap = RowSnap]
    <2>1. proc' = [proc EXCEPT ![p] = q]
      BY <1>1
    <2>2. q \in Locals
      BY <1>0 DEF Locals
    <2>3. q.pc = "cas" /\ q.snap = RowSnap /\ q.dl = proc[p].dl /\ q.op = proc[p].op /\ q.tok = proc[p].tok
      BY <1>0 DEF Locals
    <2>4. LocalInv(q)
      BY <1>0, <1>1, <2>3 DEF LocalInv, DeadlineInv, SnapInv, RangeInv, Bounded, ActiveAt
    <2>5. Moves(p, q)
      BY <2>1, <2>3 DEF Moves
    <2> HIDE DEF q
    <2> QED
      BY <2>2, <2>4, <2>5, LocalStep DEF RotRead
  <1>2. CASE proc' = [proc EXCEPT ![p].op = "reuse", ![p].pc = "fence", ![p].tok = 0, ![p].snap = RowSnap]
    <2>1. proc' = [proc EXCEPT ![p] = [proc[p] EXCEPT !.op = "reuse", !.pc = "fence", !.tok = 0, !.snap = RowSnap]]
      BY <1>2
    <2>2. "reuse" \in OpNames \ {"refresh"} /\ 0 \in Int
      BY DEF OpNames
    <2> QED
      BY <2>1, <2>2, ToFence DEF RotRead
  <1>3. CASE Finish(p)
    BY <1>3, FinishStep DEF RotRead
  <1> QED
    BY <1>1, <1>2, <1>3 DEF RotRead

LEMMA CandidateStep == ASSUME IInv, NEW p \in Procs, Candidate(p) PROVE Good
  <1>1. CASE ActiveAt(proc[p].now)
    <2> DEFINE q == [proc[p] EXCEPT !.pc = "fence", !.snap = RowSnap]
    <2>0. proc[p] \in Locals /\ LocalInv(proc[p]) /\ RowSnap \in Snaps /\ "fence" \in PCs
      BY LocalTypes DEF PCs
    <2>1. proc' = [proc EXCEPT ![p] = q]
      BY <1>1 DEF Candidate
    <2>2. q \in Locals
      BY <2>0 DEF Locals
    <2>3. q.pc = "fence" /\ q.op = proc[p].op /\ q.tok = proc[p].tok
      BY <2>0 DEF Locals
    <2>4. LocalInv(q) /\ Moves(p, q)
      BY <2>0, <2>1, <2>3 DEF LocalInv, DeadlineInv, SnapInv, RangeInv, Moves
    <2> HIDE DEF q
    <2> QED
      BY <2>2, <2>4, LocalStep DEF Candidate
  <1>2. CASE ~ActiveAt(proc[p].now)
    BY <1>2, FinishStep DEF Candidate
  <1> QED
    BY <1>1, <1>2

LEMMA ByHashStep == ASSUME IInv, NEW p \in Procs, ByHash(p) PROVE Good
  <1>1. CASE proc' = [proc EXCEPT ![p].pc = "fence", ![p].tok = 0, ![p].snap = RowSnap]
    <2> DEFINE q == [proc[p] EXCEPT !.pc = "fence", !.tok = 0, !.snap = RowSnap]
    <2>0. /\ proc[p] \in Locals /\ LocalInv(proc[p]) /\ RowSnap \in Snaps /\ "fence" \in PCs
          /\ 0 \in Int /\ proc[p].pc = "byHash"
      BY LocalTypes DEF PCs, ByHash
    <2>1. proc' = [proc EXCEPT ![p] = q]
      BY <1>1
    <2>2. q \in Locals
      BY <2>0 DEF Locals
    <2>3. q.pc = "fence" /\ q.op = proc[p].op
      BY <2>0 DEF Locals
    <2>4. LocalInv(q) /\ Moves(p, q)
      BY <2>0, <2>1, <2>3 DEF LocalInv, DeadlineInv, SnapInv, RangeInv, Moves
    <2> HIDE DEF q
    <2> QED
      BY <2>2, <2>4, LocalStep DEF ByHash
  <1>2. CASE Finish(p)
    BY <1>2, FinishStep DEF ByHash
  <1> QED
    BY <1>1, <1>2 DEF ByHash

LEMMA AdvReadStep == ASSUME IInv, NEW p \in Procs, AdvRead(p) PROVE Good
  <1> DEFINE d == clock + TTL
             q == [proc[p] EXCEPT !.pc = "advance", !.next = userVer, !.dl = d, !.now = clock]
  <1>0. /\ proc[p] \in Locals /\ LocalInv(proc[p]) /\ clock \in Int /\ TTL \in Int
        /\ userVer \in Users /\ "advance" \in PCs /\ proc[p].pc = "advRead"
    BY LocalTypes DEF PCs, AdvRead
  <1>u. userVer \in 0..MaxUser
    BY <1>0, ConstantsAssumption DEF Users
  <1>1. d \in Int /\ d <= clock + TTL
    BY <1>0
  <1>2. proc' = [proc EXCEPT ![p].pc = "advance", ![p].next = userVer, ![p].dl = d, ![p].now = clock]
    BY DEF AdvRead
  <1> HIDE DEF d
  <1>3. proc' = [proc EXCEPT ![p] = q]
    BY <1>2
  <1>4. q \in Locals
    BY <1>0, <1>u, <1>1 DEF Locals
  <1>5. q.pc = "advance" /\ q.next = userVer /\ q.dl = d /\ q.op = proc[p].op /\ q.tok = proc[p].tok
    BY <1>0 DEF Locals
  <1>6. LocalInv(q) /\ Moves(p, q)
    BY <1>0, <1>1, <1>3, <1>5 DEF LocalInv, DeadlineInv, SnapInv, RangeInv, Moves
  <1> HIDE DEF q
  <1> QED
    BY <1>4, <1>6, LocalStep DEF AdvRead


-----------------------------------------------------------------------------
(* Steps that write the cache.                                             *)

LEMMA CacheStep ==
    ASSUME IInv, NEW p \in Procs, NEW q \in Locals, Moves(p, q), LocalInv(q), cache' \in Entries, CacheInv',
           UNCHANGED <<clock, row, userVer, ended, faulty>>
    PROVE  Good
  <1>1. SameVersion /\ SharedOK'
    BY DEF SameVersion, SharedOK, IInv, TypeOK
  <1>2. LocalInv(q)'
    BY DEF Bounded, LocalInv, DeadlineInv, SnapInv, RangeInv
  <1>3. IInv'
    BY <1>1, <1>2, InvStep DEF Moves
  <1>4. AbstractStep
    BY <1>1, AbstractMove
  <1> QED
    BY <1>3, <1>4 DEF Good

\* A deny state never has to be bounded.
LEMMA DenyWrite ==
    ASSUME IInv, NEW p \in Procs, NEW status \in Deny, WriteDeny(status, proc[p].snap)
    PROVE  cache' \in Entries /\ CacheInv' /\ DenyUntil \in Int
  <1>1. proc[p] \in Locals /\ clock \in Int /\ TTL \in Int /\ Expires \in Int
    BY LocalTypes
  <1>2. proc[p].snap \in Snaps
    BY <1>1 DEF Locals
  <1>3. proc[p].snap.ver \in 0..MaxVer /\ proc[p].snap.uver \in 0..MaxUser
    BY <1>2 DEF Snaps
  <1>4. DenyUntil \in Int
    BY <1>1 DEF DenyUntil, Smaller
  <1>5. cache' = [status |-> status, ver |-> proc[p].snap.ver, uver |-> proc[p].snap.uver, until |-> DenyUntil]
    BY DEF WriteDeny
  <1>6. cache' \in Entries
    BY <1>3, <1>4, <1>5 DEF Entries
  <1>7. cache'.status # "active"
    BY <1>5 DEF Deny
  <1> QED
    BY <1>4, <1>6, <1>7 DEF CacheInv

LEMMA DenyFillStep == ASSUME IInv, NEW p \in Procs, DenyFill(p) PROVE Good
  <1>1. CASE WriteDeny("revoked", proc[p].snap)
    <2>1. cache' \in Entries /\ CacheInv'
      BY <1>1, DenyWrite DEF Deny
    <2> QED
      BY <2>1, IdleOK, CacheStep DEF DenyFill, Finish, Moves
  <1>2. CASE UNCHANGED cache
    BY <1>2, FinishStep DEF DenyFill
  <1> QED
    BY <1>1, <1>2 DEF DenyFill

LEMMA FinalStep == ASSUME IInv, NEW p \in Procs, Final(p) PROVE Good
  <1>1. CASE WriteDeny("revoked", proc[p].snap)
    <2>1. cache' \in Entries /\ CacheInv'
      BY <1>1, DenyWrite DEF Deny
    <2> QED
      BY <2>1, IdleOK, CacheStep DEF Final, Finish, Moves
  <1>2. CASE UNCHANGED cache
    BY <1>2, FinishStep DEF Final
  <1> QED
    BY <1>1, <1>2 DEF Final

LEMMA FenceStep == ASSUME IInv, NEW p \in Procs, Fence(p) PROVE Good
  <1>1. CASE /\ WriteDeny("revoking", proc[p].snap)
             /\ proc' = [proc EXCEPT ![p].pc = "commit", ![p].dl = DenyUntil]
    <2> DEFINE q == [proc[p] EXCEPT !.pc = "commit", !.dl = DenyUntil]
    <2>1. cache' \in Entries /\ CacheInv' /\ DenyUntil \in Int
      BY <1>1, DenyWrite DEF Deny
    <2>2. proc[p] \in Locals /\ LocalInv(proc[p]) /\ "commit" \in PCs
      BY LocalTypes DEF PCs
    <2>3. proc' = [proc EXCEPT ![p] = q]
      BY <1>1
    <2>4. q \in Locals
      BY <2>1, <2>2 DEF Locals
    <2>5. q.pc = "commit" /\ q.op = proc[p].op /\ q.tok = proc[p].tok
      BY <2>2 DEF Locals
    <2>6. LocalInv(q) /\ Moves(p, q)
      BY <2>2, <2>3, <2>5 DEF LocalInv, DeadlineInv, SnapInv, RangeInv, Moves
    <2> HIDE DEF q
    <2> QED
      BY <2>1, <2>4, <2>6, CacheStep DEF Fence
  <1>2. CASE Finish(p) /\ UNCHANGED cache
    BY <1>2, FinishStep DEF Fence
  <1> QED
    BY <1>1, <1>2 DEF Fence

LEMMA ScriptStep == ASSUME IInv, NEW p \in Procs, Script(p) PROVE Good
  <1>1. CASE /\ cache' = [status |-> "active", ver |-> proc[p].snap.ver, uver |-> proc[p].snap.uver,
                          until |-> Smaller(proc[p].dl, Expires)]
             /\ Goto(p, "filled")
    <2> DEFINE q == [proc[p] EXCEPT !.pc = "filled"]
               u == Smaller(proc[p].dl, Expires)
    <2>0. /\ proc[p] \in Locals /\ LocalInv(proc[p]) /\ "filled" \in PCs /\ proc[p].pc = "script"
          /\ clock \in Int /\ TTL \in Int /\ Expires \in Int
      BY LocalTypes DEF PCs, Script
    <2>1. proc[p].dl \in Int /\ proc[p].snap.uver \in 0..MaxUser /\ proc[p].snap.ver \in 0..MaxVer
      BY <2>0 DEF Locals, Snaps
    <2>2. u \in Int /\ u <= proc[p].dl
      BY <2>0, <2>1 DEF Smaller
    <2>3. /\ proc[p].snap.ver \in Vers /\ Bounded(proc[p].snap.ver, proc[p].dl)
          /\ proc[p].dl <= clock + TTL
      BY <2>0 DEF LocalInv, SnapInv, DeadlineInv
    <2>c. cache' = [status |-> "active", ver |-> proc[p].snap.ver, uver |-> proc[p].snap.uver, until |-> u]
      BY <1>1
    <2> HIDE DEF u
    <2>4. cache' \in Entries
      BY <2>1, <2>2, <2>c DEF Entries
    <2>5. Bounded(proc[p].snap.ver, u)
      <3>1. ended[proc[p].snap.ver] \in Int
        BY <2>3 DEF IInv, TypeOK, Time
      <3> QED
        BY <2>0, <2>1, <2>2, <2>3, <3>1 DEF Bounded
    <2>6. cache'.ver = proc[p].snap.ver /\ cache'.until = u /\ u <= clock + TTL
      BY <2>c, <2>0, <2>1, <2>2, <2>3
    <2>7. CacheInv'
      BY <2>3, <2>5, <2>6 DEF CacheInv, Bounded, Script
    <2>8. q \in Locals
      BY <2>0 DEF Locals
    <2>9. q.pc = "filled" /\ q.dl = proc[p].dl /\ q.snap = proc[p].snap /\ q.op = proc[p].op /\ q.tok = proc[p].tok
      BY <2>0 DEF Locals
    <2>10. LocalInv(q)
      BY <2>0, <2>9 DEF LocalInv, DeadlineInv, SnapInv, RangeInv
    <2>11. Moves(p, q)
      BY <1>1, <2>9 DEF Goto, Moves
    <2> HIDE DEF q
    <2> QED
      BY <2>4, <2>7, <2>8, <2>10, <2>11, CacheStep DEF Script
  <1>2. CASE Finish(p) /\ UNCHANGED cache
    BY <1>2, FinishStep DEF Script
  <1> QED
    BY <1>1, <1>2 DEF Script


-----------------------------------------------------------------------------
(* Steps that write the user's row or the session's row.                   *)

LEMMA BumpStep == ASSUME IInv, NEW p \in Procs, Bump(p) PROVE Good
  <1>0. /\ proc[p] \in Locals /\ LocalInv(proc[p]) /\ clock \in Int /\ proc[p].pc = "bump"
        /\ "candidate" \in PCs /\ "advRead" \in PCs /\ "revokeAll" \in OpNames
    BY LocalTypes DEF PCs, OpNames, Bump
  <1>1. SameVersion
    BY DEF SameVersion, Bump
  <1>2. userVer' \in Users
    BY ConstantsAssumption DEF Bump, IInv, TypeOK, Users
  <1>3. SharedOK'
    BY <1>2 DEF SharedOK, Bump, IInv, TypeOK
  <1>4. CacheInv'
    BY <1>1, CacheKept DEF Bump, IInv, TypeOK
  <1>5. \E q \in Locals : Moves(p, q) /\ LocalInv(q)
    <2>1. CASE proc[p].op = "reset"
      <3> DEFINE q == [proc[p] EXCEPT !.op = "revokeAll", !.pc = "candidate", !.now = clock]
      <3>1. q \in Locals
        BY <1>0 DEF Locals
      <3>2. q.pc = "candidate" /\ q.op = "revokeAll"
        BY <1>0 DEF Locals
      <3>3. proc' = [proc EXCEPT ![p] = q]
        BY <2>1 DEF Bump
      <3>4. LocalInv(q) /\ Moves(p, q)
        BY <3>2, <3>3 DEF LocalInv, DeadlineInv, SnapInv, RangeInv, Moves
      <3> HIDE DEF q
      <3> QED
        BY <3>1, <3>4
    <2>2. CASE proc[p].op # "reset"
      <3> DEFINE q == [proc[p] EXCEPT !.pc = "advRead"]
      <3>1. q \in Locals
        BY <1>0 DEF Locals
      <3>2. q.pc = "advRead" /\ q.op = proc[p].op /\ q.tok = proc[p].tok
        BY <1>0 DEF Locals
      <3>3. proc' = [proc EXCEPT ![p] = q]
        BY <2>2 DEF Bump, Goto
      <3>4. LocalInv(q) /\ Moves(p, q)
        BY <1>0, <3>2, <3>3 DEF LocalInv, DeadlineInv, SnapInv, RangeInv, Moves
      <3> HIDE DEF q
      <3> QED
        BY <3>1, <3>4
    <2> QED
      BY <2>1, <2>2
  <1>6. PICK q \in Locals : Moves(p, q) /\ LocalInv(q)
    BY <1>5
  <1>7. LocalInv(q)'
    BY <1>6 DEF Bump, Bounded, LocalInv, DeadlineInv, SnapInv, RangeInv
  <1>8. IInv'
    BY <1>1, <1>3, <1>4, <1>6, <1>7, InvStep DEF Moves, Bump
  <1>9. AbstractStep
    BY <1>1, <1>6, AbstractMove DEF Bump
  <1> QED
    BY <1>8, <1>9 DEF Good

LEMMA CasStep == ASSUME IInv, NEW p \in Procs, Cas(p) PROVE Good
  <1>0. /\ proc[p] \in Locals /\ LocalInv(proc[p]) /\ clock \in Int /\ TTL \in Int /\ proc[p].pc = "cas"
        /\ "fill" \in PCs /\ "rotRead" \in PCs /\ NoSnap \in Snaps /\ 0 \in Int
    BY LocalTypes DEF PCs, Cas
  <1>1. CASE /\ row.gen = proc[p].tok
             /\ row' = [row EXCEPT !.gen = @ + 1, !.until = proc[p].now + Grace]
             /\ proc' = [proc EXCEPT ![p].pc = "fill", ![p].now = 0, ![p].tok = 0]
    <2> DEFINE q == [proc[p] EXCEPT !.pc = "fill", !.now = 0, !.tok = 0]
               g == row.gen + 1
               u == proc[p].now + Grace
    <2>1. row \in Rows /\ row.gen \in Gens /\ proc[p].now \in Int
      BY <1>0 DEF IInv, TypeOK, Rows, Locals
    <2>2. g \in Gens /\ u \in Int
      BY <1>0, <1>1, <2>1, ConstantsAssumption DEF Gens, LocalInv, RangeInv
    <2>3. row' = [row EXCEPT !.gen = g, !.until = u]
      BY <1>1
    <2> HIDE DEF g, u
    <2>4. row' \in Rows /\ row'.active = row.active /\ row'.ver = row.ver
      BY <2>1, <2>2, <2>3 DEF Rows
    <2>5. SameVersion /\ SharedOK'
      BY <2>4 DEF SameVersion, SharedOK, Cas, IInv, TypeOK
    <2>6. CacheInv'
      BY <2>4, <2>5, CacheKept DEF Cas
    <2>7. q \in Locals
      BY <1>0 DEF Locals
    <2>8. q.pc = "fill" /\ q.dl = proc[p].dl /\ q.snap = proc[p].snap /\ q.op = proc[p].op /\ q.tok = 0
      BY <1>0 DEF Locals
    <2>9. q.tok < MaxGen
      BY <1>0, <1>1, <2>1, <2>8, ConstantsAssumption DEF Gens, LocalInv, RangeInv
    <2>10. LocalInv(q)
      BY <1>0, <2>8, <2>9 DEF LocalInv, DeadlineInv, SnapInv, RangeInv
    <2>11. Moves(p, q)
      BY <1>1, <2>8 DEF Moves
    <2> HIDE DEF q
    <2>c. PICK c \in Locals : LocalInv(c) /\ Moves(p, c)
      BY <2>7, <2>10, <2>11
    <2>12. LocalInv(c)'
      BY <2>4, <2>5, <2>c, LocalKept DEF Cas, IInv
    <2>13. IInv'
      BY <2>5, <2>6, <2>c, <2>12, InvStep DEF Moves, Cas
    <2>14. AbstractStep
      BY <2>5, <2>c, AbstractMove DEF Cas
    <2> QED
      BY <2>13, <2>14 DEF Good
  <1>2. CASE /\ proc' = [proc EXCEPT ![p].pc = "rotRead", ![p].dl = clock + TTL, ![p].snap = NoSnap]
             /\ UNCHANGED row
    <2> DEFINE d == clock + TTL
               q == [proc[p] EXCEPT !.pc = "rotRead", !.dl = d, !.snap = NoSnap]
    <2>1. d \in Int /\ d <= clock + TTL
      BY <1>0
    <2>2. proc' = [proc EXCEPT ![p].pc = "rotRead", ![p].dl = d, ![p].snap = NoSnap]
      BY <1>2
    <2> HIDE DEF d
    <2>3. proc' = [proc EXCEPT ![p] = q]
      BY <2>2
    <2>4. q \in Locals
      BY <1>0, <2>1 DEF Locals
    <2>5. q.pc = "rotRead" /\ q.dl = d /\ q.op = proc[p].op /\ q.tok = proc[p].tok
      BY <1>0 DEF Locals
    <2>6. LocalInv(q) /\ Moves(p, q)
      BY <1>0, <2>1, <2>3, <2>5 DEF LocalInv, DeadlineInv, SnapInv, RangeInv, Moves
    <2> HIDE DEF q
    <2> QED
      BY <1>2, <2>4, <2>6, LocalStep DEF Cas
  <1> QED
    BY <1>1, <1>2 DEF Cas

\* A step that ends the version of the session.
LEMMA EndStep ==
    ASSUME IInv, NEW p \in Procs, NEW q \in Locals, Ends(p, q), row' \in Rows, EndsVersion,
           LocalInv(q)', UNCHANGED <<clock, userVer, cache, faulty>>
    PROVE  Good
  <1>1. row.ver \in Vers /\ clock \in Time
    BY DEF IInv, TypeOK, Rows
  <1>2. ended' \in [Vers -> {-1} \cup Time]
    BY <1>1 DEF EndsVersion, IInv, TypeOK
  <1>3. SharedOK'
    BY <1>2 DEF SharedOK, IInv, TypeOK
  <1>4. CacheInv'
    BY CacheKept
  <1>5. IInv'
    BY <1>3, <1>4, InvStep DEF Ends
  <1>6. AbstractStep
    BY AbstractEnd
  <1> QED
    BY <1>5, <1>6 DEF Good

LEMMA CommitStep == ASSUME IInv, NEW p \in Procs, Commit(p) PROVE Good
  <1>0. /\ proc[p] \in Locals /\ LocalInv(proc[p]) /\ RowSnap \in Snaps /\ proc[p].pc = "commit"
        /\ "final" \in PCs /\ 0 \in Int
    BY LocalTypes DEF PCs, Commit
  <1>1. CASE /\ ActiveAt(proc[p].now)
             /\ row' = [row EXCEPT !.active = FALSE]
             /\ ended' = [ended EXCEPT ![row.ver] = clock]
             /\ proc' = [proc EXCEPT ![p].pc = "final", ![p].now = 0,
                                     ![p].snap = IF proc[p].op = "revokeAll" THEN RowSnap ELSE @]
    <2> DEFINE s == IF proc[p].op = "revokeAll" THEN RowSnap ELSE proc[p].snap
               q == [proc[p] EXCEPT !.pc = "final", !.now = 0, !.snap = s]
    <2>1. s \in Snaps
      BY <1>0 DEF Locals
    <2>2. proc' = [proc EXCEPT ![p].pc = "final", ![p].now = 0, ![p].snap = s]
      BY <1>1
    <2> HIDE DEF s
    <2>3. proc' = [proc EXCEPT ![p] = q]
      BY <2>2
    <2>4. q \in Locals
      BY <1>0, <2>1 DEF Locals
    <2>5. q.pc = "final" /\ q.op = proc[p].op /\ q.tok = proc[p].tok
      BY <1>0 DEF Locals
    <2>6. row \in Rows
      BY DEF IInv, TypeOK
    <2>7. row' \in Rows /\ ~row'.active /\ row'.ver = row.ver
      BY <1>1, <2>6 DEF Rows
    <2>8. EndsVersion
      BY <1>1, <2>7 DEF EndsVersion, ActiveAt
    <2> HIDE DEF q
    <2>c. PICK c \in Locals : c = q
      BY <2>4
    <2>9. Ends(p, c) /\ LocalInv(c)'
      BY <1>0, <2>3, <2>5, <2>c DEF Ends, LocalInv, DeadlineInv, SnapInv, RangeInv
    <2> QED
      BY <2>7, <2>8, <2>9, EndStep DEF Commit
  <1>2. CASE Finish(p) /\ UNCHANGED <<row, ended>>
    BY <1>2, FinishStep DEF Commit
  <1> QED
    BY <1>1, <1>2 DEF Commit

LEMMA AdvanceStep == ASSUME IInv, NEW p \in Procs, Advance(p) PROVE Good
  <1>0. /\ proc[p] \in Locals /\ LocalInv(proc[p]) /\ row.ver \in Vers /\ proc[p].pc = "advance"
        /\ "fill" \in PCs /\ clock \in Int /\ TTL \in Int /\ 0 \in Int
    BY LocalTypes DEF PCs, Advance
  <1>1. CASE ActiveAt(proc[p].now) /\ row.ver = proc[p].tok /\ row.ver < MaxVer
    <2> DEFINE v == row.ver + 1
               s == [ver |-> v, uver |-> proc[p].next]
               q == [proc[p] EXCEPT !.pc = "fill", !.now = 0, !.tok = 0, !.next = 0, !.snap = s]
    <2>1. v \in Vers /\ proc[p].next \in Users /\ proc[p].dl <= clock + TTL
      BY <1>0, <1>1, ConstantsAssumption DEF Vers, LocalInv, RangeInv, DeadlineInv
    <2>2. row' = [row EXCEPT !.ver = v, !.uver = proc[p].next]
      BY <1>1 DEF Advance
    <2>3. proc' = [proc EXCEPT ![p].pc = "fill", ![p].now = 0, ![p].tok = 0, ![p].next = 0, ![p].snap = s]
      BY <1>1 DEF Advance
    <2>4. v \in 0..MaxVer /\ proc[p].next \in 0..MaxUser /\ 0 \in 0..MaxUser
      BY <2>1, ConstantsAssumption DEF Vers, Users
    <2>v. v = row.ver + 1
      OBVIOUS
    <2> HIDE DEF v
    <2>5. s \in Snaps /\ s.ver = v
      BY <2>4 DEF Snaps
    <2> HIDE DEF s
    <2>6. proc' = [proc EXCEPT ![p] = q]
      BY <2>3
    <2>7. q \in Locals
      BY <1>0, <2>4, <2>5 DEF Locals
    <2>8. q.pc = "fill" /\ q.op = proc[p].op /\ q.tok = 0 /\ q.dl = proc[p].dl /\ q.snap = s
      BY <1>0 DEF Locals
    <2>9. row \in Rows
      BY DEF IInv, TypeOK
    <2>10. row' \in Rows /\ row'.active = row.active /\ row'.ver = v
      BY <2>1, <2>2, <2>9 DEF Rows
    <2>11. row.active /\ row'.active
      BY <1>1, <2>10, Zenon DEF ActiveAt
    <2>12. EndsVersion
      BY <1>1, <2>10, <2>11, <2>v DEF EndsVersion, Advance
    <2>13. q.op # "refresh"
      BY <1>0, <2>8 DEF LocalInv, RangeInv
    <2> HIDE DEF q
    <2>c. PICK c \in Locals : c = q /\ c.snap.ver = v /\ c.dl = proc[p].dl
      BY <2>5, <2>7, <2>8
    <2>14. LocalInv(c)'
      <3>1. Bounded(c.snap.ver, c.dl)' /\ clock' = clock
        BY <2>10, <2>11, <2>c DEF Bounded, Advance
      <3> QED
        BY <3>1, <2>1, <2>8, <2>13, <2>c DEF LocalInv, DeadlineInv, SnapInv, RangeInv
    <2>15. Ends(p, c)
      BY <1>0, <2>6, <2>8, <2>c DEF Ends
    <2> QED
      BY <1>1, <2>10, <2>12, <2>14, <2>15, EndStep DEF Advance
  <1>2. CASE ~(ActiveAt(proc[p].now) /\ row.ver = proc[p].tok /\ row.ver < MaxVer)
    BY <1>2, FinishStep DEF Advance
  <1> QED
    BY <1>1, <1>2


-----------------------------------------------------------------------------
(* Time, stuttering and the initial states.                                *)

LEMMA TickStep == ASSUME IInv, Tick PROVE Good
  <1>t. clock \in Int /\ clock' \in Time /\ clock' = clock + 1 /\ TTL \in Int
    BY ConstantsAssumption DEF IInv, TypeOK, Time, Tick
  <1>1. TypeOK'
    BY <1>t DEF Tick, IInv, TypeOK
  <1>2. CacheInv'
    <2>1. cache.until \in Int
      BY DEF IInv, TypeOK, Entries
    <2> QED
      BY <1>t, <2>1 DEF Tick, IInv, CacheInv, Bounded
  <1>3. ASSUME NEW p \in Procs PROVE LocalInv(proc[p])'
    <2>1. proc[p] \in Locals /\ LocalInv(proc[p]) /\ proc' = proc
      BY LocalTypes DEF Tick
    <2>2. proc[p].dl \in Int
      BY <2>1 DEF Locals
    <2>3. DeadlineInv(proc[p])'
      BY <1>t, <2>1, <2>2 DEF LocalInv, DeadlineInv
    <2>4. SnapInv(proc[p])' /\ RangeInv(proc[p])'
      BY <2>1 DEF LocalInv, SnapInv, RangeInv, Bounded, Tick
    <2> QED
      BY <2>3, <2>4 DEF LocalInv
  <1>4. Authority!Tick
    BY <1>t DEF Authority!Tick, Tick, Granted
  <1>5. AbstractStep
    BY <1>4 DEF AbstractStep, Authority!Next
  <1> QED
    BY <1>1, <1>2, <1>3, <1>5 DEF Good, IInv

LEMMA StutterStep == ASSUME IInv, UNCHANGED vars PROVE Good
  <1>1. IInv'
    <2>1. TypeOK' /\ CacheInv'
      BY DEF vars, IInv, TypeOK, CacheInv, Bounded
    <2>2. \A p \in Procs : LocalInv(proc[p])'
      BY DEF vars, IInv, LocalInv, DeadlineInv, SnapInv, RangeInv, Bounded
    <2> QED
      BY <2>1, <2>2 DEF IInv
  <1>2. AbstractStep
    BY DEF AbstractStep, Authority!vars, vars, Granted
  <1> QED
    BY <1>1, <1>2 DEF Good

LEMMA EveryStep == ASSUME IInv, [Next]_vars PROVE Good
  <1>1. CASE Tick
    BY <1>1, TickStep
  <1>2. CASE UNCHANGED vars
    BY <1>2, StutterStep
  <1>3. ASSUME NEW p \in Procs, Step(p) PROVE Good
    <2>1. CASE \/ BeginValidate(p) \/ BeginRefresh(p) \/ BeginRevoke(p)
               \/ BeginLogout(p) \/ BeginAdvance(p) \/ BeginReset(p)
      BY <2>1, BeginStep
    <2>2. CASE Lookup(p) \/ ReadRow(p) \/ DenyFill(p)
      BY <2>2, LookupStep, ReadRowStep, DenyFillStep
    <2>3. CASE Fill(p) \/ Script(p) \/ ScriptFails(p) \/ Filled(p) \/ Confirm(p)
      BY <2>3, FillStep, ScriptStep, ScriptFailsStep, FilledStep, ConfirmStep
    <2>4. CASE Got(p) \/ RotRead(p) \/ Cas(p)
      BY <2>4, GotStep, RotReadStep, CasStep
    <2>5. CASE Candidate(p) \/ ByHash(p) \/ Fence(p) \/ Commit(p) \/ Final(p)
      BY <2>5, CandidateStep, ByHashStep, FenceStep, CommitStep, FinalStep
    <2>6. CASE Bump(p) \/ AdvRead(p) \/ Advance(p)
      BY <2>6, BumpStep, AdvReadStep, AdvanceStep
    <2>7. CASE Abort(p)
      BY <2>7, FinishStep DEF Abort
    <2> QED
      BY <1>3, <2>1, <2>2, <2>3, <2>4, <2>5, <2>6, <2>7 DEF Step
  <1> QED
    BY <1>1, <1>2, <1>3 DEF Next

LEMMA InitGood == ASSUME Init PROVE IInv /\ Authority!Init
  <1>c. /\ TTL \in Nat \ {0} /\ Expires \in Nat \ {0} /\ MaxClock \in Nat /\ MaxVer \in Nat \ {0}
        /\ MaxUser \in Nat \ {0} /\ MaxGen \in Nat
    BY ConstantsAssumption
  <1>r. row = [active |-> TRUE, ver |-> 1, uver |-> 1, gen |-> 0, until |-> 0]
    BY DEF Init
  <1>1. TRUE \in BOOLEAN /\ 1 \in Vers /\ 1 \in Users /\ 0 \in Gens /\ 0 \in Time
    BY <1>c DEF Vers, Users, Gens, Time
  <1>2. row \in Rows /\ row.active = TRUE /\ row.ver = 1
    BY <1>r, <1>1 DEF Rows
  <1>3. cache \in Entries /\ CacheInv
    <2>1. Smaller(TTL, Expires) \in Int /\ Smaller(TTL, Expires) <= 0 + TTL
      BY <1>c DEF Smaller
    <2>2. CASE cache = NoEntry
      BY <2>2, <1>c DEF NoEntry, Entries, CacheInv
    <2>3. CASE cache = [status |-> "active", ver |-> 1, uver |-> 1, until |-> Smaller(TTL, Expires)]
      <3>1. cache \in Entries
        BY <2>1, <2>3, <1>c DEF Entries
      <3>2. cache.ver = 1 /\ cache.until <= clock + TTL
        BY <2>1, <2>3, <1>c DEF Init
      <3>3. Bounded(cache.ver, cache.until)
        BY <1>2, <3>2, Zenon DEF Bounded
      <3> QED
        BY <1>1, <3>1, <3>2, <3>3 DEF CacheInv
    <2> QED
      BY <2>2, <2>3 DEF Init
  <1>4. proc \in [Procs -> Locals] /\ \A p \in Procs : LocalInv(proc[p]) /\ proc[p].pc = "idle"
    BY IdleOK DEF Init
  <1>5. TypeOK
    BY <1>1, <1>2, <1>3, <1>4 DEF Init, TypeOK
  <1>6. Granted = [p \in Procs |-> 0]
    BY <1>4 DEF Granted
  <1>7. Authority!Init
    BY <1>2, <1>6 DEF Authority!Init, Init
  <1> QED
    BY <1>3, <1>4, <1>5, <1>7 DEF IInv

\* The rows, the cache and the requests keep their types; in particular the version a security
\* change gives to the session is one the user has had.
THEOREM TypeCorrect == Spec => []TypeOK
  <1>1. Init => IInv
    BY InitGood
  <1>2. IInv /\ [Next]_vars => IInv'
    BY EveryStep DEF Good
  <1>3. IInv => TypeOK
    BY DEF IInv
  <1> QED
    BY <1>1, <1>2, <1>3, PTL DEF Spec

\* For any number of requests, any TTL and any schedule of them, and even when Redis, the database
\* and the processes fail: the session store grants a version of the session only while it is the
\* live one, or for less than TTL after its end.
THEOREM Refinement == Spec => ImplementsAuthority
  <1>1. Init => IInv /\ Authority!Init
    BY InitGood
  <1>2. IInv /\ [Next]_vars => IInv' /\ [Authority!Next]_(Authority!vars)
    BY EveryStep DEF Good, AbstractStep
  <1> QED
    BY <1>1, <1>2, PTL DEF Spec, ImplementsAuthority, Authority!Spec

-----------------------------------------------------------------------------
(* A session that was revoked without faults is never cached as active.    *)

\* A request knows no version that the row does not have, and a revocation knows one.
Versioned(q) ==
    /\ q.snap.ver <= row.ver
    /\ q.pc \in {"fence", "commit", "final"} => q.snap.ver >= 1

\* A revocation between its fence and its tombstone is protected by a deny state.
FencedAt(q) ==
    q.pc \in {"commit", "final"} =>
        /\ cache.status \in Deny /\ q.dl <= cache.until
        /\ clock < q.dl /\ q.dl <= DenyUntil

\* The time by which all snapshots of the first version have to be forgotten, once it has ended.
LastFill == Smaller(ended[1] + TTL, Expires)

\* The row is revoked: the tombstone is still to come, or it lives until no snapshot is left, or no
\* snapshot is left.
Sealed ==
    \/ row.active
    \/ \E p \in Procs : proc[p].pc = "final"
    \/ LastFill <= clock
    \/ cache.status \in Deny /\ LastFill <= cache.until

\* The invariant behind RevokedIsDenied.
VersionInv ==
    /\ cache.ver <= row.ver
    /\ cache.status = "active" => cache.until <= Expires
    /\ ended[1] <= clock
    /\ \A p \in Procs : Versioned(proc[p])
DenyInv == ~faulty /\ row.ver = 1 => Sealed /\ \A p \in Procs : FencedAt(proc[p])
RInv == VersionInv /\ DenyInv

\* The types of what the argument compares.
LEMMA TimeTypes ==
    ASSUME IInv
    PROVE  /\ clock \in Int /\ TTL \in Int /\ TTL > 0 /\ Expires \in Int
           /\ cache.until \in Int /\ cache.ver \in Int /\ row.ver \in Int /\ row.ver >= 1
           /\ ended[1] \in Int /\ DenyUntil \in Int /\ LastFill \in Int
           /\ 1 \in Vers /\ row.active \in BOOLEAN
           /\ \A p \in Procs : proc[p] \in Locals /\ proc[p].dl \in Int /\ proc[p].snap.ver \in Int
  <1>1. /\ clock \in Int /\ TTL \in Int /\ TTL > 0 /\ Expires \in Int /\ 1 \in Vers
    BY ConstantsAssumption DEF IInv, TypeOK, Time, Vers
  <1>2. cache.until \in Int /\ cache.ver \in Int
    BY DEF IInv, TypeOK, Entries
  <1>3. row.ver \in Int /\ row.ver >= 1 /\ row.active \in BOOLEAN
    BY DEF IInv, TypeOK, Rows, Vers
  <1>4. ended[1] \in Int
    BY <1>1 DEF IInv, TypeOK, Time
  <1>5. DenyUntil \in Int /\ LastFill \in Int
    BY <1>1, <1>4 DEF DenyUntil, LastFill, Smaller
  <1>6. ASSUME NEW p \in Procs PROVE proc[p] \in Locals /\ proc[p].dl \in Int /\ proc[p].snap.ver \in Int
    <2>1. proc[p] \in Locals
      BY DEF IInv, TypeOK
    <2>2. proc[p].dl \in Int /\ proc[p].snap \in Snaps
      BY <2>1 DEF Locals
    <2>3. proc[p].snap.ver \in 0..MaxVer
      BY <2>2 DEF Snaps
    <2> QED
      BY <2>1, <2>2, <2>3, ConstantsAssumption
  <1> QED
    BY <1>1, <1>2, <1>3, <1>4, <1>5, <1>6

\* A deny state that is published now outlives every snapshot of the first version, or there is
\* none left.
LEMMA DenyLasts ==
    ASSUME IInv, ended[1] <= clock
    PROVE  clock < DenyUntil /\ (LastFill <= clock \/ LastFill <= DenyUntil)
BY TimeTypes DEF DenyUntil, LastFill, Smaller

\* Request p moves, is not between fence and tombstone afterwards, and learns no new version.
LocalMove(p) ==
    /\ \A u \in Procs \ {p} : proc'[u] = proc[u]
    /\ proc'[p].pc \notin {"commit", "final"}
    /\ proc'[p].snap.ver <= row.ver
    /\ proc'[p].pc = "fence" => proc'[p].snap.ver >= 1

\* A step of a request that leaves the cache and the version of the row alone.
LEMMA QuietStep ==
    ASSUME IInv, RInv, NEW p \in Procs, LocalMove(p), faulty \/ row.ver # 1 \/ proc[p].pc # "final",
           UNCHANGED <<clock, cache, ended, faulty>>, row'.active = row.active, row'.ver = row.ver
    PROVE  RInv'
  <1>1. ASSUME NEW u \in Procs PROVE Versioned(proc[u])'
    BY <1>1 DEF RInv, VersionInv, Versioned, LocalMove
  <1>2. VersionInv'
    BY <1>1 DEF RInv, VersionInv
  <1>3. ASSUME NEW u \in Procs, ~faulty, row.ver = 1 PROVE FencedAt(proc[u])'
    BY <1>3 DEF RInv, DenyInv, FencedAt, LocalMove, DenyUntil
  <1>4. ASSUME ~faulty, row.ver = 1 PROVE Sealed'
    <2>1. Sealed
      BY <1>4 DEF RInv, DenyInv
    <2>2. ASSUME NEW u \in Procs, proc[u].pc = "final" PROVE proc'[u].pc = "final"
      BY <1>4, <2>2 DEF LocalMove
    <2> QED
      BY <2>1, <2>2 DEF Sealed, LastFill
  <1> QED
    BY <1>2, <1>3, <1>4 DEF RInv, DenyInv

\* A request that ends, or that goes on at pc with the version it has.
LEMMA FinishMove ==
    ASSUME IInv, RInv, NEW p \in Procs, Finish(p)
    PROVE  LocalMove(p)
  <1>1. proc'[p] = Idle /\ \A u \in Procs \ {p} : proc'[u] = proc[u]
    BY TimeTypes DEF IInv, TypeOK, Finish
  <1>2. Idle.pc = "idle" /\ Idle.snap.ver = 0
    BY DEF Idle, NoSnap
  <1> QED
    BY <1>1, <1>2, TimeTypes DEF LocalMove

LEMMA GotoMove ==
    ASSUME IInv, RInv, NEW p \in Procs, NEW pc, pc \notin {"fence", "commit", "final"}, Goto(p, pc)
    PROVE  LocalMove(p)
  <1>1. /\ proc'[p].pc = pc /\ proc'[p].snap = proc[p].snap
        /\ \A u \in Procs \ {p} : proc'[u] = proc[u]
    BY TimeTypes DEF IInv, TypeOK, Goto, Locals
  <1> QED
    BY <1>1 DEF LocalMove, RInv, VersionInv, Versioned

LEMMA ReturnMove ==
    ASSUME IInv, RInv, NEW p \in Procs, Return(p)
    PROVE  LocalMove(p)
  <1>1. CASE proc[p].op \in {"validate", "refresh"}
    <2>1. /\ proc'[p].pc = "got" /\ proc'[p].snap = proc[p].snap
          /\ \A u \in Procs \ {p} : proc'[u] = proc[u]
      BY <1>1, TimeTypes DEF IInv, TypeOK, Return, Locals
    <2> QED
      BY <2>1 DEF LocalMove, RInv, VersionInv, Versioned
  <1>2. CASE proc[p].op \notin {"validate", "refresh"}
    BY <1>2, FinishMove DEF Return
  <1> QED
    BY <1>1, <1>2

\* The steps that leave the cache and the version of the row alone.
LEMMA BeginMoves ==
    ASSUME IInv, RInv, NEW p \in Procs,
           \/ BeginValidate(p) \/ BeginRefresh(p) \/ BeginRevoke(p)
           \/ BeginLogout(p) \/ BeginAdvance(p) \/ BeginReset(p)
    PROVE  RInv'
  <1>1. ASSUME NEW op, NEW pc \in {"lookup", "candidate", "byHash", "bump"}, NEW now, NEW tok,
               Begin(p, op, pc, now, tok)
        PROVE  RInv'
    <2> DEFINE q == [Idle EXCEPT !.op = op, !.pc = pc, !.now = now, !.tok = tok]
    <2>1. q.pc = pc /\ q.snap.ver = 0
      BY DEF Idle, NoSnap
    <2>2. proc'[p] = q /\ \A u \in Procs \ {p} : proc'[u] = proc[u]
      BY <1>1 DEF IInv, TypeOK, Begin
    <2>3. LocalMove(p)
      BY <2>1, <2>2, TimeTypes DEF LocalMove
    <2>4. proc[p].pc # "final" /\ UNCHANGED <<clock, row, cache, ended, faulty>>
      BY <1>1 DEF Begin
    <2> QED
      BY <2>3, <2>4, QuietStep
  <1>2. \E op, now, tok : \E pc \in {"lookup", "candidate", "byHash", "bump"} : Begin(p, op, pc, now, tok)
    BY DEF BeginValidate, BeginRefresh, BeginRevoke, BeginLogout, BeginAdvance, BeginReset
  <1> QED
    BY <1>1, <1>2

LEMMA LookupMoves ==
    ASSUME IInv, RInv, NEW p \in Procs, Lookup(p) \/ ReadRow(p)
    PROVE  RInv'
  <1>0. proc \in [Procs -> Locals] /\ proc[p] \in Locals
    BY DEF IInv, TypeOK
  <1>1. CASE Lookup(p)
    <2>1. CASE /\ Live.status = "active"
               /\ proc' = [proc EXCEPT ![p].pc = "got",
                                       ![p].snap = [ver |-> Live.ver, uver |-> Live.uver]]
      <3>1. Live = cache
        BY <2>1 DEF Live, NoEntry
      <3>2. /\ proc'[p].pc = "got" /\ proc'[p].snap.ver = cache.ver
            /\ \A u \in Procs \ {p} : proc'[u] = proc[u]
        BY <2>1, <3>1, <1>0 DEF Locals
      <3>3. LocalMove(p)
        BY <3>2 DEF LocalMove, RInv, VersionInv
      <3> QED
        BY <1>1, <3>3, QuietStep DEF Lookup
    <2>2. CASE Finish(p)
      BY <1>1, <2>2, FinishMove, QuietStep DEF Lookup
    <2>3. CASE proc' = [proc EXCEPT ![p].pc = "read", ![p].dl = clock + TTL]
      <3>1. /\ proc'[p].pc = "read" /\ proc'[p].snap = proc[p].snap
            /\ \A u \in Procs \ {p} : proc'[u] = proc[u]
        BY <2>3, <1>0 DEF Locals
      <3>2. LocalMove(p)
        BY <3>1 DEF LocalMove, RInv, VersionInv, Versioned
      <3> QED
        BY <1>1, <3>2, QuietStep DEF Lookup
    <2> QED
      BY <1>1, <2>1, <2>2, <2>3 DEF Lookup
  <1>2. CASE ReadRow(p)
    <2>1. /\ proc'[p].pc \in {"fill", "deny"} /\ proc'[p].snap = RowSnap
          /\ \A u \in Procs \ {p} : proc'[u] = proc[u]
      BY <1>2, <1>0 DEF ReadRow, Locals
    <2>2. LocalMove(p)
      BY <2>1, TimeTypes DEF LocalMove, RowSnap
    <2> QED
      BY <1>2, <2>2, QuietStep DEF ReadRow
  <1> QED
    BY <1>1, <1>2

LEMMA FillMoves ==
    ASSUME IInv, RInv, NEW p \in Procs, Fill(p) \/ ScriptFails(p) \/ Filled(p) \/ Confirm(p)
    PROVE  RInv'
  <1>1. Finish(p) \/ Return(p) \/ Goto(p, "confirm") \/ Goto(p, "script")
    BY DEF Fill, ScriptFails, Filled, Confirm
  <1>2. LocalMove(p)
    BY <1>1, FinishMove, ReturnMove, GotoMove
  <1> QED
    BY <1>2, QuietStep DEF Fill, ScriptFails, Filled, Confirm

LEMMA RotateMoves ==
    ASSUME IInv, RInv, NEW p \in Procs, Got(p) \/ RotRead(p) \/ Cas(p)
    PROVE  RInv'
  <1>0. proc \in [Procs -> Locals] /\ proc[p] \in Locals /\ row \in Rows
    BY DEF IInv, TypeOK
  <1>t. row.ver >= 1 /\ row.ver \in Int /\ proc[p].snap.ver <= row.ver
    BY TimeTypes DEF RInv, VersionInv, Versioned
  <1>n. NoSnap.ver = 0 /\ RowSnap.ver = row.ver
    BY DEF NoSnap, RowSnap
  <1>1. CASE Got(p)
    <2>1. CASE Finish(p)
      BY <1>1, <2>1, FinishMove, QuietStep DEF Got
    <2>2. CASE proc' = [proc EXCEPT ![p] = [Idle EXCEPT !.op = "revoke", !.pc = "candidate", !.now = clock]]
      <3>1. /\ proc'[p].pc = "candidate" /\ proc'[p].snap = NoSnap
            /\ \A u \in Procs \ {p} : proc'[u] = proc[u]
        BY <2>2, <1>0 DEF Idle
      <3>2. LocalMove(p)
        BY <3>1, <1>t, <1>n DEF LocalMove
      <3> QED
        BY <1>1, <3>2, QuietStep DEF Got
    <2>3. CASE proc' = [proc EXCEPT ![p].op = "rotate", ![p].pc = "rotRead", ![p].now = clock,
                                     ![p].dl = clock + TTL, ![p].snap = NoSnap]
      <3>1. /\ proc'[p].pc = "rotRead" /\ proc'[p].snap = NoSnap
            /\ \A u \in Procs \ {p} : proc'[u] = proc[u]
        BY <2>3, <1>0 DEF Locals
      <3>2. LocalMove(p)
        BY <3>1, <1>t, <1>n DEF LocalMove
      <3> QED
        BY <1>1, <3>2, QuietStep DEF Got
    <2> QED
      BY <1>1, <2>1, <2>2, <2>3 DEF Got
  <1>2. CASE RotRead(p)
    <2>1. CASE proc' = [proc EXCEPT ![p].pc = "cas", ![p].snap = RowSnap]
      <3>1. /\ proc'[p].pc = "cas" /\ proc'[p].snap = RowSnap
            /\ \A u \in Procs \ {p} : proc'[u] = proc[u]
        BY <2>1, <1>0 DEF Locals
      <3>2. LocalMove(p)
        BY <3>1, <1>t, <1>n DEF LocalMove
      <3> QED
        BY <1>2, <3>2, QuietStep DEF RotRead
    <2>2. CASE proc' = [proc EXCEPT ![p].op = "reuse", ![p].pc = "fence", ![p].tok = 0, ![p].snap = RowSnap]
      <3>1. /\ proc'[p].pc = "fence" /\ proc'[p].snap = RowSnap
            /\ \A u \in Procs \ {p} : proc'[u] = proc[u]
        BY <2>2, <1>0 DEF Locals
      <3>2. LocalMove(p)
        BY <3>1, <1>t, <1>n DEF LocalMove
      <3> QED
        BY <1>2, <3>2, QuietStep DEF RotRead
    <2>3. CASE Finish(p)
      BY <1>2, <2>3, FinishMove, QuietStep DEF RotRead
    <2> QED
      BY <1>2, <2>1, <2>2, <2>3 DEF RotRead
  <1>3. CASE Cas(p)
    <2>1. CASE /\ row' = [row EXCEPT !.gen = @ + 1, !.until = proc[p].now + Grace]
               /\ proc' = [proc EXCEPT ![p].pc = "fill", ![p].now = 0, ![p].tok = 0]
      <3>1. /\ proc'[p].pc = "fill" /\ proc'[p].snap = proc[p].snap
            /\ \A u \in Procs \ {p} : proc'[u] = proc[u]
        BY <2>1, <1>0 DEF Locals
      <3>2. row'.active = row.active /\ row'.ver = row.ver
        BY <2>1, <1>0 DEF Rows
      <3>3. LocalMove(p)
        BY <3>1, <1>t, <1>n DEF LocalMove
      <3> QED
        BY <1>3, <3>2, <3>3, QuietStep DEF Cas
    <2>2. CASE /\ proc' = [proc EXCEPT ![p].pc = "rotRead", ![p].dl = clock + TTL, ![p].snap = NoSnap]
               /\ UNCHANGED row
      <3>1. /\ proc'[p].pc = "rotRead" /\ proc'[p].snap = NoSnap
            /\ \A u \in Procs \ {p} : proc'[u] = proc[u]
        BY <2>2, <1>0 DEF Locals
      <3>2. LocalMove(p)
        BY <3>1, <1>t, <1>n DEF LocalMove
      <3> QED
        BY <1>3, <2>2, <3>2, QuietStep DEF Cas
    <2> QED
      BY <1>3, <2>1, <2>2 DEF Cas
  <1> QED
    BY <1>1, <1>2, <1>3

LEMMA OtherMoves ==
    ASSUME IInv, RInv, NEW p \in Procs, Candidate(p) \/ ByHash(p) \/ Bump(p) \/ AdvRead(p) \/ Abort(p)
    PROVE  RInv'
  <1>0. proc \in [Procs -> Locals] /\ proc[p] \in Locals
    BY DEF IInv, TypeOK
  <1>t. row.ver >= 1 /\ row.ver \in Int /\ proc[p].snap.ver <= row.ver /\ RowSnap.ver = row.ver
    BY TimeTypes DEF RInv, VersionInv, Versioned, RowSnap
  <1>1. CASE Candidate(p) \/ ByHash(p)
    <2>1. CASE proc' = [proc EXCEPT ![p].pc = "fence", ![p].snap = RowSnap]
      <3>1. /\ proc'[p].pc = "fence" /\ proc'[p].snap = RowSnap
            /\ \A u \in Procs \ {p} : proc'[u] = proc[u]
        BY <2>1, <1>0 DEF Locals
      <3>2. LocalMove(p)
        BY <3>1, <1>t DEF LocalMove
      <3> QED
        BY <1>1, <3>2, QuietStep DEF Candidate, ByHash
    <2>2. CASE proc' = [proc EXCEPT ![p].pc = "fence", ![p].tok = 0, ![p].snap = RowSnap]
      <3>1. /\ proc'[p].pc = "fence" /\ proc'[p].snap = RowSnap
            /\ \A u \in Procs \ {p} : proc'[u] = proc[u]
        BY <2>2, <1>0 DEF Locals
      <3>2. LocalMove(p)
        BY <3>1, <1>t DEF LocalMove
      <3> QED
        BY <1>1, <3>2, QuietStep DEF Candidate, ByHash
    <2>3. CASE Finish(p)
      BY <1>1, <2>3, FinishMove, QuietStep DEF Candidate, ByHash
    <2> QED
      BY <1>1, <2>1, <2>2, <2>3 DEF Candidate, ByHash
  <1>2. CASE Bump(p)
    <2>1. CASE proc' = [proc EXCEPT ![p].op = "revokeAll", ![p].pc = "candidate", ![p].now = clock]
      <3>1. /\ proc'[p].pc = "candidate" /\ proc'[p].snap = proc[p].snap
            /\ \A u \in Procs \ {p} : proc'[u] = proc[u]
        BY <2>1, <1>0 DEF Locals
      <3>2. LocalMove(p)
        BY <3>1, <1>t DEF LocalMove
      <3> QED
        BY <1>2, <3>2, QuietStep DEF Bump
    <2>2. CASE Goto(p, "advRead")
      BY <1>2, <2>2, GotoMove, QuietStep DEF Bump
    <2> QED
      BY <1>2, <2>1, <2>2 DEF Bump
  <1>3. CASE AdvRead(p)
    <2>1. /\ proc'[p].pc = "advance" /\ proc'[p].snap = proc[p].snap
          /\ \A u \in Procs \ {p} : proc'[u] = proc[u]
      BY <1>3, <1>0 DEF Locals, AdvRead
    <2>2. LocalMove(p)
      BY <2>1, <1>t DEF LocalMove
    <2> QED
      BY <1>3, <2>2, QuietStep DEF AdvRead
  <1>4. CASE Abort(p)
    BY <1>4, FinishMove, QuietStep DEF Abort
  <1> QED
    BY <1>1, <1>2, <1>3, <1>4

\* A step that publishes a deny state, after which only a fence needs protection.
LEMMA DenyStep ==
    ASSUME IInv, RInv, NEW p \in Procs, UNCHANGED <<clock, row, ended, faulty>>,
           cache'.status \in Deny, cache'.ver <= row.ver, cache'.until = DenyUntil,
           \A u \in Procs \ {p} : proc'[u] = proc[u],
           Versioned(proc'[p]),
           proc'[p].pc # "final", proc'[p].pc = "commit" => proc'[p].dl = DenyUntil
    PROVE  RInv'
  <1>t. /\ clock < DenyUntil /\ (LastFill <= clock \/ LastFill <= DenyUntil)
        /\ DenyUntil \in Int /\ DenyUntil' = DenyUntil /\ LastFill' = LastFill
    BY TimeTypes, DenyLasts DEF RInv, VersionInv, DenyUntil, LastFill
  <1>1. ASSUME NEW u \in Procs PROVE Versioned(proc[u])'
    BY <1>1 DEF RInv, VersionInv, Versioned
  <1>2. VersionInv'
    BY <1>1 DEF RInv, VersionInv, Deny
  <1>3. ASSUME NEW u \in Procs, ~faulty, row.ver = 1 PROVE FencedAt(proc[u])'
    <2>1. CASE u = p
      BY <2>1, <1>t DEF FencedAt
    <2>2. CASE u # p
      BY <2>2, <1>3, <1>t DEF RInv, DenyInv, FencedAt
    <2> QED
      BY <2>1, <2>2
  <1>4. Sealed'
    BY <1>t DEF Sealed
  <1> QED
    BY <1>2, <1>3, <1>4 DEF RInv, DenyInv

\* The deny state of the version a request knows.
LEMMA Published ==
    ASSUME IInv, RInv, NEW p \in Procs, NEW status \in Deny, WriteDeny(status, proc[p].snap)
    PROVE  /\ cache'.status \in Deny /\ cache'.ver <= row.ver /\ cache'.until = DenyUntil
BY DEF WriteDeny, RInv, VersionInv, Versioned

LEMMA DenyFillMoves == ASSUME IInv, RInv, NEW p \in Procs, DenyFill(p) PROVE RInv'
  <1>1. LocalMove(p) /\ proc[p].pc = "deny" /\ UNCHANGED <<clock, row, ended, faulty>>
    BY FinishMove DEF DenyFill
  <1>2. CASE WriteDeny("revoked", proc[p].snap)
    <2>1. cache'.status \in Deny /\ cache'.ver <= row.ver /\ cache'.until = DenyUntil
      BY <1>2, Published DEF Deny
    <2> QED
      BY <1>1, <2>1, DenyStep DEF LocalMove, Versioned
  <1>3. CASE UNCHANGED cache
    BY <1>1, <1>3, QuietStep
  <1> QED
    BY <1>2, <1>3 DEF DenyFill

LEMMA FenceMoves == ASSUME IInv, RInv, NEW p \in Procs, Fence(p) PROVE RInv'
  <1>1. CASE WriteDeny("revoking", proc[p].snap) /\ proc' = [proc EXCEPT ![p].pc = "commit", ![p].dl = DenyUntil]
    <2>1. cache'.status \in Deny /\ cache'.ver <= row.ver /\ cache'.until = DenyUntil
      BY <1>1, Published DEF Deny
    <2>2. /\ proc'[p].pc = "commit" /\ proc'[p].dl = DenyUntil /\ proc'[p].snap = proc[p].snap
          /\ \A u \in Procs \ {p} : proc'[u] = proc[u]
      BY <1>1, TimeTypes DEF IInv, TypeOK, Locals
    <2>3. Versioned(proc'[p])
      BY <2>2 DEF RInv, VersionInv, Versioned, Fence
    <2> QED
      BY <2>1, <2>2, <2>3, DenyStep DEF Fence
  <1>2. CASE Finish(p) /\ UNCHANGED cache
    BY <1>2, FinishMove, QuietStep DEF Fence
  <1> QED
    BY <1>1, <1>2 DEF Fence

\* The tombstone of a first version is not refused: nothing newer is cached.
LEMMA FinalMoves == ASSUME IInv, RInv, NEW p \in Procs, Final(p) PROVE RInv'
  <1>1. LocalMove(p) /\ UNCHANGED <<clock, row, ended, faulty>>
    BY FinishMove DEF Final
  <1>2. CASE WriteDeny("revoked", proc[p].snap)
    <2>1. cache'.status \in Deny /\ cache'.ver <= row.ver /\ cache'.until = DenyUntil
      BY <1>2, Published DEF Deny
    <2> QED
      BY <1>1, <2>1, DenyStep DEF LocalMove, Versioned
  <1>3. CASE faulty /\ UNCHANGED cache
    BY <1>1, <1>3, QuietStep
  <1>4. CASE Refused("revoked", proc[p].snap.ver) /\ UNCHANGED cache
    <2>1. Live.ver > proc[p].snap.ver /\ proc[p].snap.ver >= 1
      BY <1>4 DEF Refused, Final, RInv, VersionInv, Versioned
    <2>2. Live.ver \in {0, cache.ver}
      BY DEF Live, NoEntry
    <2>3. row.ver # 1
      BY <2>1, <2>2, TimeTypes DEF RInv, VersionInv
    <2> QED
      BY <1>1, <1>4, <2>3, QuietStep
  <1> QED
    BY <1>2, <1>3, <1>4 DEF Final

\* An active snapshot gets into the cache only when no deny state lives: no revocation is between
\* its fence and its tombstone.
LEMMA ScriptMoves == ASSUME IInv, RInv, NEW p \in Procs, Script(p) PROVE RInv'
  <1>1. CASE /\ ~Refused("active", proc[p].snap.ver)
             /\ cache' = [status |-> "active", ver |-> proc[p].snap.ver, uver |-> proc[p].snap.uver,
                          until |-> Smaller(proc[p].dl, Expires)]
             /\ Goto(p, "filled")
    <2>1. LocalMove(p) /\ UNCHANGED <<clock, row, ended, faulty>>
      BY <1>1, GotoMove DEF Script
    <2>2. /\ cache'.status = "active" /\ cache'.ver = proc[p].snap.ver
          /\ cache'.until = Smaller(proc[p].dl, Expires)
      BY <1>1
    <2>3. Smaller(proc[p].dl, Expires) <= Expires
      BY TimeTypes DEF Smaller
    <2>4. ASSUME NEW u \in Procs PROVE Versioned(proc[u])'
      BY <2>1 DEF RInv, VersionInv, Versioned, LocalMove
    <2>5. VersionInv'
      BY <2>1, <2>2, <2>3, <2>4 DEF RInv, VersionInv, Versioned
    <2>6. cache.status \in Deny => cache.until <= clock
      BY <1>1, TimeTypes DEF Refused, Live
    <2>7. ASSUME NEW u \in Procs, ~faulty, row.ver = 1 PROVE proc[u].pc \notin {"commit", "final"}
      BY <2>6, <2>7, TimeTypes DEF RInv, DenyInv, FencedAt
    <2>8. ASSUME NEW u \in Procs, ~faulty, row.ver = 1 PROVE FencedAt(proc[u])'
      BY <2>1, <2>7, <2>8 DEF FencedAt, LocalMove
    <2>9. ASSUME ~faulty, row.ver = 1 PROVE Sealed'
      <3>1. Sealed
        BY <2>9 DEF RInv, DenyInv
      <3>2. row.active \/ LastFill <= clock
        BY <3>1, <2>6, <2>7, <2>9, TimeTypes DEF Sealed
      <3> QED
        BY <3>2, <2>1 DEF Sealed, LastFill
    <2> QED
      BY <2>1, <2>5, <2>8, <2>9 DEF RInv, DenyInv
  <1>2. CASE Finish(p) /\ UNCHANGED cache
    BY <1>2, FinishMove, QuietStep DEF Script
  <1> QED
    BY <1>1, <1>2 DEF Script

\* The row is revoked while the fence lives.
LEMMA CommitMoves == ASSUME IInv, RInv, NEW p \in Procs, Commit(p) PROVE RInv'
  <1>1. CASE /\ row' = [row EXCEPT !.active = FALSE]
             /\ ended' = [ended EXCEPT ![row.ver] = clock]
             /\ proc' = [proc EXCEPT ![p].pc = "final", ![p].now = 0,
                                     ![p].snap = IF proc[p].op = "revokeAll" THEN RowSnap ELSE @]
    <2>0. /\ proc \in [Procs -> Locals] /\ proc[p] \in Locals /\ row \in Rows
          /\ ended \in [Vers -> {-1} \cup Time] /\ proc[p].pc = "commit"
          /\ UNCHANGED <<clock, cache, faulty>>
      BY DEF IInv, TypeOK, Commit
    <2>1. /\ proc'[p].pc = "final" /\ proc'[p].dl = proc[p].dl
          /\ proc'[p].snap \in {RowSnap, proc[p].snap}
          /\ \A u \in Procs \ {p} : proc'[u] = proc[u]
      BY <1>1, <2>0 DEF Locals
    <2>2. row'.ver = row.ver
      BY <1>1, <2>0 DEF Rows
    <2>3. ended'[1] <= clock
      BY <1>1, <2>0, TimeTypes DEF RInv, VersionInv
    <2>4. ASSUME NEW u \in Procs PROVE Versioned(proc[u])'
      <3>1. CASE u = p
        BY <3>1, <2>0, <2>1, <2>2, TimeTypes DEF RInv, VersionInv, Versioned, RowSnap
      <3>2. CASE u # p
        BY <3>2, <2>1, <2>2 DEF RInv, VersionInv, Versioned
      <3> QED
        BY <3>1, <3>2
    <2>5. VersionInv'
      BY <2>0, <2>2, <2>3, <2>4 DEF RInv, VersionInv
    <2>6. ASSUME NEW u \in Procs, ~faulty, row.ver = 1 PROVE FencedAt(proc[u])'
      <3>1. CASE u = p
        BY <3>1, <2>0, <2>1, <2>6 DEF RInv, DenyInv, FencedAt, DenyUntil
      <3>2. CASE u # p
        BY <3>2, <2>0, <2>1, <2>6 DEF RInv, DenyInv, FencedAt, DenyUntil
      <3> QED
        BY <3>1, <3>2
    <2>7. Sealed'
      BY <2>1 DEF Sealed
    <2> QED
      BY <2>0, <2>2, <2>5, <2>6, <2>7 DEF RInv, DenyInv
  <1>2. CASE Finish(p) /\ UNCHANGED <<row, ended>>
    BY <1>2, FinishMove, QuietStep DEF Commit
  <1> QED
    BY <1>1, <1>2 DEF Commit

\* After an advance the session is not in its first version.
LEMMA AdvanceMoves == ASSUME IInv, RInv, NEW p \in Procs, Advance(p) PROVE RInv'
  <1>1. CASE ActiveAt(proc[p].now) /\ row.ver = proc[p].tok /\ row.ver < MaxVer
    <2> DEFINE v == row.ver + 1
               s == [ver |-> v, uver |-> proc[p].next]
    <2>0. /\ proc \in [Procs -> Locals] /\ proc[p] \in Locals /\ row \in Rows
          /\ ended \in [Vers -> {-1} \cup Time]
          /\ UNCHANGED <<clock, cache, faulty>>
      BY DEF IInv, TypeOK, Advance
    <2>v. v \in Int /\ v > row.ver /\ v # 1 /\ s.ver = v
      BY TimeTypes
    <2>r. row' = [row EXCEPT !.ver = v, !.uver = proc[p].next]
      BY <1>1 DEF Advance
    <2>p. proc' = [proc EXCEPT ![p].pc = "fill", ![p].now = 0, ![p].tok = 0, ![p].next = 0, ![p].snap = s]
      BY <1>1 DEF Advance
    <2> HIDE DEF v, s
    <2>1. /\ proc'[p].pc = "fill" /\ proc'[p].snap = s
          /\ \A u \in Procs \ {p} : proc'[u] = proc[u]
      BY <2>p, <2>0 DEF Locals
    <2>2. row'.ver = v
      BY <2>r, <2>0 DEF Rows
    <2>3. ended'[1] <= clock
      BY <1>1, <2>0, TimeTypes DEF RInv, VersionInv, Advance
    <2>4. ASSUME NEW u \in Procs PROVE Versioned(proc[u])'
      <3>1. CASE u = p
        BY <3>1, <2>1, <2>2, <2>v DEF Versioned
      <3>2. CASE u # p
        BY <3>2, <2>1, <2>2, <2>v, TimeTypes DEF RInv, VersionInv, Versioned
      <3> QED
        BY <3>1, <3>2
    <2>5. VersionInv'
      BY <2>0, <2>2, <2>3, <2>4, <2>v, TimeTypes DEF RInv, VersionInv
    <2> QED
      BY <2>2, <2>5, <2>v DEF RInv, DenyInv
  <1>2. CASE ~(ActiveAt(proc[p].now) /\ row.ver = proc[p].tok /\ row.ver < MaxVer)
    BY <1>2, FinishMove, QuietStep DEF Advance
  <1> QED
    BY <1>1, <1>2

\* Without faults the clock does not pass the end of a fence before its tombstone.
LEMMA TickMoves == ASSUME IInv, RInv, Tick PROVE RInv'
  <1>t. /\ clock' = clock + 1 /\ UNCHANGED <<row, cache, proc, ended, faulty>>
        /\ DenyUntil <= DenyUntil' /\ DenyUntil' \in Int
    BY TimeTypes DEF Tick, DenyUntil, Smaller
  <1>1. VersionInv'
    BY <1>t, TimeTypes DEF RInv, VersionInv, Versioned
  <1>2. ASSUME NEW u \in Procs, ~faulty, row.ver = 1 PROVE FencedAt(proc[u])'
    BY <1>2, <1>t, TimeTypes DEF RInv, DenyInv, FencedAt, Tick
  <1>3. ASSUME ~faulty, row.ver = 1 PROVE Sealed'
    BY <1>3, <1>t, TimeTypes DEF RInv, DenyInv, Sealed, LastFill
  <1> QED
    BY <1>1, <1>2, <1>3, <1>t DEF RInv, DenyInv

LEMMA StepRevoked == ASSUME IInv, RInv, [Next]_vars PROVE RInv'
  <1>1. ASSUME NEW p \in Procs, Step(p) PROVE RInv'
    BY <1>1, BeginMoves, LookupMoves, DenyFillMoves, FillMoves, ScriptMoves, RotateMoves, OtherMoves,
       FenceMoves, CommitMoves, FinalMoves, AdvanceMoves DEF Step
  <1>2. CASE Tick
    BY <1>2, TickMoves
  <1>3. CASE UNCHANGED vars
    BY <1>3 DEF vars, RInv, VersionInv, Versioned, DenyInv, FencedAt, Sealed, LastFill, DenyUntil
  <1> QED
    BY <1>1, <1>2, <1>3 DEF Next

\* The invariant says what RevokedIsDenied claims: what is cached as active after the revocation is
\* a snapshot from before, and the last of them has been forgotten.
LEMMA RevokedDenied == ASSUME IInv, RInv PROVE RevokedIsDenied
  <1> SUFFICES ASSUME ~faulty, ~row.active, row.ver = 1, Live.status = "active" PROVE FALSE
    BY DEF RevokedIsDenied
  <1>1. Live = cache /\ cache.until > clock /\ cache.status = "active"
    BY DEF Live, NoEntry
  <1>2. cache.ver = 1 /\ Bounded(cache.ver, cache.until)
    BY <1>1, TimeTypes DEF IInv, CacheInv, RInv, VersionInv, Vers
  <1>3. cache.until <= LastFill
    BY <1>1, <1>2, TimeTypes DEF Bounded, RInv, VersionInv, LastFill, Smaller
  <1>4. cache.status \notin Deny
    BY <1>1 DEF Deny
  <1>5. \A p \in Procs : proc[p].pc # "final"
    BY <1>4 DEF RInv, DenyInv, FencedAt
  <1> QED
    BY <1>1, <1>3, <1>4, <1>5, TimeTypes DEF RInv, DenyInv, Sealed

\* When Redis, the database and the processes do not fail and a revocation takes less than the
\* lifetime of its fence, a session revoked in its first version is not in the cache as active for
\* a single moment, for any number of requests, any TTL and however late their fills are.
THEOREM RevokedStaysDenied == Spec => []RevokedIsDenied
  <1>1. Init => IInv
    BY InitGood
  <1>2. Init => RInv
    <2> SUFFICES ASSUME Init PROVE RInv
      OBVIOUS
    <2>1. row.ver = 1 /\ row.active /\ clock = 0 /\ ended[1] = -1
      BY <1>1, TimeTypes DEF Init
    <2>2. \A p \in Procs : proc[p].pc = "idle" /\ proc[p].snap.ver = 0
      BY DEF Init, Idle, NoSnap
    <2>3. cache.ver <= 1 /\ (cache.status = "active" => cache.until <= Expires)
      BY <1>1, TimeTypes DEF Init, NoEntry, Smaller
    <2> QED
      BY <2>1, <2>2, <2>3 DEF RInv, VersionInv, Versioned, DenyInv, Sealed, FencedAt
  <1>3. IInv /\ RInv /\ [Next]_vars => IInv' /\ RInv'
    BY EveryStep, StepRevoked DEF Good
  <1>4. IInv /\ RInv => RevokedIsDenied
    BY RevokedDenied
  <1> QED
    BY <1>1, <1>2, <1>3, <1>4, PTL DEF Spec
=============================================================================
