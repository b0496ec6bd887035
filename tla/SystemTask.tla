----------------------------- MODULE SystemTask -----------------------------
(***************************************************************************)
(* The persistent background tasks of the gateway: model/system_task.go    *)
(* (the two tables and the SQL statements on them) and the runner,         *)
(* scheduler and lease heartbeat of service/system_task.go.                *)
(*                                                                         *)
(* A step is one SQL statement.  A runner is one process; it keeps the     *)
(* timestamp it read before a statement while the clock goes on, so a      *)
(* process may stall between any two statements, and it may crash.  A      *)
(* process that restarts draws a new runner identity, so it is another     *)
(* member of Runners.                                                      *)
(***************************************************************************)
EXTENDS Integers, FiniteSets

CONSTANTS
    Types,       \* task types with a registered handler
    Scheduled,   \* the types whose handler the scheduler creates periodically
    Runners,     \* runner identities
    MaxTasks,    \* bound: rows ever inserted in system_tasks
    MaxClock,    \* bound: the last second of the run
    LockTTL,     \* systemTaskLockTTL
    Interval,    \* Interval() of the scheduled handlers
    Skew,        \* Skew[r]: how far the clock of r's node runs ahead
    ClaimStall,  \* bound: seconds a claim may last before its last statement
    MaxStall,    \* bound: seconds between a handler's clock read and its statement
    MaxFaults,   \* bound: failing statements and panicking handlers
    Horizon,     \* bound: no crash, fault or lease renewal after this second
    NoLock, NoRunner, NoType, NoTask

TaskIds == 1..MaxTasks

ASSUME ConstantsAssumption ==
    /\ Scheduled \subseteq Types
    /\ MaxTasks \in Nat /\ MaxClock \in Nat /\ LockTTL \in Nat /\ Interval \in Nat
    /\ ClaimStall \in Nat /\ MaxStall \in Nat /\ MaxFaults \in Nat /\ Horizon \in Nat
    /\ Skew \in [Runners -> Nat]
    /\ NoRunner \notin Runners /\ NoType \notin Types /\ NoTask \notin TaskIds
    /\ NoLock \notin [task : TaskIds, by : Runners, until : Nat]

VARIABLES
    clock,      \* the reference clock, in seconds
    tasks,      \* the table system_tasks, by id
    locks,      \* the table system_task_locks, by its primary key, the type
    pc,         \* where the loop of each runner is
    loc,        \* the local variables of that loop
    handler,    \* handler[r][k]: the goroutine of runner r that executes task k
    heartbeat,  \* heartbeat[r][k]: the goroutine that renews the lease of that handler
    since,      \* since[k]: the second task k was dispatched at
    faults      \* faults spent so far

vars == <<clock, tasks, locks, pc, loc, handler, heartbeat, since, faults>>
tables == <<tasks, locks>>
goroutines == <<handler, heartbeat, since>>

-----------------------------------------------------------------------------
Statuses == {"none", "pending", "running", "succeeded", "failed"}
Active == {"pending", "running"}
Terminal == {"succeeded", "failed"}

SystemTaskRow == [type : Types \cup {NoType}, status : Statuses,
                  activeKey : Types \cup {NoType},
                  lockedBy : Runners \cup {NoRunner}, updatedAt : Nat]
SystemTaskLock == [task : TaskIds, by : Runners, until : Nat]
StaleLock == [type : Types, task : TaskIds, by : Runners]

ClaimPCs == {"claimRead", "claimInsert", "claimExisting", "claimSteal",
             "claimMark", "claimRun"}
RunnerPCs == ClaimPCs \cup {"idle", "claimRelease", "claimReread", "expire",
                            "expireDelete", "schedule", "dead"}
HandlerPCs == {"none", "running", "releasing", "done"}

Locals == [task : TaskIds \cup {NoTask}, now : Nat, until : Nat,
           expired : TaskIds \cup {NoTask}, stale : SUBSET StaleLock,
           due : SUBSET Types]
NoLocals == [task |-> NoTask, now |-> 0, until |-> 0, expired |-> NoTask,
             stale |-> {}, due |-> {}]

Now(r) == clock + Skew[r]
Alive(r) == pc[r] # "dead"

\* The timestamps a goroutine of runner r working on task k may have read
\* before the statement it executes now.
Stamps(r, k) == {n \in since[k]..Now(r) : n + MaxStall >= Now(r)}

Init ==
    /\ clock = 0
    /\ tasks = [k \in TaskIds |-> [type |-> NoType, status |-> "none", activeKey |-> NoType,
                                   lockedBy |-> NoRunner, updatedAt |-> 0]]
    /\ locks = [t \in Types |-> NoLock]
    /\ pc = [r \in Runners |-> "idle"]
    /\ loc = [r \in Runners |-> NoLocals]
    /\ handler = [r \in Runners |-> [k \in TaskIds |-> "none"]]
    /\ heartbeat = [r \in Runners |-> [k \in TaskIds |-> "off"]]
    /\ since = [k \in TaskIds |-> 0]
    /\ faults = 0

-----------------------------------------------------------------------------
(* The statements on system_tasks and system_task_locks.                   *)

\* The bound MaxTasks leaves room for another row.
HasRoom == \E k \in TaskIds : tasks[k].status = "none"

\* Mutation: the key is released when a task starts.
ActiveKeyFree_PendingOnly(t) ==
    \A k \in TaskIds : tasks[k].status = "pending" => tasks[k].activeKey # t

\* The unique index on active_key admits a new row of type t.
ActiveKeyFree(t) == \A k \in TaskIds : tasks[k].activeKey # t

CreateSystemTask(t, n) ==
    /\ ActiveKeyFree(t)
    /\ \E k \in TaskIds :
        /\ tasks[k].status = "none"
        /\ \A j \in 1..(k - 1) : tasks[j].status # "none"
        /\ tasks' = [tasks EXCEPT ![k] = [type |-> t, status |-> "pending", activeKey |-> t,
                                          lockedBy |-> NoRunner, updatedAt |-> n]]

\* Mutations: the expired task is queued again; the status is not checked; the
\* row is left alone; a status of its own is written.
MarkSystemTaskLeaseExpired_Requeue(k, n) ==
    tasks' = IF tasks[k].status = "running"
             THEN [tasks EXCEPT ![k].status = "pending", ![k].updatedAt = n]
             ELSE tasks
MarkSystemTaskLeaseExpired_AnyStatus(k, n) ==
    tasks' = [tasks EXCEPT ![k].status = "failed", ![k].activeKey = NoType, ![k].updatedAt = n]
MarkSystemTaskLeaseExpired_Nothing(k, n) == tasks' = tasks
MarkSystemTaskLeaseExpired_OwnStatus(k, n) ==
    tasks' = IF tasks[k].status = "running"
             THEN [tasks EXCEPT ![k].status = "expired", ![k].activeKey = NoType,
                                ![k].updatedAt = n]
             ELSE tasks

\* UPDATE ... WHERE task_id = k AND status = 'running'; not conditioned on any lock.
MarkSystemTaskLeaseExpired(k, n) ==
    tasks' = IF tasks[k].status = "running"
             THEN [tasks EXCEPT ![k] = [@ EXCEPT !.status = "failed", !.activeKey = NoType,
                                                    !.updatedAt = n]]
             ELSE tasks

\* The lock row of type t is the one runner r took for task k.
LockIs(t, k, r) ==
    /\ locks[t] # NoLock
    /\ locks[t].task = k
    /\ locks[t].by = r

ReleaseSystemTaskLock(k, r) ==
    locks' = [t \in Types |-> IF LockIs(t, k, r) THEN NoLock ELSE locks[t]]

\* Mutation: the EXISTS on the lock table is missing.
OwnsRunningTask_NoLease(k, r, n) == tasks[k].status = "running" /\ tasks[k].lockedBy = r

\* The WHERE clause of UpdateSystemTaskState and FinishSystemTask.
OwnsRunningTask(k, r, n) ==
    /\ tasks[k].status = "running"
    /\ tasks[k].lockedBy = r
    /\ \E t \in Types : LockIs(t, k, r) /\ locks[t].until >= n

\* The WHERE clause of RenewSystemTaskLock; the task's status is not part of it.
RenewableLocks(k, r, n) == {t \in Types : LockIs(t, k, r) /\ locks[t].until >= n}

-----------------------------------------------------------------------------
(* Control of a runner's loop.  The locals of a pass end with it.          *)

Goto(r, label) ==
    /\ pc' = [pc EXCEPT ![r] = label]
    /\ UNCHANGED loc

Return(r) ==
    /\ pc' = [pc EXCEPT ![r] = "idle"]
    /\ loc' = [loc EXCEPT ![r] = NoLocals]

\* Go on at label with the locals l.
With(r, label, l) ==
    /\ pc' = [pc EXCEPT ![r] = label]
    /\ loc' = [loc EXCEPT ![r] = l]

-----------------------------------------------------------------------------
(* Creation: the API (EnqueueSystemTask, StartLogCleanupTask), which looks *)
(* for an active task and leaves the race to the unique index, and the     *)
(* scheduler, which reads the latest rows once and then creates.           *)

EnqueueSystemTask(t) ==
    /\ \A k \in TaskIds : tasks[k].type = t => tasks[k].status \notin Active
    /\ CreateSystemTask(t, clock)
    /\ UNCHANGED <<clock, locks, pc, loc, goroutines, faults>>

\* Row k is the latest of type t (ids grow).
LatestOf(t, k) ==
    /\ tasks[k].type = t
    /\ \A j \in TaskIds : tasks[j].type = t => j <= k

Due(t, n) ==
    \A k \in TaskIds :
        LatestOf(t, k) => /\ tasks[k].status \notin Active
                          /\ n - tasks[k].updatedAt >= Interval

SchedulerRead(r) ==
    /\ pc[r] = "idle"
    /\ {t \in Scheduled : Due(t, Now(r))} # {}
    /\ With(r, "schedule", [NoLocals EXCEPT !.due = {t \in Scheduled : Due(t, Now(r))}])
    /\ UNCHANGED <<clock, tables, goroutines, faults>>

AfterDue(r, t) ==
    IF loc[r].due = {t}
    THEN Return(r)
    ELSE With(r, "schedule", [loc[r] EXCEPT !.due = @ \ {t}])

SchedulerCreate(r, t) ==
    /\ pc[r] = "schedule"
    /\ t \in loc[r].due
    /\ \/ CreateSystemTask(t, Now(r))
       \/ ~(ActiveKeyFree(t) /\ HasRoom) /\ UNCHANGED tasks
    /\ AfterDue(r, t)
    /\ UNCHANGED <<clock, locks, goroutines, faults>>

-----------------------------------------------------------------------------
(* ClaimSystemTask and acquireSystemTaskLock, statement by statement.      *)

\* Mutation: MIN(id) is taken over the rows of every status.
ClaimStart_FirstRow(r, k) ==
    /\ pc[r] = "idle"
    /\ tasks[k].status = "pending"
    /\ \A j \in TaskIds : tasks[j].type = tasks[k].type => k <= j
    /\ With(r, "claimRead", [NoLocals EXCEPT !.task = k, !.now = Now(r),
                                             !.until = Now(r) + LockTTL])
    /\ UNCHANGED <<clock, tables, goroutines, faults>>

\* FindEarliestPendingSystemTasks returned row k (the only active row of its
\* type); the timestamps of the claim are taken.
ClaimStart(r, k) ==
    /\ pc[r] = "idle"
    /\ tasks[k].status = "pending"
    /\ With(r, "claimRead", [NoLocals EXCEPT !.task = k, !.now = Now(r),
                                             !.until = Now(r) + LockTTL])
    /\ UNCHANGED <<clock, tables, goroutines, faults>>

ClaimRead(r) ==
    /\ pc[r] = "claimRead"
    /\ IF tasks[loc[r].task].status = "pending" THEN Goto(r, "claimInsert") ELSE Return(r)
    /\ UNCHANGED <<clock, tables, goroutines, faults>>

ClaimedLock(r) == [task |-> loc[r].task, by |-> r, until |-> loc[r].until]

ClaimInsert(r) ==
    LET t == tasks[loc[r].task].type IN
    /\ pc[r] = "claimInsert"
    /\ IF locks[t] = NoLock
       THEN /\ locks' = [locks EXCEPT ![t] = ClaimedLock(r)]
            /\ Goto(r, "claimRun")
       ELSE /\ Goto(r, "claimExisting")
            /\ UNCHANGED locks
    /\ UNCHANGED <<clock, tasks, goroutines, faults>>

ClaimExisting(r) ==
    LET t == tasks[loc[r].task].type IN
    /\ pc[r] = "claimExisting"
    /\ IF locks[t] # NoLock /\ locks[t].until < loc[r].now
       THEN With(r, "claimSteal", [loc[r] EXCEPT !.expired = locks[t].task])
       ELSE Return(r)
    /\ UNCHANGED <<clock, tables, goroutines, faults>>

ClaimSteal(r) ==
    LET t == tasks[loc[r].task].type IN
    /\ pc[r] = "claimSteal"
    /\ IF locks[t] # NoLock /\ locks[t].until < loc[r].now
       THEN /\ locks' = [locks EXCEPT ![t] = ClaimedLock(r)]
            /\ Goto(r, IF loc[r].expired # loc[r].task THEN "claimMark" ELSE "claimRun")
       ELSE /\ Return(r)
            /\ UNCHANGED locks
    /\ UNCHANGED <<clock, tasks, goroutines, faults>>

ClaimMark(r) ==
    /\ pc[r] = "claimMark"
    /\ MarkSystemTaskLeaseExpired(loc[r].expired, Now(r))
    /\ Goto(r, "claimRun")
    /\ UNCHANGED <<clock, locks, goroutines, faults>>

\* The compare-and-set from pending to running.
ClaimRun(r) ==
    LET k == loc[r].task IN
    /\ pc[r] = "claimRun"
    /\ IF tasks[k].status = "pending"
       THEN /\ tasks' = [tasks EXCEPT ![k] = [@ EXCEPT !.status = "running", !.lockedBy = r,
                                                          !.updatedAt = loc[r].now]]
            /\ Goto(r, "claimReread")
       ELSE /\ Goto(r, "claimRelease")
            /\ UNCHANGED tasks
    /\ UNCHANGED <<clock, locks, goroutines, faults>>

ClaimRelease(r) ==
    /\ pc[r] = "claimRelease"
    /\ ReleaseSystemTaskLock(loc[r].task, r)
    /\ Return(r)
    /\ UNCHANGED <<clock, tasks, goroutines, faults>>

\* The last SELECT of the claim succeeded: the handler and its heartbeat start.
Dispatch(r) ==
    LET k == loc[r].task IN
    /\ pc[r] = "claimReread"
    /\ handler' = [handler EXCEPT ![r][k] = "running"]
    /\ heartbeat' = [heartbeat EXCEPT ![r][k] = "beating"]
    /\ since' = [since EXCEPT ![k] = Now(r)]
    /\ Return(r)
    /\ UNCHANGED <<clock, tables, faults>>

-----------------------------------------------------------------------------
(* ExpireStaleSystemTaskLocks.                                             *)

StaleLocks(n) ==
    {[type |-> t, task |-> locks[t].task, by |-> locks[t].by] :
        t \in {u \in Types : locks[u] # NoLock /\ locks[u].until < n}}

ExpireRead(r) ==
    /\ pc[r] = "idle"
    /\ IF StaleLocks(Now(r)) = {}
       THEN UNCHANGED <<pc, loc>>
       ELSE With(r, "expire", [NoLocals EXCEPT !.now = Now(r), !.stale = StaleLocks(Now(r))])
    /\ UNCHANGED <<clock, tables, goroutines, faults>>

ExpireMark(r, s) ==
    /\ pc[r] = "expire"
    /\ s \in loc[r].stale
    /\ MarkSystemTaskLeaseExpired(s.task, Now(r))
    /\ With(r, "expireDelete", [loc[r] EXCEPT !.task = s.task])
    /\ UNCHANGED <<clock, locks, goroutines, faults>>

\* Mutation: DELETE ... WHERE type = ?, without the rest of the condition.
ExpireDelete_Unconditional(r, s) ==
    /\ pc[r] = "expireDelete"
    /\ s \in loc[r].stale
    /\ s.task = loc[r].task
    /\ locks' = [locks EXCEPT ![s.type] = NoLock]
    /\ IF loc[r].stale = {s}
       THEN Return(r)
       ELSE With(r, "expire", [loc[r] EXCEPT !.stale = @ \ {s}])
    /\ UNCHANGED <<clock, tasks, goroutines, faults>>

ExpireDelete(r, s) ==
    /\ pc[r] = "expireDelete"
    /\ s \in loc[r].stale
    /\ s.task = loc[r].task
    /\ locks' = IF LockIs(s.type, s.task, s.by) /\ locks[s.type].until < loc[r].now
                THEN [locks EXCEPT ![s.type] = NoLock]
                ELSE locks
    /\ IF loc[r].stale = {s}
       THEN Return(r)
       ELSE With(r, "expire", [loc[r] EXCEPT !.stale = @ \ {s}])
    /\ UNCHANGED <<clock, tasks, goroutines, faults>>

-----------------------------------------------------------------------------
(* The goroutines of a task on the runner that claimed it.  The heartbeat  *)
(* is stopped (done is closed) when the handler returns.                   *)

HandlerReturns(r, k) ==
    /\ handler' = [handler EXCEPT ![r][k] = "done"]
    /\ heartbeat' = [heartbeat EXCEPT ![r][k] = "off"]
    /\ since' = [since EXCEPT ![k] = 0]

HandlerGoesOn(r, k, label) ==
    /\ handler' = [handler EXCEPT ![r][k] = label]
    /\ UNCHANGED <<heartbeat, since>>

-----------------------------------------------------------------------------
(* A dispatched handler: runWithLeaseHeartbeat, UpdateSystemTaskState and  *)
(* FinishSystemTask.                                                       *)

RenewSystemTaskLock(r, k) ==
    /\ Alive(r)
    /\ heartbeat[r][k] = "beating"
    /\ \E n \in Stamps(r, k) :
        IF RenewableLocks(k, r, n) # {}
        THEN /\ clock <= Horizon
             /\ locks' = [t \in Types |-> IF t \in RenewableLocks(k, r, n)
                                          THEN [locks[t] EXCEPT !.until = n + LockTTL]
                                          ELSE locks[t]]
             /\ UNCHANGED heartbeat
        ELSE /\ heartbeat' = [heartbeat EXCEPT ![r][k] = "cancelled"]
             /\ UNCHANGED locks
    /\ UNCHANGED <<clock, tasks, pc, loc, handler, since, faults>>

\* Log cleanup returns when the lock is lost; the progress reporter ignores it.
UpdateSystemTaskState(r, k) ==
    /\ Alive(r)
    /\ handler[r][k] = "running"
    /\ \E n \in Stamps(r, k) :
        \/ /\ OwnsRunningTask(k, r, n)
           /\ tasks' = [tasks EXCEPT ![k] = [@ EXCEPT !.updatedAt = n]]
           /\ UNCHANGED goroutines
        \/ /\ ~OwnsRunningTask(k, r, n)
           /\ HandlerReturns(r, k)
           /\ UNCHANGED tasks
    /\ UNCHANGED <<clock, locks, pc, loc, faults>>

FinishSystemTask(r, k, status) ==
    /\ Alive(r)
    /\ handler[r][k] = "running"
    /\ \E n \in Stamps(r, k) :
        IF OwnsRunningTask(k, r, n)
        THEN /\ tasks' = [tasks EXCEPT ![k] = [@ EXCEPT !.status = status, !.activeKey = NoType,
                                                           !.updatedAt = n]]
             /\ HandlerGoesOn(r, k, "releasing")
        ELSE /\ HandlerReturns(r, k)
             /\ UNCHANGED tasks
    /\ UNCHANGED <<clock, locks, pc, loc, faults>>

FinishRelease(r, k) ==
    /\ Alive(r)
    /\ handler[r][k] = "releasing"
    /\ ReleaseSystemTaskLock(k, r)
    /\ HandlerReturns(r, k)
    /\ UNCHANGED <<clock, tasks, pc, loc, faults>>

-----------------------------------------------------------------------------
(* Failures: a statement that returns an error, a handler that panics or   *)
(* gives up without finishing, a renewal that fails, a process crash.      *)

Fault ==
    /\ faults < MaxFaults
    /\ clock <= Horizon
    /\ faults' = faults + 1

\* Where the code goes when the statement at a label returns an error.
OnError == [label \in RunnerPCs |->
    CASE label = "claimInsert" -> "claimExisting"
      [] label \in {"claimMark", "claimRun"} -> "claimRelease"
      [] OTHER -> "idle"]

StatementFails(r) ==
    /\ pc[r] \notin {"idle", "dead", "schedule"}
    /\ Fault
    /\ IF OnError[pc[r]] = "idle" THEN Return(r) ELSE Goto(r, OnError[pc[r]])
    /\ UNCHANGED <<clock, tables, goroutines>>

ScheduleFails(r, t) ==
    /\ pc[r] = "schedule"
    /\ t \in loc[r].due
    /\ Fault
    /\ AfterDue(r, t)
    /\ UNCHANGED <<clock, tables, goroutines>>

HandlerFails(r, k) ==
    /\ Alive(r)
    /\ handler[r][k] \in {"running", "releasing"}
    /\ Fault
    /\ HandlerReturns(r, k)
    /\ UNCHANGED <<clock, tables, pc, loc>>

RenewFails(r, k) ==
    /\ Alive(r)
    /\ heartbeat[r][k] = "beating"
    /\ Fault
    /\ heartbeat' = [heartbeat EXCEPT ![r][k] = "cancelled"]
    /\ UNCHANGED <<clock, tables, pc, loc, handler, since>>

Crash(r) ==
    /\ Alive(r)
    /\ \E q \in Runners \ {r} : Alive(q)
    /\ clock <= Horizon
    /\ With(r, "dead", NoLocals)
    /\ UNCHANGED <<clock, tables, goroutines, faults>>

Tick ==
    /\ clock < MaxClock
    /\ \A r \in Runners : pc[r] \in ClaimPCs => Now(r) < loc[r].now + ClaimStall
    /\ clock' = clock + 1
    /\ UNCHANGED <<tables, pc, loc, goroutines, faults>>

-----------------------------------------------------------------------------
RunnerStep(r) ==
    \/ ExpireRead(r)
    \/ \E s \in loc[r].stale : ExpireMark(r, s) \/ ExpireDelete(r, s)
    \/ SchedulerRead(r)
    \/ \E t \in Types : SchedulerCreate(r, t)
    \/ \E k \in TaskIds : ClaimStart(r, k)
    \/ ClaimRead(r) \/ ClaimInsert(r) \/ ClaimExisting(r) \/ ClaimSteal(r)
    \/ ClaimMark(r) \/ ClaimRun(r) \/ ClaimRelease(r) \/ Dispatch(r)

HandlerStep(r, k) ==
    \/ RenewSystemTaskLock(r, k)
    \/ UpdateSystemTaskState(r, k)
    \/ \E status \in Terminal : FinishSystemTask(r, k, status)
    \/ FinishRelease(r, k)

Failure ==
    \E r \in Runners :
        \/ StatementFails(r)
        \/ \E t \in Types : ScheduleFails(r, t)
        \/ \E k \in TaskIds : HandlerFails(r, k) \/ RenewFails(r, k)
        \/ Crash(r)

Next ==
    \/ Tick
    \/ \E t \in Types : EnqueueSystemTask(t)
    \/ \E r \in Runners : RunnerStep(r) \/ \E k \in TaskIds : HandlerStep(r, k)
    \/ Failure

Spec == Init /\ [][Next]_vars

\* Time passes, and the loop of a live runner executes its statements and comes
\* back to the lease expiry and to the claim of a pending task of each type: a
\* pass visits both (StartSystemTaskRunner), so they recur although a pass also does
\* other things in between.
RunnerFairness ==
    /\ WF_vars(Tick)
    /\ \A r \in Runners :
        /\ WF_vars(RunnerStep(r))
        /\ SF_vars(ExpireRead(r))
        /\ \A t \in Types : SF_vars(\E k \in TaskIds : tasks[k].type = t /\ ClaimStart(r, k))

\* A handler must call FinishSystemTask before it returns and must not hang
\* (the contract of SystemTaskHandler).
HandlerFairness ==
    \A r \in Runners, k \in TaskIds :
        WF_vars((\E status \in Terminal : FinishSystemTask(r, k, status)) \/ FinishRelease(r, k))

FairSpec == Spec /\ RunnerFairness /\ HandlerFairness

-----------------------------------------------------------------------------
(* Correctness.                                                            *)

\* Every variable has its type.
TypeOK ==
    /\ clock \in Nat
    /\ tasks \in [TaskIds -> SystemTaskRow]
    /\ locks \in [Types -> SystemTaskLock \cup {NoLock}]
    /\ pc \in [Runners -> RunnerPCs]
    /\ loc \in [Runners -> Locals]
    /\ handler \in [Runners -> [TaskIds -> HandlerPCs]]
    /\ heartbeat \in [Runners -> [TaskIds -> {"off", "beating", "cancelled"}]]
    /\ since \in [TaskIds -> Nat]
    /\ faults \in Nat

\* At most one row of a type is pending or running, whichever nodes create,
\* claim, finish and expire tasks at the same time: active_key is cleared in
\* exactly the statements that end a task (model/system_task.go:33, 353, 394).
OneActivePerType ==
    \A j, k \in TaskIds :
        /\ tasks[j].status \in Active
        /\ tasks[k].status \in Active
        /\ tasks[j].type = tasks[k].type
        => j = k

\* "the per-type lock guarantees only one runner executes the task"
\* (service/system_task.go:262): a task that was dispatched once is never
\* dispatched again, by any runner, whatever leases expire and nodes crash.
ExecutedOnce ==
    [][\A k \in TaskIds :
        (\E r \in Runners : handler[r][k] # "none")
        => \A r \in Runners : handler'[r][k] = "running" => handler[r][k] = "running"]_vars

\* A finished task keeps its outcome: no late statement of a stalled runner,
\* handler or lease expirer changes the status of a terminal row.
TerminalIsFinal ==
    [][\A k \in TaskIds :
        tasks[k].status \in Terminal => tasks'[k] = tasks[k]]_vars

\* The lock row of task k belongs to the runner recorded in its locked_by.
Leased(k) == \E t \in Types : LockIs(t, k, tasks[k].lockedBy)

\* A running task that lost its lease never gets it back, so a stalled handler
\* can neither report progress nor succeed after another node took over
\* (ErrSystemTaskLockLost, model/system_task.go:309-406).
LostLeaseStaysLost ==
    [][\A k \in TaskIds :
        tasks[k].status = "running" /\ ~Leased(k)
        => ~Leased(k)' /\ tasks'[k].status \in {"running", "failed"}]_vars

\* Every running task is backed by the lock row of its runner, so that a crash
\* of that runner is noticed when the lease ends (ExpireStaleSystemTaskLocks).
RunningIsLeased ==
    \A k \in TaskIds : tasks[k].status = "running" => Leased(k)

\* Every running task ends: its handler finishes it or, when the handler, its
\* heartbeat or its node is gone, another runner marks the expired lease failed.
RunningEnds ==
    \A k \in TaskIds : tasks[k].status = "running" ~> tasks[k].status \in Terminal

\* The lease of the type of task k ends after the last second of the run.
LeaseOutlivesRun(k) ==
    \E t \in Types : tasks[k].type = t /\ locks[t] # NoLock /\ locks[t].until >= MaxClock

\* A created task does not stay pending, although the lock of its type may be
\* left behind by a crash or by a handler that lost its task (up to the bound
\* of the clock: a lock that ends after it cannot be seen to expire).
PendingEnds ==
    \A k \in TaskIds :
        tasks[k].status = "pending" ~> tasks[k].status # "pending" \/ LeaseOutlivesRun(k)
=============================================================================
