-------------------------- MODULE SystemTaskProofs --------------------------
(***************************************************************************)
(* Safety of the system tasks for any number of types, runners, rows and   *)
(* seconds.  The invariant OneActivePerType and the action properties      *)
(* ExecutedOnce, TerminalIsFinal and LostLeaseStaysLost are not inductive  *)
(* alone; IInv adds what ties the columns of a row, the goroutines and the *)
(* local variables of the runners together.  RunningIsLeased has an        *)
(* invariant of its own, LeaseInv, which is about time.                    *)
(***************************************************************************)
EXTENDS SystemTask, TLAPS

\* active_key holds the type of a row exactly while the row is active.
KeyInv ==
    \A k \in TaskIds :
        /\ tasks[k].status \in Active => tasks[k].activeKey = tasks[k].type
        /\ tasks[k].status \notin Active => tasks[k].activeKey = NoType
        /\ tasks[k].status # "none" => tasks[k].type \in Types

\* A row that nobody claimed names no runner.
UnclaimedInv ==
    \A k \in TaskIds :
        tasks[k].status \in {"none", "pending"} => tasks[k].lockedBy = NoRunner

\* A handler runs on the node in locked_by.
HandlerInv ==
    \A r \in Runners, k \in TaskIds :
        handler[r][k] # "none" => tasks[k].lockedBy = r

\* A claim about to start a handler owns the row and has not started it before.
DispatchInv ==
    \A r \in Runners :
        pc[r] = "claimReread" => /\ loc[r].task \in TaskIds
                                 /\ tasks[loc[r].task].lockedBy = r
                                 /\ handler[r][loc[r].task] = "none"

\* A claim in progress is about an existing row that this runner does not own.
ClaimInv ==
    \A r \in Runners :
        /\ pc[r] \in ClaimPCs \cup {"claimRelease"} =>
            /\ loc[r].task \in TaskIds
            /\ tasks[loc[r].task].status # "none"
            /\ tasks[loc[r].task].lockedBy # r
        /\ pc[r] \in {"claimSteal", "claimMark"} => loc[r].expired \in TaskIds

IInv == TypeOK /\ KeyInv /\ OneActivePerType /\ UnclaimedInv /\ HandlerInv /\ DispatchInv
        /\ ClaimInv

-----------------------------------------------------------------------------
LEMMA InitInv == Init => IInv
  <1> SUFFICES ASSUME Init PROVE IInv
    OBVIOUS
  <1>1. TypeOK
    BY ConstantsAssumption DEF Init, TypeOK, SystemTaskRow, Statuses, RunnerPCs, Locals, NoLocals,
       HandlerPCs
  <1>2. KeyInv /\ OneActivePerType /\ UnclaimedInv /\ HandlerInv /\ DispatchInv
        /\ ClaimInv
    BY DEF Init, KeyInv, OneActivePerType, UnclaimedInv, HandlerInv, DispatchInv, ClaimInv, Active, ClaimPCs
  <1> QED
    BY <1>1, <1>2 DEF IInv

\* The locals of a runner that starts a pass, and the steps of its control.
LEMMA NoLocalsType == NoLocals \in Locals
  BY ConstantsAssumption DEF NoLocals, Locals

LEMMA NowType ==
  ASSUME TypeOK, NEW r \in Runners PROVE Now(r) \in Nat
  BY ConstantsAssumption DEF TypeOK, Now

-----------------------------------------------------------------------------
(* Steps on the rows.                                                      *)

RowInv == KeyInv /\ OneActivePerType /\ UnclaimedInv

\* The step neither creates a row nor gives one to another runner.
OwnersKept ==
    \A k \in TaskIds : /\ tasks'[k].lockedBy = tasks[k].lockedBy
                       /\ tasks'[k].status = "none" <=> tasks[k].status = "none"

LEMMA RowsUnchanged ==
  ASSUME IInv, UNCHANGED tasks
  PROVE  RowInv' /\ OwnersKept /\ tasks' \in [TaskIds -> SystemTaskRow]
  BY DEF IInv, RowInv, OwnersKept, KeyInv, OneActivePerType, UnclaimedInv, TypeOK

LEMMA RowCreated ==
  ASSUME IInv, NEW t \in Types, NEW n \in Nat, CreateSystemTask(t, n)
  PROVE  /\ RowInv'
         /\ tasks' \in [TaskIds -> SystemTaskRow]
         /\ \E k \in TaskIds :
              /\ tasks[k].lockedBy = NoRunner
              /\ tasks[k].status = "none"
              /\ \A j \in TaskIds \ {k} : tasks'[j] = tasks[j]
  <1>1. PICK k \in TaskIds :
          /\ tasks[k].status = "none"
          /\ tasks' = [tasks EXCEPT ![k] = [type |-> t, status |-> "pending", activeKey |-> t,
                                            lockedBy |-> NoRunner, updatedAt |-> n]]
    BY DEF CreateSystemTask
  <1>2. tasks' \in [TaskIds -> SystemTaskRow]
    BY <1>1 DEF IInv, TypeOK, SystemTaskRow, Statuses
  <1>3. KeyInv' /\ OneActivePerType'
    BY <1>1 DEF IInv, KeyInv, OneActivePerType, TypeOK, CreateSystemTask, ActiveKeyFree, Active,
       SystemTaskRow
  <1>4. UnclaimedInv'
    BY <1>1 DEF IInv, UnclaimedInv, TypeOK, SystemTaskRow
  <1>5. tasks[k].lockedBy = NoRunner /\ \A j \in TaskIds \ {k} : tasks'[j] = tasks[j]
    BY <1>1 DEF IInv, UnclaimedInv, TypeOK
  <1> QED
    BY <1>1, <1>2, <1>3, <1>4, <1>5 DEF RowInv

\* A running row ends (a terminal status and no active key) or only its time changes.
LEMMA RowEnded ==
  ASSUME IInv, NEW k \in TaskIds, NEW st \in Terminal, NEW n \in Nat, tasks[k].status = "running",
         tasks' = [tasks EXCEPT ![k] = [@ EXCEPT !.status = st, !.activeKey = NoType,
                                                !.updatedAt = n]]
  PROVE  RowInv' /\ OwnersKept /\ tasks' \in [TaskIds -> SystemTaskRow]
  <1> DEFINE row == [tasks[k] EXCEPT !.status = st, !.activeKey = NoType, !.updatedAt = n]
  <1>0. row \in SystemTaskRow
    BY DEF IInv, TypeOK, SystemTaskRow, Statuses, Terminal
  <1>1. tasks' \in [TaskIds -> SystemTaskRow]
    BY <1>0 DEF IInv, TypeOK
  <1>2. KeyInv' /\ OneActivePerType'
    BY DEF IInv, KeyInv, OneActivePerType, TypeOK, Active, Terminal, SystemTaskRow
  <1>3. UnclaimedInv' /\ OwnersKept
    BY DEF IInv, UnclaimedInv, OwnersKept, TypeOK, Terminal, SystemTaskRow
  <1> QED
    BY <1>1, <1>2, <1>3 DEF RowInv

LEMMA RowMarked ==
  ASSUME IInv, NEW k \in TaskIds, NEW n \in Nat, MarkSystemTaskLeaseExpired(k, n)
  PROVE  RowInv' /\ OwnersKept /\ tasks' \in [TaskIds -> SystemTaskRow]
  <1>1. CASE tasks[k].status = "running"
    BY <1>1, RowEnded DEF MarkSystemTaskLeaseExpired, Terminal
  <1>2. CASE tasks[k].status # "running"
    BY <1>2, RowsUnchanged DEF MarkSystemTaskLeaseExpired
  <1> QED
    BY <1>1, <1>2

LEMMA RowTouched ==
  ASSUME IInv, NEW k \in TaskIds, NEW n \in Nat, tasks' = [tasks EXCEPT ![k] = [@ EXCEPT !.updatedAt = n]]
  PROVE  RowInv' /\ OwnersKept /\ tasks' \in [TaskIds -> SystemTaskRow]
  <1> DEFINE row == [tasks[k] EXCEPT !.updatedAt = n]
  <1>1. row \in SystemTaskRow
    BY DEF IInv, TypeOK, SystemTaskRow
  <1>2. tasks' \in [TaskIds -> SystemTaskRow]
    BY <1>1 DEF IInv, TypeOK
  <1>3. KeyInv' /\ OneActivePerType'
    BY DEF IInv, KeyInv, OneActivePerType, TypeOK, SystemTaskRow
  <1>4. UnclaimedInv' /\ OwnersKept
    BY DEF IInv, UnclaimedInv, OwnersKept, TypeOK, SystemTaskRow
  <1> QED
    BY <1>2, <1>3, <1>4 DEF RowInv

-----------------------------------------------------------------------------
(* Steps on the control of a runner and on its goroutines.                 *)

LEMMA ControlStep ==
  ASSUME IInv, OwnersKept, NEW r \in Runners, NEW label \in RunnerPCs, NEW l \in Locals,
         pc' = [pc EXCEPT ![r] = label], loc' = [loc EXCEPT ![r] = l],
         UNCHANGED handler,
         label # "claimReread",
         label \in ClaimPCs \cup {"claimRelease"} =>
            l.task \in TaskIds /\ tasks[l.task].status # "none" /\ tasks[l.task].lockedBy # r,
         label \in {"claimSteal", "claimMark"} => l.expired \in TaskIds
  PROVE  HandlerInv' /\ DispatchInv' /\ ClaimInv'
  <1>1. HandlerInv'
    BY DEF IInv, OwnersKept, HandlerInv
  <1>2. DispatchInv'
    <2> SUFFICES ASSUME NEW q \in Runners, pc'[q] = "claimReread"
                 PROVE  /\ loc[q].task \in TaskIds
                        /\ tasks'[loc[q].task].lockedBy = q
                        /\ handler[q][loc[q].task] = "none"
                        /\ loc'[q] = loc[q]
      BY DEF DispatchInv
    <2>1. q # r /\ pc[q] = "claimReread" /\ loc'[q] = loc[q]
      BY DEF IInv, TypeOK
    <2> QED
      BY <2>1 DEF IInv, OwnersKept, DispatchInv
  <1>3. ClaimInv'
    <2> SUFFICES ASSUME NEW q \in Runners
                 PROVE  /\ pc'[q] \in ClaimPCs \cup {"claimRelease"} =>
                              /\ loc'[q].task \in TaskIds
                              /\ tasks'[loc'[q].task].status # "none"
                              /\ tasks'[loc'[q].task].lockedBy # q
                        /\ pc'[q] \in {"claimSteal", "claimMark"} => loc'[q].expired \in TaskIds
      BY DEF ClaimInv
    <2>1. CASE q = r
      BY <2>1 DEF IInv, TypeOK, OwnersKept
    <2>2. CASE q # r
      BY <2>2 DEF IInv, TypeOK, OwnersKept, ClaimInv
    <2> QED
      BY <2>1, <2>2
  <1> QED
    BY <1>1, <1>2, <1>3

LEMMA ControlUnchanged ==
  ASSUME IInv, OwnersKept, UNCHANGED <<pc, loc, handler>>
  PROVE  HandlerInv' /\ DispatchInv' /\ ClaimInv'
  BY DEF IInv, OwnersKept, HandlerInv, DispatchInv, ClaimInv

\* A goroutine that exists goes on or returns.
LEMMA HandlerMoves ==
  ASSUME IInv, OwnersKept, NEW r \in Runners, NEW k \in TaskIds, NEW label \in HandlerPCs,
         handler[r][k] # "none", handler' = [handler EXCEPT ![r][k] = label], UNCHANGED <<pc, loc>>
  PROVE  HandlerInv' /\ DispatchInv' /\ ClaimInv'
  <1>1. HandlerInv'
    BY DEF IInv, OwnersKept, HandlerInv, TypeOK
  <1>2. DispatchInv'
    <2> SUFFICES ASSUME NEW q \in Runners, pc[q] = "claimReread"
                 PROVE  /\ tasks'[loc[q].task].lockedBy = q
                        /\ handler'[q][loc[q].task] = "none"
      BY DEF DispatchInv, IInv
    <2>1. loc[q].task \in TaskIds /\ ~(q = r /\ loc[q].task = k)
      BY DEF IInv, DispatchInv
    <2> QED
      BY <2>1 DEF IInv, OwnersKept, DispatchInv, TypeOK
  <1>3. ClaimInv'
    BY DEF IInv, OwnersKept, ClaimInv
  <1> QED
    BY <1>1, <1>2, <1>3

-----------------------------------------------------------------------------
(* Every action preserves IInv.                                            *)

LEMMA Compose ==
  ASSUME TypeOK', RowInv', HandlerInv', DispatchInv', ClaimInv'
  PROVE  IInv'
  BY DEF IInv, RowInv

LEMMA EnqueueInv ==
  ASSUME IInv, NEW t \in Types, EnqueueSystemTask(t) PROVE IInv'
  <1> USE DEF EnqueueSystemTask, goroutines
  <1>1. clock \in Nat /\ CreateSystemTask(t, clock)
    BY DEF IInv, TypeOK
  <1>2. /\ RowInv'
        /\ tasks' \in [TaskIds -> SystemTaskRow]
        /\ \E k \in TaskIds : /\ tasks[k].lockedBy = NoRunner
                              /\ tasks[k].status = "none"
                              /\ \A j \in TaskIds \ {k} : tasks'[j] = tasks[j]
    BY <1>1, RowCreated
  <1>3. TypeOK'
    BY <1>2 DEF IInv, TypeOK
  <1>4. HandlerInv' /\ DispatchInv' /\ ClaimInv'
    BY <1>2, ConstantsAssumption DEF IInv, HandlerInv, DispatchInv, ClaimInv
  <1> QED
    BY <1>2, <1>3, <1>4, Compose

\* The control of a runner that leaves the tables and the goroutines alone.
LEMMA ControlOnly ==
  ASSUME IInv, NEW r \in Runners, NEW label \in RunnerPCs, NEW l \in Locals,
         pc' = [pc EXCEPT ![r] = label], loc' = [loc EXCEPT ![r] = l],
         UNCHANGED <<clock, tasks, goroutines>>, faults' \in Nat,
         locks' \in [Types -> SystemTaskLock \cup {NoLock}],
         label # "claimReread",
         label \in ClaimPCs \cup {"claimRelease"} =>
            l.task \in TaskIds /\ tasks[l.task].status # "none" /\ tasks[l.task].lockedBy # r,
         label \in {"claimSteal", "claimMark"} => l.expired \in TaskIds
  PROVE  IInv'
  <1>1. RowInv' /\ OwnersKept /\ tasks' \in [TaskIds -> SystemTaskRow]
    BY RowsUnchanged
  <1>2. TypeOK'
    BY <1>1 DEF IInv, TypeOK, goroutines
  <1>3. HandlerInv' /\ DispatchInv' /\ ClaimInv'
    BY <1>1, ControlStep DEF goroutines
  <1> QED
    BY <1>1, <1>2, <1>3, Compose

LEMMA ReturnInv ==
  ASSUME IInv, NEW r \in Runners, Return(r), UNCHANGED <<clock, tasks, goroutines>>,
         faults' \in Nat, locks' \in [Types -> SystemTaskLock \cup {NoLock}]
  PROVE  IInv'
  BY ControlOnly, NoLocalsType DEF Return, RunnerPCs, ClaimPCs

\* A claim goes on with the same row.
LEMMA ClaimGoesOn ==
  ASSUME IInv, NEW r \in Runners, NEW label \in ClaimPCs \cup {"claimRelease"}, NEW l \in Locals,
         pc[r] \in ClaimPCs, With(r, label, l), l.task = loc[r].task,
         label \in {"claimSteal", "claimMark"} => l.expired \in TaskIds,
         UNCHANGED <<clock, tasks, goroutines>>, faults' \in Nat,
         locks' \in [Types -> SystemTaskLock \cup {NoLock}]
  PROVE  IInv'
  <1>1. loc[r].task \in TaskIds /\ tasks[loc[r].task].status # "none"
        /\ tasks[loc[r].task].lockedBy # r
    BY DEF IInv, ClaimInv
  <1>2. label \in RunnerPCs /\ label # "claimReread"
    BY DEF RunnerPCs, ClaimPCs
  <1> QED
    BY <1>1, <1>2, ControlOnly DEF With

LEMMA GotoIsWith ==
  ASSUME TypeOK, NEW r \in Runners, NEW label, Goto(r, label)
  PROVE  With(r, label, loc[r]) /\ loc[r] \in Locals
  BY DEF TypeOK, Goto, With

LEMMA ClaimStartInv ==
  ASSUME IInv, NEW r \in Runners, NEW k \in TaskIds, ClaimStart(r, k) PROVE IInv'
  <1> DEFINE l == [NoLocals EXCEPT !.task = k, !.now = Now(r), !.until = Now(r) + LockTTL]
  <1>0. Now(r) \in Nat /\ Now(r) + LockTTL \in Nat
    BY ConstantsAssumption DEF IInv, TypeOK, Now
  <1>1. l \in Locals /\ l.task = k
    BY <1>0, NoLocalsType DEF NoLocals, Locals
  <1>2. tasks[k].status # "none" /\ tasks[k].lockedBy # r
    BY ConstantsAssumption DEF ClaimStart, IInv, UnclaimedInv
  <1>3. With(r, "claimRead", l) /\ UNCHANGED <<clock, tasks, goroutines>>
        /\ locks' = locks /\ faults' = faults
    BY DEF ClaimStart, tables
  <1>4. faults' \in Nat /\ locks' \in [Types -> SystemTaskLock \cup {NoLock}]
    BY <1>3 DEF IInv, TypeOK
  <1> QED
    BY <1>1, <1>2, <1>3, <1>4, ControlOnly DEF With, RunnerPCs, ClaimPCs

LEMMA ClaimReadInv ==
  ASSUME IInv, NEW r \in Runners, ClaimRead(r) PROVE IInv'
  <1>1. /\ UNCHANGED <<clock, tasks, goroutines>> /\ faults' \in Nat
        /\ locks' \in [Types -> SystemTaskLock \cup {NoLock}]
        /\ pc[r] \in ClaimPCs
    BY DEF ClaimRead, tables, IInv, TypeOK, ClaimPCs
  <1>2. CASE Return(r)
    BY <1>1, <1>2, ReturnInv
  <1>3. CASE Goto(r, "claimInsert")
    BY <1>1, <1>3, GotoIsWith, ClaimGoesOn DEF IInv, ClaimPCs
  <1> QED
    BY <1>2, <1>3 DEF ClaimRead

\* What a claim that takes the lock writes.
LEMMA TakenLocks ==
  ASSUME IInv, NEW r \in Runners, pc[r] \in ClaimPCs, NEW t,
         loc[r].until \in Nat,
         locks' = [locks EXCEPT ![t] = ClaimedLock(r)]
  PROVE  locks' \in [Types -> SystemTaskLock \cup {NoLock}]
  BY DEF IInv, TypeOK, ClaimInv, ClaimedLock, SystemTaskLock

LEMMA LocalsFit ==
  ASSUME IInv, NEW r \in Runners
  PROVE  /\ loc[r] \in Locals
         /\ loc[r].until \in Nat
         /\ loc[r].now \in Nat
  BY DEF IInv, TypeOK, Locals

LEMMA ClaimInsertInv ==
  ASSUME IInv, NEW r \in Runners, ClaimInsert(r) PROVE IInv'
  <1> DEFINE t == tasks[loc[r].task].type
  <1>1. UNCHANGED <<clock, tasks, goroutines>> /\ faults' \in Nat /\ pc[r] \in ClaimPCs
    BY DEF ClaimInsert, IInv, TypeOK, ClaimPCs
  <1>2. CASE locks' = [locks EXCEPT ![t] = ClaimedLock(r)] /\ Goto(r, "claimRun")
    <2>1. locks' \in [Types -> SystemTaskLock \cup {NoLock}]
      BY <1>1, <1>2, TakenLocks, LocalsFit
    <2> QED
      BY <1>1, <1>2, <2>1, GotoIsWith, ClaimGoesOn DEF IInv, ClaimPCs
  <1>3. CASE UNCHANGED locks /\ Goto(r, "claimExisting")
    <2>1. locks' \in [Types -> SystemTaskLock \cup {NoLock}]
      BY <1>3 DEF IInv, TypeOK
    <2> QED
      BY <1>1, <1>3, <2>1, GotoIsWith, ClaimGoesOn DEF IInv, ClaimPCs
  <1> QED
    BY <1>2, <1>3 DEF ClaimInsert

LEMMA ClaimExistingInv ==
  ASSUME IInv, NEW r \in Runners, ClaimExisting(r) PROVE IInv'
  <1> DEFINE t == tasks[loc[r].task].type
  <1>1. /\ UNCHANGED <<clock, tasks, goroutines>> /\ faults' \in Nat
        /\ locks' \in [Types -> SystemTaskLock \cup {NoLock}]
        /\ pc[r] \in ClaimPCs
    BY DEF ClaimExisting, tables, IInv, TypeOK, ClaimPCs
  <1>2. CASE Return(r)
    BY <1>1, <1>2, ReturnInv
  <1>3. CASE locks[t] # NoLock /\ With(r, "claimSteal", [loc[r] EXCEPT !.expired = locks[t].task])
    <2> DEFINE l == [loc[r] EXCEPT !.expired = locks[t].task]
    <2>1. t \in Types
      BY <1>1 DEF IInv, ClaimInv, KeyInv
    <2>2. locks[t].task \in TaskIds
      BY <1>3, <2>1 DEF IInv, TypeOK, SystemTaskLock
    <2>3. l \in Locals /\ l.task = loc[r].task /\ l.expired = locks[t].task
      BY <2>2, LocalsFit DEF Locals
    <2> HIDE DEF l
    <2> QED
      BY <1>1, <1>3, <2>2, <2>3, ClaimGoesOn DEF ClaimPCs, l
  <1> QED
    BY <1>2, <1>3 DEF ClaimExisting

LEMMA ClaimStealInv ==
  ASSUME IInv, NEW r \in Runners, ClaimSteal(r) PROVE IInv'
  <1> DEFINE t == tasks[loc[r].task].type
  <1>1. UNCHANGED <<clock, tasks, goroutines>> /\ faults' \in Nat /\ pc[r] \in ClaimPCs
        /\ loc[r].expired \in TaskIds
    BY DEF ClaimSteal, IInv, TypeOK, ClaimPCs, ClaimInv
  <1>2. CASE locks' = [locks EXCEPT ![t] = ClaimedLock(r)]
             /\ (Goto(r, "claimMark") \/ Goto(r, "claimRun"))
    <2>1. locks' \in [Types -> SystemTaskLock \cup {NoLock}]
      BY <1>1, <1>2, TakenLocks, LocalsFit
    <2>2. CASE Goto(r, "claimMark")
      BY <1>1, <2>1, <2>2, GotoIsWith, ClaimGoesOn DEF IInv, ClaimPCs
    <2>3. CASE Goto(r, "claimRun")
      BY <1>1, <2>1, <2>3, GotoIsWith, ClaimGoesOn DEF IInv, ClaimPCs
    <2> QED
      BY <1>2, <2>2, <2>3
  <1>3. CASE UNCHANGED locks /\ Return(r)
    <2>1. locks' \in [Types -> SystemTaskLock \cup {NoLock}]
      BY <1>3 DEF IInv, TypeOK
    <2> QED
      BY <1>1, <1>3, <2>1, ReturnInv
  <1> QED
    BY <1>2, <1>3 DEF ClaimSteal

\* A step of a runner that rewrites rows but gives none to another runner.
LEMMA RowControl ==
  ASSUME IInv, RowInv', OwnersKept, tasks' \in [TaskIds -> SystemTaskRow],
         NEW r \in Runners, NEW label \in RunnerPCs, NEW l \in Locals,
         With(r, label, l),
         UNCHANGED <<clock, locks, goroutines, faults>>,
         label # "claimReread",
         label \in ClaimPCs \cup {"claimRelease"} =>
            l.task \in TaskIds /\ tasks[l.task].status # "none" /\ tasks[l.task].lockedBy # r,
         label \in {"claimSteal", "claimMark"} => l.expired \in TaskIds
  PROVE  IInv'
  <1>1. TypeOK'
    BY DEF IInv, TypeOK, goroutines, With
  <1>2. HandlerInv' /\ DispatchInv' /\ ClaimInv'
    BY ControlStep DEF goroutines, With
  <1> QED
    BY <1>1, <1>2, Compose

LEMMA ClaimMarkInv ==
  ASSUME IInv, NEW r \in Runners, ClaimMark(r) PROVE IInv'
  <1>1. loc[r].expired \in TaskIds /\ Now(r) \in Nat /\ pc[r] \in ClaimPCs
    BY NowType DEF ClaimMark, IInv, ClaimInv, ClaimPCs
  <1>2. RowInv' /\ OwnersKept /\ tasks' \in [TaskIds -> SystemTaskRow]
    BY <1>1, RowMarked DEF ClaimMark
  <1>3. loc[r].task \in TaskIds /\ tasks[loc[r].task].status # "none"
        /\ tasks[loc[r].task].lockedBy # r
    BY <1>1 DEF IInv, ClaimInv
  <1>4. With(r, "claimRun", loc[r]) /\ loc[r] \in Locals
        /\ UNCHANGED <<clock, locks, goroutines, faults>>
    BY GotoIsWith DEF ClaimMark, IInv
  <1> QED
    BY <1>2, <1>3, <1>4, RowControl DEF RunnerPCs, ClaimPCs

\* The compare-and-set gives a pending row to its claimer.
LEMMA ClaimRunInv ==
  ASSUME IInv, NEW r \in Runners, ClaimRun(r) PROVE IInv'
  <1> DEFINE k == loc[r].task
  <1>0. k \in TaskIds /\ tasks[k].lockedBy # r /\ loc[r].now \in Nat /\ pc[r] = "claimRun"
    BY LocalsFit DEF ClaimRun, IInv, ClaimInv, ClaimPCs
  <1>1. CASE tasks[k].status = "pending"
    <2> DEFINE row == [tasks[k] EXCEPT !.status = "running", !.lockedBy = r,
                                       !.updatedAt = loc[r].now]
    <2>1. /\ tasks' = [tasks EXCEPT ![k] = row]
          /\ pc' = [pc EXCEPT ![r] = "claimReread"]
          /\ UNCHANGED <<clock, locks, loc, goroutines, faults>>
      BY <1>1 DEF ClaimRun, Goto
    <2> HIDE DEF k
    <2>2. row \in SystemTaskRow
      BY <1>0 DEF IInv, TypeOK, SystemTaskRow, Statuses
    <2>3. /\ tasks'[k] = row
          /\ \A j \in TaskIds \ {k} : tasks'[j] = tasks[j]
          /\ row.status = "running" /\ row.lockedBy = r
          /\ row.type = tasks[k].type /\ row.activeKey = tasks[k].activeKey
      BY <1>0, <2>1 DEF IInv, TypeOK, SystemTaskRow
    <2>4. TypeOK'
      BY <1>0, <2>1, <2>2 DEF IInv, TypeOK, goroutines, RunnerPCs
    <2> HIDE DEF row
    <2>5. KeyInv' /\ OneActivePerType'
      BY <1>0, <1>1, <2>3 DEF IInv, KeyInv, OneActivePerType, Active
    <2>6. UnclaimedInv'
      BY <1>0, <2>3 DEF IInv, UnclaimedInv
    <2>7. tasks[k].lockedBy = NoRunner /\ \A q \in Runners : handler[q][k] = "none"
      BY <1>0, <1>1, ConstantsAssumption DEF IInv, UnclaimedInv, HandlerInv
    <2>8. HandlerInv'
      BY <1>0, <2>1, <2>3, <2>7 DEF IInv, HandlerInv, goroutines
    <2>9. DispatchInv'
      <3> SUFFICES ASSUME NEW q \in Runners, pc'[q] = "claimReread"
                   PROVE  /\ loc[q].task \in TaskIds
                          /\ tasks'[loc[q].task].lockedBy = q
                          /\ handler[q][loc[q].task] = "none"
        BY <2>1 DEF DispatchInv, goroutines
      <3>1. CASE q = r
        BY <1>0, <2>3, <2>7, <3>1 DEF k
      <3>2. CASE q # r
        <4>1. pc[q] = "claimReread"
          BY <2>1, <3>2 DEF IInv, TypeOK
        <4>2. loc[q].task # k
          BY <4>1, <2>7, ConstantsAssumption DEF IInv, DispatchInv
        <4> QED
          BY <2>3, <4>1, <4>2 DEF IInv, DispatchInv
      <3> QED
        BY <3>1, <3>2
    <2>10. ClaimInv'
      <3> SUFFICES ASSUME NEW q \in Runners
                   PROVE  /\ pc'[q] \in ClaimPCs \cup {"claimRelease"} =>
                                /\ loc[q].task \in TaskIds
                                /\ tasks'[loc[q].task].status # "none"
                                /\ tasks'[loc[q].task].lockedBy # q
                          /\ pc'[q] \in {"claimSteal", "claimMark"} => loc[q].expired \in TaskIds
        BY <2>1 DEF ClaimInv
      <3>1. CASE q = r
        BY <2>1, <3>1 DEF IInv, TypeOK, ClaimPCs
      <3>2. CASE q # r
        BY <1>0, <2>1, <2>3, <3>2 DEF IInv, TypeOK, ClaimInv
      <3> QED
        BY <3>1, <3>2
    <2> QED
      BY <2>4, <2>5, <2>6, <2>8, <2>9, <2>10 DEF IInv
  <1>2. CASE tasks[k].status # "pending"
    <2>1. /\ Goto(r, "claimRelease") /\ UNCHANGED <<clock, tasks, goroutines>>
          /\ faults' = faults /\ locks' = locks
      BY <1>2 DEF ClaimRun
    <2>2. faults' \in Nat /\ locks' \in [Types -> SystemTaskLock \cup {NoLock}]
      BY <2>1 DEF IInv, TypeOK
    <2> QED
      BY <1>0, <2>1, <2>2, GotoIsWith, ClaimGoesOn DEF IInv, ClaimPCs
  <1> QED
    BY <1>1, <1>2

LEMMA ReleasedLocks ==
  ASSUME IInv, NEW k, NEW r, ReleaseSystemTaskLock(k, r)
  PROVE  locks' \in [Types -> SystemTaskLock \cup {NoLock}]
  BY DEF IInv, TypeOK, ReleaseSystemTaskLock

LEMMA ClaimReleaseInv ==
  ASSUME IInv, NEW r \in Runners, ClaimRelease(r) PROVE IInv'
  <1>1. /\ Return(r) /\ UNCHANGED <<clock, tasks, goroutines>>
        /\ faults' \in Nat /\ locks' \in [Types -> SystemTaskLock \cup {NoLock}]
    BY ReleasedLocks DEF ClaimRelease, IInv, TypeOK
  <1> QED
    BY <1>1, ReturnInv

\* The handler starts on the runner that owns the row.
LEMMA DispatchStepInv ==
  ASSUME IInv, NEW r \in Runners, Dispatch(r) PROVE IInv'
  <1> DEFINE k == loc[r].task
  <1>0. /\ k \in TaskIds /\ tasks[k].lockedBy = r /\ pc[r] = "claimReread" /\ Now(r) \in Nat
        /\ UNCHANGED <<clock, tasks, locks, faults>>
        /\ pc' = [pc EXCEPT ![r] = "idle"]
        /\ loc' = [loc EXCEPT ![r] = NoLocals]
        /\ handler' = [handler EXCEPT ![r][k] = "running"]
        /\ heartbeat' = [heartbeat EXCEPT ![r][k] = "beating"]
        /\ since' = [since EXCEPT ![k] = Now(r)]
    BY NowType DEF Dispatch, Return, tables, IInv, DispatchInv
  <1> HIDE DEF k
  <1>1. TypeOK'
    BY <1>0, NoLocalsType DEF IInv, TypeOK, RunnerPCs, HandlerPCs
  <1>2. RowInv'
    BY <1>0, RowsUnchanged
  <1>3. HandlerInv'
    BY <1>0 DEF IInv, TypeOK, HandlerInv
  <1>4. DispatchInv'
    <2> SUFFICES ASSUME NEW q \in Runners, pc'[q] = "claimReread"
                 PROVE  /\ loc'[q].task \in TaskIds
                        /\ tasks[loc'[q].task].lockedBy = q
                        /\ handler'[q][loc'[q].task] = "none"
      BY <1>0 DEF DispatchInv
    <2>1. q # r /\ pc[q] = "claimReread" /\ loc'[q] = loc[q] /\ handler'[q] = handler[q]
      BY <1>0 DEF IInv, TypeOK
    <2> QED
      BY <2>1 DEF IInv, DispatchInv
  <1>5. ClaimInv'
    <2> SUFFICES ASSUME NEW q \in Runners
                 PROVE  /\ pc'[q] \in ClaimPCs \cup {"claimRelease"} =>
                              /\ loc'[q].task \in TaskIds
                              /\ tasks[loc'[q].task].status # "none"
                              /\ tasks[loc'[q].task].lockedBy # q
                        /\ pc'[q] \in {"claimSteal", "claimMark"} => loc'[q].expired \in TaskIds
      BY <1>0 DEF ClaimInv
    <2>1. CASE q = r
      BY <1>0, <2>1 DEF IInv, TypeOK, ClaimPCs
    <2>2. CASE q # r
      BY <1>0, <2>2 DEF IInv, TypeOK, ClaimInv
    <2> QED
      BY <2>1, <2>2
  <1> QED
    BY <1>1, <1>2, <1>3, <1>4, <1>5, Compose

LEMMA StaleLocksType ==
  ASSUME IInv, NEW n PROVE StaleLocks(n) \in SUBSET StaleLock
  BY DEF IInv, TypeOK, StaleLocks, StaleLock, SystemTaskLock

LEMMA ExpireReadInv ==
  ASSUME IInv, NEW r \in Runners, ExpireRead(r) PROVE IInv'
  <1> DEFINE l == [NoLocals EXCEPT !.now = Now(r), !.stale = StaleLocks(Now(r))]
  <1>1. /\ UNCHANGED <<clock, tasks, goroutines>> /\ faults' \in Nat
        /\ locks' \in [Types -> SystemTaskLock \cup {NoLock}]
    BY DEF ExpireRead, tables, IInv, TypeOK
  <1>2. CASE UNCHANGED <<pc, loc>>
    <2>1. RowInv' /\ OwnersKept
      BY <1>1, RowsUnchanged
    <2>2. HandlerInv' /\ DispatchInv' /\ ClaimInv'
      BY <1>1, <1>2, <2>1, ControlUnchanged DEF goroutines
    <2>3. TypeOK'
      BY <1>1, <1>2 DEF IInv, TypeOK, goroutines
    <2> QED
      BY <2>1, <2>2, <2>3, Compose
  <1>3. CASE With(r, "expire", l)
    <2>1. l \in Locals
      BY NoLocalsType, NowType, StaleLocksType DEF IInv, NoLocals, Locals
    <2> HIDE DEF l
    <2> QED
      BY <1>1, <1>3, <2>1, ControlOnly DEF With, RunnerPCs, ClaimPCs
  <1> QED
    BY <1>2, <1>3 DEF ExpireRead

LEMMA ExpireMarkInv ==
  ASSUME IInv, NEW r \in Runners, NEW s, ExpireMark(r, s) PROVE IInv'
  <1> DEFINE l == [loc[r] EXCEPT !.task = s.task]
  <1>1. s.task \in TaskIds /\ Now(r) \in Nat
    BY NowType, LocalsFit DEF ExpireMark, IInv, Locals, StaleLock
  <1>2. RowInv' /\ OwnersKept /\ tasks' \in [TaskIds -> SystemTaskRow]
    BY <1>1, RowMarked DEF ExpireMark
  <1>3. l \in Locals
    BY <1>1, LocalsFit DEF Locals
  <1>4. With(r, "expireDelete", l) /\ UNCHANGED <<clock, locks, goroutines, faults>>
    BY DEF ExpireMark
  <1> HIDE DEF l
  <1> QED
    BY <1>2, <1>3, <1>4, RowControl DEF RunnerPCs, ClaimPCs

LEMMA ExpireDeleteInv ==
  ASSUME IInv, NEW r \in Runners, NEW s, ExpireDelete(r, s) PROVE IInv'
  <1> DEFINE l == [loc[r] EXCEPT !.stale = @ \ {s}]
  <1>1. s \in StaleLock
    BY LocalsFit DEF ExpireDelete, Locals
  <1>2. /\ UNCHANGED <<clock, tasks, goroutines>> /\ faults' \in Nat
        /\ locks' \in [Types -> SystemTaskLock \cup {NoLock}]
    BY <1>1 DEF ExpireDelete, IInv, TypeOK, StaleLock
  <1>3. CASE Return(r)
    BY <1>2, <1>3, ReturnInv
  <1>4. CASE With(r, "expire", l)
    <2>1. l \in Locals
      BY LocalsFit DEF Locals
    <2> HIDE DEF l
    <2> QED
      BY <1>2, <1>4, <2>1, ControlOnly DEF With, RunnerPCs, ClaimPCs
  <1> QED
    BY <1>3, <1>4 DEF ExpireDelete

LEMMA SchedulerReadInv ==
  ASSUME IInv, NEW r \in Runners, SchedulerRead(r) PROVE IInv'
  <1> DEFINE l == [NoLocals EXCEPT !.due = {t \in Scheduled : Due(t, Now(r))}]
  <1>1. /\ UNCHANGED <<clock, tasks, goroutines>> /\ faults' \in Nat
        /\ locks' \in [Types -> SystemTaskLock \cup {NoLock}]
        /\ With(r, "schedule", l)
    BY DEF SchedulerRead, tables, IInv, TypeOK
  <1>2. l \in Locals
    BY NoLocalsType, ConstantsAssumption DEF NoLocals, Locals
  <1> HIDE DEF l
  <1> QED
    BY <1>1, <1>2, ControlOnly DEF With, RunnerPCs, ClaimPCs

\* The scheduler stays in its loop or ends its pass.
LEMMA AfterDueIsWith ==
  ASSUME IInv, NEW r \in Runners, NEW t, AfterDue(r, t)
  PROVE  \E label \in {"idle", "schedule"}, l \in Locals : With(r, label, l)
  <1>1. CASE Return(r)
    BY <1>1, NoLocalsType DEF Return, With
  <1>2. CASE With(r, "schedule", [loc[r] EXCEPT !.due = @ \ {t}])
    <2>1. [loc[r] EXCEPT !.due = @ \ {t}] \in Locals
      BY LocalsFit DEF Locals
    <2> QED
      BY <1>2, <2>1
  <1> QED
    BY <1>1, <1>2 DEF AfterDue

LEMMA SchedulerCreateInv ==
  ASSUME IInv, NEW r \in Runners, NEW t \in Types, SchedulerCreate(r, t) PROVE IInv'
  <1>1. PICK label \in {"idle", "schedule"}, l \in Locals : With(r, label, l)
    BY AfterDueIsWith DEF SchedulerCreate
  <1>2. /\ UNCHANGED <<clock, locks, goroutines, faults>> /\ Now(r) \in Nat
        /\ pc' = [pc EXCEPT ![r] = label] /\ loc' = [loc EXCEPT ![r] = l]
        /\ label \in RunnerPCs
    BY <1>1, NowType DEF SchedulerCreate, IInv, With, RunnerPCs
  <1>3. CASE UNCHANGED tasks
    <2>1. faults' \in Nat /\ locks' \in [Types -> SystemTaskLock \cup {NoLock}]
      BY <1>2 DEF IInv, TypeOK
    <2> QED
      BY <1>2, <1>3, <2>1, ControlOnly DEF RunnerPCs, ClaimPCs
  <1>4. CASE CreateSystemTask(t, Now(r))
    <2>1. /\ RowInv'
          /\ tasks' \in [TaskIds -> SystemTaskRow]
          /\ \E k \in TaskIds : /\ tasks[k].lockedBy = NoRunner
                                /\ tasks[k].status = "none"
                                /\ \A j \in TaskIds \ {k} : tasks'[j] = tasks[j]
      BY <1>2, <1>4, RowCreated
    <2>2. TypeOK'
      BY <1>2, <2>1 DEF IInv, TypeOK, goroutines
    <2>3. HandlerInv'
      BY <1>2, <2>1, ConstantsAssumption DEF IInv, HandlerInv, goroutines
    <2>4. \A q \in Runners : pc'[q] \notin {"idle", "schedule"} =>
              pc'[q] = pc[q] /\ loc'[q] = loc[q]
      BY <1>2 DEF IInv, TypeOK
    <2>5. DispatchInv'
      BY <1>2, <2>1, <2>4, ConstantsAssumption DEF IInv, DispatchInv, goroutines
    <2>6. ClaimInv'
      BY <2>1, <2>4 DEF IInv, ClaimInv, ClaimPCs
    <2> QED
      BY <2>1, <2>2, <2>3, <2>5, <2>6, Compose
  <1> QED
    BY <1>3, <1>4 DEF SchedulerCreate

-----------------------------------------------------------------------------
LEMMA StampsType ==
  ASSUME IInv, NEW r \in Runners, NEW k \in TaskIds PROVE Stamps(r, k) \subseteq Nat
  BY NowType DEF IInv, TypeOK, Stamps

LEMMA RenewInv ==
  ASSUME IInv, NEW r \in Runners, NEW k \in TaskIds, RenewSystemTaskLock(r, k) PROVE IInv'
  <1>1. UNCHANGED <<clock, tasks, pc, loc, handler, since, faults>>
    BY DEF RenewSystemTaskLock
  <1>2. RowInv' /\ OwnersKept
    BY <1>1, RowsUnchanged
  <1>3. HandlerInv' /\ DispatchInv' /\ ClaimInv'
    BY <1>1, <1>2, ControlUnchanged
  <1>4. PICK n \in Stamps(r, k) :
          \/ /\ locks' = [t \in Types |-> IF t \in RenewableLocks(k, r, n)
                                          THEN [locks[t] EXCEPT !.until = n + LockTTL]
                                          ELSE locks[t]]
             /\ UNCHANGED heartbeat
          \/ /\ heartbeat' = [heartbeat EXCEPT ![r][k] = "cancelled"]
             /\ UNCHANGED locks
    BY DEF RenewSystemTaskLock
  <1>5. n + LockTTL \in Nat
    BY <1>4, StampsType, ConstantsAssumption
  <1>6. locks' \in [Types -> SystemTaskLock \cup {NoLock}]
    <2>1. \A t \in RenewableLocks(k, r, n) : [locks[t] EXCEPT !.until = n + LockTTL] \in SystemTaskLock
      BY <1>5 DEF IInv, TypeOK, RenewableLocks, LockIs, SystemTaskLock
    <2>2. locks \in [Types -> SystemTaskLock \cup {NoLock}]
      BY DEF IInv, TypeOK
    <2> QED
      BY <1>4, <2>1, <2>2
  <1>7. heartbeat' \in [Runners -> [TaskIds -> {"off", "beating", "cancelled"}]]
    <2>1. heartbeat \in [Runners -> [TaskIds -> {"off", "beating", "cancelled"}]]
      BY DEF IInv, TypeOK
    <2>2. CASE UNCHANGED heartbeat
      BY <2>1, <2>2
    <2>3. CASE heartbeat' = [heartbeat EXCEPT ![r][k] = "cancelled"]
      BY <2>1, <2>3
    <2> QED
      BY <1>4, <2>2, <2>3
  <1>8. TypeOK'
    BY <1>1, <1>6, <1>7 DEF IInv, TypeOK
  <1> QED
    BY <1>2, <1>3, <1>8, Compose

\* A handler that goes on or returns, with its row rewritten in place.
LEMMA HandlerControl ==
  ASSUME IInv, RowInv', OwnersKept, tasks' \in [TaskIds -> SystemTaskRow],
         NEW r \in Runners, NEW k \in TaskIds, handler[r][k] # "none",
         HandlerReturns(r, k) \/ HandlerGoesOn(r, k, "releasing"),
         UNCHANGED <<clock, pc, loc>>, faults' \in Nat,
         locks' \in [Types -> SystemTaskLock \cup {NoLock}]
  PROVE  IInv'
  <1>1. PICK label \in {"done", "releasing"} : handler' = [handler EXCEPT ![r][k] = label]
    BY DEF HandlerReturns, HandlerGoesOn
  <1>2. HandlerInv' /\ DispatchInv' /\ ClaimInv'
    BY <1>1, HandlerMoves DEF HandlerPCs
  <1>3. handler' \in [Runners -> [TaskIds -> HandlerPCs]]
    BY <1>1 DEF IInv, TypeOK, HandlerPCs
  <1>4. /\ heartbeat' \in [Runners -> [TaskIds -> {"off", "beating", "cancelled"}]]
        /\ since' \in [TaskIds -> Nat]
    <2>1. CASE HandlerReturns(r, k)
      BY <2>1 DEF IInv, TypeOK, HandlerReturns
    <2>2. CASE HandlerGoesOn(r, k, "releasing")
      BY <2>2 DEF IInv, TypeOK, HandlerGoesOn
    <2> QED
      BY <2>1, <2>2
  <1>5. TypeOK'
    BY <1>3, <1>4 DEF IInv, TypeOK
  <1> QED
    BY <1>2, <1>5, Compose

LEMMA UpdateInv ==
  ASSUME IInv, NEW r \in Runners, NEW k \in TaskIds, UpdateSystemTaskState(r, k) PROVE IInv'
  <1>1. /\ UNCHANGED <<clock, locks, pc, loc, faults>> /\ handler[r][k] # "none"
        /\ faults' \in Nat /\ locks' \in [Types -> SystemTaskLock \cup {NoLock}]
    BY DEF UpdateSystemTaskState, IInv, TypeOK
  <1>2. PICK n \in Stamps(r, k) :
          \/ /\ tasks' = [tasks EXCEPT ![k] = [@ EXCEPT !.updatedAt = n]]
             /\ UNCHANGED goroutines
          \/ HandlerReturns(r, k) /\ UNCHANGED tasks
    BY DEF UpdateSystemTaskState
  <1>3. CASE tasks' = [tasks EXCEPT ![k] = [@ EXCEPT !.updatedAt = n]] /\ UNCHANGED goroutines
    <2>1. RowInv' /\ OwnersKept /\ tasks' \in [TaskIds -> SystemTaskRow]
      BY <1>3, StampsType, RowTouched
    <2>2. HandlerInv' /\ DispatchInv' /\ ClaimInv'
      BY <1>1, <1>3, <2>1, ControlUnchanged DEF goroutines
    <2>3. TypeOK'
      BY <1>1, <1>3, <2>1 DEF IInv, TypeOK, goroutines
    <2> QED
      BY <2>1, <2>2, <2>3, Compose
  <1>4. CASE HandlerReturns(r, k) /\ UNCHANGED tasks
    BY <1>1, <1>4, RowsUnchanged, HandlerControl
  <1> QED
    BY <1>2, <1>3, <1>4

LEMMA FinishInv ==
  ASSUME IInv, NEW r \in Runners, NEW k \in TaskIds, NEW st \in Terminal,
         FinishSystemTask(r, k, st)
  PROVE  IInv'
  <1>1. /\ UNCHANGED <<clock, locks, pc, loc, faults>> /\ handler[r][k] # "none"
        /\ faults' \in Nat /\ locks' \in [Types -> SystemTaskLock \cup {NoLock}]
    BY DEF FinishSystemTask, IInv, TypeOK
  <1>2. PICK n \in Stamps(r, k) :
          \/ /\ OwnsRunningTask(k, r, n)
             /\ tasks' = [tasks EXCEPT ![k] = [@ EXCEPT !.status = st, !.activeKey = NoType,
                                                        !.updatedAt = n]]
             /\ HandlerGoesOn(r, k, "releasing")
          \/ HandlerReturns(r, k) /\ UNCHANGED tasks
    BY DEF FinishSystemTask
  <1>3. RowInv' /\ OwnersKept /\ tasks' \in [TaskIds -> SystemTaskRow]
    BY <1>2, StampsType, RowEnded, RowsUnchanged DEF OwnsRunningTask
  <1> QED
    BY <1>1, <1>2, <1>3, HandlerControl

LEMMA FinishReleaseInv ==
  ASSUME IInv, NEW r \in Runners, NEW k \in TaskIds, FinishRelease(r, k) PROVE IInv'
  <1>1. /\ UNCHANGED <<clock, tasks, pc, loc, faults>> /\ handler[r][k] # "none"
        /\ faults' \in Nat /\ locks' \in [Types -> SystemTaskLock \cup {NoLock}]
        /\ HandlerReturns(r, k)
    BY ReleasedLocks DEF FinishRelease, IInv, TypeOK
  <1> QED
    BY <1>1, RowsUnchanged, HandlerControl

-----------------------------------------------------------------------------
LEMMA StatementFailsInv ==
  ASSUME IInv, NEW r \in Runners, StatementFails(r) PROVE IInv'
  <1>1. /\ UNCHANGED <<clock, tasks, goroutines>> /\ faults' \in Nat
        /\ locks' \in [Types -> SystemTaskLock \cup {NoLock}]
    BY DEF StatementFails, Fault, tables, IInv, TypeOK
  <1>2. CASE Return(r)
    BY <1>1, <1>2, ReturnInv
  <1>3. CASE OnError[pc[r]] # "idle" /\ Goto(r, OnError[pc[r]])
    <2>1. /\ pc[r] \in ClaimPCs
          /\ OnError[pc[r]] \in {"claimExisting", "claimRelease"}
      BY <1>3 DEF IInv, TypeOK, OnError, ClaimPCs
    <2> QED
      BY <1>1, <1>3, <2>1, GotoIsWith, ClaimGoesOn DEF IInv, ClaimPCs
  <1> QED
    BY <1>2, <1>3 DEF StatementFails

LEMMA ScheduleFailsInv ==
  ASSUME IInv, NEW r \in Runners, NEW t \in Types, ScheduleFails(r, t) PROVE IInv'
  <1>1. PICK label \in {"idle", "schedule"}, l \in Locals : With(r, label, l)
    BY AfterDueIsWith DEF ScheduleFails
  <1>2. /\ UNCHANGED <<clock, tasks, goroutines>> /\ faults' \in Nat
        /\ locks' \in [Types -> SystemTaskLock \cup {NoLock}]
    BY DEF ScheduleFails, Fault, tables, IInv, TypeOK
  <1> QED
    BY <1>1, <1>2, ControlOnly DEF With, RunnerPCs, ClaimPCs

LEMMA HandlerFailsInv ==
  ASSUME IInv, NEW r \in Runners, NEW k \in TaskIds, HandlerFails(r, k) PROVE IInv'
  <1>1. /\ UNCHANGED <<clock, tasks, pc, loc>> /\ handler[r][k] # "none"
        /\ faults' \in Nat /\ locks' \in [Types -> SystemTaskLock \cup {NoLock}]
        /\ HandlerReturns(r, k)
    BY DEF HandlerFails, Fault, tables, IInv, TypeOK
  <1> QED
    BY <1>1, RowsUnchanged, HandlerControl

LEMMA RenewFailsInv ==
  ASSUME IInv, NEW r \in Runners, NEW k \in TaskIds, RenewFails(r, k) PROVE IInv'
  <1>1. /\ UNCHANGED <<clock, tasks, locks, pc, loc, handler, since>> /\ faults' \in Nat
        /\ heartbeat' = [heartbeat EXCEPT ![r][k] = "cancelled"]
    BY DEF RenewFails, Fault, tables, IInv, TypeOK
  <1>2. RowInv' /\ OwnersKept
    BY <1>1, RowsUnchanged
  <1>3. HandlerInv' /\ DispatchInv' /\ ClaimInv'
    BY <1>1, <1>2, ControlUnchanged
  <1>4. TypeOK'
    BY <1>1 DEF IInv, TypeOK
  <1> QED
    BY <1>2, <1>3, <1>4, Compose

LEMMA CrashInv ==
  ASSUME IInv, NEW r \in Runners, Crash(r) PROVE IInv'
  <1>1. /\ UNCHANGED <<clock, tasks, goroutines>> /\ faults' \in Nat
        /\ locks' \in [Types -> SystemTaskLock \cup {NoLock}]
        /\ With(r, "dead", NoLocals)
    BY DEF Crash, tables, IInv, TypeOK
  <1> QED
    BY <1>1, NoLocalsType, ControlOnly DEF With, RunnerPCs, ClaimPCs

\* Steps that leave the rows, the control and the handlers alone.
LEMMA QuietStep ==
  ASSUME IInv, UNCHANGED <<tasks, locks, pc, loc, goroutines, faults>>, clock' \in Nat PROVE IInv'
  <1>1. RowInv' /\ OwnersKept
    BY RowsUnchanged
  <1>2. HandlerInv' /\ DispatchInv' /\ ClaimInv'
    BY <1>1, ControlUnchanged DEF goroutines
  <1>3. TypeOK'
    BY DEF IInv, TypeOK, goroutines
  <1> QED
    BY <1>1, <1>2, <1>3, Compose

LEMMA StepInv == IInv /\ [Next]_vars => IInv'
  <1> SUFFICES ASSUME IInv, [Next]_vars PROVE IInv'
    OBVIOUS
  <1>1. CASE Tick
    BY <1>1, QuietStep DEF Tick, tables, IInv, TypeOK
  <1>2. CASE \E t \in Types : EnqueueSystemTask(t)
    BY <1>2, EnqueueInv
  <1>3. ASSUME NEW r \in Runners, RunnerStep(r) PROVE IInv'
    BY <1>3, ExpireReadInv, ExpireMarkInv, ExpireDeleteInv, SchedulerReadInv, SchedulerCreateInv,
       ClaimStartInv, ClaimReadInv, ClaimInsertInv, ClaimExistingInv, ClaimStealInv, ClaimMarkInv,
       ClaimRunInv, ClaimReleaseInv, DispatchStepInv
       DEF RunnerStep
  <1>4. ASSUME NEW r \in Runners, NEW k \in TaskIds, HandlerStep(r, k) PROVE IInv'
    BY <1>4, RenewInv, UpdateInv, FinishInv, FinishReleaseInv DEF HandlerStep
  <1>5. CASE Failure
    BY <1>5, StatementFailsInv, ScheduleFailsInv, HandlerFailsInv, RenewFailsInv, CrashInv
       DEF Failure
  <1>6. CASE UNCHANGED vars
    BY <1>6, QuietStep DEF vars, goroutines, IInv, TypeOK
  <1> QED
    BY <1>1, <1>2, <1>3, <1>4, <1>5, <1>6 DEF Next

-----------------------------------------------------------------------------
\* The strengthened invariant holds in every reachable state.
LEMMA Invariance == Spec => []IInv
  BY InitInv, StepInv, PTL DEF Spec

\* Every variable keeps its type: rows, locks and goroutines are well formed.
THEOREM TypeCorrect == Spec => []TypeOK
  <1>1. IInv => TypeOK
    BY DEF IInv
  <1> QED
    BY <1>1, Invariance, PTL

\* The unique index on active_key admits at most one active row per type,
\* because every statement that ends a row clears its key.
THEOREM OneActivePerTypeHolds == Spec => []OneActivePerType
  <1>1. IInv => OneActivePerType
    BY DEF IInv
  <1> QED
    BY <1>1, Invariance, PTL

-----------------------------------------------------------------------------
(* Action properties.                                                      *)

\* No statement touches a terminal row.
LEMMA StepOnRows == IInv /\ [Next]_vars => \A k \in TaskIds :
    tasks[k].status \in Terminal => tasks'[k] = tasks[k]
  <1> SUFFICES ASSUME IInv, [Next]_vars, NEW k \in TaskIds, tasks[k].status \in Terminal
               PROVE  tasks'[k] = tasks[k]
    OBVIOUS
  <1>0. /\ tasks[k].status \notin {"none", "pending", "running"}
        /\ tasks \in [TaskIds -> SystemTaskRow]
    BY DEF Terminal, IInv, TypeOK
  <1>1. ASSUME NEW t, NEW n, CreateSystemTask(t, n) PROVE tasks'[k] = tasks[k]
    BY <1>0, <1>1 DEF CreateSystemTask
  <1>2. ASSUME NEW j, NEW n, MarkSystemTaskLeaseExpired(j, n) PROVE tasks'[k] = tasks[k]
    BY <1>0, <1>2 DEF MarkSystemTaskLeaseExpired
  <1>3. CASE Tick \/ UNCHANGED vars
    BY <1>3 DEF Tick, tables, vars
  <1>4. CASE \E t \in Types : EnqueueSystemTask(t)
    BY <1>1, <1>4 DEF EnqueueSystemTask
  <1>5. ASSUME NEW r \in Runners, RunnerStep(r) PROVE tasks'[k] = tasks[k]
    <2>1. CASE \/ ExpireRead(r) \/ SchedulerRead(r) \/ \E j \in TaskIds : ClaimStart(r, j)
               \/ ClaimRead(r) \/ ClaimInsert(r) \/ ClaimExisting(r) \/ ClaimSteal(r)
               \/ ClaimRelease(r) \/ Dispatch(r) \/ \E s \in loc[r].stale : ExpireDelete(r, s)
      BY <2>1 DEF ExpireRead, SchedulerRead, ClaimStart, ClaimRead, ClaimInsert, ClaimExisting,
         ClaimSteal, ClaimRelease, Dispatch, ExpireDelete, tables
    <2>2. CASE ClaimMark(r) \/ \E s \in loc[r].stale : ExpireMark(r, s)
      BY <1>2, <2>2 DEF ClaimMark, ExpireMark
    <2>3. CASE \E t \in Types : SchedulerCreate(r, t)
      BY <1>1, <2>3 DEF SchedulerCreate
    <2>4. CASE ClaimRun(r)
      BY <1>0, <2>4 DEF ClaimRun
    <2> QED
      BY <1>5, <2>1, <2>2, <2>3, <2>4 DEF RunnerStep
  <1>6. ASSUME NEW r \in Runners, NEW j \in TaskIds, HandlerStep(r, j) PROVE tasks'[k] = tasks[k]
    BY <1>0, <1>6 DEF HandlerStep, RenewSystemTaskLock, UpdateSystemTaskState, FinishSystemTask,
       FinishRelease, OwnsRunningTask
  <1>7. CASE Failure
    BY <1>7 DEF Failure, StatementFails, ScheduleFails, HandlerFails, RenewFails, Crash, tables
  <1> QED
    BY <1>3, <1>4, <1>5, <1>6, <1>7 DEF Next

\* A finished task keeps its outcome, whatever late statements arrive.
THEOREM TerminalIsFinalHolds == Spec => TerminalIsFinal
  <1>1. IInv /\ [Next]_vars => [\A k \in TaskIds :
            tasks[k].status \in Terminal => tasks'[k] = tasks[k]]_vars
    BY StepOnRows
  <1> QED
    BY <1>1, Invariance, PTL DEF Spec, TerminalIsFinal

\* Only Dispatch starts a handler.
LEMMA StepOnHandlers == IInv /\ [Next]_vars => \A k \in TaskIds :
    (\E r \in Runners : handler[r][k] # "none")
    => \A r \in Runners : handler'[r][k] = "running" => handler[r][k] = "running"
  <1> SUFFICES ASSUME IInv, [Next]_vars, NEW k \in TaskIds,
                      NEW q \in Runners, handler[q][k] # "none",
                      NEW p \in Runners, handler'[p][k] = "running"
               PROVE  handler[p][k] = "running"
    OBVIOUS
  <1>0. handler \in [Runners -> [TaskIds -> HandlerPCs]]
    BY DEF IInv, TypeOK
  <1>1. CASE Tick \/ UNCHANGED vars \/ \E t \in Types : EnqueueSystemTask(t)
    BY <1>1 DEF Tick, vars, goroutines, EnqueueSystemTask
  <1>2. ASSUME NEW r \in Runners, RunnerStep(r) PROVE handler[p][k] = "running"
    <2>1. CASE Dispatch(r)
      <3>1. /\ loc[r].task \in TaskIds
            /\ tasks[loc[r].task].lockedBy = r
            /\ handler[r][loc[r].task] = "none"
            /\ handler' = [handler EXCEPT ![r][loc[r].task] = "running"]
        BY <2>1 DEF Dispatch, IInv, DispatchInv
      <3>2. loc[r].task # k
        BY <3>1 DEF IInv, HandlerInv
      <3> QED
        BY <1>0, <3>1, <3>2
    <2>2. CASE ~Dispatch(r)
      BY <1>2, <2>2 DEF RunnerStep, ExpireRead, ExpireMark, ExpireDelete, SchedulerRead,
         SchedulerCreate, ClaimStart, ClaimRead, ClaimInsert, ClaimExisting, ClaimSteal, ClaimMark,
         ClaimRun, ClaimRelease, goroutines
    <2> QED
      BY <2>1, <2>2
  <1>3. ASSUME NEW r \in Runners, NEW j \in TaskIds,
               HandlerReturns(r, j) \/ HandlerGoesOn(r, j, "releasing") \/ UNCHANGED handler
        PROVE  handler[p][k] = "running"
    BY <1>0, <1>3 DEF HandlerReturns, HandlerGoesOn
  <1>4. ASSUME NEW r \in Runners, NEW j \in TaskIds, HandlerStep(r, j)
        PROVE  handler[p][k] = "running"
    BY <1>3, <1>4 DEF HandlerStep, RenewSystemTaskLock, UpdateSystemTaskState, FinishSystemTask,
       FinishRelease, goroutines
  <1>5. CASE Failure
    BY <1>3, <1>5 DEF Failure, StatementFails, ScheduleFails, HandlerFails, RenewFails, Crash,
       goroutines
  <1> QED
    BY <1>1, <1>2, <1>4, <1>5 DEF Next

\* A task is executed at most once: a second dispatch would need the row to be
\* pending again, and locked_by and the handler say it was claimed before.
THEOREM ExecutedOnceHolds == Spec => ExecutedOnce
  <1>1. IInv /\ [Next]_vars => [\A k \in TaskIds :
            (\E r \in Runners : handler[r][k] # "none")
            => \A r \in Runners : handler'[r][k] = "running" => handler[r][k] = "running"]_vars
    BY StepOnHandlers
  <1> QED
    BY <1>1, Invariance, PTL DEF Spec, ExecutedOnce

\* A lock row changes hands only through a claim; a renewal keeps its owner.
LockMoves(t) ==
    \/ locks'[t] = locks[t]
    \/ locks'[t] = NoLock
    \/ /\ locks[t] # NoLock
       /\ locks'[t].task = locks[t].task
       /\ locks'[t].by = locks[t].by
    \/ \E r \in Runners : /\ pc[r] \in ClaimPCs
                          /\ locks'[t].task = loc[r].task
                          /\ locks'[t].by = r

LEMMA StepOnLocks == IInv /\ [Next]_vars => \A t \in Types : LockMoves(t)
  <1> SUFFICES ASSUME IInv, [Next]_vars, NEW t \in Types PROVE LockMoves(t)
    OBVIOUS
  <1>0. locks \in [Types -> SystemTaskLock \cup {NoLock}]
    BY DEF IInv, TypeOK
  <1>1. CASE UNCHANGED locks
    BY <1>1 DEF LockMoves
  <1>2. ASSUME NEW k, NEW r, ReleaseSystemTaskLock(k, r) PROVE LockMoves(t)
    BY <1>2 DEF ReleaseSystemTaskLock, LockMoves
  <1>3. ASSUME NEW r \in Runners, NEW u, pc[r] \in ClaimPCs,
               locks' = [locks EXCEPT ![u] = ClaimedLock(r)]
        PROVE  LockMoves(t)
    <2>1. CASE t = u
      BY <1>0, <1>3, <2>1 DEF LockMoves, ClaimedLock
    <2>2. CASE t # u
      BY <1>0, <1>3, <2>2 DEF LockMoves
    <2> QED
      BY <2>1, <2>2
  <1>4. ASSUME NEW r \in Runners, RunnerStep(r) PROVE LockMoves(t)
    <2>1. CASE ClaimInsert(r)
      BY <1>1, <1>3, <2>1 DEF ClaimInsert, ClaimPCs
    <2>2. CASE ClaimSteal(r)
      BY <1>1, <1>3, <2>2 DEF ClaimSteal, ClaimPCs
    <2>3. CASE ClaimRelease(r)
      BY <1>2, <2>3 DEF ClaimRelease
    <2>4. CASE \E s \in loc[r].stale : ExpireDelete(r, s)
      BY <1>0, <2>4 DEF ExpireDelete, LockMoves
    <2>5. CASE ~(ClaimInsert(r) \/ ClaimSteal(r) \/ ClaimRelease(r)
                 \/ \E s \in loc[r].stale : ExpireDelete(r, s))
      BY <1>1, <1>4, <2>5 DEF RunnerStep, ExpireRead, ExpireMark, SchedulerRead, SchedulerCreate,
         ClaimStart, ClaimRead, ClaimExisting, ClaimMark, ClaimRun, Dispatch, tables
    <2> QED
      BY <2>1, <2>2, <2>3, <2>4, <2>5
  <1>5. ASSUME NEW r \in Runners, NEW k \in TaskIds, HandlerStep(r, k) PROVE LockMoves(t)
    <2>1. CASE RenewSystemTaskLock(r, k)
      <3>1. CASE UNCHANGED locks
        BY <1>1, <3>1
      <3>2. ASSUME NEW n, locks' = [u \in Types |-> IF u \in RenewableLocks(k, r, n)
                                                    THEN [locks[u] EXCEPT !.until = n + LockTTL]
                                                    ELSE locks[u]]
            PROVE  LockMoves(t)
        <4>1. CASE t \in RenewableLocks(k, r, n)
          <5>1. locks[t] \in SystemTaskLock /\ locks[t] # NoLock
            BY <1>0, <4>1 DEF RenewableLocks, LockIs
          <5> QED
            BY <3>2, <4>1, <5>1 DEF LockMoves, SystemTaskLock
        <4>2. CASE t \notin RenewableLocks(k, r, n)
          BY <3>2, <4>2 DEF LockMoves
        <4> QED
          BY <4>1, <4>2
      <3> QED
        BY <2>1, <3>1, <3>2 DEF RenewSystemTaskLock
    <2>2. CASE FinishRelease(r, k)
      BY <1>2, <2>2 DEF FinishRelease
    <2>3. CASE UpdateSystemTaskState(r, k) \/ \E st \in Terminal : FinishSystemTask(r, k, st)
      BY <1>1, <2>3 DEF UpdateSystemTaskState, FinishSystemTask
    <2> QED
      BY <1>5, <2>1, <2>2, <2>3 DEF HandlerStep
  <1>6. CASE Failure
    BY <1>1, <1>6 DEF Failure, StatementFails, ScheduleFails, HandlerFails, RenewFails, Crash,
       tables
  <1>7. CASE Tick \/ UNCHANGED vars \/ \E u \in Types : EnqueueSystemTask(u)
    BY <1>1, <1>7 DEF Tick, vars, EnqueueSystemTask, tables
  <1> QED
    BY <1>4, <1>5, <1>6, <1>7 DEF Next

\* Without its lease a running row keeps its runner and can only fail.
LEMMA StepOnUnleasedRow ==
  ASSUME IInv, [Next]_vars, NEW k \in TaskIds, tasks[k].status = "running", ~Leased(k)
  PROVE  tasks'[k].lockedBy = tasks[k].lockedBy /\ tasks'[k].status \in {"running", "failed"}
  <1> DEFINE Kept == /\ tasks'[k].lockedBy = tasks[k].lockedBy
                     /\ tasks'[k].status \in {"running", "failed"}
  <1>0. tasks \in [TaskIds -> SystemTaskRow] /\ tasks[k] \in SystemTaskRow
    BY DEF IInv, TypeOK
  <1>1. CASE UNCHANGED tasks
    BY <1>1
  <1>2. ASSUME NEW t, NEW n, CreateSystemTask(t, n) PROVE Kept
    BY <1>0, <1>2 DEF CreateSystemTask
  <1>3. ASSUME NEW j, NEW n, MarkSystemTaskLeaseExpired(j, n) PROVE Kept
    BY <1>0, <1>3 DEF MarkSystemTaskLeaseExpired, SystemTaskRow
  <1>4. ASSUME NEW r \in Runners, RunnerStep(r) PROVE Kept
    <2>1. CASE ClaimMark(r) \/ \E s \in loc[r].stale : ExpireMark(r, s)
      BY <1>3, <2>1 DEF ClaimMark, ExpireMark
    <2>2. CASE \E t \in Types : SchedulerCreate(r, t)
      BY <1>1, <1>2, <2>2 DEF SchedulerCreate
    <2>3. CASE ClaimRun(r)
      BY <1>0, <2>3 DEF ClaimRun
    <2>4. CASE ~(ClaimMark(r) \/ ClaimRun(r) \/ (\E s \in loc[r].stale : ExpireMark(r, s))
                 \/ \E t \in Types : SchedulerCreate(r, t))
      BY <1>1, <1>4, <2>4 DEF RunnerStep, ExpireRead, ExpireDelete, SchedulerRead, ClaimStart,
         ClaimRead, ClaimInsert, ClaimExisting, ClaimSteal, ClaimRelease, Dispatch, tables
    <2> QED
      BY <2>1, <2>2, <2>3, <2>4
  <1>5. ASSUME NEW r \in Runners, NEW j \in TaskIds, HandlerStep(r, j) PROVE Kept
    <2>1. CASE UpdateSystemTaskState(r, j)
      BY <1>0, <1>1, <2>1 DEF UpdateSystemTaskState, SystemTaskRow
    <2>2. CASE \E st \in Terminal : FinishSystemTask(r, j, st)
      <3>1. CASE UNCHANGED tasks
        BY <1>1, <3>1
      <3>2. ASSUME NEW n, OwnsRunningTask(j, r, n) PROVE j # k
        BY <3>2 DEF OwnsRunningTask, Leased
      <3>3. PICK st \in Terminal : FinishSystemTask(r, j, st)
        BY <2>2
      <3>4. CASE \E n \in Stamps(r, j) :
                    /\ OwnsRunningTask(j, r, n)
                    /\ tasks' = [tasks EXCEPT ![j] = [@ EXCEPT !.status = st,
                                    !.activeKey = NoType, !.updatedAt = n]]
        BY <1>0, <3>2, <3>4
      <3> QED
        BY <3>1, <3>3, <3>4 DEF FinishSystemTask
    <2>3. CASE RenewSystemTaskLock(r, j) \/ FinishRelease(r, j)
      BY <1>1, <2>3 DEF RenewSystemTaskLock, FinishRelease
    <2> QED
      BY <1>5, <2>1, <2>2, <2>3 DEF HandlerStep
  <1>6. CASE Failure \/ Tick \/ UNCHANGED vars
    BY <1>1, <1>6 DEF Failure, StatementFails, ScheduleFails, HandlerFails, RenewFails, Crash,
       Tick, vars, tables
  <1>7. CASE \E t \in Types : EnqueueSystemTask(t)
    BY <1>2, <1>7 DEF EnqueueSystemTask
  <1> QED
    BY <1>4, <1>5, <1>6, <1>7 DEF Next

LEMMA StepOnLeases == IInv /\ [Next]_vars => \A k \in TaskIds :
    tasks[k].status = "running" /\ ~Leased(k)
    => ~Leased(k)' /\ tasks'[k].status \in {"running", "failed"}
  <1> SUFFICES ASSUME IInv, [Next]_vars, NEW k \in TaskIds, tasks[k].status = "running", ~Leased(k)
               PROVE  ~Leased(k)' /\ tasks'[k].status \in {"running", "failed"}
    OBVIOUS
  <1>1. tasks'[k].lockedBy = tasks[k].lockedBy /\ tasks'[k].status \in {"running", "failed"}
    BY StepOnUnleasedRow
  <1>2. ASSUME NEW t \in Types, locks'[t] # NoLock, locks'[t].task = k,
               locks'[t].by = tasks[k].lockedBy
        PROVE  FALSE
    <2>1. LockMoves(t)
      BY StepOnLocks
    <2>2. ASSUME NEW r \in Runners, pc[r] \in ClaimPCs, loc[r].task = k PROVE tasks[k].lockedBy # r
      BY <2>2 DEF IInv, ClaimInv
    <2> QED
      BY <1>2, <2>1, <2>2 DEF LockMoves, Leased, LockIs
  <1> QED
    BY <1>1, <1>2 DEF Leased, LockIs

\* A runner whose lease was taken over or deleted never holds it again: it
\* cannot finish the task it is still working on.
THEOREM LostLeaseStaysLostHolds == Spec => LostLeaseStaysLost
  <1>1. IInv /\ [Next]_vars => [\A k \in TaskIds :
            tasks[k].status = "running" /\ ~Leased(k)
            => ~Leased(k)' /\ tasks'[k].status \in {"running", "failed"}]_vars
    BY StepOnLeases
  <1> QED
    BY <1>1, Invariance, PTL DEF Spec, LostLeaseStaysLost

-----------------------------------------------------------------------------
(* Running tasks keep their lease.                                         *)

\* A claim, with the difference of any two clocks, lasts no longer than the
\* lease it takes.
PromptClaims == \A q, r \in Runners : ClaimStall + Skew[q] <= LockTTL + Skew[r]

\* The labels of a claim that does not hold the lock yet.
EarlyPCs == {"claimRead", "claimInsert", "claimExisting", "claimSteal"}

\* A heartbeat belongs to a handler, and a handler that releases has finished its task.
GoroutineInv ==
    \A r \in Runners, k \in TaskIds :
        /\ heartbeat[r][k] = "beating" => handler[r][k] # "none"
        /\ handler[r][k] = "releasing" => tasks[k].status \in Terminal

\* The lock of a type is held for a row of that type.
LockTypeInv ==
    \A t \in Types :
        locks[t] # NoLock => /\ tasks[locks[t].task].status # "none"
                             /\ tasks[locks[t].task].type = t

\* No runner remembers a time to come, and a claim is as young as ClaimStall says.
TimeInv ==
    \A r \in Runners :
        /\ loc[r].now <= Now(r)
        /\ pc[r] \in ClaimPCs => Now(r) <= loc[r].now + ClaimStall
        /\ pc[r] \in ClaimPCs \cup {"claimReread"} => loc[r].until = loc[r].now + LockTTL

\* A claim that took the lock has it as long as its row is pending, and until
\* the heartbeat starts.
HoldInv ==
    \A r \in Runners :
        \/ pc[r] \in {"claimMark", "claimRun"} /\ tasks[loc[r].task].status = "pending"
        \/ pc[r] = "claimReread" /\ tasks[loc[r].task].status = "running"
        => locks[tasks[loc[r].task].type] = ClaimedLock(r)

\* A running row has the lock of its own type.
RunInv ==
    \A k \in TaskIds :
        tasks[k].status = "running" => LockIs(tasks[k].type, k, tasks[k].lockedBy)

\* Runner q is on its way to a statement that takes or deletes the lock of task k.
Contends(q, k) ==
    \/ pc[q] \in EarlyPCs /\ tasks[loc[q].task].type = tasks[k].type
    \/ pc[q] = "expireDelete" /\ loc[q].task = k

\* The lease of a running task ends after the time a contender remembers, and so
\* does every lease that its heartbeat may write.
FreshInv ==
    \A k \in TaskIds, q \in Runners :
        tasks[k].status = "running" /\ Contends(q, k) =>
            /\ loc[q].now <= locks[tasks[k].type].until
            /\ heartbeat[tasks[k].lockedBy][k] = "beating" => loc[q].now <= since[k] + LockTTL

LeaseInv == GoroutineInv /\ LockTypeInv /\ TimeInv /\ HoldInv /\ RunInv /\ FreshInv

-----------------------------------------------------------------------------
(* What a step does to a lock, to a row, to a runner and to a heartbeat.   *)

LockTaken(t, r) ==
    /\ pc[r] \in {"claimInsert", "claimSteal"}
    /\ t = tasks[loc[r].task].type
    /\ locks[t] = NoLock \/ locks[t].until < loc[r].now
    /\ locks'[t] = ClaimedLock(r)

LockReleased(t, r) ==
    /\ locks[t] # NoLock
    /\ locks[t].by = r
    /\ \/ pc[r] = "claimRelease" /\ locks[t].task = loc[r].task
       \/ handler[r][locks[t].task] = "releasing"
    /\ locks'[t] = NoLock

LockExpired(t, r) ==
    /\ locks[t] # NoLock
    /\ pc[r] = "expireDelete"
    /\ loc[r].task = locks[t].task
    /\ locks[t].until < loc[r].now
    /\ locks'[t] = NoLock

LockRenewed(t) ==
    /\ locks[t] # NoLock
    /\ heartbeat[locks[t].by][locks[t].task] = "beating"
    /\ \E n \in Nat : /\ n >= since[locks[t].task]
                      /\ locks'[t] = [locks[t] EXCEPT !.until = n + LockTTL]

LockFate(t) ==
    \/ locks'[t] = locks[t]
    \/ \E r \in Runners : LockTaken(t, r) \/ LockReleased(t, r) \/ LockExpired(t, r)
    \/ LockRenewed(t)

LEMMA StepOnLockRows ==
  ASSUME IInv, [Next]_vars, NEW t \in Types PROVE LockFate(t)
  <1>0. locks \in [Types -> SystemTaskLock \cup {NoLock}]
    BY DEF IInv, TypeOK
  <1>1. CASE UNCHANGED locks
    BY <1>1 DEF LockFate
  <1>2. ASSUME NEW r \in Runners, ClaimInsert(r) \/ ClaimSteal(r) PROVE LockFate(t)
    <2> DEFINE u == tasks[loc[r].task].type
    <2>1. /\ pc[r] \in {"claimInsert", "claimSteal"}
          /\ \/ UNCHANGED locks
             \/ /\ locks[u] = NoLock \/ locks[u].until < loc[r].now
                /\ locks' = [locks EXCEPT ![u] = ClaimedLock(r)]
      BY <1>2 DEF ClaimInsert, ClaimSteal
    <2> HIDE DEF u
    <2>2. CASE t = u
      BY <1>0, <1>1, <2>1, <2>2 DEF LockFate, LockTaken, u
    <2>3. CASE t # u
      BY <1>0, <1>1, <2>1, <2>3 DEF LockFate
    <2> QED
      BY <2>2, <2>3
  <1>3. ASSUME NEW r \in Runners, NEW k \in TaskIds, ReleaseSystemTaskLock(k, r),
               (pc[r] = "claimRelease" /\ loc[r].task = k) \/ handler[r][k] = "releasing"
        PROVE  LockFate(t)
    <2>1. CASE LockIs(t, k, r)
      BY <1>3, <2>1 DEF ReleaseSystemTaskLock, LockIs, LockFate, LockReleased
    <2>2. CASE ~LockIs(t, k, r)
      BY <1>3, <2>2 DEF ReleaseSystemTaskLock, LockFate
    <2> QED
      BY <2>1, <2>2
  <1>4. ASSUME NEW r \in Runners, NEW s \in loc[r].stale, ExpireDelete(r, s) PROVE LockFate(t)
    <2>1. CASE locks' = locks
      BY <1>1, <2>1
    <2>2. CASE /\ LockIs(s.type, s.task, s.by)
               /\ locks[s.type].until < loc[r].now
               /\ locks' = [locks EXCEPT ![s.type] = NoLock]
      BY <1>0, <1>4, <2>2 DEF ExpireDelete, LockIs, LockFate, LockExpired
    <2> QED
      BY <1>4, <2>1, <2>2 DEF ExpireDelete
  <1>5. ASSUME NEW r \in Runners, NEW k \in TaskIds, RenewSystemTaskLock(r, k) PROVE LockFate(t)
    <2>1. PICK n \in Stamps(r, k) :
            \/ UNCHANGED locks
            \/ locks' = [u \in Types |-> IF u \in RenewableLocks(k, r, n)
                                         THEN [locks[u] EXCEPT !.until = n + LockTTL]
                                         ELSE locks[u]]
      BY <1>5 DEF RenewSystemTaskLock
    <2>2. since[k] \in Nat /\ Now(r) \in Nat
      BY NowType DEF IInv, TypeOK
    <2>3. n \in Nat /\ n >= since[k] /\ heartbeat[r][k] = "beating"
      BY <1>5, <2>2 DEF Stamps, RenewSystemTaskLock
    <2>4. CASE UNCHANGED locks
      BY <1>1, <2>4
    <2>5. CASE t \notin RenewableLocks(k, r, n) /\ ~UNCHANGED locks
      BY <2>1, <2>5 DEF LockFate
    <2>6. CASE t \in RenewableLocks(k, r, n) /\ ~UNCHANGED locks
      <3>1. locks[t] # NoLock /\ locks[t].task = k /\ locks[t].by = r
        BY <2>6 DEF RenewableLocks, LockIs
      <3>2. locks'[t] = [locks[t] EXCEPT !.until = n + LockTTL]
        BY <2>1, <2>6
      <3> QED
        BY <2>3, <3>1, <3>2 DEF LockFate, LockRenewed
    <2> QED
      BY <2>4, <2>5, <2>6
  <1>6. ASSUME NEW r \in Runners, RunnerStep(r) PROVE LockFate(t)
    <2>1. CASE ClaimRelease(r)
      <3>1. loc[r].task \in TaskIds
        BY <2>1 DEF ClaimRelease, IInv, ClaimInv
      <3> QED
        BY <1>3, <2>1, <3>1 DEF ClaimRelease
    <2>2. CASE ~(ClaimInsert(r) \/ ClaimSteal(r) \/ ClaimRelease(r)
                 \/ \E s \in loc[r].stale : ExpireDelete(r, s))
      BY <1>1, <1>6, <2>2 DEF RunnerStep, ExpireRead, ExpireMark, SchedulerRead, SchedulerCreate,
         ClaimStart, ClaimRead, ClaimExisting, ClaimMark, ClaimRun, Dispatch, tables
    <2> QED
      BY <1>2, <1>4, <2>1, <2>2
  <1>7. ASSUME NEW r \in Runners, NEW k \in TaskIds, HandlerStep(r, k) PROVE LockFate(t)
    <2>1. CASE FinishRelease(r, k)
      BY <1>3, <2>1 DEF FinishRelease
    <2>2. CASE UpdateSystemTaskState(r, k) \/ \E st \in Terminal : FinishSystemTask(r, k, st)
      BY <1>1, <2>2 DEF UpdateSystemTaskState, FinishSystemTask
    <2> QED
      BY <1>5, <1>7, <2>1, <2>2 DEF HandlerStep
  <1>8. CASE Failure \/ Tick \/ UNCHANGED vars \/ \E u \in Types : EnqueueSystemTask(u)
    BY <1>1, <1>8 DEF Failure, StatementFails, ScheduleFails, HandlerFails, RenewFails, Crash,
       Tick, vars, EnqueueSystemTask, tables
  <1> QED
    BY <1>6, <1>7, <1>8 DEF Next

\* The compare-and-set of runner r starts task k.
RunStarts(r, k) ==
    /\ pc[r] = "claimRun"
    /\ loc[r].task = k
    /\ tasks[k].status = "pending"
    /\ tasks'[k].lockedBy = r
    /\ pc' = [pc EXCEPT ![r] = "claimReread"]
    /\ UNCHANGED <<clock, locks, loc, heartbeat, since>>

RowFate(k) ==
    /\ tasks[k].status # "none" =>
        tasks'[k].status # "none" /\ tasks'[k].type = tasks[k].type
    /\ tasks'[k].status = "pending" => tasks[k].status \in {"none", "pending"}
    /\ tasks'[k].status = "running" =>
        \/ tasks[k].status = "running" /\ tasks'[k].lockedBy = tasks[k].lockedBy
        \/ \E r \in Runners : RunStarts(r, k)

LEMMA StepOnTaskRows ==
  ASSUME IInv, [Next]_vars, NEW k \in TaskIds PROVE RowFate(k)
  <1>0. tasks \in [TaskIds -> SystemTaskRow] /\ tasks[k] \in SystemTaskRow
    BY DEF IInv, TypeOK
  <1>1. CASE UNCHANGED tasks
    BY <1>1 DEF RowFate
  <1>2. ASSUME NEW t, NEW n, CreateSystemTask(t, n) PROVE RowFate(k)
    BY <1>0, <1>2 DEF CreateSystemTask, RowFate
  <1>3. ASSUME NEW j, NEW n, MarkSystemTaskLeaseExpired(j, n) PROVE RowFate(k)
    BY <1>0, <1>3 DEF MarkSystemTaskLeaseExpired, SystemTaskRow, RowFate
  <1>4. ASSUME NEW r \in Runners, ClaimRun(r) PROVE RowFate(k)
    <2> DEFINE j == loc[r].task
    <2>1. CASE UNCHANGED tasks
      BY <1>1, <2>1
    <2>2. CASE tasks[j].status = "pending"
      <3> DEFINE row == [tasks[j] EXCEPT !.status = "running", !.lockedBy = r,
                                         !.updatedAt = loc[r].now]
      <3>1. /\ tasks' = [tasks EXCEPT ![j] = row]
            /\ pc' = [pc EXCEPT ![r] = "claimReread"]
            /\ pc[r] = "claimRun"
            /\ UNCHANGED <<clock, locks, loc, heartbeat, since>>
        BY <1>4, <2>2 DEF ClaimRun, Goto, goroutines
      <3>2. j \in TaskIds /\ tasks[j] \in SystemTaskRow
        BY <1>0, <3>1 DEF IInv, ClaimInv, ClaimPCs
      <3>3. row.status = "running" /\ row.lockedBy = r /\ row.type = tasks[j].type
        BY <3>2 DEF SystemTaskRow
      <3> HIDE DEF row, j
      <3>4. CASE k = j
        <4>1. tasks'[k] = row
          BY <1>0, <3>1, <3>4
        <4>2. RunStarts(r, k)
          BY <2>2, <3>1, <3>3, <3>4, <4>1 DEF RunStarts, j
        <4> QED
          BY <3>3, <3>4, <4>1, <4>2 DEF RowFate
      <3>5. CASE k # j
        BY <1>0, <3>1, <3>5 DEF RowFate
      <3> QED
        BY <3>4, <3>5
    <2> QED
      BY <1>4, <2>1, <2>2 DEF ClaimRun
  <1>5. ASSUME NEW r \in Runners, RunnerStep(r) PROVE RowFate(k)
    <2>1. CASE ClaimMark(r) \/ \E s \in loc[r].stale : ExpireMark(r, s)
      BY <1>3, <2>1 DEF ClaimMark, ExpireMark
    <2>2. CASE \E t \in Types : SchedulerCreate(r, t)
      BY <1>1, <1>2, <2>2 DEF SchedulerCreate
    <2>3. CASE ~(ClaimMark(r) \/ ClaimRun(r) \/ (\E s \in loc[r].stale : ExpireMark(r, s))
                 \/ \E t \in Types : SchedulerCreate(r, t))
      BY <1>1, <1>5, <2>3 DEF RunnerStep, ExpireRead, ExpireDelete, SchedulerRead, ClaimStart,
         ClaimRead, ClaimInsert, ClaimExisting, ClaimSteal, ClaimRelease, Dispatch, tables
    <2> QED
      BY <1>4, <2>1, <2>2, <2>3
  <1>6. ASSUME NEW r \in Runners, NEW j \in TaskIds, HandlerStep(r, j) PROVE RowFate(k)
    <2>1. CASE UpdateSystemTaskState(r, j)
      BY <1>0, <1>1, <2>1 DEF UpdateSystemTaskState, OwnsRunningTask, SystemTaskRow, RowFate
    <2>2. ASSUME NEW st \in Terminal, FinishSystemTask(r, j, st) PROVE RowFate(k)
      <3>1. CASE UNCHANGED tasks
        BY <1>1, <3>1
      <3>2. CASE \E n \in Stamps(r, j) :
                    /\ OwnsRunningTask(j, r, n)
                    /\ tasks' = [tasks EXCEPT ![j] = [@ EXCEPT !.status = st,
                                    !.activeKey = NoType, !.updatedAt = n]]
        BY <1>0, <3>2 DEF OwnsRunningTask, SystemTaskRow, RowFate, Terminal
      <3> QED
        BY <2>2, <3>1, <3>2 DEF FinishSystemTask
    <2>3. CASE RenewSystemTaskLock(r, j) \/ FinishRelease(r, j)
      BY <1>1, <2>3 DEF RenewSystemTaskLock, FinishRelease
    <2> QED
      BY <1>6, <2>1, <2>2, <2>3 DEF HandlerStep
  <1>7. CASE Failure \/ Tick \/ UNCHANGED vars
    BY <1>1, <1>7 DEF Failure, StatementFails, ScheduleFails, HandlerFails, RenewFails, Crash,
       Tick, vars, tables
  <1>8. CASE \E t \in Types : EnqueueSystemTask(t)
    BY <1>2, <1>8 DEF EnqueueSystemTask
  <1> QED
    BY <1>5, <1>6, <1>7, <1>8 DEF Next

\* The handler and the heartbeat of task k on runner r.
BeatFate(r, k) ==
    /\ handler'[r][k] = "releasing" =>
        handler[r][k] = "releasing" \/ tasks'[k].status \in Terminal
    /\ handler'[r][k] = "none" => handler[r][k] = "none" /\ heartbeat'[r][k] = heartbeat[r][k]
    /\ heartbeat'[r][k] = "beating" =>
        \/ heartbeat[r][k] = "beating" /\ since'[k] = since[k]
        \/ /\ pc[r] = "claimReread"
           /\ loc[r].task = k
           /\ since'[k] = Now(r)
           /\ UNCHANGED tables
           /\ \A q \in Runners \ {r} : pc'[q] = pc[q] /\ loc'[q] = loc[q]

LEMMA HandlerReturnsBeat ==
  ASSUME IInv, NEW r \in Runners, NEW k \in TaskIds, HandlerReturns(r, k), handler[r][k] # "none",
         NEW q \in Runners, NEW j \in TaskIds, GoroutineInv
  PROVE  BeatFate(q, j)
  <1>0. /\ handler \in [Runners -> [TaskIds -> HandlerPCs]]
        /\ heartbeat \in [Runners -> [TaskIds -> {"off", "beating", "cancelled"}]]
        /\ since \in [TaskIds -> Nat]
    BY DEF IInv, TypeOK
  <1>1. CASE q = r /\ j = k
    <2>1. handler'[q][j] = "done" /\ heartbeat'[q][j] = "off"
      BY <1>0, <1>1 DEF HandlerReturns
    <2> QED
      BY <2>1 DEF BeatFate
  <1>2. CASE ~(q = r /\ j = k)
    <2>1. handler'[q][j] = handler[q][j] /\ heartbeat'[q][j] = heartbeat[q][j]
      BY <1>0, <1>2 DEF HandlerReturns
    <2>2. heartbeat[q][j] = "beating" => j # k
      BY <1>2 DEF GoroutineInv, IInv, HandlerInv
    <2>3. j # k => since'[j] = since[j]
      BY <1>0 DEF HandlerReturns
    <2> QED
      BY <2>1, <2>2, <2>3 DEF BeatFate
  <1> QED
    BY <1>1, <1>2

LEMMA StepOnHeartbeats ==
  ASSUME IInv, GoroutineInv, [Next]_vars, NEW q \in Runners, NEW j \in TaskIds
  PROVE  BeatFate(q, j)
  <1>0. /\ handler \in [Runners -> [TaskIds -> HandlerPCs]]
        /\ heartbeat \in [Runners -> [TaskIds -> {"off", "beating", "cancelled"}]]
        /\ since \in [TaskIds -> Nat]
        /\ pc \in [Runners -> RunnerPCs] /\ loc \in [Runners -> Locals]
    BY DEF IInv, TypeOK
  <1>1. CASE UNCHANGED goroutines
    BY <1>1 DEF BeatFate, goroutines
  <1>2. ASSUME NEW r \in Runners, Dispatch(r) PROVE BeatFate(q, j)
    <2> DEFINE k == loc[r].task
    <2>1. /\ k \in TaskIds /\ pc[r] = "claimReread" /\ handler[r][k] = "none"
          /\ handler' = [handler EXCEPT ![r][k] = "running"]
          /\ heartbeat' = [heartbeat EXCEPT ![r][k] = "beating"]
          /\ since' = [since EXCEPT ![k] = Now(r)]
          /\ UNCHANGED tables
          /\ tasks[k].lockedBy = r
      BY <1>2 DEF Dispatch, IInv, DispatchInv
    <2>2. \A p \in Runners \ {r} : pc'[p] = pc[p] /\ loc'[p] = loc[p]
      BY <1>0, <1>2 DEF Dispatch, Return
    <2> HIDE DEF k
    <2>3. CASE q = r /\ j = k
      <3>1. handler'[q][j] = "running" /\ since'[j] = Now(r)
        BY <1>0, <2>1, <2>3
      <3> QED
        BY <2>1, <2>2, <2>3, <3>1 DEF BeatFate, k
    <2>4. CASE ~(q = r /\ j = k)
      <3>1. handler'[q][j] = handler[q][j] /\ heartbeat'[q][j] = heartbeat[q][j]
        BY <1>0, <2>1, <2>4
      <3>2. heartbeat[q][j] = "beating" => j # k
        BY <2>1, <2>4 DEF GoroutineInv, IInv, HandlerInv
      <3>3. j # k => since'[j] = since[j]
        BY <1>0, <2>1
      <3> QED
        BY <3>1, <3>2, <3>3 DEF BeatFate
    <2> QED
      BY <2>3, <2>4
  <1>3. ASSUME NEW r \in Runners, RunnerStep(r) PROVE BeatFate(q, j)
    <2>1. CASE ~Dispatch(r)
      BY <1>1, <1>3, <2>1 DEF RunnerStep, ExpireRead, ExpireMark, ExpireDelete, SchedulerRead,
         SchedulerCreate, ClaimStart, ClaimRead, ClaimInsert, ClaimExisting, ClaimSteal, ClaimMark,
         ClaimRun, ClaimRelease
    <2> QED
      BY <1>2, <2>1
  <1>4. ASSUME NEW r \in Runners, NEW k \in TaskIds, UNCHANGED <<handler, since>>,
               heartbeat' = [heartbeat EXCEPT ![r][k] = "cancelled"], handler[r][k] # "none"
        PROVE  BeatFate(q, j)
    <2>1. CASE q = r /\ j = k
      BY <1>0, <1>4, <2>1 DEF BeatFate
    <2>2. CASE ~(q = r /\ j = k)
      <3>1. heartbeat'[q][j] = heartbeat[q][j]
        BY <1>0, <1>4, <2>2
      <3> QED
        BY <1>4, <3>1 DEF BeatFate
    <2> QED
      BY <2>1, <2>2
  <1>5. ASSUME NEW r \in Runners, NEW k \in TaskIds, HandlerStep(r, k) PROVE BeatFate(q, j)
    <2>1. CASE RenewSystemTaskLock(r, k)
      BY <1>1, <1>4, <2>1 DEF RenewSystemTaskLock, goroutines, GoroutineInv
    <2>2. CASE UpdateSystemTaskState(r, k)
      BY <1>1, <2>2, HandlerReturnsBeat DEF UpdateSystemTaskState
    <2>3. ASSUME NEW st \in Terminal, FinishSystemTask(r, k, st) PROVE BeatFate(q, j)
      <3>1. CASE HandlerReturns(r, k)
        BY <2>3, <3>1, HandlerReturnsBeat DEF FinishSystemTask
      <3>2. CASE HandlerGoesOn(r, k, "releasing") /\ \E n \in Stamps(r, k) :
                    tasks' = [tasks EXCEPT ![k] = [@ EXCEPT !.status = st,
                                    !.activeKey = NoType, !.updatedAt = n]]
        <4>1. UNCHANGED <<heartbeat, since>> /\ handler' = [handler EXCEPT ![r][k] = "releasing"]
          BY <3>2 DEF HandlerGoesOn
        <4>2. tasks'[k].status \in Terminal
          BY <2>3, <3>2 DEF IInv, TypeOK, SystemTaskRow
        <4>3. CASE q = r /\ j = k
          BY <1>0, <4>1, <4>2, <4>3 DEF BeatFate
        <4>4. CASE ~(q = r /\ j = k)
          <5>1. handler'[q][j] = handler[q][j]
            BY <1>0, <4>1, <4>4
          <5> QED
            BY <4>1, <5>1 DEF BeatFate
        <4> QED
          BY <4>3, <4>4
      <3> QED
        BY <2>3, <3>1, <3>2 DEF FinishSystemTask
    <2>4. CASE FinishRelease(r, k)
      BY <2>4, HandlerReturnsBeat DEF FinishRelease
    <2> QED
      BY <1>5, <2>1, <2>2, <2>3, <2>4 DEF HandlerStep
  <1>6. CASE Failure
    <2>1. ASSUME NEW r \in Runners, NEW k \in TaskIds, HandlerFails(r, k) PROVE BeatFate(q, j)
      BY <2>1, HandlerReturnsBeat DEF HandlerFails
    <2>2. ASSUME NEW r \in Runners, NEW k \in TaskIds, RenewFails(r, k) PROVE BeatFate(q, j)
      BY <1>4, <2>2 DEF RenewFails, GoroutineInv
    <2> QED
      BY <1>1, <1>6, <2>1, <2>2 DEF Failure, StatementFails, ScheduleFails, Crash
  <1>7. CASE Tick \/ UNCHANGED vars \/ \E t \in Types : EnqueueSystemTask(t)
    BY <1>1, <1>7 DEF Tick, vars, goroutines, EnqueueSystemTask
  <1> QED
    BY <1>3, <1>5, <1>6, <1>7 DEF Next

\* The loop of runner q: it stays, leaves the claim, starts one, goes on before
\* or after it has the lock, or has just marked the row of a stale lock.
Leaves(q) ==
    /\ pc'[q] \in {"idle", "dead", "schedule", "expire", "claimRelease"}
    /\ loc'[q].now \in {0, loc[q].now, Now(q)}

Starts(q) ==
    /\ pc'[q] = "claimRead"
    /\ loc'[q].task \in TaskIds
    /\ tasks[loc'[q].task].status = "pending"
    /\ loc'[q].now = Now(q)
    /\ loc'[q].until = Now(q) + LockTTL
    /\ UNCHANGED tables

Presses(q) ==
    /\ pc[q] \in EarlyPCs /\ pc'[q] \in EarlyPCs
    /\ loc'[q].task = loc[q].task /\ loc'[q].now = loc[q].now /\ loc'[q].until = loc[q].until
    /\ UNCHANGED tables

Advances(q) ==
    /\ loc'[q] = loc[q]
    /\ \/ /\ LockTaken(tasks[loc[q].task].type, q)
          /\ pc'[q] \in {"claimMark", "claimRun"}
          /\ UNCHANGED tasks
       \/ pc[q] = "claimMark" /\ pc'[q] = "claimRun" /\ UNCHANGED locks
       \/ pc'[q] = "claimReread" /\ RunStarts(q, loc[q].task)

Marked(q) ==
    /\ pc'[q] = "expireDelete"
    /\ loc'[q].now = loc[q].now
    /\ loc'[q].task \in TaskIds
    /\ tasks'[loc'[q].task].status # "running"

RunnerFate(q) ==
    \/ pc'[q] = pc[q] /\ loc'[q] = loc[q] /\ (clock' = clock \/ Tick)
    \/ clock' = clock /\ (Leaves(q) \/ Starts(q) \/ Presses(q) \/ Advances(q) \/ Marked(q))

LEMMA OthersStay ==
  ASSUME IInv, NEW q \in Runners, NEW r \in Runners, NEW label, NEW l,
         pc' = [pc EXCEPT ![r] = label], loc' = [loc EXCEPT ![r] = l] \/ UNCHANGED loc,
         UNCHANGED clock, q # r
  PROVE  RunnerFate(q)
  BY DEF RunnerFate, IInv, TypeOK

LEMMA ReturnLeaves ==
  ASSUME IInv, NEW q \in Runners, Return(q), UNCHANGED clock PROVE RunnerFate(q)
  <1>1. pc'[q] = "idle" /\ loc'[q] = NoLocals
    BY DEF Return, IInv, TypeOK
  <1>2. loc'[q].now = 0
    BY <1>1 DEF NoLocals
  <1> QED
    BY <1>1, <1>2 DEF RunnerFate, Leaves

LEMMA GotoFact ==
  ASSUME IInv, NEW q \in Runners, NEW label, Goto(q, label)
  PROVE  pc'[q] = label /\ loc'[q] = loc[q]
  BY DEF Goto, IInv, TypeOK

LEMMA WithFact ==
  ASSUME IInv, NEW q \in Runners, NEW label, NEW l, With(q, label, l)
  PROVE  pc'[q] = label /\ loc'[q] = l
  BY DEF With, IInv, TypeOK

LEMMA AfterDueFate ==
  ASSUME IInv, NEW q \in Runners, NEW t, AfterDue(q, t), UNCHANGED clock PROVE RunnerFate(q)
  <1>1. CASE Return(q)
    BY <1>1, ReturnLeaves
  <1>2. CASE With(q, "schedule", [loc[q] EXCEPT !.due = @ \ {t}])
    <2>1. pc'[q] = "schedule" /\ loc'[q] = [loc[q] EXCEPT !.due = @ \ {t}]
      BY <1>2, WithFact
    <2>2. loc'[q].now = loc[q].now
      BY <2>1, LocalsFit DEF Locals
    <2> QED
      BY <2>1, <2>2 DEF RunnerFate, Leaves
  <1> QED
    BY <1>1, <1>2 DEF AfterDue

\* The steps of the lease expiry and of the scheduler.
LEMMA ExpiryFate ==
  ASSUME IInv, NEW q \in Runners,
         \/ ExpireRead(q) \/ SchedulerRead(q) \/ (\E t \in Types : SchedulerCreate(q, t))
         \/ \E s \in loc[q].stale : ExpireMark(q, s) \/ ExpireDelete(q, s)
  PROVE  RunnerFate(q)
  <1>0. loc[q] \in Locals
    BY LocalsFit
  <1>1. CASE ExpireRead(q)
    <2>1. UNCHANGED clock
      BY <1>1 DEF ExpireRead
    <2>2. CASE UNCHANGED <<pc, loc>>
      BY <2>1, <2>2 DEF RunnerFate
    <2>3. CASE With(q, "expire", [NoLocals EXCEPT !.now = Now(q), !.stale = StaleLocks(Now(q))])
      <3>1. pc'[q] = "expire"
            /\ loc'[q] = [NoLocals EXCEPT !.now = Now(q), !.stale = StaleLocks(Now(q))]
        BY <2>3, WithFact
      <3>2. loc'[q].now = Now(q)
        BY <3>1 DEF NoLocals
      <3> QED
        BY <2>1, <3>1, <3>2 DEF RunnerFate, Leaves
    <2> QED
      BY <1>1, <2>2, <2>3 DEF ExpireRead
  <1>2. CASE SchedulerRead(q)
    <2> DEFINE d == {t \in Scheduled : Due(t, Now(q))}
    <2>1. UNCHANGED clock /\ With(q, "schedule", [NoLocals EXCEPT !.due = d])
      BY <1>2 DEF SchedulerRead
    <2> HIDE DEF d
    <2>2. pc'[q] = "schedule" /\ loc'[q] = [NoLocals EXCEPT !.due = d]
      BY <2>1, WithFact
    <2>3. loc'[q].now = 0
      BY <2>2 DEF NoLocals
    <2> QED
      BY <2>1, <2>2, <2>3 DEF RunnerFate, Leaves
  <1>3. CASE \E t \in Types : SchedulerCreate(q, t)
    BY <1>3, AfterDueFate DEF SchedulerCreate
  <1>4. ASSUME NEW s \in loc[q].stale, ExpireMark(q, s) PROVE RunnerFate(q)
    <2>1. UNCHANGED clock /\ MarkSystemTaskLeaseExpired(s.task, Now(q))
          /\ With(q, "expireDelete", [loc[q] EXCEPT !.task = s.task])
      BY <1>4 DEF ExpireMark
    <2>2. pc'[q] = "expireDelete" /\ loc'[q] = [loc[q] EXCEPT !.task = s.task]
      BY <2>1, WithFact
    <2>3. s.task \in TaskIds
      BY <1>0 DEF Locals, StaleLock
    <2>4. loc'[q].now = loc[q].now /\ loc'[q].task = s.task
      BY <1>0, <2>2 DEF Locals
    <2>5. tasks'[s.task].status # "running"
      BY <2>1, <2>3 DEF MarkSystemTaskLeaseExpired, IInv, TypeOK, SystemTaskRow
    <2> QED
      BY <2>1, <2>2, <2>3, <2>4, <2>5 DEF RunnerFate, Marked
  <1>5. ASSUME NEW s \in loc[q].stale, ExpireDelete(q, s) PROVE RunnerFate(q)
    <2>1. UNCHANGED clock
      BY <1>5 DEF ExpireDelete
    <2>2. CASE Return(q)
      BY <2>1, <2>2, ReturnLeaves
    <2>3. CASE With(q, "expire", [loc[q] EXCEPT !.stale = @ \ {s}])
      <3>1. pc'[q] = "expire" /\ loc'[q] = [loc[q] EXCEPT !.stale = @ \ {s}]
        BY <2>3, WithFact
      <3>2. loc'[q].now = loc[q].now
        BY <1>0, <3>1 DEF Locals
      <3> QED
        BY <2>1, <3>1, <3>2 DEF RunnerFate, Leaves
    <2> QED
      BY <1>5, <2>2, <2>3 DEF ExpireDelete
  <1> QED
    BY <1>1, <1>2, <1>3, <1>4, <1>5

\* The steps of a claim.
LEMMA ClaimFate ==
  ASSUME IInv, NEW q \in Runners,
         \/ (\E k \in TaskIds : ClaimStart(q, k)) \/ ClaimRead(q) \/ ClaimInsert(q)
         \/ ClaimExisting(q) \/ ClaimSteal(q) \/ ClaimMark(q) \/ ClaimRun(q) \/ ClaimRelease(q)
         \/ Dispatch(q)
  PROVE  RunnerFate(q)
  <1>0. loc[q] \in Locals
    BY LocalsFit
  <1>1. ASSUME NEW k \in TaskIds, ClaimStart(q, k) PROVE RunnerFate(q)
    <2> DEFINE l == [NoLocals EXCEPT !.task = k, !.now = Now(q), !.until = Now(q) + LockTTL]
    <2>1. UNCHANGED <<clock, tables>> /\ With(q, "claimRead", l) /\ tasks[k].status = "pending"
      BY <1>1 DEF ClaimStart
    <2>2. l.task = k /\ l.now = Now(q) /\ l.until = Now(q) + LockTTL
      BY DEF NoLocals
    <2> HIDE DEF l
    <2>3. pc'[q] = "claimRead" /\ loc'[q] = l
      BY <2>1, WithFact
    <2> QED
      BY <2>1, <2>2, <2>3 DEF RunnerFate, Starts
  <1>2. CASE ClaimRead(q)
    <2>1. UNCHANGED <<clock, tables>> /\ pc[q] = "claimRead"
      BY <1>2 DEF ClaimRead
    <2>2. CASE Goto(q, "claimInsert")
      BY <2>1, <2>2, GotoFact DEF RunnerFate, Presses, EarlyPCs
    <2> QED
      BY <1>2, <2>1, <2>2, ReturnLeaves DEF ClaimRead
  <1>3. CASE ClaimInsert(q)
    <2> DEFINE t == tasks[loc[q].task].type
    <2>1. UNCHANGED <<clock, tasks>> /\ pc[q] = "claimInsert"
      BY <1>3 DEF ClaimInsert
    <2>2. CASE Goto(q, "claimExisting") /\ UNCHANGED locks
      BY <2>1, <2>2, GotoFact DEF RunnerFate, Presses, EarlyPCs, tables
    <2>3. CASE /\ locks[t] = NoLock
               /\ locks' = [locks EXCEPT ![t] = ClaimedLock(q)]
               /\ Goto(q, "claimRun")
      <3>1. t \in Types
        BY <2>1 DEF IInv, ClaimInv, ClaimPCs, KeyInv
      <3>2. locks'[t] = ClaimedLock(q)
        BY <2>3, <3>1 DEF IInv, TypeOK
      <3>3. LockTaken(t, q)
        BY <2>1, <2>3, <3>2 DEF LockTaken
      <3>4. pc'[q] = "claimRun" /\ loc'[q] = loc[q]
        BY <2>3, GotoFact
      <3> QED
        BY <2>1, <3>3, <3>4 DEF RunnerFate, Advances
    <2> QED
      BY <1>3, <2>2, <2>3 DEF ClaimInsert
  <1>4. CASE ClaimExisting(q)
    <2> DEFINE l == [loc[q] EXCEPT !.expired = locks[tasks[loc[q].task].type].task]
    <2>1. UNCHANGED <<clock, tables>> /\ pc[q] = "claimExisting"
      BY <1>4 DEF ClaimExisting
    <2>2. l.task = loc[q].task /\ l.now = loc[q].now /\ l.until = loc[q].until
      BY <1>0 DEF Locals
    <2>3. Return(q) \/ With(q, "claimSteal", l)
      BY <1>4 DEF ClaimExisting
    <2> HIDE DEF l
    <2>4. CASE With(q, "claimSteal", l)
      <3>1. pc'[q] = "claimSteal" /\ loc'[q] = l
        BY <2>4, WithFact
      <3> QED
        BY <2>1, <2>2, <3>1 DEF RunnerFate, Presses, EarlyPCs
    <2> QED
      BY <2>1, <2>3, <2>4, ReturnLeaves
  <1>5. CASE ClaimSteal(q)
    <2> DEFINE t == tasks[loc[q].task].type
    <2>1. UNCHANGED <<clock, tasks>> /\ pc[q] = "claimSteal"
      BY <1>5 DEF ClaimSteal
    <2>2. CASE /\ locks[t].until < loc[q].now
               /\ locks' = [locks EXCEPT ![t] = ClaimedLock(q)]
               /\ Goto(q, "claimMark") \/ Goto(q, "claimRun")
      <3>1. t \in Types
        BY <2>1 DEF IInv, ClaimInv, ClaimPCs, KeyInv
      <3>2. locks'[t] = ClaimedLock(q)
        BY <2>2, <3>1 DEF IInv, TypeOK
      <3>3. LockTaken(t, q)
        BY <2>1, <2>2, <3>2 DEF LockTaken
      <3>4. pc'[q] \in {"claimMark", "claimRun"} /\ loc'[q] = loc[q]
        BY <2>2, GotoFact
      <3> QED
        BY <2>1, <3>3, <3>4 DEF RunnerFate, Advances
    <2> QED
      BY <1>5, <2>1, <2>2, ReturnLeaves DEF ClaimSteal
  <1>6. CASE ClaimMark(q)
    BY <1>6, GotoFact DEF ClaimMark, RunnerFate, Advances
  <1>7. CASE ClaimRun(q)
    <2> DEFINE k == loc[q].task
    <2>1. UNCHANGED clock /\ k \in TaskIds /\ tasks[k] \in SystemTaskRow /\ pc[q] = "claimRun"
      BY <1>7 DEF ClaimRun, IInv, ClaimInv, ClaimPCs, TypeOK
    <2>2. CASE Goto(q, "claimRelease")
      BY <2>1, <2>2, GotoFact DEF RunnerFate, Leaves
    <2>3. CASE tasks[k].status = "pending"
      <3>1. /\ tasks' = [tasks EXCEPT ![k] = [@ EXCEPT !.status = "running", !.lockedBy = q,
                                                          !.updatedAt = loc[q].now]]
            /\ pc' = [pc EXCEPT ![q] = "claimReread"]
            /\ UNCHANGED <<clock, locks, loc, heartbeat, since>>
        BY <1>7, <2>3 DEF ClaimRun, Goto, goroutines
      <3> HIDE DEF k
      <3>2. tasks'[k].lockedBy = q
        BY <2>1, <3>1 DEF IInv, TypeOK, SystemTaskRow
      <3>3. RunStarts(q, k)
        BY <2>1, <2>3, <3>1, <3>2 DEF RunStarts, k
      <3>4. pc'[q] = "claimReread" /\ loc'[q] = loc[q]
        BY <3>1 DEF IInv, TypeOK
      <3> QED
        BY <2>1, <3>3, <3>4 DEF RunnerFate, Advances, k
    <2> QED
      BY <1>7, <2>2, <2>3 DEF ClaimRun
  <1>8. CASE ClaimRelease(q) \/ Dispatch(q)
    BY <1>8, ReturnLeaves DEF ClaimRelease, Dispatch
  <1> QED
    BY <1>1, <1>2, <1>3, <1>4, <1>5, <1>6, <1>7, <1>8

LEMMA FailureFate ==
  ASSUME IInv, NEW q \in Runners,
         StatementFails(q) \/ (\E t \in Types : ScheduleFails(q, t)) \/ Crash(q)
  PROVE  RunnerFate(q)
  <1>1. CASE StatementFails(q)
    <2>1. /\ pc[q] \in RunnerPCs /\ UNCHANGED <<clock, tables>>
          /\ Return(q) \/ Goto(q, OnError[pc[q]])
      BY <1>1 DEF StatementFails, IInv, TypeOK
    <2>2. CASE Return(q)
      BY <2>1, <2>2, ReturnLeaves
    <2>3. CASE Goto(q, OnError[pc[q]])
      <3>1. pc'[q] = OnError[pc[q]] /\ loc'[q] = loc[q]
        BY <2>3, GotoFact
      <3>2. CASE pc[q] = "claimInsert"
        BY <2>1, <3>1, <3>2 DEF OnError, RunnerFate, Presses, EarlyPCs
      <3>3. CASE pc[q] # "claimInsert"
        <4>1. OnError[pc[q]] \in {"idle", "claimRelease"}
          BY <2>1, <3>3 DEF OnError
        <4> QED
          BY <2>1, <3>1, <4>1 DEF RunnerFate, Leaves
      <3> QED
        BY <3>2, <3>3
    <2> QED
      BY <2>1, <2>2, <2>3
  <1>2. CASE \E t \in Types : ScheduleFails(q, t)
    BY <1>2, AfterDueFate DEF ScheduleFails
  <1>3. CASE Crash(q)
    <2>1. UNCHANGED clock /\ pc'[q] = "dead" /\ loc'[q] = NoLocals
      BY <1>3, WithFact DEF Crash
    <2>2. loc'[q].now = 0
      BY <2>1 DEF NoLocals
    <2> QED
      BY <2>1, <2>2 DEF RunnerFate, Leaves
  <1> QED
    BY <1>1, <1>2, <1>3

LEMMA StepOnRunners ==
  ASSUME IInv, [Next]_vars, NEW q \in Runners PROVE RunnerFate(q)
  <1>1. CASE Tick \/ UNCHANGED vars \/ (\E t \in Types : EnqueueSystemTask(t))
             \/ \E r \in Runners, k \in TaskIds : HandlerStep(r, k)
    BY <1>1 DEF Tick, vars, EnqueueSystemTask, HandlerStep, RenewSystemTaskLock,
       UpdateSystemTaskState, FinishSystemTask, FinishRelease, RunnerFate
  <1>2. ASSUME NEW r \in Runners, r # q, UNCHANGED clock,
               \/ UNCHANGED <<pc, loc>> \/ Return(r) \/ (\E label : Goto(r, label))
               \/ \E label, l : With(r, label, l)
        PROVE  RunnerFate(q)
    <2>1. CASE UNCHANGED <<pc, loc>>
      BY <1>2, <2>1 DEF RunnerFate
    <2>2. CASE Return(r)
      BY <1>2, <2>2, OthersStay DEF Return
    <2>3. ASSUME NEW label, Goto(r, label) PROVE RunnerFate(q)
      BY <1>2, <2>3, OthersStay DEF Goto
    <2>4. ASSUME NEW label, NEW l, With(r, label, l) PROVE RunnerFate(q)
      BY <1>2, <2>4, OthersStay DEF With
    <2> QED
      BY <1>2, <2>1, <2>2, <2>3, <2>4
  <1>3. ASSUME NEW r \in Runners, RunnerStep(r) PROVE RunnerFate(q)
    <2>1. CASE r = q
      BY <1>3, <2>1, ExpiryFate, ClaimFate DEF RunnerStep
    <2>2. CASE r # q
      BY <1>2, <1>3, <2>2 DEF RunnerStep, ExpireRead, ExpireMark, ExpireDelete, SchedulerRead,
         SchedulerCreate, AfterDue, ClaimStart, ClaimRead, ClaimInsert, ClaimExisting, ClaimSteal,
         ClaimMark, ClaimRun, ClaimRelease, Dispatch
    <2> QED
      BY <2>1, <2>2
  <1>4. CASE Failure
    <2>1. ASSUME NEW r \in Runners,
                 StatementFails(r) \/ (\E t \in Types : ScheduleFails(r, t)) \/ Crash(r)
          PROVE  RunnerFate(q)
      <3>1. CASE r = q
        BY <2>1, <3>1, FailureFate
      <3>2. CASE r # q
        BY <1>2, <2>1, <3>2 DEF StatementFails, ScheduleFails, AfterDue, Crash
      <3> QED
        BY <3>1, <3>2
    <2>2. ASSUME NEW r \in Runners, NEW k \in TaskIds, HandlerFails(r, k) \/ RenewFails(r, k)
          PROVE  RunnerFate(q)
      BY <2>2 DEF HandlerFails, RenewFails, RunnerFate
    <2> QED
      BY <1>4, <2>1, <2>2 DEF Failure
  <1> QED
    BY <1>1, <1>3, <1>4 DEF Next

-----------------------------------------------------------------------------
(* Why nobody takes the lock of a claim or of a running task.              *)

\* A claim's lease ends after every time another runner can remember.
LEMMA ClaimOutlivesOthers ==
  ASSUME PromptClaims, IInv, TimeInv, NEW r \in Runners, NEW q \in Runners, pc[r] \in ClaimPCs
  PROVE  loc[q].now <= loc[r].until
  <1>1. /\ clock \in Nat /\ Skew[r] \in Nat /\ Skew[q] \in Nat
        /\ loc[r].now \in Nat /\ loc[q].now \in Nat
        /\ ClaimStall \in Nat /\ LockTTL \in Nat
    BY LocalsFit, ConstantsAssumption DEF IInv, TypeOK
  <1>2. ClaimStall + Skew[q] <= LockTTL + Skew[r]
    BY DEF PromptClaims
  <1>3. /\ loc[q].now <= clock + Skew[q]
        /\ clock + Skew[r] <= loc[r].now + ClaimStall
        /\ loc[r].until = loc[r].now + LockTTL
    BY DEF TimeInv, Now
  <1> QED
    BY <1>1, <1>2, <1>3

\* The row a claim works on has the type of a lock.
LEMMA ClaimRow ==
  ASSUME IInv, NEW r \in Runners,
         pc[r] \in ClaimPCs \cup {"claimRelease", "claimReread"}
  PROVE  /\ loc[r].task \in TaskIds
         /\ tasks[loc[r].task].status # "none"
         /\ tasks[loc[r].task].type \in Types
  <1>1. CASE pc[r] = "claimReread"
    BY <1>1, ConstantsAssumption DEF IInv, DispatchInv, UnclaimedInv, KeyInv
  <1>2. CASE pc[r] # "claimReread"
    BY <1>2 DEF IInv, ClaimInv, KeyInv
  <1> QED
    BY <1>1, <1>2

LEMMA LockFields ==
  ASSUME IInv, NEW t \in Types, locks[t] # NoLock
  PROVE  /\ locks[t] \in SystemTaskLock
         /\ locks[t].task \in TaskIds
         /\ locks[t].by \in Runners
         /\ locks[t].until \in Nat
  BY DEF IInv, TypeOK, SystemTaskLock

LEMMA ClaimedFields ==
  ASSUME IInv, NEW r \in Runners, pc[r] \in ClaimPCs \cup {"claimReread"}
  PROVE  /\ ClaimedLock(r) # NoLock
         /\ ClaimedLock(r).task = loc[r].task
         /\ ClaimedLock(r).by = r
         /\ ClaimedLock(r).until = loc[r].until
  <1>1. loc[r].task \in TaskIds /\ loc[r].until \in Nat
    BY ClaimRow, LocalsFit
  <1>2. ClaimedLock(r) \in [task : TaskIds, by : Runners, until : Nat]
    BY <1>1 DEF ClaimedLock
  <1>3. ClaimedLock(r) # NoLock
    BY <1>2, ConstantsAssumption
  <1> QED
    BY <1>3 DEF ClaimedLock

\* While its row is pending, no step touches the lock of a claim.
LEMMA ClaimKeepsLock ==
  ASSUME PromptClaims, IInv, LeaseInv, [Next]_vars, NEW r \in Runners,
         pc[r] \in {"claimMark", "claimRun"}, tasks[loc[r].task].status = "pending"
  PROVE  locks'[tasks[loc[r].task].type] = ClaimedLock(r)
  <1> DEFINE k == loc[r].task
             t == tasks[k].type
  <1>1. /\ pc[r] \in ClaimPCs /\ k \in TaskIds /\ t \in Types
        /\ tasks[k].lockedBy # r
    BY ClaimRow DEF ClaimPCs, IInv, ClaimInv
  <1>2. locks[t] = ClaimedLock(r)
    BY DEF LeaseInv, HoldInv
  <1>3. /\ locks[t] # NoLock /\ locks[t].task = k /\ locks[t].by = r
        /\ locks[t].until = loc[r].until /\ locks[t].until \in Nat
    BY <1>1, <1>2, ClaimedFields, LocalsFit
  <1>4. handler[r][k] = "none"
    BY <1>1 DEF IInv, HandlerInv
  <1> HIDE DEF k, t
  <1>5. LockFate(t)
    BY <1>1, StepOnLockRows
  <1>6. ASSUME NEW q \in Runners, locks[t].until < loc[q].now PROVE FALSE
    <2>1. loc[q].now <= loc[r].until /\ loc[q].now \in Nat
      BY <1>1, ClaimOutlivesOthers, LocalsFit DEF LeaseInv
    <2> QED
      BY <1>3, <1>6, <2>1
  <1>7. ASSUME NEW q \in Runners, LockTaken(t, q) \/ LockExpired(t, q) PROVE FALSE
    BY <1>3, <1>6, <1>7 DEF LockTaken, LockExpired
  <1>8. ASSUME NEW q \in Runners, LockReleased(t, q) PROVE FALSE
    BY <1>3, <1>4, <1>8 DEF LockReleased
  <1>9. ~LockRenewed(t)
    BY <1>1, <1>3, <1>4 DEF LockRenewed, LeaseInv, GoroutineInv
  <1>10. locks'[t] = locks[t]
    BY <1>5, <1>7, <1>8, <1>9 DEF LockFate
  <1> QED
    BY <1>2, <1>10 DEF k, t

\* Only its own heartbeat writes the lock of a running task.
LEMMA RunningKeepsLock ==
  ASSUME IInv, LeaseInv, [Next]_vars, NEW k \in TaskIds, tasks[k].status = "running"
  PROVE  locks'[tasks[k].type] = locks[tasks[k].type] \/ LockRenewed(tasks[k].type)
  <1> DEFINE t == tasks[k].type
  <1>1. t \in Types
    BY DEF IInv, KeyInv
  <1>2. locks[t] # NoLock /\ locks[t].task = k /\ locks[t].by = tasks[k].lockedBy
    BY DEF LeaseInv, RunInv, LockIs
  <1>3. locks[t].until \in Nat
    BY <1>1, <1>2, LockFields
  <1>4. LockFate(t)
    BY <1>1, StepOnLockRows
  <1>5. ASSUME NEW q \in Runners, Contends(q, k) PROVE loc[q].now <= locks[t].until
    BY <1>5 DEF LeaseInv, FreshInv
  <1>6. ASSUME NEW q \in Runners, LockTaken(t, q) PROVE FALSE
    <2>1. Contends(q, k)
      BY <1>6 DEF LockTaken, Contends, EarlyPCs
    <2>2. locks[t].until < loc[q].now
      BY <1>2, <1>6 DEF LockTaken
    <2> QED
      BY <1>3, <1>5, <2>1, <2>2, LocalsFit
  <1>7. ASSUME NEW q \in Runners, LockExpired(t, q) PROVE FALSE
    <2>1. Contends(q, k) /\ locks[t].until < loc[q].now
      BY <1>2, <1>7 DEF LockExpired, Contends
    <2> QED
      BY <1>3, <1>5, <2>1, LocalsFit
  <1>8. ASSUME NEW q \in Runners, LockReleased(t, q) PROVE FALSE
    <2>1. tasks[k].lockedBy = q
      BY <1>2, <1>8 DEF LockReleased
    <2>2. CASE pc[q] = "claimRelease" /\ loc[q].task = k
      BY <2>1, <2>2 DEF IInv, ClaimInv
    <2>3. CASE handler[q][k] = "releasing"
      BY <2>3 DEF LeaseInv, GoroutineInv, Terminal
    <2> QED
      BY <1>2, <1>8, <2>2, <2>3 DEF LockReleased
  <1> QED
    BY <1>4, <1>6, <1>7, <1>8 DEF LockFate

-----------------------------------------------------------------------------
(* Every step preserves LeaseInv.                                          *)

LEMMA GoroutineStep ==
  ASSUME IInv, LeaseInv, [Next]_vars PROVE GoroutineInv'
  <1> SUFFICES ASSUME NEW r \in Runners, NEW k \in TaskIds
               PROVE  /\ heartbeat'[r][k] = "beating" => handler'[r][k] # "none"
                      /\ handler'[r][k] = "releasing" => tasks'[k].status \in Terminal
    BY DEF GoroutineInv
  <1>1. BeatFate(r, k) /\ GoroutineInv
    BY StepOnHeartbeats DEF LeaseInv
  <1>2. heartbeat'[r][k] = "beating" => handler'[r][k] # "none"
    BY <1>1 DEF BeatFate, GoroutineInv
  <1>3. handler[r][k] = "releasing" => tasks[k].status \in Terminal /\ tasks'[k] = tasks[k]
    BY <1>1, StepOnRows DEF GoroutineInv
  <1> QED
    BY <1>1, <1>2, <1>3 DEF BeatFate

LEMMA LockTypeStep ==
  ASSUME IInv, LeaseInv, [Next]_vars PROVE LockTypeInv'
  <1> SUFFICES ASSUME NEW t \in Types, locks'[t] # NoLock
               PROVE  /\ tasks'[locks'[t].task].status # "none"
                      /\ tasks'[locks'[t].task].type = t
    BY DEF LockTypeInv
  <1>1. ASSUME NEW k \in TaskIds, tasks[k].status # "none"
        PROVE  tasks'[k].status # "none" /\ tasks'[k].type = tasks[k].type
    BY <1>1, StepOnTaskRows DEF RowFate
  <1>2. LockFate(t)
    BY StepOnLockRows
  <1>3. CASE locks[t] # NoLock /\ locks'[t].task = locks[t].task
    BY <1>1, <1>3, LockFields DEF LeaseInv, LockTypeInv
  <1>4. ASSUME NEW r \in Runners, LockTaken(t, r)
        PROVE  /\ tasks'[locks'[t].task].status # "none"
               /\ tasks'[locks'[t].task].type = t
    <2>1. pc[r] \in ClaimPCs /\ t = tasks[loc[r].task].type /\ locks'[t].task = loc[r].task
      BY <1>4 DEF LockTaken, ClaimPCs, ClaimedLock
    <2> QED
      BY <1>1, <2>1, ClaimRow
  <1>5. CASE LockRenewed(t)
    <2>1. locks[t] \in SystemTaskLock /\ locks[t] # NoLock
      BY <1>5, LockFields DEF LockRenewed
    <2>2. locks'[t].task = locks[t].task
      BY <1>5, <2>1 DEF LockRenewed, SystemTaskLock
    <2> QED
      BY <1>3, <2>1, <2>2
  <1> QED
    BY <1>2, <1>3, <1>4, <1>5 DEF LockFate, LockReleased, LockExpired

LEMMA TimeStep ==
  ASSUME IInv, LeaseInv, [Next]_vars PROVE TimeInv'
  <1> SUFFICES ASSUME NEW q \in Runners
               PROVE  /\ loc'[q].now <= Now(q)'
                      /\ pc'[q] \in ClaimPCs => Now(q)' <= loc'[q].now + ClaimStall
                      /\ pc'[q] \in ClaimPCs \cup {"claimReread"} =>
                            loc'[q].until = loc'[q].now + LockTTL
    BY DEF TimeInv
  <1>1. /\ clock \in Nat /\ Skew[q] \in Nat /\ ClaimStall \in Nat /\ LockTTL \in Nat
        /\ loc[q].now \in Nat /\ Now(q) = clock + Skew[q] /\ Now(q)' = clock' + Skew[q]
    BY LocalsFit, ConstantsAssumption DEF IInv, TypeOK, Now
  <1>2. /\ loc[q].now <= Now(q)
        /\ pc[q] \in ClaimPCs => Now(q) <= loc[q].now + ClaimStall
        /\ pc[q] \in ClaimPCs \cup {"claimReread"} => loc[q].until = loc[q].now + LockTTL
    BY DEF LeaseInv, TimeInv
  <1>3. CASE pc'[q] = pc[q] /\ loc'[q] = loc[q] /\ clock' = clock
    BY <1>1, <1>2, <1>3
  <1>4. CASE pc'[q] = pc[q] /\ loc'[q] = loc[q] /\ Tick
    BY <1>1, <1>2, <1>4 DEF Tick
  <1>5. CASE clock' = clock /\ Leaves(q)
    BY <1>1, <1>2, <1>5 DEF Leaves, ClaimPCs
  <1>6. CASE clock' = clock /\ Starts(q)
    BY <1>1, <1>6 DEF Starts, ClaimPCs
  <1>7. CASE clock' = clock /\ Presses(q)
    BY <1>1, <1>2, <1>7 DEF Presses, EarlyPCs, ClaimPCs
  <1>8. CASE clock' = clock /\ Advances(q)
    BY <1>1, <1>2, <1>8 DEF Advances, LockTaken, RunStarts, ClaimPCs
  <1>9. CASE clock' = clock /\ Marked(q)
    BY <1>1, <1>2, <1>9 DEF Marked, ClaimPCs
  <1> QED
    BY <1>3, <1>4, <1>5, <1>6, <1>7, <1>8, <1>9, StepOnRunners DEF RunnerFate

LEMMA HoldStep ==
  ASSUME PromptClaims, IInv, LeaseInv, [Next]_vars PROVE HoldInv'
  <1> SUFFICES ASSUME NEW q \in Runners,
                      \/ pc'[q] \in {"claimMark", "claimRun"}
                         /\ tasks'[loc'[q].task].status = "pending"
                      \/ pc'[q] = "claimReread" /\ tasks'[loc'[q].task].status = "running"
               PROVE  locks'[tasks'[loc'[q].task].type] = ClaimedLock(q)'
    BY DEF HoldInv
  <1> DEFINE k == loc[q].task
  <1>1. RunnerFate(q)
    BY StepOnRunners
  <1>2. loc'[q] = loc[q] /\ ClaimedLock(q)' = ClaimedLock(q)
    BY <1>1 DEF RunnerFate, Leaves, Starts, Presses, Marked, EarlyPCs, Advances, ClaimedLock
  <1>3. pc[q] \in ClaimPCs \cup {"claimReread"}
    BY <1>1 DEF RunnerFate, Leaves, Starts, Presses, Marked, EarlyPCs, Advances, LockTaken,
       RunStarts, ClaimPCs
  <1>4. k \in TaskIds /\ tasks[k].status # "none" /\ tasks[k].type \in Types
    BY <1>3, ClaimRow
  <1>5. RowFate(k) /\ tasks'[k].type = tasks[k].type
    BY <1>4, StepOnTaskRows DEF RowFate
  <1> HIDE DEF k
  <1>6. CASE pc'[q] \in {"claimMark", "claimRun"} /\ tasks'[k].status = "pending"
    <2>1. tasks[k].status = "pending"
      BY <1>4, <1>5, <1>6 DEF RowFate
    <2>2. CASE pc[q] \in {"claimMark", "claimRun"}
      BY <1>2, <1>5, <2>1, <2>2, ClaimKeepsLock DEF k
    <2>3. CASE LockTaken(tasks[k].type, q)
      BY <1>2, <1>5, <2>3 DEF LockTaken, k
    <2> QED
      BY <1>1, <1>6, <2>2, <2>3 DEF RunnerFate, Leaves, Starts, Presses, Marked, EarlyPCs,
         Advances, k
  <1>7. CASE pc'[q] = "claimReread" /\ tasks'[k].status = "running"
    <2>1. CASE RunStarts(q, k)
      <3>1. locks[tasks[k].type] = ClaimedLock(q) /\ UNCHANGED locks
        BY <2>1 DEF RunStarts, LeaseInv, HoldInv, k
      <3> QED
        BY <1>2, <1>5, <3>1 DEF k
    <2>2. CASE pc[q] = "claimReread"
      <3>1. tasks[k].lockedBy = q /\ handler[q][k] = "none"
        BY <2>2 DEF IInv, DispatchInv, k
      <3>2. tasks[k].status = "running"
        <4>1. ASSUME NEW r \in Runners, RunStarts(r, k) PROVE FALSE
          BY <1>4, <3>1, <4>1, ConstantsAssumption DEF RunStarts, IInv, UnclaimedInv
        <4> QED
          BY <1>5, <1>7, <4>1 DEF RowFate
      <3>3. locks[tasks[k].type] = ClaimedLock(q)
        BY <2>2, <3>2 DEF LeaseInv, HoldInv, k
      <3>4. ~LockRenewed(tasks[k].type)
        <4>1. locks[tasks[k].type].by = q /\ locks[tasks[k].type].task = k
          BY <1>3, <3>3, ClaimedFields DEF k
        <4> QED
          BY <1>4, <3>1, <4>1 DEF LockRenewed, LeaseInv, GoroutineInv
      <3>5. locks'[tasks[k].type] = locks[tasks[k].type]
        BY <1>4, <3>2, <3>4, RunningKeepsLock
      <3> QED
        BY <1>2, <1>5, <3>3, <3>5 DEF k
    <2> QED
      BY <1>1, <1>7, <2>1, <2>2 DEF RunnerFate, Leaves, Starts, Presses, Marked, EarlyPCs,
         Advances, k
  <1> QED
    BY <1>2, <1>6, <1>7 DEF k

LEMMA RunStep ==
  ASSUME IInv, LeaseInv, [Next]_vars PROVE RunInv'
  <1> SUFFICES ASSUME NEW k \in TaskIds, tasks'[k].status = "running"
               PROVE  /\ locks'[tasks'[k].type] # NoLock
                      /\ locks'[tasks'[k].type].task = k
                      /\ locks'[tasks'[k].type].by = tasks'[k].lockedBy
    BY DEF RunInv, LockIs
  <1>1. RowFate(k)
    BY StepOnTaskRows
  <1>2. CASE tasks[k].status = "running" /\ tasks'[k].lockedBy = tasks[k].lockedBy
    <2> DEFINE t == tasks[k].type
    <2>1. tasks'[k].type = t /\ t \in Types
      BY <1>1, <1>2 DEF RowFate, IInv, KeyInv
    <2>2. locks[t] # NoLock /\ locks[t].task = k /\ locks[t].by = tasks[k].lockedBy
      BY <1>2 DEF LeaseInv, RunInv, LockIs
    <2>3. locks'[t] = locks[t] \/ LockRenewed(t)
      BY <1>2, RunningKeepsLock
    <2> HIDE DEF t
    <2>4. CASE LockRenewed(t)
      <3>1. PICK n \in Nat : locks'[t] = [locks[t] EXCEPT !.until = n + LockTTL]
        BY <2>4 DEF LockRenewed
      <3>2. locks[t] \in SystemTaskLock /\ n + LockTTL \in Nat
        BY <2>1, <2>2, LockFields, ConstantsAssumption
      <3>3. locks'[t] \in SystemTaskLock
            /\ locks'[t].task = locks[t].task /\ locks'[t].by = locks[t].by
        BY <3>1, <3>2 DEF SystemTaskLock
      <3>4. locks'[t] # NoLock
        BY <3>3, ConstantsAssumption DEF SystemTaskLock
      <3> QED
        BY <1>2, <2>1, <2>2, <3>3, <3>4
    <2> QED
      BY <1>2, <2>1, <2>2, <2>3, <2>4
  <1>3. ASSUME NEW r \in Runners, RunStarts(r, k)
        PROVE  /\ locks'[tasks'[k].type] # NoLock
               /\ locks'[tasks'[k].type].task = k
               /\ locks'[tasks'[k].type].by = tasks'[k].lockedBy
    <2>1. /\ pc[r] \in ClaimPCs /\ loc[r].task = k /\ tasks'[k].lockedBy = r
          /\ tasks[k].status = "pending" /\ UNCHANGED locks
      BY <1>3 DEF RunStarts, ClaimPCs
    <2>2. tasks'[k].type = tasks[k].type
      BY <1>1, <2>1 DEF RowFate
    <2>3. locks[tasks[k].type] = ClaimedLock(r)
      BY <1>3, <2>1 DEF RunStarts, LeaseInv, HoldInv
    <2> QED
      BY <2>1, <2>2, <2>3, ClaimedFields
  <1> QED
    BY <1>1, <1>2, <1>3 DEF RowFate

\* A contender of a task that goes on running was one before, with the same time.
LEMMA ContenderStays ==
  ASSUME IInv, [Next]_vars, NEW k \in TaskIds, NEW q \in Runners,
         tasks[k].status = "running", tasks'[k].status = "running", Contends(q, k)'
  PROVE  Contends(q, k) /\ loc'[q].now = loc[q].now
  <1>1. tasks'[k].type = tasks[k].type
    BY StepOnTaskRows DEF RowFate
  <1>2. ASSUME pc[q] \in EarlyPCs, loc'[q].task = loc[q].task
        PROVE  tasks'[loc'[q].task].type = tasks[loc[q].task].type
    <2>1. loc[q].task \in TaskIds /\ tasks[loc[q].task].status # "none"
      BY <1>2, ClaimRow DEF EarlyPCs, ClaimPCs
    <2> QED
      BY <1>2, <2>1, StepOnTaskRows DEF RowFate
  <1>3. CASE pc'[q] = pc[q] /\ loc'[q] = loc[q]
    BY <1>1, <1>2, <1>3 DEF Contends
  <1>4. CASE Presses(q)
    BY <1>1, <1>2, <1>4 DEF Presses, Contends, EarlyPCs
  <1>5. ~Starts(q)
    <2> SUFFICES ASSUME Starts(q) PROVE FALSE
      OBVIOUS
    <2>1. /\ loc'[q].task \in TaskIds /\ tasks[loc'[q].task].status = "pending"
          /\ tasks[loc'[q].task].type = tasks[k].type
      BY DEF Starts, Contends, tables
    <2> QED
      BY <2>1 DEF IInv, OneActivePerType, Active
  <1>6. ~Marked(q)
    BY DEF Marked, Contends, EarlyPCs
  <1>7. ~Leaves(q) /\ ~Advances(q)
    BY DEF Leaves, Advances, Contends, EarlyPCs
  <1> QED
    BY <1>3, <1>4, <1>5, <1>6, <1>7, StepOnRunners DEF RunnerFate

LEMMA FreshStep ==
  ASSUME PromptClaims, IInv, IInv', LeaseInv, [Next]_vars PROVE FreshInv'
  <1> SUFFICES ASSUME NEW k \in TaskIds, NEW q \in Runners, tasks'[k].status = "running",
                      Contends(q, k)'
               PROVE  /\ loc'[q].now <= locks'[tasks'[k].type].until
                      /\ heartbeat'[tasks'[k].lockedBy][k] = "beating" =>
                            loc'[q].now <= since'[k] + LockTTL
    BY DEF FreshInv
  <1> DEFINE t == tasks[k].type
             r == tasks'[k].lockedBy
  <1>1. RowFate(k)
    BY StepOnTaskRows
  <1>2. tasks[k].status # "none" /\ tasks'[k].type = t /\ t \in Types
    BY <1>1 DEF RowFate, RunStarts, IInv, KeyInv
  <1>3. LockTTL \in Nat /\ loc[q].now \in Nat /\ since[k] \in Nat
    BY LocalsFit, ConstantsAssumption DEF IInv, TypeOK
  <1>4. ASSUME NEW p \in Runners, RunStarts(p, k)
        PROVE  /\ loc'[q].now <= locks'[t].until
               /\ heartbeat'[r][k] # "beating"
    <2>1. /\ pc[p] \in ClaimPCs /\ loc[p].task = k /\ r = p /\ tasks[k].status = "pending"
          /\ UNCHANGED <<locks, loc, heartbeat>>
      BY <1>4 DEF RunStarts, ClaimPCs
    <2>2. locks[t] = ClaimedLock(p)
      BY <1>4, <2>1 DEF RunStarts, LeaseInv, HoldInv
    <2>3. locks[t].until = loc[p].until /\ loc[q].now <= loc[p].until
      BY <2>1, <2>2, ClaimedFields, ClaimOutlivesOthers DEF LeaseInv
    <2>4. heartbeat[p][k] # "beating"
      BY <2>1 DEF LeaseInv, GoroutineInv, IInv, HandlerInv, ClaimInv
    <2> QED
      BY <2>1, <2>3, <2>4
  <1>5. ASSUME tasks[k].status = "running", tasks[k].lockedBy = r
        PROVE  /\ loc'[q].now <= locks'[t].until
               /\ heartbeat'[r][k] = "beating" => loc'[q].now <= since'[k] + LockTTL
    <2>1. Contends(q, k) /\ loc'[q].now = loc[q].now
      BY <1>5, ContenderStays
    <2>2. /\ loc[q].now <= locks[t].until
          /\ heartbeat[r][k] = "beating" => loc[q].now <= since[k] + LockTTL
      BY <1>5, <2>1 DEF LeaseInv, FreshInv
    <2>3. locks[t] # NoLock /\ locks[t].task = k /\ locks[t].by = r /\ r \in Runners
      BY <1>2, <1>5, LockFields DEF LeaseInv, RunInv, LockIs
    <2>4. BeatFate(r, k)
      BY <2>3, StepOnHeartbeats DEF LeaseInv
    <2> HIDE DEF t, r
    <2>5. loc[q].now <= locks'[t].until
      <3>1. CASE locks'[t] = locks[t]
        BY <2>2, <3>1
      <3>2. CASE LockRenewed(t)
        <4>1. PICK n \in Nat : /\ n >= since[k]
                               /\ locks'[t] = [locks[t] EXCEPT !.until = n + LockTTL]
          BY <2>3, <3>2 DEF LockRenewed
        <4>2. heartbeat[r][k] = "beating"
          BY <2>3, <3>2 DEF LockRenewed
        <4>3. locks'[t].until = n + LockTTL
          BY <1>2, <2>3, <4>1, LockFields DEF SystemTaskLock
        <4> QED
          BY <1>3, <2>2, <4>1, <4>2, <4>3
      <3> QED
        BY <1>5, <3>1, <3>2, RunningKeepsLock DEF t
    <2>6. ASSUME heartbeat'[r][k] = "beating" PROVE loc[q].now <= since'[k] + LockTTL
      <3>1. CASE heartbeat[r][k] = "beating" /\ since'[k] = since[k]
        BY <2>2, <3>1
      <3>2. CASE pc[r] = "claimReread" /\ loc[r].task = k /\ since'[k] = Now(r)
        <4>1. locks[t] = ClaimedLock(r)
          BY <1>5, <2>3, <3>2 DEF LeaseInv, HoldInv, t
        <4>2. locks[t].until = loc[r].until
          BY <2>3, <3>2, <4>1, ClaimedFields
        <4>3. loc[r].until = loc[r].now + LockTTL /\ loc[r].now <= Now(r)
          BY <2>3, <3>2 DEF LeaseInv, TimeInv
        <4>4. loc[r].now \in Nat /\ Now(r) \in Nat
          BY <2>3, LocalsFit, NowType DEF IInv
        <4> QED
          BY <1>3, <2>2, <3>2, <4>2, <4>3, <4>4
      <3> QED
        BY <2>4, <2>6, <3>1, <3>2 DEF BeatFate
    <2> QED
      BY <2>1, <2>5, <2>6
  <1> HIDE DEF t, r
  <1> QED
    BY <1>1, <1>2, <1>4, <1>5 DEF RowFate, r

LEMMA StepLeased ==
  ASSUME PromptClaims, IInv, IInv', LeaseInv, [Next]_vars PROVE LeaseInv'
  BY GoroutineStep, LockTypeStep, TimeStep, HoldStep, RunStep, FreshStep DEF LeaseInv

LEMMA InitLeased == Init => LeaseInv
  <1> SUFFICES ASSUME Init PROVE LeaseInv
    OBVIOUS
  <1>1. GoroutineInv /\ LockTypeInv /\ RunInv
    BY DEF Init, GoroutineInv, LockTypeInv, RunInv
  <1>2. HoldInv /\ FreshInv
    BY DEF Init, HoldInv, FreshInv
  <1>3. TimeInv
    BY ConstantsAssumption DEF Init, TimeInv, NoLocals, Now, ClaimPCs
  <1> QED
    BY <1>1, <1>2, <1>3 DEF LeaseInv

LEMMA LeaseInvariance == Spec => [](PromptClaims => LeaseInv)
  <1>1. Init => (PromptClaims => LeaseInv)
    BY InitLeased
  <1>2. IInv /\ IInv' /\ (PromptClaims => LeaseInv) /\ [Next]_vars => (PromptClaims => LeaseInv)'
    <2> SUFFICES ASSUME IInv, IInv', PromptClaims => LeaseInv, [Next]_vars, PromptClaims'
                 PROVE  LeaseInv'
      OBVIOUS
    <2>1. PromptClaims
      BY DEF PromptClaims
    <2> QED
      BY <2>1, StepLeased
  <1> QED
    BY <1>1, <1>2, Invariance, PTL DEF Spec

\* Every running task is backed by the lock row of its runner, for any number of
\* runners, crashes, failed statements and stalled handlers, when a claim and the
\* difference of the nodes' clocks fit in one lease: the claimer still has the
\* lock when it sets the row running, and whoever tries to take the lock read its
\* time too early to find the lease stale.
THEOREM RunningStaysLeased == Spec => [](PromptClaims => RunningIsLeased)
  <1>1. IInv /\ (PromptClaims => LeaseInv) => (PromptClaims => RunningIsLeased)
    BY DEF LeaseInv, RunInv, RunningIsLeased, Leased, IInv, KeyInv
  <1> QED
    BY <1>1, Invariance, LeaseInvariance, PTL
=============================================================================
