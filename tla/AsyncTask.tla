----------------------------- MODULE AsyncTask -----------------------------
(***************************************************************************)
(* Asynchronous (Suno and video) tasks after their submission: the rows of *)
(* the table tasks (model/task.go), the polling pass that moves them and   *)
(* bills them (service/task_polling.go, service/task_billing.go), and the  *)
(* client's fetch, which asks Gemini and Vertex directly                   *)
(* (relay/relay_task.go).                                                  *)
(*                                                                         *)
(* One pass at a time runs while the lease of its system task holds; after *)
(* a lost lease a second node starts while the first one still works, so   *)
(* there are several pollers.  A step is one statement or one upstream     *)
(* call; a poller works on its own copy of the row.  Of progress only      *)
(* whether it is "100%" is kept: a row that says so is read by no pass,    *)
(* whatever its status.                                                    *)
(***************************************************************************)
EXTENDS Integers, FiniteSets

CONSTANTS
    Tasks,        \* submitted tasks
    Kinds,        \* the kinds of tasks the run covers
    Pollers,      \* nodes that execute a polling pass
    Quotas,       \* the quotas a submission may settle
    Actuals,      \* the quotas a completed task may turn out to cost, 0 for no adjustment
    TimeoutOn,    \* TaskTimeoutMinutes > 0
    AnyProgress,  \* a video provider may answer with a progress that does not fit the status
    BadAnswers,   \* a video provider may answer with an error while the task goes on
    ChannelsGo,   \* the channel of a task, or its upstream id, may be gone when it is polled
    MaxFaults,    \* bound: failing statements and crashing pollers
    NoStatus

ASSUME AsyncAssumption ==
    /\ Kinds \subseteq {"suno", "video", "gemini", "legacy"}
    /\ Quotas \subseteq Nat /\ Actuals \subseteq Nat /\ MaxFaults \in Nat
    /\ TimeoutOn \in BOOLEAN /\ AnyProgress \in BOOLEAN
    /\ BadAnswers \in BOOLEAN /\ ChannelsGo \in BOOLEAN
    /\ NoStatus \notin {"NOT_START", "IN_PROGRESS", "SUCCESS", "FAILURE"}

VARIABLES
    row,       \* the table tasks: status, quota and whether progress is "100%"
    kind,      \* the platform of each task: suno, gemini (and Vertex), other video, or
               \* a video task submitted before TaskRefundLegacyCutoff
    upstream,  \* what the provider made of each task
    late,      \* the tasks whose submit_time is before the timeout's cutoff
    work,      \* work[p][t]: what poller p does with task t, on its own copy
    fetch,     \* fetch[t]: the copy of a client's fetch of task t in flight
    funds,     \* what the task's wallet or subscription has been charged for it
    token,     \* what the task's API token has been charged for it
    faults,    \* faults spent so far
    faulty,    \* history: tasks whose billing met a failing statement or a crash
    orphans    \* history: tasks that a pass failed without looking at the provider

vars == <<row, kind, upstream, late, work, fetch, funds, token, faults, faulty, orphans>>

-----------------------------------------------------------------------------
Terminal == {"SUCCESS", "FAILURE"}
\* NOT_START stands for NOT_START, SUBMITTED and QUEUED.
Statuses == {"NOT_START", "IN_PROGRESS"} \cup Terminal

\* Progresses other than "100%" are one.
Progresses == {"below", "100%"}

Row == [status : Statuses \cup {NoStatus}, quota : Nat, progress : Progresses]
NoRow == [status |-> NoStatus, quota |-> 0, progress |-> "below"]

\* Row or copy r with status s and progress x.
Set(r, s, x) == [status |-> s, quota |-> r.quota, progress |-> x]

\* A worker: its program counter, the status it read, its copy of the row and,
\* for a completed task, the actual quota.
WorkPCs == {"idle", "poll", "cas", "refundFund", "refundToken", "refundClear",
            "adjustFund", "adjustToken", "adjustWrite"}
Work == [pc : WorkPCs, from : Statuses \cup {NoStatus}, copy : Row, actual : Nat]
NoWork == [pc |-> "idle", from |-> NoStatus, copy |-> NoRow, actual |-> 0]

Fetches == [on : BOOLEAN, from : Statuses \cup {NoStatus}, copy : Row]
NoFetch == [on |-> FALSE, from |-> NoStatus, copy |-> NoRow]

Init ==
    /\ row = [t \in Tasks |-> NoRow]
    /\ kind \in [Tasks -> Kinds]
    /\ upstream = [t \in Tasks |-> "NOT_START"]
    /\ late = {}
    /\ work = [p \in Pollers |-> [t \in Tasks |-> NoWork]]
    /\ fetch = [t \in Tasks |-> NoFetch]
    /\ funds = [t \in Tasks |-> 0]
    /\ token = [t \in Tasks |-> 0]
    /\ faults = 0
    /\ faulty = {}
    /\ orphans = {}

Open(t) == row[t].status \in Statuses \ Terminal

\* The condition of GetAllUnFinishSyncTasks and GetTimedOutUnfinishedTasks.
Unfinished(t) == Open(t) /\ row[t].progress # "100%"

SetWork(p, t, w) == work' = [work EXCEPT ![p] = [@ EXCEPT ![t] = w]]
At(p, t, label) == [work[p][t] EXCEPT !.pc = label]

Fault(t) ==
    /\ faults < MaxFaults
    /\ faults' = faults + 1
    /\ faulty' = faulty \cup {t}
NoFault == UNCHANGED <<faults, faulty>>

-----------------------------------------------------------------------------
(* Submission, the provider and the clock.                                 *)

\* RelayTask after a successful submission: the billing session has settled
\* result.Quota and the row is inserted with it.  A failing insertion is only
\* logged: the task is paid for and unknown to the gateway.
Submit(t) ==
    /\ row[t].status = NoStatus /\ t \notin faulty
    /\ \E q \in Quotas :
          /\ \/ /\ row' = [row EXCEPT ![t] = [status |-> "NOT_START", quota |-> q, progress |-> "below"]]
                /\ NoFault
             \/ Fault(t) /\ UNCHANGED row
          /\ funds' = [funds EXCEPT ![t] = q]
          /\ token' = [token EXCEPT ![t] = q]
    /\ UNCHANGED <<kind, upstream, late, work, fetch, orphans>>

\* The provider works on the task; its outcome does not change any more.
Provider(t) ==
    /\ upstream[t] \notin Terminal
    /\ \E s \in Statuses \ {"NOT_START"} : upstream' = [upstream EXCEPT ![t] = s]
    /\ NoFault
    /\ UNCHANGED <<row, kind, late, work, fetch, funds, token, orphans>>

GetsLate(t) ==
    /\ row[t].status # NoStatus
    /\ late' = late \cup {t}
    /\ NoFault
    /\ UNCHANGED <<row, kind, upstream, work, fetch, funds, token, orphans>>

-----------------------------------------------------------------------------
(* The polling pass.                                                       *)

\* Mutation: the sweep looks only at tasks in progress.
SweepRead_Started(p, t) ==
    /\ TimeoutOn
    /\ work[p][t].pc = "idle" /\ Unfinished(t) /\ row[t].status = "IN_PROGRESS" /\ t \in late
    /\ SetWork(p, t, [NoWork EXCEPT !.pc = "cas", !.from = row[t].status,
                        !.copy = Set(row[t], "FAILURE", "100%")])
    /\ NoFault
    /\ UNCHANGED <<row, kind, upstream, late, fetch, funds, token, orphans>>

\* sweepTimedOutTasks reads a task that timed out and fails its copy; a legacy
\* task loses its quota with it and is not refunded.
SweepRead(p, t) ==
    /\ TimeoutOn
    /\ work[p][t].pc = "idle" /\ Unfinished(t) /\ t \in late
    /\ SetWork(p, t, [NoWork EXCEPT !.pc = "cas", !.from = row[t].status,
                        !.copy = [status |-> "FAILURE",
                                  quota |-> IF kind[t] = "legacy" THEN 0 ELSE row[t].quota,
                                  progress |-> "100%"]])
    /\ NoFault
    /\ UNCHANGED <<row, kind, upstream, late, fetch, funds, token, orphans>>

\* GetAllUnFinishSyncTasks reads a task.
PollRead(p, t) ==
    /\ work[p][t].pc = "idle" /\ Unfinished(t)
    /\ SetWork(p, t, [NoWork EXCEPT !.pc = "poll", !.from = row[t].status, !.copy = row[t]])
    /\ NoFault
    /\ UNCHANGED <<row, kind, upstream, late, fetch, funds, token, orphans>>

\* The progress that goes with a status.
Fitting(s) == IF s \in Terminal THEN "100%" ELSE "below"

\* The copy's progress after the answer.  For Suno it changes at the end of the task
\* only; a video provider's own progress replaces the one that fits the status, except
\* for a failure.
ProgressAfter(p, t) ==
    IF kind[t] = "suno" /\ upstream[t] \notin Terminal
    THEN {work[p][t].copy.progress}
    ELSE {Fitting(upstream[t])}
         \cup {x \in Progresses : AnyProgress /\ kind[t] # "suno" /\ upstream[t] # "FAILURE"}

\* updateVideoSingleTask and the loop of updateSunoTasks up to their statement:
\* the answer is copied.  An error answer of a video provider counts as a failure
\* of the task; a failing call leaves it to the next pass.
PollAnswer(p, t) ==
    /\ work[p][t].pc = "poll"
    /\ \/ /\ \E a \in Actuals, x \in ProgressAfter(p, t) :
                SetWork(p, t, [At(p, t, "cas") EXCEPT
                                 !.copy = Set(@, upstream[t], x),
                                 !.actual = a])
          /\ NoFault
       \/ /\ BadAnswers /\ kind[t] # "suno"
          /\ NoFault
          /\ SetWork(p, t, [At(p, t, "cas") EXCEPT !.copy = Set(@, "FAILURE", "100%")])
       \/ SetWork(p, t, NoWork) /\ NoFault
    /\ UNCHANGED <<row, kind, upstream, late, fetch, funds, token, orphans>>

\* Mutation: the update is not guarded by the status that was read.
CASWins_Always(t, from) == TRUE

\* The predicate of UpdateWithStatus.
CASWins(t, from) == row[t].status = from

\* Mutation: only a task that was seen in progress is refunded.
Billing_Started(t, w) ==
    CASE w.copy.status = "FAILURE" /\ w.copy.quota # 0 /\ w.from = "IN_PROGRESS" ->
            [w EXCEPT !.pc = "refundFund"]
      [] /\ w.copy.status = "SUCCESS" /\ kind[t] # "suno"
         /\ w.actual > 0 /\ w.actual # w.copy.quota -> [w EXCEPT !.pc = "adjustFund"]
      [] OTHER -> NoWork

\* What the winner of the compare-and-set does next: a failed task with quota is
\* refunded, a completed video task settled with its actual quota, if there is one.
Billing(t, w) ==
    CASE w.copy.status = "FAILURE" /\ w.copy.quota # 0 -> [w EXCEPT !.pc = "refundFund"]
      [] /\ w.copy.status = "SUCCESS" /\ kind[t] # "suno"
         /\ w.actual > 0 /\ w.actual # w.copy.quota -> [w EXCEPT !.pc = "adjustFund"]
      [] OTHER -> NoWork

\* UpdateWithStatus writes every column of the copy; the loser bills nothing.
UpdateWithStatus(p, t) ==
    LET w == work[p][t]
    IN  /\ w.pc = "cas"
        /\ \/ /\ CASWins(t, w.from)
              /\ row' = [row EXCEPT ![t] = w.copy]
              /\ SetWork(p, t, Billing(t, w))
              /\ NoFault
           \/ /\ ~CASWins(t, w.from)
              /\ SetWork(p, t, NoWork)
              /\ NoFault
              /\ UNCHANGED row
           \/ /\ Fault(t)
              /\ SetWork(p, t, NoWork)
              /\ UNCHANGED row
        /\ UNCHANGED <<kind, upstream, late, fetch, funds, token, orphans>>

\* The channel of the task cannot be read, or the task has no upstream id:
\* TaskBulkUpdateByID fails it, unconditionally, and nothing is billed.
BulkFail(p, t) ==
    /\ ChannelsGo
    /\ work[p][t].pc = "poll"
    /\ \/ /\ row' = [row EXCEPT ![t] = Set(@, "FAILURE", "100%")]
          /\ orphans' = orphans \cup {t}
          /\ NoFault
       \/ /\ Fault(t)
          /\ UNCHANGED <<row, orphans>>
    /\ SetWork(p, t, NoWork)
    /\ UNCHANGED <<kind, upstream, late, fetch, funds, token>>

-----------------------------------------------------------------------------
(* RefundTaskQuota and RecalculateTaskQuota.                               *)

ToRefund(p, t) == work[p][t].copy.quota

\* taskAdjustFunding(-quota); on an error nothing else happens and the quota stays.
RefundFund(p, t) ==
    /\ work[p][t].pc = "refundFund"
    /\ \/ /\ funds' = [funds EXCEPT ![t] = @ - ToRefund(p, t)]
          /\ SetWork(p, t, At(p, t, "refundToken"))
          /\ NoFault
       \/ /\ Fault(t)
          /\ SetWork(p, t, NoWork)
          /\ UNCHANGED funds
    /\ UNCHANGED <<row, kind, upstream, late, fetch, token, orphans>>

\* taskAdjustTokenQuota(-quota); a deleted token or an error is only logged.
RefundToken(p, t) ==
    /\ work[p][t].pc = "refundToken"
    /\ \/ token' = [token EXCEPT ![t] = @ - ToRefund(p, t)] /\ NoFault
       \/ Fault(t) /\ UNCHANGED token
    /\ SetWork(p, t, At(p, t, "refundClear"))
    /\ UNCHANGED <<row, kind, upstream, late, fetch, funds, orphans>>

\* UpdateQuota writes the quota alone.
WriteQuota(p, t, q) ==
    /\ \/ row' = [row EXCEPT ![t] = [@ EXCEPT !.quota = q]] /\ NoFault
       \/ Fault(t) /\ UNCHANGED row
    /\ SetWork(p, t, NoWork)
    /\ UNCHANGED <<kind, upstream, late, fetch, funds, token, orphans>>

RefundClear(p, t) ==
    /\ work[p][t].pc = "refundClear"
    /\ WriteQuota(p, t, 0)

\* RecalculateTaskQuota: the difference to the quota of the copy.
QuotaDelta(p, t) == work[p][t].actual - work[p][t].copy.quota

AdjustFund(p, t) ==
    /\ work[p][t].pc = "adjustFund"
    /\ \/ /\ funds' = [funds EXCEPT ![t] = @ + QuotaDelta(p, t)]
          /\ SetWork(p, t, At(p, t, "adjustToken"))
          /\ NoFault
       \/ /\ Fault(t)
          /\ SetWork(p, t, NoWork)
          /\ UNCHANGED funds
    /\ UNCHANGED <<row, kind, upstream, late, fetch, token, orphans>>

AdjustToken(p, t) ==
    /\ work[p][t].pc = "adjustToken"
    /\ \/ token' = [token EXCEPT ![t] = @ + QuotaDelta(p, t)] /\ NoFault
       \/ Fault(t) /\ UNCHANGED token
    /\ SetWork(p, t, At(p, t, "adjustWrite"))
    /\ UNCHANGED <<row, kind, upstream, late, fetch, funds, orphans>>

\* Mutation: the difference is stored for the actual quota.
AdjustWrite_Delta(p, t) ==
    /\ work[p][t].pc = "adjustWrite"
    /\ WriteQuota(p, t, QuotaDelta(p, t))

AdjustWrite(p, t) ==
    /\ work[p][t].pc = "adjustWrite"
    /\ WriteQuota(p, t, work[p][t].actual)

\* The node of poller p goes down with the pass it executes.
Crash(p) ==
    /\ faults < MaxFaults
    /\ \E t \in Tasks : work[p][t].pc # "idle"
    /\ faults' = faults + 1
    /\ faulty' = faulty \cup {t \in Tasks : work[p][t].pc # "idle"}
    /\ work' = [work EXCEPT ![p] = [t \in Tasks |-> NoWork]]
    /\ UNCHANGED <<row, kind, upstream, late, fetch, funds, token, orphans>>

-----------------------------------------------------------------------------
(* The client's fetch.                                                     *)

\* videoFetchByIDRespBodyBuilder reads the row, whatever its status.
FetchRead(t) ==
    /\ kind[t] = "gemini" /\ row[t].status # NoStatus /\ ~fetch[t].on
    /\ fetch' = [fetch EXCEPT ![t] = [on |-> TRUE, from |-> row[t].status, copy |-> row[t]]]
    /\ NoFault
    /\ UNCHANGED <<row, kind, upstream, late, work, funds, token, orphans>>

\* What the fetch may have been told: the provider's status, or the one it read (a
\* call of a while ago, which changes the progress or the URL).
FetchAnswers(t) ==
    {upstream[t], fetch[t].from} \cup (IF BadAnswers THEN {"FAILURE"} ELSE {})

\* tryRealtimeFetch: without an answer, or with one that changes nothing, the row
\* stays; else every column of the copy replaces it if its status is still the
\* one that was read.  Gemini and Vertex give the progress that fits the status.
\* Nothing is billed.
FetchWrite(t) ==
    /\ fetch[t].on
    /\ fetch' = [fetch EXCEPT ![t] = NoFetch]
    /\ \/ UNCHANGED row
       \/ /\ CASWins(t, fetch[t].from)
          /\ \E answer \in FetchAnswers(t) :
                row' = [row EXCEPT ![t] = Set(fetch[t].copy, answer, Fitting(answer))]
    /\ NoFault
    /\ UNCHANGED <<kind, upstream, late, work, funds, token, orphans>>

-----------------------------------------------------------------------------
Step(p, t) ==
    \/ PollAnswer(p, t) \/ UpdateWithStatus(p, t) \/ BulkFail(p, t)
    \/ RefundFund(p, t) \/ RefundToken(p, t) \/ RefundClear(p, t)
    \/ AdjustFund(p, t) \/ AdjustToken(p, t) \/ AdjustWrite(p, t)

Next ==
    \/ \E t \in Tasks : Submit(t) \/ Provider(t) \/ GetsLate(t) \/ FetchRead(t) \/ FetchWrite(t)
    \/ \E p \in Pollers, t \in Tasks : SweepRead(p, t) \/ PollRead(p, t) \/ Step(p, t)
    \/ \E p \in Pollers : Crash(p)

Spec == Init /\ [][Next]_vars

\* Time passes; the system task of the polling pass is created again and again
\* while a task is unfinished, its pass sweeps before it polls and goes on to its
\* end.  An answer of the provider is not guaranteed.
Fairness ==
    /\ \A t \in Tasks : WF_vars(GetsLate(t)) /\ WF_vars(FetchWrite(t))
    /\ \A p \in Pollers, t \in Tasks : SF_vars(SweepRead(p, t)) /\ WF_vars(Step(p, t))

FairSpec == Spec /\ Fairness

-----------------------------------------------------------------------------
(* Properties.                                                             *)

\* Every variable has its type.
TypeOK ==
    /\ row \in [Tasks -> Row]
    /\ kind \in [Tasks -> Kinds]
    /\ upstream \in [Tasks -> Statuses]
    /\ late \subseteq Tasks
    /\ work \in [Pollers -> [Tasks -> Work]]
    /\ fetch \in [Tasks -> Fetches]
    /\ funds \in [Tasks -> Int] /\ token \in [Tasks -> Int]
    /\ faults \in Nat /\ faulty \subseteq Tasks /\ orphans \subseteq Tasks

\* Overlapping pollers, the timeout sweep, failing statements, crashes and later
\* passes never refund a task twice: neither its funding nor its token ever got
\* back more than it was charged (the compare-and-set of UpdateWithStatus).
NeverRefundedTwice == \A t \in Tasks : funds[t] >= 0 /\ token[t] >= 0

Billed(p, t) == work[p][t].pc \notin {"idle", "poll", "cas"}

\* The quota of a row is the truth about the money: unless a poller is in the
\* middle of its billing, or an error hit it, the funding and the token of a task
\* are charged exactly the quota that its row states (a legacy task excepted).
QuotaIsTruth ==
    \A t \in Tasks : (\A p \in Pollers : ~Billed(p, t)) /\ t \notin faulty /\ kind[t] # "legacy"
                     => funds[t] = row[t].quota /\ token[t] = row[t].quota

\* The outcome of a task is final: no poller, sweep or fetch replaces SUCCESS by
\* FAILURE, FAILURE by SUCCESS, or reopens the task.
OutcomeIsFinal ==
    [][\A t \in Tasks : row[t].status \in Terminal => row'[t].status = row[t].status]_vars

\* A task that a poller or the timeout sweep fails is refunded, unless a statement
\* of its billing fails or its node goes down: the winner of the compare-and-set
\* carries the refund through.
PolledFailureIsRefunded ==
    \A t \in Tasks :
        row[t].status = "FAILURE"
        ~> funds[t] = 0 \/ t \in faulty \/ kind[t] = "legacy" \/ t \in orphans

\* RefundTaskQuota "returns the pre-consumed quota to the user when an asynchronous
\* task fails": every failed task whose billing met no error is refunded.
FailedIsRefunded ==
    \A t \in Tasks :
        row[t].status = "FAILURE" ~> funds[t] = 0 \/ t \in faulty \/ kind[t] = "legacy"

\* An open row with a progress of "100%": no pass and no sweep reads it.
Hidden(t) == Open(t) /\ row[t].progress = "100%"

\* The timeout sweep ends every task although its provider answers nothing, or errors,
\* and although pollers crash.  The one way to stay open is to be hidden for good: an
\* answer for a task in progress with a progress of "100%" was stored, and no pass
\* with an older copy took it back.
TaskEnds ==
    \A t \in Tasks : row[t].status # NoStatus ~> row[t].status \in Terminal \/ []Hidden(t)

\* The timeout sweep ends every task, "100%" or not.
EveryTaskEnds == \A t \in Tasks : row[t].status # NoStatus ~> row[t].status \in Terminal
=============================================================================
