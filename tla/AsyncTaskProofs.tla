-------------------------- MODULE AsyncTaskProofs ---------------------------
(***************************************************************************)
(* Proofs about AsyncTask, for every number of tasks and pollers, all      *)
(* quotas and any number of faults.                                        *)
(***************************************************************************)
EXTENDS AsyncTask, TLAPS

-----------------------------------------------------------------------------
(* Types                                                                   *)

\* A poller's step on one task replaces one entry of work.
LEMMA SetWorkIs ==
    ASSUME TypeOK, NEW p \in Pollers, NEW t \in Tasks, NEW w, SetWork(p, t, w)
    PROVE  /\ \A q \in Pollers, u \in Tasks :
                 work'[q][u] = IF q = p /\ u = t THEN w ELSE work[q][u]
           /\ w \in Work => work' \in [Pollers -> [Tasks -> Work]]
  BY DEF TypeOK, SetWork

\* NoWork and a worker at another label are workers.
LEMMA WorkTypes ==
    ASSUME TypeOK, NEW p \in Pollers, NEW t \in Tasks
    PROVE  /\ NoWork \in Work /\ NoWork.pc = "idle"
           /\ work[p][t] \in Work
           /\ \A label \in WorkPCs : At(p, t, label) \in Work
           /\ \A label : At(p, t, label) = [pc |-> label, from |-> work[p][t].from,
                                           copy |-> work[p][t].copy,
                                           actual |-> work[p][t].actual]
<1>1. NoWork \in Work /\ NoWork.pc = "idle"
  BY DEF Work, NoWork, NoRow, Row, Progresses, WorkPCs
<1>2. work[p][t] \in Work
  BY DEF TypeOK
<1>3. ASSUME NEW label
      PROVE  At(p, t, label) = [pc |-> label, from |-> work[p][t].from,
                                copy |-> work[p][t].copy, actual |-> work[p][t].actual]
  BY <1>2 DEF Work, At
<1>4. ASSUME NEW label \in WorkPCs PROVE At(p, t, label) \in Work
  BY <1>2, <1>3 DEF Work
<1> QED BY <1>1, <1>2, <1>3, <1>4

\* What a fault, or none, does to the history.
LEMMA FaultTypes ==
    ASSUME TypeOK, NEW t \in Tasks, NoFault \/ Fault(t)
    PROVE  faults' \in Nat /\ faulty' \subseteq Tasks /\ faulty \subseteq faulty'
  BY DEF TypeOK, NoFault, Fault

\* A row, or a copy of one, with another status and progress.
LEMMA RowAt ==
    ASSUME NEW r \in Row, NEW s, NEW prog
    PROVE  /\ Set(r, s, prog).status = s /\ Set(r, s, prog).quota = r.quota
           /\ s \in Statuses \cup {NoStatus} /\ prog \in Progresses => Set(r, s, prog) \in Row
  BY DEF Row, Set

\* The initial state is well typed.
LEMMA InitType == Init => TypeOK
  BY DEF Init, TypeOK, Row, NoRow, Progresses, Statuses, Work, WorkPCs, NoWork, Fetches, NoFetch

\* The next worker of the winner of the compare-and-set.
LEMMA BillingIs ==
    ASSUME TypeOK, NEW p \in Pollers, NEW t \in Tasks
    PROVE  LET w == work[p][t]
           IN  /\ Billing(t, w) \in Work
               /\ \/ /\ w.copy.status = "FAILURE"
                     /\ Billing(t, w) = At(p, t, "refundFund")
                     /\ w.copy.quota # 0
                  \/ /\ w.copy.status = "SUCCESS"
                     /\ Billing(t, w) = At(p, t, "adjustFund")
                  \/ Billing(t, w) = NoWork
  BY WorkTypes DEF Billing, At, WorkPCs

\* A step of a poller on a task: its worker and at most the row and the money change.
LEMMA StepType ==
    ASSUME TypeOK, NEW p \in Pollers, NEW t \in Tasks, NEW w \in Work, SetWork(p, t, w),
           NoFault \/ Fault(t), row' \in [Tasks -> Row], funds' \in [Tasks -> Int],
           token' \in [Tasks -> Int], orphans' \subseteq Tasks,
           UNCHANGED <<kind, upstream, late, fetch>>
    PROVE  TypeOK'
  BY SetWorkIs, FaultTypes DEF TypeOK

\* Every step keeps the types.
LEMMA NextType == TypeOK /\ [Next]_vars => TypeOK'
<1> SUFFICES ASSUME TypeOK, [Next]_vars PROVE TypeOK'
  OBVIOUS
<1> USE AsyncAssumption
<1>0. CASE UNCHANGED vars
  BY <1>0 DEF vars, TypeOK
<1>1. ASSUME NEW t \in Tasks, Submit(t) PROVE TypeOK'
  <2>1. PICK q \in Quotas :
          /\ \/ row' = [row EXCEPT ![t] = [status |-> "NOT_START", quota |-> q, progress |-> "below"]] /\ NoFault
             \/ Fault(t) /\ UNCHANGED row
          /\ funds' = [funds EXCEPT ![t] = q]
          /\ token' = [token EXCEPT ![t] = q]
    BY <1>1 DEF Submit
  <2>2. row' \in [Tasks -> Row]
    <3>1. [status |-> "NOT_START", quota |-> q, progress |-> "below"] \in Row
      BY DEF Row, Statuses, Progresses
    <3> QED BY <2>1, <3>1 DEF TypeOK
  <2>3. funds' \in [Tasks -> Int] /\ token' \in [Tasks -> Int]
    BY <2>1 DEF TypeOK
  <2>4. faults' \in Nat /\ faulty' \subseteq Tasks
    BY <2>1, FaultTypes
  <2>5. UNCHANGED <<kind, upstream, late, work, fetch, orphans>>
    BY <1>1 DEF Submit
  <2> QED BY <2>2, <2>3, <2>4, <2>5 DEF TypeOK
<1>2. ASSUME NEW t \in Tasks, Provider(t) \/ GetsLate(t) PROVE TypeOK'
  BY <1>2, FaultTypes DEF Provider, GetsLate, TypeOK
<1>3. ASSUME NEW t \in Tasks, FetchRead(t) PROVE TypeOK'
  BY <1>3, FaultTypes DEF FetchRead, TypeOK, Fetches, Row
<1>4. ASSUME NEW t \in Tasks, FetchWrite(t) PROVE TypeOK'
  <2>1. fetch' \in [Tasks -> Fetches]
    BY <1>4 DEF FetchWrite, TypeOK, Fetches, NoFetch, NoRow, Row, Progresses
  <2>2. row' \in [Tasks -> Row]
    <3>1. FetchAnswers(t) \subseteq Statuses \cup {NoStatus}
      BY DEF FetchAnswers, TypeOK, Fetches, Statuses, Terminal
    <3>2. \A a \in FetchAnswers(t) : Set(fetch[t].copy, a, Fitting(a)) \in Row
      <4>1. fetch[t].copy \in Row
        BY DEF TypeOK, Fetches
      <4> QED BY <3>1, <4>1, RowAt DEF Fitting, Progresses
    <3> QED BY <1>4, <3>2 DEF FetchWrite, TypeOK
  <2> QED BY <1>4, <2>1, <2>2, FaultTypes DEF FetchWrite, TypeOK
<1>5. ASSUME NEW p \in Pollers, NEW t \in Tasks, SweepRead(p, t) \/ PollRead(p, t) PROVE TypeOK'
  <2>1. PICK w \in Work : SetWork(p, t, w)
    <3>1. row[t] \in Row /\ row[t].status \in Statuses \cup {NoStatus} /\ row[t].quota \in Nat
      BY DEF TypeOK, Row
    <3>2. [NoWork EXCEPT !.pc = "cas", !.from = row[t].status,
             !.copy = [status |-> "FAILURE",
                       quota |-> IF kind[t] = "legacy" THEN 0 ELSE row[t].quota,
                       progress |-> "100%"]] \in Work
      BY <3>1 DEF Work, NoWork, WorkPCs, Row, Progresses, Statuses, Terminal
    <3>3. [NoWork EXCEPT !.pc = "poll", !.from = row[t].status, !.copy = row[t]] \in Work
      BY <3>1 DEF Work, NoWork, WorkPCs
    <3> QED BY <1>5, <3>2, <3>3 DEF SweepRead, PollRead
  <2> QED BY <1>5, <2>1, StepType DEF SweepRead, PollRead, TypeOK
<1>6. ASSUME NEW p \in Pollers, NEW t \in Tasks, PollAnswer(p, t) PROVE TypeOK'
  <2>1. At(p, t, "cas") \in Work /\ NoWork \in Work
    BY WorkTypes DEF WorkPCs
  <2>2. upstream[t] \in Statuses
    BY DEF TypeOK
  <2>3. \A a \in Actuals, prog \in ProgressAfter(p, t) :
           [At(p, t, "cas") EXCEPT !.copy = Set(@, upstream[t], prog), !.actual = a] \in Work
    <3>1. At(p, t, "cas").copy \in Row /\ work[p][t].copy.progress \in Progresses
      BY <2>1, WorkTypes DEF Work, Row
    <3>2. ProgressAfter(p, t) \subseteq Progresses
      BY <3>1 DEF ProgressAfter, Fitting, Progresses
    <3> QED BY <2>1, <2>2, <3>1, <3>2, RowAt DEF Work
  <2>4. [At(p, t, "cas") EXCEPT !.copy = Set(@, "FAILURE", "100%")] \in Work
    <3>1. At(p, t, "cas").copy \in Row /\ "FAILURE" \in Statuses /\ "100%" \in Progresses
      BY <2>1 DEF Work, Statuses, Terminal, Progresses
    <3> QED BY <2>1, <3>1, RowAt DEF Work
  <2>5. PICK w \in Work : SetWork(p, t, w)
    BY <1>6, <2>1, <2>3, <2>4 DEF PollAnswer
  <2> QED BY <1>6, <2>5, StepType DEF PollAnswer, TypeOK
<1>7. ASSUME NEW p \in Pollers, NEW t \in Tasks, UpdateWithStatus(p, t) PROVE TypeOK'
  <2>1. PICK w \in Work : SetWork(p, t, w)
    BY <1>7, WorkTypes, BillingIs DEF UpdateWithStatus
  <2>2. row' \in [Tasks -> Row]
    BY <1>7, WorkTypes DEF UpdateWithStatus, TypeOK, Work
  <2> QED BY <1>7, <2>1, <2>2, StepType DEF UpdateWithStatus, TypeOK
<1>8. ASSUME NEW p \in Pollers, NEW t \in Tasks, BulkFail(p, t) PROVE TypeOK'
  <2>1. row' \in [Tasks -> Row]
    <3>1. row[t] \in Row /\ "FAILURE" \in Statuses /\ "100%" \in Progresses
      BY DEF TypeOK, Statuses, Terminal, Progresses
    <3> QED BY <1>8, <3>1, RowAt DEF BulkFail, TypeOK
  <2> QED BY <1>8, <2>1, WorkTypes, StepType DEF BulkFail, TypeOK
<1>9. ASSUME NEW p \in Pollers, NEW t \in Tasks,
             RefundFund(p, t) \/ RefundToken(p, t) \/ AdjustFund(p, t) \/ AdjustToken(p, t)
      PROVE  TypeOK'
  <2>1. /\ At(p, t, "refundToken") \in Work /\ At(p, t, "refundClear") \in Work
        /\ At(p, t, "adjustToken") \in Work /\ At(p, t, "adjustWrite") \in Work
        /\ NoWork \in Work
    BY WorkTypes DEF WorkPCs
  <2>2. PICK w \in Work : SetWork(p, t, w)
    BY <1>9, <2>1 DEF RefundFund, RefundToken, AdjustFund, AdjustToken
  <2>3. ToRefund(p, t) \in Int /\ QuotaDelta(p, t) \in Int
    BY WorkTypes DEF ToRefund, QuotaDelta, Work, Row
  <2>4. funds' \in [Tasks -> Int] /\ token' \in [Tasks -> Int]
    BY <1>9, <2>3 DEF RefundFund, RefundToken, AdjustFund, AdjustToken, TypeOK
  <2> QED BY <1>9, <2>2, <2>4, StepType DEF RefundFund, RefundToken, AdjustFund, AdjustToken, TypeOK
<1>10. ASSUME NEW p \in Pollers, NEW t \in Tasks, RefundClear(p, t) \/ AdjustWrite(p, t) PROVE TypeOK'
  <2>1. PICK q \in Nat : WriteQuota(p, t, q)
    BY <1>10, WorkTypes DEF RefundClear, AdjustWrite, Work
  <2>2. row' \in [Tasks -> Row]
    BY <2>1 DEF WriteQuota, TypeOK, Row
  <2> QED BY <2>1, <2>2, WorkTypes, StepType DEF WriteQuota, TypeOK
<1>11. ASSUME NEW p \in Pollers, Crash(p) PROVE TypeOK'
  <2>1. NoWork \in Work
    BY DEF Work, NoWork, NoRow, Row, Progresses, WorkPCs
  <2> QED BY <1>11, <2>1 DEF Crash, TypeOK
<1> QED BY <1>0, <1>1, <1>2, <1>3, <1>4, <1>5, <1>6, <1>7, <1>8, <1>9, <1>10, <1>11 DEF Next, Step

\* Rows, the copies of pollers and fetches, and the money keep their types.
THEOREM TypeCorrect == Spec => []TypeOK
<1> QED BY InitType, NextType, PTL DEF Spec

-----------------------------------------------------------------------------
(* Refunds and the quota of the row, for tasks that no client fetches      *)
(* directly.                                                               *)

Reading(p, t) == work[p][t].pc \in {"poll", "cas"}
Quiet(t) == \A p \in Pollers : ~Billed(p, t)

\* A poller that has not written yet read an unfinished row, and while the row is unfinished
\* the copy has its quota (the sweep's copy of a legacy task has none).
ReadersInv(t) ==
    \A p \in Pollers : Reading(p, t) =>
        /\ row[t].status # NoStatus
        /\ work[p][t].from \in Statuses \ Terminal
        /\ work[p][t].pc = "cas" => work[p][t].copy.status \in Statuses
        /\ Open(t) =>
              \/ work[p][t].copy.quota = row[t].quota
              \/ /\ kind[t] = "legacy" /\ work[p][t].pc = "cas"
                 /\ work[p][t].copy.status = "FAILURE" /\ work[p][t].copy.quota = 0

\* The program counter of a poller that bills says which of funding and token it has adjusted.
BillingAt(p, t) ==
    LET w == work[p][t]
    IN  /\ w.pc \in {"refundFund", "adjustFund"} =>
              funds[t] = w.copy.quota /\ token[t] = w.copy.quota
        /\ w.pc = "refundToken" => funds[t] = 0 /\ token[t] = w.copy.quota
        /\ w.pc = "refundClear" => funds[t] = 0 /\ (t \notin faulty => token[t] = 0)
        /\ w.pc = "adjustToken" => funds[t] = w.actual /\ token[t] = w.copy.quota
        /\ w.pc = "adjustWrite" => funds[t] = w.actual /\ (t \notin faulty => token[t] = w.actual)

\* At most one poller bills a task, and the task has ended.
BillersInv(t) ==
    /\ \A p, q \in Pollers : Billed(p, t) /\ Billed(q, t) => p = q
    /\ \A p \in Pollers : Billed(p, t) => row[t].status \in Terminal /\ BillingAt(p, t)

\* A task is charged the quota of its row while it is unfinished, and afterwards unless it is
\* being billed or its billing met an error.
MoneyInv(t) ==
    /\ funds[t] >= 0 /\ token[t] >= 0
    /\ row[t].status = NoStatus =>
          row[t].quota = 0 /\ (t \notin faulty => funds[t] = 0 /\ token[t] = 0)
    /\ Open(t) => funds[t] = row[t].quota /\ token[t] = row[t].quota
    /\ Quiet(t) /\ t \notin faulty /\ kind[t] # "legacy"
          => funds[t] = row[t].quota /\ token[t] = row[t].quota

TaskInv(t) == ~fetch[t].on /\ ReadersInv(t) /\ BillersInv(t) /\ MoneyInv(t)
IInv == TypeOK /\ \A t \in Tasks : TaskInv(t)

\* Initially there is no task.
LEMMA InitIInv == Init => IInv
<1> SUFFICES ASSUME Init PROVE \A t \in Tasks : TaskInv(t)
  BY InitType DEF IInv
<1>1. \A p \in Pollers, t \in Tasks : work[p][t].pc = "idle"
  BY DEF Init, NoWork
<1>2. \A t \in Tasks : /\ ~fetch[t].on /\ row[t].status = NoStatus /\ row[t].quota = 0
                       /\ funds[t] = 0 /\ token[t] = 0
  BY DEF Init, NoFetch, NoRow
<1> QED BY <1>1, <1>2, AsyncAssumption DEF TaskInv, ReadersInv, BillersInv, MoneyInv, Reading,
              Billed, Open, Statuses, Terminal

\* A task that a step does not touch keeps its invariant; an error only excuses more.
LEMMA Elsewhere ==
    ASSUME NEW u \in Tasks, TaskInv(u), row'[u] = row[u], funds'[u] = funds[u],
           token'[u] = token[u], fetch'[u] = fetch[u], kind' = kind, faulty \subseteq faulty',
           \A q \in Pollers : work'[q][u] = work[q][u]
    PROVE  TaskInv(u)'
  BY DEF TaskInv, ReadersInv, BillersInv, MoneyInv, BillingAt, Reading, Billed, Open, Quiet

\* So a poller's step need be looked at for its own task alone.
LEMMA StepElsewhere ==
    ASSUME IInv, NEW p \in Pollers, NEW t \in Tasks, NEW w, SetWork(p, t, w),
           NoFault \/ Fault(t), UNCHANGED <<kind, fetch>>,
           \A u \in Tasks \ {t} : /\ row'[u] = row[u]
                                 /\ funds'[u] = funds[u] /\ token'[u] = token[u],
           TaskInv(t)', TypeOK'
    PROVE  IInv'
<1>1. ASSUME NEW u \in Tasks \ {t} PROVE TaskInv(u)'
  <2>1. \A q \in Pollers : work'[q][u] = work[q][u]
    BY SetWorkIs DEF IInv
  <2>2. faulty \subseteq faulty'
    BY FaultTypes DEF IInv
  <2> QED BY <2>1, <2>2, Elsewhere DEF IInv
<1> QED BY <1>1 DEF IInv

\* A poller copies an unfinished row.
LEMMA ReadIInv ==
    ASSUME IInv, TypeOK', NEW p \in Pollers, NEW t \in Tasks, SweepRead(p, t) \/ PollRead(p, t)
    PROVE  IInv'
<1> DEFINE swept == [NoWork EXCEPT !.pc = "cas", !.from = row[t].status,
                       !.copy = [status |-> "FAILURE",
                                 quota |-> IF kind[t] = "legacy" THEN 0 ELSE row[t].quota,
                       progress |-> "100%"]]
           polled == [NoWork EXCEPT !.pc = "poll", !.from = row[t].status, !.copy = row[t]]
<1>1. PICK w \in {swept, polled} : SetWork(p, t, w)
  BY DEF SweepRead, PollRead
<1>2. /\ w.pc \in {"poll", "cas"} /\ w.from = row[t].status
      /\ \/ w.copy.quota = row[t].quota
         \/ kind[t] = "legacy" /\ w.pc = "cas" /\ w.copy.status = "FAILURE" /\ w.copy.quota = 0
      /\ w.pc = "cas" => w.copy.status \in Statuses
  <2>1. CASE w = swept
    BY <2>1 DEF NoWork, Statuses, Terminal
  <2>2. CASE w = polled
    BY <2>2 DEF NoWork
  <2> QED BY <2>1, <2>2
<1>3. /\ Open(t) /\ work[p][t].pc = "idle"
      /\ UNCHANGED <<row, funds, token, kind, fetch, faulty>> /\ NoFault
  BY DEF SweepRead, PollRead, NoFault, Unfinished
<1>4. \A q \in Pollers : work'[q][t] = IF q = p THEN w ELSE work[q][t]
  BY <1>1, SetWorkIs DEF IInv
<1> HIDE DEF swept, polled
<1>5. TaskInv(t)
  BY DEF IInv
<1>6. ReadersInv(t)'
  BY <1>2, <1>3, <1>4, <1>5, AsyncAssumption DEF TaskInv, ReadersInv, Reading, Open, Statuses, Terminal
<1>7. \A q \in Pollers : Billed(q, t)' <=> Billed(q, t)
  BY <1>2, <1>3, <1>4 DEF Billed
<1>8. BillersInv(t)'
  BY <1>2, <1>3, <1>4, <1>5, <1>7 DEF TaskInv, BillersInv, BillingAt, Billed
<1>9. MoneyInv(t)'
  BY <1>3, <1>5, <1>7 DEF TaskInv, MoneyInv, Quiet, Open
<1>10. TaskInv(t)'
  BY <1>3, <1>5, <1>6, <1>8, <1>9 DEF TaskInv
<1> QED BY <1>1, <1>3, <1>10, StepElsewhere

\* A poller that does not bill takes another step before its statement, or gives up.
LEMMA PollAnswerIInv ==
    ASSUME IInv, TypeOK', NEW p \in Pollers, NEW t \in Tasks, PollAnswer(p, t)
    PROVE  IInv'
<1>1. PICK w : /\ SetWork(p, t, w)
               /\ \/ w.pc = "idle"
                  \/ /\ w.pc = "cas" /\ w.from = work[p][t].from
                     /\ w.copy.status \in Statuses /\ w.copy.quota = work[p][t].copy.quota
  <2>1. At(p, t, "cas") = [pc |-> "cas", from |-> work[p][t].from, copy |-> work[p][t].copy,
                           actual |-> work[p][t].actual]
    BY WorkTypes DEF IInv
  <2>2. work[p][t].copy \in Row /\ upstream[t] \in Statuses
    BY WorkTypes DEF IInv, TypeOK, Work
  <2>3. ASSUME NEW s \in Statuses
        PROVE  LET w == [At(p, t, "cas") EXCEPT !.copy = Set(@, s, "100%")]
               IN  /\ w.pc = "cas" /\ w.from = work[p][t].from
                   /\ w.copy.status = s /\ w.copy.quota = work[p][t].copy.quota
    BY <2>1, <2>2, RowAt
  <2>4. ASSUME NEW s \in Statuses, NEW prog, NEW a \in Actuals
        PROVE  LET w == [At(p, t, "cas") EXCEPT !.copy = Set(@, s, prog), !.actual = a]
               IN  /\ w.pc = "cas" /\ w.from = work[p][t].from
                   /\ w.copy.status = s /\ w.copy.quota = work[p][t].copy.quota
    BY <2>1, <2>2, RowAt
  <2>5. "FAILURE" \in Statuses /\ NoWork.pc = "idle"
    BY DEF Statuses, Terminal, NoWork
  <2>6. CASE \E a \in Actuals, prog \in ProgressAfter(p, t) :
                SetWork(p, t, [At(p, t, "cas") EXCEPT !.copy = Set(@, upstream[t], prog), !.actual = a])
    <3>1. PICK a \in Actuals, prog \in ProgressAfter(p, t) :
            SetWork(p, t, [At(p, t, "cas") EXCEPT !.copy = Set(@, upstream[t], prog), !.actual = a])
      BY <2>6
    <3> DEFINE x == [At(p, t, "cas") EXCEPT !.copy = Set(@, upstream[t], prog), !.actual = a]
    <3>2. SetWork(p, t, x)
      BY <3>1
    <3>3. /\ x.pc = "cas" /\ x.from = work[p][t].from
          /\ x.copy.status \in Statuses /\ x.copy.quota = work[p][t].copy.quota
      BY <2>2, <2>4
    <3> HIDE DEF x
    <3> QED BY <3>2, <3>3
  <2>7. CASE SetWork(p, t, [At(p, t, "cas") EXCEPT !.copy = Set(@, "FAILURE", "100%")])
    <3> DEFINE x == [At(p, t, "cas") EXCEPT !.copy = Set(@, "FAILURE", "100%")]
    <3>1. SetWork(p, t, x)
      BY <2>7
    <3>2. /\ x.pc = "cas" /\ x.from = work[p][t].from
          /\ x.copy.status \in Statuses /\ x.copy.quota = work[p][t].copy.quota
      BY <2>3, <2>5
    <3> HIDE DEF x
    <3> QED BY <3>1, <3>2
  <2>8. CASE SetWork(p, t, NoWork)
    BY <2>5, <2>8
  <2> QED BY <2>6, <2>7, <2>8 DEF PollAnswer
<1>2. /\ work[p][t].pc = "poll"
      /\ UNCHANGED <<row, funds, token, kind, fetch, faulty>> /\ NoFault
  BY DEF PollAnswer, NoFault
<1>3. \A q \in Pollers : work'[q][t] = IF q = p THEN w ELSE work[q][t]
  BY <1>1, SetWorkIs DEF IInv
<1>4. TaskInv(t)
  BY DEF IInv
<1>5. ReadersInv(t)'
  BY <1>1, <1>2, <1>3, <1>4 DEF TaskInv, ReadersInv, Reading, Open
<1>6. \A q \in Pollers : Billed(q, t)' <=> Billed(q, t)
  BY <1>1, <1>2, <1>3 DEF Billed
<1>7. BillersInv(t)'
  BY <1>1, <1>2, <1>3, <1>4, <1>6 DEF TaskInv, BillersInv, BillingAt, Billed
<1>8. MoneyInv(t)'
  BY <1>2, <1>4, <1>6 DEF TaskInv, MoneyInv, Quiet, Open
<1>9. TaskInv(t)'
  BY <1>2, <1>4, <1>5, <1>7, <1>8 DEF TaskInv
<1> QED BY <1>1, <1>2, <1>9, StepElsewhere

\* A poller gives up before it bills, whatever the reason.
LEMMA GiveUpIInv ==
    ASSUME IInv, TypeOK', NEW p \in Pollers, NEW t \in Tasks, ~Billed(p, t), SetWork(p, t, NoWork),
           NoFault \/ Fault(t), UNCHANGED <<row, kind, fetch, funds, token>>
    PROVE  IInv'
<1>1. \A q \in Pollers : work'[q][t] = IF q = p THEN NoWork ELSE work[q][t]
  BY SetWorkIs DEF IInv
<1>2. NoWork.pc = "idle" /\ faulty \subseteq faulty' /\ TaskInv(t)
  BY FaultTypes DEF NoWork, IInv
<1>3. \A q \in Pollers : Billed(q, t)' <=> Billed(q, t)
  BY <1>1, <1>2 DEF Billed
<1>4. ReadersInv(t)'
  BY <1>1, <1>2 DEF TaskInv, ReadersInv, Reading, Open
<1>5. BillersInv(t)'
  BY <1>1, <1>2, <1>3 DEF TaskInv, BillersInv, BillingAt, Billed
<1>6. MoneyInv(t)'
  BY <1>2, <1>3 DEF TaskInv, MoneyInv, Quiet, Open
<1>7. TaskInv(t)'
  BY <1>2, <1>4, <1>5, <1>6 DEF TaskInv
<1> QED BY <1>7, StepElsewhere

\* The compare-and-set: the winner found the row unfinished, so that nobody was billing the task
\* and its charge was the quota of the copy.
LEMMA UpdateWithStatusIInv ==
    ASSUME IInv, TypeOK', NEW p \in Pollers, NEW t \in Tasks, UpdateWithStatus(p, t)
    PROVE  IInv'
<1> DEFINE w == work[p][t]
<1>1. w.pc = "cas" /\ ~Billed(p, t) /\ TaskInv(t)
  BY DEF UpdateWithStatus, Billed, IInv
<1>2. CASE SetWork(p, t, NoWork) /\ (NoFault \/ Fault(t)) /\ UNCHANGED row
  BY <1>1, <1>2, GiveUpIInv DEF UpdateWithStatus
<1>3. CASE /\ CASWins(t, w.from) /\ row' = [row EXCEPT ![t] = w.copy]
           /\ SetWork(p, t, Billing(t, w)) /\ NoFault
  <2>1. UNCHANGED <<kind, fetch, funds, token, faulty>>
    BY <1>3 DEF UpdateWithStatus, NoFault
  <2>2. row'[t] = w.copy /\ \A u \in Tasks \ {t} : row'[u] = row[u]
    BY <1>3 DEF IInv, TypeOK
  <2>3. \A q \in Pollers : work'[q][t] = IF q = p THEN Billing(t, w) ELSE work[q][t]
    BY <1>3, SetWorkIs DEF IInv
  <2>4. /\ Open(t) /\ Quiet(t) /\ w.copy.status \in Statuses
        /\ \/ w.copy.quota = row[t].quota
           \/ kind[t] = "legacy" /\ w.copy.status = "FAILURE" /\ w.copy.quota = 0
        /\ funds[t] = row[t].quota /\ token[t] = row[t].quota
    BY <1>1, <1>3 DEF TaskInv, ReadersInv, BillersInv, MoneyInv, Reading, CASWins, Open, Quiet
  <2>5. \/ /\ w.copy.status = "FAILURE" /\ w.copy.quota # 0
           /\ Billing(t, w) = At(p, t, "refundFund")
        \/ /\ w.copy.status = "SUCCESS"
           /\ Billing(t, w) = At(p, t, "adjustFund")
        \/ Billing(t, w) = NoWork
    BY BillingIs DEF IInv
  <2>6. /\ \A label : At(p, t, label).pc = label /\ At(p, t, label).copy = w.copy
        /\ NoWork.pc = "idle"
    BY WorkTypes DEF IInv
  <2>7. \A q \in Pollers \ {p} : ~Billed(q, t)'
    BY <2>3, <2>4 DEF Quiet, Billed
  <2>8. ReadersInv(t)'
    <3>1. ASSUME NEW q \in Pollers, Reading(q, t)'
          PROVE  q # p /\ Reading(q, t) /\ work'[q][t] = work[q][t]
      BY <3>1, <2>3, <2>5, <2>6 DEF Reading
    <3>2. row[t].status # NoStatus /\ row'[t].status # NoStatus
      BY <2>2, <2>4, AsyncAssumption DEF Open, Statuses, Terminal
    <3>3. Open(t)' => row'[t].quota = row[t].quota
      BY <2>2, <2>4 DEF Open, Terminal
    <3> QED BY <3>1, <3>2, <3>3, <1>1, <2>1, <2>4 DEF TaskInv, ReadersInv
  <2>9. BillersInv(t)'
    <3>1. Billed(p, t)' => row'[t].status \in Terminal
      BY <2>2, <2>3, <2>5, <2>6 DEF Billed, Terminal
    <3>2. Billed(p, t)' => BillingAt(p, t)'
      BY <2>1, <2>2, <2>3, <2>4, <2>5, <2>6 DEF Billed, BillingAt
    <3> QED BY <2>7, <3>1, <3>2 DEF BillersInv
  <2>10. MoneyInv(t)'
    <3>1. row'[t].status # NoStatus
      BY <2>2, <2>4, AsyncAssumption DEF Statuses, Terminal
    <3>2. Open(t)' => funds'[t] = row'[t].quota /\ token'[t] = row'[t].quota
      BY <2>1, <2>2, <2>4 DEF Open, Terminal
    <3>3. kind'[t] # "legacy" => funds'[t] = row'[t].quota /\ token'[t] = row'[t].quota
      BY <2>1, <2>2, <2>4
    <3> QED BY <3>1, <3>2, <3>3, <1>1, <2>1 DEF TaskInv, MoneyInv
  <2>11. TaskInv(t)'
    BY <1>1, <2>1, <2>8, <2>9, <2>10 DEF TaskInv
  <2> QED BY <1>3, <2>1, <2>2, <2>11, StepElsewhere
<1> QED BY <1>2, <1>3 DEF UpdateWithStatus

\* The bulk update ends a row and leaves its quota.
LEMMA BulkFailIInv ==
    ASSUME IInv, TypeOK', NEW p \in Pollers, NEW t \in Tasks, BulkFail(p, t)
    PROVE  IInv'
<1>1. work[p][t].pc = "poll" /\ ~Billed(p, t) /\ TaskInv(t)
  BY DEF BulkFail, Billed, IInv
<1>2. CASE Fault(t) /\ UNCHANGED row
  BY <1>1, <1>2, GiveUpIInv DEF BulkFail
<1>3. CASE row' = [row EXCEPT ![t] = Set(@, "FAILURE", "100%")] /\ NoFault
  <2>1. UNCHANGED <<kind, fetch, funds, token, faulty>> /\ SetWork(p, t, NoWork)
    BY <1>3 DEF BulkFail, NoFault
  <2>2. /\ row'[t].status = "FAILURE" /\ row'[t].quota = row[t].quota
        /\ \A u \in Tasks \ {t} : row'[u] = row[u]
    BY <1>3, RowAt DEF IInv, TypeOK
  <2>3. \A q \in Pollers : work'[q][t] = IF q = p THEN NoWork ELSE work[q][t]
    BY <2>1, SetWorkIs DEF IInv
  <2>4. NoWork.pc = "idle" /\ "FAILURE" \in Terminal /\ "FAILURE" # NoStatus
    BY AsyncAssumption DEF NoWork, Terminal
  <2>5. \A q \in Pollers : Billed(q, t)' <=> Billed(q, t)
    BY <1>1, <2>3, <2>4 DEF Billed
  <2>6. ReadersInv(t)'
    BY <1>1, <2>2, <2>3, <2>4 DEF TaskInv, ReadersInv, Reading, Open
  <2>7. BillersInv(t)'
    BY <1>1, <2>1, <2>2, <2>3, <2>4, <2>5 DEF TaskInv, BillersInv, BillingAt, Billed
  <2>8. MoneyInv(t)'
    BY <1>1, <2>1, <2>2, <2>4, <2>5 DEF TaskInv, MoneyInv, Quiet, Open
  <2>9. TaskInv(t)'
    BY <1>1, <2>1, <2>6, <2>7, <2>8 DEF TaskInv
  <2> QED BY <1>3, <2>1, <2>2, <2>9, StepElsewhere
<1> QED BY <1>2, <1>3 DEF BulkFail

\* A poller that bills task t goes on to worker w, or stops with an error; nobody else bills it.
LEMMA BillingStep ==
    ASSUME IInv, TypeOK', NEW p \in Pollers, NEW t \in Tasks, NEW w, Billed(p, t), SetWork(p, t, w),
           NoFault \/ Fault(t), UNCHANGED <<kind, fetch>>,
           \A u \in Tasks \ {t} : /\ row'[u] = row[u]
                                 /\ funds'[u] = funds[u] /\ token'[u] = token[u],
           row'[t].status = row[t].status,
           funds'[t] >= 0, token'[t] >= 0,
           \/ w.pc \notin {"idle", "poll", "cas"} /\ BillingAt(p, t)'
           \/ w.pc = "idle" /\ (t \in faulty' \/ (funds'[t] = row'[t].quota /\ token'[t] = row'[t].quota))
    PROVE  IInv'
<1>1. \A q \in Pollers : work'[q][t] = IF q = p THEN w ELSE work[q][t]
  BY SetWorkIs DEF IInv
<1>2. /\ TaskInv(t) /\ row[t].status \in Terminal /\ row[t].status # NoStatus
      /\ \A q \in Pollers \ {p} : ~Billed(q, t)
  BY AsyncAssumption DEF IInv, TaskInv, BillersInv, Terminal
<1>3. \A q \in Pollers \ {p} : ~Billed(q, t)'
  BY <1>1, <1>2 DEF Billed
<1>4. ReadersInv(t)'
  BY <1>1, <1>2 DEF TaskInv, ReadersInv, Reading, Open
<1>5. BillersInv(t)'
  BY <1>1, <1>2, <1>3 DEF BillersInv, Billed
<1>6. w.pc \notin {"idle", "poll", "cas"} => ~Quiet(t)'
  BY <1>1 DEF Quiet, Billed
<1>7. MoneyInv(t)'
  BY <1>2, <1>6 DEF MoneyInv, Open
<1>8. TaskInv(t)'
  BY <1>2, <1>4, <1>5, <1>7 DEF TaskInv
<1> QED BY <1>8, StepElsewhere

\* The funding is adjusted first.
LEMMA FundIInv ==
    ASSUME IInv, TypeOK', NEW p \in Pollers, NEW t \in Tasks, RefundFund(p, t) \/ AdjustFund(p, t)
    PROVE  IInv'
<1> DEFINE x == work[p][t]
<1>1. /\ x.pc \in {"refundFund", "adjustFund"} /\ Billed(p, t) /\ TaskInv(t)
      /\ UNCHANGED <<row, kind, fetch, token>>
  BY DEF RefundFund, AdjustFund, Billed, IInv
<1>2. funds[t] = x.copy.quota /\ token[t] = x.copy.quota /\ token[t] >= 0 /\ funds[t] >= 0
  BY <1>1 DEF TaskInv, BillersInv, BillingAt, MoneyInv
<1>3. x.copy.quota \in Nat /\ x.actual \in Nat /\ NoWork.pc = "idle"
  BY WorkTypes DEF IInv, Work, Row
<1>4. CASE Fault(t) /\ SetWork(p, t, NoWork) /\ UNCHANGED funds
  <2>1. t \in faulty'
    BY <1>4 DEF Fault
  <2> QED BY <1>1, <1>2, <1>3, <1>4, <2>1, BillingStep
<1>5. CASE /\ RefundFund(p, t) /\ NoFault
           /\ funds' = [funds EXCEPT ![t] = @ - ToRefund(p, t)]
           /\ SetWork(p, t, At(p, t, "refundToken"))
  <2>1. funds'[t] = 0 /\ \A u \in Tasks \ {t} : funds'[u] = funds[u]
    BY <1>2, <1>3, <1>5 DEF IInv, TypeOK, ToRefund
  <2>2. At(p, t, "refundToken").pc = "refundToken" /\ At(p, t, "refundToken").copy = x.copy
    BY WorkTypes DEF IInv
  <2>3. work'[p][t] = At(p, t, "refundToken")
    BY <1>5, SetWorkIs DEF IInv
  <2>4. BillingAt(p, t)'
    BY <1>1, <1>2, <2>1, <2>2, <2>3 DEF BillingAt
  <2> QED BY <1>1, <1>2, <1>5, <2>1, <2>2, <2>4, BillingStep
<1>6. CASE /\ AdjustFund(p, t) /\ NoFault
           /\ funds' = [funds EXCEPT ![t] = @ + QuotaDelta(p, t)]
           /\ SetWork(p, t, At(p, t, "adjustToken"))
  <2>1. funds'[t] = x.actual /\ \A u \in Tasks \ {t} : funds'[u] = funds[u]
    BY <1>2, <1>3, <1>6 DEF IInv, TypeOK, QuotaDelta
  <2>2. /\ At(p, t, "adjustToken").pc = "adjustToken" /\ At(p, t, "adjustToken").copy = x.copy
        /\ At(p, t, "adjustToken").actual = x.actual
    BY WorkTypes DEF IInv
  <2>3. work'[p][t] = At(p, t, "adjustToken")
    BY <1>6, SetWorkIs DEF IInv
  <2>4. BillingAt(p, t)'
    BY <1>1, <1>2, <2>1, <2>2, <2>3 DEF BillingAt
  <2> QED BY <1>1, <1>2, <1>3, <1>6, <2>1, <2>2, <2>4, BillingStep
<1> QED BY <1>4, <1>5, <1>6 DEF RefundFund, AdjustFund

\* Then the token; an error is noted and the billing goes on.
LEMMA TokenIInv ==
    ASSUME IInv, TypeOK', NEW p \in Pollers, NEW t \in Tasks, RefundToken(p, t) \/ AdjustToken(p, t)
    PROVE  IInv'
<1> DEFINE x == work[p][t]
<1>1. /\ x.pc \in {"refundToken", "adjustToken"} /\ Billed(p, t) /\ TaskInv(t)
      /\ UNCHANGED <<row, kind, fetch, funds>>
  BY DEF RefundToken, AdjustToken, Billed, IInv
<1>2. /\ x.copy.quota \in Nat /\ x.actual \in Nat
      /\ \A label : /\ At(p, t, label).pc = label /\ At(p, t, label).copy = x.copy
                    /\ At(p, t, label).actual = x.actual
  BY WorkTypes DEF IInv, Work, Row
<1>3. token[t] = x.copy.quota /\ funds[t] = IF x.pc = "refundToken" THEN 0 ELSE x.actual
  BY <1>1 DEF TaskInv, BillersInv, BillingAt
<1>4. CASE RefundToken(p, t)
  <2>1. /\ x.pc = "refundToken" /\ SetWork(p, t, At(p, t, "refundClear"))
        /\ \/ token' = [token EXCEPT ![t] = @ - ToRefund(p, t)] /\ NoFault
           \/ Fault(t) /\ UNCHANGED token
    BY <1>4 DEF RefundToken
  <2>2. /\ \A u \in Tasks \ {t} : token'[u] = token[u]
        /\ token'[t] >= 0 /\ (t \notin faulty' => token'[t] = 0)
    BY <1>2, <1>3, <2>1 DEF IInv, TypeOK, ToRefund, Fault
  <2>3. work'[p][t] = At(p, t, "refundClear")
    BY <2>1, SetWorkIs DEF IInv
  <2>4. BillingAt(p, t)'
    BY <1>1, <1>2, <1>3, <2>1, <2>2, <2>3 DEF BillingAt
  <2> QED BY <1>1, <1>2, <1>3, <2>1, <2>2, <2>4, BillingStep
<1>5. CASE AdjustToken(p, t)
  <2>1. /\ x.pc = "adjustToken" /\ SetWork(p, t, At(p, t, "adjustWrite"))
        /\ \/ token' = [token EXCEPT ![t] = @ + QuotaDelta(p, t)] /\ NoFault
           \/ Fault(t) /\ UNCHANGED token
    BY <1>5 DEF AdjustToken
  <2>2. /\ \A u \in Tasks \ {t} : token'[u] = token[u]
        /\ token'[t] >= 0 /\ (t \notin faulty' => token'[t] = x.actual)
    BY <1>2, <1>3, <2>1 DEF IInv, TypeOK, QuotaDelta, Fault
  <2>3. work'[p][t] = At(p, t, "adjustWrite")
    BY <2>1, SetWorkIs DEF IInv
  <2>4. BillingAt(p, t)'
    BY <1>1, <1>2, <1>3, <2>1, <2>2, <2>3 DEF BillingAt
  <2> QED BY <1>1, <1>2, <1>3, <2>1, <2>2, <2>4, BillingStep
<1> QED BY <1>1, <1>4, <1>5

\* Last the quota of the row, to what funding and token are charged.
LEMMA WriteIInv ==
    ASSUME IInv, TypeOK', NEW p \in Pollers, NEW t \in Tasks, RefundClear(p, t) \/ AdjustWrite(p, t)
    PROVE  IInv'
<1> DEFINE x == work[p][t]
<1>1. /\ x.pc \in {"refundClear", "adjustWrite"} /\ Billed(p, t) /\ TaskInv(t)
      /\ NoWork.pc = "idle"
  BY DEF RefundClear, AdjustWrite, Billed, IInv, NoWork
<1>2. PICK q : /\ WriteQuota(p, t, q)
               /\ t \notin faulty => funds[t] = q /\ token[t] = q
  BY <1>1 DEF RefundClear, AdjustWrite, TaskInv, BillersInv, BillingAt
<1>3. /\ UNCHANGED <<kind, fetch, funds, token>> /\ SetWork(p, t, NoWork)
      /\ \/ row' = [row EXCEPT ![t] = [@ EXCEPT !.quota = q]] /\ NoFault
         \/ Fault(t) /\ UNCHANGED row
  BY <1>2 DEF WriteQuota
<1>4. /\ row'[t].status = row[t].status /\ \A u \in Tasks \ {t} : row'[u] = row[u]
      /\ t \in faulty' \/ (funds'[t] = row'[t].quota /\ token'[t] = row'[t].quota)
  <2>1. CASE Fault(t) /\ UNCHANGED row
    BY <2>1 DEF Fault
  <2>2. CASE row' = [row EXCEPT ![t] = [@ EXCEPT !.quota = q]] /\ NoFault
    BY <1>2, <1>3, <2>2 DEF IInv, TypeOK, Row, NoFault
  <2> QED BY <1>3, <2>1, <2>2
<1>5. funds'[t] >= 0 /\ token'[t] >= 0
  BY <1>1, <1>3 DEF TaskInv, MoneyInv
<1> QED BY <1>1, <1>3, <1>4, <1>5, BillingStep

\* A crash excuses every task its poller was working on.
LEMMA CrashIInv ==
    ASSUME IInv, TypeOK', NEW p \in Pollers, Crash(p)
    PROVE  IInv'
<1> SUFFICES ASSUME NEW t \in Tasks PROVE TaskInv(t)'
  BY DEF IInv
<1>1. /\ \A q \in Pollers : work'[q][t] = IF q = p THEN NoWork ELSE work[q][t]
      /\ UNCHANGED <<row, kind, fetch, funds, token>> /\ faulty \subseteq faulty'
      /\ work[p][t].pc # "idle" => t \in faulty'
      /\ NoWork.pc = "idle" /\ TaskInv(t)
  BY DEF Crash, IInv, TypeOK, NoWork
<1>2. \A q \in Pollers : Billed(q, t)' <=> q # p /\ Billed(q, t)
  BY <1>1 DEF Billed
<1>3. ReadersInv(t)'
  BY <1>1 DEF TaskInv, ReadersInv, Reading, Open
<1>4. BillersInv(t)'
  BY <1>1, <1>2 DEF TaskInv, BillersInv, BillingAt, Billed
<1>5. Quiet(t)' /\ t \notin faulty' => Quiet(t) /\ t \notin faulty
  BY <1>1, <1>2 DEF Quiet, Billed
<1>6. MoneyInv(t)'
  BY <1>1, <1>5 DEF TaskInv, MoneyInv, Open
<1> QED BY <1>1, <1>3, <1>4, <1>6 DEF TaskInv

\* A submission starts with funding, token and row in agreement, or with an error.
LEMMA SubmitIInv ==
    ASSUME IInv, TypeOK', NEW t \in Tasks, Submit(t)
    PROVE  IInv'
<1>1. PICK q \in Quotas :
        /\ \/ row' = [row EXCEPT ![t] = [status |-> "NOT_START", quota |-> q, progress |-> "below"]] /\ NoFault
           \/ Fault(t) /\ UNCHANGED row
        /\ funds' = [funds EXCEPT ![t] = q]
        /\ token' = [token EXCEPT ![t] = q]
  BY DEF Submit
<1>2. /\ row[t].status = NoStatus /\ UNCHANGED <<kind, work, fetch>> /\ q \in Nat
      /\ faulty \subseteq faulty'
  BY <1>1, FaultTypes, AsyncAssumption DEF Submit, IInv
<1>3. \A u \in Tasks \ {t} : row'[u] = row[u] /\ funds'[u] = funds[u] /\ token'[u] = token[u]
  BY <1>1 DEF IInv, TypeOK
<1>4. /\ funds'[t] = q /\ token'[t] = q
      /\ \/ row'[t] = [status |-> "NOT_START", quota |-> q, progress |-> "below"]
         \/ row'[t] = row[t] /\ t \in faulty'
  BY <1>1 DEF IInv, TypeOK, Fault
<1>5. TaskInv(t) /\ \A r \in Pollers : ~Reading(r, t) /\ ~Billed(r, t)
  BY <1>2, AsyncAssumption DEF IInv, TaskInv, ReadersInv, BillersInv, Terminal
<1>6. ReadersInv(t)' /\ BillersInv(t)'
  BY <1>2, <1>5 DEF ReadersInv, BillersInv, Reading, Billed
<1>7. MoneyInv(t)'
  BY <1>2, <1>4, <1>5, AsyncAssumption DEF TaskInv, MoneyInv, Open, Statuses, Terminal
<1>8. TaskInv(t)'
  BY <1>2, <1>5, <1>6, <1>7 DEF TaskInv
<1>9. ASSUME NEW u \in Tasks \ {t} PROVE TaskInv(u)'
  BY <1>2, <1>3, Elsewhere DEF IInv
<1> QED BY <1>8, <1>9 DEF IInv

\* Every step preserves the invariant, when no task is of a kind that clients fetch directly.
LEMMA NextIInv ==
    ASSUME "gemini" \notin Kinds, IInv, [Next]_vars
    PROVE  IInv'
<1>0. TypeOK'
  BY NextType DEF IInv
<1>1. CASE UNCHANGED vars \/ \E t \in Tasks : Provider(t) \/ GetsLate(t)
  <2>1. UNCHANGED <<row, kind, work, fetch, funds, token, faulty>>
    BY <1>1 DEF vars, Provider, GetsLate, NoFault
  <2> QED BY <1>0, <2>1, Elsewhere DEF IInv
<1>2. ASSUME NEW t \in Tasks, FetchRead(t) \/ FetchWrite(t) PROVE FALSE
  BY <1>2 DEF FetchRead, FetchWrite, IInv, TypeOK, TaskInv
<1>3. ASSUME NEW t \in Tasks, Submit(t) PROVE IInv'
  BY <1>0, <1>3, SubmitIInv
<1>4. ASSUME NEW p \in Pollers, NEW t \in Tasks, SweepRead(p, t) \/ PollRead(p, t) PROVE IInv'
  BY <1>0, <1>4, ReadIInv
<1>5. ASSUME NEW p \in Pollers, NEW t \in Tasks, Step(p, t) PROVE IInv'
  BY <1>0, <1>5, PollAnswerIInv, UpdateWithStatusIInv, BulkFailIInv, FundIInv, TokenIInv, WriteIInv
     DEF Step
<1>6. ASSUME NEW p \in Pollers, Crash(p) PROVE IInv'
  BY <1>0, <1>6, CrashIInv
<1> QED BY <1>1, <1>2, <1>3, <1>4, <1>5, <1>6 DEF Next

\* The invariant of tasks without a direct fetch.
LEMMA Invariance ==
    ASSUME "gemini" \notin Kinds
    PROVE  Spec => []IInv
<1>1. IInv /\ [Next]_vars => IInv'
  BY NextIInv
<1> QED BY <1>1, InitIInv, PTL DEF Spec

\* Whatever number of pollers, sweeps, faults and crashes, neither the funding nor the token of a
\* task ever gets back more than it was charged.
THEOREM NeverRefundedTwiceHolds ==
    ASSUME "gemini" \notin Kinds
    PROVE  Spec => []NeverRefundedTwice
<1>1. IInv => NeverRefundedTwice
  BY DEF IInv, TaskInv, MoneyInv, NeverRefundedTwice
<1> QED BY <1>1, Invariance, PTL

\* Between billings, and without errors in them, the quota of a row is what the task is charged.
THEOREM QuotaIsTruthHolds ==
    ASSUME "gemini" \notin Kinds
    PROVE  Spec => []QuotaIsTruth
<1>1. IInv => QuotaIsTruth
  BY DEF IInv, TaskInv, MoneyInv, Quiet, QuotaIsTruth
<1> QED BY <1>1, Invariance, PTL

-----------------------------------------------------------------------------
(* Outcomes, for all kinds of tasks, when nothing but the provider's       *)
(* answer decides them.                                                    *)

\* Pollers read unfinished rows, and every terminal status, in a row, in the copy of a poller or
\* in that of a fetch, is the provider's.
OutcomeInv(t) ==
    /\ row[t].status \in Terminal => upstream[t] = row[t].status
    /\ \A p \in Pollers :
          /\ Reading(p, t) => work[p][t].from \in Statuses \ Terminal
          /\ work[p][t].pc = "cas" /\ work[p][t].copy.status \in Terminal
                => upstream[t] = work[p][t].copy.status
    /\ fetch[t].on /\ fetch[t].from \in Terminal => upstream[t] = fetch[t].from

OInv == TypeOK /\ \A t \in Tasks : OutcomeInv(t)

\* No step changes a terminal status.
KeepsOutcomes == \A t \in Tasks : row[t].status \in Terminal => row'[t].status = row[t].status

\* Initially there is no task.
LEMMA InitOInv == Init => OInv
<1> SUFFICES ASSUME Init PROVE \A t \in Tasks : OutcomeInv(t)
  BY InitType DEF OInv
<1>1. \A p \in Pollers, t \in Tasks : work[p][t].pc = "idle"
  BY DEF Init, NoWork
<1>2. \A t \in Tasks : ~fetch[t].on /\ row[t].status = NoStatus
  BY DEF Init, NoFetch, NoRow
<1> QED BY <1>1, <1>2, AsyncAssumption DEF OutcomeInv, Reading, Terminal

\* A step of a poller that leaves the statuses of the rows alone.
LEMMA StepOInv ==
    ASSUME OInv, TypeOK', NEW p \in Pollers, NEW t \in Tasks, NEW w, SetWork(p, t, w),
           UNCHANGED <<upstream, fetch>>, \A u \in Tasks : row'[u].status = row[u].status,
           w.pc \in {"poll", "cas"} => w.from \in Statuses \ Terminal,
           w.pc = "cas" /\ w.copy.status \in Terminal => upstream[t] = w.copy.status
    PROVE  OInv' /\ KeepsOutcomes
<1>1. \A q \in Pollers, u \in Tasks : work'[q][u] = IF q = p /\ u = t THEN w ELSE work[q][u]
  BY SetWorkIs DEF OInv
<1> QED BY <1>1 DEF OInv, OutcomeInv, Reading, KeepsOutcomes

\* The poller's copy gets the provider's status; without a timeout or error answers, no other.
LEMMA CopyOInv ==
    ASSUME ~TimeoutOn, ~BadAnswers, OInv, TypeOK', NEW p \in Pollers, NEW t \in Tasks,
           SweepRead(p, t) \/ PollRead(p, t) \/ PollAnswer(p, t)
    PROVE  OInv' /\ KeepsOutcomes
<1>1. UNCHANGED <<row, upstream, fetch>>
  BY DEF SweepRead, PollRead, PollAnswer
<1>2. CASE PollRead(p, t)
  <2> DEFINE x == [NoWork EXCEPT !.pc = "poll", !.from = row[t].status, !.copy = row[t]]
  <2>1. SetWork(p, t, x)
    BY <1>2 DEF PollRead
  <2>2. x.pc = "poll" /\ x.from \in Statuses \ Terminal
    BY <1>2 DEF PollRead, NoWork, Unfinished, Open
  <2> HIDE DEF x
  <2> QED BY <1>1, <2>1, <2>2, StepOInv
<1>3. CASE SetWork(p, t, NoWork)
  <2>1. NoWork.pc = "idle"
    BY DEF NoWork
  <2> QED BY <1>1, <1>3, <2>1, StepOInv
<1>4. ASSUME NEW a \in Actuals, NEW prog \in ProgressAfter(p, t), PollAnswer(p, t),
             SetWork(p, t, [At(p, t, "cas") EXCEPT !.copy = Set(@, upstream[t], prog), !.actual = a])
      PROVE  OInv' /\ KeepsOutcomes
  <2> DEFINE x == [At(p, t, "cas") EXCEPT !.copy = Set(@, upstream[t], prog), !.actual = a]
  <2>1. At(p, t, "cas") = [pc |-> "cas", from |-> work[p][t].from, copy |-> work[p][t].copy,
                           actual |-> work[p][t].actual] /\ work[p][t].copy \in Row
    BY WorkTypes DEF OInv, Work
  <2>2. x.from = work[p][t].from /\ x.copy.status = upstream[t]
    BY <2>1, RowAt
  <2>3. work[p][t].from \in Statuses \ Terminal
    BY <1>4 DEF PollAnswer, OInv, OutcomeInv, Reading
  <2>4. SetWork(p, t, x)
    BY <1>4
  <2> HIDE DEF x
  <2> QED BY <1>1, <2>2, <2>3, <2>4, StepOInv
<1> QED BY <1>2, <1>3, <1>4 DEF SweepRead, PollAnswer

\* The compare-and-set finds an unfinished row.
LEMMA UpdateWithStatusOInv ==
    ASSUME OInv, TypeOK', NEW p \in Pollers, NEW t \in Tasks, UpdateWithStatus(p, t)
    PROVE  OInv' /\ KeepsOutcomes
<1> DEFINE w == work[p][t]
<1>1. w.pc = "cas" /\ w.from \in Statuses \ Terminal /\ UNCHANGED <<upstream, fetch>>
  BY DEF UpdateWithStatus, OInv, OutcomeInv, Reading
<1>2. CASE SetWork(p, t, NoWork) /\ UNCHANGED row
  <2>1. NoWork.pc = "idle"
    BY DEF NoWork
  <2> QED BY <1>1, <1>2, <2>1, StepOInv
<1>3. CASE CASWins(t, w.from) /\ row' = [row EXCEPT ![t] = w.copy] /\ SetWork(p, t, Billing(t, w))
  <2>1. /\ row'[t] = w.copy /\ row[t].status \notin Terminal
        /\ \A u \in Tasks \ {t} : row'[u] = row[u]
    BY <1>1, <1>3 DEF OInv, TypeOK, CASWins
  <2>2. \A q \in Pollers, u \in Tasks :
           work'[q][u] = IF q = p /\ u = t THEN Billing(t, w) ELSE work[q][u]
    BY <1>3, SetWorkIs DEF OInv
  <2>3. Billing(t, w).pc \notin {"poll", "cas"}
    <3>1. Billing(t, w) \in {At(p, t, "refundFund"), At(p, t, "adjustFund"), NoWork}
      BY BillingIs DEF OInv
    <3>2. \A label : At(p, t, label).pc = label
      BY WorkTypes DEF OInv
    <3> QED BY <3>1, <3>2 DEF NoWork
  <2>4. w.copy.status \in Terminal => upstream[t] = w.copy.status
    BY <1>1 DEF OInv, OutcomeInv
  <2> QED BY <1>1, <2>1, <2>2, <2>3, <2>4 DEF OInv, OutcomeInv, Reading, KeepsOutcomes
<1> QED BY <1>2, <1>3 DEF UpdateWithStatus

\* Billing writes no status.
LEMMA BillOInv ==
    ASSUME OInv, TypeOK', NEW p \in Pollers, NEW t \in Tasks,
           \/ RefundFund(p, t) \/ RefundToken(p, t) \/ RefundClear(p, t)
           \/ AdjustFund(p, t) \/ AdjustToken(p, t) \/ AdjustWrite(p, t)
    PROVE  OInv' /\ KeepsOutcomes
<1>1. /\ UNCHANGED <<upstream, fetch>>
      /\ UNCHANGED row \/ (\E q : row' = [row EXCEPT ![t] = [@ EXCEPT !.quota = q]])
  BY DEF RefundFund, RefundToken, RefundClear, AdjustFund, AdjustToken, AdjustWrite, WriteQuota
<1>2. ASSUME NEW u \in Tasks PROVE row'[u].status = row[u].status
  <2>1. CASE UNCHANGED row
    BY <2>1
  <2>2. ASSUME NEW q, row' = [row EXCEPT ![t] = [@ EXCEPT !.quota = q]]
        PROVE  row'[u].status = row[u].status
    <3>1. row \in [Tasks -> Row] /\ row[t] \in Row
      BY DEF OInv, TypeOK
    <3>2. [row[t] EXCEPT !.quota = q].status = row[t].status
      BY <3>1 DEF Row
    <3> QED BY <2>2, <3>1, <3>2
  <2> QED BY <1>1, <2>1, <2>2
<1>3. PICK w : SetWork(p, t, w) /\ w.pc \notin {"poll", "cas"}
  <2>1. NoWork.pc = "idle" /\ \A label : At(p, t, label).pc = label
    BY WorkTypes DEF OInv
  <2>2. \/ SetWork(p, t, NoWork)
        \/ SetWork(p, t, At(p, t, "refundToken")) \/ SetWork(p, t, At(p, t, "refundClear"))
        \/ SetWork(p, t, At(p, t, "adjustToken")) \/ SetWork(p, t, At(p, t, "adjustWrite"))
    BY DEF RefundFund, RefundToken, RefundClear, AdjustFund, AdjustToken, AdjustWrite, WriteQuota
  <2> QED BY <2>1, <2>2
<1> QED BY <1>1, <1>2, <1>3, StepOInv

\* A fetch writes the provider's status, or the status it read if that is still the row's.
LEMMA FetchOInv ==
    ASSUME ~BadAnswers, OInv, TypeOK', NEW t \in Tasks, FetchRead(t) \/ FetchWrite(t)
    PROVE  OInv' /\ KeepsOutcomes
<1>1. UNCHANGED <<upstream, work>>
  BY DEF FetchRead, FetchWrite
<1>2. CASE FetchRead(t)
  <2>1. /\ UNCHANGED row
        /\ \A u \in Tasks : fetch'[u] = fetch[u] \/ (u = t /\ fetch'[u].from = row[u].status)
    BY <1>2 DEF FetchRead, OInv, TypeOK
  <2> QED BY <1>1, <2>1 DEF OInv, OutcomeInv, Reading, KeepsOutcomes
<1>3. CASE FetchWrite(t)
  <2>1. ~fetch'[t].on /\ \A u \in Tasks \ {t} : fetch'[u] = fetch[u]
    BY <1>3 DEF FetchWrite, OInv, TypeOK, NoFetch
  <2>2. CASE UNCHANGED row
    BY <1>1, <2>1, <2>2 DEF OInv, OutcomeInv, Reading, KeepsOutcomes
  <2>3. ASSUME CASWins(t, fetch[t].from), NEW answer \in {upstream[t], fetch[t].from},
               row' = [row EXCEPT ![t] = Set(fetch[t].copy, answer, Fitting(answer))]
        PROVE  OInv' /\ KeepsOutcomes
    <3>1. fetch[t].copy \in Row
      BY DEF OInv, TypeOK, Fetches
    <3>2. row'[t].status = answer /\ \A u \in Tasks \ {t} : row'[u] = row[u]
      BY <2>3, <3>1, RowAt DEF OInv, TypeOK
    <3>3. /\ fetch[t].on /\ row[t].status = fetch[t].from
          /\ answer \in Terminal => upstream[t] = answer
          /\ row[t].status \in Terminal => answer = row[t].status
      BY <1>3, <2>3 DEF FetchWrite, CASWins, OInv, OutcomeInv
    <3> QED BY <1>1, <2>1, <3>2, <3>3 DEF OInv, OutcomeInv, Reading, KeepsOutcomes
  <2> QED BY <1>3, <2>2, <2>3 DEF FetchWrite, FetchAnswers
<1> QED BY <1>2, <1>3

\* Every step keeps the invariant and every outcome.
LEMMA NextOInv ==
    ASSUME ~TimeoutOn, ~BadAnswers, ~ChannelsGo, OInv, [Next]_vars
    PROVE  OInv' /\ KeepsOutcomes
<1>0. TypeOK'
  BY NextType DEF OInv
<1>1. CASE UNCHANGED vars \/ \E t \in Tasks : GetsLate(t)
  <2>1. UNCHANGED <<row, upstream, work, fetch>>
    BY <1>1 DEF vars, GetsLate
  <2> QED BY <1>0, <2>1 DEF OInv, OutcomeInv, Reading, KeepsOutcomes
<1>2. ASSUME NEW t \in Tasks, Provider(t) PROVE OInv' /\ KeepsOutcomes
  <2>1. /\ upstream[t] \notin Terminal /\ UNCHANGED <<row, work, fetch>>
        /\ \A u \in Tasks \ {t} : upstream'[u] = upstream[u]
    BY <1>2 DEF Provider, OInv, TypeOK
  <2> QED BY <1>0, <2>1 DEF OInv, OutcomeInv, Reading, KeepsOutcomes
<1>3. ASSUME NEW t \in Tasks, Submit(t) PROVE OInv' /\ KeepsOutcomes
  <2>1. /\ row[t].status = NoStatus /\ UNCHANGED <<upstream, work, fetch>>
        /\ row'[t].status \in {NoStatus, "NOT_START"} /\ \A u \in Tasks \ {t} : row'[u] = row[u]
    BY <1>3 DEF Submit, OInv, TypeOK
  <2> QED BY <1>0, <2>1, AsyncAssumption DEF OInv, OutcomeInv, Reading, KeepsOutcomes, Terminal
<1>4. ASSUME NEW t \in Tasks, FetchRead(t) \/ FetchWrite(t) PROVE OInv' /\ KeepsOutcomes
  BY <1>0, <1>4, FetchOInv
<1>5. ASSUME NEW p \in Pollers, NEW t \in Tasks, SweepRead(p, t) \/ PollRead(p, t)
      PROVE  OInv' /\ KeepsOutcomes
  BY <1>0, <1>5, CopyOInv
<1>6. ASSUME NEW p \in Pollers, NEW t \in Tasks, Step(p, t) PROVE OInv' /\ KeepsOutcomes
  BY <1>0, <1>6, CopyOInv, UpdateWithStatusOInv, BillOInv DEF Step, BulkFail
<1>7. ASSUME NEW p \in Pollers, Crash(p) PROVE OInv' /\ KeepsOutcomes
  <2>1. /\ UNCHANGED <<row, upstream, fetch>> /\ NoWork.pc = "idle"
        /\ \A q \in Pollers, u \in Tasks : work'[q][u] = IF q = p THEN NoWork ELSE work[q][u]
    BY <1>7 DEF Crash, OInv, TypeOK, NoWork
  <2> QED BY <1>0, <2>1 DEF OInv, OutcomeInv, Reading, KeepsOutcomes
<1> QED BY <1>1, <1>2, <1>3, <1>4, <1>5, <1>6, <1>7 DEF Next

\* Without timeouts, error answers and lost channels, no poller and no fetch, however old its
\* copy, changes the outcome of a task.
THEOREM OutcomeIsFinalHolds ==
    ASSUME ~TimeoutOn, ~BadAnswers, ~ChannelsGo
    PROVE  Spec => OutcomeIsFinal
<1>1. OInv /\ [Next]_vars => OInv' /\ [KeepsOutcomes]_vars
  BY NextOInv
<1>2. OutcomeIsFinal <=> [][KeepsOutcomes]_vars
  BY PTL DEF OutcomeIsFinal, KeepsOutcomes
<1> QED BY <1>1, <1>2, InitOInv, PTL DEF Spec
=============================================================================
