------------------------ MODULE BillingSessionProofs ------------------------
(***************************************************************************)
(* Proofs about BillingSession, for every number of requests and           *)
(* subscriptions, all quotas and any number of faults and resets.          *)
(***************************************************************************)
EXTENDS BillingSession, TLAPS

PCs == {"idle"} \cup PreparePCs \cup ServePCs \cup EndPCs
Charge == [fund : Int, token : Int]

-----------------------------------------------------------------------------
(* The invariant.  p, f, q, s, c are the program counter, the refund       *)
(* goroutine, the RelayInfo, the session and the charges of one request.   *)

RelayedPCs == {"serving", "wssFund", "wssToken", "wssFailed", "closing", "settleFund",
               "settleToken"}
FailedPCs == {"feeFund", "feeToken", "failed"}

\* What the session has taken from the token.
TokenTaken(q, s) == IF q.playground THEN 0 ELSE s.tokenConsumed

\* A session that pre-consumed did so from one source, and remembers how much.
PaidInv(s) ==
    /\ s.tokenConsumed = s.preConsumedQuota
    /\ \/ s.source = "wallet" /\ s.consumed = s.preConsumedQuota
       \/ /\ s.source = "subscription" /\ s.subPreConsumed = s.preConsumedQuota
          /\ s.subscriptionId \in Subs

\* Refund goroutines run for failed requests only and never for a settled session, the fee is
\* taken after everything else, and the attempts of a refund are counted from zero.
ControlInv(p, f, q, s) ==
    /\ f # "none" => p \in FailedPCs
    /\ s.settled => p \in {"served", "errored"} \cup FailedPCs /\ f = "none"
    /\ q.fee => p \in {"feeToken", "failed"}
    /\ p = "feeToken" => q.fee
    /\ p = "fund" => s.tokenConsumed = s.amount
    /\ p = "settleToken" => ~q.playground
    /\ p \in {"errored"} \cup RelayedPCs \cup FailedPCs => PaidInv(s)
    /\ f = "none" => s.attempts = 0
    /\ f \in {"fund", "mark"} => s.attempts < MaxAttempts

\* What was taken from the token and not given back.
TokenInv(p, f, q, s, c) ==
    /\ c.token >= 0
    /\ \/ p \in {"fund", "tokenBack"} \cup RelayedPCs \/ f \in {"fund", "mark", "token"}
       \/ p = "errored" /\ ~s.settled
       => c.token >= TokenTaken(q, s)

\* What was taken from the funding and not given back: settleToken has settled it already.
FundInv(p, f, q, s, c) ==
    /\ c.fund >= 0
    /\ \/ p \in RelayedPCs \ {"settleToken"} \/ f = "fund"
       \/ p = "errored" /\ ~s.settled
       => c.fund >= s.preConsumedQuota

RequestInv(p, f, q, s, c) ==
    /\ ControlInv(p, f, q, s)
    /\ TokenInv(p, f, q, s, c)
    /\ SaveMayFail \/ FundInv(p, f, q, s, c)

IInv ==
    /\ TypeOK
    /\ SubscriptionWithinTotal
    /\ \A r \in Requests : RequestInv(pc[r], refund[r], req[r], ses[r], charged[r])

-----------------------------------------------------------------------------
(* A step of one request.                                                  *)

\* Request r takes df from its funding and dt from the token.
Charges(r, df, dt) ==
    /\ wallet' \in Int /\ token' \in Int
    /\ sub' \in [Subs -> UserSubscription]
    /\ record' \in [Requests -> {"none", "consumed", "refunded"}]
    /\ SubscriptionWithinTotal'
    /\ charged' = [charged EXCEPT ![r] = [fund |-> charged[r].fund + df,
                                          token |-> charged[r].token + dt]]

\* Request r goes to p and f, with RelayInfo q and session s.
Moves(r, p, f, q, s) ==
    /\ pc' = [pc EXCEPT ![r] = p] /\ refund' = [refund EXCEPT ![r] = f]
    /\ req' = [req EXCEPT ![r] = q] /\ ses' = [ses EXCEPT ![r] = s]

\* A step, or a failing statement, of request r leaves the bounds typed.
Bounds == faults' \in Nat /\ faulty' \subseteq Requests /\ resets' = resets

\* The settlement or the refund of request r is not over.
Acting(r) == \/ pc[r] \notin EndPCs \cup {"errored", "feeFund", "feeToken"}
             \/ refund[r] \in {"fund", "mark", "token"}

\* A step that takes df and dt for request r, with RelayInfo q after it, takes nothing or the fee.
FeeOnly(r, q, df, dt) ==
    /\ df # 0 => df = Fee /\ ~req[r].fee /\ q.fee
    /\ dt # 0 => dt = Fee /\ req[r].fee

\* Only the fee is taken from a request that was settled or refunded.
KeepsClosed ==
    \A r \in Requests : ses[r].settled \/ refund[r] = "done"
        => FeeOnly(r, req'[r], charged'[r].fund - charged[r].fund,
                   charged'[r].token - charged[r].token)

\* The values a step gives to its request decide whether it preserves the invariant.
LEMMA AnyStep ==
    ASSUME IInv, NEW r \in Requests, Bounds,
           NEW p \in PCs, NEW f \in RefundPCs, NEW q \in RelayInfo, NEW s \in Session,
           NEW df \in Int, NEW dt \in Int,
           Acting(r) \/ FeeOnly(r, q, df, dt),
           Moves(r, p, f, q, s), Charges(r, df, dt),
           RequestInv(p, f, q, s, [fund |-> charged[r].fund + df,
                                   token |-> charged[r].token + dt])
    PROVE  IInv' /\ KeepsClosed
<1> DEFINE c == [fund |-> charged[r].fund + df, token |-> charged[r].token + dt]
<1>1. c \in Charge /\ charged \in [Requests -> Charge]
  BY DEF IInv, TypeOK, Charge
<1>2. charged' = [charged EXCEPT ![r] = c]
  BY DEF Charges
<1>3. RequestInv(p, f, q, s, c)
  OBVIOUS
<1> HIDE DEF c
<1>4. TypeOK'
  BY <1>1, <1>2 DEF IInv, TypeOK, Moves, Charges, Bounds, PCs, Charge
<1>5. /\ pc'[r] = p /\ refund'[r] = f /\ req'[r] = q /\ ses'[r] = s /\ charged'[r] = c
      /\ \A u \in Requests : u # r =>
            /\ pc'[u] = pc[u] /\ refund'[u] = refund[u] /\ req'[u] = req[u]
            /\ ses'[u] = ses[u] /\ charged'[u] = charged[u]
  BY <1>1, <1>2 DEF IInv, TypeOK, Moves
<1>6. ASSUME NEW u \in Requests
      PROVE  RequestInv(pc'[u], refund'[u], req'[u], ses'[u], charged'[u])
  <2>1. CASE u = r
    BY <1>3, <1>5, <2>1
  <2>2. CASE u # r
    BY <1>5, <2>2 DEF IInv
  <2> QED BY <2>1, <2>2
<1>7. KeepsClosed
  <2> SUFFICES ASSUME NEW u \in Requests, ses[u].settled \/ refund[u] = "done"
               PROVE  FeeOnly(u, req'[u], charged'[u].fund - charged[u].fund,
                              charged'[u].token - charged[u].token)
    BY DEF KeepsClosed
  <2>1. charged[u].fund \in Int /\ charged[u].token \in Int
    BY <1>1 DEF Charge
  <2>2. CASE u # r
    BY <1>5, <2>1, <2>2 DEF FeeOnly
  <2>3. CASE u = r
    <3>1. ~Acting(r)
      BY <2>3 DEF IInv, RequestInv, ControlInv, Acting, EndPCs, FailedPCs
    <3>2. c.fund - charged[r].fund = df /\ c.token - charged[r].token = dt
      BY <2>1, <2>3 DEF c
    <3> QED BY <1>5, <2>3, <3>1, <3>2
  <2> QED BY <2>2, <2>3
<1> QED BY <1>4, <1>6, <1>7 DEF IInv, Charges

\* A step before the settlement or the refund is over.
LEMMA RequestStep ==
    ASSUME IInv, NEW r \in Requests, Acting(r), Bounds,
           NEW p \in PCs, NEW f \in RefundPCs, NEW q \in RelayInfo, NEW s \in Session,
           NEW df \in Int, NEW dt \in Int,
           Moves(r, p, f, q, s), Charges(r, df, dt),
           RequestInv(p, f, q, s, [fund |-> charged[r].fund + df,
                                   token |-> charged[r].token + dt])
    PROVE  IInv' /\ KeepsClosed
  BY AnyStep

-----------------------------------------------------------------------------
(* What the statements take.                                               *)

\* A charge of one part leaves the other as it is.
LEMMA ChargedIs ==
    ASSUME IInv, NEW r \in Requests, NEW d \in Int
    PROVE  /\ charged = [charged EXCEPT ![r] = [fund |-> charged[r].fund + 0,
                                               token |-> charged[r].token + 0]]
           /\ [charged EXCEPT ![r].fund = @ + d]
              = [charged EXCEPT ![r] = [fund |-> charged[r].fund + d,
                                        token |-> charged[r].token + 0]]
           /\ [charged EXCEPT ![r].token = @ + d]
              = [charged EXCEPT ![r] = [fund |-> charged[r].fund + 0,
                                        token |-> charged[r].token + d]]
<1>1. charged \in [Requests -> Charge]
  BY DEF IInv, TypeOK, Charge
<1>2. charged[r] = [fund |-> charged[r].fund + 0, token |-> charged[r].token + 0]
  BY <1>1 DEF Charge
<1>3. [charged[r] EXCEPT !.fund = @ + d]
      = [fund |-> charged[r].fund + d, token |-> charged[r].token + 0]
  BY <1>1 DEF Charge
<1>4. [charged[r] EXCEPT !.token = @ + d]
      = [fund |-> charged[r].fund + 0, token |-> charged[r].token + d]
  BY <1>1 DEF Charge
<1> QED BY <1>1, <1>2, <1>3, <1>4

\* A statement that fails, or none, takes nothing.
LEMMA NoChargeIs ==
    ASSUME IInv, NEW r \in Requests, NoCharge
    PROVE  Charges(r, 0, 0)
  BY ChargedIs DEF IInv, TypeOK, NoCharge, stores, Charges, SubscriptionWithinTotal

\* The history of failing statements.
LEMMA FaultIs ==
    ASSUME IInv, NEW r \in Requests
    PROVE  /\ NoFault /\ UNCHANGED resets => Bounds
           /\ Fault(r) /\ UNCHANGED resets => Bounds /\ NoCharge
  BY DEF IInv, TypeOK, NoFault, Fault, Bounds

LEMMA UserQuotaIs ==
    ASSUME IInv, NEW r \in Requests, NEW d \in Int, UpdateUserQuota(r, d)
    PROVE  Charges(r, d, 0)
<1>1. charged' = [charged EXCEPT ![r] = [fund |-> charged[r].fund + d,
                                         token |-> charged[r].token + 0]]
  BY ChargedIs DEF UpdateUserQuota
<1>2. wallet' = wallet - d /\ UNCHANGED <<token, sub, record>>
  BY DEF UpdateUserQuota
<1> QED BY <1>1, <1>2 DEF IInv, TypeOK, Charges, SubscriptionWithinTotal

LEMMA TokenQuotaIs ==
    ASSUME IInv, NEW r \in Requests, NEW d \in Int, UpdateTokenQuota(r, d)
    PROVE  Charges(r, 0, d)
<1>1. charged' = [charged EXCEPT ![r] = [fund |-> charged[r].fund + 0,
                                         token |-> charged[r].token + d]]
  BY ChargedIs DEF UpdateTokenQuota
<1>2. token' = token - d /\ UNCHANGED <<wallet, sub, record>>
  BY DEF UpdateTokenQuota
<1> QED BY <1>1, <1>2 DEF IInv, TypeOK, Charges, SubscriptionWithinTotal

\* The transaction on a subscription's row keeps it within its total.
LEMMA SubscriptionDeltaIs ==
    ASSUME IInv, NEW r \in Requests, NEW i \in Subs, NEW d \in Int,
           PostConsumeUserSubscriptionDelta(r, i, d)
    PROVE  Charges(r, d, 0)
<1>1. sub[i] \in UserSubscription /\ UsedAfter(i, d) \in Nat
  BY DEF IInv, TypeOK, UsedAfter, UserSubscription
<1>2. /\ sub' \in [Subs -> UserSubscription]
      /\ sub'[i].used = UsedAfter(i, d)
      /\ \A j \in Subs : j # i => sub'[j] = sub[j]
  <2> DEFINE w == [sub[i] EXCEPT !.used = UsedAfter(i, d)]
  <2>1. w \in UserSubscription /\ w.used = UsedAfter(i, d)
    BY <1>1 DEF UserSubscription
  <2>2. sub' = [sub EXCEPT ![i] = w] /\ sub \in [Subs -> UserSubscription]
    BY DEF PostConsumeUserSubscriptionDelta, IInv, TypeOK
  <2> HIDE DEF w
  <2> QED BY <2>1, <2>2
<1>3. SubscriptionWithinTotal'
  BY <1>2 DEF IInv, SubscriptionWithinTotal, PostConsumeUserSubscriptionDelta, DeltaFits
<1> QED
  BY <1>2, <1>3, ChargedIs DEF IInv, TypeOK, PostConsumeUserSubscriptionDelta, Charges

\* Funding.Settle and PostConsumeQuota, for a session that has its funding.
LEMMA AdjustFundingIs ==
    ASSUME IInv, NEW r \in Requests, NEW d \in Int, PaidInv(ses[r]), AdjustFunding(r, d)
    PROVE  Charges(r, d, 0)
  BY UserQuotaIs, SubscriptionDeltaIs DEF AdjustFunding, PaidInv

\* The pre-consumption of a subscription, with the resets it applies.
LEMMA PreConsumeSubscriptionIs ==
    ASSUME IInv, NEW r \in Requests, NEW i \in Subs, PreConsumeUserSubscription(r, i)
    PROVE  Charges(r, ses[r].amount, 0)
<1> DEFINE n == ses[r].amount
           used(j) == CurrentUsed(j) + (IF j = i THEN n ELSE 0)
<1>1. /\ n \in Nat /\ sub \in [Subs -> UserSubscription] /\ SubTotal \in [Subs -> Nat]
      /\ \A j \in Subs : /\ sub[j] \in UserSubscription /\ CurrentUsed(j) \in Nat
                         /\ CurrentUsed(j) <= sub[j].used
  BY BillingAssumption DEF IInv, TypeOK, Session, UserSubscription, CurrentUsed
<1>2. ASSUME NEW j \in Subs
      PROVE  /\ sub'[j] \in UserSubscription
             /\ SubTotal[j] = 0 \/ sub'[j].used <= SubTotal[j]
  <2>1. SubTotal[j] = 0 \/ sub[j].used <= SubTotal[j]
    BY DEF IInv, SubscriptionWithinTotal
  <2>2. CASE j \in ActiveSubs /\ j <= i
    <3>1. sub'[j] = [sub[j] EXCEPT !.due = FALSE, !.used = used(j)]
      BY <2>2 DEF PreConsumeUserSubscription
    <3>2. used(j) \in Nat
      BY <1>1
    <3>3. sub'[j] \in UserSubscription /\ sub'[j].used = used(j)
      BY <1>1, <3>1, <3>2 DEF UserSubscription
    <3>4. j = i => SubTotal[j] = 0 \/ used(j) <= SubTotal[j]
      <4>1. SubTotal[i] = 0 \/ SubTotal[i] - CurrentUsed(i) >= n
        BY DEF PreConsumeUserSubscription, FirstWithRoom, HasRoom
      <4>2. SubTotal[i] \in Nat /\ CurrentUsed(i) \in Nat /\ n \in Nat
        BY <1>1
      <4> HIDE DEF n
      <4> QED BY <4>1, <4>2
    <3> QED BY <1>1, <2>1, <3>3, <3>4 DEF UserSubscription
  <2>3. CASE ~(j \in ActiveSubs /\ j <= i)
    BY <1>1, <2>1, <2>3 DEF PreConsumeUserSubscription
  <2> QED BY <2>2, <2>3
<1>3. sub' \in [Subs -> UserSubscription]
  BY <1>2 DEF PreConsumeUserSubscription
<1>4. SubscriptionWithinTotal'
  BY <1>2 DEF SubscriptionWithinTotal
<1>5. charged' = [charged EXCEPT ![r] = [fund |-> charged[r].fund + n,
                                         token |-> charged[r].token + 0]]
  <2>1. charged' = [charged EXCEPT ![r].fund = @ + n]
    BY DEF PreConsumeUserSubscription
  <2>2. n \in Int
    BY <1>1
  <2> QED BY <2>1, <2>2, ChargedIs
<1>6. record' \in [Requests -> {"none", "consumed", "refunded"}]
  BY DEF IInv, TypeOK, PreConsumeUserSubscription
<1>7. UNCHANGED <<wallet, token>>
  BY DEF PreConsumeUserSubscription
<1> QED BY <1>3, <1>4, <1>5, <1>6, <1>7 DEF IInv, TypeOK, Charges

-----------------------------------------------------------------------------
(* Steps by the phase of the request.                                      *)

\* The parts of a request, and what it leaves alone.
LEMMA Parts ==
    ASSUME IInv, NEW r \in Requests
    PROVE  /\ pc[r] \in PCs /\ refund[r] \in RefundPCs /\ req[r] \in RelayInfo
           /\ ses[r] \in Session /\ charged[r].fund \in Int /\ charged[r].token \in Int
           /\ pc = [pc EXCEPT ![r] = pc[r]] /\ refund = [refund EXCEPT ![r] = refund[r]]
           /\ req = [req EXCEPT ![r] = req[r]] /\ ses = [ses EXCEPT ![r] = ses[r]]
           /\ ControlInv(pc[r], refund[r], req[r], ses[r])
           /\ TokenInv(pc[r], refund[r], req[r], ses[r], charged[r])
           /\ SaveMayFail \/ FundInv(pc[r], refund[r], req[r], ses[r], charged[r])
  BY DEF IInv, TypeOK, RequestInv, PCs

FreePCs == ({"idle", "rejected"} \cup PreparePCs) \ {"fund", "tokenBack"}

\* Before it is relayed, a request moves on with its session, or is refused.
LEMMA PrepareMove ==
    ASSUME IInv, NEW r \in Requests, pc[r] \in {"idle"} \cup PreparePCs, Bounds,
           NEW p \in FreePCs, NEW q \in RelayInfo, ~q.fee, NEW dt \in Int,
           Goto(r, p), req' = [req EXCEPT ![r] = q], UNCHANGED <<ses, refund>>,
           Charges(r, 0, dt), charged[r].token + dt >= 0
    PROVE  IInv' /\ KeepsClosed
<1> DEFINE f == refund[r]
           s == ses[r]
           c == [fund |-> charged[r].fund + 0, token |-> charged[r].token + dt]
<1>1. Moves(r, p, f, q, s)
  BY Parts DEF Moves, Goto
<1>2. Acting(r) /\ p \in PCs
  BY DEF Acting, PCs, FreePCs, PreparePCs, EndPCs
<1>3. f = "none"
  BY Parts DEF ControlInv, FailedPCs, PreparePCs
<1>4. ControlInv(p, f, q, s)
  BY <1>3, Parts DEF ControlInv, FreePCs, PreparePCs, RelayedPCs, FailedPCs
<1>5. TokenInv(p, f, q, s, c)
  BY <1>3 DEF TokenInv, FreePCs, PreparePCs, RelayedPCs
<1>6. SaveMayFail \/ FundInv(p, f, q, s, c)
  BY <1>3, Parts DEF FundInv, FreePCs, PreparePCs, RelayedPCs
<1> QED BY <1>1, <1>2, <1>4, <1>5, <1>6, Parts, RequestStep DEF RequestInv

\* preConsume starts with a new session.
LEMMA PreConsumeMove ==
    ASSUME IInv, NEW r \in Requests, pc[r] \in {"subscription", "hasSub", "checkWallet"},
           NEW s \in Session, s.attempts = 0, ~s.settled, NEW quota \in Nat,
           PreConsume(r, s, quota), NoCharge, NoFault, UNCHANGED <<req, refund, resets>>
    PROVE  IInv' /\ KeepsClosed
<1> DEFINE p == IF quota = 0 \/ req[r].playground THEN "fund" ELSE "readToken"
           f == refund[r]
           q == req[r]
           s1 == [s EXCEPT !.amount = quota, !.tokenConsumed = quota]
           s2 == [s EXCEPT !.amount = quota]
           t == IF quota = 0 \/ req[r].playground THEN s1 ELSE s2
           c == [fund |-> charged[r].fund + 0, token |-> charged[r].token + 0]
<1>1. /\ s1 \in Session /\ s1.attempts = 0 /\ ~s1.settled
      /\ s1.tokenConsumed = quota /\ s1.amount = quota
  BY DEF Session
<1>2. s2 \in Session /\ s2.attempts = 0 /\ ~s2.settled
  BY DEF Session
<1>3. Goto(r, p) /\ ses' = [ses EXCEPT ![r] = t]
  BY DEF PreConsume
<1> HIDE DEF s1, s2
<1>4. Moves(r, p, f, q, t) /\ t \in Session
  BY <1>1, <1>2, <1>3, Parts DEF Moves, Goto
<1>5. Acting(r) /\ p \in PCs /\ f = "none"
  BY Parts DEF Acting, PCs, PreparePCs, EndPCs, ControlInv, FailedPCs
<1>6. ControlInv(p, f, q, t)
  BY <1>1, <1>2, <1>5, Parts DEF ControlInv, RelayedPCs, FailedPCs
<1>7. TokenInv(p, f, q, t, c)
  BY <1>1, <1>5, Parts DEF TokenInv, TokenTaken, RelayedPCs
<1>8. SaveMayFail \/ FundInv(p, f, q, t, c)
  BY <1>5, Parts DEF FundInv, RelayedPCs
<1>9. Charges(r, 0, 0) /\ Bounds
  BY NoChargeIs, FaultIs
<1>10. RequestInv(p, f, q, t, c)
  BY <1>6, <1>7, <1>8 DEF RequestInv
<1>11. f \in RefundPCs /\ q \in RelayInfo
  BY Parts
<1> HIDE DEF p, t, f, q
<1> QED BY <1>4, <1>5, <1>9, <1>10, <1>11, RequestStep

OpenPCs == RelayedPCs \ {"settleToken"}

\* While it is relayed, a request keeps what it pre-consumed, and may take more.
LEMMA RelayedMove ==
    ASSUME IInv, NEW r \in Requests, pc[r] \in OpenPCs, Bounds,
           NEW p \in OpenPCs, NEW q \in RelayInfo, q.playground = req[r].playground, q.fee = req[r].fee,
           NEW df \in Nat, NEW dt \in Nat,
           Goto(r, p), req' = [req EXCEPT ![r] = q], UNCHANGED <<ses, refund>>,
           Charges(r, df, dt)
    PROVE  IInv' /\ KeepsClosed
<1> DEFINE f == refund[r]
           s == ses[r]
           c == [fund |-> charged[r].fund + df, token |-> charged[r].token + dt]
<1>1. Moves(r, p, f, q, s)
  BY Parts DEF Moves, Goto
<1>2. Acting(r) /\ p \in PCs
  BY DEF Acting, PCs, OpenPCs, RelayedPCs, ServePCs, EndPCs
<1>3. f = "none"
  BY Parts DEF ControlInv, FailedPCs, OpenPCs, RelayedPCs
<1>4. ControlInv(p, f, q, s)
  BY <1>3, Parts DEF ControlInv, OpenPCs, RelayedPCs, FailedPCs
<1>5. TokenTaken(q, s) = TokenTaken(req[r], s) /\ TokenTaken(q, s) \in Nat
  BY Parts DEF TokenTaken, Session
<1>6. TokenInv(p, f, q, s, c)
  BY <1>3, <1>5, Parts DEF TokenInv, OpenPCs
<1>7. SaveMayFail \/ FundInv(p, f, q, s, c)
  BY <1>3, Parts DEF FundInv, OpenPCs, Session
<1> QED BY <1>1, <1>2, <1>4, <1>6, <1>7, Parts, RequestStep DEF RequestInv

\* The settlement is over, successful or not, with no more given back than was taken; an
\* unsettled session still has its pre-consumption.
LEMMA ServedMove ==
    ASSUME IInv, NEW r \in Requests, pc[r] \in RelayedPCs, Bounds,
           NEW q \in RelayInfo, ~q.fee, NEW s \in Session, s.attempts = ses[r].attempts,
           NEW df \in Int, NEW dt \in Int, PaidInv(s),
           Goto(r, HandlerReturns(q)), req' = [req EXCEPT ![r] = q], ses' = [ses EXCEPT ![r] = s],
           UNCHANGED refund, Charges(r, df, dt),
           SaveMayFail \/ charged[r].fund + df >= 0, charged[r].token + dt >= 0,
           s.settled \/ (/\ charged[r].token + dt >= TokenTaken(q, s)
                         /\ SaveMayFail \/ charged[r].fund + df >= s.preConsumedQuota)
    PROVE  IInv' /\ KeepsClosed
<1> DEFINE f == refund[r]
           c == [fund |-> charged[r].fund + df, token |-> charged[r].token + dt]
<1>0. PICK p \in {"served", "errored"} : Goto(r, p)
  BY DEF HandlerReturns
<1>1. Moves(r, p, f, q, s)
  BY <1>0, Parts DEF Moves, Goto
<1>2. Acting(r) /\ p \in PCs
  BY DEF Acting, PCs, RelayedPCs, EndPCs, ServePCs
<1>3. f = "none"
  BY Parts DEF ControlInv, FailedPCs, RelayedPCs
<1>4. ControlInv(p, f, q, s)
  BY <1>3, Parts DEF ControlInv, RelayedPCs, FailedPCs
<1>5. TokenInv(p, f, q, s, c)
  BY <1>3 DEF TokenInv, RelayedPCs
<1>6. SaveMayFail \/ FundInv(p, f, q, s, c)
  BY <1>3 DEF FundInv, RelayedPCs
<1> QED BY <1>1, <1>2, <1>4, <1>5, <1>6, Parts, RequestStep DEF RequestInv

\* While it is relayed, a request has its funding and has met no fee.
LEMMA RelayedState ==
    ASSUME IInv, NEW r \in Requests, pc[r] \in RelayedPCs
    PROVE  ~req[r].fee /\ PaidInv(ses[r])
  BY Parts DEF ControlInv, RelayedPCs

-----------------------------------------------------------------------------
(* The actions before the request is relayed.                              *)

\* The new sessions of trySubscription and tryWallet.
LEMMA NewSessions ==
    /\ NoSession \in Session /\ NoSession.attempts = 0 /\ ~NoSession.settled
    /\ LET s == [NoSession EXCEPT !.source = "subscription"]
       IN  s \in Session /\ s.attempts = 0 /\ ~s.settled
    /\ \A b \in BOOLEAN : LET s == [NoSession EXCEPT !.source = "wallet", !.trusted = b]
                          IN  s \in Session /\ s.attempts = 0 /\ ~s.settled
<1>1. NoSession \in Session /\ NoSession.attempts = 0 /\ ~NoSession.settled
  <2>1. 0 \in 0..MaxAttempts
    BY BillingAssumption
  <2> QED BY <2>1 DEF NoSession, Session
<1> QED BY <1>1 DEF Session

LEMMA TrySubscriptionInv ==
    ASSUME IInv, NEW r \in Requests, pc[r] \in {"subscription", "hasSub", "checkWallet"},
           TrySubscription(r), NoCharge, NoFault, UNCHANGED <<req, refund, resets>>
    PROVE  IInv' /\ KeepsClosed
<1> DEFINE s == [NoSession EXCEPT !.source = "subscription"]
           quota == IF req[r].pre <= 0 THEN 1 ELSE req[r].pre
<1>1. s \in Session /\ s.attempts = 0 /\ ~s.settled
  BY NewSessions
<1>2. quota \in Nat
  BY Parts DEF RelayInfo
<1>3. PreConsume(r, s, quota)
  BY DEF TrySubscription
<1> HIDE DEF s, quota
<1> QED BY <1>1, <1>2, <1>3, PreConsumeMove

LEMMA TryWalletInv ==
    ASSUME IInv, NEW r \in Requests, pc[r] = "checkWallet",
           TryWallet(r, wallet), NoCharge, NoFault, UNCHANGED <<req, refund, resets>>
    PROVE  IInv' /\ KeepsClosed
<1> DEFINE trusted == ShouldTrust(r, wallet)
           s == [NoSession EXCEPT !.source = "wallet", !.trusted = trusted]
           quota == IF trusted THEN 0 ELSE req[r].pre
<1>1. trusted \in BOOLEAN
  BY DEF ShouldTrust
<1>2. PreConsume(r, s, quota)
  BY DEF TryWallet
<1>3. quota \in Nat
  BY Parts DEF RelayInfo
<1> HIDE DEF trusted, quota
<1>4. s \in Session /\ s.attempts = 0 /\ ~s.settled
  BY <1>1, NewSessions
<1> HIDE DEF s
<1> QED BY <1>2, <1>3, <1>4, PreConsumeMove

LEMMA PreConsumeBillingInv ==
    ASSUME IInv, NEW r \in Requests, PreConsumeBilling(r)
    PROVE  IInv' /\ KeepsClosed
<1>1. PICK pref \in Preferences, kind \in Kinds, play \in Playgrounds, pre \in PreQuotas :
          /\ req' = [req EXCEPT ![r] = [NoRelayInfo EXCEPT !.pref = pref, !.kind = kind,
                        !.playground = play, !.pre = pre, !.tokenQuota = token]]
          /\ Goto(r, CASE pref = "subscription_first" -> "hasSub"
                       [] pref = "subscription_only" -> "subscription"
                       [] OTHER -> "checkWallet")
  BY DEF PreConsumeBilling
<1> DEFINE q == [NoRelayInfo EXCEPT !.pref = pref, !.kind = kind,
                    !.playground = play, !.pre = pre, !.tokenQuota = token]
<1>2. q \in RelayInfo /\ ~q.fee
  BY BillingAssumption DEF NoRelayInfo, RelayInfo, IInv, TypeOK
<1>3. PICK p \in {"hasSub", "subscription", "checkWallet"} : Goto(r, p)
  BY <1>1
<1>4. p \in FreePCs
  BY DEF FreePCs, PreparePCs
<1> DEFINE dt == 0
<1>5. Charges(r, 0, dt) /\ Bounds /\ UNCHANGED <<ses, refund>> /\ pc[r] = "idle"
  BY NoChargeIs, FaultIs DEF PreConsumeBilling
<1>6. dt \in Int /\ charged[r].token + dt >= 0
  BY Parts DEF TokenInv
<1>7. req' = [req EXCEPT ![r] = q]
  BY <1>1
<1> HIDE DEF q, dt
<1> QED BY <1>2, <1>3, <1>4, <1>5, <1>6, <1>7, PrepareMove

\* Moves that change nothing but the label.
LEMMA LabelMove ==
    ASSUME IInv, NEW r \in Requests, pc[r] \in PreparePCs, NEW p \in FreePCs,
           Goto(r, p), UNCHANGED <<ses, req, refund, resets>>,
           (NoCharge /\ NoFault) \/ Fault(r)
    PROVE  IInv' /\ KeepsClosed
<1> DEFINE dt == 0
<1>1. Charges(r, 0, dt) /\ Bounds
  BY NoChargeIs, FaultIs
<1>2. dt \in Int /\ charged[r].token + dt >= 0
  BY Parts DEF TokenInv
<1>3. req' = [req EXCEPT ![r] = req[r]] /\ req[r] \in RelayInfo /\ ~req[r].fee
  BY Parts DEF ControlInv, PreparePCs
<1> HIDE DEF dt
<1> QED BY <1>1, <1>2, <1>3, PrepareMove

\* The labels that do not promise a charge of the token.
LEMMA FreeLabels ==
    /\ {"hasSub", "subscription", "checkWallet", "readToken", "takeToken", "overflow",
        "rejected"} \subseteq FreePCs
    /\ \A p \in {"hasSub", "subscription", "checkWallet", "readToken", "takeToken", "overflow",
                 "fund", "tokenBack"} : p \in PreparePCs
  BY DEF FreePCs, PreparePCs

LEMMA ChooseFundingInv ==
    ASSUME IInv, NEW r \in Requests,
           StartSubscription(r) \/ HasActiveUserSubscription(r) \/ CheckWallet(r) \/ ReadToken(r)
    PROVE  IInv' /\ KeepsClosed
<1>1. CASE StartSubscription(r)
  BY <1>1, TrySubscriptionInv DEF StartSubscription
<1>2. CASE HasActiveUserSubscription(r)
  BY <1>2, TrySubscriptionInv, LabelMove, FreeLabels DEF HasActiveUserSubscription, Reject
<1>3. CASE CheckWallet(r)
  BY <1>3, TryWalletInv, TrySubscriptionInv, LabelMove, FreeLabels DEF CheckWallet, Reject
<1>4. CASE ReadToken(r)
  BY <1>4, LabelMove, FreeLabels DEF ReadToken, Reject
<1> QED BY <1>1, <1>2, <1>3, <1>4

LEMMA TakeTokenInv ==
    ASSUME IInv, NEW r \in Requests, TakeToken(r)
    PROVE  IInv' /\ KeepsClosed
<1>1. pc[r] = "takeToken" /\ UNCHANGED <<req, refund, resets>>
  BY DEF TakeToken
<1>2. CASE Fault(r) /\ Reject(r)
  BY <1>1, <1>2, LabelMove, FreeLabels DEF Reject
<1>3. CASE /\ UpdateTokenQuota(r, ses[r].amount)
           /\ ses' = [ses EXCEPT ![r] = [@ EXCEPT !.tokenConsumed = ses[r].amount]]
           /\ Goto(r, "fund")
           /\ NoFault
  <2> DEFINE n == ses[r].amount
             f == refund[r]
             q == req[r]
             s == [ses[r] EXCEPT !.tokenConsumed = n]
             c == [fund |-> charged[r].fund + 0, token |-> charged[r].token + n]
  <2>1. n \in Nat /\ f \in RefundPCs /\ q \in RelayInfo
    BY Parts DEF Session
  <2>2. /\ s \in Session /\ s.tokenConsumed = n /\ s.amount = n
        /\ s.attempts = ses[r].attempts /\ s.settled = ses[r].settled
    BY <2>1, Parts DEF Session
  <2>3. Moves(r, "fund", f, q, s)
    BY <1>1, <1>3, Parts DEF Moves, Goto
  <2>4. Charges(r, 0, n) /\ Bounds
    BY <1>1, <1>3, <2>1, TokenQuotaIs, FaultIs
  <2> HIDE DEF s
  <2>5. Acting(r) /\ f = "none" /\ "fund" \in PCs
    BY <1>1, Parts DEF Acting, EndPCs, ControlInv, FailedPCs, PCs, PreparePCs
  <2>6. ControlInv("fund", f, q, s)
    BY <1>1, <2>2, <2>5, Parts DEF ControlInv, RelayedPCs, FailedPCs
  <2>7. TokenInv("fund", f, q, s, c)
    BY <2>1, <2>2, Parts DEF TokenInv, TokenTaken
  <2>8. SaveMayFail \/ FundInv("fund", f, q, s, c)
    BY <2>5, Parts DEF FundInv, RelayedPCs
  <2>9. RequestInv("fund", f, q, s, c)
    BY <2>6, <2>7, <2>8 DEF RequestInv
  <2> HIDE DEF n, f, q
  <2> QED BY <2>1, <2>2, <2>3, <2>4, <2>5, <2>9, RequestStep
<1> QED BY <1>2, <1>3 DEF TakeToken

LEMMA TokenBackInv ==
    ASSUME IInv, NEW r \in Requests, TokenBack(r) \/ AllowOverflow(r)
    PROVE  IInv' /\ KeepsClosed
<1>1. CASE TokenBack(r)
  <2>1. pc[r] = "tokenBack" /\ UNCHANGED <<ses, req, refund, resets>>
    BY <1>1 DEF TokenBack
  <2>2. PICK p \in {"overflow", "rejected"} : Goto(r, p)
    BY <1>1 DEF TokenBack
  <2>3. CASE Fault(r)
    BY <2>1, <2>2, <2>3, LabelMove, FreeLabels
  <2>4. CASE UpdateTokenQuota(r, -TokenToReturn(r)) /\ NoFault
    <3> DEFINE dt == -TokenToReturn(r)
    <3>1. dt \in Int /\ charged[r].token + dt >= 0
      BY <2>1, Parts DEF TokenToReturn, TokenInv, TokenTaken, Session
    <3>2. Charges(r, 0, dt) /\ Bounds
      BY <2>1, <2>4, <3>1, TokenQuotaIs, FaultIs
    <3>3. req' = [req EXCEPT ![r] = req[r]] /\ req[r] \in RelayInfo /\ ~req[r].fee
      BY <2>1, Parts DEF ControlInv
    <3> HIDE DEF dt
    <3> QED BY <2>1, <2>2, <3>1, <3>2, <3>3, FreeLabels, PrepareMove
  <2> QED BY <1>1, <2>3, <2>4 DEF TokenBack
<1>2. CASE AllowOverflow(r)
  BY <1>2, LabelMove, FreeLabels DEF AllowOverflow, FallbackLabel
<1> QED BY <1>1, <1>2

-----------------------------------------------------------------------------
(* The funding, and the settlement.                                        *)

\* The funding took the amount: the request is relayed.
LEMMA ServingMove ==
    ASSUME IInv, NEW r \in Requests, pc[r] = "fund", Bounds, NEW s \in Session, PaidInv(s),
           s.preConsumedQuota = ses[r].amount, s.tokenConsumed = ses[r].tokenConsumed,
           s.settled = ses[r].settled, s.attempts = ses[r].attempts,
           Goto(r, "serving"), ses' = [ses EXCEPT ![r] = s], UNCHANGED <<req, refund>>,
           Charges(r, ses[r].amount, 0)
    PROVE  IInv' /\ KeepsClosed
<1> DEFINE n == ses[r].amount
           f == refund[r]
           q == req[r]
           c == [fund |-> charged[r].fund + n, token |-> charged[r].token + 0]
<1>1. n \in Nat /\ f \in RefundPCs /\ q \in RelayInfo
  BY Parts DEF Session
<1>2. Moves(r, "serving", f, q, s)
  BY Parts DEF Moves, Goto
<1>3. Acting(r) /\ f = "none" /\ "serving" \in PCs
  BY Parts DEF Acting, EndPCs, ControlInv, FailedPCs, PCs, ServePCs
<1>4. ControlInv("serving", f, q, s)
  BY <1>3, Parts DEF ControlInv, FailedPCs
<1>5. TokenInv("serving", f, q, s, c)
  BY Parts DEF TokenInv, TokenTaken
<1>6. SaveMayFail \/ FundInv("serving", f, q, s, c)
  BY <1>1, <1>3, Parts DEF FundInv
<1>7. RequestInv("serving", f, q, s, c)
  BY <1>4, <1>5, <1>6 DEF RequestInv
<1> HIDE DEF n, f, q
<1> QED BY <1>1, <1>2, <1>3, <1>7, RequestStep DEF n

\* The funding failed: the token is given back next.
LEMMA FundFailsMove ==
    ASSUME IInv, NEW r \in Requests, pc[r] = "fund", NEW e \in {"insufficient", "data"},
           FundFails(r, e), UNCHANGED <<req, refund, resets>>, (NoCharge /\ NoFault) \/ Fault(r)
    PROVE  IInv' /\ KeepsClosed
<1> DEFINE s == [ses[r] EXCEPT !.err = e]
           f == refund[r]
           q == req[r]
           c == [fund |-> charged[r].fund + 0, token |-> charged[r].token + 0]
<1>1. /\ s \in Session /\ s.tokenConsumed = ses[r].tokenConsumed
      /\ s.settled = ses[r].settled /\ s.attempts = ses[r].attempts
  BY Parts DEF Session
<1>2. Moves(r, "tokenBack", f, q, s)
  BY Parts DEF Moves, Goto, FundFails
<1>3. Charges(r, 0, 0) /\ Bounds
  BY NoChargeIs, FaultIs
<1>4. /\ Acting(r) /\ f = "none" /\ "tokenBack" \in PCs
      /\ f \in RefundPCs /\ q \in RelayInfo
  BY Parts DEF Acting, EndPCs, ControlInv, FailedPCs, PCs, PreparePCs
<1> HIDE DEF s
<1>5. ControlInv("tokenBack", f, q, s)
  BY <1>1, <1>4, Parts DEF ControlInv, RelayedPCs, FailedPCs
<1>6. TokenInv("tokenBack", f, q, s, c)
  BY <1>1, Parts DEF TokenInv, TokenTaken
<1>7. SaveMayFail \/ FundInv("tokenBack", f, q, s, c)
  BY <1>4, Parts DEF FundInv, RelayedPCs
<1>8. RequestInv("tokenBack", f, q, s, c)
  BY <1>5, <1>6, <1>7 DEF RequestInv
<1> HIDE DEF f, q
<1> QED BY <1>1, <1>2, <1>3, <1>4, <1>8, RequestStep

LEMMA FundWalletInv ==
    ASSUME IInv, NEW r \in Requests, FundWallet(r)
    PROVE  IInv' /\ KeepsClosed
<1>1. pc[r] = "fund" /\ ses[r].source = "wallet" /\ UNCHANGED <<req, refund, resets>>
  BY DEF FundWallet
<1>2. CASE Fault(r) /\ FundFails(r, "data")
  BY <1>1, <1>2, FundFailsMove
<1>3. CASE /\ UpdateUserQuota(r, ses[r].amount)
           /\ ses' = [ses EXCEPT ![r] = [@ EXCEPT !.consumed = ses[r].amount,
                                                  !.preConsumedQuota = ses[r].amount]]
           /\ Goto(r, "serving")
           /\ NoFault
  <2> DEFINE n == ses[r].amount
             s == [ses[r] EXCEPT !.consumed = n, !.preConsumedQuota = n]
  <2>1. n \in Nat
    BY Parts DEF Session
  <2>2. /\ s \in Session /\ s.consumed = n /\ s.preConsumedQuota = n
        /\ s.tokenConsumed = ses[r].tokenConsumed /\ s.settled = ses[r].settled
        /\ s.attempts = ses[r].attempts /\ s.source = ses[r].source
    BY <2>1, Parts DEF Session
  <2>3. ses[r].tokenConsumed = n
    BY <1>1, Parts DEF ControlInv
  <2>4. Charges(r, n, 0) /\ Bounds
    BY <1>1, <1>3, <2>1, UserQuotaIs, FaultIs
  <2>5. ses' = [ses EXCEPT ![r] = s]
    BY <1>3
  <2> HIDE DEF s
  <2>6. PaidInv(s)
    BY <1>1, <2>2, <2>3 DEF PaidInv
  <2> QED BY <1>1, <1>3, <2>2, <2>4, <2>5, <2>6, ServingMove
<1> QED BY <1>2, <1>3 DEF FundWallet

LEMMA FundSubscriptionInv ==
    ASSUME IInv, NEW r \in Requests, FundSubscription(r)
    PROVE  IInv' /\ KeepsClosed
<1>1. pc[r] = "fund" /\ ses[r].source = "subscription" /\ UNCHANGED <<req, refund, resets>>
  BY DEF FundSubscription
<1>2. CASE FundFails(r, "insufficient") /\ NoCharge /\ NoFault
  BY <1>1, <1>2, FundFailsMove
<1>3. CASE \E e \in {"insufficient", "data"} : Fault(r) /\ FundFails(r, e)
  BY <1>1, <1>3, FundFailsMove
<1>4. ASSUME NEW i \in Subs, PreConsumeUserSubscription(r, i),
             ses' = [ses EXCEPT ![r] = [@ EXCEPT !.subscriptionId = i,
                            !.subPreConsumed = ses[r].amount,
                            !.preConsumedQuota = ses[r].amount]],
             Goto(r, "serving"), NoFault
      PROVE  IInv' /\ KeepsClosed
  <2> DEFINE n == ses[r].amount
             s == [ses[r] EXCEPT !.subscriptionId = i, !.subPreConsumed = n,
                                 !.preConsumedQuota = n]
  <2>1. n \in Nat
    BY Parts DEF Session
  <2>2. /\ s \in Session /\ s.subPreConsumed = n /\ s.preConsumedQuota = n
        /\ s.tokenConsumed = ses[r].tokenConsumed /\ s.settled = ses[r].settled
        /\ s.attempts = ses[r].attempts /\ s.source = ses[r].source /\ s.subscriptionId = i
    BY <2>1, Parts DEF Session
  <2>3. ses[r].tokenConsumed = n
    BY <1>1, Parts DEF ControlInv
  <2>4. Charges(r, n, 0) /\ Bounds
    BY <1>1, <1>4, PreConsumeSubscriptionIs, FaultIs
  <2>5. ses' = [ses EXCEPT ![r] = s]
    BY <1>4
  <2> HIDE DEF s
  <2>6. PaidInv(s)
    BY <1>1, <2>2, <2>3 DEF PaidInv
  <2> QED BY <1>1, <1>4, <2>2, <2>4, <2>5, <2>6, ServingMove
<1> QED BY <1>2, <1>3, <1>4 DEF FundSubscription

LEMMA PrepareInv ==
    ASSUME IInv, NEW r \in Requests, Prepare(r)
    PROVE  IInv' /\ KeepsClosed
  BY ChooseFundingInv, TakeTokenInv, FundWalletInv, FundSubscriptionInv, TokenBackInv DEF Prepare

\* s is session t, settled.
SettledSession(s, t) ==
    /\ s \in Session /\ s.settled /\ s.attempts = t.attempts
    /\ s.tokenConsumed = t.tokenConsumed /\ s.preConsumedQuota = t.preConsumedQuota
    /\ s.consumed = t.consumed /\ s.subPreConsumed = t.subPreConsumed
    /\ s.source = t.source /\ s.subscriptionId = t.subscriptionId

LEMMA SettledIs ==
    ASSUME NEW t \in Session
    PROVE  SettledSession([t EXCEPT !.settled = TRUE], t)
  BY DEF Session, SettledSession

\* Settle up to its first statement, together with a charge of the step before it.
LEMMA SettleMove ==
    ASSUME IInv, NEW r \in Requests, pc[r] \in OpenPCs, Bounds,
           NEW q \in RelayInfo, q.playground = req[r].playground, q.fee = req[r].fee,
           NEW df \in Nat, NEW dt \in Nat, Charges(r, df, dt),
           Settle(r, q), UNCHANGED refund
    PROVE  IInv' /\ KeepsClosed
<1>1. CASE q.actual = ses[r].preConsumedQuota
  <2> DEFINE s == [ses[r] EXCEPT !.settled = TRUE]
  <2>1. SettledSession(s, ses[r])
    BY Parts, SettledIs
  <2>2. /\ ses' = [ses EXCEPT ![r] = s] /\ Goto(r, HandlerReturns(q))
        /\ req' = [req EXCEPT ![r] = q]
    BY <1>1 DEF Settle
  <2>3. (SaveMayFail \/ charged[r].fund + df >= 0) /\ charged[r].token + dt >= 0
    BY Parts DEF FundInv, TokenInv
  <2>4. pc[r] \in RelayedPCs /\ df \in Int /\ dt \in Int
    BY DEF OpenPCs
  <2> HIDE DEF s
  <2>5. PaidInv(s) /\ ~q.fee /\ s \in Session /\ s.attempts = ses[r].attempts /\ s.settled
    BY <2>1, <2>4, RelayedState DEF SettledSession, PaidInv
  <2> QED BY <2>2, <2>3, <2>4, <2>5, ServedMove
<1>2. CASE q.actual # ses[r].preConsumedQuota
  <2>1. Goto(r, "settleFund") /\ UNCHANGED ses /\ req' = [req EXCEPT ![r] = q]
    BY <1>2 DEF Settle
  <2>2. "settleFund" \in OpenPCs
    BY DEF OpenPCs, RelayedPCs
  <2> QED BY <2>1, <2>2, RelayedMove
<1> QED BY <1>1, <1>2

\* A request that could not settle keeps what it pre-consumed for now.
LEMMA UnsettledMove ==
    ASSUME IInv, NEW r \in Requests, pc[r] = "settleFund", Goto(r, HandlerReturns(req[r])),
           UNCHANGED <<ses, req, refund, resets>>, (NoCharge /\ NoFault) \/ Fault(r)
    PROVE  IInv' /\ KeepsClosed
<1> DEFINE d == 0
<1>1. Charges(r, d, d) /\ Bounds
  BY NoChargeIs, FaultIs
<1>2. d \in Int /\ (SaveMayFail \/ charged[r].fund + d >= 0) /\ charged[r].token + d >= 0
  BY Parts DEF FundInv, TokenInv
<1>3. pc[r] \in RelayedPCs
  BY DEF RelayedPCs
<1>4. /\ charged[r].token + d >= TokenTaken(req[r], ses[r])
      /\ SaveMayFail \/ charged[r].fund + d >= ses[r].preConsumedQuota
  BY <1>3, Parts DEF FundInv, TokenInv
<1> HIDE DEF d
<1> QED BY <1>1, <1>2, <1>3, <1>4, Parts, RelayedState, ServedMove

LEMMA SettleFundInv ==
    ASSUME IInv, NEW r \in Requests, SettleFund(r)
    PROVE  IInv' /\ KeepsClosed
<1>1. pc[r] = "settleFund" /\ UNCHANGED <<req, refund, resets>> /\ pc[r] \in RelayedPCs
  BY DEF SettleFund, RelayedPCs
<1>2. CASE \/ Goto(r, HandlerReturns(req[r])) /\ NoCharge /\ NoFault /\ UNCHANGED ses
           \/ Fault(r) /\ Goto(r, HandlerReturns(req[r])) /\ UNCHANGED ses
  BY <1>1, <1>2, UnsettledMove
<1>3. CASE /\ AdjustFunding(r, Delta(r))
           /\ ses' = [ses EXCEPT ![r] = [@ EXCEPT !.fundingSettled = TRUE,
                                                  !.settled = DoneAfterFunding(r)]]
           /\ Goto(r, IF req[r].playground THEN HandlerReturns(req[r]) ELSE "settleToken")
           /\ NoFault
  <2> DEFINE q == req[r]
             f == refund[r]
             df == Delta(r)
             dt == 0
             b == DoneAfterFunding(r)
             s == [ses[r] EXCEPT !.fundingSettled = TRUE, !.settled = b]
             c == [fund |-> charged[r].fund + df, token |-> charged[r].token + dt]
  <2>1. b \in BOOLEAN /\ (b <=> q.playground) /\ q \in RelayInfo /\ q.actual \in Nat
    BY Parts DEF DoneAfterFunding, RelayInfo
  <2> HIDE DEF b
  <2>2. /\ s \in Session /\ s.settled = b /\ s.attempts = ses[r].attempts
        /\ s.tokenConsumed = ses[r].tokenConsumed /\ s.preConsumedQuota = ses[r].preConsumedQuota
        /\ s.consumed = ses[r].consumed /\ s.subPreConsumed = ses[r].subPreConsumed
        /\ s.source = ses[r].source /\ s.subscriptionId = ses[r].subscriptionId
    BY <2>1, Parts DEF Session
  <2>3. PaidInv(ses[r]) /\ PaidInv(s)
    BY <1>1, <2>2, Parts DEF ControlInv, PaidInv
  <2>4. df \in Int /\ dt \in Int /\ df = q.actual - ses[r].preConsumedQuota
    BY <2>1, Parts DEF Delta, Session
  <2>5. Charges(r, df, dt) /\ Bounds
    BY <1>1, <1>3, <2>3, <2>4, AdjustFundingIs, FaultIs
  <2>6. (SaveMayFail \/ charged[r].fund + df >= 0) /\ charged[r].token + dt >= 0
    BY <1>1, <2>1, <2>4, Parts DEF FundInv, TokenInv, Session
  <2>7. ses' = [ses EXCEPT ![r] = s] /\ req' = [req EXCEPT ![r] = q]
    BY <1>1, <1>3, Parts DEF b
  <2> HIDE DEF s
  <2>8. CASE q.playground
    <3>1. Goto(r, HandlerReturns(q)) /\ s.settled /\ ~q.fee
      BY <1>1, <1>3, <2>1, <2>2, <2>8, RelayedState
    <3> HIDE DEF df, dt
    <3> QED BY <1>1, <2>1, <2>2, <2>3, <2>4, <2>5, <2>6, <2>7, <3>1, ServedMove
  <2>9. CASE ~q.playground
    <3>1. Moves(r, "settleToken", f, q, s)
      BY <1>1, <1>3, <2>7, <2>9, Parts DEF Moves, Goto
    <3>2. /\ Acting(r) /\ f = "none" /\ "settleToken" \in PCs /\ f \in RefundPCs
      BY <1>1, Parts DEF Acting, EndPCs, ControlInv, FailedPCs, PCs, ServePCs
    <3>3. ControlInv("settleToken", f, q, s)
      BY <1>1, <2>1, <2>2, <2>3, <2>9, <3>2, Parts DEF ControlInv
    <3>4. TokenInv("settleToken", f, q, s, c)
      BY <1>1, <2>2, Parts DEF TokenInv, TokenTaken
    <3>5. SaveMayFail \/ FundInv("settleToken", f, q, s, c)
      BY <2>6, <3>2 DEF FundInv
    <3>6. RequestInv("settleToken", f, q, s, c)
      BY <3>3, <3>4, <3>5 DEF RequestInv
    <3> HIDE DEF df, dt, f, q
    <3> QED BY <2>1, <2>2, <2>4, <2>5, <3>1, <3>2, <3>6, RequestStep
  <2> QED BY <2>8, <2>9
<1> QED BY <1>2, <1>3 DEF SettleFund

LEMMA SettleTokenInv ==
    ASSUME IInv, NEW r \in Requests, SettleToken(r)
    PROVE  IInv' /\ KeepsClosed
<1> DEFINE s == [ses[r] EXCEPT !.settled = TRUE]
           d == Delta(r)
           z == 0
<1>1. /\ pc[r] = "settleToken" /\ UNCHANGED <<refund, resets>> /\ pc[r] \in RelayedPCs
      /\ Goto(r, HandlerReturns(req[r])) /\ req' = [req EXCEPT ![r] = req[r]]
      /\ req[r] \in RelayInfo /\ ~req[r].fee
  BY Parts, RelayedState DEF SettleToken, RelayedPCs
<1>2. /\ s \in Session /\ s.attempts = ses[r].attempts /\ ses' = [ses EXCEPT ![r] = s]
      /\ s.settled /\ PaidInv(s)
  BY <1>1, Parts, RelayedState, SettledIs DEF SettleToken, SettledSession, PaidInv
<1>3. z \in Int /\ (SaveMayFail \/ charged[r].fund + z >= 0) /\ charged[r].token + z >= 0
  BY Parts DEF FundInv, TokenInv
<1>4. d \in Int /\ charged[r].token + d >= 0
  BY <1>1, Parts DEF ControlInv, PaidInv, TokenInv, TokenTaken, Delta, RelayInfo, Session
<1> HIDE DEF s
<1>5. CASE UpdateTokenQuota(r, d) /\ NoFault
  <2>1. Charges(r, z, d) /\ Bounds
    BY <1>1, <1>4, <1>5, TokenQuotaIs, FaultIs
  <2> HIDE DEF d, z
  <2> QED BY <1>1, <1>2, <1>3, <1>4, <2>1, ServedMove
<1>6. CASE Fault(r)
  <2>1. Charges(r, z, z) /\ Bounds
    BY <1>1, <1>6, NoChargeIs, FaultIs
  <2> HIDE DEF d, z
  <2> QED BY <1>1, <1>2, <1>3, <2>1, ServedMove
<1> QED BY <1>5, <1>6 DEF SettleToken

-----------------------------------------------------------------------------
(* Answers and realtime sessions.                                          *)

\* A relayed request goes on with another RelayInfo, and takes nothing.
LEMMA QuietMove ==
    ASSUME IInv, NEW r \in Requests, pc[r] \in OpenPCs,
           NEW p \in OpenPCs, NEW q \in RelayInfo, q.playground = req[r].playground, q.fee = req[r].fee,
           Goto(r, p), req' = [req EXCEPT ![r] = q], UNCHANGED <<ses, refund, resets>>,
           (NoCharge /\ NoFault) \/ Fault(r)
    PROVE  IInv' /\ KeepsClosed
<1> DEFINE z == 0
<1>1. z \in Nat /\ Charges(r, z, z) /\ Bounds
  BY NoChargeIs, FaultIs
<1> HIDE DEF z
<1> QED BY <1>1, RelayedMove

LEMMA OpenLabels ==
    {"serving", "wssFund", "wssToken", "wssFailed", "closing", "settleFund"} \subseteq OpenPCs
  BY DEF OpenPCs, RelayedPCs

\* RelayInfo after a report and after an answer.
LEMMA InfoIs ==
    ASSUME IInv, NEW r \in Requests, NEW n \in Nat
    PROVE  /\ \A phase \in {"open", "retry", "last"} :
                 /\ Reported(r, n, phase) \in RelayInfo
                 /\ Reported(r, n, phase).playground = req[r].playground
                 /\ Reported(r, n, phase).fee = req[r].fee
           /\ \A b \in BOOLEAN :
                 /\ [req[r] EXCEPT !.actual = n, !.broken = b] \in RelayInfo
                 /\ [req[r] EXCEPT !.actual = n, !.broken = b].playground = req[r].playground
                 /\ [req[r] EXCEPT !.actual = n, !.broken = b].fee = req[r].fee
           /\ [req[r] EXCEPT !.fee = TRUE] \in RelayInfo
           /\ [req[r] EXCEPT !.fee = TRUE].playground = req[r].playground
           /\ [req[r] EXCEPT !.fee = TRUE].fee
<1>1. req[r] \in RelayInfo
  BY Parts
<1>2. ASSUME NEW phase \in {"open", "retry", "last"}
      PROVE  /\ Reported(r, n, phase) \in RelayInfo
             /\ Reported(r, n, phase).playground = req[r].playground
             /\ Reported(r, n, phase).fee = req[r].fee
  <2> DEFINE a == req[r].actual + n
  <2>1. a \in Nat
    BY <1>1 DEF RelayInfo
  <2>2. Reported(r, n, phase) = [req[r] EXCEPT !.actual = a, !.report = n, !.phase = phase]
    BY DEF Reported
  <2> HIDE DEF a
  <2> QED BY <1>1, <2>1, <2>2 DEF RelayInfo
<1> QED BY <1>1, <1>2 DEF RelayInfo

\* A usage report looks at the wallet and the token first.
LEMMA ReportMove ==
    ASSUME IInv, NEW r \in Requests, pc[r] \in OpenPCs, NEW q \in RelayInfo,
           q.playground = req[r].playground, q.fee = req[r].fee, Report(r, q)
    PROVE  IInv' /\ KeepsClosed
<1>1. PICK p \in {"wssFund", "wssFailed"} : Goto(r, p)
  BY DEF Report
<1> QED BY <1>1, OpenLabels, QuietMove DEF Report

\* What follows a report, together with its charge.
LEMMA WssDoneMove ==
    ASSUME IInv, NEW r \in Requests, pc[r] \in OpenPCs, Bounds, UNCHANGED refund,
           NEW df \in Nat, NEW dt \in Nat, Charges(r, df, dt), WssDone(r)
    PROVE  IInv' /\ KeepsClosed
<1>1. req[r] \in RelayInfo /\ req = [req EXCEPT ![r] = req[r]]
  BY Parts
<1>2. CASE Settle(r, req[r])
  BY <1>1, <1>2, SettleMove
<1>3. CASE (Goto(r, "serving") \/ Goto(r, "closing")) /\ UNCHANGED <<ses, req>>
  BY <1>1, <1>3, OpenLabels, RelayedMove
<1> QED BY <1>2, <1>3 DEF WssDone

LEMMA SettleBillingInv ==
    ASSUME IInv, NEW r \in Requests, SettleBilling(r)
    PROVE  IInv' /\ KeepsClosed
<1>1. PICK n \in ActualQuotas, b \in BOOLEAN :
          Settle(r, [req[r] EXCEPT !.actual = n, !.broken = b])
  BY DEF SettleBilling
<1> DEFINE q == [req[r] EXCEPT !.actual = n, !.broken = b]
           z == 0
<1>2. q \in RelayInfo /\ q.playground = req[r].playground /\ q.fee = req[r].fee
  <2>1. n \in Nat
    BY BillingAssumption
  <2> QED BY <2>1, InfoIs
<1>3. z \in Nat /\ Charges(r, z, z) /\ Bounds /\ UNCHANGED refund /\ pc[r] \in OpenPCs
  BY NoChargeIs, FaultIs, OpenLabels DEF SettleBilling
<1>4. Settle(r, q)
  BY <1>1
<1> HIDE DEF q, z
<1> QED BY <1>2, <1>3, <1>4, SettleMove

LEMMA WssReportsInv ==
    ASSUME IInv, NEW r \in Requests, WssUsage(r) \/ WssClose(r) \/ WssFailed(r) \/ WssSettle(r)
    PROVE  IInv' /\ KeepsClosed
<1> DEFINE z == 0
<1>1. NoCharge /\ NoFault /\ UNCHANGED resets => z \in Nat /\ Charges(r, z, z) /\ Bounds
  BY NoChargeIs, FaultIs
<1>2. req[r] \in RelayInfo /\ req = [req EXCEPT ![r] = req[r]] /\ req[r].report \in Nat
  BY Parts DEF RelayInfo
<1> HIDE DEF z
<1>3. ASSUME NEW n \in ActualQuotas, NEW phase \in {"open", "retry", "last"},
             pc[r] \in OpenPCs, Report(r, Reported(r, n, phase))
      PROVE  IInv' /\ KeepsClosed
  <2> DEFINE q == Reported(r, n, phase)
  <2>1. q \in RelayInfo /\ q.playground = req[r].playground /\ q.fee = req[r].fee
    <3>1. n \in Nat
      BY BillingAssumption
    <3> QED BY <3>1, InfoIs
  <2>2. Report(r, q)
    BY <1>3
  <2> HIDE DEF q
  <2> QED BY <1>3, <2>1, <2>2, ReportMove
<1>4. CASE WssUsage(r)
  BY <1>3, <1>4, OpenLabels DEF WssUsage
<1>5. CASE WssClose(r)
  BY <1>2, <1>5, OpenLabels, QuietMove DEF WssClose
<1>6. CASE WssFailed(r)
  <2>1. pc[r] \in OpenPCs
    BY <1>6, OpenLabels DEF WssFailed
  <2>2. CASE Report(r, Reported(r, req[r].report, "retry"))
    BY <1>2, <2>1, <2>2, InfoIs, ReportMove
  <2>3. CASE WssDone(r) /\ NoCharge /\ NoFault /\ UNCHANGED <<refund, resets>>
    BY <1>1, <2>1, <2>3, WssDoneMove
  <2> QED BY <1>6, <2>2, <2>3 DEF WssFailed
<1>7. CASE WssSettle(r)
  <2>1. pc[r] \in OpenPCs
    BY <1>7, OpenLabels DEF WssSettle
  <2>2. CASE \E n \in ActualQuotas \ {0} : Report(r, Reported(r, n, "last"))
    BY <1>3, <2>1, <2>2
  <2>3. CASE Settle(r, req[r]) /\ NoCharge /\ NoFault /\ UNCHANGED <<refund, resets>>
    BY <1>1, <1>2, <2>1, <2>3, SettleMove
  <2> QED BY <1>7, <2>2, <2>3 DEF WssSettle
<1> QED BY <1>4, <1>5, <1>6, <1>7

LEMMA WssFundInv ==
    ASSUME IInv, NEW r \in Requests, WssFund(r)
    PROVE  IInv' /\ KeepsClosed
<1> DEFINE d == req[r].report
           z == 0
<1>1. /\ pc[r] = "wssFund" /\ pc[r] \in OpenPCs /\ UNCHANGED <<refund, resets>>
      /\ d \in Nat /\ z \in Nat
      /\ req[r] \in RelayInfo /\ req = [req EXCEPT ![r] = req[r]] /\ PaidInv(ses[r])
  BY OpenLabels, Parts DEF WssFund, ControlInv, RelayedPCs, RelayInfo
<1>2. CASE \/ Goto(r, "wssFailed") /\ NoCharge /\ NoFault /\ UNCHANGED <<ses, req>>
           \/ Fault(r) /\ Goto(r, "wssFailed") /\ UNCHANGED <<ses, req>>
  BY <1>1, <1>2, OpenLabels, QuietMove
<1>3. CASE /\ AdjustFunding(r, d) /\ NoFault
           /\ IF req[r].playground THEN WssDone(r)
                                   ELSE Goto(r, "wssToken") /\ UNCHANGED <<ses, req>>
  <2>1. Charges(r, d, z) /\ Bounds
    BY <1>1, <1>3, AdjustFundingIs, FaultIs
  <2> HIDE DEF d, z
  <2>2. CASE WssDone(r)
    BY <1>1, <2>1, <2>2, WssDoneMove
  <2>3. CASE Goto(r, "wssToken") /\ UNCHANGED <<ses, req>>
    BY <1>1, <2>1, <2>3, OpenLabels, RelayedMove
  <2> QED BY <1>3, <2>2, <2>3
<1> QED BY <1>2, <1>3 DEF WssFund

LEMMA WssTokenInv ==
    ASSUME IInv, NEW r \in Requests, WssToken(r)
    PROVE  IInv' /\ KeepsClosed
<1> DEFINE d == req[r].report
           z == 0
<1>1. /\ pc[r] \in OpenPCs /\ UNCHANGED <<refund, resets>> /\ d \in Nat /\ z \in Nat
      /\ req[r] \in RelayInfo /\ req = [req EXCEPT ![r] = req[r]]
  BY OpenLabels, Parts DEF WssToken, RelayInfo
<1>2. CASE Fault(r) /\ Goto(r, "wssFailed") /\ UNCHANGED <<ses, req>>
  BY <1>1, <1>2, OpenLabels, QuietMove
<1>3. CASE UpdateTokenQuota(r, d) /\ NoFault /\ WssDone(r)
  <2>1. Charges(r, z, d) /\ Bounds
    BY <1>1, <1>3, TokenQuotaIs, FaultIs
  <2> HIDE DEF d, z
  <2> QED BY <1>1, <1>3, <2>1, WssDoneMove
<1> QED BY <1>2, <1>3 DEF WssToken

-----------------------------------------------------------------------------
(* Failure, fee and refund.                                                *)

LEMMA UpstreamFailsInv ==
    ASSUME IInv, NEW r \in Requests, UpstreamFails(r)
    PROVE  IInv' /\ KeepsClosed
<1> DEFINE q == req[r]
           s1 == [ses[r] EXCEPT !.refunded = TRUE]
           c == [fund |-> charged[r].fund + 0, token |-> charged[r].token + 0]
<1>1. pc[r] \in {"serving", "errored"} /\ UNCHANGED <<req, resets>> /\ NoCharge /\ NoFault
  BY DEF UpstreamFails
<1>2. PICK p \in {"failed", "feeFund"} : Goto(r, p)
  BY DEF UpstreamFails
<1>3. /\ s1 \in Session /\ s1.settled = ses[r].settled /\ s1.attempts = ses[r].attempts
      /\ s1.tokenConsumed = ses[r].tokenConsumed
      /\ s1.preConsumedQuota = ses[r].preConsumedQuota
      /\ s1.consumed = ses[r].consumed /\ s1.subPreConsumed = ses[r].subPreConsumed
      /\ s1.source = ses[r].source /\ s1.subscriptionId = ses[r].subscriptionId
  BY Parts DEF Session
<1>4. PICK s \in {s1, ses[r]}, f \in {"fund", "none"} :
          /\ ses' = [ses EXCEPT ![r] = s] /\ refund' = [refund EXCEPT ![r] = f]
          /\ f = "fund" => ~ses[r].settled
  <2>1. refund[r] = "none"
    BY <1>1, Parts DEF ControlInv, FailedPCs
  <2>2. CASE NeedsRefund(r)
    <3>1. /\ ses' = [ses EXCEPT ![r] = s1] /\ refund' = [refund EXCEPT ![r] = "fund"]
          /\ ~ses[r].settled
      BY <2>2 DEF UpstreamFails, NeedsRefund
    <3> HIDE DEF s1
    <3> QED BY <3>1
  <2>3. CASE ~NeedsRefund(r)
    <3>1. UNCHANGED <<ses, refund>>
      BY <2>3 DEF UpstreamFails
    <3> HIDE DEF s1
    <3> QED BY <2>1, <3>1, Parts
  <2> QED BY <2>2, <2>3
<1> HIDE DEF s1
<1>5. /\ s \in Session /\ s.settled = ses[r].settled /\ s.attempts = ses[r].attempts
      /\ s.tokenConsumed = ses[r].tokenConsumed
      /\ s.preConsumedQuota = ses[r].preConsumedQuota
  BY <1>3, <1>4, Parts
<1>6. PaidInv(s)
  BY <1>1, <1>3, <1>4, Parts DEF ControlInv, PaidInv, RelayedPCs
<1>7. Moves(r, p, f, q, s) /\ q \in RelayInfo
  BY <1>1, <1>2, <1>4, Parts DEF Moves, Goto
<1>8. Charges(r, 0, 0) /\ Bounds
  BY <1>1, NoChargeIs, FaultIs
<1>9. FeeOnly(r, q, 0, 0) /\ p \in PCs /\ f \in RefundPCs /\ p \in FailedPCs
  BY <1>1 DEF FeeOnly, EndPCs, PCs, ServePCs, RefundPCs, FailedPCs
<1>10. refund[r] = "none" /\ ses[r].attempts = 0 /\ ~req[r].fee
  BY <1>1, Parts DEF ControlInv, FailedPCs
<1>11. 0 < MaxAttempts
  BY BillingAssumption
<1>12. ControlInv(p, f, q, s)
  BY <1>4, <1>5, <1>6, <1>9, <1>10, <1>11 DEF ControlInv, FailedPCs
<1>13. TokenInv(p, f, q, s, c)
  BY <1>1, <1>2, <1>4, <1>5, Parts DEF TokenInv, TokenTaken, RelayedPCs
<1>14. SaveMayFail \/ FundInv(p, f, q, s, c)
  BY <1>1, <1>2, <1>4, <1>5, Parts DEF FundInv, RelayedPCs
<1>15. RequestInv(p, f, q, s, c)
  BY <1>12, <1>13, <1>14 DEF RequestInv
<1> HIDE DEF q
<1> QED BY <1>5, <1>7, <1>8, <1>9, <1>15, AnyStep

\* The fee is taken while the refund goroutine runs.
LEMMA FeeMove ==
    ASSUME IInv, NEW r \in Requests, pc[r] \in {"feeFund", "feeToken"}, Bounds,
           NEW p \in {"feeToken", "failed"}, NEW q \in RelayInfo,
           q.playground = req[r].playground, q.fee \/ p = "failed", req[r].fee => q.fee,
           NEW df \in Nat, NEW dt \in Nat, FeeOnly(r, q, df, dt),
           Goto(r, p), req' = [req EXCEPT ![r] = q], UNCHANGED <<ses, refund>>,
           Charges(r, df, dt)
    PROVE  IInv' /\ KeepsClosed
<1> DEFINE f == refund[r]
           s == ses[r]
           c == [fund |-> charged[r].fund + df, token |-> charged[r].token + dt]
<1>1. Moves(r, p, f, q, s)
  BY Parts DEF Moves, Goto
<1>2. p \in PCs
  BY DEF PCs, ServePCs, EndPCs
<1>3. ControlInv(p, f, q, s)
  BY Parts DEF ControlInv, RelayedPCs, FailedPCs
<1>4. TokenTaken(q, s) = TokenTaken(req[r], s) /\ TokenTaken(q, s) \in Nat
  BY Parts DEF TokenTaken, Session
<1>5. TokenInv(p, f, q, s, c)
  BY <1>4, Parts DEF TokenInv, RelayedPCs
<1>6. SaveMayFail \/ FundInv(p, f, q, s, c)
  BY Parts DEF FundInv, RelayedPCs, Session
<1> QED BY <1>1, <1>2, <1>3, <1>5, <1>6, Parts, AnyStep DEF RequestInv

LEMMA FeeInv ==
    ASSUME IInv, NEW r \in Requests, FeeFund(r) \/ FeeToken(r)
    PROVE  IInv' /\ KeepsClosed
<1> DEFINE z == 0
           q == [req[r] EXCEPT !.fee = TRUE]
<1>1. /\ q \in RelayInfo /\ q.playground = req[r].playground
      /\ q.fee /\ FeeOnly(r, req[r], z, z)
      /\ req[r] \in RelayInfo /\ req = [req EXCEPT ![r] = req[r]]
  BY Parts, InfoIs DEF FeeOnly
<1>2. z \in Nat /\ Fee \in Nat /\ UNCHANGED <<ses, refund, resets>>
  BY BillingAssumption DEF FeeFund, FeeToken
<1>3. ((NoCharge /\ NoFault) \/ Fault(r)) => Charges(r, z, z) /\ Bounds
  BY <1>2, NoChargeIs, FaultIs
<1>4. CASE FeeFund(r)
  <2>1. pc[r] = "feeFund"
    BY <1>4 DEF FeeFund
  <2>2. CASE Goto(r, "failed") /\ UNCHANGED req /\ ((NoCharge /\ NoFault) \/ Fault(r))
    <3> HIDE DEF z
    <3> QED BY <1>1, <1>2, <1>3, <2>1, <2>2, FeeMove
  <2>3. CASE /\ AdjustFunding(r, Fee) /\ NoFault
             /\ req' = [req EXCEPT ![r] = [@ EXCEPT !.fee = TRUE]]
             /\ Goto(r, IF req[r].playground THEN "failed" ELSE "feeToken")
    <3>1. PaidInv(ses[r]) /\ FeeOnly(r, q, Fee, z)
      BY <1>1, <2>1, Parts DEF ControlInv, FailedPCs, FeeOnly
    <3>2. Charges(r, Fee, z) /\ Bounds
      BY <1>2, <2>3, <3>1, AdjustFundingIs, FaultIs
    <3>3. PICK p \in {"feeToken", "failed"} : Goto(r, p)
      BY <2>3
    <3>4. req' = [req EXCEPT ![r] = q]
      BY <2>3
    <3> HIDE DEF z, q
    <3> QED BY <1>1, <1>2, <2>1, <3>1, <3>2, <3>3, <3>4, FeeMove
  <2> QED BY <1>4, <2>2, <2>3 DEF FeeFund
<1>5. CASE FeeToken(r)
  <2>1. pc[r] = "feeToken" /\ Goto(r, "failed") /\ UNCHANGED req
    BY <1>5 DEF FeeToken
  <2>2. CASE Fault(r)
    <3> HIDE DEF z
    <3> QED BY <1>1, <1>2, <1>3, <2>1, <2>2, FeeMove
  <2>3. CASE UpdateTokenQuota(r, Fee) /\ NoFault
    <3>1. Charges(r, z, Fee) /\ Bounds /\ FeeOnly(r, req[r], z, Fee)
      BY <1>2, <2>1, <2>3, Parts, TokenQuotaIs, FaultIs DEF ControlInv, FeeOnly
    <3> HIDE DEF z
    <3> QED BY <1>1, <1>2, <2>1, <3>1, FeeMove
  <2> QED BY <1>5, <2>2, <2>3 DEF FeeToken
<1> QED BY <1>4, <1>5

\* A step of the refund goroutine gives back no more than the request still has.
LEMMA RefundMove ==
    ASSUME IInv, NEW r \in Requests, refund[r] \in {"fund", "mark", "token"}, Bounds,
           NEW f \in {"fund", "mark", "token", "done"}, NEW s \in Session, PaidInv(s), ~s.settled,
           s.tokenConsumed = ses[r].tokenConsumed, s.preConsumedQuota = ses[r].preConsumedQuota,
           f \in {"fund", "mark"} => s.attempts < MaxAttempts,
           RefundGoto(r, f), ses' = [ses EXCEPT ![r] = s], UNCHANGED <<pc, req>>,
           NEW df \in Int, NEW dt \in Int, Charges(r, df, dt),
           charged[r].token + dt >= 0,
           f # "done" => charged[r].token + dt >= TokenTaken(req[r], ses[r]),
           SaveMayFail \/ charged[r].fund + df >= 0,
           SaveMayFail \/ (f = "fund" => charged[r].fund + df >= ses[r].preConsumedQuota)
    PROVE  IInv' /\ KeepsClosed
<1> DEFINE p == pc[r]
           q == req[r]
           c == [fund |-> charged[r].fund + df, token |-> charged[r].token + dt]
<1>1. Moves(r, p, f, q, s)
  BY Parts DEF Moves, RefundGoto
<1>2. Acting(r) /\ f \in RefundPCs /\ p \in FailedPCs
  BY Parts DEF Acting, RefundPCs, ControlInv
<1>3. ControlInv(p, f, q, s)
  BY <1>2, Parts DEF ControlInv, FailedPCs
<1>4. TokenInv(p, f, q, s, c)
  BY <1>2 DEF TokenInv, TokenTaken, RelayedPCs, FailedPCs
<1>5. SaveMayFail \/ FundInv(p, f, q, s, c)
  BY <1>2 DEF FundInv, RelayedPCs, FailedPCs
<1> QED BY <1>1, <1>2, <1>3, <1>4, <1>5, Parts, RequestStep DEF RequestInv

\* The state of a refund goroutine that has not ended.
LEMMA RefundState ==
    ASSUME IInv, NEW r \in Requests, refund[r] \in {"fund", "mark", "token"}
    PROVE  /\ PaidInv(ses[r]) /\ ~ses[r].settled
           /\ refund[r] \in {"fund", "mark"} => ses[r].attempts < MaxAttempts
           /\ TokenTaken(req[r], ses[r]) \in Nat /\ charged[r].token \in Int
           /\ charged[r].token >= TokenTaken(req[r], ses[r]) /\ charged[r].token >= 0
           /\ ses[r].preConsumedQuota \in Nat /\ charged[r].fund \in Int
           /\ SaveMayFail \/ charged[r].fund >= 0
           /\ SaveMayFail \/ (refund[r] = "fund" => charged[r].fund >= ses[r].preConsumedQuota)
  BY Parts DEF ControlInv, TokenInv, FundInv, FailedPCs, TokenTaken, Session

\* A failed attempt: the goroutine tries again, or goes on with the token.
LEMMA AttemptFailsMove ==
    ASSUME IInv, NEW r \in Requests, refund[r] = "fund" \/ (refund[r] = "mark" /\ SaveMayFail),
           Fault(r), AttemptFails(r), UNCHANGED <<pc, req, resets>>
    PROVE  IInv' /\ KeepsClosed
<1> DEFINE a == ses[r].attempts + 1
           s == [ses[r] EXCEPT !.attempts = a]
           z == 0
<1>1. refund[r] \in {"fund", "mark", "token"} /\ ses[r].attempts < MaxAttempts
  BY RefundState
<1>2. a \in 0..MaxAttempts
  BY <1>1, Parts, BillingAssumption DEF Session
<1>3. ses' = [ses EXCEPT ![r] = s]
  BY Parts DEF AttemptFails
<1>4. PICK f \in {"fund", "token"} : RefundGoto(r, f) /\ (f = "fund" => a < MaxAttempts)
  BY DEF AttemptFails
<1> HIDE DEF a
<1>5. /\ s \in Session /\ s.settled = ses[r].settled /\ s.attempts = a
      /\ s.tokenConsumed = ses[r].tokenConsumed
      /\ s.preConsumedQuota = ses[r].preConsumedQuota
      /\ s.consumed = ses[r].consumed /\ s.subPreConsumed = ses[r].subPreConsumed
      /\ s.source = ses[r].source /\ s.subscriptionId = ses[r].subscriptionId
  BY <1>2, Parts DEF Session
<1> HIDE DEF s
<1>6. PaidInv(s) /\ ~s.settled
  BY <1>1, <1>5, RefundState DEF PaidInv
<1>7. z \in Int /\ Charges(r, z, z) /\ Bounds
  BY NoChargeIs, FaultIs
<1>8. /\ charged[r].token + z >= 0 /\ charged[r].token + z >= TokenTaken(req[r], ses[r])
      /\ SaveMayFail \/ charged[r].fund + z >= 0
      /\ SaveMayFail \/ (f = "fund" => charged[r].fund + z >= ses[r].preConsumedQuota)
  BY <1>1, RefundState
<1> HIDE DEF z
<1> QED BY <1>1, <1>3, <1>4, <1>5, <1>6, <1>7, <1>8, RefundMove

LEMMA RefundWalletInv ==
    ASSUME IInv, NEW r \in Requests, RefundWallet(r)
    PROVE  IInv' /\ KeepsClosed
<1> DEFINE d == -ses[r].consumed
           z == 0
<1>1. /\ refund[r] = "fund" /\ ses[r].source = "wallet" /\ RefundGoto(r, "token")
      /\ UNCHANGED <<pc, req, resets>> /\ ses' = [ses EXCEPT ![r] = ses[r]] /\ ses[r] \in Session
  BY Parts DEF RefundWallet
<1>2. /\ d \in Int /\ z \in Int /\ charged[r].token + z >= 0
      /\ charged[r].token + z >= TokenTaken(req[r], ses[r])
      /\ SaveMayFail \/ charged[r].fund + z >= 0
      /\ SaveMayFail \/ charged[r].fund + d >= 0
  BY <1>1, RefundState DEF PaidInv
<1>3. CASE UpdateUserQuota(r, d) /\ NoFault
  <2>1. Charges(r, d, z) /\ Bounds
    BY <1>1, <1>2, <1>3, UserQuotaIs, FaultIs
  <2> HIDE DEF d, z
  <2> QED BY <1>1, <1>2, <2>1, RefundState, RefundMove
<1>4. CASE Fault(r)
  <2>1. Charges(r, z, z) /\ Bounds
    BY <1>1, <1>4, NoChargeIs, FaultIs
  <2> HIDE DEF d, z
  <2> QED BY <1>1, <1>2, <2>1, RefundState, RefundMove
<1> QED BY <1>3, <1>4 DEF RefundWallet

LEMMA RefundSubscriptionInv ==
    ASSUME IInv, NEW r \in Requests, RefundSubscription(r)
    PROVE  IInv' /\ KeepsClosed
<1> DEFINE d == -ses[r].subPreConsumed
           z == 0
<1>1. /\ refund[r] = "fund" /\ ses[r].source = "subscription"
      /\ UNCHANGED <<pc, req, resets>> /\ ses = [ses EXCEPT ![r] = ses[r]] /\ ses[r] \in Session
  BY Parts DEF RefundSubscription
<1>2. /\ d \in Int /\ z \in Int /\ charged[r].token + z >= 0
      /\ charged[r].token + z >= TokenTaken(req[r], ses[r])
      /\ SaveMayFail \/ charged[r].fund + z >= 0
      /\ SaveMayFail \/ charged[r].fund + d >= 0
      /\ ses[r].subscriptionId \in Subs
  BY <1>1, RefundState DEF PaidInv
<1>3. CASE Fault(r) /\ AttemptFails(r)
  BY <1>1, <1>3, AttemptFailsMove
<1>4. CASE RefundGoto(r, "token") /\ NoCharge /\ NoFault /\ UNCHANGED ses
  <2>1. Charges(r, z, z) /\ Bounds
    BY <1>1, <1>4, NoChargeIs, FaultIs
  <2> HIDE DEF d, z
  <2> QED BY <1>1, <1>2, <1>4, <2>1, RefundState, RefundMove
<1>5. CASE /\ PostConsumeUserSubscriptionDelta(r, ses[r].subscriptionId, d)
           /\ RefundGoto(r, "mark") /\ NoFault /\ UNCHANGED ses
  <2>1. Charges(r, d, z) /\ Bounds
    BY <1>1, <1>2, <1>5, SubscriptionDeltaIs, FaultIs
  <2> HIDE DEF d, z
  <2> QED BY <1>1, <1>2, <1>5, <2>1, RefundState, RefundMove
<1> QED BY <1>3, <1>4, <1>5 DEF RefundSubscription

LEMMA MarkRefundedInv ==
    ASSUME IInv, NEW r \in Requests, MarkRefunded(r)
    PROVE  IInv' /\ KeepsClosed
<1> DEFINE z == 0
<1>1. /\ refund[r] = "mark" /\ UNCHANGED <<pc, req, resets>>
      /\ ses = [ses EXCEPT ![r] = ses[r]] /\ ses[r] \in Session
  BY Parts DEF MarkRefunded
<1>2. /\ z \in Int /\ charged[r].token + z >= 0
      /\ charged[r].token + z >= TokenTaken(req[r], ses[r])
      /\ SaveMayFail \/ charged[r].fund + z >= 0
  BY <1>1, RefundState
<1>3. CASE SaveMayFail /\ Fault(r) /\ AttemptFails(r)
  BY <1>1, <1>3, AttemptFailsMove
<1>4. CASE /\ record' = [record EXCEPT ![r] = "refunded"]
           /\ RefundGoto(r, "token") /\ NoFault
           /\ UNCHANGED <<wallet, token, sub, charged, ses>>
  <2>1. Charges(r, z, z)
    BY <1>4, ChargedIs DEF IInv, TypeOK, Charges, SubscriptionWithinTotal
  <2>2. Bounds
    BY <1>1, <1>4, FaultIs
  <2> HIDE DEF z
  <2> QED BY <1>1, <1>2, <1>4, <2>1, <2>2, RefundState, RefundMove
<1> QED BY <1>3, <1>4 DEF MarkRefunded

LEMMA RefundTokenInv ==
    ASSUME IInv, NEW r \in Requests, RefundToken(r)
    PROVE  IInv' /\ KeepsClosed
<1> DEFINE d == -TokenRefund(r)
           z == 0
<1>1. /\ refund[r] = "token" /\ RefundGoto(r, "done")
      /\ UNCHANGED <<pc, req, resets>> /\ ses' = [ses EXCEPT ![r] = ses[r]] /\ ses[r] \in Session
  BY Parts DEF RefundToken
<1>2. TokenRefund(r) = TokenTaken(req[r], ses[r])
  BY DEF TokenRefund, TokenTaken
<1>3. /\ d \in Int /\ z \in Int /\ charged[r].token + z >= 0 /\ charged[r].token + d >= 0
      /\ SaveMayFail \/ charged[r].fund + z >= 0
  BY <1>1, <1>2, RefundState
<1>4. CASE UpdateTokenQuota(r, d) /\ NoFault
  <2>1. Charges(r, z, d) /\ Bounds
    BY <1>1, <1>3, <1>4, TokenQuotaIs, FaultIs
  <2> HIDE DEF d, z
  <2> QED BY <1>1, <1>3, <2>1, RefundState, RefundMove
<1>5. CASE Fault(r)
  <2>1. Charges(r, z, z) /\ Bounds
    BY <1>1, <1>5, NoChargeIs, FaultIs
  <2> HIDE DEF d, z
  <2> QED BY <1>1, <1>3, <2>1, RefundState, RefundMove
<1> QED BY <1>4, <1>5 DEF RefundToken

-----------------------------------------------------------------------------
(* The theorems.                                                           *)

\* A period that elapses, a reset and an expiry touch one row, and do not add to its usage.
LEMMA SubscriptionLifeInv ==
    ASSUME IInv, NEW i \in Subs,
           PeriodElapses(i) \/ ResetDueSubscriptions(i) \/ ExpireDueSubscriptions(i)
    PROVE  IInv' /\ KeepsClosed
<1>1. /\ UNCHANGED <<wallet, token, record, charged, pc, refund, req, ses, faults, faulty>>
      /\ resets' \in Nat
  BY DEF PeriodElapses, ResetDueSubscriptions, ExpireDueSubscriptions, NoFault, IInv, TypeOK
<1>2. PICK w \in UserSubscription : sub' = [sub EXCEPT ![i] = w] /\ w.used <= sub[i].used
  <2>1. sub[i] \in UserSubscription
    BY DEF IInv, TypeOK
  <2>2. CASE PeriodElapses(i)
    <3> DEFINE w == [sub[i] EXCEPT !.due = TRUE]
    <3>1. w \in UserSubscription /\ w.used <= sub[i].used
      <4>1. w \in UserSubscription
        BY <2>1 DEF UserSubscription
      <4>2. w.used = sub[i].used
        BY <2>1 DEF UserSubscription
      <4>3. sub[i].used \in Nat
        BY <2>1 DEF UserSubscription
      <4> HIDE DEF w
      <4> QED BY <4>1, <4>2, <4>3
    <3>2. sub' = [sub EXCEPT ![i] = w]
      BY <2>2 DEF PeriodElapses
    <3> HIDE DEF w
    <3> QED BY <3>1, <3>2
  <2>3. CASE ResetDueSubscriptions(i)
    <3> DEFINE w == [sub[i] EXCEPT !.used = 0, !.due = FALSE]
    <3>1. w \in UserSubscription /\ w.used <= sub[i].used
      <4>1. w \in UserSubscription
        BY <2>1 DEF UserSubscription
      <4>2. w.used = 0
        BY <2>1 DEF UserSubscription
      <4>3. sub[i].used \in Nat
        BY <2>1 DEF UserSubscription
      <4> HIDE DEF w
      <4> QED BY <4>1, <4>2, <4>3
    <3>2. sub' = [sub EXCEPT ![i] = w]
      BY <2>3 DEF ResetDueSubscriptions
    <3> HIDE DEF w
    <3> QED BY <3>1, <3>2
  <2>4. CASE ExpireDueSubscriptions(i)
    <3> DEFINE w == [sub[i] EXCEPT !.active = FALSE]
    <3>1. w \in UserSubscription /\ w.used <= sub[i].used
      <4>1. w \in UserSubscription
        BY <2>1 DEF UserSubscription
      <4>2. w.used = sub[i].used
        BY <2>1 DEF UserSubscription
      <4>3. sub[i].used \in Nat
        BY <2>1 DEF UserSubscription
      <4> HIDE DEF w
      <4> QED BY <4>1, <4>2, <4>3
    <3>2. sub' = [sub EXCEPT ![i] = w]
      BY <2>4 DEF ExpireDueSubscriptions
    <3> HIDE DEF w
    <3> QED BY <3>1, <3>2
  <2> QED BY <2>2, <2>3, <2>4
<1>3. TypeOK'
  BY <1>1, <1>2 DEF IInv, TypeOK
<1>4. SubscriptionWithinTotal'
  <2>1. ASSUME NEW j \in Subs PROVE SubTotal[j] = 0 \/ sub'[j].used <= SubTotal[j]
    <3>1. SubTotal[j] \in Nat /\ sub[j].used \in Nat /\ w.used \in Nat
      BY BillingAssumption DEF IInv, TypeOK, UserSubscription
    <3>2. SubTotal[j] = 0 \/ sub[j].used <= SubTotal[j]
      BY DEF IInv, SubscriptionWithinTotal
    <3>3. sub'[j] = IF j = i THEN w ELSE sub[j]
      BY <1>2 DEF IInv, TypeOK
    <3> QED BY <1>2, <3>1, <3>2, <3>3
  <2> QED BY <2>1 DEF SubscriptionWithinTotal
<1>5. KeepsClosed
  BY <1>1, Parts DEF KeepsClosed, FeeOnly
<1> QED BY <1>1, <1>3, <1>4, <1>5 DEF IInv

LEMMA InitInv == Init => IInv
<1> SUFFICES ASSUME Init PROVE IInv
  OBVIOUS
<1>1. NoRelayInfo \in RelayInfo
  BY DEF NoRelayInfo, RelayInfo
<1>2. TypeOK
  <2>1. NoSession \in Session
    BY NewSessions
  <2>2. \A i \in Subs : [active |-> TRUE, used |-> 0, due |-> FALSE] \in UserSubscription
    BY DEF UserSubscription
  <2>3. wallet \in Int /\ token \in Int /\ faults \in Nat /\ resets \in Nat
    BY BillingAssumption DEF Init
  <2> QED BY <1>1, <2>1, <2>2, <2>3 DEF Init, TypeOK, RefundPCs
<1>3. SubscriptionWithinTotal
  BY BillingAssumption DEF Init, SubscriptionWithinTotal
<1>4. ASSUME NEW r \in Requests
      PROVE  RequestInv(pc[r], refund[r], req[r], ses[r], charged[r])
  <2>1. /\ pc[r] = "idle" /\ refund[r] = "none" /\ ses[r] = NoSession /\ ~req[r].fee
        /\ charged[r].fund = 0 /\ charged[r].token = 0
    BY DEF Init, NoRelayInfo
  <2>2. NoSession.attempts = 0 /\ ~NoSession.settled
    BY NewSessions
  <2>3. ControlInv(pc[r], refund[r], req[r], ses[r])
    BY <2>1, <2>2 DEF ControlInv, RelayedPCs, FailedPCs
  <2>4. /\ TokenInv(pc[r], refund[r], req[r], ses[r], charged[r])
        /\ FundInv(pc[r], refund[r], req[r], ses[r], charged[r])
    BY <2>1 DEF TokenInv, FundInv, RelayedPCs
  <2> QED BY <2>3, <2>4 DEF RequestInv
<1> QED BY <1>2, <1>3, <1>4 DEF IInv

LEMMA NextInv == IInv /\ [Next]_vars => IInv' /\ [KeepsClosed]_vars
<1> SUFFICES ASSUME IInv, [Next]_vars PROVE IInv' /\ [KeepsClosed]_vars
  OBVIOUS
<1>1. CASE UNCHANGED vars
  BY <1>1 DEF vars, IInv, TypeOK, SubscriptionWithinTotal
<1>2. ASSUME NEW r \in Requests, PreConsumeBilling(r) \/ Prepare(r)
      PROVE  IInv' /\ KeepsClosed
  BY <1>2, PreConsumeBillingInv, PrepareInv
<1>3. ASSUME NEW r \in Requests, Answer(r)
      PROVE  IInv' /\ KeepsClosed
  BY <1>3, SettleBillingInv, UpstreamFailsInv, WssReportsInv DEF Answer
<1>4. ASSUME NEW r \in Requests, Finish(r)
      PROVE  IInv' /\ KeepsClosed
  BY <1>4, SettleFundInv, SettleTokenInv, WssFundInv, WssTokenInv, WssReportsInv, FeeInv DEF Finish
<1>5. ASSUME NEW r \in Requests, RefundStep(r)
      PROVE  IInv' /\ KeepsClosed
  BY <1>5, RefundWalletInv, RefundSubscriptionInv, MarkRefundedInv, RefundTokenInv DEF RefundStep
<1> QED BY <1>1, <1>2, <1>3, <1>4, <1>5, SubscriptionLifeInv DEF Next

LEMMA Invariance == Spec => []IInv
<1>1. IInv /\ [Next]_vars => IInv'
  BY NextInv
<1> QED BY <1>1, InitInv, PTL DEF Spec

\* All variables keep their types; in particular no interleaving of refunds, resets and
\* settlements makes amount_used of a subscription negative.
THEOREM TypeCorrect == Spec => []TypeOK
<1>1. IInv => TypeOK
  BY DEF IInv
<1> QED BY <1>1, Invariance, PTL

\* No number of concurrent requests, failures and resets takes a limited subscription beyond its
\* total.
THEOREM SubscriptionWithinTotalHolds == Spec => []SubscriptionWithinTotal
<1>1. IInv => SubscriptionWithinTotal
  BY DEF IInv
<1> QED BY <1>1, Invariance, PTL

\* Whatever fails, nothing but the fee of a violation, once, is moved for a request after it was
\* settled or refunded, although Refund runs after the settlement of a stream that broke.
THEOREM OnlyTheFeeFollowsHolds == Spec => OnlyTheFeeFollows
<1> DEFINE Follows ==
      \A r \in Requests : ses[r].settled \/ refund[r] = "done"
          => /\ charged'[r].fund # charged[r].fund
                => /\ charged'[r].fund = charged[r].fund + Fee
                   /\ ~req[r].fee /\ req'[r].fee
             /\ charged'[r].token # charged[r].token
                => charged'[r].token = charged[r].token + Fee /\ req[r].fee
<1>1. IInv /\ [Next]_vars => IInv' /\ [Follows]_vars
  <2> SUFFICES ASSUME IInv, [Next]_vars PROVE IInv' /\ [Follows]_vars
    OBVIOUS
  <2>1. IInv' /\ [KeepsClosed]_vars
    BY NextInv
  <2>2. \A r \in Requests : /\ charged[r].fund \in Int /\ charged[r].token \in Int
                            /\ charged'[r].fund \in Int /\ charged'[r].token \in Int
    BY <2>1 DEF IInv, TypeOK
  <2>3. KeepsClosed => Follows
    BY <2>2, BillingAssumption DEF KeepsClosed, FeeOnly
  <2> QED BY <2>1, <2>3
<1>2. OnlyTheFeeFollows <=> [][Follows]_vars
  BY PTL DEF OnlyTheFeeFollows
<1> QED BY <1>1, <1>2, InitInv, PTL DEF Spec

\* When the status of a refunded record is saved with the refund, no failure of any other
\* statement, in any number, makes a request give back more than it took.
THEOREM NeverOverRefundedHolds ==
    ASSUME ~SaveMayFail
    PROVE  Spec => []NeverOverRefunded
<1>1. IInv => NeverOverRefunded
  BY DEF IInv, RequestInv, TokenInv, FundInv, NeverOverRefunded
<1> QED BY <1>1, Invariance, PTL
=============================================================================
