--------------------------- MODULE BillingSession ---------------------------
(***************************************************************************)
(* The billing of relay requests: service/billing_session.go and           *)
(* service/funding_source.go (pre-consume, settle, refund), the statements *)
(* they execute on the user's wallet, on the API token and on the user's   *)
(* subscriptions (model/user.go, model/token.go, model/subscription.go),   *)
(* and the two places that drive a session, controller/relay.go and        *)
(* relay/channel/openai/relay_realtime.go.                                 *)
(*                                                                         *)
(* All requests belong to one user and use one token.  A step is one       *)
(* statement or one transaction of the database; requests, refund          *)
(* goroutines and subscription resets interleave between statements.  A    *)
(* failing statement has no effect.                                        *)
(***************************************************************************)
EXTENDS Integers, FiniteSetsExt

CONSTANTS
    Requests,      \* relay requests
    NumSubs,       \* subscriptions of the user, numbered in end_time order
    SubTotal,      \* SubTotal[i]: amount_total, 0 for no limit
    Overflow,      \* Overflow[i]: allow_wallet_overflow
    Wallet0,       \* the wallet's quota at the start
    Token0,        \* the token's remain_quota at the start
    Unlimited,     \* the token has unlimited quota
    TrustQuota,    \* GetTrustQuota()
    Preferences,   \* the billing preferences the run covers
    Kinds,         \* the request kinds the run covers
    Playgrounds,   \* the values of IsPlayground the run covers
    PreQuotas,     \* the estimated quotas a request may pre-consume
    ActualQuotas,  \* the quotas a response or a realtime usage report may cost
    MaxActual,     \* bound: no usage report once a realtime session cost this much
    Fee,           \* feeQuota of a violation, 0 when the deduction is off
    MaxAttempts,   \* maxAttempts of refundWithRetry
    MaxFaults,     \* bound: failing statements
    MaxResets,     \* bound: reset periods that elapse
    SaveMayFail    \* the save that marks a pre-consume record refunded may fail

Subs == 1..NumSubs

ASSUME BillingAssumption ==
    /\ NumSubs \in Nat
    /\ SubTotal \in [Subs -> Nat] /\ Overflow \in [Subs -> BOOLEAN]
    /\ Wallet0 \in Nat /\ Token0 \in Nat /\ Unlimited \in BOOLEAN /\ TrustQuota \in Nat
    /\ Preferences \subseteq {"subscription_only", "wallet_only", "wallet_first",
                              "subscription_first"}
    /\ Kinds \subseteq {"sync", "task", "realtime"}
    /\ Playgrounds \subseteq BOOLEAN
    /\ PreQuotas \subseteq Nat /\ ActualQuotas \subseteq Nat
    /\ MaxActual \in Nat /\ Fee \in Nat
    /\ MaxAttempts \in Nat \ {0} /\ MaxFaults \in Nat /\ MaxResets \in Nat
    /\ SaveMayFail \in BOOLEAN

VARIABLES
    wallet,    \* users.quota
    token,     \* tokens.remain_quota
    sub,       \* the rows of user_subscriptions
    record,    \* subscription_pre_consume_records, by request id
    pc,        \* where the goroutine of each request is
    refund,    \* where the refund goroutine of each request is
    req,       \* the RelayInfo of each request
    ses,       \* the BillingSession of each request, with its FundingSource
    charged,   \* history: what each request took, net, from its funding and the token
    faults,    \* statements that failed so far
    faulty,    \* history: the requests that met a failing statement
    resets     \* reset periods that elapsed so far

stores == <<wallet, token, sub, record>>
vars == <<wallet, token, sub, record, pc, refund, req, ses, charged, faults, faulty, resets>>

-----------------------------------------------------------------------------
PreparePCs == {"subscription", "hasSub", "checkWallet", "readToken", "takeToken", "fund",
               "tokenBack", "overflow"}
ServePCs == {"serving", "wssFund", "wssToken", "wssFailed", "closing",
             "settleFund", "settleToken", "errored", "feeFund", "feeToken"}
EndPCs == {"served", "failed", "rejected"}
RefundPCs == {"none", "fund", "mark", "token", "done"}

RelayInfo == [pref : {"none", "subscription_only", "wallet_only", "wallet_first",
                      "subscription_first"},
              kind : {"sync", "task", "realtime"}, playground : BOOLEAN,
              pre : Nat, tokenQuota : Int, actual : Nat, report : Nat,
              phase : {"open", "retry", "last"},  \* of a realtime session
              broken : BOOLEAN,                   \* the stream failed after bytes were sent
              fee : BOOLEAN]                      \* history: the fee was charged
NoRelayInfo == [pref |-> "none", kind |-> "sync", playground |-> FALSE, pre |-> 0,
                tokenQuota |-> 0, actual |-> 0, report |-> 0, phase |-> "open",
                broken |-> FALSE, fee |-> FALSE]

Session == [source : {"none", "wallet", "subscription"}, amount : Nat,
            consumed : Nat,             \* WalletFunding.consumed
            subscriptionId : Subs \cup {0}, subPreConsumed : Nat,
            preConsumedQuota : Nat, tokenConsumed : Nat, trusted : BOOLEAN,
            fundingSettled : BOOLEAN, settled : BOOLEAN, refunded : BOOLEAN,
            err : {"none", "insufficient", "data"}, attempts : 0..MaxAttempts]
NoSession == [source |-> "none", amount |-> 0, consumed |-> 0, subscriptionId |-> 0,
              subPreConsumed |-> 0, preConsumedQuota |-> 0, tokenConsumed |-> 0,
              trusted |-> FALSE, fundingSettled |-> FALSE, settled |-> FALSE,
              refunded |-> FALSE, err |-> "none", attempts |-> 0]

UserSubscription == [active : BOOLEAN, used : Nat, due : BOOLEAN]

Init ==
    /\ wallet = Wallet0
    /\ token = Token0
    /\ sub = [i \in Subs |-> [active |-> TRUE, used |-> 0, due |-> FALSE]]
    /\ record = [r \in Requests |-> "none"]
    /\ pc = [r \in Requests |-> "idle"]
    /\ refund = [r \in Requests |-> "none"]
    /\ req = [r \in Requests |-> NoRelayInfo]
    /\ ses = [r \in Requests |-> NoSession]
    /\ charged = [r \in Requests |-> [fund |-> 0, token |-> 0]]
    /\ faults = 0
    /\ faulty = {}
    /\ resets = 0

-----------------------------------------------------------------------------
(* The statements.  d > 0 takes quota, d < 0 gives it back.                *)

\* DecreaseUserQuota and IncreaseUserQuota: quota = quota -/+ d, unconditionally.
UpdateUserQuota(r, d) ==
    /\ wallet' = wallet - d
    /\ charged' = [charged EXCEPT ![r].fund = @ + d]
    /\ UNCHANGED <<token, sub, record>>

\* DecreaseTokenQuota and IncreaseTokenQuota.
UpdateTokenQuota(r, d) ==
    /\ token' = token - d
    /\ charged' = [charged EXCEPT ![r].token = @ + d]
    /\ UNCHANGED <<wallet, sub, record>>

\* Mutation: a refund after a reset is not clamped.
UsedAfter_NoClamp(i, d) == sub[i].used + d

\* What amount_used of subscription i becomes: never below zero.
UsedAfter(i, d) == IF sub[i].used + d < 0 THEN 0 ELSE sub[i].used + d

\* Mutation: the limit is not enforced when a request settles.
DeltaFits_NoLimit(i, d) == TRUE

\* The transaction rejects an amount_used above a limited amount_total.
DeltaFits(i, d) == SubTotal[i] = 0 \/ UsedAfter(i, d) <= SubTotal[i]

PostConsumeUserSubscriptionDelta(r, i, d) ==
    /\ DeltaFits(i, d)
    /\ sub' = [sub EXCEPT ![i] = [@ EXCEPT !.used = UsedAfter(i, d)]]
    /\ charged' = [charged EXCEPT ![r].fund = @ + d]
    /\ UNCHANGED <<wallet, token, record>>

\* FundingSource.Settle, and the funding half of PostConsumeQuota.
AdjustFunding(r, d) ==
    \/ /\ ses[r].source = "wallet"
       /\ UpdateUserQuota(r, d)
    \/ /\ ses[r].source = "subscription"
       /\ PostConsumeUserSubscriptionDelta(r, ses[r].subscriptionId, d)

\* FundingSource.Settle returns an error although the database works.
FundingRejects(r, d) == /\ ses[r].source = "subscription"
                        /\ ~DeltaFits(ses[r].subscriptionId, d)

Goto(r, label) == pc' = [pc EXCEPT ![r] = label]
NoCharge == UNCHANGED <<stores, charged>>
NoFault == UNCHANGED <<faults, faulty>>

\* A statement executed for request r fails.
Fault(r) ==
    /\ faults < MaxFaults
    /\ faults' = faults + 1
    /\ faulty' = faulty \cup {r}
    /\ NoCharge

-----------------------------------------------------------------------------
(* NewBillingSession: choose the funding and pre-consume.                  *)

\* The trust bypass; userQuota and tokenQuota were read earlier.
ShouldTrust(r, userQuota) ==
    /\ req[r].kind # "task"
    /\ TrustQuota > 0
    /\ Unlimited \/ req[r].tokenQuota > TrustQuota
    /\ userQuota > TrustQuota

\* The first half of preConsume: the token is charged before the funding, and
\* PreConsumeTokenQuota returns at once for a playground request.
PreConsume(r, s, quota) ==
    IF quota = 0 \/ req[r].playground
    THEN /\ ses' = [ses EXCEPT ![r] = [s EXCEPT !.amount = quota, !.tokenConsumed = quota]]
         /\ Goto(r, "fund")
    ELSE /\ ses' = [ses EXCEPT ![r] = [s EXCEPT !.amount = quota]]
         /\ Goto(r, "readToken")

TrySubscription(r) ==
    PreConsume(r, [NoSession EXCEPT !.source = "subscription"],
               IF req[r].pre <= 0 THEN 1 ELSE req[r].pre)

TryWallet(r, userQuota) ==
    LET trusted == ShouldTrust(r, userQuota)
    IN  PreConsume(r, [NoSession EXCEPT !.source = "wallet", !.trusted = trusted],
                   IF trusted THEN 0 ELSE req[r].pre)

\* The request is refused before it is relayed.
Reject(r) == Goto(r, "rejected") /\ UNCHANGED ses

\* A relay request reaches PreConsumeBilling; the token's quota in its context
\* was read when the request was authenticated.
PreConsumeBilling(r) ==
    /\ pc[r] = "idle"
    /\ \E pref \in Preferences, kind \in Kinds, play \in Playgrounds, pre \in PreQuotas :
          /\ req' = [req EXCEPT ![r] = [NoRelayInfo EXCEPT !.pref = pref, !.kind = kind,
                        !.playground = play, !.pre = pre, !.tokenQuota = token]]
          /\ Goto(r, CASE pref = "subscription_first" -> "hasSub"
                       [] pref = "subscription_only" -> "subscription"
                       [] OTHER -> "checkWallet")
    /\ NoCharge /\ NoFault
    /\ UNCHANGED <<ses, refund, resets>>

ActiveSubs == {i \in Subs : sub[i].active}

\* subscription_only goes to the subscription at once.
StartSubscription(r) ==
    /\ pc[r] = "subscription"
    /\ TrySubscription(r)
    /\ NoCharge /\ NoFault
    /\ UNCHANGED <<req, refund, resets>>

HasActiveUserSubscription(r) ==
    /\ pc[r] = "hasSub"
    /\ \/ /\ ActiveSubs # {}
          /\ TrySubscription(r)
          /\ NoCharge /\ NoFault
       \/ /\ ActiveSubs = {}
          /\ Goto(r, "checkWallet")
          /\ NoCharge /\ NoFault
          /\ UNCHANGED ses
       \/ Fault(r) /\ Reject(r)
    /\ UNCHANGED <<req, refund, resets>>

\* GetUserQuota and the two checks of tryWallet; only a lack of quota lets
\* wallet_first go on with a subscription.
CheckWallet(r) ==
    /\ pc[r] = "checkWallet"
    /\ \/ /\ wallet > 0 /\ req[r].pre <= wallet
          /\ TryWallet(r, wallet)
          /\ NoCharge /\ NoFault
       \/ /\ wallet <= 0 \/ req[r].pre > wallet
          /\ IF req[r].pref = "wallet_first" THEN TrySubscription(r) ELSE Reject(r)
          /\ NoCharge /\ NoFault
       \/ Fault(r) /\ Reject(r)
    /\ UNCHANGED <<req, refund, resets>>

\* GetTokenByKey and the check of PreConsumeTokenQuota.
ReadToken(r) ==
    /\ pc[r] = "readToken"
    /\ \/ /\ Unlimited \/ token >= ses[r].amount
          /\ Goto(r, "takeToken")
          /\ NoCharge /\ NoFault
          /\ UNCHANGED ses
       \/ /\ ~Unlimited /\ token < ses[r].amount
          /\ Reject(r)
          /\ NoCharge /\ NoFault
       \/ Fault(r) /\ Reject(r)
    /\ UNCHANGED <<req, refund, resets>>

\* DecreaseTokenQuota of PreConsumeTokenQuota.
TakeToken(r) ==
    /\ pc[r] = "takeToken"
    /\ \/ /\ UpdateTokenQuota(r, ses[r].amount)
          /\ ses' = [ses EXCEPT ![r] = [@ EXCEPT !.tokenConsumed = ses[r].amount]]
          /\ Goto(r, "fund")
          /\ NoFault
       \/ Fault(r) /\ Reject(r)
    /\ UNCHANGED <<req, refund, resets>>

\* preConsume's funding half failed: the token is given back.
FundFails(r, e) ==
    /\ ses' = [ses EXCEPT ![r] = [@ EXCEPT !.err = e]]
    /\ Goto(r, "tokenBack")

\* WalletFunding.PreConsume and what follows it in preConsume.
FundWallet(r) ==
    /\ pc[r] = "fund" /\ ses[r].source = "wallet"
    /\ \/ /\ UpdateUserQuota(r, ses[r].amount)
          /\ ses' = [ses EXCEPT ![r] = [@ EXCEPT !.consumed = ses[r].amount,
                                                 !.preConsumedQuota = ses[r].amount]]
          /\ Goto(r, "serving")
          /\ NoFault
       \/ ses[r].amount > 0 /\ Fault(r) /\ FundFails(r, "data")
    /\ UNCHANGED <<req, refund, resets>>

\* amount_used after the reset that a pre-consumption applies when one is due.
CurrentUsed(i) == IF sub[i].due THEN 0 ELSE sub[i].used

HasRoom(i, n) == SubTotal[i] = 0 \/ SubTotal[i] - CurrentUsed(i) >= n

\* PreConsumeUserSubscription takes the first active subscription with room and
\* resets, in the same transaction, the ones it looks at.
FirstWithRoom(i, n) ==
    /\ i \in ActiveSubs /\ HasRoom(i, n)
    /\ \A j \in ActiveSubs : j < i => ~HasRoom(j, n)

PreConsumeUserSubscription(r, i) ==
    /\ FirstWithRoom(i, ses[r].amount)
    /\ sub' = [j \in Subs |->
                  IF j \in ActiveSubs /\ j <= i
                  THEN [sub[j] EXCEPT !.due = FALSE,
                          !.used = CurrentUsed(j) + (IF j = i THEN ses[r].amount ELSE 0)]
                  ELSE sub[j]]
    /\ record' = [record EXCEPT ![r] = "consumed"]
    /\ charged' = [charged EXCEPT ![r].fund = @ + ses[r].amount]
    /\ UNCHANGED <<wallet, token>>

\* SubscriptionFunding.PreConsume.  A failing query is reported as "no active
\* subscription", which counts as a lack of quota; any other failure does not.
FundSubscription(r) ==
    /\ pc[r] = "fund" /\ ses[r].source = "subscription"
    /\ \/ \E i \in Subs :
             /\ PreConsumeUserSubscription(r, i)
             /\ ses' = [ses EXCEPT ![r] = [@ EXCEPT !.subscriptionId = i,
                            !.subPreConsumed = ses[r].amount,
                            !.preConsumedQuota = ses[r].amount]]
             /\ Goto(r, "serving")
             /\ NoFault
       \/ /\ \A i \in ActiveSubs : ~HasRoom(i, ses[r].amount)
          /\ FundFails(r, "insufficient")
          /\ NoCharge /\ NoFault
       \/ \E e \in {"insufficient", "data"} : Fault(r) /\ FundFails(r, e)
    /\ UNCHANGED <<req, refund, resets>>

\* Mutation: the rollback of the token is forgotten.
TokenToReturn_Nothing(r) == 0

\* What preConsume returns to the token when the funding fails.
TokenToReturn(r) == IF req[r].playground THEN 0 ELSE ses[r].tokenConsumed

\* The rollback, its failure only logged, and the fallback: subscription_first
\* asks whether its subscriptions let the wallet take over.
TokenBack(r) ==
    /\ pc[r] = "tokenBack"
    /\ \/ UpdateTokenQuota(r, -TokenToReturn(r)) /\ NoFault
       \/ TokenToReturn(r) > 0 /\ Fault(r)
    /\ Goto(r, IF ses[r].err = "insufficient" /\ req[r].pref = "subscription_first"
               THEN "overflow" ELSE "rejected")
    /\ UNCHANGED <<ses, req, refund, resets>>

\* Mutation: the fallback asks for a subscription again.
FallbackLabel_Subscription(r) == "hasSub"

\* Where subscription_first goes when its subscriptions let the wallet take over.
FallbackLabel(r) == "checkWallet"

\* UserActiveSubscriptionsAllowWalletOverflow: one strict subscription forbids it.
AllowOverflow(r) ==
    /\ pc[r] = "overflow"
    /\ \/ /\ Goto(r, IF \A i \in ActiveSubs : Overflow[i] THEN FallbackLabel(r) ELSE "rejected")
          /\ NoCharge /\ NoFault
       \/ Fault(r) /\ Goto(r, "rejected")
    /\ UNCHANGED <<ses, req, refund, resets>>

-----------------------------------------------------------------------------
(* Settle.                                                                 *)

\* Mutation: the operands are swapped.
Delta_Swapped(r) == ses[r].preConsumedQuota - req[r].actual

\* What the settlement takes beyond, or gives back of, the pre-consumption.
Delta(r) == req[r].actual - ses[r].preConsumedQuota

\* What the handler does once the settlement is over, whatever became of it: it
\* returns the error of a stream that broke, and no error otherwise.
HandlerReturns(info) == IF info.broken THEN "errored" ELSE "served"

\* Settle(actualQuota) up to its first statement; info holds the actual quota.
Settle(r, info) ==
    /\ req' = [req EXCEPT ![r] = info]
    /\ IF info.actual = ses[r].preConsumedQuota
       THEN /\ ses' = [ses EXCEPT ![r] = [@ EXCEPT !.settled = TRUE]]
            /\ Goto(r, HandlerReturns(info))
       ELSE /\ Goto(r, "settleFund")
            /\ UNCHANGED ses

\* The upstream answered, or its stream broke after bytes were sent to the client:
\* the handler settles what the answer, or the part that was sent, cost.
SettleBilling(r) ==
    /\ pc[r] = "serving" /\ req[r].kind # "realtime"
    /\ \E actual \in ActualQuotas, broken \in BOOLEAN :
          /\ broken => req[r].kind = "sync"
          /\ Settle(r, [req[r] EXCEPT !.actual = actual, !.broken = broken])
    /\ NoCharge /\ NoFault
    /\ UNCHANGED <<refund, resets>>

\* Settle has no token to adjust after the funding.
DoneAfterFunding(r) == req[r].playground

\* funding.Settle(delta); when it fails Settle returns with nothing settled, and
\* the caller only logs the error.
SettleFund(r) ==
    /\ pc[r] = "settleFund"
    /\ \/ /\ AdjustFunding(r, Delta(r))
          /\ ses' = [ses EXCEPT ![r] = [@ EXCEPT !.fundingSettled = TRUE,
                                                 !.settled = DoneAfterFunding(r)]]
          /\ Goto(r, IF req[r].playground THEN HandlerReturns(req[r]) ELSE "settleToken")
          /\ NoFault
       \/ /\ FundingRejects(r, Delta(r))
          /\ Goto(r, HandlerReturns(req[r]))
          /\ NoCharge /\ NoFault
          /\ UNCHANGED ses
       \/ Fault(r) /\ Goto(r, HandlerReturns(req[r])) /\ UNCHANGED ses
    /\ UNCHANGED <<req, refund, resets>>

\* The token half of Settle; a failure is logged and the session still settled.
SettleToken(r) ==
    /\ pc[r] = "settleToken"
    /\ \/ UpdateTokenQuota(r, Delta(r)) /\ NoFault
       \/ Fault(r)
    /\ ses' = [ses EXCEPT ![r] = [@ EXCEPT !.settled = TRUE]]
    /\ Goto(r, HandlerReturns(req[r]))
    /\ UNCHANGED <<req, refund, resets>>

-----------------------------------------------------------------------------
(* A realtime session: usage reports charged while it runs, then settled.  *)

\* preConsumeUsage adds the report to the total, then PreWssConsumeQuota looks
\* at the wallet and the token.
Report(r, info) ==
    /\ req' = [req EXCEPT ![r] = info]
    /\ Goto(r, IF wallet >= info.report /\ (Unlimited \/ token >= info.report)
               THEN "wssFund" ELSE "wssFailed")
    /\ NoCharge /\ NoFault
    /\ UNCHANGED <<ses, refund, resets>>

Reported(r, q, phase) == [req[r] EXCEPT !.actual = @ + q, !.report = q, !.phase = phase]

\* A response is complete: its usage is charged while the session goes on.
WssUsage(r) ==
    /\ pc[r] = "serving" /\ req[r].kind = "realtime" /\ req[r].actual < MaxActual
    /\ \E q \in ActualQuotas \ {0} : Report(r, Reported(r, q, "open"))

\* A report succeeded.  An open session goes on; else the handler is closing.
WssDone(r) ==
    \/ /\ req[r].phase = "open"
       /\ Goto(r, "serving")
       /\ UNCHANGED <<ses, req>>
    \/ /\ req[r].phase = "retry"
       /\ Goto(r, "closing")
       /\ UNCHANGED <<ses, req>>
    \/ /\ req[r].phase = "last"
       /\ Settle(r, req[r])

\* The funding half of PostConsumeQuota.
WssFund(r) ==
    /\ pc[r] = "wssFund"
    /\ \/ /\ AdjustFunding(r, req[r].report)
          /\ IF req[r].playground THEN WssDone(r)
                                  ELSE Goto(r, "wssToken") /\ UNCHANGED <<ses, req>>
          /\ NoFault
       \/ /\ FundingRejects(r, req[r].report)
          /\ Goto(r, "wssFailed")
          /\ NoCharge /\ NoFault
          /\ UNCHANGED <<ses, req>>
       \/ Fault(r) /\ Goto(r, "wssFailed") /\ UNCHANGED <<ses, req>>
    /\ UNCHANGED <<refund, resets>>

\* Its token half.
WssToken(r) ==
    /\ pc[r] = "wssToken"
    /\ \/ UpdateTokenQuota(r, req[r].report) /\ NoFault /\ WssDone(r)
       \/ Fault(r) /\ Goto(r, "wssFailed") /\ UNCHANGED <<ses, req>>
    /\ UNCHANGED <<refund, resets>>

\* A report failed.  In an open session the error ends it, and the usage, which
\* was not cleared, is reported once more; later errors are ignored.
WssFailed(r) ==
    /\ pc[r] = "wssFailed"
    /\ \/ /\ req[r].phase = "open"
          /\ Report(r, Reported(r, req[r].report, "retry"))
       \/ /\ req[r].phase # "open"
          /\ WssDone(r)
          /\ NoCharge /\ NoFault
          /\ UNCHANGED <<refund, resets>>

\* The connection closes.
WssClose(r) ==
    /\ pc[r] = "serving" /\ req[r].kind = "realtime"
    /\ Goto(r, "closing")
    /\ NoCharge /\ NoFault
    /\ UNCHANGED <<ses, req, refund, resets>>

\* Usage counted locally and not yet charged is reported; then PostWssConsumeQuota
\* settles the sum of all reports.
WssSettle(r) ==
    /\ pc[r] = "closing"
    /\ \/ /\ req[r].actual < MaxActual
          /\ \E q \in ActualQuotas \ {0} : Report(r, Reported(r, q, "last"))
       \/ /\ Settle(r, req[r])
          /\ NoCharge /\ NoFault
          /\ UNCHANGED <<refund, resets>>

-----------------------------------------------------------------------------
(* Refund and the violation fee.                                           *)

\* Mutation: what is settled is not looked at.
NeedsRefund_Settled(r) ==
    /\ ~ses[r].refunded
    /\ \/ ses[r].tokenConsumed > 0
       \/ ses[r].source = "subscription" /\ ses[r].subPreConsumed > 0

NeedsRefund(r) ==
    /\ ~ses[r].settled /\ ~ses[r].refunded /\ ~ses[r].fundingSettled
    /\ \/ ses[r].tokenConsumed > 0
       \/ ses[r].source = "subscription" /\ ses[r].subPreConsumed > 0

\* The handler returned an error, without a settlement or after one: the deferred
\* function schedules the refund of what is not settled and, for a violation, goes
\* on to charge the fee.  A task submission has no such fee, and a realtime
\* session fails only before its first frame.
UpstreamFails(r) ==
    /\ \/ pc[r] = "serving" /\ (req[r].kind = "realtime" => req[r].report = 0)
       \/ pc[r] = "errored"
    /\ IF NeedsRefund(r)
       THEN /\ ses' = [ses EXCEPT ![r] = [@ EXCEPT !.refunded = TRUE]]
            /\ refund' = [refund EXCEPT ![r] = "fund"]
       ELSE UNCHANGED <<ses, refund>>
    /\ \/ Goto(r, "failed")
       \/ req[r].kind # "task" /\ Fee > 0 /\ Goto(r, "feeFund")
    /\ NoCharge /\ NoFault
    /\ UNCHANGED <<req, resets>>

\* ChargeViolationFeeIfNeeded: PostConsumeQuota(feeQuota), funding half.
FeeFund(r) ==
    /\ pc[r] = "feeFund"
    /\ \/ /\ AdjustFunding(r, Fee)
          /\ req' = [req EXCEPT ![r] = [@ EXCEPT !.fee = TRUE]]
          /\ Goto(r, IF req[r].playground THEN "failed" ELSE "feeToken")
          /\ NoFault
       \/ /\ FundingRejects(r, Fee)
          /\ Goto(r, "failed")
          /\ NoCharge /\ NoFault
          /\ UNCHANGED req
       \/ Fault(r) /\ Goto(r, "failed") /\ UNCHANGED req
    /\ UNCHANGED <<ses, refund, resets>>

\* Its token half.
FeeToken(r) ==
    /\ pc[r] = "feeToken"
    /\ \/ UpdateTokenQuota(r, Fee) /\ NoFault
       \/ Fault(r)
    /\ Goto(r, "failed")
    /\ UNCHANGED <<ses, req, refund, resets>>

RefundGoto(r, label) == refund' = [refund EXCEPT ![r] = label]

\* WalletFunding.Refund: one attempt, whatever its outcome.
RefundWallet(r) ==
    /\ refund[r] = "fund" /\ ses[r].source = "wallet"
    /\ \/ UpdateUserQuota(r, -ses[r].consumed) /\ NoFault
       \/ ses[r].consumed > 0 /\ Fault(r)
    /\ RefundGoto(r, "token")
    /\ UNCHANGED <<pc, req, ses, resets>>

\* refundWithRetry: another attempt, or give up after the last one.
AttemptFails(r) ==
    /\ ses' = [ses EXCEPT ![r].attempts = @ + 1]
    /\ RefundGoto(r, IF ses[r].attempts + 1 < MaxAttempts THEN "fund" ELSE "token")

AlreadyRefunded(r) == record[r] = "refunded"

\* RefundSubscriptionPreConsume up to PostConsumeUserSubscriptionDelta, which
\* runs, and commits, in a transaction of its own.
RefundSubscription(r) ==
    /\ refund[r] = "fund" /\ ses[r].source = "subscription"
    /\ \/ /\ AlreadyRefunded(r)
          /\ RefundGoto(r, "token")
          /\ NoCharge /\ NoFault
          /\ UNCHANGED ses
       \/ /\ ~AlreadyRefunded(r)
          /\ PostConsumeUserSubscriptionDelta(r, ses[r].subscriptionId, -ses[r].subPreConsumed)
          /\ RefundGoto(r, "mark")
          /\ NoFault
          /\ UNCHANGED ses
       \/ Fault(r) /\ AttemptFails(r)
    /\ UNCHANGED <<pc, req, resets>>

\* The outer transaction saves the status of the record.
MarkRefunded(r) ==
    /\ refund[r] = "mark"
    /\ \/ /\ record' = [record EXCEPT ![r] = "refunded"]
          /\ RefundGoto(r, "token")
          /\ NoFault
          /\ UNCHANGED <<wallet, token, sub, charged, ses>>
       \/ SaveMayFail /\ Fault(r) /\ AttemptFails(r)
    /\ UNCHANGED <<pc, req, resets>>

\* Mutation: the refund of a playground request reaches the token.
TokenRefund_Playground(r) == ses[r].tokenConsumed

TokenRefund(r) == IF req[r].playground THEN 0 ELSE ses[r].tokenConsumed

\* The token half of the refund goroutine.
RefundToken(r) ==
    /\ refund[r] = "token"
    /\ \/ UpdateTokenQuota(r, -TokenRefund(r)) /\ NoFault
       \/ TokenRefund(r) > 0 /\ Fault(r)
    /\ RefundGoto(r, "done")
    /\ UNCHANGED <<pc, req, ses, resets>>

-----------------------------------------------------------------------------
(* The subscription's own life.                                            *)

\* next_reset_time of subscription i passes.
PeriodElapses(i) ==
    /\ resets < MaxResets /\ sub[i].active
    /\ resets' = resets + 1
    /\ sub' = [sub EXCEPT ![i] = [@ EXCEPT !.due = TRUE]]
    /\ NoFault
    /\ UNCHANGED <<wallet, token, record, charged, pc, refund, req, ses>>

ResetDueSubscriptions(i) ==
    /\ sub[i].active /\ sub[i].due
    /\ sub' = [sub EXCEPT ![i] = [@ EXCEPT !.used = 0, !.due = FALSE]]
    /\ NoFault
    /\ UNCHANGED <<wallet, token, record, charged, pc, refund, req, ses, resets>>

\* end_time of subscription i passes, or an administrator ends it.
ExpireDueSubscriptions(i) ==
    /\ sub[i].active
    /\ sub' = [sub EXCEPT ![i] = [@ EXCEPT !.active = FALSE]]
    /\ NoFault
    /\ UNCHANGED <<wallet, token, record, charged, pc, refund, req, ses, resets>>

-----------------------------------------------------------------------------
Prepare(r) ==
    \/ StartSubscription(r) \/ HasActiveUserSubscription(r) \/ CheckWallet(r)
    \/ ReadToken(r) \/ TakeToken(r) \/ FundWallet(r) \/ FundSubscription(r)
    \/ TokenBack(r) \/ AllowOverflow(r)

Answer(r) ==
    \/ SettleBilling(r) \/ UpstreamFails(r) \/ WssUsage(r) \/ WssClose(r)

Finish(r) ==
    \/ SettleFund(r) \/ SettleToken(r) \/ WssFund(r) \/ WssToken(r)
    \/ WssFailed(r) \/ WssSettle(r) \/ FeeFund(r) \/ FeeToken(r)

RefundStep(r) ==
    \/ RefundWallet(r) \/ RefundSubscription(r) \/ MarkRefunded(r) \/ RefundToken(r)

Next ==
    \/ \E r \in Requests :
          PreConsumeBilling(r) \/ Prepare(r) \/ Answer(r) \/ Finish(r) \/ RefundStep(r)
    \/ \E i \in Subs : PeriodElapses(i) \/ ResetDueSubscriptions(i) \/ ExpireDueSubscriptions(i)

Spec == Init /\ [][Next]_vars

\* Goroutines run on, and every upstream call ends: the HTTP clients, the
\* streaming timeout and the websocket close bound it.
Fairness ==
    \A r \in Requests :
        /\ WF_vars(Prepare(r)) /\ WF_vars(Answer(r))
        /\ WF_vars(Finish(r)) /\ WF_vars(RefundStep(r))

FairSpec == Spec /\ Fairness

-----------------------------------------------------------------------------
(* Properties.                                                             *)

\* Every variable has its type.  amount_used of a subscription is a natural
\* number: no sequence of refunds, resets and settlements drives it below zero.
TypeOK ==
    /\ wallet \in Int /\ token \in Int
    /\ sub \in [Subs -> UserSubscription]
    /\ record \in [Requests -> {"none", "consumed", "refunded"}]
    /\ pc \in [Requests -> {"idle"} \cup PreparePCs \cup ServePCs \cup EndPCs]
    /\ refund \in [Requests -> RefundPCs]
    /\ req \in [Requests -> RelayInfo]
    /\ ses \in [Requests -> Session]
    /\ charged \in [Requests -> [fund : Int, token : Int]]
    /\ faults \in Nat /\ faulty \subseteq Requests /\ resets \in Nat

\* The request and its refund goroutine have both ended.
Closed(r) == pc[r] \in EndPCs /\ refund[r] \in {"none", "done"}

\* What a request that ended owes: what its answer, or the part of it that was
\* sent, cost, and the fee of a violation.  A session that could not settle keeps
\* what it pre-consumed, unless the request failed.
Owed(r) ==
    (CASE ses[r].settled -> req[r].actual
       [] ~ses[r].settled /\ pc[r] = "served" -> ses[r].preConsumedQuota
       [] OTHER -> 0)
    + (IF req[r].fee THEN Fee ELSE 0)

\* Whatever the billing preference, the fallbacks and the interleaving, a request
\* that met no database error has, once it and its refund goroutine ended, taken
\* from its funding exactly what it owes, and as much from the token unless it
\* came from the playground (Settle, Refund, preConsume and their rollbacks).
ExactCharge ==
    \A r \in Requests :
        Closed(r) /\ r \notin faulty /\ req[r].kind # "realtime"
        => charged[r] = [fund |-> Owed(r), token |-> IF req[r].playground THEN 0 ELSE Owed(r)]

\* The sum of f over S.
Total(f, S) == MapThenSumSet(LAMBDA x : f[x], S)

Debts == [r \in Requests |-> Owed(r)]
Debtors(source) == {r \in Requests : pc[r] \in EndPCs /\ ses[r].source = source}

\* When all requests ended without a database error, and no subscription was
\* reset, the stores are short of exactly what the requests owe: the increments
\* and decrements of concurrent sessions lose nothing.
BooksBalance ==
    /\ \A r \in Requests : pc[r] = "idle" \/ Closed(r)
    /\ faulty = {} /\ resets = 0
    => /\ wallet = Wallet0 - Total(Debts, Debtors("wallet"))
       /\ Total([i \in Subs |-> sub[i].used], Subs) = Total(Debts, Debtors("subscription"))
       /\ token = Token0 - Total(Debts, {r \in Requests : pc[r] \in EndPCs /\ ~req[r].playground})

\* The same for realtime sessions: Settle "settles according to the quota actually
\* consumed", so the usage reports charged on the way are part of what is owed.
ExactRealtimeCharge ==
    \A r \in Requests :
        Closed(r) /\ r \notin faulty /\ req[r].kind = "realtime"
        => charged[r].fund = Owed(r)

\* Database errors may leave quota with the gateway but never pay it out: at no
\* time has a request returned more to a wallet, subscription or token than it took.
NeverOverRefunded ==
    \A r \in Requests : charged[r].fund >= 0 /\ charged[r].token >= 0

\* Pre-consumption, settlement, fee and reset of concurrent requests never push a
\* limited subscription beyond its total: check and update are one transaction.
SubscriptionWithinTotal ==
    \A i \in Subs : SubTotal[i] = 0 \/ sub[i].used <= SubTotal[i]

\* After a settlement or a completed refund only the fee of a violation still moves
\* quota for that request, and once: the error that a handler returns after it
\* settled a broken stream gives nothing back (settled, fundingSettled, refunded).
OnlyTheFeeFollows ==
    [][\A r \in Requests : ses[r].settled \/ refund[r] = "done"
          => /\ charged'[r].fund # charged[r].fund
                => /\ charged'[r].fund = charged[r].fund + Fee
                   /\ ~req[r].fee /\ req'[r].fee
             /\ charged'[r].token # charged[r].token
                => charged'[r].token = charged[r].token + Fee /\ req[r].fee]_vars

\* No request hangs and no reservation is forgotten: every request that starts
\* ends, and if it failed its refund goroutine ends too.
RequestEnds == \A r \in Requests : pc[r] # "idle" ~> Closed(r)
=============================================================================
