------------------------- MODULE BillingExactProofs -------------------------
(***************************************************************************)
(* A request that met no failing statement pays exactly what it owes: the  *)
(* proof of ExactCharge, for which the bounds of BillingSessionProofs      *)
(* become equations.  And what the requests pay is what the stores miss:   *)
(* the proof of BooksBalance, with the facts about sums that it needs.     *)
(***************************************************************************)
EXTENDS BillingSessionProofs, FiniteSetTheorems, WellFoundedInduction

-----------------------------------------------------------------------------
(* The invariant.  p, f, q, s, c are as in BillingSessionProofs, rec is    *)
(* the pre-consume record of the request, and x says that it met a failing *)
(* statement.                                                              *)

BeforePCs == {"idle", "rejected"} \cup PreparePCs
WssPCs == {"wssFund", "wssToken", "wssFailed", "closing"}

FeeCharged(q) == IF q.fee THEN Fee ELSE 0
SettledQuota(q, s) == IF s.settled THEN q.actual ELSE s.preConsumedQuota
SettledPart(q, s) == IF s.settled THEN q.actual ELSE 0

\* What the funding of a request is short of at each program counter.
ExactFund(p, f, q, s) ==
    CASE p \in BeforePCs -> 0
      [] p \in {"serving", "settleFund"} -> s.preConsumedQuota
      [] p = "settleToken" -> q.actual
      [] p \in {"served", "errored"} -> SettledQuota(q, s)
      [] OTHER -> (IF f = "fund" THEN s.preConsumedQuota ELSE 0)
                  + SettledPart(q, s) + FeeCharged(q)

\* And the token.
ExactToken(p, f, q, s) ==
    CASE q.playground -> 0
      [] ~q.playground /\ p \in {"fund", "tokenBack"} -> s.tokenConsumed
      [] ~q.playground /\ p \in BeforePCs \ {"fund", "tokenBack"} -> 0
      [] ~q.playground /\ p \in {"serving", "settleFund", "settleToken"} -> s.preConsumedQuota
      [] ~q.playground /\ p \in {"served", "errored"} -> SettledQuota(q, s)
      [] OTHER -> (IF f \in {"fund", "mark", "token"} THEN s.preConsumedQuota ELSE 0)
                  + SettledPart(q, s) + (IF p = "failed" THEN FeeCharged(q) ELSE 0)

\* The marks of a session and of a record are set where the code sets them, and nowhere before.
LifeInv(p, f, q, s, rec) ==
    /\ p \in BeforePCs \cup {"serving", "settleFund", "settleToken", "errored"} \cup WssPCs
           => ~s.refunded
    /\ p \in BeforePCs \cup {"serving", "settleFund"} \cup WssPCs => ~s.fundingSettled
    /\ p = "errored" => s.settled \/ ~s.fundingSettled
    /\ p = "idle" => q.kind # "realtime"
    /\ p \in {"readToken", "takeToken"} => ~q.playground
    /\ p \in WssPCs => q.kind = "realtime"
    /\ p \notin {"feeToken", "failed"} => ~q.fee
    /\ p = "feeToken" => q.fee /\ ~q.playground
    /\ rec = "refunded" => f \in {"token", "done"}

ExactInv(p, f, q, s, c, rec, x) ==
    /\ LifeInv(p, f, q, s, rec)
    /\ \/ x \/ q.kind = "realtime"
       \/ c.fund = ExactFund(p, f, q, s) /\ c.token = ExactToken(p, f, q, s)

EInv == \A r \in Requests :
           ExactInv(pc[r], refund[r], req[r], ses[r], charged[r], record[r], r \in faulty)

-----------------------------------------------------------------------------
(* A step of one request.                                                  *)

\* Without a failing statement the charges must be right.
LEMMA CleanStep ==
    ASSUME IInv, EInv, NEW r \in Requests, NEW p, NEW f, NEW q, NEW s,
           NEW df \in Int, NEW dt \in Int,
           Moves(r, p, f, q, s), Charges(r, df, dt), NoFault,
           \A u \in Requests \ {r} : record'[u] = record[u],
           LifeInv(p, f, q, s, record'[r]),
           r \notin faulty /\ q.kind # "realtime" =>
               /\ charged[r].fund + df = ExactFund(p, f, q, s)
               /\ charged[r].token + dt = ExactToken(p, f, q, s)
    PROVE  EInv'
<1> DEFINE c == [fund |-> charged[r].fund + df, token |-> charged[r].token + dt]
<1>1. /\ pc'[r] = p /\ refund'[r] = f /\ req'[r] = q /\ ses'[r] = s
      /\ \A u \in Requests : u # r =>
            /\ pc'[u] = pc[u] /\ refund'[u] = refund[u] /\ req'[u] = req[u] /\ ses'[u] = ses[u]
  BY DEF IInv, TypeOK, Moves
<1>2. charged'[r] = c /\ \A u \in Requests : u # r => charged'[u] = charged[u]
  BY DEF IInv, TypeOK, Charges
<1>3. ExactInv(p, f, q, s, c, record'[r], r \in faulty')
  BY DEF ExactInv, NoFault
<1> HIDE DEF c
<1>4. ASSUME NEW u \in Requests
      PROVE  ExactInv(pc'[u], refund'[u], req'[u], ses'[u], charged'[u], record'[u], u \in faulty')
  <2>1. CASE u = r
    BY <1>1, <1>2, <1>3, <2>1
  <2>2. CASE u # r
    BY <1>1, <1>2, <2>2 DEF EInv, NoFault
  <2> QED BY <2>1, <2>2
<1> QED BY <1>4 DEF EInv

\* After a failing statement only the marks matter.
LEMMA FaultyStep ==
    ASSUME IInv, EInv, NEW r \in Requests, NEW p, NEW f, NEW q, NEW s,
           Moves(r, p, f, q, s), Fault(r), LifeInv(p, f, q, s, record[r])
    PROVE  EInv'
<1>1. /\ pc'[r] = p /\ refund'[r] = f /\ req'[r] = q /\ ses'[r] = s
      /\ \A u \in Requests : u # r =>
            /\ pc'[u] = pc[u] /\ refund'[u] = refund[u] /\ req'[u] = req[u] /\ ses'[u] = ses[u]
  BY DEF IInv, TypeOK, Moves
<1>2. charged' = charged /\ record' = record /\ faulty' = faulty \cup {r}
  BY DEF Fault, NoCharge, stores
<1>3. ASSUME NEW u \in Requests
      PROVE  ExactInv(pc'[u], refund'[u], req'[u], ses'[u], charged'[u], record'[u], u \in faulty')
  <2>1. CASE u = r
    BY <1>1, <1>2, <2>1 DEF ExactInv
  <2>2. CASE u # r
    BY <1>1, <1>2, <2>2 DEF EInv
  <2> QED BY <2>1, <2>2
<1> QED BY <1>3 DEF EInv

\* What is known of a request before its step.
LEMMA ExactParts ==
    ASSUME EInv, NEW r \in Requests
    PROVE  /\ LifeInv(pc[r], refund[r], req[r], ses[r], record[r])
           /\ r \notin faulty /\ req[r].kind # "realtime" =>
                  /\ charged[r].fund = ExactFund(pc[r], refund[r], req[r], ses[r])
                  /\ charged[r].token = ExactToken(pc[r], refund[r], req[r], ses[r])
  BY DEF EInv, ExactInv

\* The statements on wallet, token and subscription rows leave the records alone.
LEMMA RecordKept ==
    ASSUME NEW r, NEW d,
           \/ NoCharge \/ UpdateUserQuota(r, d) \/ UpdateTokenQuota(r, d) \/ AdjustFunding(r, d)
           \/ PostConsumeUserSubscriptionDelta(r, ses[r].subscriptionId, d)
    PROVE  record' = record
  BY DEF NoCharge, stores, UpdateUserQuota, UpdateTokenQuota, AdjustFunding,
         PostConsumeUserSubscriptionDelta

-----------------------------------------------------------------------------
(* Before the request is relayed.                                          *)

\* The charges before a request is relayed.
LEMMA BeforeIs ==
    ASSUME NEW p, NEW f, NEW q, NEW s
    PROVE  /\ p \in BeforePCs => ExactFund(p, f, q, s) = 0
           /\ p \in FreePCs => p \in BeforePCs /\ ExactToken(p, f, q, s) = 0
           /\ p \in {"fund", "tokenBack"} =>
                  p \in BeforePCs /\ ExactToken(p, f, q, s) = TokenTaken(q, s)
  BY DEF BeforePCs, FreePCs, PreparePCs, ExactFund, ExactToken, TokenTaken

\* Moves between labels at which nothing is charged, or after a failing statement.
LEMMA BeforeMove ==
    ASSUME IInv, EInv, NEW r \in Requests, pc[r] \in BeforePCs, NEW p \in FreePCs \ {"idle", "readToken"},
           p = "takeToken" => pc[r] = "readToken",
           Goto(r, p), UNCHANGED <<ses, refund, req>>,
           \/ NoCharge /\ NoFault /\ pc[r] \in FreePCs
           \/ Fault(r)
    PROVE  EInv'
<1> DEFINE f == refund[r]
           q == req[r]
           s == ses[r]
           z == 0
<1>1. Moves(r, p, f, q, s)
  BY Parts DEF Moves, Goto
<1>2. LifeInv(p, f, q, s, record[r])
  BY ExactParts DEF LifeInv, BeforePCs, FreePCs, PreparePCs, WssPCs
<1>3. CASE Fault(r)
  BY <1>1, <1>2, <1>3, FaultyStep
<1>4. CASE NoCharge /\ NoFault /\ pc[r] \in FreePCs
  <2>1. z \in Int /\ Charges(r, z, z) /\ record' = record
    BY <1>4, NoChargeIs, RecordKept
  <2>2. r \notin faulty /\ q.kind # "realtime" =>
               /\ charged[r].fund + z = ExactFund(p, f, q, s)
               /\ charged[r].token + z = ExactToken(p, f, q, s)
    BY <1>4, ExactParts, BeforeIs
  <2> HIDE DEF z, f, q, s
  <2> QED BY <1>1, <1>2, <1>4, <2>1, <2>2, CleanStep
<1> QED BY <1>3, <1>4

LEMMA PreConsumeBillingExact ==
    ASSUME IInv, EInv, NEW r \in Requests, PreConsumeBilling(r)
    PROVE  EInv'
<1>1. PICK pref \in Preferences, kind \in Kinds, play \in Playgrounds, pre \in PreQuotas :
          /\ req' = [req EXCEPT ![r] = [NoRelayInfo EXCEPT !.pref = pref, !.kind = kind,
                        !.playground = play, !.pre = pre, !.tokenQuota = token]]
          /\ Goto(r, CASE pref = "subscription_first" -> "hasSub"
                       [] pref = "subscription_only" -> "subscription"
                       [] OTHER -> "checkWallet")
  BY DEF PreConsumeBilling
<1>2. PICK p \in {"hasSub", "subscription", "checkWallet"} : Goto(r, p)
  BY <1>1
<1> DEFINE q == [NoRelayInfo EXCEPT !.pref = pref, !.kind = kind,
                    !.playground = play, !.pre = pre, !.tokenQuota = token]
           f == refund[r]
           s == ses[r]
           z == 0
<1>3. ~q.fee
  BY DEF NoRelayInfo
<1>4. pc[r] = "idle" /\ NoCharge /\ NoFault /\ UNCHANGED <<ses, refund>>
  BY DEF PreConsumeBilling
<1>5. Moves(r, p, f, q, s)
  BY <1>1, <1>2, <1>4, Parts DEF Moves, Goto
<1> HIDE DEF q
<1>6. LifeInv(p, f, q, s, record[r])
  BY <1>3, <1>4, ExactParts DEF LifeInv, BeforePCs, WssPCs
<1>7. z \in Int /\ Charges(r, z, z) /\ record' = record
  BY <1>4, NoChargeIs, RecordKept
<1>8. r \notin faulty =>
          /\ charged[r].fund + z = ExactFund(p, f, q, s)
          /\ charged[r].token + z = ExactToken(p, f, q, s)
  <2>1. "idle" \in FreePCs /\ p \in FreePCs /\ req[r].kind # "realtime"
    BY <1>4, ExactParts DEF FreePCs, PreparePCs, LifeInv
  <2> QED BY <1>4, <2>1, ExactParts, BeforeIs
<1> HIDE DEF f, s, z
<1> QED BY <1>4, <1>5, <1>6, <1>7, <1>8, CleanStep

\* preConsume starts with a new session.
LEMMA PreConsumeExact ==
    ASSUME IInv, EInv, NEW r \in Requests, pc[r] \in {"subscription", "hasSub", "checkWallet"},
           NEW s \in Session, ~s.refunded, ~s.fundingSettled, NEW quota \in Nat,
           PreConsume(r, s, quota), NoCharge, NoFault, UNCHANGED <<req, refund>>
    PROVE  EInv'
<1> DEFINE p == IF quota = 0 \/ req[r].playground THEN "fund" ELSE "readToken"
           f == refund[r]
           q == req[r]
           s1 == [s EXCEPT !.amount = quota, !.tokenConsumed = quota]
           s2 == [s EXCEPT !.amount = quota]
           t == IF quota = 0 \/ req[r].playground THEN s1 ELSE s2
           z == 0
<1>1. s1 \in Session /\ ~s1.refunded /\ ~s1.fundingSettled /\ s1.tokenConsumed = quota
  BY DEF Session
<1>2. s2 \in Session /\ ~s2.refunded /\ ~s2.fundingSettled
  BY DEF Session
<1>3. Goto(r, p) /\ ses' = [ses EXCEPT ![r] = t]
  BY DEF PreConsume
<1> HIDE DEF s1, s2
<1>4. Moves(r, p, f, q, t) /\ ~t.refunded /\ ~t.fundingSettled
  BY <1>1, <1>2, <1>3, Parts DEF Moves, Goto
<1>5. LifeInv(p, f, q, t, record[r])
  BY <1>4, ExactParts DEF LifeInv, BeforePCs, PreparePCs, WssPCs
<1>6. z \in Int /\ Charges(r, z, z) /\ record' = record
  BY NoChargeIs, RecordKept
<1>7. ExactFund(p, f, q, t) = 0 /\ ExactToken(p, f, q, t) = 0
  BY <1>1, BeforeIs DEF BeforePCs, FreePCs, PreparePCs, TokenTaken
<1>8. r \notin faulty /\ q.kind # "realtime" => charged[r].fund + z = 0 /\ charged[r].token + z = 0
  BY ExactParts, BeforeIs DEF BeforePCs, FreePCs, PreparePCs
<1> HIDE DEF p, f, q, t, z
<1> QED BY <1>4, <1>5, <1>6, <1>7, <1>8, CleanStep

LEMMA TrySubscriptionExact ==
    ASSUME IInv, EInv, NEW r \in Requests, pc[r] \in {"subscription", "hasSub", "checkWallet"},
           TrySubscription(r), NoCharge, NoFault, UNCHANGED <<req, refund>>
    PROVE  EInv'
<1> DEFINE s == [NoSession EXCEPT !.source = "subscription"]
           quota == IF req[r].pre <= 0 THEN 1 ELSE req[r].pre
<1>1. s \in Session
  BY NewSessions
<1>2. ~s.refunded /\ ~s.fundingSettled
  BY DEF NoSession
<1>3. quota \in Nat
  BY Parts DEF RelayInfo
<1>4. PreConsume(r, s, quota)
  BY DEF TrySubscription
<1> HIDE DEF s, quota
<1> QED BY <1>1, <1>2, <1>3, <1>4, PreConsumeExact

LEMMA TryWalletExact ==
    ASSUME IInv, EInv, NEW r \in Requests, pc[r] = "checkWallet",
           TryWallet(r, wallet), NoCharge, NoFault, UNCHANGED <<req, refund>>
    PROVE  EInv'
<1> DEFINE trusted == ShouldTrust(r, wallet)
           s == [NoSession EXCEPT !.source = "wallet", !.trusted = trusted]
           quota == IF trusted THEN 0 ELSE req[r].pre
<1>1. trusted \in BOOLEAN
  BY DEF ShouldTrust
<1>2. PreConsume(r, s, quota)
  BY DEF TryWallet
<1>3. quota \in Nat
  BY Parts DEF RelayInfo
<1> HIDE DEF trusted, quota
<1>4. s \in Session
  BY <1>1, NewSessions
<1>5. ~s.refunded /\ ~s.fundingSettled
  BY DEF NoSession
<1> HIDE DEF s
<1> QED BY <1>2, <1>3, <1>4, <1>5, PreConsumeExact

\* The labels before the funding.
LEMMA BeforeLabels ==
    /\ {"hasSub", "subscription", "checkWallet", "takeToken", "overflow", "rejected"}
          \subseteq FreePCs \ {"idle", "readToken"}
    /\ "readToken" \in FreePCs
    /\ {"hasSub", "subscription", "checkWallet", "readToken", "takeToken", "overflow",
        "fund", "tokenBack"} \subseteq BeforePCs
  BY DEF FreePCs, BeforePCs, PreparePCs

LEMMA ChooseFundingExact ==
    ASSUME IInv, EInv, NEW r \in Requests,
           StartSubscription(r) \/ HasActiveUserSubscription(r) \/ CheckWallet(r) \/ ReadToken(r)
    PROVE  EInv'
<1>1. CASE StartSubscription(r)
  BY <1>1, TrySubscriptionExact DEF StartSubscription
<1>2. CASE HasActiveUserSubscription(r)
  BY <1>2, TrySubscriptionExact, BeforeMove, BeforeLabels DEF HasActiveUserSubscription, Reject
<1>3. CASE CheckWallet(r)
  BY <1>3, TryWalletExact, TrySubscriptionExact, BeforeMove, BeforeLabels DEF CheckWallet, Reject
<1>4. CASE ReadToken(r)
  BY <1>4, BeforeMove, BeforeLabels DEF ReadToken, Reject
<1> QED BY <1>1, <1>2, <1>3, <1>4

LEMMA TakeTokenExact ==
    ASSUME IInv, EInv, NEW r \in Requests, TakeToken(r)
    PROVE  EInv'
<1>1. pc[r] = "takeToken" /\ UNCHANGED <<req, refund>>
  BY DEF TakeToken
<1>2. CASE Fault(r) /\ Reject(r)
  BY <1>1, <1>2, BeforeMove, BeforeLabels DEF Reject
<1>3. CASE /\ UpdateTokenQuota(r, ses[r].amount)
           /\ ses' = [ses EXCEPT ![r] = [@ EXCEPT !.tokenConsumed = ses[r].amount]]
           /\ Goto(r, "fund")
           /\ NoFault
  <2> DEFINE n == ses[r].amount
             f == refund[r]
             q == req[r]
             s == [ses[r] EXCEPT !.tokenConsumed = n]
             z == 0
  <2>1. n \in Int /\ z \in Int
    BY Parts DEF Session
  <2>2. /\ s.tokenConsumed = n /\ s.refunded = ses[r].refunded
        /\ s.fundingSettled = ses[r].fundingSettled
    BY Parts DEF Session
  <2>3. Moves(r, "fund", f, q, s)
    BY <1>1, <1>3, Parts DEF Moves, Goto
  <2>4. Charges(r, z, n) /\ record' = record
    BY <1>3, <2>1, TokenQuotaIs, RecordKept
  <2> HIDE DEF s
  <2>5. LifeInv("fund", f, q, s, record[r])
    BY <1>1, <2>2, ExactParts DEF LifeInv, BeforePCs, PreparePCs, WssPCs
  <2>6. r \notin faulty /\ q.kind # "realtime" =>
            /\ charged[r].fund + z = ExactFund("fund", f, q, s)
            /\ charged[r].token + n = ExactToken("fund", f, q, s)
    <3>1. ~q.playground
      BY <1>1, ExactParts DEF LifeInv
    <3> QED BY <1>1, <2>1, <2>2, <3>1, ExactParts, BeforeIs, BeforeLabels DEF TokenTaken
  <2> HIDE DEF n, f, q, z
  <2> QED BY <1>3, <2>1, <2>3, <2>4, <2>5, <2>6, CleanStep
<1> QED BY <1>2, <1>3 DEF TakeToken

\* The funding failed: the token is given back next.
LEMMA FundFailsExact ==
    ASSUME IInv, EInv, NEW r \in Requests, pc[r] = "fund", NEW e \in {"insufficient", "data"},
           FundFails(r, e), UNCHANGED <<req, refund>>, (NoCharge /\ NoFault) \/ Fault(r)
    PROVE  EInv'
<1> DEFINE s == [ses[r] EXCEPT !.err = e]
           f == refund[r]
           q == req[r]
           z == 0
<1>1. /\ s.tokenConsumed = ses[r].tokenConsumed /\ s.refunded = ses[r].refunded
      /\ s.fundingSettled = ses[r].fundingSettled
  BY Parts DEF Session
<1>2. Moves(r, "tokenBack", f, q, s)
  BY Parts DEF Moves, Goto, FundFails
<1> HIDE DEF s
<1>3. LifeInv("tokenBack", f, q, s, record[r])
  BY <1>1, ExactParts DEF LifeInv, BeforePCs, PreparePCs, WssPCs
<1>4. CASE Fault(r)
  <2> HIDE DEF f, q
  <2> QED BY <1>2, <1>3, <1>4, FaultyStep
<1>5. CASE NoCharge /\ NoFault
  <2>1. z \in Int /\ Charges(r, z, z) /\ record' = record
    BY <1>5, NoChargeIs, RecordKept
  <2>2. r \notin faulty /\ q.kind # "realtime" =>
            /\ charged[r].fund + z = ExactFund("tokenBack", f, q, s)
            /\ charged[r].token + z = ExactToken("tokenBack", f, q, s)
    BY <1>1, ExactParts, BeforeIs, Parts DEF TokenTaken, Session
  <2> HIDE DEF f, q, z
  <2> QED BY <1>2, <1>3, <1>5, <2>1, <2>2, CleanStep
<1> QED BY <1>4, <1>5

\* The funding took the amount: the request is relayed.
LEMMA ServingExact ==
    ASSUME IInv, EInv, NEW r \in Requests, pc[r] = "fund", NEW s \in Session,
           s.preConsumedQuota = ses[r].amount, s.refunded = ses[r].refunded,
           s.fundingSettled = ses[r].fundingSettled,
           Goto(r, "serving"), ses' = [ses EXCEPT ![r] = s], UNCHANGED <<req, refund>>,
           Charges(r, ses[r].amount, 0), NoFault,
           \A u \in Requests \ {r} : record'[u] = record[u],
           record'[r] \in {record[r], "consumed"}
    PROVE  EInv'
<1> DEFINE n == ses[r].amount
           f == refund[r]
           q == req[r]
           z == 0
<1>1. n \in Int /\ z \in Int /\ ses[r].tokenConsumed = n
  BY Parts DEF Session, ControlInv
<1>2. Moves(r, "serving", f, q, s) /\ Charges(r, n, z)
  BY Parts DEF Moves, Goto
<1>3. LifeInv("serving", f, q, s, record'[r])
  BY ExactParts DEF LifeInv, BeforePCs, PreparePCs, WssPCs
<1>4. r \notin faulty /\ q.kind # "realtime" =>
          charged[r].fund = 0 /\ charged[r].token = TokenTaken(q, ses[r])
  BY ExactParts, BeforeIs
<1>5. /\ ExactFund("serving", f, q, s) = n
      /\ ExactToken("serving", f, q, s) = IF q.playground THEN 0 ELSE n
  BY DEF ExactFund, ExactToken, BeforePCs, PreparePCs
<1>6. r \notin faulty /\ q.kind # "realtime" =>
          /\ charged[r].fund + n = ExactFund("serving", f, q, s)
          /\ charged[r].token + z = ExactToken("serving", f, q, s)
  BY <1>1, <1>4, <1>5 DEF TokenTaken
<1> HIDE DEF n, f, q, z
<1> QED BY <1>1, <1>2, <1>3, <1>6, CleanStep

LEMMA FundWalletExact ==
    ASSUME IInv, EInv, NEW r \in Requests, FundWallet(r)
    PROVE  EInv'
<1>1. pc[r] = "fund" /\ UNCHANGED <<req, refund>>
  BY DEF FundWallet
<1>2. CASE Fault(r) /\ FundFails(r, "data")
  BY <1>1, <1>2, FundFailsExact
<1>3. CASE /\ UpdateUserQuota(r, ses[r].amount)
           /\ ses' = [ses EXCEPT ![r] = [@ EXCEPT !.consumed = ses[r].amount,
                                                  !.preConsumedQuota = ses[r].amount]]
           /\ Goto(r, "serving")
           /\ NoFault
  <2> DEFINE n == ses[r].amount
             s == [ses[r] EXCEPT !.consumed = n, !.preConsumedQuota = n]
  <2>1. n \in Nat
    BY Parts DEF Session
  <2>2. /\ s \in Session /\ s.preConsumedQuota = n /\ s.refunded = ses[r].refunded
        /\ s.fundingSettled = ses[r].fundingSettled
    BY <2>1, Parts DEF Session
  <2>3. Charges(r, n, 0) /\ record' = record /\ record'[r] \in {record[r], "consumed"}
    BY <1>3, <2>1, UserQuotaIs, RecordKept
  <2>4. ses' = [ses EXCEPT ![r] = s]
    BY <1>3
  <2> HIDE DEF s
  <2> QED BY <1>1, <1>3, <2>2, <2>3, <2>4, ServingExact
<1> QED BY <1>2, <1>3 DEF FundWallet

LEMMA FundSubscriptionExact ==
    ASSUME IInv, EInv, NEW r \in Requests, FundSubscription(r)
    PROVE  EInv'
<1>1. pc[r] = "fund" /\ UNCHANGED <<req, refund>>
  BY DEF FundSubscription
<1>2. CASE FundFails(r, "insufficient") /\ NoCharge /\ NoFault
  BY <1>1, <1>2, FundFailsExact
<1>3. CASE \E e \in {"insufficient", "data"} : Fault(r) /\ FundFails(r, e)
  BY <1>1, <1>3, FundFailsExact
<1>4. ASSUME NEW i \in Subs, PreConsumeUserSubscription(r, i),
             ses' = [ses EXCEPT ![r] = [@ EXCEPT !.subscriptionId = i,
                            !.subPreConsumed = ses[r].amount,
                            !.preConsumedQuota = ses[r].amount]],
             Goto(r, "serving"), NoFault
      PROVE  EInv'
  <2> DEFINE n == ses[r].amount
             s == [ses[r] EXCEPT !.subscriptionId = i, !.subPreConsumed = n,
                                 !.preConsumedQuota = n]
  <2>1. n \in Nat
    BY Parts DEF Session
  <2>2. /\ s \in Session /\ s.preConsumedQuota = n /\ s.refunded = ses[r].refunded
        /\ s.fundingSettled = ses[r].fundingSettled
    BY <2>1, Parts DEF Session
  <2>3. Charges(r, n, 0)
    BY <1>4, PreConsumeSubscriptionIs
  <2>4. record'[r] \in {record[r], "consumed"} /\ \A u \in Requests \ {r} : record'[u] = record[u]
    BY <1>4 DEF PreConsumeUserSubscription, IInv, TypeOK
  <2>5. ses' = [ses EXCEPT ![r] = s]
    BY <1>4
  <2> HIDE DEF s
  <2> QED BY <1>1, <1>4, <2>2, <2>3, <2>4, <2>5, ServingExact
<1> QED BY <1>2, <1>3, <1>4 DEF FundSubscription

LEMMA TokenBackExact ==
    ASSUME IInv, EInv, NEW r \in Requests, TokenBack(r) \/ AllowOverflow(r)
    PROVE  EInv'
<1>1. CASE TokenBack(r)
  <2>1. pc[r] = "tokenBack" /\ UNCHANGED <<ses, req, refund>>
    BY <1>1 DEF TokenBack
  <2>2. PICK p \in {"overflow", "rejected"} : Goto(r, p)
    BY <1>1 DEF TokenBack
  <2>3. CASE Fault(r)
    BY <2>1, <2>2, <2>3, BeforeMove, BeforeLabels
  <2>4. CASE UpdateTokenQuota(r, -TokenToReturn(r)) /\ NoFault
    <3> DEFINE d == -TokenToReturn(r)
               f == refund[r]
               q == req[r]
               s == ses[r]
               z == 0
    <3>1. TokenToReturn(r) = TokenTaken(q, s) /\ TokenTaken(q, s) \in Nat
      BY Parts DEF TokenToReturn, TokenTaken, Session
    <3>2. z \in Int /\ d \in Int
      BY <3>1
    <3>3. Charges(r, z, d) /\ record' = record
      BY <2>4, <3>2, TokenQuotaIs, RecordKept
    <3>4. Moves(r, p, f, q, s)
      BY <2>1, <2>2, Parts DEF Moves, Goto
    <3>5. LifeInv(p, f, q, s, record[r])
      BY <2>1, ExactParts DEF LifeInv, BeforePCs, PreparePCs, WssPCs
    <3>6. r \notin faulty /\ q.kind # "realtime" =>
              /\ charged[r].fund + z = ExactFund(p, f, q, s)
              /\ charged[r].token + d = ExactToken(p, f, q, s)
      <4>1. ExactFund(p, f, q, s) = 0 /\ ExactToken(p, f, q, s) = 0
        BY BeforeIs, BeforeLabels
      <4>2. r \notin faulty /\ q.kind # "realtime" =>
                charged[r].fund = 0 /\ charged[r].token = TokenTaken(q, s)
        BY <2>1, ExactParts, BeforeIs
      <4> QED BY <3>1, <4>1, <4>2
    <3> HIDE DEF d, f, q, s, z
    <3> QED BY <2>4, <3>2, <3>3, <3>4, <3>5, <3>6, CleanStep
  <2> QED BY <1>1, <2>3, <2>4 DEF TokenBack
<1>2. CASE AllowOverflow(r)
  BY <1>2, BeforeMove, BeforeLabels DEF AllowOverflow, FallbackLabel
<1> QED BY <1>1, <1>2

LEMMA PrepareExact ==
    ASSUME IInv, EInv, NEW r \in Requests, Prepare(r)
    PROVE  EInv'
  BY ChooseFundingExact, TakeTokenExact, FundWalletExact, FundSubscriptionExact, TokenBackExact
  DEF Prepare

-----------------------------------------------------------------------------
(* The settlement.                                                         *)

\* The charges of a request that was relayed.
LEMMA RelayedIs ==
    ASSUME NEW p, NEW f, NEW q \in RelayInfo, NEW s \in Session
    PROVE  /\ p \in {"serving", "settleFund"} =>
                 /\ ExactFund(p, f, q, s) = s.preConsumedQuota
                 /\ ExactToken(p, f, q, s) = IF q.playground THEN 0 ELSE s.preConsumedQuota
           /\ p = "settleToken" =>
                 /\ ExactFund(p, f, q, s) = q.actual
                 /\ ExactToken(p, f, q, s) = IF q.playground THEN 0 ELSE s.preConsumedQuota
           /\ p \in {"served", "errored"} =>
                 /\ ExactFund(p, f, q, s) = SettledQuota(q, s)
                 /\ ExactToken(p, f, q, s) = IF q.playground THEN 0 ELSE SettledQuota(q, s)
<1>1. q.playground \in BOOLEAN
  BY DEF RelayInfo
<1>2. p \in {"serving", "settleFund", "settleToken", "served", "errored"} => p \notin BeforePCs
  BY DEF BeforePCs, PreparePCs
<1> QED BY <1>1, <1>2 DEF ExactFund, ExactToken

OpenExactPCs == {"serving"} \cup WssPCs

\* Settle up to its first statement; a realtime session may be charged in the same step.
LEMMA SettleExact ==
    ASSUME IInv, EInv, NEW r \in Requests, pc[r] \in OpenExactPCs,
           NEW q \in RelayInfo, q.playground = req[r].playground, q.kind = req[r].kind,
           q.fee = req[r].fee, NEW df \in Int, NEW dt \in Int, Charges(r, df, dt),
           q.kind = "realtime" \/ (df = 0 /\ dt = 0),
           Settle(r, q), NoFault, record' = record, UNCHANGED refund
    PROVE  EInv'
<1> DEFINE f == refund[r]
           n == ses[r].preConsumedQuota
<1>1. /\ f \in RefundPCs /\ charged[r].fund \in Int /\ charged[r].token \in Int /\ n \in Nat
      /\ ses[r] \in Session /\ req[r] \in RelayInfo
  BY Parts DEF Session
<1>2. ~q.fee /\ (record[r] = "refunded" => f \in {"token", "done"})
      /\ ~ses[r].refunded /\ ~ses[r].fundingSettled
      /\ (q.kind # "realtime" => pc[r] = "serving")
  BY ExactParts DEF LifeInv, OpenExactPCs, WssPCs
<1>3. r \notin faulty /\ q.kind # "realtime" =>
          /\ charged[r].fund + df = n
          /\ charged[r].token + dt = IF q.playground THEN 0 ELSE n
  <2> SUFFICES ASSUME r \notin faulty, q.kind # "realtime"
               PROVE  /\ charged[r].fund + df = n
                      /\ charged[r].token + dt = IF q.playground THEN 0 ELSE n
    OBVIOUS
  <2>1. pc[r] = "serving" /\ df = 0 /\ dt = 0
    BY <1>2
  <2>2. /\ charged[r].fund = ExactFund("serving", f, req[r], ses[r])
        /\ charged[r].token = ExactToken("serving", f, req[r], ses[r])
    BY <2>1, ExactParts
  <2>3. charged[r].fund = n /\ charged[r].token = IF q.playground THEN 0 ELSE n
    BY <1>1, <2>2, RelayedIs
  <2> QED BY <1>1, <2>1, <2>3
<1>4. CASE q.actual = n
  <2> DEFINE s == [ses[r] EXCEPT !.settled = TRUE]
             p == HandlerReturns(q)
  <2>1. s \in Session /\ s.settled /\ s.refunded = ses[r].refunded
    BY <1>1 DEF Session
  <2>2. Moves(r, p, f, q, s)
    BY <1>4, Parts DEF Settle, Moves, Goto
  <2> HIDE DEF s, p
  <2>3. p \in {"served", "errored"}
    BY DEF p, HandlerReturns
  <2>4. LifeInv(p, f, q, s, record[r])
    BY <1>2, <2>1, <2>3 DEF LifeInv, BeforePCs, PreparePCs, WssPCs
  <2>5. r \notin faulty /\ q.kind # "realtime" =>
            /\ charged[r].fund + df = ExactFund(p, f, q, s)
            /\ charged[r].token + dt = ExactToken(p, f, q, s)
    BY <1>3, <1>4, <2>1, <2>3, RelayedIs DEF SettledQuota
  <2> HIDE DEF f
  <2> QED BY <2>2, <2>4, <2>5, CleanStep
<1>5. CASE q.actual # n
  <2> DEFINE s == ses[r]
  <2>1. Moves(r, "settleFund", f, q, s)
    BY <1>5, Parts DEF Settle, Moves, Goto
  <2>2. LifeInv("settleFund", f, q, s, record[r])
    BY <1>2 DEF LifeInv, WssPCs
  <2>3. r \notin faulty /\ q.kind # "realtime" =>
            /\ charged[r].fund + df = ExactFund("settleFund", f, q, s)
            /\ charged[r].token + dt = ExactToken("settleFund", f, q, s)
    BY <1>1, <1>3, RelayedIs
  <2> HIDE DEF f, s
  <2> QED BY <2>1, <2>2, <2>3, CleanStep
<1> QED BY <1>4, <1>5

LEMMA SettleBillingExact ==
    ASSUME IInv, EInv, NEW r \in Requests, SettleBilling(r)
    PROVE  EInv'
<1>1. PICK n \in ActualQuotas, b \in BOOLEAN :
          Settle(r, [req[r] EXCEPT !.actual = n, !.broken = b])
  BY DEF SettleBilling
<1> DEFINE q == [req[r] EXCEPT !.actual = n, !.broken = b]
           z == 0
<1>2. /\ q \in RelayInfo /\ q.playground = req[r].playground
      /\ q.kind = req[r].kind /\ q.fee = req[r].fee
  <2>1. n \in Nat /\ req[r] \in RelayInfo
    BY Parts, BillingAssumption
  <2>2. q.kind = req[r].kind
    BY <2>1 DEF RelayInfo
  <2> QED BY <2>1, <2>2, InfoIs
<1>3. /\ z \in Int /\ z = 0 /\ Charges(r, z, z) /\ NoFault /\ record' = record
      /\ UNCHANGED refund /\ pc[r] \in OpenExactPCs
  BY NoChargeIs, RecordKept DEF SettleBilling, OpenExactPCs
<1>4. Settle(r, q)
  BY <1>1
<1> HIDE DEF q, z
<1> QED BY <1>2, <1>3, <1>4, SettleExact

LEMMA SettleFundExact ==
    ASSUME IInv, EInv, NEW r \in Requests, SettleFund(r)
    PROVE  EInv'
<1> DEFINE q == req[r]
           f == refund[r]
           n == ses[r].preConsumedQuota
           z == 0
           h == HandlerReturns(req[r])
<1>0. h \in {"served", "errored"}
  BY DEF HandlerReturns
<1> HIDE DEF h
<1>1. pc[r] = "settleFund" /\ UNCHANGED <<req, refund>>
  BY DEF SettleFund
<1>2. /\ q \in RelayInfo /\ ses[r] \in Session /\ n \in Nat /\ q.actual \in Nat
      /\ q.playground \in BOOLEAN /\ charged[r].fund \in Int /\ charged[r].token \in Int
      /\ PaidInv(ses[r]) /\ ~ses[r].settled
  BY <1>1, Parts DEF Session, RelayInfo, ControlInv, RelayedPCs, FailedPCs
<1>3. /\ ~q.fee /\ (record[r] = "refunded" => f \in {"token", "done"})
      /\ ~ses[r].refunded /\ ~ses[r].fundingSettled
  BY <1>1, ExactParts DEF LifeInv
<1>4. r \notin faulty /\ q.kind # "realtime" =>
          charged[r].fund = n /\ charged[r].token = IF q.playground THEN 0 ELSE n
  BY <1>1, <1>2, ExactParts, RelayedIs
<1>5. ASSUME NEW p \in {"served", "errored", "settleToken"}, NEW s, ~s.refunded,
             p = "errored" => s.settled \/ ~s.fundingSettled
      PROVE  LifeInv(p, f, q, s, record[r])
  BY <1>3, <1>5 DEF LifeInv, BeforePCs, PreparePCs, WssPCs
<1>6. CASE Goto(r, h) /\ UNCHANGED ses /\ ((NoCharge /\ NoFault) \/ Fault(r))
  <2> DEFINE s == ses[r]
  <2>1. Moves(r, h, f, q, s) /\ ~s.refunded /\ ~s.fundingSettled
    BY <1>1, <1>3, <1>6, Parts DEF Moves, Goto
  <2>2. CASE Fault(r)
    <3> HIDE DEF s, f, q, h
    <3> QED BY <1>0, <1>5, <2>1, <2>2, FaultyStep
  <2>3. CASE NoCharge /\ NoFault
    <3>1. z \in Int /\ Charges(r, z, z) /\ record' = record
      BY <2>3, NoChargeIs, RecordKept
    <3>2. r \notin faulty /\ q.kind # "realtime" =>
              /\ charged[r].fund + z = ExactFund(h, f, q, s)
              /\ charged[r].token + z = ExactToken(h, f, q, s)
      BY <1>0, <1>2, <1>4, RelayedIs DEF SettledQuota
    <3> HIDE DEF s, f, q, z, h
    <3> QED BY <1>0, <1>5, <2>1, <2>3, <3>1, <3>2, CleanStep
  <2> QED BY <1>6, <2>2, <2>3
<1>7. CASE /\ AdjustFunding(r, Delta(r))
           /\ ses' = [ses EXCEPT ![r] = [@ EXCEPT !.fundingSettled = TRUE,
                                                  !.settled = DoneAfterFunding(r)]]
           /\ Goto(r, IF req[r].playground THEN h ELSE "settleToken")
           /\ NoFault
  <2> DEFINE d == Delta(r)
             b == DoneAfterFunding(r)
             s == [ses[r] EXCEPT !.fundingSettled = TRUE, !.settled = b]
             p == IF q.playground THEN h ELSE "settleToken"
  <2>1. b \in BOOLEAN /\ (b <=> q.playground)
    BY <1>2 DEF DoneAfterFunding
  <2> HIDE DEF b
  <2>2. s \in Session /\ s.settled = b /\ s.preConsumedQuota = n /\ ~s.refunded
    BY <1>2, <1>3, <2>1 DEF Session
  <2>3. Moves(r, p, f, q, s)
    BY <1>1, <1>7, Parts DEF Moves, Goto, b
  <2>4. d \in Int /\ z \in Int /\ d = q.actual - n
    BY <1>2 DEF Delta
  <2>5. Charges(r, d, z) /\ record' = record
    BY <1>2, <1>7, <2>4, AdjustFundingIs, RecordKept
  <2> HIDE DEF s
  <2>6. r \notin faulty /\ q.kind # "realtime" =>
            /\ charged[r].fund + d = ExactFund(p, f, q, s)
            /\ charged[r].token + z = ExactToken(p, f, q, s)
    <3>1. r \notin faulty /\ q.kind # "realtime" =>
              charged[r].fund + d = q.actual /\ charged[r].token + z = IF q.playground THEN 0 ELSE n
      BY <1>2, <1>4, <2>4
    <3>2. /\ ExactFund(p, f, q, s) = q.actual
          /\ ExactToken(p, f, q, s) = IF q.playground THEN 0 ELSE n
      BY <1>0, <1>2, <2>1, <2>2, RelayedIs DEF SettledQuota
    <3> QED BY <3>1, <3>2
  <2>7. p \in {"served", "errored", "settleToken"} /\ (p = "errored" => s.settled)
    BY <1>0, <2>1, <2>2
  <2> HIDE DEF d, z, f, q, p
  <2> QED BY <1>5, <1>7, <2>2, <2>3, <2>4, <2>5, <2>6, <2>7, CleanStep
<1> QED BY <1>6, <1>7 DEF SettleFund, h

LEMMA SettleTokenExact ==
    ASSUME IInv, EInv, NEW r \in Requests, SettleToken(r)
    PROVE  EInv'
<1> DEFINE q == req[r]
           f == refund[r]
           n == ses[r].preConsumedQuota
           s == [ses[r] EXCEPT !.settled = TRUE]
           d == Delta(r)
           z == 0
           h == HandlerReturns(req[r])
<1>0. h \in {"served", "errored"}
  BY DEF HandlerReturns
<1>1. pc[r] = "settleToken" /\ UNCHANGED <<req, refund>>
  BY DEF SettleToken
<1>2. /\ q \in RelayInfo /\ ses[r] \in Session /\ n \in Nat /\ q.actual \in Nat
      /\ charged[r].fund \in Int /\ charged[r].token \in Int /\ ~q.playground
  BY <1>1, Parts DEF Session, RelayInfo, ControlInv
<1>3. s \in Session /\ s.settled /\ s.refunded = ses[r].refunded
  BY <1>2 DEF Session
<1>4. Moves(r, h, f, q, s)
  BY <1>1, Parts DEF SettleToken, Moves, Goto
<1> HIDE DEF s, h
<1>5. LifeInv(h, f, q, s, record[r])
  BY <1>0, <1>1, <1>3, ExactParts DEF LifeInv, BeforePCs, PreparePCs, WssPCs
<1>6. CASE Fault(r)
  <2> HIDE DEF q, f
  <2> QED BY <1>4, <1>5, <1>6, FaultyStep
<1>7. CASE UpdateTokenQuota(r, d) /\ NoFault
  <2>1. d \in Int /\ z \in Int /\ d = q.actual - n
    BY <1>2 DEF Delta
  <2>2. Charges(r, z, d) /\ record' = record
    BY <1>7, <2>1, TokenQuotaIs, RecordKept
  <2>3. r \notin faulty /\ q.kind # "realtime" => charged[r].fund = q.actual /\ charged[r].token = n
    BY <1>1, <1>2, ExactParts, RelayedIs
  <2>4. ExactFund(h, f, q, s) = q.actual /\ ExactToken(h, f, q, s) = q.actual
    BY <1>0, <1>2, <1>3, RelayedIs DEF SettledQuota
  <2>5. r \notin faulty /\ q.kind # "realtime" =>
            /\ charged[r].fund + z = ExactFund(h, f, q, s)
            /\ charged[r].token + d = ExactToken(h, f, q, s)
    BY <1>2, <2>1, <2>3, <2>4
  <2> HIDE DEF q, f, d, z
  <2> QED BY <1>4, <1>5, <1>7, <2>1, <2>2, <2>5, CleanStep
<1> QED BY <1>6, <1>7 DEF SettleToken

-----------------------------------------------------------------------------
(* Realtime sessions: ExactCharge says nothing of their quota.             *)

\* A step of an open realtime session.
LEMMA WssMove ==
    ASSUME IInv, EInv, NEW r \in Requests, pc[r] \in OpenExactPCs, req[r].kind = "realtime",
           NEW p \in OpenExactPCs, NEW q, q.kind = "realtime", q.fee = req[r].fee,
           NEW df \in Int, NEW dt \in Int, Charges(r, df, dt), record' = record,
           NoFault \/ Fault(r),
           Goto(r, p), req' = [req EXCEPT ![r] = q], UNCHANGED <<ses, refund>>
    PROVE  EInv'
<1> DEFINE f == refund[r]
           s == ses[r]
<1>1. Moves(r, p, f, q, s)
  BY Parts DEF Moves, Goto
<1>2. LifeInv(p, f, q, s, record[r])
  BY ExactParts DEF LifeInv, OpenExactPCs, WssPCs, BeforePCs, PreparePCs
<1> HIDE DEF f, s
<1> QED BY <1>1, <1>2, CleanStep, FaultyStep

\* RelayInfo after a report.
LEMMA ReportedIs ==
    ASSUME IInv, NEW r \in Requests, NEW n \in Nat, NEW phase \in {"open", "retry", "last"}
    PROVE  /\ Reported(r, n, phase).kind = req[r].kind
           /\ Reported(r, n, phase).fee = req[r].fee
<1>1. req[r] \in RelayInfo
  BY Parts
<1> QED BY <1>1 DEF Reported, RelayInfo

LEMMA ReportExact ==
    ASSUME IInv, EInv, NEW r \in Requests, pc[r] \in OpenExactPCs, req[r].kind = "realtime",
           NEW q, q.kind = "realtime", q.fee = req[r].fee, Report(r, q)
    PROVE  EInv'
<1> DEFINE z == 0
<1>1. PICK p \in {"wssFund", "wssFailed"} : Goto(r, p)
  BY DEF Report
<1>2. p \in OpenExactPCs
  BY DEF OpenExactPCs, WssPCs
<1>3. /\ z \in Int /\ Charges(r, z, z) /\ record' = record /\ NoFault
      /\ req' = [req EXCEPT ![r] = q] /\ UNCHANGED <<ses, refund>>
  BY NoChargeIs, RecordKept DEF Report
<1> HIDE DEF z
<1> QED BY <1>1, <1>2, <1>3, WssMove

LEMMA WssDoneExact ==
    ASSUME IInv, EInv, NEW r \in Requests, pc[r] \in OpenExactPCs, req[r].kind = "realtime",
           NEW df \in Int, NEW dt \in Int, Charges(r, df, dt), record' = record, NoFault,
           WssDone(r), UNCHANGED refund
    PROVE  EInv'
<1>1. req[r] \in RelayInfo /\ req = [req EXCEPT ![r] = req[r]]
  BY Parts
<1>2. CASE Settle(r, req[r])
  BY <1>1, <1>2, SettleExact
<1>3. CASE (Goto(r, "serving") \/ Goto(r, "closing")) /\ UNCHANGED <<ses, req>>
  <2>1. "serving" \in OpenExactPCs /\ "closing" \in OpenExactPCs
    BY DEF OpenExactPCs, WssPCs
  <2> QED BY <1>1, <1>3, <2>1, WssMove
<1> QED BY <1>2, <1>3 DEF WssDone

LEMMA WssReportsExact ==
    ASSUME IInv, EInv, NEW r \in Requests,
           WssUsage(r) \/ WssClose(r) \/ WssFailed(r) \/ WssSettle(r)
    PROVE  EInv'
<1> DEFINE z == 0
<1>1. NoCharge => z \in Int /\ Charges(r, z, z) /\ record' = record
  BY NoChargeIs, RecordKept
<1>2. req[r] \in RelayInfo /\ req = [req EXCEPT ![r] = req[r]] /\ req[r].report \in Nat
  BY Parts DEF RelayInfo
<1>3. pc[r] \in OpenExactPCs /\ req[r].kind = "realtime" /\ "closing" \in OpenExactPCs
  BY ExactParts DEF WssUsage, WssClose, WssFailed, WssSettle, OpenExactPCs, WssPCs, LifeInv
<1> HIDE DEF z
<1>4. ASSUME NEW n \in Nat, NEW phase \in {"open", "retry", "last"},
             Report(r, Reported(r, n, phase))
      PROVE  EInv'
  <2> DEFINE q == Reported(r, n, phase)
  <2>1. q.kind = "realtime" /\ q.fee = req[r].fee /\ Report(r, q)
    BY <1>3, <1>4, ReportedIs
  <2> HIDE DEF q
  <2> QED BY <1>3, <2>1, ReportExact
<1>5. \A n \in ActualQuotas : n \in Nat
  BY BillingAssumption
<1>6. CASE WssUsage(r)
  BY <1>4, <1>5, <1>6 DEF WssUsage
<1>7. CASE WssClose(r)
  BY <1>1, <1>2, <1>3, <1>7, WssMove DEF WssClose
<1>8. CASE WssFailed(r)
  <2>1. CASE Report(r, Reported(r, req[r].report, "retry"))
    BY <1>2, <1>4, <2>1
  <2>2. CASE WssDone(r) /\ NoCharge /\ NoFault /\ UNCHANGED <<refund, resets>>
    BY <1>1, <1>3, <2>2, WssDoneExact
  <2> QED BY <1>8, <2>1, <2>2 DEF WssFailed
<1>9. CASE WssSettle(r)
  <2>1. CASE \E n \in ActualQuotas \ {0} : Report(r, Reported(r, n, "last"))
    BY <1>4, <1>5, <2>1
  <2>2. CASE Settle(r, req[r]) /\ NoCharge /\ NoFault /\ UNCHANGED <<refund, resets>>
    BY <1>1, <1>2, <1>3, <2>2, SettleExact
  <2> QED BY <1>9, <2>1, <2>2 DEF WssSettle
<1> QED BY <1>6, <1>7, <1>8, <1>9

LEMMA WssChargeExact ==
    ASSUME IInv, EInv, NEW r \in Requests, WssFund(r) \/ WssToken(r)
    PROVE  EInv'
<1> DEFINE d == req[r].report
           z == 0
<1>1. /\ pc[r] \in OpenExactPCs /\ req[r].kind = "realtime" /\ UNCHANGED refund
      /\ "wssFailed" \in OpenExactPCs /\ "wssToken" \in OpenExactPCs
  BY ExactParts DEF WssFund, WssToken, OpenExactPCs, WssPCs, LifeInv
<1>2. /\ d \in Int /\ z \in Int /\ req[r] \in RelayInfo /\ req = [req EXCEPT ![r] = req[r]]
      /\ PaidInv(ses[r])
  BY Parts DEF WssFund, WssToken, ControlInv, RelayedPCs, RelayInfo
<1>3. ASSUME Goto(r, "wssFailed"), UNCHANGED <<ses, req>>, (NoCharge /\ NoFault) \/ Fault(r)
      PROVE  EInv'
  <2>1. NoCharge
    BY <1>3 DEF Fault
  <2>2. Charges(r, z, z) /\ record' = record
    BY <2>1, NoChargeIs, RecordKept
  <2> HIDE DEF z
  <2> QED BY <1>1, <1>2, <1>3, <2>2, WssMove
<1>4. ASSUME AdjustFunding(r, d), NoFault,
             \/ WssDone(r)
             \/ Goto(r, "wssToken") /\ UNCHANGED <<ses, req>>
      PROVE  EInv'
  <2>1. Charges(r, d, z) /\ record' = record
    BY <1>2, <1>4, AdjustFundingIs, RecordKept
  <2> HIDE DEF d, z
  <2> QED BY <1>1, <1>2, <1>4, <2>1, WssDoneExact, WssMove
<1>5. ASSUME UpdateTokenQuota(r, d), NoFault, WssDone(r)
      PROVE  EInv'
  <2>1. Charges(r, z, d) /\ record' = record
    BY <1>2, <1>5, TokenQuotaIs, RecordKept
  <2> HIDE DEF d, z
  <2> QED BY <1>1, <1>2, <1>5, <2>1, WssDoneExact
<1>6. CASE WssFund(r)
  BY <1>3, <1>4, <1>6 DEF WssFund
<1>7. CASE WssToken(r)
  BY <1>3, <1>5, <1>7 DEF WssToken
<1> QED BY <1>6, <1>7

-----------------------------------------------------------------------------
(* Failure, fee and refund.                                                *)

\* What a failed request has not given back yet, by the step of its refund goroutine.
FundLeft(f, s) == IF f = "fund" THEN s.preConsumedQuota ELSE 0
TokenLeft(f, s) == IF f \in {"fund", "mark", "token"} THEN s.preConsumedQuota ELSE 0

LEMMA FailedIs ==
    ASSUME NEW p \in FailedPCs, NEW f, NEW q \in RelayInfo, NEW s \in Session
    PROVE  /\ ExactFund(p, f, q, s) = FundLeft(f, s) + SettledPart(q, s) + FeeCharged(q)
           /\ ExactToken(p, f, q, s) =
                 IF q.playground THEN 0
                 ELSE TokenLeft(f, s) + SettledPart(q, s) + (IF p = "failed" THEN FeeCharged(q) ELSE 0)
           /\ FundLeft(f, s) \in Nat /\ TokenLeft(f, s) \in Nat /\ FeeCharged(q) \in Nat
           /\ SettledPart(q, s) \in Nat
<1>1. q.playground \in BOOLEAN /\ s.preConsumedQuota \in Nat /\ Fee \in Nat /\ q.actual \in Nat
  BY BillingAssumption DEF RelayInfo, Session
<1>2. /\ p \notin BeforePCs
      /\ p \notin {"serving", "settleFund", "settleToken", "served", "errored", "fund",
                   "tokenBack"}
  BY DEF FailedPCs, BeforePCs, PreparePCs
<1> QED BY <1>1, <1>2 DEF ExactFund, ExactToken, FundLeft, TokenLeft, SettledPart, FeeCharged

LEMMA UpstreamFailsExact ==
    ASSUME IInv, EInv, NEW r \in Requests, UpstreamFails(r)
    PROVE  EInv'
<1> DEFINE q == req[r]
           n == ses[r].preConsumedQuota
           s1 == [ses[r] EXCEPT !.refunded = TRUE]
           m == SettledQuota(req[r], ses[r])
           z == 0
<1>1. pc[r] \in {"serving", "errored"} /\ UNCHANGED req /\ NoCharge /\ NoFault
  BY DEF UpstreamFails
<1>2. PICK p \in {"failed", "feeFund"} : Goto(r, p)
  BY DEF UpstreamFails
<1>3. /\ refund[r] = "none" /\ PaidInv(ses[r]) /\ q \in RelayInfo
      /\ ses[r] \in Session /\ n \in Nat /\ q.actual \in Nat
      /\ pc[r] = "serving" => ~ses[r].settled
      /\ charged[r].fund \in Int /\ charged[r].token \in Int
  BY <1>1, Parts DEF ControlInv, FailedPCs, RelayedPCs, Session, RelayInfo
<1>4. /\ ~ses[r].refunded /\ (ses[r].settled \/ ~ses[r].fundingSettled)
      /\ ~q.fee /\ record[r] # "refunded"
  BY <1>1, <1>3, ExactParts DEF LifeInv
<1>5. PICK s \in Session, f \in {"fund", "none"} :
          /\ ses' = [ses EXCEPT ![r] = s] /\ refund' = [refund EXCEPT ![r] = f]
          /\ s.preConsumedQuota = n /\ s.settled = ses[r].settled
          /\ f = "none" <=> s.settled \/ n = 0
  <2>1. CASE NeedsRefund(r)
    <3>1. ses' = [ses EXCEPT ![r] = s1] /\ refund' = [refund EXCEPT ![r] = "fund"]
      BY <2>1 DEF UpstreamFails
    <3>2. s1 \in Session /\ s1.preConsumedQuota = n /\ s1.settled = ses[r].settled
      BY <1>3 DEF Session
    <3>3. ~ses[r].settled /\ n # 0
      BY <1>3, <2>1 DEF NeedsRefund, PaidInv
    <3> HIDE DEF s1
    <3> QED BY <3>1, <3>2, <3>3
  <2>2. CASE ~NeedsRefund(r)
    <3>1. ses' = [ses EXCEPT ![r] = ses[r]] /\ refund' = [refund EXCEPT ![r] = "none"]
      BY <1>3, <2>2, Parts DEF UpstreamFails
    <3>2. ses[r].settled \/ n = 0
      BY <1>3, <1>4, <2>2 DEF NeedsRefund, PaidInv
    <3> QED BY <1>3, <3>1, <3>2
  <2> QED BY <2>1, <2>2
<1>6. Moves(r, p, f, q, s)
  BY <1>1, <1>2, <1>5, Parts DEF Moves, Goto
<1>7. LifeInv(p, f, q, s, record[r])
  BY <1>4 DEF LifeInv, BeforePCs, PreparePCs, WssPCs
<1>8. z \in Int /\ Charges(r, z, z) /\ record' = record
  BY <1>1, NoChargeIs, RecordKept
<1>9. r \notin faulty /\ q.kind # "realtime" =>
          charged[r].fund = m /\ charged[r].token = IF q.playground THEN 0 ELSE m
  BY <1>1, <1>3, ExactParts, RelayedIs DEF SettledQuota
<1>10. /\ ExactFund(p, f, q, s) = m
       /\ ExactToken(p, f, q, s) = IF q.playground THEN 0 ELSE m
  <2>1. p \in FailedPCs
    BY DEF FailedPCs
  <2>2. /\ FundLeft(f, s) + SettledPart(q, s) = m /\ TokenLeft(f, s) + SettledPart(q, s) = m
        /\ FeeCharged(q) = 0 /\ m \in Nat
    BY <1>3, <1>4, <1>5 DEF FundLeft, TokenLeft, SettledPart, SettledQuota, FeeCharged
  <2> QED BY <1>3, <2>1, <2>2, FailedIs
<1>11. r \notin faulty /\ q.kind # "realtime" =>
          /\ charged[r].fund + z = ExactFund(p, f, q, s)
          /\ charged[r].token + z = ExactToken(p, f, q, s)
  BY <1>3, <1>9, <1>10
<1> HIDE DEF q, z
<1> QED BY <1>1, <1>6, <1>7, <1>8, <1>11, CleanStep

LEMMA FeeFundExact ==
    ASSUME IInv, EInv, NEW r \in Requests, FeeFund(r)
    PROVE  EInv'
<1> DEFINE f == refund[r]
           s == ses[r]
           z == 0
<1>1. pc[r] = "feeFund" /\ UNCHANGED <<ses, refund>> /\ {"feeFund", "feeToken", "failed"} = FailedPCs
  BY DEF FeeFund, FailedPCs
<1>2. /\ req[r] \in RelayInfo /\ s \in Session /\ PaidInv(s) /\ req[r].playground \in BOOLEAN
      /\ charged[r].fund \in Int /\ charged[r].token \in Int /\ Fee \in Nat
  BY <1>1, Parts, BillingAssumption DEF ControlInv, FailedPCs, RelayInfo
<1>3. ~req[r].fee /\ (record[r] = "refunded" => f \in {"token", "done"})
  BY <1>1, ExactParts DEF LifeInv
<1>4. FundLeft(f, s) \in Nat /\ TokenLeft(f, s) \in Nat /\ SettledPart(req[r], s) \in Nat
  BY <1>1, <1>2, FailedIs
<1>5. r \notin faulty /\ req[r].kind # "realtime" =>
          /\ charged[r].fund = FundLeft(f, s) + SettledPart(req[r], s)
          /\ charged[r].token = IF req[r].playground THEN 0
                              ELSE TokenLeft(f, s) + SettledPart(req[r], s)
  <2>1. FeeCharged(req[r]) = 0
    BY <1>3 DEF FeeCharged
  <2> QED BY <1>1, <1>2, <1>4, <2>1, ExactParts, FailedIs
<1>6. CASE Goto(r, "failed") /\ UNCHANGED req /\ ((NoCharge /\ NoFault) \/ Fault(r))
  <2> DEFINE q == req[r]
  <2>1. Moves(r, "failed", f, q, s)
    BY <1>1, <1>6, Parts DEF Moves, Goto
  <2>2. LifeInv("failed", f, q, s, record[r])
    BY <1>3 DEF LifeInv, BeforePCs, PreparePCs, WssPCs
  <2>3. CASE Fault(r)
    <3> HIDE DEF f, q, s
    <3> QED BY <2>1, <2>2, <2>3, FaultyStep
  <2>4. CASE NoCharge /\ NoFault
    <3>1. z \in Int /\ Charges(r, z, z) /\ record' = record
      BY <2>4, NoChargeIs, RecordKept
    <3>2. FeeCharged(q) = 0
      BY <1>3 DEF FeeCharged
    <3>3. r \notin faulty /\ q.kind # "realtime" =>
              /\ charged[r].fund + z = ExactFund("failed", f, q, s)
              /\ charged[r].token + z = ExactToken("failed", f, q, s)
      <4>1. /\ ExactFund("failed", f, q, s) = FundLeft(f, s) + SettledPart(q, s)
            /\ ExactToken("failed", f, q, s) =
                  IF q.playground THEN 0 ELSE TokenLeft(f, s) + SettledPart(q, s)
        BY <1>1, <1>2, <1>4, <3>2, FailedIs
      <4> QED BY <1>2, <1>5, <4>1
    <3> HIDE DEF f, q, s, z
    <3> QED BY <2>1, <2>2, <2>4, <3>1, <3>3, CleanStep
  <2> QED BY <1>6, <2>3, <2>4
<1>7. CASE /\ AdjustFunding(r, Fee) /\ NoFault
           /\ req' = [req EXCEPT ![r] = [@ EXCEPT !.fee = TRUE]]
           /\ Goto(r, IF req[r].playground THEN "failed" ELSE "feeToken")
  <2> DEFINE q == [req[r] EXCEPT !.fee = TRUE]
             p == IF req[r].playground THEN "failed" ELSE "feeToken"
  <2>1. /\ q \in RelayInfo /\ q.fee /\ q.playground = req[r].playground
        /\ q.kind = req[r].kind /\ SettledPart(q, s) = SettledPart(req[r], s)
    BY <1>2 DEF RelayInfo, SettledPart
  <2>2. Moves(r, p, f, q, s)
    BY <1>1, <1>7, Parts DEF Moves, Goto
  <2> HIDE DEF q
  <2>3. LifeInv(p, f, q, s, record[r])
    BY <1>2, <1>3, <2>1 DEF LifeInv, BeforePCs, PreparePCs, WssPCs
  <2>4. z \in Int /\ Fee \in Int /\ Charges(r, Fee, z) /\ record' = record
    BY <1>2, <1>7, AdjustFundingIs, RecordKept
  <2>5. FeeCharged(q) = Fee /\ p \in FailedPCs
    BY <1>1, <2>1 DEF FeeCharged
  <2>6. r \notin faulty /\ q.kind # "realtime" =>
            /\ charged[r].fund + Fee = ExactFund(p, f, q, s)
            /\ charged[r].token + z = ExactToken(p, f, q, s)
    BY <1>2, <1>4, <1>5, <2>1, <2>5, FailedIs
  <2> HIDE DEF f, s, z, p
  <2> QED BY <1>7, <2>2, <2>3, <2>4, <2>6, CleanStep
<1> QED BY <1>6, <1>7 DEF FeeFund

LEMMA FeeTokenExact ==
    ASSUME IInv, EInv, NEW r \in Requests, FeeToken(r)
    PROVE  EInv'
<1> DEFINE f == refund[r]
           q == req[r]
           s == ses[r]
           z == 0
<1>1. pc[r] = "feeToken" /\ UNCHANGED <<ses, req, refund>> /\ Goto(r, "failed")
  BY DEF FeeToken
<1>2. /\ q \in RelayInfo /\ s \in Session /\ Fee \in Nat
      /\ charged[r].fund \in Int /\ charged[r].token \in Int
  BY Parts, BillingAssumption
<1>3. q.fee /\ ~q.playground /\ (record[r] = "refunded" => f \in {"token", "done"})
  BY <1>1, ExactParts DEF LifeInv
<1>4. Moves(r, "failed", f, q, s)
  BY <1>1, Parts DEF Moves, Goto
<1>5. LifeInv("failed", f, q, s, record[r])
  BY <1>3 DEF LifeInv, BeforePCs, PreparePCs, WssPCs
<1>6. CASE Fault(r)
  <2> HIDE DEF f, q, s
  <2> QED BY <1>4, <1>5, <1>6, FaultyStep
<1>7. CASE UpdateTokenQuota(r, Fee) /\ NoFault
  <2>1. z \in Int /\ Fee \in Int /\ Charges(r, z, Fee) /\ record' = record
    BY <1>2, <1>7, TokenQuotaIs, RecordKept
  <2>2. "failed" \in FailedPCs /\ "feeToken" \in FailedPCs /\ FeeCharged(q) = Fee
    BY <1>3 DEF FailedPCs, FeeCharged
  <2>3. r \notin faulty /\ q.kind # "realtime" =>
            /\ charged[r].fund + z = ExactFund("failed", f, q, s)
            /\ charged[r].token + Fee = ExactToken("failed", f, q, s)
    BY <1>1, <1>2, <1>3, <2>2, ExactParts, FailedIs
  <2> HIDE DEF f, q, s, z
  <2> QED BY <1>4, <1>5, <1>7, <2>1, <2>3, CleanStep
<1> QED BY <1>6, <1>7 DEF FeeToken

\* A step of the refund goroutine.
LEMMA RefundExact ==
    ASSUME IInv, EInv, NEW r \in Requests, refund[r] \in {"fund", "mark", "token"},
           NEW f \in {"fund", "mark", "token", "done"}, NEW s \in Session,
           s.preConsumedQuota = ses[r].preConsumedQuota, s.settled = ses[r].settled,
           RefundGoto(r, f), ses' = [ses EXCEPT ![r] = s], UNCHANGED <<pc, req>>,
           \A u \in Requests \ {r} : record'[u] = record[u],
           record'[r] = "refunded" => f \in {"token", "done"},
           NEW df \in Int, NEW dt \in Int, Charges(r, df, dt),
           \/ Fault(r)
           \/ /\ NoFault
              /\ df = FundLeft(f, ses[r]) - FundLeft(refund[r], ses[r])
              /\ dt = IF req[r].playground THEN 0
                      ELSE TokenLeft(f, ses[r]) - TokenLeft(refund[r], ses[r])
    PROVE  EInv'
<1> DEFINE p == pc[r]
           q == req[r]
<1>1. p \in FailedPCs /\ q \in RelayInfo /\ ses[r] \in Session
      /\ q.playground \in BOOLEAN /\ charged[r].fund \in Int /\ charged[r].token \in Int
  BY Parts DEF ControlInv, RelayInfo
<1>2. Moves(r, p, f, q, s)
  BY Parts DEF Moves, RefundGoto
<1>3. LifeInv(p, f, q, s, record'[r])
  BY <1>1, ExactParts DEF LifeInv, FailedPCs, BeforePCs, PreparePCs, WssPCs
<1>4. CASE Fault(r)
  <2>1. record' = record
    BY <1>4 DEF Fault, NoCharge, stores
  <2> HIDE DEF p, q
  <2> QED BY <1>2, <1>3, <1>4, <2>1, FaultyStep
<1>5. CASE /\ NoFault
           /\ df = FundLeft(f, ses[r]) - FundLeft(refund[r], ses[r])
           /\ dt = IF req[r].playground THEN 0
                   ELSE TokenLeft(f, ses[r]) - TokenLeft(refund[r], ses[r])
  <2>0. SettledPart(q, s) = 0 /\ SettledPart(q, ses[r]) = 0
    BY RefundState DEF SettledPart
  <2>1. FundLeft(f, s) = FundLeft(f, ses[r]) /\ TokenLeft(f, s) = TokenLeft(f, ses[r])
    BY DEF FundLeft, TokenLeft
  <2>2. /\ FundLeft(f, s) \in Nat /\ TokenLeft(f, s) \in Nat /\ FeeCharged(q) \in Nat
        /\ FundLeft(refund[r], ses[r]) \in Nat /\ TokenLeft(refund[r], ses[r]) \in Nat
    BY <1>1, FailedIs
  <2>3. r \notin faulty /\ q.kind # "realtime" =>
            /\ charged[r].fund = FundLeft(refund[r], ses[r]) + FeeCharged(q)
            /\ charged[r].token = IF q.playground THEN 0
                  ELSE TokenLeft(refund[r], ses[r]) + (IF p = "failed" THEN FeeCharged(q) ELSE 0)
    BY <1>1, <2>0, <2>2, ExactParts, FailedIs
  <2>4. r \notin faulty /\ q.kind # "realtime" =>
            /\ charged[r].fund + df = FundLeft(f, s) + FeeCharged(q)
            /\ charged[r].token + dt = IF q.playground THEN 0
                  ELSE TokenLeft(f, s) + (IF p = "failed" THEN FeeCharged(q) ELSE 0)
    BY <1>1, <1>5, <2>1, <2>2, <2>3
  <2>5. r \notin faulty /\ q.kind # "realtime" =>
            /\ charged[r].fund + df = ExactFund(p, f, q, s)
            /\ charged[r].token + dt = ExactToken(p, f, q, s)
    BY <1>1, <2>0, <2>2, <2>4, FailedIs
  <2> HIDE DEF p, q
  <2> QED BY <1>2, <1>3, <1>5, <2>5, CleanStep
<1> QED BY <1>4, <1>5

\* A failed attempt: the request met a failing statement.
LEMMA AttemptFailsExact ==
    ASSUME IInv, EInv, NEW r \in Requests, refund[r] \in {"fund", "mark"},
           Fault(r), AttemptFails(r), UNCHANGED <<pc, req>>
    PROVE  EInv'
<1> DEFINE a == ses[r].attempts + 1
           s == [ses[r] EXCEPT !.attempts = a]
           z == 0
<1>1. a \in 0..MaxAttempts
  BY RefundState, Parts, BillingAssumption DEF Session
<1>2. ses' = [ses EXCEPT ![r] = s]
  BY Parts DEF AttemptFails
<1>3. PICK f \in {"fund", "token"} : RefundGoto(r, f)
  BY DEF AttemptFails
<1> HIDE DEF a
<1>4. /\ s \in Session /\ s.preConsumedQuota = ses[r].preConsumedQuota
      /\ s.settled = ses[r].settled
  BY <1>1, Parts DEF Session
<1> HIDE DEF s
<1>5. record' = record /\ record[r] # "refunded"
  BY ExactParts DEF LifeInv, Fault, NoCharge, stores
<1>6. z \in Int /\ Charges(r, z, z)
  BY NoChargeIs, FaultIs DEF Fault
<1> HIDE DEF z
<1> QED BY <1>2, <1>3, <1>4, <1>5, <1>6, RefundExact

LEMMA RefundWalletExact ==
    ASSUME IInv, EInv, NEW r \in Requests, RefundWallet(r)
    PROVE  EInv'
<1> DEFINE n == ses[r].preConsumedQuota
           d == -ses[r].consumed
           z == 0
<1>1. /\ refund[r] = "fund" /\ ses[r].source = "wallet" /\ RefundGoto(r, "token")
      /\ UNCHANGED <<pc, req>> /\ ses' = [ses EXCEPT ![r] = ses[r]] /\ ses[r] \in Session
  BY Parts DEF RefundWallet
<1>2. n \in Nat /\ d = -n /\ d \in Int /\ z \in Int
  BY <1>1, RefundState DEF PaidInv
<1>3. record[r] # "refunded"
  BY <1>1, ExactParts DEF LifeInv
<1>4. /\ d = FundLeft("token", ses[r]) - FundLeft(refund[r], ses[r])
      /\ z = IF req[r].playground THEN 0
             ELSE TokenLeft("token", ses[r]) - TokenLeft(refund[r], ses[r])
  BY <1>1, <1>2 DEF FundLeft, TokenLeft
<1>5. CASE UpdateUserQuota(r, d) /\ NoFault
  <2>1. Charges(r, d, z) /\ record' = record
    BY <1>2, <1>5, UserQuotaIs, RecordKept
  <2> HIDE DEF d, z
  <2> QED BY <1>1, <1>2, <1>3, <1>4, <1>5, <2>1, RefundExact
<1>6. CASE Fault(r)
  <2>1. Charges(r, z, z) /\ record' = record
    BY <1>6, NoChargeIs, RecordKept DEF Fault
  <2> HIDE DEF d, z
  <2> QED BY <1>1, <1>2, <1>3, <1>6, <2>1, RefundExact
<1> QED BY <1>5, <1>6 DEF RefundWallet

LEMMA RefundSubscriptionExact ==
    ASSUME IInv, EInv, NEW r \in Requests, RefundSubscription(r)
    PROVE  EInv'
<1> DEFINE n == ses[r].preConsumedQuota
           d == -ses[r].subPreConsumed
           z == 0
<1>1. /\ refund[r] = "fund" /\ ses[r].source = "subscription"
      /\ UNCHANGED <<pc, req>> /\ ses = [ses EXCEPT ![r] = ses[r]] /\ ses[r] \in Session
  BY Parts DEF RefundSubscription
<1>2. n \in Nat /\ d = -n /\ d \in Int /\ z \in Int /\ ses[r].subscriptionId \in Subs
  BY <1>1, RefundState DEF PaidInv
<1>3. record[r] # "refunded"
  BY <1>1, ExactParts DEF LifeInv
<1>4. /\ d = FundLeft("mark", ses[r]) - FundLeft(refund[r], ses[r])
      /\ z = IF req[r].playground THEN 0
             ELSE TokenLeft("mark", ses[r]) - TokenLeft(refund[r], ses[r])
  BY <1>1, <1>2 DEF FundLeft, TokenLeft
<1>5. CASE Fault(r) /\ AttemptFails(r)
  BY <1>1, <1>5, AttemptFailsExact
<1>6. CASE /\ PostConsumeUserSubscriptionDelta(r, ses[r].subscriptionId, d)
           /\ RefundGoto(r, "mark") /\ NoFault /\ UNCHANGED ses
  <2>1. Charges(r, d, z) /\ record' = record
    BY <1>2, <1>6, SubscriptionDeltaIs, RecordKept
  <2> HIDE DEF d, z
  <2> QED BY <1>1, <1>2, <1>3, <1>4, <1>6, <2>1, RefundExact
<1> QED BY <1>3, <1>5, <1>6 DEF RefundSubscription, AlreadyRefunded

LEMMA MarkRefundedExact ==
    ASSUME IInv, EInv, NEW r \in Requests, MarkRefunded(r)
    PROVE  EInv'
<1> DEFINE z == 0
<1>1. /\ refund[r] = "mark" /\ UNCHANGED <<pc, req>>
      /\ ses = [ses EXCEPT ![r] = ses[r]] /\ ses[r] \in Session
  BY Parts DEF MarkRefunded
<1>2. CASE Fault(r) /\ AttemptFails(r)
  BY <1>1, <1>2, AttemptFailsExact
<1>3. CASE /\ record' = [record EXCEPT ![r] = "refunded"]
           /\ RefundGoto(r, "token") /\ NoFault
           /\ UNCHANGED <<wallet, token, sub, charged, ses>>
  <2>1. z \in Int /\ Charges(r, z, z)
    BY <1>3, ChargedIs DEF IInv, TypeOK, Charges, SubscriptionWithinTotal
  <2>2. \A u \in Requests \ {r} : record'[u] = record[u]
    BY <1>3 DEF IInv, TypeOK
  <2>3. ses[r].preConsumedQuota \in Nat
    BY <1>1 DEF Session
  <2>4. /\ z = FundLeft("token", ses[r]) - FundLeft(refund[r], ses[r])
        /\ z = IF req[r].playground THEN 0
               ELSE TokenLeft("token", ses[r]) - TokenLeft(refund[r], ses[r])
    BY <1>1, <2>3 DEF FundLeft, TokenLeft
  <2> HIDE DEF z
  <2> QED BY <1>1, <1>3, <2>1, <2>2, <2>4, RefundExact
<1> QED BY <1>2, <1>3 DEF MarkRefunded

LEMMA RefundTokenExact ==
    ASSUME IInv, EInv, NEW r \in Requests, RefundToken(r)
    PROVE  EInv'
<1> DEFINE n == ses[r].preConsumedQuota
           d == -TokenRefund(r)
           z == 0
<1>1. /\ refund[r] = "token" /\ RefundGoto(r, "done")
      /\ UNCHANGED <<pc, req>> /\ ses' = [ses EXCEPT ![r] = ses[r]] /\ ses[r] \in Session
  BY Parts DEF RefundToken
<1>2. n \in Nat /\ TokenRefund(r) = IF req[r].playground THEN 0 ELSE n
  BY <1>1, RefundState DEF PaidInv, TokenRefund
<1>3. d \in Int /\ z \in Int
  BY <1>2
<1>4. /\ z = FundLeft("done", ses[r]) - FundLeft(refund[r], ses[r])
      /\ d = IF req[r].playground THEN 0
             ELSE TokenLeft("done", ses[r]) - TokenLeft(refund[r], ses[r])
  BY <1>1, <1>2 DEF FundLeft, TokenLeft
<1>5. CASE UpdateTokenQuota(r, d) /\ NoFault
  <2>1. Charges(r, z, d) /\ record' = record
    BY <1>3, <1>5, TokenQuotaIs, RecordKept
  <2> HIDE DEF d, z
  <2> QED BY <1>1, <1>3, <1>4, <1>5, <2>1, RefundExact
<1>6. CASE Fault(r)
  <2>1. Charges(r, z, z) /\ record' = record
    BY <1>6, NoChargeIs, RecordKept DEF Fault
  <2> HIDE DEF d, z
  <2> QED BY <1>1, <1>3, <1>6, <2>1, RefundExact
<1> QED BY <1>5, <1>6 DEF RefundToken

-----------------------------------------------------------------------------
(* The theorem.                                                            *)

LEMMA InitExact == Init => EInv
<1> SUFFICES ASSUME Init, NEW r \in Requests
             PROVE  ExactInv(pc[r], refund[r], req[r], ses[r], charged[r], record[r], r \in faulty)
  BY DEF EInv
<1>1. /\ pc[r] = "idle" /\ refund[r] = "none" /\ req[r] = NoRelayInfo /\ ses[r] = NoSession
      /\ charged[r].fund = 0 /\ charged[r].token = 0 /\ record[r] = "none"
  BY DEF Init
<1>2. ~NoSession.refunded /\ ~NoSession.fundingSettled
      /\ ~NoRelayInfo.fee /\ NoRelayInfo.kind # "realtime"
  BY DEF NoSession, NoRelayInfo
<1>3. LifeInv("idle", "none", NoRelayInfo, NoSession, "none")
  BY <1>2 DEF LifeInv, WssPCs
<1>4. /\ ExactFund("idle", "none", NoRelayInfo, NoSession) = 0
      /\ ExactToken("idle", "none", NoRelayInfo, NoSession) = 0
  BY BeforeIs DEF BeforePCs, FreePCs, PreparePCs
<1> QED BY <1>1, <1>3, <1>4 DEF ExactInv

LEMMA NextExact == IInv /\ EInv /\ [Next]_vars => EInv'
<1> SUFFICES ASSUME IInv, EInv, [Next]_vars PROVE EInv'
  OBVIOUS
<1>1. CASE UNCHANGED vars
  BY <1>1 DEF vars, EInv
<1>2. ASSUME NEW r \in Requests, PreConsumeBilling(r) \/ Prepare(r)
      PROVE  EInv'
  BY <1>2, PreConsumeBillingExact, PrepareExact
<1>3. ASSUME NEW r \in Requests, Answer(r)
      PROVE  EInv'
  BY <1>3, SettleBillingExact, UpstreamFailsExact, WssReportsExact DEF Answer
<1>4. ASSUME NEW r \in Requests, Finish(r)
      PROVE  EInv'
  BY <1>4, SettleFundExact, SettleTokenExact, WssChargeExact, WssReportsExact, FeeFundExact,
     FeeTokenExact DEF Finish
<1>5. ASSUME NEW r \in Requests, RefundStep(r)
      PROVE  EInv'
  BY <1>5, RefundWalletExact, RefundSubscriptionExact, MarkRefundedExact, RefundTokenExact
  DEF RefundStep
<1>6. ASSUME NEW i \in Subs,
             PeriodElapses(i) \/ ResetDueSubscriptions(i) \/ ExpireDueSubscriptions(i)
      PROVE  EInv'
  <2>1. UNCHANGED <<record, charged, pc, refund, req, ses, faulty>>
    BY <1>6 DEF PeriodElapses, ResetDueSubscriptions, ExpireDueSubscriptions, NoFault
  <2> QED BY <2>1 DEF EInv
<1> QED BY <1>1, <1>2, <1>3, <1>4, <1>5, <1>6 DEF Next

\* Where a request has ended, the equations of the invariant say what it owes.
LEMMA ClosedOwes ==
    ASSUME IInv, EInv
    PROVE  ExactCharge
<1> SUFFICES ASSUME NEW r \in Requests, Closed(r), r \notin faulty, req[r].kind # "realtime"
             PROVE  charged[r] = [fund |-> Owed(r),
                                  token |-> IF req[r].playground THEN 0 ELSE Owed(r)]
  BY DEF ExactCharge
<1> DEFINE p == pc[r]
           f == refund[r]
           q == req[r]
           s == ses[r]
<1>1. p \in EndPCs /\ f \in {"none", "done"} /\ q \in RelayInfo /\ s \in Session
      /\ q.playground \in BOOLEAN /\ charged[r] \in Charge
  BY Parts DEF Closed, RelayInfo, IInv, TypeOK, Charge
<1>2. charged[r].fund = ExactFund(p, f, q, s) /\ charged[r].token = ExactToken(p, f, q, s)
  BY ExactParts
<1>3. CASE p = "rejected"
  <2>1. Owed(r) = 0
    <3>1. ~s.settled /\ ~q.fee
      BY <1>3, Parts DEF ControlInv, FailedPCs
    <3> QED BY <1>3, <3>1 DEF Owed
  <2>2. ExactFund(p, f, q, s) = 0 /\ ExactToken(p, f, q, s) = 0
    BY <1>3, BeforeIs, BeforeLabels
  <2> QED BY <1>1, <1>2, <2>1, <2>2 DEF Charge
<1>4. CASE p = "served"
  <2>1. Owed(r) = SettledQuota(q, s)
    <3>1. ~q.fee /\ SettledQuota(q, s) \in Nat
      BY <1>1, <1>4, Parts DEF ControlInv, SettledQuota, Session, RelayInfo
    <3> QED BY <1>4, <3>1 DEF Owed, SettledQuota
  <2>2. /\ ExactFund(p, f, q, s) = Owed(r)
        /\ ExactToken(p, f, q, s) = IF q.playground THEN 0 ELSE Owed(r)
    BY <1>1, <1>4, <2>1, RelayedIs
  <2> QED BY <1>1, <1>2, <2>2 DEF Charge
<1>5. CASE p = "failed"
  <2>1. Owed(r) = SettledPart(q, s) + FeeCharged(q)
    BY <1>1, <1>5 DEF Owed, SettledPart, FeeCharged
  <2>2. p \in FailedPCs /\ FundLeft(f, s) = 0 /\ TokenLeft(f, s) = 0
    BY <1>1, <1>5 DEF FailedPCs, FundLeft, TokenLeft
  <2>3. /\ ExactFund(p, f, q, s) = Owed(r)
        /\ ExactToken(p, f, q, s) = IF q.playground THEN 0 ELSE Owed(r)
    BY <1>1, <1>5, <2>1, <2>2, FailedIs
  <2> QED BY <1>1, <1>2, <2>3 DEF Charge
<1> QED BY <1>1, <1>3, <1>4, <1>5 DEF EndPCs

\* Whatever the preference, the fallbacks, the interleaving and the failures of other requests,
\* a request that met no failing statement ends with exactly what it owes taken from its funding
\* and, outside the playground, from the token: no settlement, refund or rollback is lost or
\* repeated.
THEOREM ExactChargeHolds == Spec => []ExactCharge
<1>1. Init => IInv /\ EInv
  BY InitInv, InitExact
<1>2. IInv /\ EInv /\ [Next]_vars => IInv' /\ EInv'
  BY NextInv, NextExact
<1>3. IInv /\ EInv => ExactCharge
  BY ClosedOwes
<1> QED BY <1>1, <1>2, <1>3, PTL DEF Spec

-----------------------------------------------------------------------------
(* Sums.  Total is a recursion over the subsets of a finite set, so what   *)
(* it computes is shown by induction over finite sets.                     *)

\* Induction over the finite subsets of A, as a fact about the set X of those that have a property.
LEMMA SetInduction ==
    ASSUME NEW A, NEW X,
           \A S \in SUBSET A : IsFiniteSet(S) /\ (\A x \in S : S \ {x} \in X) => S \in X,
           NEW S \in SUBSET A, IsFiniteSet(S)
    PROVE  S \in X
<1> SUFFICES ASSUME S \notin X PROVE FALSE
  OBVIOUS
<1> DEFINE Y == {T \in SUBSET A : IsFiniteSet(T) /\ T \notin X}
           Below == {p \in Nat \X Nat : p[1] < p[2]}
           Sizes == {n \in Nat : \E T \in Y : Cardinality(T) = n}
<1>1. \A T \in Y : IsFiniteSet(T) /\ Cardinality(T) \in Nat
  BY FS_CardinalityType
<1>2. S \in Y /\ Cardinality(S) \in Sizes
  BY <1>1
<1>3. OpToRel(<, Nat) = Below
  BY DEF OpToRel
<1>4. IsWellFoundedOn(Below, Nat)
  BY <1>3, NatLessThanWellFounded
<1>5. Sizes \subseteq Nat /\ Sizes # {}
  BY <1>2
<1> HIDE DEF Below, Sizes
<1>6. PICK n \in Sizes : \A m \in Sizes : ~(<<m, n>> \in Below)
  BY <1>4, <1>5, WFMin
<1> USE DEF Below, Sizes
<1>7. n \in Nat /\ \A m \in Sizes : ~(m < n)
  BY <1>6
<1>8. PICK T \in Y : Cardinality(T) = n
  BY <1>6
<1>9. ASSUME NEW x \in T PROVE T \ {x} \in X
  <2>1. IsFiniteSet(T \ {x}) /\ Cardinality(T \ {x}) = Cardinality(T) - 1
    BY <1>1, FS_RemoveElement
  <2>2. Cardinality(T \ {x}) \in Nat /\ Cardinality(T \ {x}) < n
    BY <1>7, <1>8, <2>1, FS_CardinalityType
  <2>3. T \ {x} \in Y => Cardinality(T \ {x}) \in Sizes
    BY <2>2
  <2> QED BY <1>7, <2>1, <2>2, <2>3
<1> QED BY <1>9

Chosen(S) == CHOOSE x \in S : TRUE

LEMMA ChosenIs == ASSUME NEW S, S # {} PROVE Chosen(S) \in S
  BY DEF Chosen

\* g lists the sums of f over the subsets of S.
Sums(g, f, S) ==
    g = [T \in SUBSET S |-> IF T = {} THEN 0 ELSE f[Chosen(T)] + g[T \ {Chosen(T)}]]

LEMMA SumsUnique ==
    ASSUME NEW S, IsFiniteSet(S), NEW f, NEW g, NEW h, Sums(g, f, S), Sums(h, f, S)
    PROVE  g[S] = h[S]
<1> DEFINE X == {T \in SUBSET S : g[T] = h[T]}
<1>1. ASSUME NEW T \in SUBSET S, \A x \in T : T \ {x} \in X PROVE T \in X
  <2>1. CASE T = {}
    <3>1. g[T] = 0 /\ h[T] = 0
      BY <2>1 DEF Sums
    <3> QED BY <3>1
  <2>2. CASE T # {}
    <3>1. Chosen(T) \in T
      BY <2>2, ChosenIs
    <3>2. g[T] = f[Chosen(T)] + g[T \ {Chosen(T)}] /\ h[T] = f[Chosen(T)] + h[T \ {Chosen(T)}]
      BY <2>2 DEF Sums
    <3>3. g[T \ {Chosen(T)}] = h[T \ {Chosen(T)}]
      BY <1>1, <3>1
    <3> QED BY <3>2, <3>3
  <2> QED BY <2>1, <2>2
<1> HIDE DEF X
<1>2. S \in X
  BY <1>1, SetInduction
<1> QED BY <1>2 DEF X

LEMMA TotalIs ==
    ASSUME NEW S, IsFiniteSet(S), NEW f, NEW h, Sums(h, f, S)
    PROVE  Total(f, S) = h[S]
<1> DEFINE a == CHOOSE g : g = [T \in SUBSET S |-> IF T = {} THEN 0
                                 ELSE f[CHOOSE x \in T : TRUE] + g[T \ {CHOOSE x \in T : TRUE}]]
<1>1. Total(f, S) = a[S]
  BY DEF Total, MapThenSumSet, MapThenFoldSet
<1>2. Sums(a, f, S)
  BY Zenon DEF Sums, Chosen
<1> HIDE DEF a
<1>3. a[S] = h[S]
  BY <1>2, SumsUnique
<1> QED BY <1>1, <1>3

\* The recursion that Total stands for.
TotalAt(f, S) ==
    Total(f, S) = IF S = {} THEN 0 ELSE f[Chosen(S)] + Total(f, S \ {Chosen(S)})

LEMMA TotalRecursion ==
    ASSUME NEW f, NEW S, IsFiniteSet(S)
    PROVE  TotalAt(f, S)
<1> DEFINE X == {R \in SUBSET S : \A T \in SUBSET R : TotalAt(f, T)}
<1>1. ASSUME NEW R \in SUBSET S, \A x \in R : R \ {x} \in X PROVE R \in X
  <2> DEFINE F(T) == IF T = {} THEN 0 ELSE f[Chosen(T)] + Total(f, T \ {Chosen(T)})
             h == [T \in SUBSET R |-> F(T)]
  <2>0. IsFiniteSet(R)
    BY FS_Subset
  <2>1. ASSUME NEW T \in SUBSET R, T # R PROVE TotalAt(f, T)
    <3>1. PICK x \in R : x \notin T
      BY <2>1
    <3>2. T \in SUBSET (R \ {x}) /\ R \ {x} \in X
      BY <1>1, <3>1
    <3> QED BY <3>2
  <2>2. ASSUME NEW T \in SUBSET R, T # {} PROVE h[T \ {Chosen(T)}] = Total(f, T \ {Chosen(T)})
    <3>1. Chosen(T) \in T /\ T \ {Chosen(T)} \in SUBSET R /\ T \ {Chosen(T)} # R
      BY <2>2, ChosenIs
    <3>2. h[T \ {Chosen(T)}] = F(T \ {Chosen(T)})
      BY <3>1
    <3> HIDE DEF h
    <3> QED BY <2>1, <3>1, <3>2 DEF TotalAt
  <2>3. ASSUME NEW T \in SUBSET R
        PROVE  F(T) = IF T = {} THEN 0 ELSE f[Chosen(T)] + h[T \ {Chosen(T)}]
    <3> HIDE DEF h
    <3> QED BY <2>2
  <2>4. Sums(h, f, R)
    <3> DEFINE k == [T \in SUBSET R |-> IF T = {} THEN 0 ELSE f[Chosen(T)] + h[T \ {Chosen(T)}]]
    <3>0. h = [T \in SUBSET R |-> F(T)]
      OBVIOUS
    <3> HIDE DEF h, F
    <3>1. h = k
      BY <2>3, <3>0
    <3> QED BY <3>1 DEF Sums
  <2>5. Total(f, R) = h[R] /\ h[R] = F(R)
    BY <2>0, <2>4, TotalIs
  <2>6. TotalAt(f, R)
    <3> HIDE DEF h
    <3> QED BY <2>5 DEF TotalAt
  <2> QED BY <2>1, <2>6
<1> HIDE DEF X
<1>2. S \in X
  BY <1>1, SetInduction
<1> QED BY <1>2 DEF X

LEMMA TotalType ==
    ASSUME NEW A, NEW f \in [A -> Int], NEW S \in SUBSET A, IsFiniteSet(S)
    PROVE  Total(f, S) \in Int
<1> DEFINE X == {T \in SUBSET A : Total(f, T) \in Int}
<1>1. ASSUME NEW T \in SUBSET A, IsFiniteSet(T), \A x \in T : T \ {x} \in X PROVE T \in X
  <2>1. CASE T = {}
    BY <1>1, <2>1, TotalRecursion DEF TotalAt
  <2>2. CASE T # {}
    <3>1. Chosen(T) \in T /\ Total(f, T) = f[Chosen(T)] + Total(f, T \ {Chosen(T)})
      BY <1>1, <2>2, ChosenIs, TotalRecursion DEF TotalAt
    <3>2. Total(f, T \ {Chosen(T)}) \in Int /\ f[Chosen(T)] \in Int
      BY <1>1, <3>1
    <3> QED BY <3>1, <3>2
  <2> QED BY <2>1, <2>2
<1> HIDE DEF X
<1>2. S \in X
  BY <1>1, SetInduction
<1> QED BY <1>2 DEF X

\* Any element may be taken out first.
LEMMA TotalRemove ==
    ASSUME NEW A, NEW f \in [A -> Int], NEW S \in SUBSET A, IsFiniteSet(S), NEW y \in S
    PROVE  Total(f, S) = f[y] + Total(f, S \ {y})
<1> DEFINE X == {T \in SUBSET A : \A x \in T : Total(f, T) = f[x] + Total(f, T \ {x})}
<1>1. ASSUME NEW T \in SUBSET A, IsFiniteSet(T), \A x \in T : T \ {x} \in X PROVE T \in X
  <2> SUFFICES ASSUME NEW x \in T PROVE Total(f, T) = f[x] + Total(f, T \ {x})
    OBVIOUS
  <2> DEFINE c == Chosen(T)
             R == T \ {x, c}
  <2>1. c \in T /\ Total(f, T) = f[c] + Total(f, T \ {c})
    BY <1>1, ChosenIs, TotalRecursion DEF TotalAt
  <2> HIDE DEF c
  <2>2. CASE x = c
    BY <2>1, <2>2
  <2>3. CASE x # c
    <3>1. Total(f, T \ {c}) = f[x] + Total(f, (T \ {c}) \ {x})
      <4>1. T \ {c} \in X /\ x \in T \ {c}
        BY <1>1, <2>1, <2>3
      <4> QED BY <4>1
    <3>2. Total(f, T \ {x}) = f[c] + Total(f, (T \ {x}) \ {c})
      <4>1. T \ {x} \in X /\ c \in T \ {x}
        BY <1>1, <2>1, <2>3
      <4> QED BY <4>1
    <3>3. (T \ {c}) \ {x} = R /\ (T \ {x}) \ {c} = R
      OBVIOUS
    <3>4. f[x] \in Int /\ f[c] \in Int /\ Total(f, R) \in Int
      <4>1. IsFiniteSet(R) /\ R \in SUBSET A
        BY <1>1, FS_Subset
      <4> QED BY <2>1, <4>1, TotalType
    <3> HIDE DEF R
    <3>5. Total(f, T) = f[c] + (f[x] + Total(f, R)) /\ Total(f, T \ {x}) = f[c] + Total(f, R)
      BY <2>1, <3>1, <3>2, <3>3
    <3> QED BY <3>4, <3>5
  <2> QED BY <2>2, <2>3
<1> HIDE DEF X
<1>2. S \in X
  BY <1>1, SetInduction
<1> QED BY <1>2 DEF X

\* The sum depends on the values over the set only.
LEMMA TotalSame ==
    ASSUME NEW f, NEW h, NEW S, IsFiniteSet(S), \A x \in S : f[x] = h[x]
    PROVE  Total(f, S) = Total(h, S)
<1> DEFINE X == {T \in SUBSET S : Total(f, T) = Total(h, T)}
<1>1. ASSUME NEW T \in SUBSET S, IsFiniteSet(T), \A x \in T : T \ {x} \in X PROVE T \in X
  <2>1. CASE T = {}
    <3>1. Total(f, T) = 0 /\ Total(h, T) = 0
      BY <1>1, <2>1, TotalRecursion DEF TotalAt
    <3> QED BY <3>1
  <2>2. CASE T # {}
    <3>1. /\ Chosen(T) \in T
          /\ Total(f, T) = f[Chosen(T)] + Total(f, T \ {Chosen(T)})
          /\ Total(h, T) = h[Chosen(T)] + Total(h, T \ {Chosen(T)})
      BY <1>1, <2>2, ChosenIs, TotalRecursion DEF TotalAt
    <3>2. Total(f, T \ {Chosen(T)}) = Total(h, T \ {Chosen(T)}) /\ f[Chosen(T)] = h[Chosen(T)]
      BY <1>1, <3>1
    <3> QED BY <3>1, <3>2
  <2> QED BY <2>1, <2>2
<1> HIDE DEF X
<1>2. S \in X
  BY <1>1, SetInduction
<1> QED BY <1>2 DEF X

\* One value changes.
LEMMA TotalChange ==
    ASSUME NEW S, IsFiniteSet(S), NEW f \in [S -> Int], NEW h \in [S -> Int], NEW y \in S,
           \A x \in S : x # y => h[x] = f[x]
    PROVE  Total(h, S) = Total(f, S) + (h[y] - f[y])
<1>1. IsFiniteSet(S \ {y}) /\ S \in SUBSET S /\ S \ {y} \in SUBSET S
  BY FS_Subset
<1>2. Total(f, S) = f[y] + Total(f, S \ {y}) /\ Total(h, S) = h[y] + Total(h, S \ {y})
  BY <1>1, TotalRemove
<1>3. Total(f, S \ {y}) = Total(h, S \ {y})
  BY <1>1, TotalSame
<1>4. Total(f, S \ {y}) \in Int /\ f[y] \in Int /\ h[y] \in Int
  BY <1>1, TotalType
<1> QED BY <1>2, <1>3, <1>4

\* Zeros do not count.
LEMMA TotalOver ==
    ASSUME NEW S, IsFiniteSet(S), NEW f \in [S -> Int], NEW K \in SUBSET S,
           \A x \in S \ K : f[x] = 0
    PROVE  Total(f, S) = Total(f, K)
<1> DEFINE X == {T \in SUBSET S : Total(f, T) = Total(f, T \cap K)}
<1>1. ASSUME NEW T \in SUBSET S, IsFiniteSet(T), \A x \in T : T \ {x} \in X PROVE T \in X
  <2>1. CASE T = {}
    <3>1. T \cap K = T
      BY <2>1
    <3> QED BY <3>1
  <2>2. CASE T # {}
    <3>1. PICK x \in T : TRUE
      BY <2>2
    <3>2. Total(f, T) = f[x] + Total(f, T \ {x}) /\ f[x] \in Int
      BY <1>1, TotalRemove
    <3>3. Total(f, T \ {x}) = Total(f, (T \ {x}) \cap K) /\ Total(f, T \ {x}) \in Int
      <4>1. T \ {x} \in SUBSET S /\ IsFiniteSet(T \ {x})
        BY <1>1, FS_Subset
      <4> QED BY <1>1, <4>1, TotalType
    <3>4. CASE x \in K
      <4>1. IsFiniteSet(T \cap K) /\ T \cap K \in SUBSET S /\ x \in T \cap K
        BY <1>1, <3>4, FS_Subset
      <4>2. Total(f, T \cap K) = f[x] + Total(f, (T \cap K) \ {x})
        BY <4>1, TotalRemove
      <4>3. (T \cap K) \ {x} = (T \ {x}) \cap K
        OBVIOUS
      <4> QED BY <3>2, <3>3, <4>2, <4>3
    <3>5. CASE x \notin K
      <4>1. f[x] = 0 /\ (T \ {x}) \cap K = T \cap K
        BY <3>5
      <4>2. Total(f, T) = Total(f, T \ {x})
        BY <3>2, <3>3, <4>1
      <4>3. Total(f, T) = Total(f, T \cap K)
        BY <3>3, <4>1, <4>2
      <4> QED BY <4>3
    <3> QED BY <3>4, <3>5
  <2> QED BY <2>1, <2>2
<1> HIDE DEF X
<1>2. S \in X
  BY <1>1, SetInduction
<1>3. S \cap K = K
  OBVIOUS
<1> QED BY <1>2, <1>3 DEF X

LEMMA TotalNone ==
    ASSUME NEW f PROVE Total(f, {}) = 0
<1>1. IsFiniteSet({})
  BY FS_EmptySet
<1> QED BY <1>1, TotalRecursion DEF TotalAt

LEMMA TotalNat ==
    ASSUME NEW S, IsFiniteSet(S), NEW f \in [S -> Nat]
    PROVE  Total(f, S) >= 0
<1> DEFINE X == {T \in SUBSET S : Total(f, T) \in Nat}
<1>1. ASSUME NEW T \in SUBSET S, IsFiniteSet(T), \A x \in T : T \ {x} \in X PROVE T \in X
  <2>1. CASE T = {}
    BY <2>1, TotalNone
  <2>2. CASE T # {}
    <3>1. Chosen(T) \in T /\ Total(f, T) = f[Chosen(T)] + Total(f, T \ {Chosen(T)})
      BY <1>1, <2>2, ChosenIs, TotalRecursion DEF TotalAt
    <3>2. Total(f, T \ {Chosen(T)}) \in Nat /\ f[Chosen(T)] \in Nat
      BY <1>1, <3>1
    <3> QED BY <3>1, <3>2
  <2> QED BY <2>1, <2>2
<1> HIDE DEF X
<1>2. S \in X
  BY <1>1, SetInduction
<1> QED BY <1>2 DEF X

LEMMA TotalAtLeast ==
    ASSUME NEW S, IsFiniteSet(S), NEW f \in [S -> Nat], NEW y \in S
    PROVE  Total(f, S) >= f[y]
<1> DEFINE h == [f EXCEPT ![y] = 0]
<1>1. h \in [S -> Nat] /\ h[y] = 0 /\ \A x \in S : x # y => h[x] = f[x]
  OBVIOUS
<1> HIDE DEF h
<1>2. h \in [S -> Int] /\ f \in [S -> Int]
  BY <1>1
<1>3. Total(h, S) = Total(f, S) + (h[y] - f[y])
  BY <1>1, <1>2, TotalChange
<1>4. Total(h, S) >= 0
  BY <1>1, TotalNat
<1>5. Total(f, S) \in Int /\ f[y] \in Nat
  BY <1>2, TotalType
<1> QED BY <1>1, <1>3, <1>4, <1>5

-----------------------------------------------------------------------------
(* The books.                                                              *)

\* What each request has taken from the wallet or from subscriptions, from subscription i, and
\* from the token.
Taken(source) == [r \in Requests |-> IF ses[r].source = source THEN charged[r].fund ELSE 0]
TakenFrom(i) ==
    [r \in Requests |-> IF ses[r].source = "subscription" /\ ses[r].subscriptionId = i
                        THEN charged[r].fund ELSE 0]
TakenTokens == [r \in Requests |-> charged[r].token]
Used == [i \in Subs |-> sub[i].used]

\* No request has another kind than the instance allows.
KindInv == \A r \in Requests : req[r].kind \in Kinds \cup {"sync"}

\* The stores are short of what the requests have taken so far.
LedgerInv ==
    /\ \A i \in Subs : ~sub[i].due
    /\ wallet = Wallet0 - Total(Taken("wallet"), Requests)
    /\ token = Token0 - Total(TakenTokens, Requests)
    /\ \A i \in Subs : sub[i].used = Total(TakenFrom(i), Requests)
    /\ Total(Used, Subs) = Total(Taken("subscription"), Requests)

Clean == faulty = {} /\ resets = 0
BooksInv == KindInv /\ (Clean => LedgerInv)

\* The sums are finite and without realtime sessions, which are charged twice.
Accountable == IsFiniteSet(Requests) /\ "realtime" \notin Kinds

\* Request r takes df from the funding that its session names after the step, and dt from the
\* token; it changes its funding only before it has taken anything.
Spends(r, df, dt) ==
    /\ charged' = [charged EXCEPT ![r] = [fund |-> charged[r].fund + df,
                                          token |-> charged[r].token + dt]]
    /\ \A u \in Requests : u # r => ses'[u] = ses[u]
    /\ \/ charged[r].fund = 0
       \/ ses'[r].source = ses[r].source /\ ses'[r].subscriptionId = ses[r].subscriptionId
    /\ token' = token - dt
    /\ wallet' = wallet - (IF ses'[r].source = "wallet" THEN df ELSE 0)
    /\ \A i \in Subs :
          /\ ~sub'[i].due
          /\ sub'[i].used = sub[i].used +
                (IF ses'[r].source = "subscription" /\ ses'[r].subscriptionId = i THEN df ELSE 0)
    /\ ses'[r].source = "subscription" /\ df # 0 => ses'[r].subscriptionId \in Subs

LEMMA TakenTypes ==
    ASSUME TypeOK
    PROVE  /\ \A source : Taken(source) \in [Requests -> Int]
           /\ \A i : TakenFrom(i) \in [Requests -> Int]
           /\ TakenTokens \in [Requests -> Int]
           /\ Used \in [Subs -> Int]
  BY DEF TypeOK, Taken, TakenFrom, TakenTokens, Used, UserSubscription

LEMMA SpendingIsBooked ==
    ASSUME Accountable, TypeOK, TypeOK', LedgerInv, NEW r \in Requests,
           NEW df \in Int, NEW dt \in Int, Spends(r, df, dt)
    PROVE  LedgerInv'
<1>1. IsFiniteSet(Requests) /\ IsFiniteSet(Subs)
  BY BillingAssumption, FS_Interval DEF Accountable, Subs
<1>2. /\ charged'[r].fund = charged[r].fund + df /\ charged'[r].token = charged[r].token + dt
      /\ \A u \in Requests : u # r => charged'[u] = charged[u] /\ ses'[u] = ses[u]
      /\ \A u \in Requests : charged[u].fund \in Int /\ charged[u].token \in Int
  BY DEF TypeOK, Spends
<1>3. ASSUME NEW source
      PROVE  Total(Taken(source)', Requests)
             = Total(Taken(source), Requests) + (IF ses'[r].source = source THEN df ELSE 0)
  <2>1. Taken(source) \in [Requests -> Int] /\ Taken(source)' \in [Requests -> Int]
    BY TakenTypes, <1>2 DEF TypeOK, Taken
  <2>2. /\ \A u \in Requests : u # r => Taken(source)'[u] = Taken(source)[u]
        /\ Taken(source)'[r] - Taken(source)[r] = IF ses'[r].source = source THEN df ELSE 0
    BY <1>2 DEF Taken, Spends
  <2>3. Total(Taken(source)', Requests)
        = Total(Taken(source), Requests) + (Taken(source)'[r] - Taken(source)[r])
    BY <1>1, <2>1, <2>2, TotalChange
  <2> QED BY <2>2, <2>3
<1>4. ASSUME NEW i \in Subs
      PROVE  Total(TakenFrom(i)', Requests) = Total(TakenFrom(i), Requests) +
                (IF ses'[r].source = "subscription" /\ ses'[r].subscriptionId = i THEN df ELSE 0)
  <2>1. TakenFrom(i) \in [Requests -> Int] /\ TakenFrom(i)' \in [Requests -> Int]
    BY TakenTypes, <1>2 DEF TypeOK, TakenFrom
  <2>2. /\ \A u \in Requests : u # r => TakenFrom(i)'[u] = TakenFrom(i)[u]
        /\ TakenFrom(i)'[r] - TakenFrom(i)[r] =
             IF ses'[r].source = "subscription" /\ ses'[r].subscriptionId = i THEN df ELSE 0
    BY <1>2 DEF TakenFrom, Spends
  <2>3. Total(TakenFrom(i)', Requests)
        = Total(TakenFrom(i), Requests) + (TakenFrom(i)'[r] - TakenFrom(i)[r])
    BY <1>1, <2>1, <2>2, TotalChange
  <2> QED BY <2>2, <2>3
<1>5. Total(TakenTokens', Requests) = Total(TakenTokens, Requests) + dt
  <2>1. TakenTokens \in [Requests -> Int] /\ TakenTokens' \in [Requests -> Int]
    BY TakenTypes, <1>2 DEF TypeOK, TakenTokens
  <2>2. /\ \A u \in Requests : u # r => TakenTokens'[u] = TakenTokens[u]
        /\ TakenTokens'[r] - TakenTokens[r] = dt
    BY <1>2 DEF TakenTokens
  <2>3. Total(TakenTokens', Requests)
        = Total(TakenTokens, Requests) + (TakenTokens'[r] - TakenTokens[r])
    BY <1>1, <2>1, <2>2, TotalChange
  <2> QED BY <2>2, <2>3
<1>6. Total(Used', Subs) = Total(Used, Subs)
                           + (IF ses'[r].source = "subscription" THEN df ELSE 0)
  <2>1. Used \in [Subs -> Int] /\ Used' \in [Subs -> Int]
    BY TakenTypes DEF TypeOK, Used, UserSubscription
  <2>2. \A i \in Subs : Used'[i] = sub'[i].used /\ Used[i] = sub[i].used
    BY DEF Used
  <2>3. CASE ses'[r].source = "subscription" /\ df # 0
    <3> DEFINE i == ses'[r].subscriptionId
    <3>1. i \in Subs /\ Used'[i] - Used[i] = df
          /\ \A j \in Subs : j # i => Used'[j] = Used[j]
      BY <2>1, <2>2, <2>3 DEF Spends
    <3> HIDE DEF i
    <3>2. Total(Used', Subs) = Total(Used, Subs) + (Used'[i] - Used[i])
      BY <1>1, <2>1, <3>1, TotalChange
    <3> QED BY <2>3, <3>1, <3>2
  <2>4. CASE ~(ses'[r].source = "subscription" /\ df # 0)
    <3>1. \A j \in Subs : Used'[j] = Used[j]
      BY <2>1, <2>2, <2>4 DEF Spends
    <3>2. Total(Used', Subs) = Total(Used, Subs) /\ Total(Used, Subs) \in Int
      BY <1>1, <2>1, <3>1, TotalSame, TotalType
    <3> QED BY <2>4, <3>2
  <2> QED BY <2>3, <2>4
<1>7. /\ \A source : Total(Taken(source), Requests) \in Int
      /\ \A i \in Subs : Total(TakenFrom(i), Requests) \in Int
      /\ Total(TakenTokens, Requests) \in Int
  BY <1>1, TakenTypes, TotalType
<1>8. wallet' = Wallet0 - Total(Taken("wallet")', Requests)
  <2>1. wallet = Wallet0 - Total(Taken("wallet"), Requests)
        /\ wallet' = wallet - (IF ses'[r].source = "wallet" THEN df ELSE 0) /\ Wallet0 \in Int
    BY BillingAssumption DEF LedgerInv, Spends
  <2> QED BY <1>3, <1>7, <2>1
<1>9. token' = Token0 - Total(TakenTokens', Requests)
  <2>1. token = Token0 - Total(TakenTokens, Requests) /\ token' = token - dt /\ Token0 \in Int
    BY BillingAssumption DEF LedgerInv, Spends
  <2> QED BY <1>5, <1>7, <2>1
<1>10. \A i \in Subs : ~sub'[i].due /\ sub'[i].used = Total(TakenFrom(i)', Requests)
  BY <1>4 DEF LedgerInv, Spends
<1>11. Total(Used', Subs) = Total(Taken("subscription")', Requests)
  BY <1>3, <1>6 DEF LedgerInv
<1> QED BY <1>8, <1>9, <1>10, <1>11 DEF LedgerInv

-----------------------------------------------------------------------------
(* The statements as entries of the books.                                 *)

\* Request r keeps the funding that it has taken something from.
KeepsFunding(r) ==
    /\ \A u \in Requests : u # r => ses'[u] = ses[u]
    /\ \/ charged[r].fund = 0
       \/ ses'[r].source = ses[r].source /\ ses'[r].subscriptionId = ses[r].subscriptionId

LEMMA QuietSpends ==
    ASSUME IInv, LedgerInv, NEW r \in Requests, KeepsFunding(r),
           UNCHANGED <<wallet, token, sub, charged>>
    PROVE  Spends(r, 0, 0)
<1>0. wallet \in Int /\ token \in Int /\ \A j \in Subs : sub[j].used \in Int
  BY DEF IInv, TypeOK, UserSubscription
<1>1. charged' = [charged EXCEPT ![r] = [fund |-> charged[r].fund + 0,
                                         token |-> charged[r].token + 0]]
  <2>1. charged' = charged /\ 0 \in Int
    OBVIOUS
  <2> QED BY <2>1, ChargedIs
<1>2. token' = token - 0 /\ wallet' = wallet - 0
  BY <1>0
<1>3. \A i \in Subs : ~sub'[i].due /\ sub'[i].used = sub[i].used + 0
  BY <1>0 DEF LedgerInv
<1> QED BY <1>1, <1>2, <1>3 DEF Spends, KeepsFunding

LEMMA TokenSpends ==
    ASSUME IInv, LedgerInv, NEW r \in Requests, NEW d \in Int, KeepsFunding(r),
           UpdateTokenQuota(r, d)
    PROVE  Spends(r, 0, d)
<1>0. wallet \in Int /\ token \in Int /\ \A j \in Subs : sub[j].used \in Int
  BY DEF IInv, TypeOK, UserSubscription
<1>1. charged' = [charged EXCEPT ![r] = [fund |-> charged[r].fund + 0,
                                         token |-> charged[r].token + d]]
  BY ChargedIs DEF UpdateTokenQuota
<1>2. token' = token - d /\ wallet' = wallet - 0 /\ sub' = sub
  BY <1>0 DEF UpdateTokenQuota
<1>3. \A i \in Subs : ~sub'[i].due /\ sub'[i].used = sub[i].used + 0
  BY <1>0, <1>2 DEF LedgerInv
<1> QED BY <1>1, <1>2, <1>3 DEF Spends, KeepsFunding

LEMMA UserSpends ==
    ASSUME IInv, LedgerInv, NEW r \in Requests, NEW d \in Int, KeepsFunding(r),
           ses'[r].source = "wallet", UpdateUserQuota(r, d)
    PROVE  Spends(r, d, 0)
<1>0. wallet \in Int /\ token \in Int /\ \A j \in Subs : sub[j].used \in Int
  BY DEF IInv, TypeOK, UserSubscription
<1>1. charged' = [charged EXCEPT ![r] = [fund |-> charged[r].fund + d,
                                         token |-> charged[r].token + 0]]
  BY ChargedIs DEF UpdateUserQuota
<1>2. wallet' = wallet - d /\ token' = token - 0 /\ sub' = sub
  BY <1>0 DEF UpdateUserQuota
<1>3. \A i \in Subs : ~sub'[i].due /\ sub'[i].used = sub[i].used + 0
  BY <1>0, <1>2 DEF LedgerInv
<1> QED BY <1>1, <1>2, <1>3 DEF Spends, KeepsFunding

\* The clamp of amount_used does not apply: the row is short of at least what is given back.
LEMMA RowSpends ==
    ASSUME IInv, LedgerInv, NEW r \in Requests, NEW i \in Subs, NEW d \in Int, KeepsFunding(r),
           ses'[r].source = "subscription", ses'[r].subscriptionId = i,
           sub[i].used + d >= 0, PostConsumeUserSubscriptionDelta(r, i, d)
    PROVE  Spends(r, d, 0)
<1>0. wallet \in Int /\ token \in Int /\ \A j \in Subs : sub[j].used \in Int
  BY DEF IInv, TypeOK, UserSubscription
<1>1. charged' = [charged EXCEPT ![r] = [fund |-> charged[r].fund + d,
                                         token |-> charged[r].token + 0]]
  BY ChargedIs DEF PostConsumeUserSubscriptionDelta
<1>2. UsedAfter(i, d) = sub[i].used + d /\ wallet' = wallet - 0 /\ token' = token - 0
  BY <1>0 DEF UsedAfter, PostConsumeUserSubscriptionDelta
<1>3. \A j \in Subs : sub[j] \in UserSubscription /\ ~sub[j].due
  BY DEF IInv, TypeOK, LedgerInv
<1>4. /\ sub'[i].used = UsedAfter(i, d) /\ ~sub'[i].due
      /\ \A j \in Subs : j # i => sub'[j] = sub[j]
  <2> DEFINE w == [sub[i] EXCEPT !.used = UsedAfter(i, d)]
  <2>1. w.used = UsedAfter(i, d) /\ ~w.due
    BY <1>3 DEF UserSubscription
  <2>2. sub' = [sub EXCEPT ![i] = w] /\ sub \in [Subs -> UserSubscription]
    BY DEF PostConsumeUserSubscriptionDelta, IInv, TypeOK
  <2> HIDE DEF w
  <2> QED BY <2>1, <2>2
<1>5. \A j \in Subs : ~sub'[j].due /\ sub'[j].used = sub[j].used + (IF i = j THEN d ELSE 0)
  BY <1>0, <1>2, <1>3, <1>4
<1> QED BY <1>1, <1>2, <1>5 DEF Spends, KeepsFunding

LEMMA PreConsumeSpends ==
    ASSUME IInv, LedgerInv, NEW r \in Requests, NEW i \in Subs, KeepsFunding(r),
           ses'[r].source = "subscription", ses'[r].subscriptionId = i,
           PreConsumeUserSubscription(r, i)
    PROVE  Spends(r, ses[r].amount, 0)
<1> DEFINE n == ses[r].amount
<1>0. n \in Int /\ wallet \in Int /\ token \in Int /\ \A j \in Subs : sub[j].used \in Int
  BY DEF IInv, TypeOK, Session, UserSubscription
<1>1. charged' = [charged EXCEPT ![r] = [fund |-> charged[r].fund + n,
                                         token |-> charged[r].token + 0]]
  <2>1. charged' = [charged EXCEPT ![r].fund = @ + n]
    BY DEF PreConsumeUserSubscription
  <2> QED BY <1>0, <2>1, ChargedIs
<1>2. wallet' = wallet - 0 /\ token' = token - 0
  <2>1. wallet' = wallet /\ token' = token
    BY DEF PreConsumeUserSubscription
  <2> QED BY <1>0, <2>1
<1>3. ASSUME NEW j \in Subs
      PROVE  ~sub'[j].due /\ sub'[j].used = sub[j].used + (IF i = j THEN n ELSE 0)
  <2>1. sub[j] \in UserSubscription /\ ~sub[j].due /\ CurrentUsed(j) = sub[j].used
    BY DEF IInv, TypeOK, LedgerInv, CurrentUsed
  <2>2. CASE j \in ActiveSubs /\ j <= i
    <3>1. sub'[j] = [sub[j] EXCEPT !.due = FALSE,
                                   !.used = sub[j].used + (IF j = i THEN n ELSE 0)]
      BY <2>1, <2>2 DEF PreConsumeUserSubscription
    <3> QED BY <1>0, <2>1, <3>1 DEF UserSubscription
  <2>3. CASE ~(j \in ActiveSubs /\ j <= i)
    <3>1. sub'[j] = sub[j]
      BY <2>3 DEF PreConsumeUserSubscription
    <3>2. j # i
      <4>1. i \in ActiveSubs
        BY DEF PreConsumeUserSubscription, FirstWithRoom
      <4>2. i <= i
        BY BillingAssumption DEF Subs
      <4> QED BY <2>3, <4>1, <4>2
    <3> QED BY <1>0, <2>1, <3>1, <3>2
  <2> QED BY <2>2, <2>3
<1> HIDE DEF n
<1>4. Spends(r, n, 0)
  BY <1>0, <1>1, <1>2, <1>3 DEF Spends, KeepsFunding
<1> QED BY <1>4 DEF n

-----------------------------------------------------------------------------
(* The steps of a request without failing statements.                      *)

\* The charges of every request are exact, and no request has given back more than it took.
LEMMA CleanCharges ==
    ASSUME Accountable, IInv, EInv, KindInv, faulty = {}, NEW r \in Requests
    PROVE  /\ req[r].kind # "realtime" /\ pc[r] \notin WssPCs
           /\ charged[r].fund = ExactFund(pc[r], refund[r], req[r], ses[r])
           /\ charged[r].token = ExactToken(pc[r], refund[r], req[r], ses[r])
           /\ pc[r] \in BeforePCs => charged[r].fund = 0
           /\ charged[r].fund \in Nat
<1> DEFINE p == pc[r]
           f == refund[r]
           q == req[r]
           s == ses[r]
<1>1. q.kind # "realtime" /\ p \notin WssPCs
  BY ExactParts DEF Accountable, KindInv, LifeInv
<1>2. charged[r].fund = ExactFund(p, f, q, s) /\ charged[r].token = ExactToken(p, f, q, s)
  BY <1>1, ExactParts
<1>3. q.actual \in Nat /\ s.preConsumedQuota \in Nat /\ FeeCharged(q) \in Nat
  BY BillingAssumption DEF IInv, TypeOK, RelayInfo, Session, FeeCharged
<1>4. ExactFund(p, f, q, s) \in Nat
  BY <1>3 DEF ExactFund, SettledQuota, SettledPart
<1> QED BY <1>1, <1>2, <1>4, BeforeIs

\* What a request has taken from a subscription is part of what the row is short of.
LEMMA RowCovers ==
    ASSUME Accountable, IInv, EInv, KindInv, faulty = {}, LedgerInv, NEW r \in Requests,
           NEW i \in Subs, ses[r].source = "subscription", ses[r].subscriptionId = i
    PROVE  sub[i].used >= charged[r].fund
<1>1. \A u \in Requests : charged[u].fund \in Nat
  BY CleanCharges
<1>2. TakenFrom(i) \in [Requests -> Nat] /\ TakenFrom(i)[r] = charged[r].fund
  BY <1>1 DEF TakenFrom
<1>3. Total(TakenFrom(i), Requests) >= TakenFrom(i)[r]
  BY <1>2, TotalAtLeast DEF Accountable
<1> QED BY <1>2, <1>3 DEF LedgerInv

LEMMA ExactFundNat ==
    ASSUME NEW p, NEW f, NEW q \in RelayInfo, NEW s \in Session
    PROVE  ExactFund(p, f, q, s) \in Nat
<1>1. q.actual \in Nat /\ s.preConsumedQuota \in Nat /\ FeeCharged(q) \in Nat
  BY BillingAssumption DEF RelayInfo, Session, FeeCharged
<1> QED BY <1>1 DEF ExactFund, SettledQuota, SettledPart

\* The states around a step of an accountable instance without failing statements.
Earlier == Accountable /\ IInv /\ EInv /\ KindInv /\ faulty = {} /\ LedgerInv
Later == TypeOK' /\ EInv' /\ KindInv' /\ faulty' = {}

LEMMA NatLater ==
    ASSUME Earlier, Later, NEW r \in Requests
    PROVE  charged'[r].fund \in Nat
<1>1. req'[r].kind # "realtime" /\ r \notin faulty'
  BY DEF Earlier, Later, KindInv, Accountable
<1>2. charged'[r].fund = ExactFund(pc'[r], refund'[r], req'[r], ses'[r])
  BY <1>1 DEF Later, EInv, ExactInv
<1>3. req'[r] \in RelayInfo /\ ses'[r] \in Session
  BY DEF Later, TypeOK
<1> QED BY <1>2, <1>3, ExactFundNat

\* No statement fails.
LEMMA NoFaultHere ==
    ASSUME Later, NEW r \in Requests
    PROVE  ~Fault(r)
  BY DEF Later, Fault

Spent(r) == \E df, dt \in Int : Spends(r, df, dt)

LEMMA QuietSpent ==
    ASSUME Earlier, NEW r \in Requests, KeepsFunding(r), NoCharge
    PROVE  Spent(r)
<1>1. Spends(r, 0, 0)
  BY QuietSpends DEF Earlier, NoCharge, stores
<1>2. 0 \in Int
  OBVIOUS
<1> QED BY <1>1, <1>2 DEF Spent

LEMMA TokenSpent ==
    ASSUME Earlier, NEW r \in Requests, NEW d \in Int, KeepsFunding(r), UpdateTokenQuota(r, d)
    PROVE  Spent(r)
<1>1. Spends(r, 0, d)
  BY TokenSpends DEF Earlier
<1>2. 0 \in Int
  OBVIOUS
<1> QED BY <1>1, <1>2 DEF Spent

\* A statement on the funding of a session.
LEMMA FundingSpent ==
    ASSUME Earlier, Later, NEW r \in Requests, NEW d \in Int, KeepsFunding(r),
           ses'[r].source = ses[r].source, ses'[r].subscriptionId = ses[r].subscriptionId,
           PaidInv(ses[r]), AdjustFunding(r, d)
    PROVE  Spent(r)
<1>0. 0 \in Int
  OBVIOUS
<1>1. CASE ses[r].source = "wallet" /\ UpdateUserQuota(r, d)
  <2>1. Spends(r, d, 0)
    BY <1>1, UserSpends DEF Earlier
  <2> QED BY <1>0, <2>1 DEF Spent
<1>2. CASE /\ ses[r].source = "subscription"
           /\ PostConsumeUserSubscriptionDelta(r, ses[r].subscriptionId, d)
  <2> DEFINE i == ses[r].subscriptionId
  <2>1. i \in Subs
    BY <1>2 DEF PaidInv
  <2>2. sub[i].used >= charged[r].fund
    BY <1>2, <2>1, RowCovers DEF Earlier
  <2>3. charged'[r].fund = charged[r].fund + d
    BY <1>2 DEF PostConsumeUserSubscriptionDelta, Earlier, IInv, TypeOK
  <2>4. charged'[r].fund \in Nat /\ charged[r].fund \in Int /\ sub[i].used \in Int
    BY <2>1, NatLater DEF Earlier, IInv, TypeOK, UserSubscription
  <2>5. sub[i].used + d >= 0
    BY <2>2, <2>3, <2>4
  <2>6. Spends(r, d, 0)
    BY <1>2, <2>1, <2>5, RowSpends DEF Earlier
  <2> QED BY <1>0, <2>6 DEF Spent
<1> QED BY <1>1, <1>2 DEF AdjustFunding

\* Before it is relayed, a request has taken nothing from any funding.
LEMMA FreeFunding ==
    ASSUME Earlier, NEW r \in Requests, pc[r] \in BeforePCs,
           \A u \in Requests : u # r => ses'[u] = ses[u]
    PROVE  KeepsFunding(r)
  BY CleanCharges DEF Earlier, KeepsFunding

LEMMA ChooseFundingSpent ==
    ASSUME Earlier, Later, NEW r \in Requests,
           \/ PreConsumeBilling(r) \/ StartSubscription(r) \/ HasActiveUserSubscription(r)
           \/ CheckWallet(r) \/ ReadToken(r) \/ AllowOverflow(r)
    PROVE  Spent(r)
<1>1. pc[r] \in BeforePCs
  BY DEF PreConsumeBilling, StartSubscription, HasActiveUserSubscription, CheckWallet, ReadToken,
         AllowOverflow, BeforePCs, PreparePCs
<1>2. NoCharge
  BY NoFaultHere DEF PreConsumeBilling, StartSubscription, HasActiveUserSubscription, CheckWallet,
         ReadToken, AllowOverflow
<1>3. \A u \in Requests : u # r => ses'[u] = ses[u]
  BY DEF PreConsumeBilling, StartSubscription, HasActiveUserSubscription, CheckWallet, ReadToken,
         AllowOverflow, TrySubscription, TryWallet, PreConsume, Reject, Earlier, IInv, TypeOK
<1> QED BY <1>1, <1>2, <1>3, FreeFunding, QuietSpent

LEMMA TokenStepsSpent ==
    ASSUME Earlier, Later, NEW r \in Requests, TakeToken(r) \/ TokenBack(r)
    PROVE  Spent(r)
<1>1. pc[r] \in BeforePCs
  BY DEF TakeToken, TokenBack, BeforePCs, PreparePCs
<1>2. \A u \in Requests : u # r => ses'[u] = ses[u]
  BY DEF TakeToken, TokenBack, Reject, Earlier, IInv, TypeOK
<1>3. ses[r].amount \in Int /\ -TokenToReturn(r) \in Int
  BY DEF Earlier, IInv, TypeOK, Session, TokenToReturn
<1>4. UpdateTokenQuota(r, ses[r].amount) \/ UpdateTokenQuota(r, -TokenToReturn(r))
  BY NoFaultHere DEF TakeToken, TokenBack
<1> QED BY <1>1, <1>2, <1>3, <1>4, FreeFunding, TokenSpent

LEMMA FundWalletSpent ==
    ASSUME Earlier, Later, NEW r \in Requests, FundWallet(r)
    PROVE  Spent(r)
<1> DEFINE n == ses[r].amount
           s == [ses[r] EXCEPT !.consumed = n, !.preConsumedQuota = n]
<1>1. pc[r] \in BeforePCs
  BY DEF FundWallet, BeforePCs, PreparePCs
<1>2. UpdateUserQuota(r, n) /\ ses' = [ses EXCEPT ![r] = s] /\ ses[r].source = "wallet"
  BY NoFaultHere DEF FundWallet
<1>3. n \in Int /\ ses[r] \in Session /\ ses \in [Requests -> Session]
  BY DEF Earlier, IInv, TypeOK, Session
<1>4. s.source = "wallet"
  BY <1>2, <1>3 DEF Session
<1> HIDE DEF n, s
<1>5. ses'[r] = s /\ \A u \in Requests : u # r => ses'[u] = ses[u]
  BY <1>2, <1>3
<1>6. Spends(r, n, 0) /\ 0 \in Int
  BY <1>1, <1>2, <1>3, <1>4, <1>5, FreeFunding, UserSpends DEF Earlier
<1> QED BY <1>3, <1>6 DEF Spent

LEMMA FundSubscriptionSpent ==
    ASSUME Earlier, Later, NEW r \in Requests, FundSubscription(r)
    PROVE  Spent(r)
<1> DEFINE n == ses[r].amount
           s(i) == [ses[r] EXCEPT !.subscriptionId = i, !.subPreConsumed = n,
                                  !.preConsumedQuota = n]
<1>0. pc[r] \in BeforePCs /\ ses[r].source = "subscription"
  BY DEF FundSubscription, BeforePCs, PreparePCs
<1>1. n \in Int /\ 0 \in Int /\ ses[r] \in Session /\ ses \in [Requests -> Session]
  BY DEF Earlier, IInv, TypeOK, Session
<1>2. CASE \E i \in Subs : PreConsumeUserSubscription(r, i) /\ ses' = [ses EXCEPT ![r] = s(i)]
  <2>1. PICK i \in Subs : PreConsumeUserSubscription(r, i) /\ ses' = [ses EXCEPT ![r] = s(i)]
    BY <1>2
  <2>2. s(i).source = "subscription" /\ s(i).subscriptionId = i
    BY <1>0, <1>1 DEF Session
  <2> HIDE DEF n, s
  <2>3. ses'[r] = s(i) /\ \A u \in Requests : u # r => ses'[u] = ses[u]
    BY <1>1, <2>1
  <2>4. Spends(r, ses[r].amount, 0)
    BY <1>0, <2>1, <2>2, <2>3, FreeFunding, PreConsumeSpends DEF Earlier
  <2> QED BY <1>1, <2>4 DEF Spent, n
<1>3. CASE NoCharge /\ FundFails(r, "insufficient")
  <2>1. \A u \in Requests : u # r => ses'[u] = ses[u]
    BY <1>1, <1>3 DEF FundFails
  <2> QED BY <1>0, <1>3, <2>1, FreeFunding, QuietSpent
<1> QED BY <1>2, <1>3, NoFaultHere DEF FundSubscription

\* A request that keeps its session, or only marks it, keeps its funding.
LEMMA MarkedFunding ==
    ASSUME Earlier, NEW r \in Requests, NEW s, ses' = [ses EXCEPT ![r] = s],
           s.source = ses[r].source, s.subscriptionId = ses[r].subscriptionId
    PROVE  KeepsFunding(r) /\ ses'[r].source = ses[r].source
           /\ ses'[r].subscriptionId = ses[r].subscriptionId
  BY DEF Earlier, IInv, TypeOK, KeepsFunding

LEMMA SameFunding ==
    ASSUME Earlier, NEW r \in Requests, ses' = ses
    PROVE  KeepsFunding(r) /\ ses'[r].source = ses[r].source
           /\ ses'[r].subscriptionId = ses[r].subscriptionId
  BY DEF KeepsFunding

\* The marks leave the funding of the session alone.
LEMMA Marks ==
    ASSUME NEW s \in Session, NEW a, NEW b
    PROVE  /\ [s EXCEPT !.settled = a].source = s.source
           /\ [s EXCEPT !.settled = a].subscriptionId = s.subscriptionId
           /\ [s EXCEPT !.fundingSettled = a, !.settled = b].source = s.source
           /\ [s EXCEPT !.fundingSettled = a, !.settled = b].subscriptionId = s.subscriptionId
           /\ [s EXCEPT !.refunded = a].source = s.source
           /\ [s EXCEPT !.refunded = a].subscriptionId = s.subscriptionId
  BY DEF Session

LEMMA AnswerSpent ==
    ASSUME Earlier, Later, NEW r \in Requests, SettleBilling(r) \/ UpstreamFails(r)
    PROVE  Spent(r)
<1>1. NoCharge /\ ses[r] \in Session
  BY DEF SettleBilling, UpstreamFails, Earlier, IInv, TypeOK
<1>2. \/ ses' = ses
      \/ ses' = [ses EXCEPT ![r] = [ses[r] EXCEPT !.settled = TRUE]]
      \/ ses' = [ses EXCEPT ![r] = [ses[r] EXCEPT !.refunded = TRUE]]
  BY DEF SettleBilling, UpstreamFails, Settle
<1>3. KeepsFunding(r)
  BY <1>1, <1>2, SameFunding, MarkedFunding, Marks
<1> QED BY <1>1, <1>3, QuietSpent

LEMMA SettleSpent ==
    ASSUME Earlier, Later, NEW r \in Requests, SettleFund(r) \/ SettleToken(r)
    PROVE  Spent(r)
<1>1. /\ ses[r] \in Session /\ Delta(r) \in Int
      /\ PaidInv(ses[r])
  <2>1. ses[r] \in Session /\ req[r] \in RelayInfo
    BY DEF Earlier, IInv, TypeOK
  <2>2. Delta(r) \in Int
    BY <2>1 DEF Delta, Session, RelayInfo
  <2>3. PaidInv(ses[r])
    BY DEF SettleFund, SettleToken, Earlier, IInv, RequestInv, ControlInv, RelayedPCs
  <2> QED BY <2>1, <2>2, <2>3
<1>2. CASE AdjustFunding(r, Delta(r)) /\ SettleFund(r)
      /\ ses' = [ses EXCEPT ![r] = [ses[r] EXCEPT !.fundingSettled = TRUE,
                                                  !.settled = DoneAfterFunding(r)]]
  <2> DEFINE s == [ses[r] EXCEPT !.fundingSettled = TRUE, !.settled = DoneAfterFunding(r)]
  <2>1. s.source = ses[r].source /\ s.subscriptionId = ses[r].subscriptionId
    BY <1>1, Marks
  <2>2. ses' = [ses EXCEPT ![r] = s]
    BY <1>2
  <2> HIDE DEF s
  <2>3. KeepsFunding(r) /\ ses'[r].source = ses[r].source
        /\ ses'[r].subscriptionId = ses[r].subscriptionId
    BY <2>1, <2>2, MarkedFunding
  <2> QED BY <1>1, <1>2, <2>3, FundingSpent
<1>3. CASE NoCharge /\ ses' = ses
  BY <1>3, SameFunding, QuietSpent
<1>4. CASE SettleToken(r)
  <2>1. UpdateTokenQuota(r, Delta(r)) /\ ses' = [ses EXCEPT ![r] = [ses[r] EXCEPT !.settled = TRUE]]
    BY <1>4, NoFaultHere DEF SettleToken
  <2> QED BY <1>1, <2>1, MarkedFunding, Marks, TokenSpent
<1>5. SettleFund(r) => \/ AdjustFunding(r, Delta(r)) /\
                          ses' = [ses EXCEPT ![r] = [ses[r] EXCEPT !.fundingSettled = TRUE,
                                                         !.settled = DoneAfterFunding(r)]]
                       \/ NoCharge /\ ses' = ses
  BY NoFaultHere DEF SettleFund
<1> QED BY <1>2, <1>3, <1>4, <1>5

LEMMA FeeSpent ==
    ASSUME Earlier, Later, NEW r \in Requests, FeeFund(r) \/ FeeToken(r)
    PROVE  Spent(r)
<1>1. Fee \in Int /\ ses' = ses
  BY BillingAssumption DEF FeeFund, FeeToken
<1>2. PaidInv(ses[r])
  BY DEF FeeFund, FeeToken, Earlier, IInv, RequestInv, ControlInv, FailedPCs
<1>3. AdjustFunding(r, Fee) \/ UpdateTokenQuota(r, Fee) \/ NoCharge
  BY NoFaultHere DEF FeeFund, FeeToken
<1> QED BY <1>1, <1>2, <1>3, SameFunding, FundingSpent, TokenSpent, QuietSpent

LEMMA RefundSpent ==
    ASSUME Earlier, Later, NEW r \in Requests, RefundStep(r)
    PROVE  Spent(r)
<1>0. ses[r] \in Session /\ req[r] \in RelayInfo
  BY DEF Earlier, IInv, TypeOK
<1>1. refund[r] # "none" => PaidInv(ses[r])
  BY DEF Earlier, IInv, RequestInv, ControlInv, FailedPCs
<1>2. CASE RefundWallet(r)
  <2>1. ses[r].source = "wallet" /\ UpdateUserQuota(r, -ses[r].consumed) /\ ses' = ses
        /\ PaidInv(ses[r])
    BY <1>1, <1>2, NoFaultHere DEF RefundWallet
  <2>2. AdjustFunding(r, -ses[r].consumed)
    BY <2>1 DEF AdjustFunding
  <2>3. -ses[r].consumed \in Int
    BY <1>0 DEF Session
  <2> QED BY <2>1, <2>2, <2>3, SameFunding, FundingSpent
<1>3. CASE RefundSubscription(r)
  <2>1. ses[r].source = "subscription" /\ PaidInv(ses[r]) /\ ses' = ses
    BY <1>1, <1>3, NoFaultHere DEF RefundSubscription
  <2>2. \/ NoCharge
        \/ PostConsumeUserSubscriptionDelta(r, ses[r].subscriptionId, -ses[r].subPreConsumed)
    BY <1>3, NoFaultHere DEF RefundSubscription
  <2>3. NoCharge \/ AdjustFunding(r, -ses[r].subPreConsumed)
    BY <2>1, <2>2 DEF AdjustFunding
  <2>4. -ses[r].subPreConsumed \in Int
    BY <1>0 DEF Session
  <2> QED BY <2>1, <2>3, <2>4, SameFunding, FundingSpent, QuietSpent
<1>4. CASE MarkRefunded(r)
  <2>1. UNCHANGED <<wallet, token, sub, charged, ses>>
    BY <1>4, NoFaultHere DEF MarkRefunded
  <2>2. Spends(r, 0, 0) /\ 0 \in Int
    BY <2>1, SameFunding, QuietSpends DEF Earlier
  <2> QED BY <2>2 DEF Spent
<1>5. CASE RefundToken(r)
  <2>1. UpdateTokenQuota(r, -TokenRefund(r)) /\ ses' = ses
    BY <1>5, NoFaultHere DEF RefundToken
  <2>2. -TokenRefund(r) \in Int
    BY <1>0 DEF TokenRefund, Session
  <2> QED BY <2>1, <2>2, SameFunding, TokenSpent
<1> QED BY <1>2, <1>3, <1>4, <1>5 DEF RefundStep

\* Without realtime sessions their steps do not happen.
LEMMA NoRealtime ==
    ASSUME Earlier, NEW r \in Requests
    PROVE  /\ ~(WssUsage(r) \/ WssClose(r) \/ WssFund(r) \/ WssToken(r))
           /\ ~(WssFailed(r) \/ WssSettle(r))
<1>1. req[r].kind # "realtime" /\ pc[r] \notin WssPCs
  BY CleanCharges DEF Earlier
<1> QED BY <1>1 DEF WssUsage, WssClose, WssFund, WssToken, WssFailed, WssSettle, WssPCs

LEMMA RequestSpent ==
    ASSUME Earlier, Later, NEW r \in Requests,
           PreConsumeBilling(r) \/ Prepare(r) \/ Answer(r) \/ Finish(r) \/ RefundStep(r)
    PROVE  Spent(r)
<1>1. CASE PreConsumeBilling(r) \/ Prepare(r)
  BY <1>1, ChooseFundingSpent, TokenStepsSpent, FundWalletSpent, FundSubscriptionSpent DEF Prepare
<1>2. CASE Answer(r)
  BY <1>2, NoRealtime, AnswerSpent DEF Answer
<1>3. CASE Finish(r)
  BY <1>3, NoRealtime, SettleSpent, FeeSpent DEF Finish
<1> QED BY <1>1, <1>2, <1>3, RefundSpent

-----------------------------------------------------------------------------
(* The kinds of requests.                                                  *)

LEMMA KindKept ==
    ASSUME IInv, KindInv, NEW r \in Requests, NEW q, req' = [req EXCEPT ![r] = q],
           q.kind \in Kinds \cup {"sync"}
    PROVE  KindInv'
  BY DEF IInv, TypeOK, KindInv

LEMMA NextKind ==
    ASSUME IInv, KindInv, [Next]_vars
    PROVE  KindInv'
<1>1. CASE req' = req
  BY <1>1 DEF KindInv
<1>2. ASSUME NEW r \in Requests, PreConsumeBilling(r)
      PROVE  KindInv'
  <2>1. PICK pref \in Preferences, kind \in Kinds, play \in Playgrounds, pre \in PreQuotas :
            /\ req' = [req EXCEPT ![r] = [NoRelayInfo EXCEPT !.pref = pref, !.kind = kind,
                          !.playground = play, !.pre = pre, !.tokenQuota = token]]
            /\ Goto(r, CASE pref = "subscription_first" -> "hasSub"
                         [] pref = "subscription_only" -> "subscription"
                         [] OTHER -> "checkWallet")
    BY <1>2 DEF PreConsumeBilling
  <2> DEFINE q == [NoRelayInfo EXCEPT !.pref = pref, !.kind = kind, !.playground = play,
                                      !.pre = pre, !.tokenQuota = token]
  <2>2. q.kind = kind
    BY DEF NoRelayInfo
  <2> HIDE DEF q
  <2> QED BY <2>1, <2>2, KindKept DEF q
<1>3. ASSUME NEW r \in Requests, Prepare(r) \/ RefundStep(r)
      PROVE  req' = req
  BY <1>3 DEF Prepare, StartSubscription, HasActiveUserSubscription, CheckWallet, ReadToken,
     TakeToken, FundWallet, FundSubscription, TokenBack, AllowOverflow, RefundStep, RefundWallet,
     RefundSubscription, MarkRefunded, RefundToken
<1>4. ASSUME NEW r \in Requests, Answer(r) \/ Finish(r)
      PROVE  KindInv'
  <2>0. req[r] \in RelayInfo /\ req[r].kind \in Kinds \cup {"sync"}
    BY DEF IInv, TypeOK, KindInv
  <2>1. \/ req' = req
        \/ \E q : req' = [req EXCEPT ![r] = q] /\ q.kind = req[r].kind
    <3>1. /\ \A n, b : [req[r] EXCEPT !.actual = n, !.broken = b].kind = req[r].kind
          /\ [req[r] EXCEPT !.fee = TRUE].kind = req[r].kind
          /\ \A n, phase : Reported(r, n, phase).kind = req[r].kind
      BY <2>0 DEF RelayInfo, Reported
    <3>2. CASE Answer(r)
      <4>1. CASE SettleBilling(r)
        <5>1. PICK n, b : Settle(r, [req[r] EXCEPT !.actual = n, !.broken = b])
          BY <4>1 DEF SettleBilling
        <5>2. req' = [req EXCEPT ![r] = [req[r] EXCEPT !.actual = n, !.broken = b]]
          BY <5>1 DEF Settle
        <5> QED BY <3>1, <5>2
      <4>2. CASE WssUsage(r)
        <5>1. PICK n : Report(r, Reported(r, n, "open"))
          BY <4>2 DEF WssUsage
        <5>2. req' = [req EXCEPT ![r] = Reported(r, n, "open")]
          BY <5>1 DEF Report
        <5> QED BY <3>1, <5>2
      <4>3. CASE UpstreamFails(r) \/ WssClose(r)
        BY <4>3 DEF UpstreamFails, WssClose
      <4> QED BY <3>2, <4>1, <4>2, <4>3 DEF Answer
    <3>3. CASE Finish(r)
      <4>1. CASE SettleFund(r) \/ SettleToken(r) \/ FeeToken(r)
        BY <4>1 DEF SettleFund, SettleToken, FeeToken
      <4>2. CASE FeeFund(r)
        <5>1. req' = req \/ req' = [req EXCEPT ![r] = [req[r] EXCEPT !.fee = TRUE]]
          BY <4>2 DEF FeeFund
        <5> QED BY <3>1, <5>1
      <4>3. WssDone(r) => req' = req \/ req' = [req EXCEPT ![r] = req[r]]
        BY DEF WssDone, Settle
      <4>4. CASE WssFund(r) \/ WssToken(r)
        BY <4>3, <4>4 DEF WssFund, WssToken
      <4>5. CASE WssFailed(r)
        BY <3>1, <4>3, <4>5 DEF WssFailed, Report
      <4>6. CASE WssSettle(r)
        BY <3>1, <4>6 DEF WssSettle, Report, Settle
      <4> QED BY <3>3, <4>1, <4>2, <4>4, <4>5, <4>6 DEF Finish
    <3> QED BY <1>4, <3>2, <3>3
  <2> QED BY <1>1, <2>0, <2>1, KindKept
<1>5. ASSUME NEW i \in Subs,
             PeriodElapses(i) \/ ResetDueSubscriptions(i) \/ ExpireDueSubscriptions(i)
      PROVE  req' = req
  BY <1>5 DEF PeriodElapses, ResetDueSubscriptions, ExpireDueSubscriptions
<1>6. UNCHANGED vars => req' = req
  BY DEF vars
<1> QED BY <1>1, <1>2, <1>3, <1>4, <1>5, <1>6 DEF Next

-----------------------------------------------------------------------------
(* The theorem.                                                            *)

LEMMA InitBooks == ASSUME Accountable, Init PROVE BooksInv
<1>1. IsFiniteSet(Requests) /\ IsFiniteSet(Subs)
  BY BillingAssumption, FS_Interval DEF Accountable, Subs
<1>2. ASSUME NEW S, IsFiniteSet(S), NEW f \in [S -> Int], \A x \in S : f[x] = 0
      PROVE  Total(f, S) = 0
  <2>1. Total(f, S) = Total(f, {})
    BY <1>2, TotalOver
  <2> QED BY <2>1, TotalNone
<1>3. /\ \A r \in Requests : charged[r].fund = 0 /\ charged[r].token = 0 /\ req[r] = NoRelayInfo
      /\ \A i \in Subs : sub[i].used = 0 /\ ~sub[i].due
      /\ wallet = Wallet0 /\ token = Token0
  BY DEF Init
<1>4. KindInv
  BY <1>3 DEF KindInv, NoRelayInfo
<1>5. ASSUME NEW source PROVE Total(Taken(source), Requests) = 0
  <2>1. Taken(source) \in [Requests -> Int] /\ \A r \in Requests : Taken(source)[r] = 0
    BY <1>3 DEF Taken
  <2> QED BY <1>1, <1>2, <2>1
<1>6. ASSUME NEW i \in Subs PROVE Total(TakenFrom(i), Requests) = 0
  <2>1. TakenFrom(i) \in [Requests -> Int] /\ \A r \in Requests : TakenFrom(i)[r] = 0
    BY <1>3 DEF TakenFrom
  <2> QED BY <1>1, <1>2, <2>1
<1>7. Total(TakenTokens, Requests) = 0
  <2>1. TakenTokens \in [Requests -> Int] /\ \A r \in Requests : TakenTokens[r] = 0
    BY <1>3 DEF TakenTokens
  <2> QED BY <1>1, <1>2, <2>1
<1>8. Total(Used, Subs) = 0
  <2>1. Used \in [Subs -> Int] /\ \A i \in Subs : Used[i] = 0
    BY <1>3 DEF Used
  <2> QED BY <1>1, <1>2, <2>1
<1>9. Wallet0 = Wallet0 - 0 /\ Token0 = Token0 - 0
  BY BillingAssumption
<1>10. LedgerInv
  BY <1>3, <1>5, <1>6, <1>7, <1>8, <1>9 DEF LedgerInv
<1> QED BY <1>4, <1>10 DEF BooksInv

\* A failing statement or an elapsed period is not forgotten.
LEMMA CleanBefore ==
    ASSUME IInv, [Next]_vars, Clean'
    PROVE  Clean
<1>1. faulty' = faulty \/ \E r \in Requests : faulty' = faulty \cup {r}
  <2>1. ASSUME NEW r \in Requests, NoFault \/ Fault(r)
        PROVE  faulty' = faulty \/ faulty' = faulty \cup {r}
    BY <2>1 DEF NoFault, Fault
  <2>2. ASSUME NEW r \in Requests, PreConsumeBilling(r) \/ Prepare(r) \/ Answer(r)
        PROVE  NoFault \/ Fault(r)
    BY <2>2 DEF PreConsumeBilling, Prepare, StartSubscription, HasActiveUserSubscription,
       CheckWallet, ReadToken, TakeToken, FundWallet, FundSubscription, TokenBack, AllowOverflow,
       Answer, SettleBilling, UpstreamFails, WssUsage, WssClose, Report
  <2>3. ASSUME NEW r \in Requests, Finish(r) \/ RefundStep(r)
        PROVE  NoFault \/ Fault(r)
    BY <2>3 DEF Finish, SettleFund, SettleToken, WssFund, WssToken, WssFailed, WssSettle, Report,
       FeeFund, FeeToken, RefundStep, RefundWallet, RefundSubscription, MarkRefunded, RefundToken
  <2>4. ASSUME NEW i \in Subs,
               PeriodElapses(i) \/ ResetDueSubscriptions(i) \/ ExpireDueSubscriptions(i)
        PROVE  faulty' = faulty
    BY <2>4 DEF PeriodElapses, ResetDueSubscriptions, ExpireDueSubscriptions, NoFault
  <2>5. UNCHANGED vars => faulty' = faulty
    BY DEF vars
  <2> QED BY <2>1, <2>2, <2>3, <2>4, <2>5 DEF Next
<1>2. resets' = resets \/ resets' = resets + 1
  <2>1. ASSUME NEW r \in Requests, PreConsumeBilling(r) \/ Prepare(r) \/ Answer(r)
        PROVE  resets' = resets
    BY <2>1 DEF PreConsumeBilling, Prepare, StartSubscription, HasActiveUserSubscription,
       CheckWallet, ReadToken, TakeToken, FundWallet, FundSubscription, TokenBack, AllowOverflow,
       Answer, SettleBilling, UpstreamFails, WssUsage, WssClose, Report
  <2>2. ASSUME NEW r \in Requests, Finish(r) \/ RefundStep(r)
        PROVE  resets' = resets
    BY <2>2 DEF Finish, SettleFund, SettleToken, WssFund, WssToken, WssFailed, WssSettle, Report,
       FeeFund, FeeToken, RefundStep, RefundWallet, RefundSubscription, MarkRefunded, RefundToken
  <2>3. ASSUME NEW i \in Subs,
               PeriodElapses(i) \/ ResetDueSubscriptions(i) \/ ExpireDueSubscriptions(i)
        PROVE  resets' = resets \/ resets' = resets + 1
    BY <2>3 DEF PeriodElapses, ResetDueSubscriptions, ExpireDueSubscriptions
  <2>4. UNCHANGED vars => resets' = resets
    BY DEF vars
  <2> QED BY <2>1, <2>2, <2>3, <2>4 DEF Next
<1>3. faulty' = {} /\ resets' = 0 /\ resets \in Nat
  BY DEF Clean, IInv, TypeOK
<1> QED BY <1>1, <1>2, <1>3 DEF Clean

LEMMA NextBooks ==
    ASSUME Accountable, IInv, EInv, BooksInv, [Next]_vars, IInv', EInv'
    PROVE  BooksInv'
<1>1. KindInv'
  BY NextKind DEF BooksInv
<1>2. ASSUME Clean' PROVE LedgerInv'
  <2>1. Earlier /\ Later /\ resets = 0
    BY <1>1, <1>2, CleanBefore DEF Earlier, Later, BooksInv, Clean, IInv
  <2>2. TypeOK /\ TypeOK' /\ LedgerInv
    BY <2>1 DEF Earlier, Later, IInv
  <2>3. ASSUME NEW r \in Requests,
               PreConsumeBilling(r) \/ Prepare(r) \/ Answer(r) \/ Finish(r) \/ RefundStep(r)
        PROVE  LedgerInv'
    <3>1. PICK df \in Int, dt \in Int : Spends(r, df, dt)
      BY <2>1, <2>3, RequestSpent DEF Spent
    <3> QED BY <2>2, <3>1, SpendingIsBooked
  <2>4. ASSUME UNCHANGED <<wallet, token, charged, ses>>,
               \A i \in Subs : sub'[i].used = sub[i].used /\ ~sub'[i].due
        PROVE  LedgerInv'
    <3>1. /\ \A source : Taken(source)' = Taken(source)
          /\ \A i : TakenFrom(i)' = TakenFrom(i)
          /\ TakenTokens' = TakenTokens /\ Used' = Used
      BY <2>4 DEF Taken, TakenFrom, TakenTokens, Used
    <3> QED BY <2>2, <2>4, <3>1 DEF LedgerInv
  <2>5. CASE UNCHANGED vars
    BY <2>2, <2>4, <2>5 DEF vars, LedgerInv
  <2>6. ASSUME NEW i \in Subs, ExpireDueSubscriptions(i)
        PROVE  LedgerInv'
    <3>1. \A j \in Subs : sub[j] \in UserSubscription /\ ~sub[j].due
      BY <2>2 DEF TypeOK, LedgerInv
    <3>2. [sub[i] EXCEPT !.active = FALSE].used = sub[i].used
          /\ ~[sub[i] EXCEPT !.active = FALSE].due
      BY <3>1 DEF UserSubscription
    <3>3. sub' = [sub EXCEPT ![i] = [sub[i] EXCEPT !.active = FALSE]]
          /\ UNCHANGED <<wallet, token, charged, ses>>
      BY <2>6 DEF ExpireDueSubscriptions
    <3>4. \A j \in Subs : sub'[j].used = sub[j].used /\ ~sub'[j].due
      BY <2>2, <3>1, <3>2, <3>3 DEF TypeOK
    <3> QED BY <2>4, <3>3, <3>4
  <2>7. ASSUME NEW i \in Subs PROVE ~PeriodElapses(i) /\ ~ResetDueSubscriptions(i)
    <3>1. ~PeriodElapses(i)
      BY <1>2, <2>1 DEF Clean, PeriodElapses
    <3>2. ~ResetDueSubscriptions(i)
      BY <2>2 DEF LedgerInv, ResetDueSubscriptions
    <3> QED BY <3>1, <3>2
  <2> QED BY <2>3, <2>5, <2>6, <2>7 DEF Next
<1> QED BY <1>1, <1>2 DEF BooksInv

\* At the end each request has taken what it owes, so the sums of the invariant are the debts.
LEMMA BooksAreDebts ==
    ASSUME Accountable, IInv, EInv, BooksInv
    PROVE  BooksBalance
<1> SUFFICES ASSUME \A r \in Requests : pc[r] = "idle" \/ Closed(r), Clean
             PROVE  /\ wallet = Wallet0 - Total(Debts, Debtors("wallet"))
                    /\ Total([i \in Subs |-> sub[i].used], Subs)
                       = Total(Debts, Debtors("subscription"))
                    /\ token = Token0 - Total(Debts, {r \in Requests : pc[r] \in EndPCs
                                                                       /\ ~req[r].playground})
  BY DEF BooksBalance, Clean
<1> DEFINE Payers == {r \in Requests : pc[r] \in EndPCs /\ ~req[r].playground}
<1>1. LedgerInv /\ IsFiniteSet(Requests) /\ TypeOK /\ faulty = {} /\ KindInv
  BY DEF BooksInv, Accountable, IInv, Clean
<1>2. ASSUME NEW r \in Requests
      PROVE  /\ pc[r] = "idle" => charged[r].fund = 0 /\ charged[r].token = 0
             /\ pc[r] \in EndPCs => /\ charged[r].fund = Owed(r)
                                    /\ charged[r].token = IF req[r].playground THEN 0 ELSE Owed(r)
             /\ pc[r] = "idle" \/ pc[r] \in EndPCs
             /\ pc[r] = "idle" => pc[r] \notin EndPCs
  <2>1. /\ req[r].kind # "realtime"
        /\ pc[r] \in BeforePCs => charged[r].fund = 0
        /\ charged[r].token = ExactToken(pc[r], refund[r], req[r], ses[r])
    BY <1>1, CleanCharges
  <2>2. pc[r] = "idle" => pc[r] \in FreePCs /\ pc[r] \in BeforePCs /\ pc[r] \notin EndPCs
    BY DEF FreePCs, BeforePCs, PreparePCs, EndPCs
  <2>3. pc[r] = "idle" => charged[r].fund = 0 /\ charged[r].token = 0
    BY <2>1, <2>2, BeforeIs
  <2>4. pc[r] \in EndPCs =>
            charged[r] = [fund |-> Owed(r), token |-> IF req[r].playground THEN 0 ELSE Owed(r)]
    BY <1>1, <2>1, <2>2, ClosedOwes DEF ExactCharge
  <2> QED BY <2>2, <2>3, <2>4 DEF Closed
<1>3. ASSUME NEW f \in [Requests -> Int], NEW K \in SUBSET Requests,
             \A r \in K : f[r] = Owed(r), \A r \in Requests \ K : f[r] = 0
      PROVE  Total(f, Requests) = Total(Debts, K)
  <2>1. Total(f, Requests) = Total(f, K)
    BY <1>1, <1>3, TotalOver
  <2>2. IsFiniteSet(K) /\ \A r \in K : f[r] = Debts[r]
    BY <1>1, <1>3, FS_Subset DEF Debts
  <2>3. Total(f, K) = Total(Debts, K)
    BY <2>2, TotalSame
  <2> QED BY <2>1, <2>3
<1>4. ASSUME NEW source PROVE Total(Taken(source), Requests) = Total(Debts, Debtors(source))
  <2>1. Taken(source) \in [Requests -> Int] /\ Debtors(source) \in SUBSET Requests
    BY <1>1, TakenTypes DEF Debtors
  <2>2. /\ \A r \in Debtors(source) : Taken(source)[r] = Owed(r)
        /\ \A r \in Requests \ Debtors(source) : Taken(source)[r] = 0
    BY <1>2 DEF Taken, Debtors
  <2> QED BY <1>3, <2>1, <2>2
<1>5. Total(TakenTokens, Requests) = Total(Debts, Payers)
  <2>1. TakenTokens \in [Requests -> Int] /\ Payers \in SUBSET Requests
    BY <1>1, TakenTypes
  <2>2. /\ \A r \in Payers : TakenTokens[r] = Owed(r)
        /\ \A r \in Requests \ Payers : TakenTokens[r] = 0
    BY <1>2 DEF TakenTokens
  <2> QED BY <1>3, <2>1, <2>2
<1> QED BY <1>1, <1>4, <1>5 DEF LedgerInv, Used

\* When all requests, in any finite number, have ended without a database error and no subscription
\* was reset, the wallet, the subscription rows and the token are short of exactly the sums of what
\* the requests owe: no update of a concurrent request is lost, booked twice or clamped.
THEOREM BooksBalanceHolds ==
    ASSUME IsFiniteSet(Requests), "realtime" \notin Kinds
    PROVE  Spec => []BooksBalance
<1>1. Accountable
  BY DEF Accountable
<1>2. Init => IInv /\ EInv /\ BooksInv
  BY <1>1, InitInv, InitExact, InitBooks
<1>3. IInv /\ EInv /\ BooksInv /\ [Next]_vars => IInv' /\ EInv' /\ BooksInv'
  BY <1>1, NextInv, NextExact, NextBooks
<1>4. IInv /\ EInv /\ BooksInv => BooksBalance
  BY <1>1, BooksAreDebts
<1> QED BY <1>2, <1>3, <1>4, PTL DEF Spec
=============================================================================
