-------------------------- MODULE MCBillingSession --------------------------
(* Instances of BillingSession for TLC.                                    *)
EXTENDS BillingSession, TLC

CONSTANTS r1, r2

AllPreferences == {"subscription_only", "wallet_only", "wallet_first", "subscription_first"}
SubscriptionPreferences == {"subscription_only"}

\* One subscription of three units that lets the wallet take over.
OneSub == [i \in 1..1 |-> 3]
Lenient == [i \in 1..1 |-> TRUE]

\* Two subscriptions, the second one strict.
TwoSubs == [i \in 1..2 |-> IF i = 1 THEN 2 ELSE 3]
SecondStrict == [i \in 1..2 |-> i = 1]

RequestSymmetry == Permutations(Requests)
=============================================================================
