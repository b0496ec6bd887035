# A TLA+ verification of the gateway's shared state

The repository is a gateway in front of many LLM providers (Go, with a web
frontend in TypeScript): it authenticates users and API tokens, picks a channel for a
request, relays it, and charges the user for it. Several nodes share one SQL database and,
optionally, one Redis; each node runs many goroutines; a browser has several tabs that
share one cookie. What is hard to get right, and hard to test, is what these do to shared
state between two statements, requests or events, and what is left behind when one of them
fails, comes late or is lost. The modules here model those parts: background tasks, billing,
asynchronous tasks and login sessions at the grain of one SQL statement, transaction or Redis
call per step; the tabs of a browser and the chat of the playground at the grain of one event
handler per step.

1. [The system](#the-system): the inventory of its parts
2. [The modules](#the-modules): how state and actions correspond to the code
3. [The runs](#the-runs): what is checked, bounds, fairness, results
4. [Disagreements between code and documentation](#disagreements-between-code-and-documentation)
5. [The proofs](#the-proofs)
6. [What is not modelled](#what-is-not-modelled)
7. [The plan](#the-plan)

`PROJECT.json` has the machine-readable side: every definition with the lines it
models, every run, a mutant for every property, the hazards and where they bite.

## The system

| Part (main sources) | State | Operations | Talks to |
|---|---|---|---|
| **System tasks** `model/system_task.go`, `service/system_task.go` | tables `system_tasks`, `system_task_locks`; handler and heartbeat goroutines of each node | enqueue, schedule, claim, renew, report, finish, expire stale leases | runs the polling pass of the asynchronous tasks, channel tests, log cleanup |
| **Billing** `service/billing_session.go`, `funding_source.go`, `quota.go`; `model/user.go`, `token.go`, `subscription.go` | wallet, token and subscription quota, pre-consume records, one session per request | pre-consume, settle, refund, violation fee, realtime usage reports, subscription reset and expiry | called by the relay around every upstream call |
| **Asynchronous tasks** `model/task.go`, `service/task_polling.go`, `task_billing.go`, `relay/relay_task.go` | table `tasks` (status, quota), the poller's copy of a row | submit, poll, timeout sweep, refund, re-settlement, client fetch | polled by a system task; submitted through a billing session |
| **User sessions** `model/user_session.go`, `user_auth_cache.go`, `service/auth_session.go` | session rows, Redis cache entries and deny fences | validate, rotate the refresh token, revoke, log out, advance across a security change | every authenticated request; the browser tabs |
| **Browser authentication** `web/src/lib/auth-session.ts`, `auth-session-sync.ts`, `http-client.ts`, `stores/auth-store.ts` | the session in each tab's store, the refresh in flight, the cookie, the browser's lock, the event channel | log in, refresh, call the API, rotate in the background, sign out, reload | refresh and logout endpoints of `controller/auth_session.go` |
| **Playground chat** `web/src/features/playground/` | the conversation and React's queue of updates, the chunk buffer and its timer, requests and streams, the copy in `localStorage` | send, regenerate, edit, delete, clear, stop, stream, save, navigate, reload | the relay, as a client |
| Account pool `service/account_pool_*.go`, `model/account_pool*.go` | accounts, Redis leases, per-process counters, runtime blocks, worker leases | pick an account, acquire and release a lease, block, refresh a token | relay, background workers |
| Relay failover `controller/relay.go`, `service/channel_select.go`, `channel_retry.go`, `model/channel_cache.go` | the attempted channels of a request, the channel cache | select, attempt, fail over | billing session, account pool, affinity |
| Batch updater and quota caches `model/utils.go`, `user_cache.go`, `token_cache.go` | in-memory deltas, Redis copies of quotas | record, flush, invalidate | billing |
| Top-up, redemption, check-in, subscription orders `model/topup.go`, `redemption.go`, `checkin.go`, `subscription.go` | order rows, codes, check-in rows, wallet | create, complete by callback, redeem | payment providers |
| Midjourney tasks `controller/midjourney.go`, `model/midjourney.go` | table `midjourneys` | submit, poll, refund | as the asynchronous tasks |
| Rate limits, token concurrency, channel affinity | Redis or in-memory windows, counters and caches | check, count, prefer | relay |
| Upstream sources, auto priority, options, OAuth, instance registry, logs, metrics, `billingexpr`, `cachex`, adaptors, the frontend's other pages | configuration, records, conversions | | |

What is hard in them, and what makes them correct:

* *System tasks.* Nodes race for creation, claim and expiry; a node can stall between
  its clock read and its statement for longer than its lease, crash, or run on a skewed
  clock. Correct means: one active task per type; each task is executed at most once; a
  finished task keeps its outcome; a runner that lost its lease never gets back in; and
  every task ends although its node is gone.
* *Billing.* A request touches three stores in separate statements, other requests of
  the same user interleave, any statement may fail, and the refund runs in a goroutine of
  its own with retries. Correct means: a request ends having paid exactly what it owes, the
  stores together are short of exactly what was charged, no failure pays money out, and
  limited subscriptions stay within their total.
* *Asynchronous tasks.* Overlapping polling passes, the timeout sweep and the client's own
  fetch work on stale copies of the same row, and the winner of a compare-and-set pays money
  back afterwards. Correct means: refunded at most once, refunded when failed, the row's
  quota is the truth about the money, outcomes are final, every task ends.
* *User sessions.* Requests of all nodes fill one Redis entry from rows they read earlier; Redis
  calls fail or come late; a revocation is a fence, a transaction and a tombstone. Correct means:
  a version of a session is not accepted longer than the cache's lifetime after it ended, and a
  revocation in which nothing fails is immediate.
* *Browser authentication.* Tabs refresh one rotating cookie at the same time, replies are lost, an
  answer comes after the user signed in again. Correct means: a page moves from one session
  to another only by a sign-in of its own or through the signed-out state, the tabs do not make the server believe their token was stolen, and tabs
  that disagree come together again.
* *Playground.* React applies updates later, buttons act on what was rendered last, and a stopped
  request still answers. Correct means: no answer stays pending for ever, answers show what was sent
  for them, and no request goes on, and costs, that the page does not show.
* *Account pool.* The limit of an account must hold although leases expire, Redis fails over
  to local counters, and nodes crash.
* *Failover.* The loop must end, must not attempt a channel twice, and must not start
  another attempt after part of a response was sent.

## The modules

| Module | Models | Extends |
|---|---|---|
| `SystemTask` | system tasks: both tables, runner loop, scheduler, handlers, heartbeats | |
| `SystemTaskProofs` | its theorems | `SystemTask` |
| `MCSystemTask` | clock skew and symmetry for TLC | `SystemTask` |
| `BillingSession` | billing of relay requests of one user and one token | |
| `BillingSessionProofs` | its theorems | `BillingSession` |
| `BillingExactProofs` | the theorems about exact charges and about the books | `BillingSessionProofs` |
| `MCBillingSession` | subscriptions and symmetry for TLC | `BillingSession` |
| `AsyncTask` | the life of asynchronous task rows and their money | |
| `AsyncTaskProofs` | its theorems | `AsyncTask` |
| `MCAsyncTask` | symmetry for TLC | `AsyncTask` |
| `SessionAuthority` | abstract: what the session store promises about one session | |
| `UserSession` | one login session: its row, its Redis entry, the requests on it; implements `SessionAuthority` | |
| `UserSessionProofs` | the refinement, and that a revoked session is denied | `UserSession` |
| `MCUserSession` | symmetry for TLC | `UserSession` |
| `AuthTabs` | the tabs of one browser, composed with the refresh and logout endpoints | |
| `AuthTabsProofs` | its theorems | `AuthTabs` |
| `MCAuthTabs` | symmetry and the bounds on logins for TLC | `AuthTabs` |
| `Playground` | the chat of the playground | |
| `PlaygroundProofs` | its theorems about requests and the buffer | `Playground` |
| `PlaygroundTalkProofs` | its theorems about what the conversation shows | `PlaygroundProofs` |
| `MCPlayground` | the providers' formats and texts for TLC | `Playground` |

In the server's modules an action is one statement or transaction with the Go code up to the next
one, and a failing statement has no effect on the database but leads to the code's error
path; in the two modules of the frontend it is one event handler. Definitions named `X_Something` are mutated forms of `X`; no specification uses them.

### SystemTask

`tasks` and `locks` are the two tables. `pc` and `loc` are the loop of
`StartSystemTaskRunner` and its locals, in particular the timestamp `loc[r].now` that was
read before a statement: the clock may go on between the two. `handler` and `heartbeat` are
the goroutines a claim starts; `since` is the time of the dispatch.

`ClaimSystemTask` is split into its statements: `ClaimStart` (choose the row and take the
timestamps), `ClaimRead`, `ClaimInsert` (insert the lock row), `ClaimExisting` and
`ClaimSteal` (take over an expired lock), `ClaimMark` (fail the task of that lock), `ClaimRun`
(the compare-and-set to running), `ClaimRelease` and `Dispatch`.
`ExpireStaleSystemTaskLocks` is `ExpireRead`, `ExpireMark`, `ExpireDelete`; the scheduler is
`SchedulerRead` (the latest rows are read once) and `SchedulerCreate`.
`EnqueueSystemTask` merges its lookup and its insert, because the unique index on
`active_key`, and not the lookup, decides a race. `RenewSystemTaskLock`,
`UpdateSystemTaskState`, `FinishSystemTask` and `FinishRelease` are the statements of the
goroutines; `Stamps` gives the timestamps these may have read earlier. `StatementFails`,
`ScheduleFails`, `HandlerFails`, `RenewFails` and `Crash` are the failures. A process draws its
identity at start, so a restarted process is another member of `Runners`.

### BillingSession

`wallet`, `token`, `sub` and `record` are the columns `users.quota`, `tokens.remain_quota`,
the rows of `user_subscriptions` and the pre-consume records. `ses[r]` is the
`BillingSession` with its `FundingSource`, `req[r]` the `RelayInfo`, `pc[r]` the request's
goroutine and `refund[r]` its refund goroutine. `charged[r]` is a history variable, the net
amount the request took from its funding and from the token.

`PreConsumeBilling` to `AllowOverflow` are `NewBillingSession` with its four billing
preferences, the trust bypass (decided on the token quota read at authentication) and the
fallback between subscription and wallet; the token is charged before the funding and given
back when the funding fails. `SettleBilling`, `SettleFund`, `SettleToken` are `Settle`. It runs
for an answer, after which the request is served, and for a stream that broke after bytes were
sent to the client (`broken`): the handlers then settle the part that was sent and return the error
all the same, whatever became of the settlement (label `errored`).
`UpstreamFails` and the actions after it are the deferred function of `Relay` on an error, before any
settlement or after one: the refund
goroutine (`RefundWallet`, or `RefundSubscription` and `MarkRefunded` with the retries of
`refundWithRetry`, then `RefundToken`) and, concurrently, the violation fee. The `Wss` actions
are a realtime session: usage reports charged at once, a failed report repeated once on the
way out, then the settlement of the sum. `PeriodElapses`, `ResetDueSubscriptions` and
`ExpireDueSubscriptions` are the subscription's own life.

All requests belong to one user and one token: requests of different users share no row
that is modelled. `SaveMayFail` separates the one statement whose failure is the subject of
a finding, so that everything else can be checked with it working and with every other
statement failing.

### AsyncTask

`row[t]` has the columns that billing and the queries depend on: the status, where `NOT_START`
stands for the three statuses before a task is in progress; the quota; and of the progress
whether it is "100%", because sweep and pass read only rows with another one (`Unfinished`).
The progress usually fits the status, but a video provider's own value replaces it, also while
the task goes on (`ProgressAfter`, with `AnyProgress`). `work[p][t]` is
what poller `p` does with task `t` on its own copy of the row; several pollers are several
nodes or overlapping passes. `SweepRead` and `PollRead` copy a row, `PollAnswer` applies the
provider's answer to the copy, `UpdateWithStatus` is the compare-and-set that writes every
column, and its winner goes on to `RefundFund`, `RefundToken`, `RefundClear`
(`RefundTaskQuota`) or `AdjustFund`, `AdjustToken`, `AdjustWrite` (`RecalculateTaskQuota`).
`BulkFail` is the unconditional bulk update for tasks whose channel cannot be read or that
have no upstream id (`orphans` records them). `FetchRead` and
`FetchWrite` are the client's direct fetch of a Gemini or Vertex task. `funds` and `token` are
what the task is charged; `Submit` starts with the quota its billing session settled.

Kinds: `suno` (no re-settlement), `gemini` (with the client's fetch), `video` (the others) and
`legacy` (submitted before the refund cutoff, ended by the sweep without a refund). The
provider's outcome, once reached, does not change; `BadAnswers` adds error answers that the
code takes for a failure of the task. The update of a Suno task's submit time from the
provider's answer is taken not to move the task over the timeout's cutoff.

### UserSession, and what it implements

`row` is the row of `user_sessions`, `cache` the hash `auth:session:<sid>` with the time it expires,
`userVer` the user's `auth_version`, `proc[p]` the locals of request `p`. A refresh secret is derived
from the one before it, so a secret is its number in that chain: `row.gen` stands for `refresh_hash`,
its predecessor for `previous_refresh_hash`.

`Lookup` to `Confirm` are `GetUserSessionCached`: read Redis, read the row, write the entry with
the Lua script (`Script`, which refuses to replace a fence, a tombstone or a newer version), and check
again that the observation is within its deadline. `RotRead` and `Cas` are the rotation with its replay
window, `Candidate`, `ByHash`, `Fence`, `Commit`, `Final` the revocation (by id, in bulk, by the logout's
cookie, or after a reuse), `Bump`, `AdvRead`, `Advance` the security change. `faulty` chooses at the
start whether Redis calls, database reads and processes may fail (`ScriptFails`, `Abort`, the failing
branches of `Fence`, `Commit` and `Final`).

`SessionAuthority` knows no cache: a version is granted while the session is live at it, and for less
than `Lag` afterwards. `UserSession` implements it with `Lag <- TTL`; a request has been granted a
version when it is at `got`.

What is abstracted: the nodes and Redis have one clock; the user's own cache entry agrees with the
database; a Redis call that fails returns before the deadline of the request; without faults a
revocation gets from its fence to its tombstone within the TTL (the guard of `Tick`). The session exists
in `Init` (`CreateUserSession`), the three attempts of the rotation's loop are never used up by two
requests, rows are not cleaned up, and a bulk revocation is seen from one of its sessions.

### AuthTabs

`tab[t]` is the store of a tab, `rf[t]` its `refreshPromise` with the request in flight, `cookie` the
refresh cookie, `lock` the holder of `navigator.locks`, `inbox[t]` the broadcast events it has not
handled, `srv` the server's sessions. A token is a session and its age, 0 for the current one, 1 for the
previous one, 2 for older ones; every rotation makes the others older.

`Login`, `Navigate`, `FreshHeaders`, `ApiCall`, `Rotation` are what starts a refresh; `Acquire`,
`RunAgain`, `Serve`, `ServeRace`, `Receive` are its way through the lock, the server and back, with the
delays of a race and the one retry after a mismatch; `SignOut`, `SignOutAgain` the logout;
`Deliver` the listener of `routes/__root.tsx`. `Lose`, `SignOutLost`, `DropEvent`, `UserReload` and an answer
later than the grace window (`GraceEnds`) count as losses in `lost`. A reload that an event of another tab
triggers may abort a refresh too, and is no loss. `Login` is possible over a session that the page has: the
sign-in form is not shown then, but the OAuth callback pages apply their bundle to whatever the page
bootstrapped from the cookie.

What is abstracted: requests of `Login` and `Logout` are one step with their reply; a tab has one request
that waits for a refresh, and repeats it when the refresh ends; "checking" is read like "idle";
events are a set; de-duplication of GET requests, messages to the user and the check of the bundle's
version are left out.

### Playground

`base` is the conversation as rendered last and `queue` the updates React has not applied; `seen` and
`flags` are the same two views of "generating". `gen`, `pend`, `timer`, `abort` are the refs of
`use-chat-handler.ts`, `ctl` and `call` the stream controller and the requests, `open` the requests that
the server still works on. A letter of an answer carries its generation, so that foreign text can be
told apart; what a generation says is a constant, `Script`, in which letters may recur as they like, and a chunk
brings one or more letters.

That matters because `mergePendingStreamChunk` and `getAppendableChunk` decide by a prefix test whether a chunk is
a delta or a snapshot. A delta that starts with the text buffered since the last flush, at any place of an answer, or
buffered text that starts with all the text shown, is taken for a snapshot, and what it repeats is lost: two equal
deltas within 50 ms are enough. `TextIsSent` promises the exact text when the chunks are snapshots or nothing sent
so far repeats what is right before it (`Plain`), and letters of the answer's own generation in every case.

The handlers keep their names (`handleSendMessage`, `handleRegenerateMessage`, `saveEditAndSubmit`,
`stopGeneration`, ...). Since React 19 renders the updates of a click at its end, a click applies
everything queued; updates of timers and network events wait for `Render`, except those React may apply at
once when nothing waits. `Chunk`, `FlushTimer`, `Done`, `StreamError`, `CloseEarly`, `Response`,
`HeadersArrive`, `HeadersFail` are the network and the timer; `Save`, `Navigate`, `Reload` the storage.

Left out: the reasoning channel with its think tags, timings, messages to the user, the trimming of the
stored copy by size, and React's StrictMode.
Two further exceptions are part of the properties: `clobbered` (Save in the editor overwrites updates
that were not rendered) and a call in state `cut` (a stream that closes with status 200 and without
`[DONE]`, which the page waits for until the user stops it).

## The runs

Passing runs. All use the modules' own definitions; a cfg only gives constants values.

| Run | Checks | Instance | States |
|---|---|---|---|
| `system_task_safety` | `OneActivePerType`, `ExecutedOnce`, `TerminalIsFinal`, `LostLeaseStaysLost` | 2 runners, 2 rows of 1 type, unbounded claim stalls, scheduler, 1 fault, crashes | 1.2 M |
| `system_task_prompt` | `RunningIsLeased`, and `RunningEnds`, `PendingEnds` under `FairSpec` | 2 runners, 2 rows, a claim no longer than the lease, 1 fault, a crash | 93 k |
| `billing_safety` | `ExactCharge`, `BooksBalance`, `OnlyTheFeeFollows` | 2 synchronous or task requests, broken streams, all four preferences, no faults | 1.3 M |
| `billing_faults` | `NeverOverRefunded`, `SubscriptionWithinTotal` | 2 synchronous or realtime requests, subscription before wallet, broken streams, 2 subscriptions, 1 fault, 1 reset | 5.3 M |
| `billing_ends` | `RequestEnds` under `FairSpec` | 2 synchronous or realtime requests, broken streams, 1 fault | 0.5 M |
| `async_task_life` | `NeverRefundedTwice`, `QuotaIsTruth`, and `PolledFailureIsRefunded`, `TaskEnds` under `FairSpec` | 2 pollers, sweep, unreadable channels, error answers, any progress, 2 faults | 195 k |
| `async_task_fetch` | `NeverRefundedTwice`, `OutcomeIsFinal` | 2 pollers and the client's fetch, any progress, no timeout, no error answers, 2 faults | 237 k |
| `user_session` | `ImplementsAuthority`, `RevokedIsDenied` | 2 requests, TTL 2, session life 3, 2 versions, 1 rotation, with and without faults | 1.9 M |
| `auth_tabs` | `NoFalseReuse`, `NeverSwitches` | 2 tabs, with locks (2 logins) and without (1 login), 2 losses; deadlock is checked | 2.4 M |
| `auth_tabs_live` | `TabsSettle` under `FairSpec` | the same without losses | 303 k |
| `playground` | `NoStuckAnswer`, `TextIsSent`, `NoOrphanRequest`, `BufferHasTimer`, and `GenerationEnds` under `FairSpec` | 2 generations (one sends deltas, one snapshots), 2 letters, equal ones in the snapshots, 3 messages, 2 stored | 1.2 M |

What they show, in short. *System tasks*: whatever stalls, crashes and expires, a task is
executed at most once and keeps its outcome; as long as a claim is no slower than its lease,
every running task is covered by a lock that will expire, so that every task also ends.
*Billing*: without database errors each request pays exactly what it owes and the stores
balance, and a settlement is not undone by the error the handler returns after it; with an error
of the database quota may stay with the gateway but is never paid out, a
subscription never exceeds its total, and no request or refund goroutine hangs.
*Asynchronous tasks*: the compare-and-set on the status is enough to make
billing exclusive between pollers and sweep; the row's quota is always the amount charged;
a failed task is refunded; and every task ends, with the exceptions below. *User sessions*: the worst that stale fills, failed
writes and dying processes do is that a version lives on for the cache's lifetime; without them a
revocation takes effect at once. *Browser*: no interleaving of tabs, replies and logins moves a page to
another session that its user did not just sign in to, without signing it out first, and the lock with the server's grace window keeps honest tabs from looking like thieves,
as long as nothing is lost. *Playground*: stops, edits, late chunks and reloads leave every answer finished,
with its own text where the deltas do not repeat each other, and no request behind the user's back.

`TypeOK` of each module is checked in one of its runs.

**Bounds, and why they are enough.** Every bound is a named constant in a guard.
`MaxTasks = 2` rows of one type, because at most one is active: the interesting case is a
finished or expired task and its successor, whose lock row is the same. `MaxClock` covers a
lease, its expiry and a second claim after it. `ClaimStall` bounds how long a claim may last:
unbounded in the safety run, no longer than the lease in `system_task_prompt`, which needs it. `MaxFaults` counts failing statements and panics; one or two suffice to separate any two
statements of one operation, and the faulty step may be any statement. `Horizon` keeps
failures and renewals away from the end of the clock in the liveness runs, and `PendingEnds` excepts
a lease that outlives the clock. Two requests, with quotas around the wallet's, the token's
and the trust limit, meet in every pair of statements and run the wallet, the token and a
subscription dry; more of them add only further interleavings of the same pairs.
Tasks of `AsyncTask` interact only through a crash of their poller, so one task with two
pollers is the whole story; the fetch needs a third copy of the row and has its own run.
Two requests on a session are a fill and the revocation (or rotation, or advance) it races with;
`MaxClock` lets the entry of a fill and a fence both expire. Two tabs are enough for a race, and two
logins for a refresh that belongs to an earlier session; without locks one login keeps the
instance small, since logins do not depend on locks. Two generations are a current and a superseded
one; with `MaxStored` below `MaxMessages` the stored copy loses its beginning. Of two letters
the first can be shown, buffered or lost when the second comes. With `RepeatedScripts`, whose deltas are equal,
`TextIsSent` holds as well (1.2 M states without the liveness property); the theorem covers every script.

**Fairness, and what in the code justifies it.**

* `SystemTask!RunnerFairness`: the clock goes on; the loop of a live runner executes its next
  statement; and since every pass of the loop visits the lease expiry and the claim of each
  type, these two are taken again and again (strong fairness). `HandlerFairness` is the contract
  of `SystemTaskHandler`: a handler does not hang and finishes its task. Nothing is assumed of
  heartbeats.
* `BillingSession!Fairness`: goroutines run on, and every upstream call ends, by the timeouts of
  the HTTP clients and of the stream, or by the close of the websocket.
* `AsyncTask!Fairness`: time passes; the polling task is created again while a task is
  unfinished, and each of its passes sweeps first (strong fairness of `SweepRead`) and goes on to its
  end. No answer of a provider is assumed, which is why the timeout is needed for `TaskEnds`.
* `AuthTabs!Fairness`: replies arrive and events are delivered; a waiting tab gets the lock, whose queue
  is first-come first-served (strong fairness, because the lock is free only at times); access tokens
  expire; and a page in use makes API calls.
* `Playground!Fairness`: React renders, and some request that waits for the server or the network is
  answered or fails. Nothing is assumed of the user, who may never click.

`CHECK_DEADLOCK FALSE` is set where the system may come to rest: all requests or tasks have
ended, or the bound of the clock is reached.

## Disagreements between code and documentation

One of these is a run that is expected to be violated, with a finding in `PROJECT.json` that quotes the
comment. The others are configurations that reproduce a counterexample with
`tlc -config <cfg> <module>`.

| Configuration | Module and property | What the code does |
|---|---|---|
| `BillingRealtimeTwice.cfg` (run `billing_realtime_twice`) | `MCBillingSession`, `ExactRealtimeCharge` | Each usage report of a realtime session is charged, and the sum of all reports is settled again at the end. |
| `SystemTaskStuck.cfg` | `MCSystemTask`, `RunningEnds` | A claim that stalls longer than the lease between taking the lock and the compare-and-set makes a row running without a lock; expiry goes by locks, so the row is never failed and blocks its type. |
| `BillingRefundTwice.cfg` | `MCBillingSession`, `NeverOverRefunded` | The refund of a subscription commits in a transaction of its own; when the save of the record's status fails, the retry refunds again. |
| `AsyncTaskVanish.cfg` | `MCAsyncTask`, `FailedIsRefunded` | Tasks whose channel cannot be read are failed by a bulk update and never refunded. |
| `AsyncTaskFetchReopens.cfg` | `MCAsyncTask`, `NeverRefundedTwice` | A fetch that copied a timed-out row before its quota was cleared writes it back as unfinished; the next sweep refunds it again. |
| `AsyncTaskHidden.cfg` | `MCAsyncTask`, `EveryTaskEnds` | A task in progress whose provider answers "100%" is read by no later pass and by no timeout sweep: it never ends and is never refunded. |
| `UserSessionAdvance.cfg` | `MCUserSession`, `AdvanceKeepsSession` | `model/user_session.go:653` says that the advance "preserves one browser session across a user-level security-version change"; a refresh of that session between the change and the advance sees an old `auth_version` and revokes it (`service/auth_session.go:227`). |
| `PlaygroundRepeats.cfg` | `MCPlayground`, `TextIsWhole` | A delta that starts with the text buffered since the last flush is taken for a snapshot of it (`use-chat-handler.ts:59`): of two equal deltas the answer shows one when it is done. |

`SystemTaskStuck` is the complement of `system_task_prompt`, whose claims are no slower than their lease;
`AsyncTaskFetchReopens` is the complement of `async_task_fetch`. `PolledFailureIsRefunded` is what remains
true of `FailedIsRefunded`, `TaskEnds` (a task ends or is hidden for good) of `EveryTaskEnds`, and `TextIsSent` of `TextIsWhole`. Two more consequences are visible in the models and have no configuration of
their own: the scheduler reads the latest rows once, so a task that another node creates and finishes in
between is followed by another at once; and a client's fetch that sees a failure before the
next polling pass ends the row, after which nobody refunds it.

## The proofs

Every theorem holds for all values of the constants that its module's one named assumption allows
(the numeric ones are natural numbers, "none" values are none of the others), so for any number of nodes,
requests, tabs or tasks and any bound. Where a theorem needs more, the table says so.

| Module | Theorem | Property | Further assumption |
|---|---|---|---|
| `SystemTaskProofs` | `TypeCorrect`, `OneActivePerTypeHolds`, `TerminalIsFinalHolds`, `ExecutedOnceHolds`, `LostLeaseStaysLostHolds` | as named | |
| | `RunningStaysLeased` | `RunningIsLeased` | `PromptClaims`: a claim, with the difference of any two clocks, is no longer than the lease |
| `BillingSessionProofs` | `TypeCorrect`, `SubscriptionWithinTotalHolds`, `OnlyTheFeeFollowsHolds` | as named | |
| | `NeverOverRefundedHolds` | `NeverOverRefunded` | the save of a record's status does not fail |
| `BillingExactProofs` | `ExactChargeHolds` | `ExactCharge` | |
| | `BooksBalanceHolds` | `BooksBalance` | finitely many requests, none of kind realtime |
| `AsyncTaskProofs` | `TypeCorrect` | `TypeOK` | |
| | `NeverRefundedTwiceHolds`, `QuotaIsTruthHolds` | as named | no kind with a direct fetch |
| | `OutcomeIsFinalHolds` | `OutcomeIsFinal` | no timeout, error answer or lost channel |
| `UserSessionProofs` | `TypeCorrect` | `TypeOK` | |
| | `Refinement` | `ImplementsAuthority` | |
| | `RevokedStaysDenied` | `RevokedIsDenied` | |
| `AuthTabsProofs` | `TypeCorrect` | `TypeOK` | |
| | `SessionIsStable` | `NeverSwitches` | |
| | `NoSessionTakenForStolen` | `NoFalseReuse` | |
| `PlaygroundProofs` | `NoOrphanRequestHolds`, `BufferHasTimerHolds` | as named | |
| `PlaygroundTalkProofs` | `TypeCorrect`, `NoStuckAnswerHolds`, `TextIsSentHolds` | as named | |

With these theorems every invariant and every safety property over steps that a passing run checks is also
proved, under the assumptions of the table.
The constants of `Playground` allow two messages at least, in the page and in the storage, because the
conversation it starts with has two.

### System tasks

`SystemTaskProofs` proves, for every set of runners and types, every number of rows, every
clock skew, stall, lease and interval, and any number of faults. None of the properties is inductive
alone. The invariant

    IInv == TypeOK /\ KeyInv /\ OneActivePerType /\ UnclaimedInv
                   /\ HandlerInv /\ DispatchInv /\ ClaimInv

adds what ties the parts together. `KeyInv` says that a row holds its `active_key` exactly while it
is pending or running, so the unique index is a statement about active rows: a creation preserves
`OneActivePerType` because of it, and the statements that end a row must clear the key.
`UnclaimedInv` (a pending row has no `locked_by`) and `ClaimInv` (a claim in progress is about a row
that its runner does not own yet) make the compare-and-set of `ClaimRun` the one place where a row
gets its owner, and since it requires a pending row, it happens once per row.
`HandlerInv` (a handler runs on the node in `locked_by`) and `DispatchInv` (a claim that won has not
started its handler) then give `ExecutedOnce`. `LostLeaseStaysLost` needs `ClaimInv` once more: a claim
that inserts or takes over the lock of a type does so for a task its runner does not own, so it can
never be the lease of a running task of that runner. Lemmas about the statements on rows
(`RowCreated`, `RowEnded`, `RowMarked`, `RowTouched`, ...) are shared by the actions that execute them.

Note what these proofs do not need: neither the lock nor the clock enters the argument for
`ExecutedOnce`. The code comments credit the per-type lock with it; it is the
compare-and-set on the status that guarantees it.

`RunningStaysLeased` is about time, and has an invariant of its own, `LeaseInv`. A runner never remembers a
time to come, and while it claims it is at most `ClaimStall` behind its clock (`TimeInv`). So a claim
that took the lock holds it until its row runs (`HoldInv`): nobody else can have read a clock that is past
its end. A running row has the lock of its type (`RunInv`), and whoever is on the way to taking or deleting
that lock remembers a time at which the lease had not ended, nor any lease that the row's heartbeat may still
write (`FreshInv`). Four lemmas say what a step can do to a lock, a row, a runner and a heartbeat (`LockFate`,
`RowFate`, `RunnerFate`, `BeatFate`), so that each part is shown for four cases instead of for all actions.
The hypothesis cannot be weakened: with `ClaimStall = LockTTL + 1` and equal clocks TLC finds a running row
without a lock. What follows from such a row is in `SystemTaskStuck.cfg`.

### Billing

`IInv` adds to the types and to `SubscriptionWithinTotal` one invariant per request, `RequestInv`, over its
program counter, refund goroutine, session and charges. `ControlInv` says when each goroutine may run: a
refund only for a failed request and never for a settled session, the fee only after everything else, and from
the relaying on the session remembers one amount, taken from one source (`PaidInv`). `TokenInv` and `FundInv` say at each program
counter what was taken and not given back: while a request is relayed, and while its refund is due, at least the
pre-consumption. A step that gives back is then covered by what is there, and the violation fee, which runs
beside the refund, only adds. The requests interact in the proof through the subscription rows alone.
`FundInv` is what the retry breaks when the save of the record fails (`BillingRefundTwice.cfg`), so it is
conditional on `~SaveMayFail`, and so is `NeverOverRefundedHolds`; the other theorems are not. The actions share
five lemmas about phases (`PrepareMove`, `RelayedMove`, `ServedMove`, `FeeMove`, `RefundMove`), all of them
instances of `AnyStep`. That lemma also has the argument for `OnlyTheFeeFollows`: a step of a request that was
settled or refunded moves nothing or the fee (`FeeOnly`), because the labels it can be at are those of a failure,
its refund goroutine never started or has ended, and the fee is charged on the way to its own mark.

`ExactCharge` needs equations where `IInv` has bounds. `EInv` gives for each request the marks of its session
and record (`LifeInv`: none is set before the step that sets it, and a record is refunded only once the
goroutine has passed the funding), and for a request that met no failing statement what funding and token
are short of at each pair of program counters (`ExactFund`, `ExactToken`). The error that follows a
settlement shows why the marks are needed: `NeedsRefund` is false only because the session is settled
or because it pre-consumed nothing, and a session whose settlement was rejected is still refunded in full. The theorem excludes the request's own failures, which are in its statement, and
realtime sessions, which the code charges twice (`BillingRealtimeTwice.cfg`); other requests may fail at will.

`BooksBalance` adds up. `LedgerInv`, which holds while no statement has failed and no period has elapsed,
says that the wallet, the token and the subscription rows are short of the sums of what the requests
have taken from them, at every moment. Each action is an entry of these books (`Spends`): one request takes or
gives back some amount, from the funding its session names, and changes its funding only before it has
taken anything. The clamp of `amount_used` at zero is the reason for a sum per row: a refund is never
clamped, because the row is short of what all requests on it have taken, and by `EInv` none of them has
taken less than nothing. At the end each request has taken what it owes. `Total` is a fold over a finite set;
that it is a sum at all, with the facts needed of it (`TotalRemove`, `TotalChange`, `TotalOver`, ...), is proved by
an induction over finite sets that is stated for a set instead of a predicate (`SetInduction`), from the
well-foundedness of the numbers.

### Asynchronous tasks

The invariant `TaskInv(t)` says of each task: pollers that still read have an unfinished copy
(`ReadersInv`); at most one poller bills it, the row is then terminal, and the poller's program counter
says which of funding, token and row it has already adjusted (`BillersInv`, `BillingAt`); and the charges are
the row's quota when nobody bills (`MoneyInv`). The step that matters is `UpdateWithStatus`: a second poller
reaches billing only through a compare-and-set from an unfinished status, which a row with a biller no longer
has. The direct fetch breaks exactly this (`AsyncTaskFetchReopens.cfg`), so the theorems exclude it.
`OutcomeIsFinal` has an invariant of its own, `OutcomeInv`: every terminal status, in a row, a poller's copy or
a fetch's copy, is the one the provider reached, so that writing it again changes nothing.

### User sessions

`Refinement` shows that every step of `UserSession` is a step of `SessionAuthority` or leaves its variables
alone. The argument is about deadlines. A request fixes the deadline of what it reads *before* it reads, so a
snapshot of a version that has ended meanwhile carries a deadline within `TTL` of that end (`Bounded`); the
script and the entry it writes inherit the deadline, however late they run. `IInv == TypeOK /\ CacheInv /\ \A p
\in Procs : LocalInv(proc[p])` states this for the cache and for each request that holds a snapshot. The
fence is not needed for it: it is what makes a revocation immediate (`RevokedIsDenied`), the deadlines are what
bounds it when fences fail.

`RevokedStaysDenied` shows the former. Between its fence and its tombstone a request has left a deny state in the
cache that lives at least as long as the fence it wrote (`FencedAt`), and a fill does not overwrite a live deny
state of its version. Once the row is revoked (`Sealed`), a tombstone is still to come, or the deny state in
the cache lives until `LastFill`, the last moment at which a snapshot of the first version may be written, or
that moment has passed. The property, and hence the theorem, is about runs without faults and a session
whose version never changed: with two revocations, an advance and a rotation only the bound of `Refinement` remains.

### Browser authentication

`NeverSwitches` follows from `Coherent`: while a refresh is still the current one of its tab (`cur`), the
token it sent belongs to the session of the store, or one of the two has none; and a finished refresh
is not current. A login applies a session that did not exist before. Logins, sign-outs and events make the refresh in flight obsolete (`Superseded`), so its
answer is dropped; a mismatch empties the store before the retry takes over the cookie's session.

`NoFalseReuse` is about the order of tokens. Under the locks and without losses only the tab that holds the lock
has a token in flight; a token on its way to the server is as new as the cookie of the same active session; a
token in a reply is not the previous one; and while the cookie holds the previous token of an active session,
the grace window of that token is open. So whatever reaches the server is the current token, or the previous
one in time.

### Playground

`NoOrphanRequest` needs `CountersAgree` (the generation, the controller and the two refs move together) and
`OpenIsHeld` (a request that runs is held by the stream controller or the abort controller, so that the next
stop, replacement or unmount can reach it); `BufferHasTimer` needs in addition the types of the refs
(`ControlType`).

`NoStuckAnswer` and `TextIsSent` speak of the rendered conversation, but what a stop, a flush or a save works on
is the conversation after React has applied its queue of updates. The invariant `PageInv` is therefore
about five conversations at once (`Talks`): the rendered one, the latest the handlers know, the stored one,
the one to come (`Coming`: the queue applied), and the one to come if the generation is superseded before that
(`Halted`). In each, every answer shows a text of the page's own or letters that its request sent, which are
a prefix of them when they cannot be mistaken (`Begun`, `Sound`), and only the last message may wait (`Calm`). While the page is busy, the last message to come is the
current answer, whose text and the buffered text together are all that was sent (`Joined`, on the same
condition); when it is not,
nothing to come waits (`Settled`). A save in the editor that discards updates voids all of this
(`clobbered`), which is why the properties except it. What the queue and a deletion compute, for queues and
conversations of any length, is proved by induction over the numbers, stated for a set (`NumberInduction`).
The theorem holds for every `Script`. The condition is used in one lemma, `NextDiffers`: a text that starts with the
text right before it is a repetition. As chunks may be cut anywhere, a weaker condition would not do: sent as two chunks
after a flush, the two halves of a repetition become one (this direction is not proved).

### Only model-checked

Liveness (`RunningEnds`, `PendingEnds`, `RequestEnds`, `PolledFailureIsRefunded`, `TaskEnds`, `TabsSettle`,
`GenerationEnds`): fairness and `ENABLED` are out of the prover's reach. The mutants and the
configurations of the previous section are about instances by nature.

## What is not modelled

* The bodies of the system-task handlers (the log cleanup's loop, channel tests) and the JSON
  payloads, states and results of tasks.
* In billing: `Reserve` (no caller), the Redis caches of quotas and the batch updater (the model
  is the default, without them), a crash in the middle of a request, realtime
  sessions priced per call, the race between the reader goroutines of a realtime session at its
  close, the cleanup of old records, notifications.
* In asynchronous tasks: the parsing of providers' answers, the values of progress below 100%, listings.
* Prices and scores in floating point (`billingexpr`, auto priority): outside TLC's reach.
* In user sessions: the limits on active and recent sessions (counted and created in separate
  statements, so concurrent logins exceed them), the cleanup of rows, two-factor and passkey logins.
* In the frontend: every page but the playground and every form; they have no protocol of their own.
  A reload during a stream may lose the prompt and the answer, because the save is delayed; no
  property forbids it.
* Hazards without a property: a wallet that concurrent requests drive below zero (checked, then decremented
  unconditionally); a process that dies between pre-consumption and settlement; a task row whose insertion
  fails after the settlement; deltas of the batch updater that fail or are lost with their process; a
  check-in whose compensation is lost; a Midjourney refund lost after its compare-and-set.
* Adaptors, OAuth, options, logs, metrics: conversion, I/O or display.
* The other parts of the inventory, which the plan orders.

## The plan

Done: background tasks, billing and asynchronous tasks, whose failure costs money or stops the
gateway's work; login sessions on the server and in the browser; the playground, the frontend's
one page with a protocol of its own. Next, in this order:

1. `AccountPoolLease`: the Redis lease script with its expiry, the fall-back to per-process
   counters, crashes; the bound that really holds, as an invariant and a theorem.
   `WorkerLease`: take-over of an expired worker lease.
2. `RelayFailover`: the loop over the channels with the attempted set and the stop conditions;
   termination, no second attempt of a channel, nothing after a sent byte. Composed with
   `BillingSession`: one session for all attempts.
3. `Ledger`: an abstract account (charge, refund, settle as one step each), implemented by
   `BillingSession` with no faults, and by `AsyncTask` for what follows the submission.
4. The batch updater and the caches as an extension of `BillingSession`; the readers of a realtime
   session as two goroutines.
5. `TopUp`: payment callbacks that are repeated or race, redemption codes, check-in.
6. The refinement of 3 as a theorem, from `EInv` and `LedgerInv` of `BillingExactProofs`.
