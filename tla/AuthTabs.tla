------------------------------ MODULE AuthTabs ------------------------------
(***************************************************************************)
(* The login state of the web frontend in the tabs of one browser:         *)
(* web/src/lib/auth-session.ts, auth-session-sync.ts, http-client.ts,      *)
(* stores/auth-store.ts, the listeners of routes/__root.tsx and the        *)
(* sign-out of features/auth/api.ts, composed with the two endpoints of    *)
(* controller/auth_session.go.  The tabs share the refresh cookie, the     *)
(* browser's lock and a broadcast channel; each keeps its own session in   *)
(* memory and at most one refresh in flight.                               *)
(*                                                                         *)
(* A refresh token is a session and its age in the session's chain of      *)
(* secrets: 0 is the current one, 1 the previous one, 2 any older one; a   *)
(* rotation makes all other tokens of the session one older and the end of *)
(* the session makes all of them old.  authEpoch is *)
(* compared with the epoch at which a refresh began and used for nothing   *)
(* else: "cur" says that they are still equal.                             *)
(***************************************************************************)
EXTENDS Integers

CONSTANTS Tabs,         \* the tabs of the browser
          NoTab,        \* nobody holds the lock
          MaxLogins,    \* bound on the number of logins, in a browser with or without locks
          MaxRace,      \* the length of refreshRaceDelays
          MaxLosses     \* bound on the number of losses

ASSUME TabsAssumption ==
    /\ NoTab \notin Tabs
    /\ MaxLogins[TRUE] \in Nat /\ MaxLogins[FALSE] \in 0..MaxLogins[TRUE]
    /\ MaxRace \in Nat /\ MaxLosses \in Nat

VARIABLES srv,          \* the server's sessions
          cookie,       \* the refresh cookie
          lock,         \* the holder of navigator.locks 'new-api:auth-refresh'
          tab,          \* the store of each tab, and its requests that wait for a refresh
          rf,           \* refreshPromise of each tab
          locks,        \* does the browser have navigator.locks?
          inbox,        \* events of the channel that a tab has not handled
          lost          \* how many requests, replies, events or answers in time were lost

vars == <<srv, cookie, lock, tab, rf, inbox, locks, lost>>

Sids == 1..MaxLogins[TRUE]
NoSid == 0

Tokens == [sid: {NoSid} \cup Sids, age: 0..2]
NoToken == [sid |-> NoSid, age |-> 0]

\* A session of the server: not created, active, ended by a sign-out, or ended because an old
\* token was replayed.  grace: is the previous token still accepted?
Sessions == [st: {"unborn", "active", "ended", "reused"}, grace: BOOLEAN]

\* The store of a tab: its session, whether the access token is good, and bootstrapState ("checking"
\* is read like "idle").  wait: an API call that got a 401 or a sign-out waits for a refresh, or
\* the sign-out is to be sent again; one request waits at a time.
Stores == [sid: {NoSid} \cup Sids, fresh: BOOLEAN, boot: {"idle", "complete"},
           wait: {"none", "api", "out", "again"}]
NewPage == [sid |-> NoSid, fresh |-> FALSE, boot |-> "idle", wait |-> "none"]

Replies == {"none", "ok", "race", "mismatch", "unauth", "error", "bad"}
Refreshes == [pc: {"none", "queued", "sent", "replied", "wait"}, att: 0..MaxRace, retry: BOOLEAN,
              cur: BOOLEAN, mis: BOOLEAN, tok: Tokens, rep: Replies]
NoRefresh == [pc |-> "none", att |-> 0, retry |-> FALSE, cur |-> FALSE, mis |-> FALSE,
              tok |-> NoToken, rep |-> "none"]
NewRefresh == [NoRefresh EXCEPT !.pc = "queued", !.retry = TRUE, !.cur = TRUE]

Events == [kind: {"authenticated", "signed_out"}, sid: Sids]

TypeOK ==
    /\ srv \in [Sids -> Sessions]
    /\ cookie \in Tokens
    /\ lock \in Tabs \cup {NoTab}
    /\ tab \in [Tabs -> Stores]
    /\ rf \in [Tabs -> Refreshes]
    /\ inbox \in [Tabs -> SUBSET Events]
    /\ locks \in BOOLEAN
    /\ lost \in 0..MaxLosses

Init ==
    /\ srv = [s \in Sids |-> [st |-> "unborn", grace |-> FALSE]]
    /\ cookie = NoToken
    /\ lock = NoTab
    /\ tab = [t \in Tabs |-> NewPage]
    /\ rf = [t \in Tabs |-> NoRefresh]
    /\ inbox = [t \in Tabs |-> {}]
    /\ locks \in BOOLEAN
    /\ lost = 0

Fault == lost < MaxLosses /\ lost' = lost + 1

-----------------------------------------------------------------------------
(* The store and the epoch.                                                *)

Active(s) == s # NoSid /\ srv[s].st = "active"

\* setBundle and reset
Applied(tb, s) == [tb EXCEPT !.sid = s, !.fresh = TRUE, !.boot = "complete"]
Reset(tb, boot) == [tb EXCEPT !.sid = NoSid, !.fresh = FALSE, !.boot = boot]

\* Variant: the epoch does not move.
Superseded_Never(r) == r

\* authEpoch moves: a refresh in flight is superseded.
Superseded(r) == IF r.pc = "none" THEN r ELSE [r EXCEPT !.cur = FALSE, !.retry = FALSE, !.att = 0]

\* publishAuthSessionEvent: every other tab gets the event.
Publish(t, kind, s) ==
    [u \in Tabs |-> IF u # t /\ s # NoSid THEN inbox[u] \cup {[kind |-> kind, sid |-> s]} ELSE inbox[u]]

\* Variant: the lock of a page that is gone is not released.
Reload_HoldsLock(t) ==
    /\ tab' = [tab EXCEPT ![t] = NewPage]
    /\ rf' = [rf EXCEPT ![t] = NoRefresh]
    /\ inbox' = [inbox EXCEPT ![t] = {}]
    /\ UNCHANGED lock

\* The page is loaded anew: its script state, its requests, its lock and its listener are gone.
Reload(t) ==
    /\ tab' = [tab EXCEPT ![t] = NewPage]
    /\ rf' = [rf EXCEPT ![t] = NoRefresh]
    /\ lock' = IF lock = t THEN NoTab ELSE lock
    /\ inbox' = [inbox EXCEPT ![t] = {}]

\* The request of a refresh: the browser adds the cookie it has now.  X-Auth-Session may name
\* another session than the cookie.
Mismatch(t) == tab[t].sid # NoSid /\ cookie.sid \notin {NoSid, tab[t].sid}
Sent(t, r) == [r EXCEPT !.pc = "sent", !.mis = Mismatch(t),
                        !.tok = IF Mismatch(t) THEN NoToken ELSE cookie]

\* refreshAuthentication: join the refresh in flight, or start one; a browser with locks grants
\* the lock later.
Refreshing(t) ==
    rf' = [rf EXCEPT ![t] = IF @.pc # "none" THEN @
                            ELSE IF locks THEN NewRefresh ELSE Sent(t, NewRefresh)]

-----------------------------------------------------------------------------
(* What starts things in a tab.                                            *)

\* A sign-in: the server creates a session and sets the cookie, applyAuthBundle keeps the bundle
\* and tells the other tabs.  The forms are for pages without a session; the callback pages of
\* OAuth sign in over whatever session the page has found at its start.
Login(t) ==
    /\ rf[t].pc = "none" \/ tab[t].boot = "complete"
    /\ \E s \in Sids :
          /\ s <= MaxLogins[locks] /\ srv[s].st = "unborn"
          /\ \A r \in Sids : srv[r].st = "unborn" => s <= r
          /\ srv' = [srv EXCEPT ![s].st = "active"]
          /\ cookie' = [sid |-> s, age |-> 0]
          /\ tab' = [tab EXCEPT ![t] = Applied(@, s)]
          /\ inbox' = Publish(t, "authenticated", s)
    /\ rf' = [rf EXCEPT ![t] = Superseded(@)]
    /\ UNCHANGED <<lock, locks, lost>>

\* The access token expires.
Expire(t) ==
    /\ tab[t].sid # NoSid
    /\ tab[t].fresh
    /\ tab' = [tab EXCEPT ![t].fresh = FALSE]
    /\ UNCHANGED <<srv, cookie, lock, rf, inbox, locks, lost>>

\* bootstrapAuthentication before a route is loaded: a valid bundle is kept, a completed check
\* without a session is trusted, otherwise the session is refreshed.
Navigate(t) ==
    /\ \/ /\ tab[t].sid # NoSid /\ tab[t].fresh
          /\ tab' = [tab EXCEPT ![t].boot = "complete"]
          /\ UNCHANGED rf
       \/ /\ IF tab[t].sid # NoSid THEN ~tab[t].fresh ELSE tab[t].boot # "complete"
          /\ tab' = [tab EXCEPT ![t].boot = "idle"]
          /\ Refreshing(t)
    /\ UNCHANGED <<srv, cookie, lock, inbox, locks, lost>>

\* getFreshAuthHeaders: a stream about to start refreshes an expiring token.
FreshHeaders(t) ==
    /\ tab[t].sid # NoSid
    /\ ~tab[t].fresh
    /\ Refreshing(t)
    /\ UNCHANGED <<srv, cookie, lock, tab, inbox, locks, lost>>

\* An API call is answered 401: the interceptor waits for a refresh.
ApiCall(t) ==
    /\ tab[t].sid # NoSid
    /\ tab[t].wait = "none"
    /\ ~(tab[t].fresh /\ Active(tab[t].sid))
    /\ tab' = [tab EXCEPT ![t].wait = "api"]
    /\ Refreshing(t)
    /\ UNCHANGED <<srv, cookie, lock, inbox, locks, lost>>

\* applyAuthRotation: a security change in this tab returns a new access token of the session.
Rotation(t) ==
    /\ tab[t].fresh
    /\ Active(tab[t].sid)
    /\ tab' = [tab EXCEPT ![t] = Applied(@, tab[t].sid)]
    /\ rf' = [rf EXCEPT ![t] = Superseded(@)]
    /\ UNCHANGED <<srv, cookie, lock, inbox, locks, lost>>

\* The user reloads the page; the reply to a refresh on its way is lost.
UserReload(t) ==
    /\ IF rf[t].pc \in {"sent", "replied"} THEN Fault ELSE UNCHANGED lost
    /\ Reload(t)
    /\ UNCHANGED <<srv, cookie, locks>>

-----------------------------------------------------------------------------
(* A refresh: performRefreshWithBrowserLock and createRefreshRunner.       *)

\* The refresh is over.  A waiting API call is repeated, and a second 401 leaves the page for the
\* sign-in page like a refresh without a session; a waiting sign-out is repeated or given up.
EndRefresh(t, tb, outcome, events) ==
    /\ rf' = [rf EXCEPT ![t] = NoRefresh]
    /\ lock' = IF lock = t THEN NoTab ELSE lock
    /\ IF /\ tb.wait = "api"
          /\ outcome \in {"anonymous", "out_of_sync"} \/ (outcome = "ok" /\ ~Active(tb.sid))
       THEN /\ tab' = [tab EXCEPT ![t] = NewPage]
            /\ inbox' = [events EXCEPT ![t] = {}]
       ELSE /\ tab' = [tab EXCEPT ![t] =
                  [tb EXCEPT !.wait = IF @ = "out" /\ outcome = "ok" THEN "again" ELSE "none"]]
            /\ inbox' = events

\* run: nothing is sent for a superseded refresh.
Run(t) ==
    IF rf[t].cur
    THEN /\ rf' = [rf EXCEPT ![t] = Sent(t, @)]
         /\ lock' = IF locks THEN t ELSE lock
         /\ UNCHANGED <<tab, inbox>>
    ELSE EndRefresh(t, tab[t], "transient", inbox)

\* Variant: a refresh does not wait for the lock.
Acquire_NoWait(t) ==
    /\ rf[t].pc = "queued"
    /\ Run(t)
    /\ UNCHANGED <<srv, cookie, locks, lost>>

\* The browser grants the lock.
Acquire(t) ==
    /\ rf[t].pc = "queued"
    /\ lock = NoTab
    /\ Run(t)
    /\ UNCHANGED <<srv, cookie, locks, lost>>

\* The delay after a lost race is over; the lock is still held.
RunAgain(t) ==
    /\ rf[t].pc = "wait"
    /\ Run(t)
    /\ UNCHANGED <<srv, cookie, locks, lost>>

\* Variant: the age grows without end.
Older_Always(tok, s) == IF tok.sid = s THEN [tok EXCEPT !.age = @ + 1] ELSE tok

\* A rotation of session s makes every other token of s older.
Older(tok, s) == IF tok.sid = s /\ tok.age < 2 THEN [tok EXCEPT !.age = @ + 1] ELSE tok

\* The sessions of S end.
Ended(S, st) == [s \in Sids |-> IF s \in S THEN [st |-> st, grace |-> FALSE] ELSE srv[s]]
Dead(tok, S) == IF tok.sid \in S THEN [tok EXCEPT !.age = 2] ELSE tok
Discarded(S) == [u \in Tabs |-> [rf[u] EXCEPT !.tok = Dead(@, S)]]

Answer(t, rep, tok) ==
    [rf[t] EXCEPT !.pc = "replied", !.mis = FALSE, !.tok = tok, !.rep = rep]

\* RefreshAuth and RefreshLoginSession.
Serve(t) ==
    LET tok == rf[t].tok
        s == tok.sid
    IN  /\ rf[t].pc = "sent"
        /\ \/ /\ rf[t].mis
              /\ rf' = [rf EXCEPT ![t] = Answer(t, "mismatch", NoToken)]
              /\ UNCHANGED <<srv, cookie>>
           \/ /\ ~rf[t].mis
              /\ ~Active(s) \/ tok.age = 2
              /\ rf' = [rf EXCEPT ![t] = Answer(t, "unauth", NoToken)]
              /\ UNCHANGED <<srv, cookie>>
           \/ /\ Active(s) /\ tok.age = 0
              /\ srv' = [srv EXCEPT ![s].grace = TRUE]
              /\ cookie' = Older(cookie, s)
              /\ rf' = [u \in Tabs |->
                    IF u = t THEN Answer(t, "ok", tok) ELSE [rf[u] EXCEPT !.tok = Older(@, s)]]
           \/ /\ Active(s) /\ tok.age = 1 /\ srv[s].grace
              /\ rf' = [rf EXCEPT ![t] = Answer(t, "ok", [tok EXCEPT !.age = 0])]
              /\ UNCHANGED <<srv, cookie>>
           \/ /\ Active(s) /\ tok.age = 1 /\ ~srv[s].grace
              /\ srv' = Ended({s}, "reused")
              /\ cookie' = Dead(cookie, {s})
              /\ rf' = [Discarded({s}) EXCEPT ![t] = Answer(t, "unauth", NoToken)]
    /\ UNCHANGED <<lock, tab, inbox, locks, lost>>

\* 409 AUTH_REFRESH_RACE: this node derives the next secret with another key than the node that
\* rotated, and cannot repeat its answer.
ServeRace(t) ==
    LET tok == rf[t].tok
    IN  /\ rf[t].pc = "sent"
        /\ Active(tok.sid) /\ tok.age = 1 /\ srv[tok.sid].grace
        /\ Fault
        /\ rf' = [rf EXCEPT ![t] = Answer(t, "race", NoToken)]
        /\ UNCHANGED <<srv, cookie, lock, tab, inbox, locks>>

\* The window in which the previous token is accepted closes.  Without losses it is long enough
\* for a reply to arrive, and for a page that was reloaded before its reply to ask again.
GraceEnds(s) ==
    /\ srv[s].grace
    /\ IF cookie = [sid |-> s, age |-> 1] THEN Fault ELSE UNCHANGED lost
    /\ srv' = [srv EXCEPT ![s].grace = FALSE]
    /\ UNCHANGED <<cookie, lock, tab, rf, inbox, locks>>

\* The request or its reply is lost, the server fails or limits the rate, or it refuses in a way
\* the client does not know.
Lose(t) ==
    /\ Fault
    /\ rf[t].pc \in {"sent", "replied"}
    /\ \E rep \in {"error", "bad"} : rf' = [rf EXCEPT ![t] = Answer(t, rep, NoToken)]
    /\ UNCHANGED <<srv, cookie, lock, tab, inbox, locks>>

\* The reply arrives.  The browser applies its Set-Cookie in any case; the script looks at it
\* only when the refresh has not been superseded.
Receive(t) ==
    LET r == rf[t]
        tb == tab[t]
    IN  /\ r.pc = "replied"
        /\ cookie' = CASE r.rep = "ok" -> r.tok
                       [] r.rep = "unauth" -> NoToken
                       [] OTHER -> cookie
        /\ \/ ~r.cur /\ EndRefresh(t, tb, "transient", inbox)
           \/ r.cur /\ r.rep = "ok" /\ EndRefresh(t, Applied(tb, r.tok.sid), "ok", inbox)
           \/ /\ r.cur /\ r.rep = "race" /\ r.att < MaxRace
              /\ rf' = [rf EXCEPT ![t].pc = "wait", ![t].att = @ + 1, ![t].rep = "none"]
              /\ UNCHANGED <<lock, tab, inbox>>
           \/ /\ r.cur /\ r.rep = "mismatch" /\ r.retry
              /\ tab' = [tab EXCEPT ![t] = Reset(@, "idle")]
              /\ rf' = [rf EXCEPT ![t] =
                    [NewRefresh EXCEPT !.pc = "sent", !.retry = FALSE, !.tok = cookie]]
              /\ UNCHANGED <<lock, inbox>>
           \/ /\ r.cur
              /\ \/ r.rep = "race" /\ r.att = MaxRace
                 \/ r.rep = "mismatch" /\ ~r.retry
                 \/ r.rep = "bad"
              /\ EndRefresh(t, Reset(tb, "complete"), "out_of_sync", inbox)
           \/ /\ r.cur /\ r.rep = "unauth"
              /\ EndRefresh(t, Reset(tb, "complete"), "anonymous", Publish(t, "signed_out", tb.sid))
           \/ /\ r.cur /\ r.rep = "error"
              /\ EndRefresh(t, [tb EXCEPT !.boot = "idle"], "transient", inbox)
        /\ UNCHANGED <<srv, locks, lost>>

-----------------------------------------------------------------------------
(* Sign-out (executeLogout, handleSignOut, AuthLogout).                    *)

\* AuthLogout revokes the session of the access token, or, when that has expired, the session
\* of the cookie if its token is good.
LogoutEnds(t) ==
    {s \in Sids :
        /\ Active(s)
        /\ IF tab[t].fresh THEN s = tab[t].sid
           ELSE s = cookie.sid /\ (cookie.age = 0 \/ (cookie.age = 1 /\ srv[s].grace))}

\* The request and its reply; a 409 AUTH_SESSION_MISMATCH refreshes once and tries again.
Logout(t, mismatch) ==
    IF Mismatch(t)
    THEN mismatch /\ UNCHANGED <<srv, cookie, inbox>>
    ELSE /\ srv' = Ended(LogoutEnds(t), "ended")
         /\ cookie' = NoToken
         /\ tab' = [tab EXCEPT ![t] = [Reset(@, "complete") EXCEPT !.wait = "none"]]
         /\ rf' = [Discarded(LogoutEnds(t)) EXCEPT ![t] = Superseded(@)]
         /\ inbox' = Publish(t, "signed_out", tab[t].sid)

SignOut(t) ==
    /\ tab[t].sid # NoSid
    /\ tab[t].wait = "none"
    /\ Logout(t, tab' = [tab EXCEPT ![t].wait = "out"] /\ Refreshing(t))
    /\ UNCHANGED <<lock, locks, lost>>

SignOutAgain(t) ==
    /\ tab[t].wait = "again"
    /\ Logout(t, tab' = [tab EXCEPT ![t].wait = "none"] /\ UNCHANGED rf)
    /\ UNCHANGED <<lock, locks, lost>>

\* The reply to a sign-out is lost: the session may have ended, the tab does not know.
SignOutLost(t) ==
    /\ tab[t].wait = "again" \/ (tab[t].sid # NoSid /\ tab[t].wait = "none")
    /\ Fault
    /\ LET S == IF Mismatch(t) THEN {} ELSE LogoutEnds(t)
       IN  \/ /\ srv' = Ended(S, "ended") /\ rf' = Discarded(S)
              /\ cookie' = Dead(cookie, S)
           \/ UNCHANGED <<srv, rf, cookie>>
    /\ tab' = [tab EXCEPT ![t].wait = "none"]
    /\ UNCHANGED <<lock, inbox, locks>>

-----------------------------------------------------------------------------
(* Events of other tabs (the listener of routes/__root.tsx).               *)

Deliver(t) ==
    /\ \E e \in inbox[t] :
          \/ /\ e.kind = "authenticated" /\ e.sid # tab[t].sid
             /\ Reload(t)
          \/ /\ e.kind = "signed_out" /\ e.sid = tab[t].sid
             /\ tab' = [tab EXCEPT ![t] = Reset(@, "complete")]
             /\ rf' = [rf EXCEPT ![t] = Superseded(@)]
             /\ inbox' = [inbox EXCEPT ![t] = @ \ {e}]
             /\ UNCHANGED lock
          \/ /\ (e.kind = "authenticated") = (e.sid = tab[t].sid)
             /\ inbox' = [inbox EXCEPT ![t] = @ \ {e}]
             /\ UNCHANGED <<lock, tab, rf>>
    /\ UNCHANGED <<srv, cookie, locks, lost>>

\* A sleeping tab gets the event when it is more than a minute old.
DropEvent(t) ==
    /\ Fault
    /\ \E e \in inbox[t] : inbox' = [inbox EXCEPT ![t] = @ \ {e}]
    /\ UNCHANGED <<srv, cookie, lock, tab, rf, locks>>

-----------------------------------------------------------------------------
TabStep(t) ==
    \/ Login(t) \/ Expire(t) \/ Navigate(t) \/ FreshHeaders(t) \/ ApiCall(t)
    \/ Rotation(t) \/ UserReload(t)
    \/ Acquire(t) \/ RunAgain(t) \/ Serve(t) \/ ServeRace(t) \/ Lose(t) \/ Receive(t)
    \/ SignOut(t) \/ SignOutAgain(t) \/ SignOutLost(t)
    \/ Deliver(t) \/ DropEvent(t)

Next == (\E t \in Tabs : TabStep(t)) \/ (\E s \in Sids : GraceEnds(s))

Spec == Init /\ [][Next]_vars

\* Replies arrive, the lock is granted in turn, events are delivered, access tokens expire, and a
\* page in use goes on making API calls.
Fairness ==
    \A t \in Tabs :
        /\ SF_vars(Acquire(t))
        /\ WF_vars(RunAgain(t)) /\ WF_vars(Serve(t)) /\ WF_vars(Receive(t))
        /\ WF_vars(Deliver(t))
        /\ WF_vars(SignOutAgain(t))
        /\ WF_vars(Expire(t)) /\ WF_vars(ApiCall(t))

FairSpec == Init /\ [][Next]_vars /\ Fairness

-----------------------------------------------------------------------------
\* A page that runs goes from one session to another only by a sign-in of its own, to the session
\* that the sign-in creates.  Otherwise it becomes signed out, or is reloaded, in between: no
\* refresh that was on its way while the user signed in again, no lost race, event or answer of
\* another tab puts the page into a session that existed before (isCurrent, X-Auth-Session).
NeverSwitches ==
    [][\A t \in Tabs :
          tab[t].sid # NoSid /\ tab'[t].sid \notin {NoSid, tab[t].sid}
          => srv[tab'[t].sid].st = "unborn"]_vars

\* In a browser with locks in which nothing is lost, the tabs never make the server take the
\* browser's own session for stolen: it is not revoked because an old token was replayed.
NoFalseReuse == locks /\ lost = 0 /\ cookie.sid # NoSid => srv[cookie.sid].st # "reused"

\* Tabs that disagree, or that show a session that has ended, come together again: every tab that
\* is signed in is in the session of the cookie, and that session is active.
TabsSettle ==
    []<>(\A t \in Tabs : tab[t].sid # NoSid => tab[t].sid = cookie.sid /\ Active(tab[t].sid))
=============================================================================
