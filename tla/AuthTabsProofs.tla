--------------------------- MODULE AuthTabsProofs ---------------------------
(***************************************************************************)
(* Proofs about AuthTabs, for any number of tabs, logins and losses: its   *)
(* types, that a running page never changes from one session to another,   *)
(* and that the tabs do not make the server take their session for stolen. *)
(***************************************************************************)
EXTENDS AuthTabs, TLAPS

-----------------------------------------------------------------------------
(* Types of the parts.                                                     *)

\* The values that actions start from have their types.
LEMMA Constants ==
    /\ Sids \subseteq Nat /\ NoSid \notin Sids
    /\ NoToken \in Tokens
    /\ NewPage \in Stores
    /\ NoRefresh \in Refreshes
    /\ NewRefresh \in Refreshes
    /\ [NewRefresh EXCEPT !.pc = "sent", !.retry = FALSE] \in Refreshes
  <1>1. Sids \subseteq Nat /\ NoSid \notin Sids
    <2>1. MaxLogins[TRUE] \in Nat
      BY TabsAssumption, Zenon
    <2>2. \A n \in Nat : 1..n \subseteq Nat /\ 0 \notin 1..n
      OBVIOUS
    <2> QED
      BY <2>1, <2>2, Zenon DEF Sids, NoSid
  <1>2. NoToken \in Tokens
    BY DEF NoToken, Tokens
  <1>3. NewPage \in Stores
    BY DEF NewPage, Stores
  <1>4. NoRefresh \in Refreshes
    BY <1>2, TabsAssumption DEF NoRefresh, Refreshes, Replies
  <1>5. NewRefresh \in Refreshes /\ [NewRefresh EXCEPT !.pc = "sent", !.retry = FALSE] \in Refreshes
    BY <1>4 DEF NewRefresh, Refreshes
  <1> QED
    BY <1>1, <1>2, <1>3, <1>4, <1>5

\* setBundle and reset give stores.
LEMMA StoreTypes ==
    ASSUME NEW tb \in Stores
    PROVE  /\ \A s \in Sids : Applied(tb, s) \in Stores
           /\ Reset(tb, "idle") \in Stores /\ Reset(tb, "complete") \in Stores
           /\ [tb EXCEPT !.boot = "idle"] \in Stores
           /\ [tb EXCEPT !.boot = "complete"] \in Stores
           /\ [tb EXCEPT !.fresh = FALSE] \in Stores
           /\ \A w \in {"none", "api", "out", "again"} : [tb EXCEPT !.wait = w] \in Stores
BY DEF Stores, Applied, Reset, NoSid

\* Tokens stay tokens as they age.
LEMMA TokenTypes ==
    ASSUME NEW tok \in Tokens
    PROVE  /\ \A s \in Sids : Older(tok, s) \in Tokens /\ Older(tok, s).sid = tok.sid
           /\ \A S \in SUBSET Sids : Dead(tok, S) \in Tokens /\ Dead(tok, S).sid = tok.sid
           /\ [tok EXCEPT !.age = 0] \in Tokens
BY DEF Tokens, Older, Dead

\* A superseded refresh, one with another token and one that is answered are refreshes.
LEMMA RefreshTypes ==
    ASSUME NEW r \in Refreshes
    PROVE  /\ Superseded(r) \in Refreshes
           /\ Superseded(r).tok = r.tok
           /\ \A tok \in Tokens : [r EXCEPT !.tok = tok] \in Refreshes
           /\ \A rep \in Replies, tok \in Tokens :
                 [r EXCEPT !.pc = "replied", !.mis = FALSE, !.tok = tok, !.rep = rep] \in Refreshes
           /\ \A m \in BOOLEAN, tok \in Tokens :
                 [r EXCEPT !.pc = "sent", !.mis = m, !.tok = tok] \in Refreshes
  <1>1. Superseded(r) \in Refreshes /\ Superseded(r).tok = r.tok
    <2>1. 0 \in 0..MaxRace
      BY TabsAssumption
    <2>2. \A i \in 0..MaxRace : [r EXCEPT !.cur = FALSE, !.retry = FALSE, !.att = i] \in Refreshes
      BY DEF Refreshes
    <2>3. [r EXCEPT !.cur = FALSE, !.retry = FALSE, !.att = 0].tok = r.tok
      BY DEF Refreshes
    <2> QED
      BY <2>1, <2>2, <2>3 DEF Superseded
  <1>2. \A tok \in Tokens : [r EXCEPT !.tok = tok] \in Refreshes
    BY DEF Refreshes
  <1>3. \A rep \in Replies, tok \in Tokens :
           [r EXCEPT !.pc = "replied", !.mis = FALSE, !.tok = tok, !.rep = rep] \in Refreshes
    BY DEF Refreshes
  <1>4. \A m \in BOOLEAN, tok \in Tokens :
           [r EXCEPT !.pc = "sent", !.mis = m, !.tok = tok] \in Refreshes
    BY DEF Refreshes
  <1> QED
    BY <1>1, <1>2, <1>3, <1>4

-----------------------------------------------------------------------------
(* Types of what the actions are built from.                               *)

\* Published events are events.
LEMMA PublishType ==
    ASSUME TypeOK, NEW t \in Tabs, NEW kind \in {"authenticated", "signed_out"},
           NEW s \in {NoSid} \cup Sids
    PROVE  Publish(t, kind, s) \in [Tabs -> SUBSET Events]
  <1>1. inbox \in [Tabs -> SUBSET Events]
    BY DEF TypeOK
  <1>2. s # NoSid => [kind |-> kind, sid |-> s] \in Events
    BY DEF Events
  <1> QED
    BY <1>1, <1>2 DEF Publish

\* What a tab sends and what the server answers are refreshes.
LEMMA MessageTypes ==
    ASSUME TypeOK, NEW t \in Tabs
    PROVE  /\ \A r \in Refreshes : Sent(t, r) \in Refreshes
           /\ \A rep \in Replies, tok \in Tokens : Answer(t, rep, tok) \in Refreshes
  <1>1. rf[t] \in Refreshes /\ cookie \in Tokens
    BY DEF TypeOK
  <1>2. Mismatch(t) \in BOOLEAN
    BY DEF Mismatch
  <1>3. (IF Mismatch(t) THEN NoToken ELSE cookie) \in Tokens
    BY <1>1, Constants
  <1>4. \A r \in Refreshes : Sent(t, r) \in Refreshes
    BY <1>2, <1>3, RefreshTypes, Zenon DEF Sent
  <1>5. \A rep \in Replies, tok \in Tokens : Answer(t, rep, tok) \in Refreshes
    BY <1>1, RefreshTypes, Zenon DEF Answer
  <1> QED
    BY <1>4, <1>5

\* The server's sessions and the refreshes in flight when sessions end.
LEMMA EndedTypes ==
    ASSUME TypeOK, NEW S \in SUBSET Sids, NEW st \in {"ended", "reused"}
    PROVE  Ended(S, st) \in [Sids -> Sessions] /\ Discarded(S) \in [Tabs -> Refreshes]
  <1>1. [st |-> st, grace |-> FALSE] \in Sessions
    BY DEF Sessions
  <1>2. Ended(S, st) \in [Sids -> Sessions]
    BY <1>1 DEF TypeOK, Ended
  <1>3. \A u \in Tabs : rf[u] \in Refreshes /\ rf[u].tok \in Tokens
    BY DEF TypeOK, Refreshes
  <1>4. \A u \in Tabs : [rf[u] EXCEPT !.tok = Dead(rf[u].tok, S)] \in Refreshes
    BY <1>3, TokenTypes, RefreshTypes, Zenon
  <1> QED
    BY <1>2, <1>4, Zenon DEF Discarded

\* A refresh that is joined or started.
LEMMA RefreshingType ==
    ASSUME TypeOK, NEW t \in Tabs, Refreshing(t)
    PROVE  rf' \in [Tabs -> Refreshes]
  <1>1. rf \in [Tabs -> Refreshes]
    BY DEF TypeOK
  <1>2. NewRefresh \in Refreshes /\ Sent(t, NewRefresh) \in Refreshes
    BY Constants, MessageTypes
  <1> QED
    BY <1>1, <1>2 DEF Refreshing

\* A page that is loaded anew.
LEMMA ReloadType ==
    ASSUME TypeOK, NEW t \in Tabs, Reload(t)
    PROVE  /\ tab' \in [Tabs -> Stores] /\ rf' \in [Tabs -> Refreshes]
           /\ lock' \in Tabs \cup {NoTab} /\ inbox' \in [Tabs -> SUBSET Events]
BY Constants DEF TypeOK, Reload

\* A refresh that is over.
LEMMA EndRefreshType ==
    ASSUME TypeOK, NEW t \in Tabs, NEW tb \in Stores, NEW outcome,
           NEW events \in [Tabs -> SUBSET Events], EndRefresh(t, tb, outcome, events)
    PROVE  /\ tab' \in [Tabs -> Stores] /\ rf' \in [Tabs -> Refreshes]
           /\ lock' \in Tabs \cup {NoTab} /\ inbox' \in [Tabs -> SUBSET Events]
  <1>1. rf' \in [Tabs -> Refreshes] /\ lock' \in Tabs \cup {NoTab}
    BY Constants DEF TypeOK, EndRefresh
  <1>2. [tb EXCEPT !.wait = IF @ = "out" /\ outcome = "ok" THEN "again" ELSE "none"] \in Stores
    BY StoreTypes DEF Stores
  <1>3. tab' \in [Tabs -> Stores] /\ inbox' \in [Tabs -> SUBSET Events]
    BY <1>2, Constants DEF TypeOK, EndRefresh
  <1> QED
    BY <1>1, <1>3

\* A request that is sent, or found to be superseded.
LEMMA RunType ==
    ASSUME TypeOK, NEW t \in Tabs, Run(t)
    PROVE  /\ tab' \in [Tabs -> Stores] /\ rf' \in [Tabs -> Refreshes]
           /\ lock' \in Tabs \cup {NoTab} /\ inbox' \in [Tabs -> SUBSET Events]
  <1>1. CASE rf[t].cur
    <2>1. rf \in [Tabs -> Refreshes] /\ Sent(t, rf[t]) \in Refreshes
      BY MessageTypes DEF TypeOK
    <2> QED
      BY <1>1, <2>1 DEF TypeOK, Run
  <1>2. CASE ~rf[t].cur
    <2>1. EndRefresh(t, tab[t], "transient", inbox)
      BY <1>2 DEF Run
    <2>2. tab[t] \in Stores /\ inbox \in [Tabs -> SUBSET Events]
      BY DEF TypeOK
    <2> QED
      BY <2>1, <2>2, EndRefreshType
  <1> QED
    BY <1>1, <1>2

-----------------------------------------------------------------------------
(* Every step keeps the types.                                             *)

\* What starts things in a tab.
LEMMA StartTypes ==
    ASSUME TypeOK, NEW t \in Tabs,
           \/ Login(t) \/ Expire(t) \/ Navigate(t) \/ FreshHeaders(t) \/ ApiCall(t)
           \/ Rotation(t) \/ UserReload(t)
    PROVE  TypeOK'
  <1>t. tab[t] \in Stores /\ rf[t] \in Refreshes /\ tab[t].sid \in {NoSid} \cup Sids
    BY DEF TypeOK, Stores
  <1>1. CASE Login(t)
    <2>1. PICK s \in Sids : /\ srv' = [srv EXCEPT ![s].st = "active"]
                           /\ cookie' = [sid |-> s, age |-> 0]
                           /\ tab' = [tab EXCEPT ![t] = Applied(@, s)]
                           /\ inbox' = Publish(t, "authenticated", s)
      BY <1>1 DEF Login
    <2>2. srv' \in [Sids -> Sessions] /\ cookie' \in Tokens
      BY <2>1 DEF TypeOK, Sessions, Tokens
    <2>3. inbox' \in [Tabs -> SUBSET Events]
      BY <2>1, PublishType
    <2>4. tab' \in [Tabs -> Stores]
      BY <2>1, <1>t, StoreTypes DEF TypeOK
    <2>5. rf' \in [Tabs -> Refreshes]
      BY <1>1, <1>t, RefreshTypes DEF TypeOK, Login
    <2> QED
      BY <1>1, <2>2, <2>3, <2>4, <2>5 DEF TypeOK, Login
  <1>2. CASE Expire(t)
    BY <1>2, <1>t, StoreTypes DEF TypeOK, Expire
  <1>3. CASE Navigate(t)
    <2>1. tab' \in [Tabs -> Stores]
      BY <1>3, <1>t, StoreTypes DEF TypeOK, Navigate
    <2>2. rf' \in [Tabs -> Refreshes]
      BY <1>3, RefreshingType DEF TypeOK, Navigate
    <2> QED
      BY <1>3, <2>1, <2>2 DEF TypeOK, Navigate
  <1>4. CASE FreshHeaders(t)
    <2>1. rf' \in [Tabs -> Refreshes]
      BY <1>4, RefreshingType DEF FreshHeaders
    <2> QED
      BY <1>4, <2>1 DEF TypeOK, FreshHeaders
  <1>5. CASE ApiCall(t)
    <2>1. rf' \in [Tabs -> Refreshes]
      BY <1>5, RefreshingType DEF ApiCall
    <2>2. tab' \in [Tabs -> Stores]
      BY <1>5, <1>t, StoreTypes DEF TypeOK, ApiCall
    <2> QED
      BY <1>5, <2>1, <2>2 DEF TypeOK, ApiCall
  <1>6. CASE Rotation(t)
    <2>1. tab[t].sid \in Sids
      BY <1>6, <1>t DEF Rotation, Active
    <2>2. tab' \in [Tabs -> Stores]
      BY <1>6, <1>t, <2>1, StoreTypes DEF TypeOK, Rotation
    <2>3. rf' \in [Tabs -> Refreshes]
      BY <1>6, <1>t, RefreshTypes DEF TypeOK, Rotation
    <2> QED
      BY <1>6, <2>2, <2>3 DEF TypeOK, Rotation
  <1>7. CASE UserReload(t)
    <2>1. lost' \in 0..MaxLosses
      BY <1>7, TabsAssumption DEF TypeOK, UserReload, Fault
    <2>2. Reload(t)
      BY <1>7 DEF UserReload
    <2> QED
      BY <1>7, <2>1, <2>2, ReloadType DEF TypeOK, UserReload
  <1> QED
    BY <1>1, <1>2, <1>3, <1>4, <1>5, <1>6, <1>7

\* The server's part of a refresh.
LEMMA ServerTypes ==
    ASSUME TypeOK, NEW t \in Tabs, Serve(t) \/ ServeRace(t) \/ Lose(t)
    PROVE  TypeOK'
  <1>t. /\ rf \in [Tabs -> Refreshes] /\ rf[t] \in Refreshes
        /\ \A u \in Tabs : rf[u] \in Refreshes /\ rf[u].tok \in Tokens
        /\ rf[t].tok.sid \in {NoSid} \cup Sids /\ cookie \in Tokens
    BY DEF TypeOK, Refreshes, Tokens
  <1>a. \A rep \in Replies, tok \in Tokens : Answer(t, rep, tok) \in Refreshes
    BY MessageTypes
  <1>l. /\ lost < MaxLosses => lost + 1 \in 0..MaxLosses
        /\ NoToken \in Tokens
        /\ {"mismatch", "unauth", "ok", "race", "error", "bad"} \subseteq Replies
    BY TabsAssumption, Constants DEF TypeOK, Replies
  <1>1. CASE Serve(t)
    <2> DEFINE tok == rf[t].tok
               s == tok.sid
    <2>1. CASE rf' = [rf EXCEPT ![t] = Answer(t, "mismatch", NoToken)] /\ UNCHANGED <<srv, cookie>>
      BY <1>1, <2>1, <1>t, <1>a, <1>l DEF TypeOK, Serve
    <2>2. CASE rf' = [rf EXCEPT ![t] = Answer(t, "unauth", NoToken)] /\ UNCHANGED <<srv, cookie>>
      BY <1>1, <2>2, <1>t, <1>a, <1>l DEF TypeOK, Serve
    <2>3. CASE /\ Active(s)
               /\ srv' = [srv EXCEPT ![s].grace = TRUE]
               /\ cookie' = Older(cookie, s)
               /\ rf' = [u \in Tabs |->
                     IF u = t THEN Answer(t, "ok", tok) ELSE [rf[u] EXCEPT !.tok = Older(@, s)]]
      <3>1. s \in Sids
        BY <2>3, <1>t DEF Active
      <3>2. srv' \in [Sids -> Sessions]
        BY <2>3, <3>1 DEF TypeOK, Sessions
      <3>3. cookie' \in Tokens
        BY <2>3, <3>1, <1>t, TokenTypes
      <3>4. \A u \in Tabs : [rf[u] EXCEPT !.tok = Older(rf[u].tok, s)] \in Refreshes
        BY <3>1, <1>t, TokenTypes, RefreshTypes, Zenon
      <3>5. rf' \in [Tabs -> Refreshes]
        BY <2>3, <3>4, <1>t, <1>a, <1>l
      <3> QED
        BY <1>1, <3>2, <3>3, <3>5 DEF TypeOK, Serve
    <2>4. CASE rf' = [rf EXCEPT ![t] = Answer(t, "ok", [tok EXCEPT !.age = 0])] /\ UNCHANGED <<srv, cookie>>
      <3>1. [tok EXCEPT !.age = 0] \in Tokens
        BY <1>t, TokenTypes
      <3> QED
        BY <1>1, <2>4, <3>1, <1>t, <1>a, <1>l DEF TypeOK, Serve
    <2>5. CASE /\ Active(s)
               /\ srv' = Ended({s}, "reused")
               /\ cookie' = Dead(cookie, {s})
               /\ rf' = [Discarded({s}) EXCEPT ![t] = Answer(t, "unauth", NoToken)]
      <3>1. {s} \in SUBSET Sids
        BY <2>5, <1>t DEF Active
      <3>2. srv' \in [Sids -> Sessions] /\ Discarded({s}) \in [Tabs -> Refreshes]
        BY <2>5, <3>1, EndedTypes
      <3>3. cookie' \in Tokens
        BY <2>5, <3>1, <1>t, TokenTypes
      <3>4. rf' \in [Tabs -> Refreshes]
        BY <2>5, <3>2, <1>a, <1>l
      <3> QED
        BY <1>1, <3>2, <3>3, <3>4 DEF TypeOK, Serve
    <2> QED
      BY <1>1, <2>1, <2>2, <2>3, <2>4, <2>5 DEF Serve
  <1>2. CASE ServeRace(t)
    BY <1>2, <1>t, <1>a, <1>l DEF TypeOK, ServeRace, Fault
  <1>3. CASE Lose(t)
    BY <1>3, <1>t, <1>a, <1>l DEF TypeOK, Lose, Fault
  <1> QED
    BY <1>1, <1>2, <1>3

\* The tab's part of a refresh.
LEMMA ClientTypes ==
    ASSUME TypeOK, NEW t \in Tabs, Acquire(t) \/ RunAgain(t) \/ Receive(t)
    PROVE  TypeOK'
  <1>t. /\ tab[t] \in Stores /\ tab[t].sid \in {NoSid} \cup Sids
        /\ rf[t] \in Refreshes /\ rf[t].tok \in Tokens /\ cookie \in Tokens
        /\ rf[t].tok.sid \in {NoSid} \cup Sids
        /\ inbox \in [Tabs -> SUBSET Events]
    BY DEF TypeOK, Stores, Refreshes, Tokens
  <1>1. CASE Acquire(t)
    <2>1. Run(t)
      BY <1>1 DEF Acquire
    <2> QED
      BY <1>1, <2>1, RunType DEF TypeOK, Acquire
  <1>2. CASE RunAgain(t)
    <2>1. Run(t)
      BY <1>2 DEF RunAgain
    <2> QED
      BY <1>2, <2>1, RunType DEF TypeOK, RunAgain
  <1>3. CASE Receive(t)
    <2> DEFINE r == rf[t]
               tb == tab[t]
               Typed == /\ tab' \in [Tabs -> Stores] /\ rf' \in [Tabs -> Refreshes]
                        /\ lock' \in Tabs \cup {NoTab} /\ inbox' \in [Tabs -> SUBSET Events]
    <2>1. cookie' \in Tokens
      BY <1>3, <1>t, Constants DEF Receive
    <2> SUFFICES Typed
      BY <1>3, <2>1 DEF TypeOK, Receive
    <2>s. Reset(tb, "complete") \in Stores /\ [tb EXCEPT !.boot = "idle"] \in Stores
      BY <1>t, StoreTypes
    <2>2. CASE EndRefresh(t, tb, "transient", inbox)
      BY <2>2, <1>t, EndRefreshType
    <2>3. CASE r.cur /\ r.rep = "ok" /\ EndRefresh(t, Applied(tb, r.tok.sid), "ok", inbox)
      <3>1. Applied(tb, r.tok.sid) \in Stores
        BY <1>t, Constants DEF Applied, Stores
      <3> QED
        BY <2>3, <3>1, <1>t, EndRefreshType
    <2>4. CASE /\ r.att < MaxRace
               /\ rf' = [rf EXCEPT ![t].pc = "wait", ![t].att = @ + 1, ![t].rep = "none"]
               /\ UNCHANGED <<lock, tab, inbox>>
      <3>1. r.att + 1 \in 0..MaxRace
        BY <2>4, <1>t, TabsAssumption DEF Refreshes
      <3>2. [r EXCEPT !.pc = "wait", !.att = r.att + 1, !.rep = "none"] \in Refreshes
        BY <3>1, <1>t DEF Refreshes, Replies
      <3>3. rf' = [rf EXCEPT ![t] = [r EXCEPT !.pc = "wait", !.att = r.att + 1, !.rep = "none"]]
        BY <2>4 DEF TypeOK
      <3> QED
        BY <2>4, <3>2, <3>3 DEF TypeOK
    <2>5. CASE /\ tab' = [tab EXCEPT ![t] = Reset(@, "idle")]
               /\ rf' = [rf EXCEPT ![t] =
                     [NewRefresh EXCEPT !.pc = "sent", !.retry = FALSE, !.tok = cookie]]
               /\ UNCHANGED <<lock, inbox>>
      <3>1. [NewRefresh EXCEPT !.pc = "sent", !.retry = FALSE, !.tok = cookie] \in Refreshes
        BY <1>t, Constants DEF Refreshes
      <3>2. Reset(tb, "idle") \in Stores
        BY <1>t, StoreTypes
      <3> QED
        BY <2>5, <3>1, <3>2 DEF TypeOK
    <2>6. CASE EndRefresh(t, Reset(tb, "complete"), "out_of_sync", inbox)
      BY <2>6, <2>s, <1>t, EndRefreshType
    <2>7. CASE EndRefresh(t, Reset(tb, "complete"), "anonymous", Publish(t, "signed_out", tb.sid))
      <3>1. Publish(t, "signed_out", tb.sid) \in [Tabs -> SUBSET Events]
        BY <1>t, PublishType
      <3> QED
        BY <2>7, <3>1, <2>s, EndRefreshType
    <2>8. CASE EndRefresh(t, [tb EXCEPT !.boot = "idle"], "transient", inbox)
      BY <2>8, <2>s, <1>t, EndRefreshType
    <2> QED
      BY <1>3, <2>2, <2>3, <2>4, <2>5, <2>6, <2>7, <2>8 DEF Receive
  <1> QED
    BY <1>1, <1>2, <1>3

\* Sign-out and events.
LEMMA OtherTypes ==
    ASSUME TypeOK, NEW t \in Tabs,
           \/ SignOut(t) \/ SignOutAgain(t) \/ SignOutLost(t) \/ Deliver(t) \/ DropEvent(t)
    PROVE  TypeOK'
  <1>t. /\ tab \in [Tabs -> Stores] /\ tab[t] \in Stores /\ tab[t].sid \in {NoSid} \cup Sids
        /\ rf \in [Tabs -> Refreshes] /\ rf[t] \in Refreshes /\ cookie \in Tokens
        /\ LogoutEnds(t) \in SUBSET Sids
    BY DEF TypeOK, Stores, LogoutEnds
  <1>l. lost < MaxLosses => lost + 1 \in 0..MaxLosses
    BY TabsAssumption DEF TypeOK
  <1>w. \A w \in {"none", "out"} : [tab EXCEPT ![t].wait = w] \in [Tabs -> Stores]
    BY <1>t, StoreTypes
  <1>o. ASSUME /\ srv' = Ended(LogoutEnds(t), "ended") /\ cookie' = NoToken
               /\ tab' = [tab EXCEPT ![t] = [Reset(@, "complete") EXCEPT !.wait = "none"]]
               /\ rf' = [Discarded(LogoutEnds(t)) EXCEPT ![t] = Superseded(@)]
               /\ inbox' = Publish(t, "signed_out", tab[t].sid)
        PROVE  /\ srv' \in [Sids -> Sessions] /\ cookie' \in Tokens
               /\ tab' \in [Tabs -> Stores] /\ rf' \in [Tabs -> Refreshes]
               /\ inbox' \in [Tabs -> SUBSET Events]
    <2>1. srv' \in [Sids -> Sessions] /\ Discarded(LogoutEnds(t)) \in [Tabs -> Refreshes]
      BY <1>o, <1>t, EndedTypes
    <2>2. [Reset(tab[t], "complete") EXCEPT !.wait = "none"] \in Stores
      BY <1>t, StoreTypes
    <2>3. Superseded(Discarded(LogoutEnds(t))[t]) \in Refreshes
      BY <2>1, RefreshTypes
    <2>4. inbox' \in [Tabs -> SUBSET Events]
      BY <1>o, <1>t, PublishType
    <2> QED
      BY <1>o, <1>t, <2>1, <2>2, <2>3, <2>4, Constants
  <1>1. CASE SignOut(t)
    <2>1. CASE Mismatch(t)
      <3>1. rf' \in [Tabs -> Refreshes]
        BY <1>1, <2>1, RefreshingType DEF SignOut, Logout
      <3> QED
        BY <1>1, <2>1, <3>1, <1>w DEF TypeOK, SignOut, Logout
    <2>2. CASE ~Mismatch(t)
      BY <1>1, <2>2, <1>o DEF TypeOK, SignOut, Logout
    <2> QED
      BY <2>1, <2>2
  <1>2. CASE SignOutAgain(t)
    BY <1>2, <1>o, <1>w DEF TypeOK, SignOutAgain, Logout
  <1>3. CASE SignOutLost(t)
    <2>1. \A S \in SUBSET Sids : /\ Ended(S, "ended") \in [Sids -> Sessions]
                                /\ Discarded(S) \in [Tabs -> Refreshes]
                                /\ Dead(cookie, S) \in Tokens
      BY <1>t, EndedTypes, TokenTypes
    <2>2. (IF Mismatch(t) THEN {} ELSE LogoutEnds(t)) \in SUBSET Sids
      BY <1>t
    <2> QED
      BY <1>3, <2>1, <2>2, <1>w, <1>l DEF TypeOK, SignOutLost, Fault
  <1>4. CASE Deliver(t)
    <2>1. PICK e \in inbox[t] :
          \/ Reload(t)
          \/ /\ tab' = [tab EXCEPT ![t] = Reset(@, "complete")]
             /\ rf' = [rf EXCEPT ![t] = Superseded(@)]
             /\ inbox' = [inbox EXCEPT ![t] = @ \ {e}]
             /\ UNCHANGED lock
          \/ inbox' = [inbox EXCEPT ![t] = @ \ {e}] /\ UNCHANGED <<lock, tab, rf>>
      BY <1>4 DEF Deliver
    <2>2. CASE Reload(t)
      BY <1>4, <2>2, ReloadType DEF TypeOK, Deliver
    <2>3. Reset(tab[t], "complete") \in Stores /\ Superseded(rf[t]) \in Refreshes
      BY <1>t, StoreTypes, RefreshTypes
    <2>4. [inbox EXCEPT ![t] = @ \ {e}] \in [Tabs -> SUBSET Events]
      BY DEF TypeOK
    <2> QED
      BY <1>4, <1>t, <2>1, <2>2, <2>3, <2>4 DEF TypeOK, Deliver
  <1>5. CASE DropEvent(t)
    BY <1>5, <1>l DEF TypeOK, DropEvent, Fault
  <1> QED
    BY <1>1, <1>2, <1>3, <1>4, <1>5

\* The initial state has its types.
LEMMA InitType == Init => TypeOK
BY Constants, TabsAssumption DEF Init, TypeOK, Sessions

\* One step keeps the types.
LEMMA StepType == TypeOK /\ [Next]_vars => TypeOK'
  <1> SUFFICES ASSUME TypeOK, [Next]_vars PROVE TypeOK'
    OBVIOUS
  <1>1. ASSUME NEW t \in Tabs, TabStep(t) PROVE TypeOK'
    BY <1>1, StartTypes, ServerTypes, ClientTypes, OtherTypes DEF TabStep
  <1>2. ASSUME NEW s \in Sids, GraceEnds(s) PROVE TypeOK'
    <2>1. lost < MaxLosses => lost + 1 \in 0..MaxLosses
      BY TabsAssumption DEF TypeOK
    <2> QED
      BY <1>2, <2>1 DEF TypeOK, Sessions, GraceEnds, Fault
  <1>3. CASE UNCHANGED vars
    BY <1>3 DEF TypeOK, vars
  <1> QED
    BY <1>1, <1>2, <1>3 DEF Next

\* The tabs, the cookie and the sessions of the model have their types in every reachable state,
\* for any number of tabs, logins, races and losses.
THEOREM TypeCorrect == Spec => []TypeOK
BY InitType, StepType, PTL DEF Spec

-----------------------------------------------------------------------------
(* A running page changes its session only by a sign-in of its own.        *)

\* The invariant behind NeverSwitches: a refresh that is still current and carries the token of a
\* session, in a tab that is signed in, is about the session of the tab.
CoherentAt(t) ==
    /\ rf[t].cur /\ tab[t].sid # NoSid /\ rf[t].tok.sid # NoSid => rf[t].tok.sid = tab[t].sid
    /\ rf[t].pc = "none" => ~rf[t].cur
Coherent == \A t \in Tabs : CoherentAt(t)

\* What a step of tab t does to the other tabs, and to t.
Frame(t) ==
    \A u \in Tabs \ {t} : /\ tab'[u] = tab[u]
                          /\ rf'[u].pc = rf[u].pc /\ rf'[u].cur = rf[u].cur
                          /\ rf'[u].tok.sid = rf[u].tok.sid
KeepsAt(t) ==
    tab[t].sid # NoSid /\ tab'[t].sid \notin {NoSid, tab[t].sid} => srv[tab'[t].sid].st = "unborn"
Good(t) == Frame(t) /\ KeepsAt(t) /\ CoherentAt(t)'

\* A page that is loaded anew, or whose refresh is over, has no token in flight.
LEMMA GoodReload ==
    ASSUME TypeOK, NEW t \in Tabs, Reload(t)
    PROVE  Good(t)
BY DEF TypeOK, Reload, Good, Frame, KeepsAt, CoherentAt, NewPage, NoRefresh, NoToken, NoSid

\* The end of a refresh keeps the session of the store it is given, or forgets it.
LEMMA GoodEndRefresh ==
    ASSUME TypeOK, NEW t \in Tabs, NEW tb \in Stores, NEW outcome, NEW events,
           tab[t].sid # NoSid /\ tb.sid # NoSid => tb.sid = tab[t].sid,
           EndRefresh(t, tb, outcome, events)
    PROVE  Good(t)
  <1>1. rf' = [rf EXCEPT ![t] = NoRefresh] /\ rf \in [Tabs -> Refreshes] /\ tab \in [Tabs -> Stores]
    BY DEF TypeOK, EndRefresh
  <1>2. \/ tab' = [tab EXCEPT ![t] = NewPage]
        \/ tab' = [tab EXCEPT ![t] =
                [tb EXCEPT !.wait = IF @ = "out" /\ outcome = "ok" THEN "again" ELSE "none"]]
    BY DEF EndRefresh
  <1>3. tab'[t].sid \in {NoSid, tb.sid} /\ \A u \in Tabs \ {t} : tab'[u] = tab[u]
    BY <1>1, <1>2 DEF NewPage, Stores
  <1>4. rf'[t].tok.sid = NoSid /\ ~rf'[t].cur /\ \A u \in Tabs \ {t} : rf'[u] = rf[u]
    BY <1>1 DEF NoRefresh, NoToken
  <1> QED
    BY <1>3, <1>4 DEF Good, Frame, KeepsAt, CoherentAt

\* What is sent is about the session of the tab: X-Auth-Session makes the server refuse another
\* cookie.
LEMMA SentCoherent ==
    ASSUME TypeOK, NEW t \in Tabs, NEW r \in Refreshes
    PROVE  /\ Sent(t, r).cur = r.cur /\ Sent(t, r).pc = "sent"
           /\ tab[t].sid # NoSid /\ Sent(t, r).tok.sid # NoSid => Sent(t, r).tok.sid = tab[t].sid
  <1>1. Sent(t, r).cur = r.cur /\ Sent(t, r).pc = "sent" /\ Sent(t, r).tok = IF Mismatch(t) THEN NoToken ELSE cookie
    BY DEF Sent, Refreshes
  <1> QED
    BY <1>1 DEF Mismatch, NoToken, NoSid

\* Joining or starting a refresh.
LEMMA GoodRefreshing ==
    ASSUME TypeOK, NEW t \in Tabs, CoherentAt(t), Refreshing(t)
    PROVE  /\ \A u \in Tabs \ {t} : rf'[u] = rf[u]
           /\ rf'[t].cur /\ tab[t].sid # NoSid /\ rf'[t].tok.sid # NoSid
                 => rf'[t].tok.sid = tab[t].sid
           /\ rf'[t].pc # "none"
  <1>1. rf \in [Tabs -> Refreshes] /\ NewRefresh \in Refreshes
    BY Constants DEF TypeOK
  <1>2. /\ rf'[t] \in {NewRefresh, Sent(t, NewRefresh)} \/ (rf'[t] = rf[t] /\ rf[t].pc # "none")
        /\ \A u \in Tabs \ {t} : rf'[u] = rf[u]
    BY <1>1 DEF Refreshing
  <1>3. NewRefresh.tok.sid = NoSid /\ NewRefresh.pc # "none" /\ Sent(t, NewRefresh).pc # "none"
    BY <1>1, SentCoherent DEF NewRefresh, NoRefresh, NoToken
  <1>4. tab[t].sid # NoSid /\ Sent(t, NewRefresh).tok.sid # NoSid
           => Sent(t, NewRefresh).tok.sid = tab[t].sid
    BY <1>1, SentCoherent
  <1> QED
    BY <1>2, <1>3, <1>4 DEF CoherentAt

\* What starts things in a tab: a login applies a session that is new, and supersedes the refresh
\* in flight.
LEMMA GoodStart ==
    ASSUME TypeOK, NEW t \in Tabs, CoherentAt(t),
           \/ Login(t) \/ Expire(t) \/ Navigate(t) \/ FreshHeaders(t) \/ ApiCall(t)
           \/ Rotation(t) \/ UserReload(t)
    PROVE  Good(t)
  <1>t. /\ tab \in [Tabs -> Stores] /\ rf \in [Tabs -> Refreshes]
        /\ tab[t] \in Stores /\ rf[t] \in Refreshes
    BY DEF TypeOK
  <1>s. ~Superseded(rf[t]).cur
    BY <1>t DEF Superseded, Refreshes, CoherentAt
  <1>1. CASE Login(t)
    <2>1. PICK s \in Sids : srv[s].st = "unborn" /\ tab' = [tab EXCEPT ![t] = Applied(@, s)]
      BY <1>1 DEF Login
    <2>2. tab'[t].sid = s /\ \A u \in Tabs \ {t} : tab'[u] = tab[u] /\ rf'[u] = rf[u]
      BY <1>1, <1>t, <2>1 DEF Login, Applied, Stores
    <2>3. rf'[t] = Superseded(rf[t])
      BY <1>1, <1>t DEF Login
    <2> QED
      BY <2>1, <2>2, <2>3, <1>s DEF Good, Frame, KeepsAt, CoherentAt
  <1>2. CASE Expire(t)
    BY <1>2, <1>t DEF Expire, Good, Frame, KeepsAt, CoherentAt, Stores
  <1>3. CASE Navigate(t)
    <2>1. tab'[t].sid = tab[t].sid /\ \A u \in Tabs \ {t} : tab'[u] = tab[u]
      BY <1>3, <1>t DEF Navigate, Stores
    <2>2. UNCHANGED rf \/ Refreshing(t)
      BY <1>3 DEF Navigate
    <2> QED
      BY <2>1, <2>2, GoodRefreshing DEF Good, Frame, KeepsAt, CoherentAt
  <1>4. CASE FreshHeaders(t)
    BY <1>4, GoodRefreshing DEF FreshHeaders, Good, Frame, KeepsAt, CoherentAt
  <1>5. CASE ApiCall(t)
    <2>1. tab'[t].sid = tab[t].sid /\ \A u \in Tabs \ {t} : tab'[u] = tab[u]
      BY <1>5, <1>t DEF ApiCall, Stores
    <2>2. Refreshing(t)
      BY <1>5 DEF ApiCall
    <2> QED
      BY <2>1, <2>2, GoodRefreshing DEF Good, Frame, KeepsAt, CoherentAt
  <1>6. CASE Rotation(t)
    <2>1. tab'[t].sid = tab[t].sid /\ \A u \in Tabs \ {t} : tab'[u] = tab[u] /\ rf'[u] = rf[u]
      BY <1>6, <1>t DEF Rotation, Applied, Stores
    <2>2. rf'[t] = Superseded(rf[t])
      BY <1>6, <1>t DEF Rotation
    <2> QED
      BY <2>1, <2>2, <1>s DEF Good, Frame, KeepsAt, CoherentAt
  <1>7. CASE UserReload(t)
    BY <1>7, GoodReload DEF UserReload
  <1> QED
    BY <1>1, <1>2, <1>3, <1>4, <1>5, <1>6, <1>7

\* The server's answer is about the session of the token it got.
LEMMA GoodServer ==
    ASSUME TypeOK, NEW t \in Tabs, CoherentAt(t), Serve(t) \/ ServeRace(t) \/ Lose(t)
    PROVE  Good(t)
  <1>t. /\ rf \in [Tabs -> Refreshes] /\ rf[t] \in Refreshes
        /\ \A u \in Tabs : rf[u] \in Refreshes /\ rf[u].tok \in Tokens
    BY DEF TypeOK, Refreshes
  <1>a. \A rep, tok : /\ Answer(t, rep, tok).pc = "replied" /\ Answer(t, rep, tok).cur = rf[t].cur
                     /\ Answer(t, rep, tok).tok = tok
    BY <1>t DEF Answer, Refreshes
  <1>n. NoToken.sid = NoSid
    BY DEF NoToken
  <1>u. UNCHANGED tab
    BY DEF Serve, ServeRace, Lose
  <1>g. ASSUME /\ \A u \in Tabs \ {t} : /\ rf'[u].pc = rf[u].pc /\ rf'[u].cur = rf[u].cur
                                       /\ rf'[u].tok.sid = rf[u].tok.sid
               /\ rf'[t].cur = rf[t].cur /\ rf'[t].pc # "none"
               /\ rf'[t].tok.sid \in {NoSid, rf[t].tok.sid}
        PROVE  Good(t)
    BY <1>g, <1>u DEF Good, Frame, KeepsAt, CoherentAt
  <1>1. CASE \E rep : rf' = [rf EXCEPT ![t] = Answer(t, rep, NoToken)]
    BY <1>1, <1>t, <1>a, <1>n, <1>g
  <1>2. CASE /\ Active(rf[t].tok.sid)
             /\ rf' = [u \in Tabs |-> IF u = t THEN Answer(t, "ok", rf[t].tok)
                                    ELSE [rf[u] EXCEPT !.tok = Older(@, rf[t].tok.sid)]]
    <2>1. rf[t].tok.sid \in Sids
      BY <1>2, <1>t DEF Active, Tokens
    <2>2. \A u \in Tabs : Older(rf[u].tok, rf[t].tok.sid).sid = rf[u].tok.sid
      BY <2>1, <1>t, TokenTypes
    <2>3. \A u \in Tabs \ {t} : /\ rf'[u].pc = rf[u].pc /\ rf'[u].cur = rf[u].cur
                                /\ rf'[u].tok = Older(rf[u].tok, rf[t].tok.sid)
      BY <1>2, <1>t DEF Refreshes
    <2>4. rf'[t].pc = "replied" /\ rf'[t].cur = rf[t].cur /\ rf'[t].tok = rf[t].tok
      BY <1>2, <1>a
    <2> QED
      BY <2>2, <2>3, <2>4, <1>g
  <1>3. CASE rf' = [rf EXCEPT ![t] = Answer(t, "ok", [rf[t].tok EXCEPT !.age = 0])]
    <2>1. [rf[t].tok EXCEPT !.age = 0].sid = rf[t].tok.sid
      BY <1>t DEF Tokens
    <2>2. \A u \in Tabs \ {t} : rf'[u] = rf[u]
      BY <1>3, <1>t
    <2>3. rf'[t].pc = "replied" /\ rf'[t].cur = rf[t].cur /\ rf'[t].tok = [rf[t].tok EXCEPT !.age = 0]
      BY <1>3, <1>t, <1>a
    <2> QED
      BY <2>1, <2>2, <2>3, <1>g
  <1>4. CASE /\ Active(rf[t].tok.sid)
             /\ rf' = [Discarded({rf[t].tok.sid}) EXCEPT ![t] = Answer(t, "unauth", NoToken)]
    <2>1. {rf[t].tok.sid} \in SUBSET Sids
      BY <1>4, <1>t DEF Active, Tokens
    <2>2. \A u \in Tabs : Dead(rf[u].tok, {rf[t].tok.sid}).sid = rf[u].tok.sid
      BY <2>1, <1>t, TokenTypes
    <2>3. \A u \in Tabs \ {t} : /\ rf'[u].pc = rf[u].pc /\ rf'[u].cur = rf[u].cur
                                /\ rf'[u].tok = Dead(rf[u].tok, {rf[t].tok.sid})
      BY <1>4, <1>t DEF Discarded, Refreshes
    <2>4. rf'[t].pc = "replied" /\ rf'[t].cur = rf[t].cur /\ rf'[t].tok = NoToken
      BY <1>4, <1>a DEF Discarded
    <2> QED
      BY <2>2, <2>3, <2>4, <1>n, <1>g
  <1> QED
    BY <1>1, <1>2, <1>3, <1>4 DEF Serve, ServeRace, Lose

\* A reply is accepted only when the refresh is current: then it is about the session of the tab.
LEMMA GoodClient ==
    ASSUME TypeOK, NEW t \in Tabs, CoherentAt(t), Acquire(t) \/ RunAgain(t) \/ Receive(t)
    PROVE  Good(t)
  <1>t. /\ tab \in [Tabs -> Stores] /\ rf \in [Tabs -> Refreshes] /\ cookie \in Tokens
        /\ tab[t] \in Stores /\ rf[t] \in Refreshes
        /\ rf[t].tok.sid \in {NoSid} \cup Sids
    BY DEF TypeOK, Refreshes, Tokens
  <1>1. CASE Run(t)
    <2>1. CASE rf[t].cur
      <3>1. /\ rf'[t] = Sent(t, rf[t]) /\ tab' = tab
            /\ \A u \in Tabs \ {t} : rf'[u] = rf[u]
        BY <1>1, <2>1, <1>t DEF Run
      <3> QED
        BY <3>1, <1>t, SentCoherent DEF Good, Frame, KeepsAt, CoherentAt
    <2>2. CASE ~rf[t].cur
      <3>1. EndRefresh(t, tab[t], "transient", inbox)
        BY <1>1, <2>2 DEF Run
      <3> QED
        BY <3>1, <1>t, GoodEndRefresh
    <2> QED
      BY <2>1, <2>2
  <1>2. CASE Receive(t)
    <2> DEFINE r == rf[t]
               tb == tab[t]
    <2>s. /\ Reset(tb, "complete") \in Stores /\ Reset(tb, "complete").sid = NoSid
          /\ Reset(tb, "idle").sid = NoSid
          /\ [tb EXCEPT !.boot = "idle"] \in Stores /\ [tb EXCEPT !.boot = "idle"].sid = tb.sid
      BY <1>t DEF Stores, Reset
    <2>1. CASE EndRefresh(t, tb, "transient", inbox)
      BY <2>1, <1>t, GoodEndRefresh
    <2>2. CASE r.cur /\ r.rep = "ok" /\ EndRefresh(t, Applied(tb, r.tok.sid), "ok", inbox)
      <3>1. Applied(tb, r.tok.sid) \in Stores /\ Applied(tb, r.tok.sid).sid = r.tok.sid
        BY <1>t DEF Applied, Stores
      <3>2. tb.sid # NoSid /\ Applied(tb, r.tok.sid).sid # NoSid => Applied(tb, r.tok.sid).sid = tb.sid
        BY <2>2, <3>1 DEF CoherentAt
      <3> QED
        BY <2>2, <3>1, <3>2, GoodEndRefresh
    <2>3. CASE /\ r.cur
               /\ rf' = [rf EXCEPT ![t].pc = "wait", ![t].att = @ + 1, ![t].rep = "none"]
               /\ UNCHANGED <<lock, tab, inbox>>
      <3>1. rf'[t].pc = "wait" /\ rf'[t].cur = r.cur /\ rf'[t].tok = r.tok
        BY <2>3, <1>t DEF Refreshes
      <3>2. \A u \in Tabs \ {t} : rf'[u] = rf[u]
        BY <2>3, <1>t
      <3> QED
        BY <2>3, <3>1, <3>2 DEF Good, Frame, KeepsAt, CoherentAt
    <2>4. CASE /\ tab' = [tab EXCEPT ![t] = Reset(@, "idle")]
               /\ rf' = [rf EXCEPT ![t] =
                     [NewRefresh EXCEPT !.pc = "sent", !.retry = FALSE, !.tok = cookie]]
      <3>1. tab'[t].sid = NoSid /\ rf'[t].pc = "sent"
        BY <2>4, <1>t, <2>s, Constants DEF Refreshes
      <3>2. \A u \in Tabs \ {t} : rf'[u] = rf[u] /\ tab'[u] = tab[u]
        BY <2>4, <1>t
      <3> QED
        BY <3>1, <3>2 DEF Good, Frame, KeepsAt, CoherentAt
    <2>5. CASE EndRefresh(t, Reset(tb, "complete"), "out_of_sync", inbox)
      BY <2>5, <2>s, GoodEndRefresh
    <2>6. CASE EndRefresh(t, Reset(tb, "complete"), "anonymous", Publish(t, "signed_out", tb.sid))
      BY <2>6, <2>s, GoodEndRefresh
    <2>7. CASE EndRefresh(t, [tb EXCEPT !.boot = "idle"], "transient", inbox)
      BY <2>7, <2>s, GoodEndRefresh
    <2> QED
      BY <1>2, <2>1, <2>2, <2>3, <2>4, <2>5, <2>6, <2>7 DEF Receive
  <1> QED
    BY <1>1, <1>2 DEF Acquire, RunAgain

\* Sign-out and events forget the session of the tab, or leave it alone.
LEMMA GoodOther ==
    ASSUME TypeOK, NEW t \in Tabs, CoherentAt(t),
           SignOut(t) \/ SignOutAgain(t) \/ SignOutLost(t) \/ Deliver(t) \/ DropEvent(t)
    PROVE  Good(t)
  <1>t. /\ tab \in [Tabs -> Stores] /\ rf \in [Tabs -> Refreshes]
        /\ tab[t] \in Stores /\ LogoutEnds(t) \in SUBSET Sids
        /\ \A u \in Tabs : rf[u] \in Refreshes /\ rf[u].tok \in Tokens
    BY DEF TypeOK, LogoutEnds, Refreshes
  <1>d. \A S \in SUBSET Sids, u \in Tabs :
           /\ Discarded(S)[u] \in Refreshes
           /\ Discarded(S)[u].pc = rf[u].pc /\ Discarded(S)[u].cur = rf[u].cur
           /\ Discarded(S)[u].tok.sid = rf[u].tok.sid
    <2> TAKE S \in SUBSET Sids, u \in Tabs
    <2>1. Dead(rf[u].tok, S) \in Tokens /\ Dead(rf[u].tok, S).sid = rf[u].tok.sid
      BY <1>t, TokenTypes
    <2>2. Discarded(S)[u] = [rf[u] EXCEPT !.tok = Dead(@, S)]
      BY DEF Discarded
    <2> QED
      BY <2>1, <2>2, <1>t DEF Refreshes
  <1>w. \A w : [tab[t] EXCEPT !.wait = w].sid = tab[t].sid
    BY <1>t DEF Stores
  <1>r. Reset(tab[t], "complete").sid = NoSid /\ [Reset(tab[t], "complete") EXCEPT !.wait = "none"].sid = NoSid
    BY <1>t DEF Stores, Reset
  <1>s. \A q \in Refreshes : (q.pc = "none" => ~q.cur) => ~Superseded(q).cur
    BY DEF Superseded, Refreshes
  <1>o. ASSUME /\ tab' = [tab EXCEPT ![t] = [Reset(@, "complete") EXCEPT !.wait = "none"]]
               /\ rf' = [Discarded(LogoutEnds(t)) EXCEPT ![t] = Superseded(@)]
        PROVE  Good(t)
    <2>1. tab'[t].sid = NoSid /\ \A u \in Tabs \ {t} : tab'[u] = tab[u]
      BY <1>o, <1>t, <1>r
    <2>2. /\ rf'[t] = Superseded(Discarded(LogoutEnds(t))[t])
          /\ \A u \in Tabs \ {t} : rf'[u] = Discarded(LogoutEnds(t))[u]
      BY <1>o DEF Discarded
    <2>3. ~rf'[t].cur
      BY <2>2, <1>d, <1>s, <1>t DEF CoherentAt
    <2>4. \A u \in Tabs \ {t} : /\ rf'[u].pc = rf[u].pc /\ rf'[u].cur = rf[u].cur
                                /\ rf'[u].tok.sid = rf[u].tok.sid
      BY <2>2, <1>d, <1>t
    <2> QED
      BY <2>1, <2>3, <2>4 DEF Good, Frame, KeepsAt, CoherentAt
  <1>1. CASE SignOut(t)
    <2>1. CASE Mismatch(t)
      <3>1. tab' = [tab EXCEPT ![t].wait = "out"] /\ Refreshing(t)
        BY <1>1, <2>1 DEF SignOut, Logout
      <3>2. tab'[t].sid = tab[t].sid /\ \A u \in Tabs \ {t} : tab'[u] = tab[u]
        BY <3>1, <1>t, <1>w
      <3> QED
        BY <3>1, <3>2, GoodRefreshing DEF Good, Frame, KeepsAt, CoherentAt
    <2>2. CASE ~Mismatch(t)
      BY <1>1, <2>2, <1>o DEF SignOut, Logout
    <2> QED
      BY <2>1, <2>2
  <1>2. CASE SignOutAgain(t)
    <2>1. CASE Mismatch(t)
      <3>1. tab' = [tab EXCEPT ![t].wait = "none"] /\ UNCHANGED rf
        BY <1>2, <2>1 DEF SignOutAgain, Logout
      <3>2. tab'[t].sid = tab[t].sid /\ \A u \in Tabs \ {t} : tab'[u] = tab[u]
        BY <3>1, <1>t, <1>w
      <3> QED
        BY <3>1, <3>2 DEF Good, Frame, KeepsAt, CoherentAt
    <2>2. CASE ~Mismatch(t)
      BY <1>2, <2>2, <1>o DEF SignOutAgain, Logout
    <2> QED
      BY <2>1, <2>2
  <1>3. CASE SignOutLost(t)
    <2>1. tab'[t].sid = tab[t].sid /\ \A u \in Tabs \ {t} : tab'[u] = tab[u]
      BY <1>3, <1>t, <1>w DEF SignOutLost
    <2>2. rf' = rf \/ \E S \in SUBSET Sids : rf' = Discarded(S)
      BY <1>3, <1>t DEF SignOutLost
    <2>3. \A u \in Tabs : /\ rf'[u].pc = rf[u].pc /\ rf'[u].cur = rf[u].cur
                         /\ rf'[u].tok.sid = rf[u].tok.sid
      BY <2>2, <1>d
    <2> QED
      BY <2>1, <2>3 DEF Good, Frame, KeepsAt, CoherentAt
  <1>4. CASE Deliver(t)
    <2>1. CASE Reload(t)
      BY <2>1, GoodReload
    <2>2. CASE /\ tab' = [tab EXCEPT ![t] = Reset(@, "complete")]
               /\ rf' = [rf EXCEPT ![t] = Superseded(@)]
      <3>1. tab'[t].sid = NoSid /\ \A u \in Tabs \ {t} : tab'[u] = tab[u] /\ rf'[u] = rf[u]
        BY <2>2, <1>t, <1>r
      <3>2. ~rf'[t].cur
        BY <2>2, <1>s, <1>t DEF CoherentAt
      <3> QED
        BY <3>1, <3>2 DEF Good, Frame, KeepsAt, CoherentAt
    <2>3. CASE UNCHANGED <<lock, tab, rf>>
      BY <2>3 DEF Good, Frame, KeepsAt, CoherentAt
    <2> QED
      BY <1>4, <2>1, <2>2, <2>3 DEF Deliver
  <1>5. CASE DropEvent(t)
    BY <1>5 DEF DropEvent, Good, Frame, KeepsAt, CoherentAt
  <1> QED
    BY <1>1, <1>2, <1>3, <1>4, <1>5

\* One step keeps the invariant, and no tab changes its session but by a sign-in.
LEMMA StepCoherent ==
    ASSUME TypeOK, Coherent, [Next]_vars
    PROVE  Coherent' /\ \A t \in Tabs : KeepsAt(t)
  <1>1. ASSUME NEW t \in Tabs, TabStep(t) PROVE Coherent' /\ \A u \in Tabs : KeepsAt(u)
    <2>1. CoherentAt(t)
      BY DEF Coherent
    <2>2. Good(t)
      BY <1>1, <2>1, GoodStart, GoodServer, GoodClient, GoodOther DEF TabStep
    <2>3. ASSUME NEW u \in Tabs PROVE CoherentAt(u)' /\ KeepsAt(u)
      <3>1. CASE u = t
        BY <3>1, <2>2 DEF Good
      <3>2. CASE u # t
        BY <3>2, <2>2 DEF Good, Frame, Coherent, CoherentAt, KeepsAt
      <3> QED
        BY <3>1, <3>2
    <2> QED
      BY <2>3 DEF Coherent
  <1>2. ASSUME UNCHANGED <<tab, rf>> PROVE Coherent' /\ \A u \in Tabs : KeepsAt(u)
    BY <1>2 DEF Coherent, CoherentAt, KeepsAt
  <1>3. ASSUME NEW s \in Sids, GraceEnds(s) PROVE UNCHANGED <<tab, rf>>
    BY <1>3 DEF GraceEnds
  <1> QED
    BY <1>1, <1>2, <1>3 DEF Next, vars

\* Whatever is lost, superseded or raced, and however many tabs and logins there are: a running
\* page goes from one session to another only by its own sign-in, to the session that it creates.
THEOREM SessionIsStable == Spec => NeverSwitches
  <1>1. Init => Coherent
    <2>1. NoRefresh.tok.sid = NoSid /\ ~NoRefresh.cur
      BY DEF NoRefresh, NoToken
    <2> QED
      BY <2>1 DEF Init, Coherent, CoherentAt
  <1>2. TypeOK /\ Coherent /\ [Next]_vars => Coherent'
    BY StepCoherent
  <1>3. TypeOK /\ Coherent /\ [Next]_vars =>
           [\A t \in Tabs :
               tab[t].sid # NoSid /\ tab'[t].sid \notin {NoSid, tab[t].sid}
               => srv[tab'[t].sid].st = "unborn"]_vars
    BY StepCoherent DEF KeepsAt
  <1> QED
    BY <1>1, <1>2, <1>3, TypeCorrect, PTL DEF Spec, NeverSwitches

-----------------------------------------------------------------------------
(* The tabs never make the server take their session for stolen.           *)

\* Nothing has been lost, in a browser with locks.
Quiet == locks /\ lost = 0

\* A token is of a session that was created and not taken for stolen.
Known(tok) == tok.sid # NoSid => srv[tok.sid].st \notin {"unborn", "reused"}

\* Only the holder of the lock has a token on its way.  While its session is active, a token that
\* was sent is as old as the cookie of the same session, and the token of a reply is not the
\* previous one.
CalmAt(t) ==
    /\ rf[t].pc \in {"none", "queued"} => rf[t].tok = NoToken
    /\ rf[t].pc # "wait" /\ (rf[t].pc = "replied" => rf[t].rep # "race")
    /\ rf[t].pc \in {"sent", "replied"} => lock = t
    /\ Known(rf[t].tok)
    /\ Active(rf[t].tok.sid) =>
          /\ rf[t].pc = "sent" /\ cookie.sid = rf[t].tok.sid => cookie.age = rf[t].tok.age
          /\ rf[t].pc = "replied" => rf[t].tok.age # 1

\* The invariant behind NoFalseReuse: while the cookie is the previous token of an active session,
\* the server still accepts it.
CalmCookie ==
    /\ Known(cookie)
    /\ cookie.age = 1 /\ Active(cookie.sid) => srv[cookie.sid].grace
CalmState == CalmCookie /\ \A t \in Tabs : CalmAt(t)
Calm == Quiet => CalmState

\* A step of tab t that leaves the cookie and the server alone.
LEMMA CalmFrame ==
    ASSUME CalmState, NEW t \in Tabs, UNCHANGED <<srv, cookie>>,
           \A u \in Tabs \ {t} : rf'[u] = rf[u] /\ (lock = u => lock' = u),
           CalmAt(t)'
    PROVE  CalmState'
  <1>1. ASSUME NEW u \in Tabs PROVE CalmAt(u)'
    <2>1. CASE u = t
      BY <2>1
    <2>2. CASE u # t
      BY <2>2 DEF CalmState, CalmAt, Known, Active
    <2> QED
      BY <2>1, <2>2
  <1>2. CalmCookie'
    BY DEF CalmState, CalmCookie, Known, Active
  <1> QED
    BY <1>1, <1>2 DEF CalmState

\* A refresh without a token is calm in any state of the server.
LEMMA CalmIdle ==
    ASSUME NEW t \in Tabs, rf'[t].tok = NoToken, rf'[t].pc \in {"none", "queued"}
    PROVE  CalmAt(t)'
BY DEF CalmAt, Known, Active, NoToken

\* A refresh in flight that keeps its step and its token.
LEMMA CalmKept ==
    ASSUME NEW t \in Tabs, CalmAt(t), UNCHANGED <<srv, cookie, lock>>,
           rf'[t].pc = rf[t].pc, rf'[t].tok = rf[t].tok, rf'[t].rep = rf[t].rep
    PROVE  CalmAt(t)'
BY DEF CalmAt, Known, Active

\* A superseded refresh keeps its step and its token.
LEMMA SupersededKeeps ==
    ASSUME NEW r \in Refreshes
    PROVE  Superseded(r).pc = r.pc /\ Superseded(r).tok = r.tok /\ Superseded(r).rep = r.rep
BY DEF Superseded, Refreshes

\* The tabs that do not hold the lock have no token.
LEMMA OthersHaveNone ==
    ASSUME TypeOK, CalmState, NEW t \in Tabs, rf[t].pc \in {"sent", "replied"}
    PROVE  /\ lock = t
           /\ \A u \in Tabs \ {t} : rf[u].tok = NoToken /\ rf[u].pc \in {"none", "queued"}
  <1>1. lock = t
    BY DEF CalmState, CalmAt
  <1>2. \A u \in Tabs : rf[u].pc \in {"none", "queued", "sent", "replied", "wait"}
    BY DEF TypeOK, Refreshes
  <1> QED
    BY <1>1, <1>2 DEF CalmState, CalmAt

\* The empty token and new refreshes.
LEMMA NewRefreshes ==
    /\ NoRefresh.tok = NoToken /\ NoRefresh.pc = "none"
    /\ NewRefresh.tok = NoToken /\ NewRefresh.pc = "queued"
    /\ NoToken.sid = NoSid
BY DEF NoRefresh, NewRefresh, NoToken

\* A page that is loaded anew.
LEMMA CalmReload ==
    ASSUME TypeOK, CalmState, NEW t \in Tabs, Reload(t), UNCHANGED <<srv, cookie>>
    PROVE  CalmState'
  <1>1. rf'[t] = NoRefresh /\ \A u \in Tabs \ {t} : rf'[u] = rf[u] /\ (lock = u => lock' = u)
    BY DEF TypeOK, Reload
  <1>2. CalmAt(t)'
    BY <1>1, NewRefreshes, CalmIdle
  <1> QED
    BY <1>1, <1>2, CalmFrame

\* A refresh that is over, with the cookie as it was.
LEMMA CalmEndRefresh ==
    ASSUME TypeOK, CalmState, NEW t \in Tabs, NEW tb, NEW outcome, NEW events,
           EndRefresh(t, tb, outcome, events), UNCHANGED <<srv, cookie>>
    PROVE  CalmState'
  <1>1. rf'[t] = NoRefresh /\ \A u \in Tabs \ {t} : rf'[u] = rf[u] /\ (lock = u => lock' = u)
    BY DEF TypeOK, EndRefresh
  <1>2. CalmAt(t)'
    BY <1>1, NewRefreshes, CalmIdle
  <1> QED
    BY <1>1, <1>2, CalmFrame

\* In a browser with locks a refresh that is started waits for the lock.
LEMMA CalmRefreshing ==
    ASSUME TypeOK, CalmState, locks, NEW t \in Tabs, Refreshing(t), UNCHANGED <<srv, cookie, lock>>
    PROVE  CalmState'
  <1>1. rf'[t] \in {rf[t], NewRefresh} /\ \A u \in Tabs \ {t} : rf'[u] = rf[u]
    BY DEF TypeOK, Refreshing
  <1>2. CASE rf'[t] = rf[t]
    <2>1. CalmAt(t)'
      BY <1>2, CalmKept DEF CalmState
    <2> QED
      BY <2>1, <1>1, CalmFrame
  <1>3. CASE rf'[t] = NewRefresh
    <2>1. CalmAt(t)'
      BY <1>3, NewRefreshes, CalmIdle
    <2> QED
      BY <2>1, <1>1, CalmFrame
  <1> QED
    BY <1>1, <1>2, <1>3

\* A superseded refresh of tab t, and nothing else that matters here.
LEMMA CalmSuperseded ==
    ASSUME TypeOK, CalmState, NEW t \in Tabs, rf' = [rf EXCEPT ![t] = Superseded(@)],
           UNCHANGED <<srv, cookie, lock>>
    PROVE  CalmState'
  <1>1. /\ rf'[t].pc = rf[t].pc /\ rf'[t].tok = rf[t].tok /\ rf'[t].rep = rf[t].rep
        /\ \A u \in Tabs \ {t} : rf'[u] = rf[u]
    BY SupersededKeeps DEF TypeOK
  <1>2. CalmAt(t)'
    BY <1>1, CalmKept DEF CalmState
  <1> QED
    BY <1>1, <1>2, CalmFrame

\* A login creates a session of which there are no tokens.
LEMMA CalmLogin ==
    ASSUME TypeOK, CalmState, NEW t \in Tabs, Login(t)
    PROVE  CalmState'
  <1>1. PICK s \in Sids : /\ srv[s].st = "unborn"
                         /\ srv' = [srv EXCEPT ![s].st = "active"]
                         /\ cookie' = [sid |-> s, age |-> 0]
    BY DEF Login
  <1>2. \A u \in Tabs : rf'[u].pc = rf[u].pc /\ rf'[u].tok = rf[u].tok /\ rf'[u].rep = rf[u].rep
    BY SupersededKeeps DEF TypeOK, Login
  <1>3. srv'[s].st = "active" /\ \A q \in Sids \ {s} : srv'[q] = srv[q]
    BY <1>1 DEF TypeOK, Sessions
  <1>4. \A u \in Tabs : rf[u].tok.sid # s /\ rf[u].tok.sid \in {NoSid} \cup Sids
    BY <1>1, Constants DEF CalmState, CalmAt, Known, TypeOK, Refreshes, Tokens
  <1>5. s # NoSid
    BY Constants
  <1>6. CalmCookie'
    BY <1>1, <1>3 DEF CalmCookie, Known
  <1>7. lock' = lock
    BY DEF Login
  <1>8. ASSUME NEW u \in Tabs PROVE CalmAt(u)'
    BY <1>1, <1>2, <1>3, <1>4, <1>7, <1>8 DEF CalmState, CalmAt, Known, Active
  <1> QED
    BY <1>6, <1>8 DEF CalmState

\* What starts things in a tab.
LEMMA CalmStart ==
    ASSUME TypeOK, CalmState, locks, NEW t \in Tabs,
           \/ Login(t) \/ Expire(t) \/ Navigate(t) \/ FreshHeaders(t) \/ ApiCall(t)
           \/ Rotation(t) \/ UserReload(t)
    PROVE  CalmState'
  <1>0. ASSUME UNCHANGED <<srv, cookie, lock, rf>> PROVE CalmState'
    BY <1>0, CalmKept, CalmFrame DEF CalmState
  <1>1. CASE Login(t)
    BY <1>1, CalmLogin
  <1>2. CASE Expire(t)
    BY <1>2, <1>0 DEF Expire
  <1>3. CASE Navigate(t)
    BY <1>3, <1>0, CalmRefreshing DEF Navigate
  <1>4. CASE FreshHeaders(t)
    BY <1>4, CalmRefreshing DEF FreshHeaders
  <1>5. CASE ApiCall(t)
    BY <1>5, CalmRefreshing DEF ApiCall
  <1>6. CASE Rotation(t)
    BY <1>6, CalmSuperseded DEF Rotation
  <1>7. CASE UserReload(t)
    BY <1>7, CalmReload DEF UserReload
  <1> QED
    BY <1>1, <1>2, <1>3, <1>4, <1>5, <1>6, <1>7

\* The request of a refresh carries the cookie, and its sender holds the lock.
LEMMA CalmAcquire ==
    ASSUME TypeOK, CalmState, locks, NEW t \in Tabs, Acquire(t)
    PROVE  CalmState'
  <1>u. UNCHANGED <<srv, cookie>> /\ lock = NoTab /\ Run(t)
    BY DEF Acquire
  <1>1. CASE rf[t].cur
    <2>1. rf' = [rf EXCEPT ![t] = Sent(t, rf[t])] /\ lock' = t
      BY <1>u, <1>1 DEF Run
    <2>2. /\ rf'[t].pc = "sent" /\ rf'[t].tok = IF Mismatch(t) THEN NoToken ELSE cookie
          /\ \A u \in Tabs \ {t} : rf'[u] = rf[u]
      BY <2>1 DEF TypeOK, Sent, Refreshes
    <2>3. CalmAt(t)'
      BY <2>1, <2>2, <1>u, NewRefreshes DEF CalmState, CalmCookie, CalmAt, Known, Active
    <2>4. \A u \in Tabs \ {t} : lock # u
      BY <1>u, TabsAssumption
    <2> QED
      BY <2>2, <2>3, <2>4, <1>u, CalmFrame
  <1>2. CASE ~rf[t].cur
    BY <1>2, <1>u, CalmEndRefresh DEF Run
  <1> QED
    BY <1>1, <1>2

\* An answer that carries no token and leaves the cookie and the server alone.
LEMMA CalmRefused ==
    ASSUME TypeOK, CalmState, NEW t \in Tabs, NEW rep, rep # "race", rf[t].pc = "sent",
           rf' = [rf EXCEPT ![t] = Answer(t, rep, NoToken)], UNCHANGED <<srv, cookie, lock>>
    PROVE  CalmState'
  <1>1. /\ rf'[t].pc = "replied" /\ rf'[t].tok = NoToken /\ rf'[t].rep = rep
        /\ \A u \in Tabs \ {t} : rf'[u] = rf[u]
    BY DEF TypeOK, Answer, Refreshes
  <1>2. CalmAt(t)'
    BY <1>1, OthersHaveNone, NewRefreshes DEF CalmAt, Known, Active
  <1> QED
    BY <1>1, <1>2, CalmFrame

\* RefreshAuth: a rotation ages the cookie and opens the window for it; a previous token of the
\* cookie's session is still accepted, so a session that is taken for stolen is another one.
LEMMA CalmServe ==
    ASSUME TypeOK, CalmState, NEW t \in Tabs, Serve(t)
    PROVE  CalmState'
  <1> DEFINE tok == rf[t].tok
             s == tok.sid
  <1>t. /\ rf \in [Tabs -> Refreshes] /\ rf[t].pc = "sent" /\ UNCHANGED lock
        /\ tok \in Tokens /\ cookie \in Tokens /\ s \in {NoSid} \cup Sids
        /\ \A u \in Tabs : rf[u] \in Refreshes
    BY DEF TypeOK, Refreshes, Tokens, Serve
  <1>o. /\ lock = t
        /\ \A u \in Tabs \ {t} : rf[u].tok = NoToken /\ rf[u].pc \in {"none", "queued"}
    BY <1>t, OthersHaveNone
  <1>c. CalmAt(t) /\ CalmCookie
    BY DEF CalmState
  <1>a. \A rep, k : /\ Answer(t, rep, k).pc = "replied" /\ Answer(t, rep, k).tok = k
                   /\ Answer(t, rep, k).rep = rep
    BY <1>t DEF Answer, Refreshes
  <1>n. NoToken \in Tokens /\ NoToken.sid = NoSid /\ NoSid \notin Sids
    BY Constants, NewRefreshes
  <1>1. CASE \E rep \in {"mismatch", "unauth"} :
                rf' = [rf EXCEPT ![t] = Answer(t, rep, NoToken)] /\ UNCHANGED <<srv, cookie>>
    BY <1>1, <1>t, CalmRefused
  <1>2. CASE /\ Active(s) /\ tok.age = 0
             /\ srv' = [srv EXCEPT ![s].grace = TRUE]
             /\ cookie' = Older(cookie, s)
             /\ rf' = [u \in Tabs |->
                   IF u = t THEN Answer(t, "ok", tok) ELSE [rf[u] EXCEPT !.tok = Older(@, s)]]
    <2>1. s \in Sids
      BY <1>2, <1>t DEF Active
    <2>2. /\ srv'[s].grace /\ srv'[s].st = srv[s].st
          /\ \A q \in Sids \ {s} : srv'[q] = srv[q]
      BY <1>2, <2>1 DEF TypeOK, Sessions
    <2>3. rf'[t].pc = "replied" /\ rf'[t].tok = tok /\ rf'[t].rep # "race"
      BY <1>2, <1>a
    <2>4. Older(NoToken, s) = NoToken
      BY <1>n, <2>1 DEF Older
    <2>5. \A u \in Tabs \ {t} : rf'[u].pc = rf[u].pc /\ rf'[u].tok = NoToken
      BY <1>2, <1>o, <1>t, <2>4 DEF Refreshes
    <2>6. /\ cookie'.sid = cookie.sid
          /\ cookie'.sid # s => cookie' = cookie
      BY <1>2, <1>t DEF Older, Tokens
    <2>7. CalmCookie'
      BY <2>1, <2>2, <2>6, <1>c, <1>t DEF CalmCookie, Known, Active, Tokens
    <2>8. CalmAt(t)'
      BY <2>2, <2>3, <1>2, <1>t, <1>o, <1>c DEF CalmAt, Known, Active
    <2>9. \A u \in Tabs \ {t} : CalmAt(u)'
      BY <2>5, <1>o, CalmIdle
    <2> QED
      BY <2>7, <2>8, <2>9 DEF CalmState
  <1>3. CASE rf' = [rf EXCEPT ![t] = Answer(t, "ok", [tok EXCEPT !.age = 0])] /\ UNCHANGED <<srv, cookie>>
    <2>1. /\ rf'[t].pc = "replied" /\ rf'[t].tok.sid = s /\ rf'[t].tok.age = 0 /\ rf'[t].rep # "race"
          /\ \A u \in Tabs \ {t} : rf'[u] = rf[u]
      BY <1>3, <1>t, <1>a DEF Tokens
    <2>2. CalmAt(t)'
      BY <2>1, <1>3, <1>t, <1>o, <1>c DEF CalmAt, Known, Active
    <2> QED
      BY <2>1, <2>2, <1>3, <1>t, CalmFrame
  <1>4. CASE /\ Active(s) /\ tok.age = 1 /\ ~srv[s].grace
             /\ srv' = Ended({s}, "reused")
             /\ cookie' = Dead(cookie, {s})
             /\ rf' = [Discarded({s}) EXCEPT ![t] = Answer(t, "unauth", NoToken)]
    <2>1. s \in Sids /\ cookie.sid # s
      BY <1>4, <1>t, <1>c DEF Active, CalmAt, CalmCookie
    <2>2. cookie' = cookie
      BY <1>4, <2>1 DEF Dead
    <2>3. \A q \in Sids \ {s} : srv'[q] = srv[q]
      BY <1>4 DEF Ended
    <2>4. rf'[t].pc = "replied" /\ rf'[t].tok = NoToken /\ rf'[t].rep # "race"
      BY <1>4, <1>a DEF Discarded
    <2>5. Dead(NoToken, {s}) = NoToken
      BY <1>n, <2>1 DEF Dead
    <2>6. \A u \in Tabs \ {t} : rf'[u].pc = rf[u].pc /\ rf'[u].tok = NoToken
      BY <1>4, <1>o, <1>t, <2>5 DEF Discarded, Refreshes
    <2>7. CalmCookie'
      BY <2>1, <2>2, <2>3, <1>c, <1>t DEF CalmCookie, Known, Active, Tokens
    <2>8. CalmAt(t)'
      BY <2>4, <1>o, <1>t, NewRefreshes DEF CalmAt, Known, Active
    <2>9. \A u \in Tabs \ {t} : CalmAt(u)'
      BY <2>6, <1>o, CalmIdle
    <2> QED
      BY <2>7, <2>8, <2>9 DEF CalmState
  <1> QED
    BY <1>1, <1>2, <1>3, <1>4 DEF Serve

\* The holder of the lock gets its reply: the cookie becomes the token of the reply, or is cleared.
LEMMA CalmReceive ==
    ASSUME TypeOK, CalmState, NEW t \in Tabs, Receive(t)
    PROVE  CalmState'
  <1>t. /\ rf \in [Tabs -> Refreshes] /\ rf[t] \in Refreshes /\ rf[t].pc = "replied" /\ UNCHANGED srv
    BY DEF TypeOK, Receive
  <1>o. /\ lock = t
        /\ \A u \in Tabs \ {t} : rf[u].tok = NoToken /\ rf[u].pc \in {"none", "queued"}
    BY <1>t, OthersHaveNone
  <1>c. CalmAt(t) /\ CalmCookie
    BY DEF CalmState
  <1>1. cookie' \in {cookie, rf[t].tok, NoToken}
    BY DEF Receive
  <1>2. CalmCookie'
    BY <1>1, <1>t, <1>c, NewRefreshes DEF CalmCookie, CalmAt, Known, Active
  <1>3. ASSUME rf'[t] = NoRefresh, \A u \in Tabs \ {t} : rf'[u] = rf[u] PROVE CalmState'
    <2>1. \A u \in Tabs : rf'[u].tok = NoToken /\ rf'[u].pc \in {"none", "queued"}
      BY <1>3, <1>o, NewRefreshes
    <2>2. \A u \in Tabs : CalmAt(u)'
      BY <2>1, CalmIdle
    <2> QED
      BY <2>2, <1>2 DEF CalmState
  <1>4. CASE \E tb, outcome, events : EndRefresh(t, tb, outcome, events)
    BY <1>4, <1>3, <1>t DEF EndRefresh
  <1>5. CASE /\ cookie' = cookie /\ UNCHANGED lock
             /\ rf' = [rf EXCEPT ![t] =
                    [NewRefresh EXCEPT !.pc = "sent", !.retry = FALSE, !.tok = cookie]]
    <2>1. /\ rf'[t].pc = "sent" /\ rf'[t].tok = cookie
          /\ \A u \in Tabs \ {t} : rf'[u] = rf[u]
      BY <1>5, <1>t, Constants DEF Refreshes
    <2>2. CalmAt(t)'
      BY <2>1, <1>5, <1>t, <1>o, <1>c DEF CalmAt, CalmCookie, Known, Active
    <2> QED
      BY <2>1, <2>2, <1>5, <1>t, CalmFrame
  <1>6. rf[t].rep # "race"
    BY <1>c, <1>t DEF CalmAt
  <1> QED
    BY <1>4, <1>5, <1>6 DEF Receive

\* A sign-out clears the cookie; the tokens of the sessions that end become old.
LEMMA CalmLogout ==
    ASSUME TypeOK, CalmState, NEW t \in Tabs, UNCHANGED lock,
           srv' = Ended(LogoutEnds(t), "ended"), cookie' = NoToken,
           rf' = [Discarded(LogoutEnds(t)) EXCEPT ![t] = Superseded(@)]
    PROVE  CalmState'
  <1> DEFINE S == LogoutEnds(t)
  <1>t. /\ S \in SUBSET Sids /\ NoSid \notin Sids
        /\ \A u \in Tabs : rf[u] \in Refreshes /\ rf[u].tok \in Tokens
    BY Constants DEF TypeOK, Refreshes, LogoutEnds
  <1>1. \A u \in Tabs : /\ rf'[u].pc = rf[u].pc /\ rf'[u].rep = rf[u].rep
                       /\ rf'[u].tok = Dead(rf[u].tok, S)
    <2>1. \A u \in Tabs : /\ Discarded(S)[u].pc = rf[u].pc /\ Discarded(S)[u].rep = rf[u].rep
                         /\ Discarded(S)[u].tok = Dead(rf[u].tok, S)
                         /\ Discarded(S)[u] \in Refreshes
      <3>1. \A u \in Tabs : Discarded(S)[u] \in Refreshes
        BY <1>t, EndedTypes
      <3> QED
        BY <3>1, <1>t DEF Discarded, Refreshes
    <2>2. rf'[t] = Superseded(Discarded(S)[t]) /\ \A u \in Tabs \ {t} : rf'[u] = Discarded(S)[u]
      BY DEF Discarded
    <2> QED
      BY <2>1, <2>2, SupersededKeeps
  <1>2. \A q \in Sids : /\ q \in S => srv'[q].st = "ended"
                        /\ q \notin S => srv'[q] = srv[q]
    BY DEF Ended
  <1>3. \A u \in Tabs : /\ Dead(rf[u].tok, S).sid = rf[u].tok.sid
                        /\ rf[u].tok.sid \notin S => Dead(rf[u].tok, S) = rf[u].tok
                        /\ rf[u].tok.sid \in {NoSid} \cup Sids
    BY <1>t DEF Dead, Tokens
  <1> HIDE DEF S
  <1>4. CalmCookie'
    BY NewRefreshes DEF CalmCookie, Known, Active
  <1>5. ASSUME NEW u \in Tabs PROVE CalmAt(u)'
    <2>1. CalmAt(u)
      BY DEF CalmState
    <2>2. rf'[u].pc \in {"none", "queued"} => rf'[u].tok = NoToken
      <3>1. Dead(NoToken, S) = NoToken
        BY <1>t, NewRefreshes DEF Dead
      <3> QED
        BY <3>1, <2>1, <1>1 DEF CalmAt
    <2>s. rf'[u].tok.sid = rf[u].tok.sid /\ rf[u].tok.sid \in {NoSid} \cup Sids
      BY <1>1, <1>3
    <2>3. Known(rf[u].tok)'
      BY <2>1, <2>s, <1>2 DEF CalmAt, Known
    <2>4. Active(rf[u].tok.sid)' => /\ rf'[u].tok = rf[u].tok /\ Active(rf[u].tok.sid)
                                   /\ cookie'.sid # rf'[u].tok.sid
      BY <2>s, <1>1, <1>2, <1>3, NewRefreshes DEF Active
    <2> QED
      BY <2>1, <2>2, <2>3, <2>4, <1>1 DEF CalmAt
  <1> QED
    BY <1>4, <1>5 DEF CalmState

\* Sign-out and the events of other tabs.
LEMMA CalmOther ==
    ASSUME TypeOK, CalmState, locks, NEW t \in Tabs, SignOut(t) \/ SignOutAgain(t) \/ Deliver(t)
    PROVE  CalmState'
  <1>0. ASSUME UNCHANGED <<srv, cookie, lock, rf>> PROVE CalmState'
    BY <1>0, CalmKept, CalmFrame DEF CalmState
  <1>1. CASE SignOut(t)
    BY <1>1, CalmLogout, CalmRefreshing DEF SignOut, Logout
  <1>2. CASE SignOutAgain(t)
    BY <1>2, <1>0, CalmLogout DEF SignOutAgain, Logout
  <1>3. CASE Deliver(t)
    BY <1>3, <1>0, CalmReload, CalmSuperseded DEF Deliver
  <1> QED
    BY <1>1, <1>2, <1>3

\* One step keeps the invariant, as long as nothing is lost.
LEMMA StepCalm ==
    ASSUME TypeOK, Calm, [Next]_vars
    PROVE  Calm'
  <1> SUFFICES ASSUME Quiet' PROVE CalmState'
    BY DEF Calm
  <1>l. lost \in Nat
    BY TabsAssumption DEF TypeOK
  <1>f. Fault => FALSE
    BY <1>l DEF Fault, Quiet
  <1>1. ASSUME NEW t \in Tabs, TabStep(t) PROVE CalmState'
    <2>1. UNCHANGED locks
      BY <1>1 DEF TabStep, Login, Expire, Navigate, FreshHeaders, ApiCall, Rotation, UserReload,
                  Acquire, RunAgain, Serve, ServeRace, Lose, Receive, SignOut, SignOutAgain,
                  SignOutLost, Deliver, DropEvent
    <2>2. UNCHANGED lost
      BY <1>1, <1>f DEF TabStep, Login, Expire, Navigate, FreshHeaders, ApiCall, Rotation, UserReload,
                  Acquire, RunAgain, Serve, ServeRace, Lose, Receive, SignOut, SignOutAgain,
                  SignOutLost, Deliver, DropEvent
    <2>3. Quiet /\ locks /\ CalmState
      BY <2>1, <2>2 DEF Calm, Quiet
    <2>4. ~ServeRace(t) /\ ~Lose(t) /\ ~SignOutLost(t) /\ ~DropEvent(t)
      BY <1>f DEF ServeRace, Lose, SignOutLost, DropEvent
    <2>5. ~RunAgain(t)
      BY <2>3 DEF RunAgain, CalmState, CalmAt
    <2> QED
      BY <1>1, <2>3, <2>4, <2>5, CalmStart, CalmAcquire, CalmServe, CalmReceive, CalmOther DEF TabStep
  <1>2. ASSUME NEW s \in Sids, GraceEnds(s) PROVE CalmState'
    <2>1. /\ cookie # [sid |-> s, age |-> 1] /\ UNCHANGED <<lost, locks, cookie, rf, lock>>
          /\ srv' = [srv EXCEPT ![s].grace = FALSE]
      BY <1>2, <1>f DEF GraceEnds
    <2>2. CalmState
      BY <2>1 DEF Calm, Quiet
    <2>3. /\ \A q \in Sids : srv'[q].st = srv[q].st
          /\ \A q \in Sids \ {s} : srv'[q] = srv[q]
      BY <2>1 DEF TypeOK, Sessions
    <2>4. /\ cookie \in Tokens /\ cookie.sid \in {NoSid} \cup Sids
          /\ \A u \in Tabs : rf[u].tok.sid \in {NoSid} \cup Sids
      BY DEF TypeOK, Refreshes, Tokens
    <2>5. ~(cookie.sid = s /\ cookie.age = 1)
      BY <2>1, <2>4 DEF Tokens
    <2>6. CalmCookie'
      BY <2>1, <2>2, <2>3, <2>4, <2>5 DEF CalmState, CalmCookie, Known, Active
    <2>7. ASSUME NEW u \in Tabs PROVE CalmAt(u)'
      BY <2>1, <2>2, <2>3, <2>4 DEF CalmState, CalmAt, Known, Active
    <2> QED
      BY <2>6, <2>7 DEF CalmState
  <1>3. CASE UNCHANGED vars
    BY <1>3 DEF vars, Calm, Quiet, CalmState, CalmCookie, CalmAt, Known, Active
  <1> QED
    BY <1>1, <1>2, <1>3 DEF Next

\* In a browser with locks, as long as nothing is lost, the tabs never make the server revoke the
\* browser's session because an old refresh token was replayed, however many tabs there are and
\* however their refreshes, sign-ins, sign-outs and reloads interleave.
THEOREM NoSessionTakenForStolen == Spec => []NoFalseReuse
  <1>1. Init => Calm
    <2>1. Init => CalmCookie
      BY NewRefreshes DEF Init, CalmCookie, Known, Active
    <2>2. ASSUME Init, NEW t \in Tabs PROVE CalmAt(t)
      BY <2>2, NewRefreshes DEF Init, CalmAt, Known, Active
    <2> QED
      BY <2>1, <2>2 DEF Calm, CalmState
  <1>2. TypeOK /\ Calm /\ [Next]_vars => Calm'
    BY StepCalm
  <1>3. Calm => NoFalseReuse
    BY DEF Calm, Quiet, CalmState, CalmCookie, Known, NoFalseReuse
  <1> QED
    BY <1>1, <1>2, <1>3, TypeCorrect, PTL DEF Spec
=============================================================================
