-------------------------- MODULE PlaygroundProofs --------------------------
(***************************************************************************)
(* Proofs about the requests and the chunk buffer of Playground, for any   *)
(* number of generations and any length of answers and conversations.      *)
(***************************************************************************)
EXTENDS Playground, TLAPS

Calls == [state: {"none", "headers", "stream", "http", "done", "over", "cut"},
          ctl: 0..MaxGen, sent: Nat]

\* The part of the type invariant that the requests need.
ControlType ==
    /\ gen \in 0..MaxGen
    /\ pend = [gen |-> pend.gen, text |-> pend.text]
    /\ ctl = [gen |-> ctl.gen, source |-> ctl.source]
    /\ call \in [Gens -> Calls]
    /\ open \subseteq Gens
    /\ flags \in Flags

\* The chat's counter, the controller's and the buffer's generation are one; the timer and the
\* abort controller belong to it or are not set; a request keeps the number it started with.
CountersAgree ==
    /\ ctl.gen = gen
    /\ pend.gen = gen
    /\ timer \in {0, gen}
    /\ abort \in {0, gen}
    /\ \A g \in Gens : call[g].state # "none" => call[g].ctl = g

\* A request that runs is the current one, and the page holds the handle that closes it.
OpenIsHeld ==
    \A g \in open :
        /\ g = gen
        /\ \/ call[g].state = "stream" /\ ctl.source = g /\ flags.streaming
           \/ call[g].state = "http" /\ abort = g /\ flags.requesting

IInv == ControlType /\ CountersAgree /\ OpenIsHeld /\ BufferHasTimer

-----------------------------------------------------------------------------
\* Initially no request runs and nothing is buffered.
LEMMA InitIInv == Init => IInv
  BY ConstantsAssumption DEF Init, IInv, ControlType, CountersAgree, OpenIsHeld, BufferHasTimer,
     Calls, Gens, Flags

\* Letting go of the source and of the abort controller leaves no request running.
LEMMA NothingStaysOpen ==
    ASSUME ControlType, CountersAgree, OpenIsHeld
    PROVE  StillOpen = {}
  BY DEF ControlType, CountersAgree, OpenIsHeld, StillOpen

\* A step that touches neither the requests nor the buffer, nor the flags.
LEMMA Untouched ==
    ASSUME IInv, UNCHANGED <<chat, net, flags>>
    PROVE  IInv'
  BY DEF IInv, ControlType, CountersAgree, OpenIsHeld, BufferHasTimer, chat, net, Calls, Gens, Flags

\* A new generation starts with one request at most and an empty buffer.
LEMMA SendChatIInv ==
    ASSUME IInv, NEW messages, sendChat(messages)
    PROVE  IInv'
<1>1. StillOpen = {}
  BY NothingStaysOpen DEF IInv
<1>2. gen + 1 \in Gens /\ gen \in Nat /\ MaxGen \in Nat
  BY ConstantsAssumption DEF IInv, ControlType, sendChat, Gens
<1>3. PICK stream \in BOOLEAN :
         /\ ctl' = [gen |-> ctl.gen + 1, source |-> 0]
         /\ call' = [call EXCEPT ![gen + 1].state = IF stream THEN "headers" ELSE "http",
                                 ![gen + 1].ctl = ctl.gen + 1]
         /\ abort' = IF stream THEN 0 ELSE gen + 1
         /\ open' = StillOpen \cup (IF stream THEN {} ELSE {gen + 1})
  BY DEF sendChat
<1>4. /\ gen' = gen + 1
      /\ pend' = [gen |-> gen + 1, text |-> <<>>]
      /\ timer' = 0
      /\ flags' = [requesting |-> TRUE, streaming |-> FALSE]
  BY DEF sendChat, Discard
<1>5. call' \in [Gens -> Calls] /\ \A g \in Gens : call'[g].state # "none" => call'[g].ctl = g
  BY <1>2, <1>3 DEF IInv, ControlType, CountersAgree, Calls, Gens
<1>6. ControlType'
  BY <1>1, <1>2, <1>3, <1>4, <1>5 DEF ControlType, Flags, Gens
<1>7. CountersAgree'
  BY <1>2, <1>3, <1>4, <1>5 DEF IInv, CountersAgree
<1>8. OpenIsHeld'
  BY <1>1, <1>2, <1>3, <1>4 DEF IInv, ControlType, OpenIsHeld, Calls
<1>9. BufferHasTimer'
  BY <1>4 DEF BufferHasTimer
<1> QED BY <1>6, <1>7, <1>8, <1>9 DEF IInv

\* A new generation without a request: stop, or the page is left.
LEMMA NewGenerationIInv ==
    ASSUME IInv, gen < MaxGen, gen' = gen + 1, Discard(gen + 1), abort' = 0,
           ctl' = [gen |-> ctl.gen + 1, source |-> 0], call' = call, open' = {},
           flags' = [requesting |-> FALSE, streaming |-> FALSE]
    PROVE  IInv'
<1>1. ControlType'
  BY ConstantsAssumption DEF IInv, ControlType, Flags, Discard
<1>2. CountersAgree'
  BY ConstantsAssumption DEF IInv, ControlType, CountersAgree, Discard
<1>3. OpenIsHeld' /\ BufferHasTimer'
  BY DEF OpenIsHeld, BufferHasTimer, Discard
<1> QED BY <1>1, <1>2, <1>3 DEF IInv

\* The end of an answer empties the buffer of the current generation.
LEMMA EndAnswerBuffer ==
    ASSUME IInv, NEW kind, NEW early, EndAnswer(kind, early)
    PROVE  timer' = 0 /\ pend' = [gen |-> gen, text |-> <<>>]
  BY DEF IInv, ControlType, CountersAgree, EndAnswer

LEMMA FlushTimerIInv ==
    ASSUME IInv, FlushTimer
    PROVE  IInv'
<1>1. timer' = 0 /\ pend' = [gen |-> gen, text |-> <<>>]
  BY DEF IInv, ControlType, CountersAgree, FlushTimer
<1>2. UNCHANGED <<gen, abort, net, flags>>
  BY DEF FlushTimer
<1> QED BY <1>1, <1>2 DEF IInv, ControlType, CountersAgree, OpenIsHeld, BufferHasTimer, net,
              Calls, Gens, Flags

\* A request goes on only when it is the current one: its source is the one that is held.
LEMMA HeadersArriveIInv ==
    ASSUME IInv, NEW g \in Gens, HeadersArrive(g)
    PROVE  IInv'
<1>1. UNCHANGED chat
  BY DEF HeadersArrive
<1>2. CASE ctl.gen # call[g].ctl
  <2>1. /\ call' = [call EXCEPT ![g].state = "over"]
        /\ UNCHANGED <<ctl, open, flags>>
        /\ call[g].state = "headers"
    BY <1>2 DEF HeadersArrive
  <2>2. g \notin open
    BY <2>1 DEF IInv, OpenIsHeld
  <2> QED BY <1>1, <2>1, <2>2 DEF IInv, ControlType, CountersAgree, OpenIsHeld, BufferHasTimer,
                chat, Calls, Gens, Flags
<1>3. CASE ctl.gen = call[g].ctl
  <2>1. /\ call' = [call EXCEPT ![g].state = "stream"]
        /\ ctl' = [ctl EXCEPT !.source = g]
        /\ open' = open \cup {g}
        /\ flags' = [flags EXCEPT !.streaming = TRUE]
        /\ call[g].state = "headers"
    BY <1>3 DEF HeadersArrive
  <2>2. g = gen /\ open \subseteq {g}
    BY <1>3, <2>1 DEF IInv, CountersAgree, OpenIsHeld
  <2>3. ControlType'
    BY <1>1, <2>1 DEF IInv, ControlType, chat, Calls, Flags
  <2>4. CountersAgree'
    BY <1>1, <2>1 DEF IInv, ControlType, CountersAgree, chat, Calls
  <2>5. OpenIsHeld'
    BY <1>1, <2>1, <2>2 DEF IInv, ControlType, OpenIsHeld, chat, Calls, Flags
  <2> QED BY <1>1, <2>3, <2>4, <2>5 DEF IInv, BufferHasTimer, chat
<1> QED BY <1>2, <1>3

LEMMA HeadersFailIInv ==
    ASSUME IInv, NEW g \in Gens, HeadersFail(g)
    PROVE  IInv'
<1>1. /\ call' = [call EXCEPT ![g].state = "over"]
      /\ call[g].state = "headers"
      /\ UNCHANGED <<gen, abort, ctl, open>>
  BY DEF HeadersFail
<1>2. g = gen
  BY DEF HeadersFail, IInv, CountersAgree
<1>3. timer' = 0 /\ pend' = [gen |-> gen, text |-> <<>>]
  BY <1>2, EndAnswerBuffer DEF HeadersFail
<1>4. open = {}
  BY <1>1, <1>2 DEF IInv, OpenIsHeld
<1>5. flags' = [flags EXCEPT !.requesting = FALSE]
  BY <1>2 DEF HeadersFail
<1>6. ControlType'
  BY <1>1, <1>3, <1>5 DEF IInv, ControlType, Calls, Flags
<1>7. CountersAgree'
  BY <1>1, <1>3 DEF IInv, ControlType, CountersAgree, Calls
<1>8. OpenIsHeld' /\ BufferHasTimer'
  BY <1>1, <1>3, <1>4 DEF OpenIsHeld, BufferHasTimer
<1> QED BY <1>6, <1>7, <1>8 DEF IInv

\* A chunk sets the timer.
LEMMA ChunkIInv ==
    ASSUME IInv, NEW g \in Gens, Chunk(g)
    PROVE  IInv'
<1>1. UNCHANGED <<gen, abort, ctl, open, flags>>
  BY DEF Chunk, page
<1>2. g = gen
  BY DEF Chunk, IsCurrent, IInv, CountersAgree
<1>3. PICK n \in (call[g].sent + 1)..MaxLetters :
        /\ call' = [call EXCEPT ![g].sent = n]
        /\ timer' = IF timer = 0 THEN g ELSE timer
        /\ \E text : pend' = [pend EXCEPT !.text = text]
  BY <1>2 DEF Chunk, IInv, CountersAgree
<1>4. n \in Nat
  BY <1>3, ConstantsAssumption DEF IInv, ControlType, Calls
<1>5. ControlType'
  BY <1>1, <1>3, <1>4 DEF IInv, ControlType, Calls
<1>6. CountersAgree'
  BY <1>1, <1>2, <1>3 DEF IInv, ControlType, CountersAgree, Calls
<1>7. OpenIsHeld'
  BY <1>1, <1>3 DEF IInv, ControlType, OpenIsHeld, Calls, Gens
<1>8. BufferHasTimer'
  BY <1>1, <1>2, <1>3 DEF IInv, CountersAgree, BufferHasTimer
<1> QED BY <1>5, <1>6, <1>7, <1>8 DEF IInv

\* The end of a stream closes the only request there is.
LEMMA CloseSourceIInv ==
    ASSUME IInv, NEW g \in Gens, NEW kind, NEW early, IsCurrent(g), CloseSource(g, kind, early)
    PROVE  IInv'
<1>1. g = gen
  BY DEF IsCurrent, IInv, CountersAgree
<1>2. open' = {}
  BY <1>1 DEF CloseSource, IInv, OpenIsHeld
<1>3. timer' = 0 /\ pend' = [gen |-> gen, text |-> <<>>]
  BY <1>1, EndAnswerBuffer DEF CloseSource
<1>4. PICK state \in {"done", "over"} : call' = [call EXCEPT ![g].state = state]
  BY DEF CloseSource
<1>5. /\ ctl' = [ctl EXCEPT !.source = 0]
      /\ flags' = [requesting |-> FALSE, streaming |-> FALSE]
      /\ UNCHANGED <<gen, abort>>
  BY <1>1 DEF CloseSource
<1>6. call[g].ctl = g
  BY DEF IsCurrent, IInv, CountersAgree
<1> QED BY <1>2, <1>3, <1>4, <1>5, <1>6 DEF IInv, ControlType, CountersAgree, OpenIsHeld,
              BufferHasTimer, Calls, Gens, Flags

LEMMA CloseEarlyIInv ==
    ASSUME IInv, NEW g \in Gens, CloseEarly(g)
    PROVE  IInv'
<1>1. open' = {} /\ call' = [call EXCEPT ![g].state = "cut"] /\ UNCHANGED <<chat, ctl, flags>>
  BY DEF CloseEarly, IsCurrent, IInv, CountersAgree, OpenIsHeld, page
<1>2. call[g].ctl = g
  BY DEF CloseEarly, IsCurrent, IInv, CountersAgree
<1> QED BY <1>1, <1>2 DEF IInv, ControlType, CountersAgree, OpenIsHeld, BufferHasTimer, chat,
              Calls, Gens, Flags

LEMMA ResponseIInv ==
    ASSUME IInv, NEW g \in Gens, Response(g)
    PROVE  IInv'
<1>1. /\ open' = {} /\ abort' = 0 /\ flags' = [flags EXCEPT !.requesting = FALSE]
      /\ UNCHANGED <<gen, ctl>>
  BY DEF Response, IInv, OpenIsHeld
<1>2. \/ UNCHANGED <<pend, timer>>
      \/ timer' = 0 /\ pend' = [gen |-> gen, text |-> <<>>]
  BY EndAnswerBuffer DEF Response
<1>3. call' \in [Gens -> Calls] /\ \A h \in Gens : call'[h].state # "none" => call'[h].ctl = h
  <2>1. CASE call' = [call EXCEPT ![g].state = "over"]
    BY <2>1 DEF Response, IInv, ControlType, CountersAgree, Calls
  <2>2. CASE \E n \in 0..MaxLetters : call' = [call EXCEPT ![g].state = "done", ![g].sent = n]
    <3>1. PICK n \in 0..MaxLetters : call' = [call EXCEPT ![g].state = "done", ![g].sent = n]
      BY <2>2
    <3>2. n \in Nat /\ call[g].state = "http" /\ call \in [Gens -> Calls]
      BY ConstantsAssumption DEF Response, IInv, ControlType
    <3>3. /\ DOMAIN call' = Gens
          /\ call'[g] = [call[g] EXCEPT !.state = "done", !.sent = n]
          /\ \A h \in Gens \ {g} : call'[h] = call[h]
          /\ call' = [h \in Gens |-> call'[h]]
      BY <3>1, <3>2
    <3>4. call'[g] \in Calls /\ call'[g].ctl = call[g].ctl
      BY <3>2, <3>3 DEF Calls
    <3>5. call[g].ctl = g
      BY <3>2 DEF IInv, CountersAgree
    <3>6. \A h \in Gens : call'[h] \in Calls
      BY <3>2, <3>3, <3>4
    <3> QED BY <3>3, <3>4, <3>5, <3>6 DEF IInv, CountersAgree
  <2> QED BY <2>1, <2>2 DEF Response
<1>4. CASE UNCHANGED <<pend, timer>>
  BY <1>1, <1>3, <1>4 DEF IInv, ControlType, CountersAgree, OpenIsHeld, BufferHasTimer, Flags
<1>5. CASE timer' = 0 /\ pend' = [gen |-> gen, text |-> <<>>]
  <2>1. ControlType'
    BY <1>1, <1>3, <1>5 DEF IInv, ControlType, Flags
  <2>2. CountersAgree'
    BY <1>1, <1>3, <1>5 DEF IInv, CountersAgree
  <2> QED BY <1>1, <1>5, <2>1, <2>2 DEF IInv, OpenIsHeld, BufferHasTimer
<1> QED BY <1>2, <1>4, <1>5

-----------------------------------------------------------------------------
\* Every step of the page preserves the invariant.
LEMMA NextIInv == IInv /\ [Next]_vars => IInv'
<1> SUFFICES ASSUME IInv, [Next]_vars PROVE IInv'
  OBVIOUS
<1>1. CASE Render \/ Save \/ handleDeleteMessage \/ handleClearMessages \/ saveEdit
  <2>1. UNCHANGED <<chat, net, flags>>
    BY <1>1 DEF Render, Save, handleDeleteMessage, handleClearMessages, saveEdit
  <2> QED BY <2>1, Untouched
<1>2. CASE handleEditMessage \/ handleEditOpenChange \/ UNCHANGED vars
  <2>1. UNCHANGED <<chat, net, flags>>
    BY <1>2 DEF handleEditMessage, handleEditOpenChange, vars, page
  <2> QED BY <2>1, Untouched
<1>3. CASE FlushTimer
  BY <1>3, FlushTimerIInv
<1>4. CASE handleSendMessage \/ handleRegenerateMessage \/ saveEditAndSubmit
  <2>1. PICK messages : sendChat(messages)
    BY <1>4 DEF handleSendMessage, handleRegenerateMessage, saveEditAndSubmit
  <2> QED BY <2>1, SendChatIInv
<1>5. CASE stopGeneration
  <2>1. open' = {}
    BY <1>5, NothingStaysOpen DEF IInv, stopGeneration
  <2> QED BY <1>5, <2>1, NewGenerationIInv DEF stopGeneration
<1>6. CASE Navigate \/ Reload
  <2>1. open' = {}
    BY <1>6, NothingStaysOpen DEF IInv, Navigate, Reload
  <2>2. PICK messages : Mount(messages)
    BY <1>6 DEF Navigate, Reload
  <2> QED BY <2>1, <2>2, NewGenerationIInv DEF Mount
<1>7. ASSUME NEW g \in Gens, Answered(g) \/ Chunk(g) PROVE IInv'
  <2>1. CASE HeadersArrive(g)
    BY <2>1, HeadersArriveIInv
  <2>2. CASE HeadersFail(g)
    BY <2>2, HeadersFailIInv
  <2>3. CASE Done(g) \/ StreamError(g)
    BY <2>3, CloseSourceIInv DEF Done, StreamError
  <2>4. CASE CloseEarly(g)
    BY <2>4, CloseEarlyIInv
  <2>5. CASE Response(g)
    BY <2>5, ResponseIInv
  <2>6. CASE Chunk(g)
    BY <2>6, ChunkIInv
  <2> QED BY <1>7, <2>1, <2>2, <2>3, <2>4, <2>5, <2>6 DEF Answered, HeadersEnd, StreamEnds
<1> QED BY <1>1, <1>2, <1>3, <1>4, <1>5, <1>6, <1>7 DEF Next

\* The invariant holds in every reachable state.
LEMMA Invariance == Spec => []IInv
<1> QED BY InitIInv, NextIInv, PTL DEF Spec

\* However many generations are started, stopped, superseded, left and reloaded, and in whatever
\* order their headers and answers arrive, a request that runs is the one shown as generated.
THEOREM NoOrphanRequestHolds == Spec => []NoOrphanRequest
<1>1. IInv => NoOrphanRequest
  BY DEF IInv, OpenIsHeld, NoOrphanRequest, Busy
<1> QED BY <1>1, Invariance, PTL

\* Text that has been buffered is never left without the timer of flushStreamUpdates.
THEOREM BufferHasTimerHolds == Spec => []BufferHasTimer
<1>1. IInv => BufferHasTimer
  BY DEF IInv
<1> QED BY <1>1, Invariance, PTL
=============================================================================
