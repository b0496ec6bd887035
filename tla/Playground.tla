----------------------------- MODULE Playground -----------------------------
(***************************************************************************)
(* The chat of the web frontend's playground (features/playground): the    *)
(* conversation, the requests that generate answers, as streams or in one  *)
(* piece, the buffer that collects the chunks of a stream, and the copy of *)
(* the conversation in the browser's storage.                              *)
(*                                                                         *)
(* The page is single-threaded: an action is one event handler.  What      *)
(* makes it hard is that React applies the updates of the conversation     *)
(* later, when it renders; that the handlers of the buttons work on what   *)
(* was rendered last; and that a request answers after it was stopped or   *)
(* superseded.  The updates of a click are rendered at its end; the        *)
(* updates of network events and timers wait for a later task (Render).    *)
(***************************************************************************)
EXTENDS Integers, SequencesExt

CONSTANTS MaxGen,       \* bound on the generations
          MaxLetters,   \* bound on the length of an answer
          MaxMessages,  \* bound on the length of the conversation
          MaxStored,    \* MAX_STORED_MESSAGES
          Format,       \* how the provider of each generation sends its chunks
          Script        \* Script[g][i]: letter i of what the provider of generation g says

ASSUME ConstantsAssumption ==
    /\ MaxGen \in Nat \ {0}
    /\ MaxLetters \in Nat
    /\ MaxMessages \in Nat \ {0, 1}
    /\ MaxStored \in Nat \ {0, 1}
    /\ Format \in [1..MaxGen -> {"delta", "snapshot"}]
    /\ Script \in [1..MaxGen -> [1..MaxLetters -> Nat]]

VARIABLES gen,          \* requestGenerationRef
          pend,         \* pendingStreamChunksRef
          timer,        \* the generation of the flush timer, 0 when none is set
          abort,        \* the generation of abortControllerRef, 0 when null
          ctl,          \* the stream controller: its generation and its source
          call,         \* call[g]: the request of generation g
          open,         \* requests that are running and have not been closed or aborted
          flags,        \* isRequesting and isStreaming, as set last
          seen,         \* the same, as rendered last
          base,         \* the conversation as rendered last
          queue,        \* updates of the conversation that React has not applied
          latest,       \* latestMessagesRef
          saving,       \* is the save timer set?
          store,        \* the conversation in localStorage
          editing,      \* the key of the message in the editor, or NoKey
          clobbered     \* history: an edit was saved over updates that were not rendered

chat == <<gen, pend, timer, abort>>
net == <<ctl, call, open>>
page == <<flags, seen, base, queue, latest, saving>>
vars == <<chat, net, page, store, editing, clobbered>>

Gens == 1..MaxGen
NoKey == <<"none", 0>>

\* A letter of an answer, with its generation: what is said may repeat itself.  Own is a text
\* that is not the provider's: an error message, or what the user wrote.
Letter(g, i) == <<g, Script[g][i]>>
Own == <<<<0, 0>>>>

\* The first n letters of answer g, and the letters after the first a up to b.
Word(g, n) == [i \in 1..n |-> Letter(g, i)]
Segment(g, a, b) == [i \in 1..(b - a) |-> Letter(g, a + i)]

\* The conversation that an earlier visit may have left in the storage.
Earlier == <<[key |-> <<"user", 0>>, status |-> "none", text |-> Own],
             [key |-> <<"assistant", 0>>, status |-> "complete", text |-> Own]>>

\* What the provider of generation g has sent in all.
Sent(g) == Word(g, call[g].sent)

Answer(g) == [key |-> <<"assistant", g>>, status |-> "loading", text |-> <<>>]
Prompt(g) == [key |-> <<"user", g>>, status |-> "none", text |-> Own]
IsAnswer(m) == m.key[1] = "assistant"
Pending(m) == m.status \in {"loading", "streaming"}
Final(m) == m.status \in {"complete", "error"}
Busy(f) == f.requesting \/ f.streaming

-----------------------------------------------------------------------------
(* Chunks.  Some providers send the text since the last chunk, others the  *)
(* whole text so far.                                                      *)

mergePendingStreamChunk(current, next) ==
    IF current = <<>> \/ ~IsPrefix(current, next) THEN current \o next ELSE next

\* Variant: a chunk is always what follows the text so far.
getAppendableChunk_Always(current, chunk) == chunk

getAppendableChunk(current, chunk) ==
    IF current = <<>> \/ ~IsPrefix(current, chunk) THEN chunk
    ELSE SubSeq(chunk, Len(current) + 1, Len(chunk))

(* Updates of the conversation.                                            *)

applyStreamingChunk(m, chunk) ==
    IF m.status = "error" THEN m
    ELSE [m EXCEPT !.text = @ \o getAppendableChunk(@, chunk), !.status = "streaming"]

Updated(u, m) ==
    CASE u.kind = "chunk"    -> applyStreamingChunk(m, u.text)
      [] u.kind = "complete" -> IF Final(m) THEN m ELSE [m EXCEPT !.status = "complete"]
      [] u.kind = "stop"     -> IF Pending(m) THEN [m EXCEPT !.status = "complete"] ELSE m
      [] u.kind = "error"    -> [m EXCEPT !.status = "error", !.text = Own]
      [] u.kind = "response" -> [m EXCEPT !.status = "complete", !.text = u.text]

\* An updater looks at the current generation g when React calls it.
Apply(u, messages, g) ==
    CASE u.kind = "set" -> u.messages
      [] u.kind # "set" /\ (u.gen # g \/ messages = <<>> \/ ~IsAnswer(Last(messages))) -> messages
      [] OTHER -> [messages EXCEPT ![Len(messages)] = Updated(u, @)]

ApplyAll(us, messages, g) ==
    LET after[n \in 0..Len(us)] == IF n = 0 THEN messages ELSE Apply(us[n], after[n - 1], g)
    IN  after[Len(us)]

Update(kind, text) == [kind |-> kind, gen |-> gen, text |-> text]
Set(messages) == [kind |-> "set", messages |-> messages]

\* React keeps an update for the next render, or, when nothing waits for a render, may apply it
\* at once (early); the updater also notes the conversation for the storage.
Enqueue(us, early) ==
    IF us = <<>> THEN UNCHANGED <<queue, latest, saving>>
    ELSE \/ queue' = queue \o us /\ UNCHANGED <<latest, saving>>
         \/ /\ early /\ queue = <<>> /\ flags = seen
            /\ LET first == Apply(Head(us), base, gen)
               IN  /\ queue' = <<Set(first)>> \o Tail(us)
                   /\ latest' = first
                   /\ saving' = TRUE

-----------------------------------------------------------------------------
(* The storage                                                             *)

\* Variant: nothing is trimmed.
trimMessages_Keeps(ms) == ms

trimMessages(ms) ==
    IF Len(ms) <= MaxStored THEN ms ELSE SubSeq(ms, Len(ms) - MaxStored + 1, Len(ms))

\* A pending message that has some text is complete.
Normalized(m) == IF Pending(m) /\ m.text # <<>> THEN [m EXCEPT !.status = "complete"] ELSE m

\* The last pending message is repaired.
sanitizeMessagesOnLoad(ms) ==
    LET pending == {i \in DOMAIN ms : IsAnswer(ms[i]) /\ Pending(ms[i])}
    IN  IF pending = {} THEN ms
        ELSE [ms EXCEPT ![Max(pending)] = IF @.text # <<>> THEN [@ EXCEPT !.status = "complete"]
                                          ELSE [@ EXCEPT !.status = "error", !.text = Own]]

loadMessages == sanitizeMessagesOnLoad(trimMessages([i \in DOMAIN store |-> Normalized(store[i])]))

\* The timer of persistMessages.
Save ==
    /\ saving
    /\ store' = trimMessages(latest)
    /\ saving' = FALSE
    /\ UNCHANGED <<chat, net, flags, seen, base, queue, latest, editing, clobbered>>

-----------------------------------------------------------------------------
Init ==
    /\ gen = 0
    /\ pend = [gen |-> 0, text |-> <<>>]
    /\ timer = 0
    /\ abort = 0
    /\ ctl = [gen |-> 0, source |-> 0]
    /\ call = [g \in Gens |-> [state |-> "none", ctl |-> 0, sent |-> 0]]
    /\ open = {}
    /\ flags = [requesting |-> FALSE, streaming |-> FALSE]
    /\ seen = flags
    /\ store \in {<<>>, Earlier}
    /\ base = store
    /\ queue = <<>>
    /\ latest = store
    /\ saving = FALSE
    /\ editing = NoKey
    /\ clobbered = FALSE

\* The end of a click: its updates and all that wait are rendered.
Rendered(messages) ==
    /\ base' = messages
    /\ latest' = messages
    /\ saving' = TRUE
    /\ queue' = <<>>

Render ==
    /\ queue # <<>> \/ flags # seen
    /\ base' = ApplyAll(queue, base, gen)
    /\ seen' = flags
    /\ queue' = <<>>
    /\ IF queue # <<>> THEN latest' = base' /\ saving' = TRUE ELSE UNCHANGED <<latest, saving>>
    /\ UNCHANGED <<chat, net, flags, store, editing, clobbered>>

\* Variant: the timer of the discarded chunks stays.
Discard_KeepsTimer(g) ==
    /\ pend' = [gen |-> g, text |-> <<>>]
    /\ timer' = timer

\* discardPendingStreamUpdates
Discard(g) ==
    /\ pend' = [gen |-> g, text |-> <<>>]
    /\ timer' = 0

\* Variant: the source is forgotten and not closed.
StillOpen_Forgets == open \ {abort}

\* What the source and the abort controller leave running when both are let go.
StillOpen == open \ {ctl.source, abort}

\* sendChat: a new generation supersedes the one before.  The controller's counter moves with
\* the chat's, through send or through stop.
sendChat(messages) ==
    /\ gen < MaxGen
    /\ gen' = gen + 1
    /\ Discard(gen + 1)
    /\ \E stream \in BOOLEAN :
          /\ ctl' = [gen |-> ctl.gen + 1, source |-> 0]
          /\ call' = [call EXCEPT ![gen + 1].state = IF stream THEN "headers" ELSE "http",
                                  ![gen + 1].ctl = ctl.gen + 1]
          /\ abort' = IF stream THEN 0 ELSE gen + 1
          /\ open' = StillOpen \cup (IF stream THEN {} ELSE {gen + 1})
    /\ flags' = [requesting |-> TRUE, streaming |-> FALSE]
    /\ seen' = flags'
    /\ Rendered(messages)

-----------------------------------------------------------------------------
(* The user's actions.  All but those of the editor and the stop button    *)
(* are disabled while an answer is being generated, as rendered.           *)

Index(key) == CHOOSE i \in DOMAIN base : base[i].key = key
Upto(i) == SubSeq(base, 1, i)

handleSendMessage ==
    /\ ~Busy(seen)
    /\ Len(base) + 2 <= MaxMessages
    /\ sendChat(base \o <<Prompt(gen + 1), Answer(gen + 1)>>)
    /\ UNCHANGED <<store, editing, clobbered>>

handleRegenerateMessage ==
    /\ ~Busy(seen)
    /\ \E i \in DOMAIN base :
          /\ ~Pending(base[i])
          /\ base[i].text # <<>>
          /\ Len(Upto(i)) < MaxMessages
          /\ sendChat(Upto(IF IsAnswer(base[i]) THEN i - 1 ELSE i) \o <<Answer(gen + 1)>>)
    /\ UNCHANGED <<store, editing, clobbered>>

\* The messages but the one with the given key.
removeMessageByKey(messages, key) ==
    LET kept[n \in 0..Len(messages)] ==
            IF n = 0 THEN <<>>
            ELSE IF messages[n].key = key THEN kept[n - 1] ELSE Append(kept[n - 1], messages[n])
    IN  kept[Len(messages)]

\* The deletion is applied to the conversation with all updates, not to the rendered one.
handleDeleteMessage ==
    /\ ~Busy(seen)
    /\ \E i \in DOMAIN base :
          Rendered(removeMessageByKey(ApplyAll(queue, base, gen), base[i].key))
    /\ seen' = flags
    /\ UNCHANGED <<chat, net, flags, store, editing, clobbered>>

handleClearMessages ==
    /\ ~Busy(seen)
    /\ base # <<>>
    /\ Rendered(<<>>)
    /\ seen' = flags
    /\ editing' = NoKey
    /\ UNCHANGED <<chat, net, flags, store, clobbered>>

handleEditMessage ==
    /\ ~Busy(seen)
    /\ \E i \in DOMAIN base : base[i].text # <<>> /\ editing' = base[i].key
    /\ UNCHANGED <<chat, net, page, store, clobbered>>

handleEditOpenChange ==
    /\ editing # NoKey
    /\ editing' = NoKey
    /\ UNCHANGED <<chat, net, page, store, clobbered>>

InEditor == \E i \in DOMAIN base : base[i].key = editing

\* Saving writes the conversation as it was rendered, with the edited message.
saveEdit ==
    /\ InEditor
    /\ Rendered([base EXCEPT ![Index(editing)].text = Own])
    /\ seen' = flags
    /\ editing' = NoKey
    /\ clobbered' = (clobbered \/ ApplyAll(queue, base, gen) # base)
    /\ UNCHANGED <<chat, net, flags, store>>

\* An edited prompt is submitted: what follows it is dropped.
saveEditAndSubmit ==
    /\ InEditor
    /\ ~IsAnswer(base[Index(editing)])
    /\ Index(editing) < MaxMessages
    /\ sendChat([Upto(Index(editing)) EXCEPT ![Index(editing)].text = Own] \o <<Answer(gen + 1)>>)
    /\ editing' = NoKey
    /\ UNCHANGED <<store, clobbered>>

-----------------------------------------------------------------------------
(* Stop.  The buffered text is flushed as an update of the stopped         *)
(* generation, which counts only when React applies it before the          *)
(* generation moves on.                                                    *)

Flushed == IF pend.gen = gen /\ pend.text # <<>> THEN <<Update("chunk", pend.text)>> ELSE <<>>

\* Variant: the answer is left as it is.
stopGeneration_Leaves ==
    /\ Busy(seen)
    /\ gen < MaxGen
    /\ gen' = gen + 1
    /\ Discard(gen + 1)
    /\ ctl' = [gen |-> ctl.gen + 1, source |-> 0]
    /\ open' = StillOpen
    /\ abort' = 0
    /\ flags' = [requesting |-> FALSE, streaming |-> FALSE]
    /\ seen' = flags'
    /\ Rendered(ApplyAll(queue \o Flushed, base, gen + 1))
    /\ UNCHANGED <<call, store, editing, clobbered>>

stopGeneration ==
    /\ Busy(seen)
    /\ gen < MaxGen
    /\ gen' = gen + 1
    /\ Discard(gen + 1)
    /\ ctl' = [gen |-> ctl.gen + 1, source |-> 0]
    /\ open' = StillOpen
    /\ abort' = 0
    /\ flags' = [requesting |-> FALSE, streaming |-> FALSE]
    /\ seen' = flags'
    /\ LET stopped == [kind |-> "stop", gen |-> gen + 1, text |-> <<>>]
       IN  \/ Rendered(ApplyAll(queue \o Flushed \o <<stopped>>, base, gen + 1))
           \/ /\ queue = <<>> /\ flags = seen
              /\ Rendered(Apply(stopped, ApplyAll(Flushed, base, gen), gen + 1))
    /\ UNCHANGED <<call, store, editing, clobbered>>

\* flushStreamUpdates by its timer.
FlushTimer ==
    /\ timer # 0
    /\ timer = gen
    /\ timer' = 0
    /\ pend' = IF pend.gen = gen THEN [pend EXCEPT !.text = <<>>] ELSE pend
    /\ Enqueue(Flushed, TRUE)
    /\ UNCHANGED <<gen, abort, net, flags, seen, base, store, editing, clobbered>>

-----------------------------------------------------------------------------
(* The stream of generation g: headers, then events of its source.         *)

\* An answer ends: the buffer is flushed; the last update follows the change of the flags.
EndAnswer(kind, early) ==
    /\ timer' = 0
    /\ pend' = IF pend.gen = gen THEN [pend EXCEPT !.text = <<>>] ELSE pend
    /\ Enqueue(Flushed \o <<Update(kind, <<>>)>>, early /\ Flushed # <<>>)

\* Variant: a late answer opens the stream of a stopped request.
HeadersArrive_Late(g) ==
    /\ call[g].state = "headers"
    /\ call' = [call EXCEPT ![g].state = "stream"]
    /\ ctl' = [ctl EXCEPT !.source = g]
    /\ open' = open \cup {g}
    /\ flags' = [flags EXCEPT !.streaming = TRUE]
    /\ UNCHANGED <<chat, seen, base, queue, latest, saving, store, editing, clobbered>>

\* The await of getHeaders is over; a request that was stopped or superseded goes no further.
HeadersArrive(g) ==
    /\ call[g].state = "headers"
    /\ \/ /\ ctl.gen = call[g].ctl
          /\ call' = [call EXCEPT ![g].state = "stream"]
          /\ ctl' = [ctl EXCEPT !.source = g]
          /\ open' = open \cup {g}
          /\ flags' = [flags EXCEPT !.streaming = TRUE]
       \/ /\ ctl.gen # call[g].ctl
          /\ call' = [call EXCEPT ![g].state = "over"]
          /\ UNCHANGED <<ctl, open, flags>>
    /\ UNCHANGED <<chat, seen, base, queue, latest, saving, store, editing, clobbered>>

\* Variant: the page stays busy when a request cannot be started.
HeadersFail_StillBusy(g) ==
    /\ call[g].state = "headers"
    /\ ctl.gen = call[g].ctl
    /\ call' = [call EXCEPT ![g].state = "over"]
    /\ IF g = gen THEN EndAnswer("error", TRUE) ELSE UNCHANGED <<timer, pend, queue, latest, saving>>
    /\ UNCHANGED <<gen, abort, ctl, open, flags, seen, base, store, editing, clobbered>>

HeadersFail(g) ==
    /\ call[g].state = "headers"
    /\ ctl.gen = call[g].ctl
    /\ call' = [call EXCEPT ![g].state = "over"]
    /\ IF g = gen
       THEN EndAnswer("error", TRUE) /\ flags' = [flags EXCEPT !.requesting = FALSE]
       ELSE UNCHANGED <<timer, pend, flags, queue, latest, saving>>
    /\ UNCHANGED <<gen, abort, ctl, open, seen, base, store, editing, clobbered>>

IsCurrent(g) == ctl.gen = call[g].ctl /\ ctl.source = g /\ call[g].state = "stream"

\* A chunk of one or more letters is buffered, and the flush timer is set unless it is.
Chunk(g) ==
    /\ IsCurrent(g)
    /\ \E n \in (call[g].sent + 1)..MaxLetters :
          /\ call' = [call EXCEPT ![g].sent = n]
          /\ LET chunk == IF Format[g] = "delta" THEN Segment(g, call[g].sent, n) ELSE Word(g, n)
             IN  IF g = gen /\ pend.gen = g
                 THEN /\ pend' = [pend EXCEPT !.text = mergePendingStreamChunk(@, chunk)]
                      /\ timer' = IF timer = 0 THEN g ELSE timer
                 ELSE UNCHANGED <<pend, timer>>
    /\ UNCHANGED <<gen, abort, ctl, open, page, store, editing, clobbered>>

\* closeActiveSource, with what the callback does to the chat.
CloseSource(g, kind, early) ==
    /\ call' = [call EXCEPT ![g].state = IF kind = "complete" THEN "done" ELSE "over"]
    /\ ctl' = [ctl EXCEPT !.source = 0]
    /\ open' = open \ {g}
    /\ IF g = gen
       THEN EndAnswer(kind, early) /\ flags' = [requesting |-> FALSE, streaming |-> FALSE]
       ELSE /\ flags' = [flags EXCEPT !.streaming = FALSE]
            /\ UNCHANGED <<timer, pend, queue, latest, saving>>
    /\ UNCHANGED <<gen, abort, seen, base, store, editing, clobbered>>

\* The source is closed, and isStreaming set, before the answer is completed.
Done(g) == IsCurrent(g) /\ CloseSource(g, "complete", FALSE)

\* An error event, a bad status, a chunk that cannot be parsed, or a stream that does not start.
StreamError(g) == IsCurrent(g) /\ CloseSource(g, "error", TRUE)

\* The connection ends with status 200 and without [DONE]: no listener does anything.
CloseEarly(g) ==
    /\ IsCurrent(g)
    /\ g \in open
    /\ open' = open \ {g}
    /\ call' = [call EXCEPT ![g].state = "cut"]
    /\ UNCHANGED <<chat, ctl, page, store, editing, clobbered>>

-----------------------------------------------------------------------------
(* The request of generation g that is answered in one piece; one that was *)
(* aborted or superseded does nothing.                                     *)

Response(g) ==
    /\ call[g].state = "http"
    /\ g \in open
    /\ g = gen
    /\ open' = open \ {g}
    /\ abort' = 0
    /\ flags' = [flags EXCEPT !.requesting = FALSE]
    /\ \/ \E n \in 0..MaxLetters :
             /\ call' = [call EXCEPT ![g].state = "done", ![g].sent = n]
             /\ Enqueue(<<Update("response", Word(g, n))>>, TRUE)
             /\ UNCHANGED <<pend, timer>>
       \/ /\ call' = [call EXCEPT ![g].state = "over"]
          /\ EndAnswer("error", TRUE)
    /\ UNCHANGED <<gen, ctl, seen, base, store, editing, clobbered>>

-----------------------------------------------------------------------------
(* The page is left and comes back, with new counters that are numbered on *)
(* here: by navigation, which runs the cleanup of the hooks, or by a       *)
(* reload, which ends the connections.                                     *)

Mount(messages) ==
    /\ gen < MaxGen
    /\ gen' = gen + 1
    /\ Discard(gen + 1)
    /\ abort' = 0
    /\ ctl' = [gen |-> ctl.gen + 1, source |-> 0]
    /\ flags' = [requesting |-> FALSE, streaming |-> FALSE]
    /\ seen' = flags'
    /\ base' = messages
    /\ latest' = messages
    /\ queue' = <<>>
    /\ saving' = FALSE
    /\ store' = messages
    /\ editing' = NoKey
    /\ UNCHANGED <<call, clobbered>>

Navigate ==
    /\ LET saved == IF saving THEN trimMessages(latest) ELSE store
           normal == [i \in DOMAIN saved |-> Normalized(saved[i])]
       IN  Mount(sanitizeMessagesOnLoad(trimMessages(normal)))
    /\ open' = StillOpen

Reload ==
    /\ Mount(loadMessages)
    /\ open' = {}

-----------------------------------------------------------------------------
HeadersEnd(g) == HeadersArrive(g) \/ HeadersFail(g)
StreamEnds(g) == Done(g) \/ StreamError(g) \/ CloseEarly(g)
Answered(g) == HeadersEnd(g) \/ StreamEnds(g) \/ Response(g)

Next ==
    \/ Render \/ Save \/ FlushTimer
    \/ handleSendMessage \/ handleRegenerateMessage \/ handleDeleteMessage \/ handleClearMessages
    \/ handleEditMessage \/ handleEditOpenChange \/ saveEdit \/ saveEditAndSubmit
    \/ stopGeneration
    \/ \E g \in Gens : Answered(g) \/ Chunk(g)
    \/ Navigate \/ Reload

Spec == Init /\ [][Next]_vars

\* React renders, and requests that wait for the server or the network are ended by them.
Fairness ==
    /\ WF_vars(Render)
    /\ WF_vars(\E g \in Gens : Answered(g))

FairSpec == Spec /\ Fairness

-----------------------------------------------------------------------------
Keys == {NoKey} \cup ({"user", "assistant"} \X (0..MaxGen))
Texts == Seq({<<0, 0>>} \cup {Letter(g, i) : g \in Gens, i \in 1..MaxLetters})
Messages == [key: Keys, status: {"none", "loading", "streaming", "complete", "error"}, text: Texts]
Flags == [requesting: BOOLEAN, streaming: BOOLEAN]

TypeOK ==
    /\ gen \in 0..MaxGen
    /\ pend \in [gen: 0..MaxGen, text: Texts]
    /\ {timer, abort} \subseteq 0..MaxGen
    /\ ctl \in [gen: 0..MaxGen, source: 0..MaxGen]
    /\ call \in [Gens -> [state: {"none", "headers", "stream", "http", "done", "over", "cut"},
                          ctl: 0..MaxGen, sent: 0..MaxLetters]]
    /\ open \subseteq Gens
    /\ {flags, seen} \subseteq Flags
    /\ {base, latest, store} \subseteq Seq(Messages)
    /\ Len(base) <= MaxMessages /\ Len(store) <= MaxStored
    /\ editing \in Keys
    /\ {saving, clobbered} \subseteq BOOLEAN

\* When nothing is being generated, no answer waits for more: whatever was stopped, superseded,
\* failed, left or reloaded, every answer on the page is complete or an error (except when an
\* edit was saved over updates that React had not applied).
NoStuckAnswer ==
    ~Busy(flags) /\ flags = seen /\ queue = <<>> /\ ~clobbered
        => \A i \in DOMAIN base : IsAnswer(base[i]) => ~Pending(base[i])

\* A part of the text t is followed by the same part.
Repeats(t) ==
    \E i \in 0..Len(t), n \in 1..Len(t) :
        /\ i + n + n <= Len(t)
        /\ \A k \in 1..n : t[i + k] = t[i + n + k]

\* The chunks of generation g cannot be mistaken: each one is the whole text so far, or no delta
\* so far could start with the text right before it.
Plain(g) == Format[g] = "snapshot" \/ ~Repeats(Sent(g))

\* The answer m of generation g shows what was sent for it, from the beginning and without a
\* hole, and all of it when its request ended by itself and was the last.
Shown(m, g) ==
    /\ IsPrefix(m.text, Sent(g))
    /\ g = gen /\ call[g].state = "done" /\ m.status = "complete" /\ queue = <<>>
           => m.text = Sent(g)

\* An answer shows what the provider sent for it, without a hole and in the end all of it, unless
\* deltas repeat each other: mergePendingStreamChunk and getAppendableChunk then take one for a
\* snapshot.  Even so it shows only letters that were sent for it, never those of another answer.
TextIsSent ==
    ~clobbered =>
        \A i \in DOMAIN base :
            LET m == base[i] g == m.key[2]
            IN  IsAnswer(m) /\ m.text # Own =>
                    /\ ToSet(m.text) \subseteq ToSet(Sent(g))
                    /\ Plain(g) => Shown(m, g)

\* Whatever the provider says, an answer shows it without a hole and in the end all of it: not
\* so, when deltas repeat each other.
TextIsWhole ==
    ~clobbered =>
        \A i \in DOMAIN base :
            IsAnswer(base[i]) /\ base[i].text # Own => Shown(base[i], base[i].key[2])

\* A request that runs at the server, and is paid for, is the one the page shows as being
\* generated: every other one was closed or aborted, also one whose headers came late.
NoOrphanRequest == \A g \in open : g = gen /\ Busy(flags)

\* Buffered text of the current answer has a timer that will show it.
BufferHasTimer == pend.gen = gen /\ pend.text # <<>> => timer = gen

\* A generation ends, unless its connection was cut without an error: the page then waits for
\* the user to stop it.
GenerationEnds == Busy(seen) ~> (~Busy(seen) \/ (gen > 0 /\ call[gen].state = "cut"))
=============================================================================
