------------------------ MODULE PlaygroundTalkProofs ------------------------
(***************************************************************************)
(* Proofs about the conversation of Playground: what the answers on the    *)
(* page and in the storage show, for any number of generations and any     *)
(* length of answers and conversations.                                    *)
(***************************************************************************)
EXTENDS PlaygroundProofs, SequenceTheorems, WellFoundedInduction

(* Induction over the numbers, as a fact about sets, and what it says of   *)
(* the recursive functions of the model.                                   *)

Below == {p \in Nat \X Nat : p[1] < p[2]}

LEMMA LeastNumber ==
  ASSUME NEW T, T \subseteq Nat, T # {}
  PROVE  \E x \in T : \A y \in T : ~(y < x)
  <1>1. OpToRel(<, Nat) = Below
    BY DEF OpToRel, Below
  <1>2. IsWellFoundedOn(Below, Nat)
    BY <1>1, NatLessThanWellFounded
  <1>3. \E x \in T : \A y \in T : ~(<<y, x>> \in Below)
    BY <1>2, WFMin
  <1> QED
    BY <1>3 DEF Below

LEMMA NumberInduction ==
  ASSUME NEW S, 0 \in S, \A n \in Nat : n \in S => n + 1 \in S
  PROVE  Nat \subseteq S
  <1> SUFFICES ASSUME Nat \ S # {} PROVE FALSE
    OBVIOUS
  <1>1. PICK x \in Nat \ S : \A y \in Nat \ S : ~(y < x)
    BY LeastNumber
  <1>2. x # 0 /\ x - 1 \in Nat /\ x - 1 \in S
    BY <1>1
  <1> QED
    BY <1>2

\* f lists the conversations after each of the updates us.
Traces(f, us, messages, g) ==
    f = [n \in 0..Len(us) |-> IF n = 0 THEN messages ELSE Apply(us[n], f[n - 1], g)]

LEMMA TraceUnique ==
  ASSUME NEW us, Len(us) \in Nat, NEW ms, NEW g, NEW f, NEW h,
         Traces(f, us, ms, g), Traces(h, us, ms, g)
  PROVE  f = h
  <1> DEFINE S == {n \in Nat : n <= Len(us) => f[n] = h[n]}
  <1>1. 0 \in S
    BY DEF Traces
  <1>2. ASSUME NEW n \in Nat, n \in S PROVE n + 1 \in S
    <2> SUFFICES ASSUME n + 1 <= Len(us) PROVE f[n + 1] = h[n + 1]
      OBVIOUS
    <2>1. n + 1 \in 0..Len(us) /\ n + 1 # 0 /\ (n + 1) - 1 = n /\ f[n] = h[n]
      BY <1>2
    <2>2. f[n + 1] = Apply(us[n + 1], f[(n + 1) - 1], g)
      BY <2>1 DEF Traces
    <2>3. h[n + 1] = Apply(us[n + 1], h[(n + 1) - 1], g)
      BY <2>1 DEF Traces
    <2> QED
      BY <2>1, <2>2, <2>3
  <1> HIDE DEF S
  <1>3. Nat \subseteq S
    BY <1>1, <1>2, NumberInduction
  <1>4. \A n \in 0..Len(us) : f[n] = h[n]
    BY <1>3 DEF S
  <1> QED
    BY <1>4 DEF Traces

LEMMA TraceExtends ==
  ASSUME NEW A, NEW us \in Seq(A), NEW u \in A, NEW ms, NEW g, NEW f, Traces(f, us, ms, g)
  PROVE  \E h : Traces(h, Append(us, u), ms, g) /\ h[Len(us) + 1] = Apply(u, f[Len(us)], g)
  <1> DEFINE N == Len(us)
             x == Apply(u, f[N], g)
             h == [n \in 0..(N + 1) |-> IF n = N + 1 THEN x ELSE f[n]]
             vs == Append(us, u)
  <1>1. N \in Nat /\ Len(vs) = N + 1 /\ vs[N + 1] = u /\ \A n \in 1..N : vs[n] = us[n]
    OBVIOUS
  <1>2. \A n \in 0..N : f[n] = IF n = 0 THEN ms ELSE Apply(us[n], f[n - 1], g)
    BY DEF Traces
  <1> HIDE DEF x, vs, N
  <1>3. h[N + 1] = x /\ \A n \in 0..N : h[n] = f[n]
    BY <1>1
  <1>4. ASSUME NEW n \in 0..(N + 1)
        PROVE  h[n] = IF n = 0 THEN ms ELSE Apply(vs[n], h[n - 1], g)
    <2>1. CASE n = N + 1
      <3>1. h[n - 1] = f[N] /\ n # 0 /\ vs[n] = u
        BY <1>1, <1>3, <2>1
      <3> QED
        BY <1>3, <2>1, <3>1 DEF x
    <2>2. CASE n = 0
      BY <1>1, <1>2, <1>3, <2>2
    <2>3. CASE n \in 1..N
      <3>1. h[n] = f[n] /\ h[n - 1] = f[n - 1] /\ vs[n] = us[n] /\ n # 0 /\ n \in 0..N
        BY <1>1, <1>3, <2>3
      <3> QED
        BY <1>2, <3>1
    <2> QED
      BY <1>1, <2>1, <2>2, <2>3
  <1>5. h = [n \in 0..(N + 1) |-> IF n = 0 THEN ms ELSE Apply(vs[n], h[n - 1], g)]
    <2> DEFINE k == [n \in 0..(N + 1) |-> IF n = 0 THEN ms ELSE Apply(vs[n], h[n - 1], g)]
    <2>1. \A n \in 0..(N + 1) : h[n] = k[n]
      BY <1>4
    <2>2. h = [n \in 0..(N + 1) |-> h[n]] /\ k = [n \in 0..(N + 1) |-> k[n]]
      OBVIOUS
    <2> HIDE DEF h, k
    <2>3. h = k
      BY <2>1, <2>2
    <2> QED
      BY <2>3 DEF k
  <1> HIDE DEF h
  <1> QED
    BY <1>1, <1>3, <1>5 DEF Traces, x, vs, N

LEMMA ApplyAllIs ==
  ASSUME NEW us, Len(us) \in Nat, NEW ms, NEW g, NEW f, Traces(f, us, ms, g)
  PROVE  ApplyAll(us, ms, g) = f[Len(us)]
  <1> DEFINE a == CHOOSE h : h = [n \in 0..Len(us) |-> IF n = 0 THEN ms ELSE Apply(us[n], h[n - 1], g)]
  <1>1. ApplyAll(us, ms, g) = a[Len(us)]
    BY DEF ApplyAll
  <1>2. Traces(a, us, ms, g)
    BY Zenon DEF Traces
  <1> HIDE DEF a
  <1>3. a = f
    BY <1>2, TraceUnique
  <1> QED
    BY <1>1, <1>3

LEMMA ApplyNone == ASSUME NEW ms, NEW g PROVE ApplyAll(<<>>, ms, g) = ms
  <1> DEFINE f == [n \in {0} |-> ms]
  <1>1. Len(<<>>) = 0 /\ 0..0 = {0} /\ f[0] = ms
    OBVIOUS
  <1>2. Traces(f, <<>>, ms, g)
    BY <1>1 DEF Traces
  <1> HIDE DEF f
  <1> QED
    BY <1>1, <1>2, ApplyAllIs

LEMMA TraceExists ==
  ASSUME NEW A, NEW us \in Seq(A), NEW ms, NEW g
  PROVE  \E f : Traces(f, us, ms, g)
  <1> DEFINE S == {n \in Nat : \A vs \in Seq(A) : Len(vs) = n => \E f : Traces(f, vs, ms, g)}
  <1>1. 0 \in S
    <2> SUFFICES ASSUME NEW vs \in Seq(A), Len(vs) = 0 PROVE \E f : Traces(f, vs, ms, g)
      OBVIOUS
    <2> DEFINE f == [n \in {0} |-> ms]
    <2>1. 0..0 = {0} /\ f[0] = ms
      OBVIOUS
    <2>2. Traces(f, vs, ms, g)
      BY <2>1 DEF Traces
    <2> QED
      BY <2>2
  <1>2. ASSUME NEW n \in Nat, n \in S PROVE n + 1 \in S
    <2> SUFFICES ASSUME NEW vs \in Seq(A), Len(vs) = n + 1 PROVE \E f : Traces(f, vs, ms, g)
      OBVIOUS
    <2> DEFINE front == SubSeq(vs, 1, n)
    <2>1. front \in Seq(A) /\ Len(front) = n /\ vs[n + 1] \in A /\ vs = Append(front, vs[n + 1])
      OBVIOUS
    <2> HIDE DEF front
    <2>2. PICK f : Traces(f, front, ms, g)
      BY <1>2, <2>1
    <2>3. \E h : Traces(h, Append(front, vs[n + 1]), ms, g)
      BY <2>1, <2>2, TraceExtends
    <2> QED
      BY <2>1, <2>3
  <1> HIDE DEF S
  <1>3. Nat \subseteq S
    BY <1>1, <1>2, NumberInduction
  <1>4. Len(us) \in S
    BY <1>3
  <1> QED
    BY <1>4 DEF S

LEMMA ApplyOneMore ==
  ASSUME NEW A, NEW us \in Seq(A), NEW u \in A, NEW ms, NEW g
  PROVE  ApplyAll(Append(us, u), ms, g) = Apply(u, ApplyAll(us, ms, g), g)
  <1> DEFINE vs == Append(us, u)
  <1>1. PICK f : Traces(f, us, ms, g)
    BY TraceExists
  <1>2. PICK h : Traces(h, vs, ms, g) /\ h[Len(us) + 1] = Apply(u, f[Len(us)], g)
    BY <1>1, TraceExtends
  <1>3. Len(us) \in Nat /\ Len(vs) = Len(us) + 1 /\ Len(vs) \in Nat
    OBVIOUS
  <1> HIDE DEF vs
  <1>4. ApplyAll(us, ms, g) = f[Len(us)]
    BY <1>1, <1>3, ApplyAllIs
  <1>5. ApplyAll(vs, ms, g) = h[Len(vs)]
    BY <1>2, <1>3, ApplyAllIs
  <1> QED
    BY <1>2, <1>3, <1>4, <1>5 DEF vs

\* f lists what is left of the first messages of ms without those that have the given key.
Filters(f, ms, key, N) ==
    f = [n \in 0..N |-> IF n = 0 THEN <<>>
                        ELSE IF ms[n].key = key THEN f[n - 1] ELSE Append(f[n - 1], ms[n])]

LEMMA FilterExists ==
  ASSUME NEW ms, NEW key, NEW N \in Nat
  PROVE  \E f : Filters(f, ms, key, N)
  <1> DEFINE S == {n \in Nat : \E f : Filters(f, ms, key, n)}
  <1>1. 0 \in S
    <2> DEFINE f == [n \in 0..0 |-> <<>>]
    <2>1. Filters(f, ms, key, 0)
      BY DEF Filters
    <2> QED
      BY <2>1
  <1>2. ASSUME NEW n \in Nat, n \in S PROVE n + 1 \in S
    <2>1. PICK f : Filters(f, ms, key, n)
      BY <1>2
    <2> DEFINE x == IF ms[n + 1].key = key THEN f[n] ELSE Append(f[n], ms[n + 1])
               h == [i \in 0..(n + 1) |-> IF i = n + 1 THEN x ELSE f[i]]
    <2>2. \A i \in 0..n : f[i] = IF i = 0 THEN <<>>
                                 ELSE IF ms[i].key = key THEN f[i - 1] ELSE Append(f[i - 1], ms[i])
      BY <2>1 DEF Filters
    <2>3. h[n + 1] = x /\ \A i \in 0..n : h[i] = f[i]
      OBVIOUS
    <2>4. ASSUME NEW i \in 0..(n + 1)
          PROVE  h[i] = IF i = 0 THEN <<>>
                        ELSE IF ms[i].key = key THEN h[i - 1] ELSE Append(h[i - 1], ms[i])
      <3> HIDE DEF h
      <3>1. CASE i = n + 1
        <4>1. h[i - 1] = f[n] /\ i # 0 /\ h[i] = x
          BY <2>3, <3>1
        <4> QED
          BY <3>1, <4>1
      <3>2. CASE i # n + 1
        <4>1. i \in 0..n /\ (i # 0 => i - 1 \in 0..n)
          BY <3>2
        <4>2. h[i] = f[i] /\ (i # 0 => h[i - 1] = f[i - 1])
          BY <2>3, <4>1
        <4> QED
          BY <2>2, <4>1, <4>2
      <3> QED
        BY <3>1, <3>2
    <2> DEFINE k == [i \in 0..(n + 1) |->
                       IF i = 0 THEN <<>>
                       ELSE IF ms[i].key = key THEN h[i - 1] ELSE Append(h[i - 1], ms[i])]
    <2>5. \A i \in 0..(n + 1) : h[i] = k[i]
      BY <2>4
    <2>6. h = [i \in 0..(n + 1) |-> h[i]] /\ k = [i \in 0..(n + 1) |-> k[i]]
      OBVIOUS
    <2>7. h = k
      <3> HIDE DEF h, k
      <3> QED
        BY <2>5, <2>6
    <2>8. Filters(h, ms, key, n + 1)
      <3> HIDE DEF h
      <3> QED
        BY <2>7 DEF Filters, k
    <2> QED
      BY <2>8
  <1> HIDE DEF S
  <1>3. Nat \subseteq S
    BY <1>1, <1>2, NumberInduction
  <1> QED
    BY <1>3 DEF S

\* A deletion keeps some of the messages and makes none.
LEMMA WithoutKeeps ==
  ASSUME NEW A, NEW ms \in Seq(A), NEW key
  PROVE  /\ removeMessageByKey(ms, key) \in Seq(A)
         /\ Len(removeMessageByKey(ms, key)) <= Len(ms)
         /\ \A i \in 1..Len(removeMessageByKey(ms, key)) :
               \E j \in 1..Len(ms) : removeMessageByKey(ms, key)[i] = ms[j]
  <1> DEFINE N == Len(ms)
             f == CHOOSE h : h = [n \in 0..N |->
                     IF n = 0 THEN <<>>
                     ELSE IF ms[n].key = key THEN h[n - 1] ELSE Append(h[n - 1], ms[n])]
  <1>1. removeMessageByKey(ms, key) = f[N]
    BY DEF removeMessageByKey
  <1>2. N \in Nat
    OBVIOUS
  <1> HIDE DEF N
  <1>3. \E h : Filters(h, ms, key, N)
    BY <1>2, FilterExists
  <1>4. Filters(f, ms, key, N)
    BY <1>3, Zenon DEF Filters
  <1> HIDE DEF f
  <1> DEFINE Fits(n) == /\ f[n] \in Seq(A)
                        /\ Len(f[n]) <= n
                        /\ \A i \in 1..Len(f[n]) : \E j \in 1..n : f[n][i] = ms[j]
             S == {n \in Nat : n <= N => Fits(n)}
  <1>5. 0 \in S
    <2>1. f[0] = <<>>
      BY <1>2, <1>4 DEF Filters
    <2>2. f[0] \in Seq(A) /\ Len(f[0]) = 0
      BY <2>1
    <2>3. Fits(0)
      BY <2>2
    <2> QED
      BY <2>3
  <1>6. ASSUME NEW n \in Nat, n \in S PROVE n + 1 \in S
    <2> SUFFICES ASSUME n + 1 <= N PROVE Fits(n + 1)
      OBVIOUS
    <2>1. f[n + 1] = IF ms[n + 1].key = key THEN f[n] ELSE Append(f[n], ms[n + 1])
      <3>1. n + 1 \in 0..N /\ n + 1 # 0 /\ (n + 1) - 1 = n
        BY <1>2
      <3> QED
        BY <1>4, <3>1 DEF Filters
    <2>2. Fits(n) /\ ms[n + 1] \in A
      <3>1. n <= N /\ n + 1 \in 1..N
        BY <1>2
      <3>2. Fits(n)
        <4> HIDE DEF Fits
        <4> QED
          BY <1>6, <3>1
      <3>3. ms[n + 1] \in A
        BY <3>1 DEF N
      <3> QED
        BY <3>2, <3>3
    <2>3. CASE f[n + 1] = f[n]
      BY <2>2, <2>3
    <2>4. CASE f[n + 1] = Append(f[n], ms[n + 1])
      <3>1. /\ f[n + 1] \in Seq(A)
            /\ Len(f[n + 1]) = Len(f[n]) + 1
            /\ \A i \in 1..Len(f[n]) : f[n + 1][i] = f[n][i]
            /\ f[n + 1][Len(f[n]) + 1] = ms[n + 1]
        BY <2>2, <2>4
      <3>2. ASSUME NEW i \in 1..Len(f[n + 1]) PROVE \E j \in 1..(n + 1) : f[n + 1][i] = ms[j]
        <4>1. CASE i = Len(f[n]) + 1
          BY <3>1, <4>1
        <4>2. CASE i # Len(f[n]) + 1
          <5>1. i \in 1..Len(f[n])
            BY <2>2, <3>1, <4>2
          <5>2. PICK j \in 1..n : f[n][i] = ms[j]
            BY <2>2, <5>1
          <5> QED
            BY <3>1, <5>1, <5>2
        <4> QED
          BY <4>1, <4>2
      <3> QED
        BY <2>2, <3>1, <3>2
    <2> QED
      BY <2>1, <2>3, <2>4
  <1>7. Nat \subseteq S
    <2> HIDE DEF S
    <2> QED
      BY <1>5, <1>6, NumberInduction
  <1>8. Fits(N)
    BY <1>2, <1>7
  <1> QED
    BY <1>1, <1>8 DEF N

-----------------------------------------------------------------------------
(* The conversation.                                                       *)

\* Texts of the first n letters of answer g; the first n letters cannot be mistaken.
Letters(g, n) == Seq({Letter(g, i) : i \in 1..n})
Clear(g, n) == Format[g] = "snapshot" \/ ~Repeats(Word(g, n))

\* The text t is the beginning, or all, of n letters that cannot be mistaken.
Begun(t, g, n) ==
    /\ t \in Letters(g, n)
    /\ Clear(g, n) => \E a \in 0..n : t = Word(g, a)
Full(t, g, n) ==
    /\ t \in Letters(g, n)
    /\ Clear(g, n) => t = Word(g, n)

\* The conversation once React has applied what waits, and what is left of it when the
\* generation moves on first.
Coming == ApplyAll(queue, base, gen)
Halted == ApplyAll(queue, base, gen + 1)

\* Every conversation that the page or the storage holds.
Talks == {base, latest, store, Coming, Halted}

\* An answer of a generation up to g shows some text of its own, or text that was sent for it.
MessageOK(m, g, calls) ==
    /\ m.key[2] <= g
    /\ IsAnswer(m) =>
        \/ m.text = Own
        \/ m.key[2] \in Gens /\ Begun(m.text, m.key[2], calls[m.key[2]].sent)

Sound(ms, g, calls) == \A i \in 1..Len(ms) : MessageOK(ms[i], g, calls)

\* Only the last message may be an answer that waits for more; or none is.
Waits(m) == IsAnswer(m) /\ Pending(m)
Calm(ms) == \A i \in 1..Len(ms) : Waits(ms[i]) => i = Len(ms)
Settled(ms) == \A i \in 1..Len(ms) : ~Waits(ms[i])

\* The text t of answer g and the buffered text p make up the n letters that were sent.
Joins(t, p, g, n) ==
    \E a \in 0..n :
        /\ t = Word(g, a)
        /\ IF Format[g] = "delta" THEN p = Segment(g, a, n)
           ELSE p = Word(g, n) \/ (a = n /\ p = <<>>)

\* The same, when those letters cannot be mistaken; both are made of them in any case.
Joined(t, p, g, n) ==
    /\ t \in Letters(g, n) /\ p \in Letters(g, n)
    /\ Clear(g, n) => Joins(t, p, g, n)

\* The last message is answer g, which is being generated.
Growing(ms, p, g, n) ==
    /\ g \in Gens
    /\ Len(ms) > 0
    /\ \A i \in 1..Len(ms) : ms[i].key = <<"assistant", g>> <=> i = Len(ms)
    /\ Pending(ms[Len(ms)])
    /\ Joined(ms[Len(ms)].text, p, g, n)

\* Answer g is an error or edited, or shows all n letters that were sent, if none was mistaken.
Whole(ms, g, n) ==
    \A i \in 1..Len(ms) :
        ms[i].key = <<"assistant", g>> => ms[i].text = Own \/ Full(ms[i].text, g, n)

\* What the flags say about the request of the current generation, and the rendered flags
\* about the flags.
FlagInv ==
    /\ seen \in Flags
    /\ ~Busy(seen) => ~Busy(flags) /\ queue = <<>>
    /\ flags.streaming => gen \in Gens /\ call[gen].state \in {"stream", "cut"}
    /\ timer # 0 => flags.streaming
    /\ \A g \in Gens : IsCurrent(g) => flags.streaming
    /\ gen \in Gens /\ call[gen].state = "headers" => flags.requesting
    /\ \A g \in Gens : /\ call[g].state \in {"none", "headers", "http"} => call[g].sent = 0
                       /\ g > gen => call[g].state = "none"
                       /\ call[g].sent <= MaxLetters
    /\ ctl.source \in 0..MaxGen

Steps == [kind: {"chunk", "complete", "stop", "error", "response"}, gen: 0..MaxGen, text: Texts]
Updates == Steps \cup [kind: {"set"}, messages: Seq(Messages)]

\* Every conversation is a sequence of messages that fits.
Fits(ms) == ms \in Seq(Messages) /\ Len(ms) <= MaxMessages

TalkType ==
    /\ \A ms \in Talks : Fits(ms)
    /\ Len(store) <= MaxStored
    /\ queue \in Seq(Updates)
    /\ pend.text \in Texts
    /\ editing \in Keys
    /\ saving \in BOOLEAN
    /\ clobbered \in BOOLEAN

\* What holds as long as no edit was saved over updates.
TalkInv ==
    /\ \A ms \in Talks : Sound(ms, gen, call) /\ Calm(ms)
    /\ Busy(flags) => Growing(Coming, pend.text, gen, call[gen].sent)
    /\ Busy(flags) => editing # <<"assistant", gen>>
    /\ ~Busy(flags) => Settled(Coming)
    /\ gen \in Gens /\ call[gen].state = "done" => Whole(Coming, gen, call[gen].sent)
    /\ editing[2] <= gen

PageInv == IInv /\ FlagInv /\ TalkType /\ (~clobbered => TalkInv)

-----------------------------------------------------------------------------
(* Texts.                                                                  *)

LEMMA WordFacts ==
  ASSUME NEW g, NEW n \in Nat
  PROVE  /\ Word(g, n) \in Seq({Letter(g, i) : i \in 1..n})
         /\ Len(Word(g, n)) = n
         /\ \A i \in 1..n : Word(g, n)[i] = Letter(g, i)
         /\ Word(g, 0) = <<>>
  BY DEF Word

LEMMA WordType ==
  ASSUME NEW g \in Gens, NEW n \in 0..MaxLetters PROVE Word(g, n) \in Texts
  <1>1. n \in Nat /\ MaxLetters \in Nat
    BY ConstantsAssumption
  <1>2. \A i \in 1..n : Letter(g, i) \in {Letter(h, j) : h \in Gens, j \in 1..MaxLetters}
    BY <1>1
  <1> QED
    BY <1>1, <1>2 DEF Word, Texts

LEMMA OwnType == Own \in Texts /\ <<>> \in Texts
  BY DEF Own, Texts

LEMMA SegmentFacts ==
  ASSUME NEW g, NEW a \in Nat, NEW b \in Nat, a <= b
  PROVE  /\ Segment(g, a, b) \in Seq({Letter(g, i) : i \in 1..b})
         /\ Len(Segment(g, a, b)) = b - a
         /\ \A i \in 1..(b - a) : Segment(g, a, b)[i] = Letter(g, a + i)
         /\ a = b => Segment(g, a, b) = <<>>
         /\ a # b => Segment(g, a, b) # <<>>
  <1> DEFINE t == Segment(g, a, b)
  <1>1. t \in Seq({Letter(g, i) : i \in 1..b})
    BY DEF Segment
  <1>2. b - a \in Nat /\ (a # b => b - a # 0)
    OBVIOUS
  <1>3. Len(t) = b - a /\ \A i \in 1..(b - a) : t[i] = Letter(g, a + i)
    BY <1>2 DEF Segment
  <1> HIDE DEF t
  <1>4. (a = b => t = <<>>) /\ (a # b => t # <<>>)
    BY <1>1, <1>2, <1>3
  <1> QED
    BY <1>1, <1>3, <1>4 DEF t

LEMMA SegmentEmpty ==
  ASSUME NEW g, NEW a \in Nat, NEW b \in Nat, a <= b
  PROVE  Segment(g, a, b) = <<>> <=> a = b
  <1>1. (a = b => Segment(g, a, b) = <<>>) /\ (a # b => Segment(g, a, b) # <<>>)
    BY SegmentFacts
  <1> QED
    BY <1>1

\* A snapshot that follows another contains it.
LEMMA WordPrefix ==
  ASSUME NEW g, NEW a \in Nat, NEW b \in Nat, a <= b
  PROVE  IsPrefix(Word(g, a), Word(g, b))
  <1> DEFINE A == {Letter(g, i) : i \in 1..b}
             s == Word(g, a)
             t == Word(g, b)
  <1>1. s \in Seq(A) /\ t \in Seq(A) /\ Len(s) = a /\ Len(t) = b
    BY WordFacts DEF Word
  <1>2. \A i \in 1..a : s[i] = t[i]
    BY DEF Word
  <1> HIDE DEF s, t, A
  <1>3. SubSeq(s, 1, Len(s)) = SubSeq(t, 1, Len(s))
    <2>1. Len(SubSeq(s, 1, a)) = a /\ Len(SubSeq(t, 1, a)) = a
      BY <1>1
    <2>2. \A i \in 1..a : SubSeq(s, 1, a)[i] = SubSeq(t, 1, a)[i]
      BY <1>1, <1>2
    <2>3. SubSeq(s, 1, a) \in Seq(A) /\ SubSeq(t, 1, a) \in Seq(A)
      BY <1>1
    <2> QED
      BY <1>1, <2>1, <2>2, <2>3
  <1> QED
    BY <1>1, <1>3 DEF IsPrefix, s, t

\* A text that starts with the one right before it repeats it.
LEMMA NextDiffers ==
  ASSUME NEW g, NEW a \in Nat, NEW b \in Nat, NEW c \in Nat, a < b, b <= c,
         ~Repeats(Word(g, c))
  PROVE  ~IsPrefix(Segment(g, a, b), Segment(g, b, c))
  <1> DEFINE A == {Letter(g, i) : i \in 1..c}
             s == Segment(g, a, b)
             t == Segment(g, b, c)
             w == Word(g, c)
             n == b - a
             m == c - b
  <1>1. s \in Seq(A) /\ t \in Seq(A) /\ Len(s) = n /\ Len(t) = m
    BY DEF Segment
  <1>2. /\ \A i \in 1..n : s[i] = Letter(g, a + i)
        /\ \A i \in 1..m : t[i] = Letter(g, b + i)
    BY DEF Segment
  <1>3. Len(w) = c /\ \A i \in 1..c : w[i] = Letter(g, i)
    BY WordFacts
  <1>4. n \in 1..c /\ a \in 0..c /\ a + n = b /\ b + m = c /\ n \in Nat /\ m \in Nat
    OBVIOUS
  <1> HIDE DEF s, t, w, n, m, A
  <1> SUFFICES ASSUME IsPrefix(s, t) PROVE Repeats(w)
    BY DEF s, t, w
  <1>5. n <= m /\ SubSeq(s, 1, n) = SubSeq(t, 1, n)
    BY <1>1 DEF IsPrefix
  <1>6. ASSUME NEW k \in 1..n PROVE w[a + k] = w[a + n + k]
    <2>1. k \in 1..m
      BY <1>4, <1>5
    <2>2. SubSeq(s, 1, n)[k] = s[k]
      BY <1>1, <1>4
    <2>3. SubSeq(t, 1, n)[k] = t[k]
      BY <1>1, <1>4, <1>5
    <2>4. Letter(g, a + k) = Letter(g, b + k)
      BY <1>2, <1>5, <2>1, <2>2, <2>3
    <2>5. a + k \in 1..c /\ b + k \in 1..c /\ a + n + k = b + k
      BY <1>4, <1>5
    <2> QED
      BY <1>3, <2>4, <2>5
  <1>7. a + n + n <= c
    BY <1>4, <1>5
  <1>8. /\ a \in 0..Len(w) /\ n \in 1..Len(w) /\ a + n + n <= Len(w)
        /\ \A k \in 1..n : w[a + k] = w[a + n + k]
    BY <1>3, <1>4, <1>6, <1>7
  <1> QED
    BY <1>8, Zenon DEF Repeats

\* The beginning of a text repeats nothing, when the text does not.
LEMMA ClearBefore ==
  ASSUME NEW g, NEW a \in Nat, NEW b \in Nat, a <= b, Clear(g, b)
  PROVE  Clear(g, a)
  <1> SUFFICES ASSUME Repeats(Word(g, a)) PROVE Repeats(Word(g, b))
    BY DEF Clear
  <1> DEFINE s == Word(g, a)
             t == Word(g, b)
  <1>1. /\ Len(s) = a /\ \A i \in 1..a : s[i] = Letter(g, i)
        /\ Len(t) = b /\ \A i \in 1..b : t[i] = Letter(g, i)
    BY WordFacts
  <1> HIDE DEF s, t
  <1>2. PICK i \in 0..Len(s), n \in 1..Len(s) :
            i + n + n <= Len(s) /\ \A k \in 1..n : s[i + k] = s[i + n + k]
    BY DEF Repeats, s
  <1>3. i \in 0..b /\ n \in 1..b /\ i + n + n <= b
    BY <1>1, <1>2
  <1>4. ASSUME NEW k \in 1..n PROVE t[i + k] = t[i + n + k]
    <2>1. i + k \in 1..a /\ i + n + k \in 1..a /\ i + k \in 1..b /\ i + n + k \in 1..b
      BY <1>1, <1>2, <1>3
    <2> QED
      BY <1>1, <1>2, <2>1
  <1>5. Repeats(t)
    BY <1>1, <1>3, <1>4 DEF Repeats
  <1> QED
    BY <1>5 DEF t

\* Texts of the first letters.
LEMMA LettersMore ==
  ASSUME NEW g, NEW a \in Nat, NEW b \in Nat, a <= b, NEW t \in Letters(g, a)
  PROVE  t \in Letters(g, b)
  <1>1. {Letter(g, i) : i \in 1..a} \subseteq {Letter(g, i) : i \in 1..b}
    OBVIOUS
  <1> QED
    BY <1>1 DEF Letters

LEMMA FullWord ==
  ASSUME NEW g, NEW n \in Nat PROVE Full(Word(g, n), g, n)
  BY WordFacts DEF Full, Letters

LEMMA FullBegun ==
  ASSUME NEW g, NEW n \in Nat, NEW t, Full(t, g, n) PROVE Begun(t, g, n)
  BY DEF Full, Begun

LEMMA BegunLater ==
  ASSUME NEW g, NEW a \in Nat, NEW b \in Nat, a <= b, NEW t, Begun(t, g, a)
  PROVE  Begun(t, g, b)
  <1>1. t \in Letters(g, b)
    BY LettersMore DEF Begun
  <1>2. Clear(g, b) => \E k \in 0..b : t = Word(g, k)
    BY ClearBefore DEF Begun
  <1> QED
    BY <1>1, <1>2 DEF Begun

\* A text that is made up of two others.
LEMMA ConcatIs ==
  ASSUME NEW A, NEW s \in Seq(A), NEW t \in Seq(A), NEW w \in Seq(A), NEW m \in Nat, NEW n \in Nat,
         Len(s) = m, Len(t) = n, Len(w) = m + n,
         \A i \in 1..m : w[i] = s[i],
         \A i \in 1..n : w[m + i] = t[i]
  PROVE  s \o t = w
  <1> DEFINE r == s \o t
  <1>1. /\ r \in Seq(A)
        /\ Len(r) = Len(s) + Len(t)
        /\ \A i \in 1..(Len(s) + Len(t)) : r[i] = IF i <= Len(s) THEN s[i] ELSE t[i - Len(s)]
    BY ConcatProperties
  <1> HIDE DEF r
  <1>2. ASSUME NEW i \in 1..(m + n) PROVE r[i] = w[i]
    <2>1. CASE i <= m
      BY <1>1, <2>1
    <2>2. CASE ~(i <= m)
      <3>1. i - m \in 1..n /\ m + (i - m) = i
        BY <2>2
      <3>2. r[i] = t[i - m]
        BY <1>1, <2>2
      <3>3. w[m + (i - m)] = t[i - m]
        BY <3>1
      <3> QED
        BY <3>1, <3>2, <3>3
    <2> QED
      BY <2>1, <2>2
  <1>3. r = w
    BY <1>1, <1>2, SeqEqual
  <1> QED
    BY <1>3 DEF r

\* mergePendingStreamChunk and getAppendableChunk of the next letters, or of the next snapshot.
LEMMA MergeDelta ==
  ASSUME NEW g, NEW a \in Nat, NEW b \in Nat, NEW c \in Nat, a <= b, b <= c,
         ~Repeats(Word(g, c))
  PROVE  mergePendingStreamChunk(Segment(g, a, b), Segment(g, b, c)) = Segment(g, a, c)
  <1> DEFINE A == {Letter(g, i) : i \in 1..c}
             s == Segment(g, a, b)
             t == Segment(g, b, c)
             w == Segment(g, a, c)
             m == b - a
             n == c - b
  <1>1. s \in Seq(A) /\ t \in Seq(A) /\ w \in Seq(A) /\ Len(s) = m /\ Len(t) = n /\ Len(w) = m + n
    BY DEF Segment
  <1>2. /\ \A i \in 1..m : s[i] = Letter(g, a + i)
        /\ \A i \in 1..n : t[i] = Letter(g, b + i)
        /\ \A i \in 1..(m + n) : w[i] = Letter(g, a + i)
    BY DEF Segment
  <1>3. m \in Nat /\ n \in Nat /\ a + m = b
    OBVIOUS
  <1>4. s = <<>> \/ ~IsPrefix(s, t)
    <2>1. CASE a = b
      BY <2>1, SegmentFacts
    <2>2. CASE a # b
      BY <2>2, NextDiffers
    <2> QED
      BY <2>1, <2>2
  <1> HIDE DEF s, t, w, A, m, n
  <1>5. s \o t = w
    <2>1. \A i \in 1..m : w[i] = s[i]
      BY <1>2, <1>3
    <2>2. ASSUME NEW i \in 1..n PROVE w[m + i] = t[i]
      <3>1. m + i \in 1..(m + n) /\ a + (m + i) = b + i
        BY <1>3
      <3> QED
        BY <1>2, <3>1
    <2>3. \A i \in 1..n : w[m + i] = t[i]
      BY <2>2
    <2>4. /\ m \in Nat /\ n \in Nat /\ Len(s) = m /\ Len(t) = n /\ Len(w) = m + n
          /\ s \in Seq(A) /\ t \in Seq(A) /\ w \in Seq(A)
          /\ \A i \in 1..m : w[i] = s[i]
          /\ \A i \in 1..n : w[m + i] = t[i]
      BY <1>1, <1>3, <2>1, <2>3
    <2> QED
      BY <2>4, ConcatIs
  <1> QED
    BY <1>4, <1>5 DEF mergePendingStreamChunk, s, t, w

LEMMA MergeSnapshot ==
  ASSUME NEW g, NEW b \in Nat, NEW c \in Nat, b <= c, NEW p, p \in {<<>>, Word(g, b)}
  PROVE  mergePendingStreamChunk(p, Word(g, c)) = Word(g, c)
  <1>1. CASE p = <<>>
    <2>1. Word(g, c) \in Seq({Letter(g, i) : i \in 1..c})
      BY WordFacts
    <2>2. <<>> \o Word(g, c) = Word(g, c)
      BY <2>1
    <2> QED
      BY <1>1, <2>2 DEF mergePendingStreamChunk
  <1>2. CASE p # <<>>
    <2>1. IsPrefix(p, Word(g, c))
      BY <1>2, WordPrefix
    <2> QED
      BY <1>2, <2>1 DEF mergePendingStreamChunk
  <1> QED
    BY <1>1, <1>2

LEMMA AppendDelta ==
  ASSUME NEW g, NEW a \in Nat, NEW b \in Nat, a < b, ~Repeats(Word(g, b))
  PROVE  Word(g, a) \o getAppendableChunk(Word(g, a), Segment(g, a, b)) = Word(g, b)
  <1> DEFINE A == {Letter(g, i) : i \in 1..b}
             s == Word(g, a)
             t == Segment(g, a, b)
             w == Word(g, b)
  <1>1. s \in Seq(A) /\ t \in Seq(A) /\ w \in Seq(A) /\ Len(s) = a /\ Len(t) = b - a /\ Len(w) = b
    BY DEF Segment, Word
  <1>2. /\ \A i \in 1..a : s[i] = Letter(g, i)
        /\ \A i \in 1..(b - a) : t[i] = Letter(g, a + i)
        /\ \A i \in 1..b : w[i] = Letter(g, i)
    BY DEF Segment, Word
  <1> HIDE DEF s, t, w, A
  <1>3. s = <<>> \/ ~IsPrefix(s, t)
    <2>1. s = Segment(g, 0, a)
      BY DEF s, Word, Segment
    <2>2. CASE a = 0
      BY <1>1, <2>2
    <2>3. CASE a # 0
      BY <2>1, <2>3, NextDiffers DEF t
    <2> QED
      BY <2>2, <2>3
  <1>4. s \o t = w
    <2>1. b - a \in Nat /\ a + (b - a) = b
      OBVIOUS
    <2>2. \A i \in 1..a : w[i] = s[i]
      BY <1>2
    <2>3. \A i \in 1..(b - a) : a + i \in 1..b
      OBVIOUS
    <2>4. \A i \in 1..(b - a) : w[a + i] = t[i]
      BY <1>2, <2>3
    <2> DEFINE n == b - a
    <2>5. /\ n \in Nat /\ Len(t) = n /\ Len(w) = a + n
          /\ \A i \in 1..n : w[a + i] = t[i]
          /\ s \in Seq(A) /\ t \in Seq(A) /\ w \in Seq(A) /\ Len(s) = a
      BY <1>1, <2>1, <2>4
    <2> HIDE DEF n
    <2> QED
      BY <2>2, <2>5, ConcatIs
  <1> QED
    BY <1>3, <1>4 DEF getAppendableChunk, s, t, w

LEMMA AppendSnapshot ==
  ASSUME NEW g, NEW a \in Nat, NEW b \in Nat, a <= b
  PROVE  Word(g, a) \o getAppendableChunk(Word(g, a), Word(g, b)) = Word(g, b)
  <1> DEFINE A == {Letter(g, i) : i \in 1..b}
             s == Word(g, a)
             w == Word(g, b)
  <1>1. s \in Seq(A) /\ w \in Seq(A) /\ Len(s) = a /\ Len(w) = b
    BY DEF Word
  <1>2. \A i \in 1..a : s[i] = w[i]
    BY DEF Word
  <1>3. IsPrefix(s, w)
    BY WordPrefix
  <1> HIDE DEF s, w, A
  <1>4. CASE s = <<>>
    BY <1>1, <1>4 DEF getAppendableChunk, s, w
  <1>5. CASE s # <<>>
    <2> DEFINE t == SubSeq(w, a + 1, b)
    <2>1. getAppendableChunk(s, w) = t
      BY <1>1, <1>3, <1>5 DEF getAppendableChunk
    <2>2. t \in Seq(A) /\ Len(t) = b - a /\ \A i \in 1..(b - a) : t[i] = w[a + i]
      BY <1>1
    <2> HIDE DEF t
    <2>3. b - a \in Nat /\ a + (b - a) = b
      OBVIOUS
    <2>4. (\A i \in 1..a : w[i] = s[i]) /\ (\A i \in 1..(b - a) : w[a + i] = t[i])
      BY <1>2, <2>2
    <2>5. s \o t = w
      <3> DEFINE n == b - a
      <3>1. /\ n \in Nat /\ Len(t) = n /\ Len(w) = a + n
            /\ \A i \in 1..n : w[a + i] = t[i]
            /\ s \in Seq(A) /\ t \in Seq(A) /\ w \in Seq(A) /\ Len(s) = a
        BY <1>1, <2>2, <2>3, <2>4
      <3>2. \A i \in 1..a : w[i] = s[i]
        BY <2>4
      <3> HIDE DEF n
      <3> QED
        BY <3>1, <3>2, ConcatIs
    <2> QED
      BY <2>1, <2>5 DEF s, w
  <1> QED
    BY <1>4, <1>5

-----------------------------------------------------------------------------
(* One update of the conversation.                                         *)

\* What the chunks are made of, the texts are made of.
LEMMA AppendableSeq ==
  ASSUME NEW A, NEW s \in Seq(A), NEW t \in Seq(A)
  PROVE  getAppendableChunk(s, t) \in Seq(A) /\ s \o getAppendableChunk(s, t) \in Seq(A)
  <1> DEFINE r == getAppendableChunk(s, t)
  <1>1. CASE s = <<>> \/ ~IsPrefix(s, t)
    <2>1. r = t
      BY <1>1 DEF getAppendableChunk
    <2> QED
      BY <2>1, ConcatProperties
  <1>2. CASE ~(s = <<>> \/ ~IsPrefix(s, t))
    <2>1. Len(s) + 1 \in Int /\ Len(t) \in Int /\ Len(s) >= 0
      OBVIOUS
    <2>2. \A i \in (Len(s) + 1)..Len(t) : t[i] \in A
      BY <2>1
    <2>3. SubSeq(t, Len(s) + 1, Len(t)) \in Seq(A)
      BY <2>1, <2>2, SubSeqProperties
    <2>4. r \in Seq(A)
      BY <1>2, <2>3 DEF getAppendableChunk
    <2> HIDE DEF r
    <2>5. s \o r \in Seq(A)
      BY <2>4, ConcatProperties
    <2> QED
      BY <2>4, <2>5 DEF r
  <1> QED
    BY <1>1, <1>2

LEMMA MergedSeq ==
  ASSUME NEW A, NEW s \in Seq(A), NEW t \in Seq(A)
  PROVE  mergePendingStreamChunk(s, t) \in Seq(A)
  BY ConcatProperties DEF mergePendingStreamChunk

LEMMA AppendableType ==
  ASSUME NEW s \in Texts, NEW t \in Texts
  PROVE  getAppendableChunk(s, t) \in Texts
  BY AppendableSeq DEF Texts

LEMMA ConcatType ==
  ASSUME NEW s \in Texts, NEW t \in Texts PROVE s \o t \in Texts
  BY ConcatProperties DEF Texts

\* An updater changes the status and the text of a message only.
LEMMA UpdatedType ==
  ASSUME NEW m \in Messages, NEW u \in Steps
  PROVE  Updated(u, m) \in Messages /\ Updated(u, m).key = m.key
  <1> DEFINE t == m.text \o getAppendableChunk(m.text, u.text)
  <1>1. m.text \in Texts /\ u.text \in Texts
    BY DEF Messages, Steps
  <1>2. t \in Texts
    BY <1>1, AppendableType, ConcatType
  <1> HIDE DEF t
  <1>3. CASE u.kind = "chunk"
    <2>1. Updated(u, m) = IF m.status = "error" THEN m ELSE [m EXCEPT !.text = t, !.status = "streaming"]
      BY <1>3 DEF Updated, applyStreamingChunk, t
    <2>2. [m EXCEPT !.text = t, !.status = "streaming"] \in Messages
      BY <1>2 DEF Messages
    <2>3. [m EXCEPT !.text = t, !.status = "streaming"].key = m.key
      BY DEF Messages
    <2> QED
      BY <2>1, <2>2, <2>3
  <1>4. CASE u.kind = "complete"
    BY <1>4 DEF Updated, Messages
  <1>5. CASE u.kind = "stop"
    BY <1>5 DEF Updated, Messages
  <1>6. CASE u.kind = "error"
    <2>1. Updated(u, m) = [m EXCEPT !.status = "error", !.text = Own]
      BY <1>6 DEF Updated
    <2> QED
      BY <2>1, OwnType DEF Messages
  <1>7. CASE u.kind = "response"
    <2>1. Updated(u, m) = [m EXCEPT !.status = "complete", !.text = u.text]
      BY <1>7 DEF Updated
    <2> QED
      BY <1>1, <2>1 DEF Messages
  <1> QED
    BY <1>3, <1>4, <1>5, <1>6, <1>7 DEF Steps

\* An update concerns the last message, which is an answer, or nothing.
LEMMA ApplyCases ==
  ASSUME NEW ms \in Seq(Messages), NEW u \in Steps, NEW g
  PROVE  \/ /\ Apply(u, ms, g) = ms
            /\ u.gen # g \/ ms = <<>> \/ ~IsAnswer(ms[Len(ms)])
         \/ /\ u.gen = g /\ Len(ms) \in 1..Len(ms) /\ IsAnswer(ms[Len(ms)])
            /\ Apply(u, ms, g) = [ms EXCEPT ![Len(ms)] = Updated(u, ms[Len(ms)])]
  <1>1. u.kind # "set"
    BY DEF Steps
  <1>2. Last(ms) = ms[Len(ms)]
    BY DEF Last
  <1>3. ms # <<>> => Len(ms) \in 1..Len(ms)
    OBVIOUS
  <1> QED
    BY <1>1, <1>2, <1>3 DEF Apply

LEMMA ApplyStale ==
  ASSUME NEW ms, NEW u \in Steps, NEW g, u.gen # g
  PROVE  Apply(u, ms, g) = ms
  BY DEF Apply, Steps

LEMMA ApplySet ==
  ASSUME NEW ms, NEW old, NEW g PROVE Apply(Set(ms), old, g) = ms
  BY DEF Apply, Set

LEMMA ApplyType ==
  ASSUME NEW ms \in Seq(Messages), NEW u \in Steps, NEW g
  PROVE  /\ Apply(u, ms, g) \in Seq(Messages)
         /\ Len(Apply(u, ms, g)) = Len(ms)
         /\ \A i \in 1..Len(ms) : Apply(u, ms, g)[i].key = ms[i].key
         /\ \A i \in 1..Len(ms) : i # Len(ms) => Apply(u, ms, g)[i] = ms[i]
  <1>1. CASE Apply(u, ms, g) = ms
    BY <1>1
  <1>2. CASE /\ Len(ms) \in 1..Len(ms)
             /\ Apply(u, ms, g) = [ms EXCEPT ![Len(ms)] = Updated(u, ms[Len(ms)])]
    <2> DEFINE n == Len(ms)
               e == Updated(u, ms[n])
               r == [ms EXCEPT ![n] = e]
    <2>1. e \in Messages /\ e.key = ms[n].key
      BY <1>2, UpdatedType
    <2>2. Apply(u, ms, g) = r /\ n \in 1..Len(ms) /\ Len(ms) = n
      BY <1>2
    <2> HIDE DEF n, e
    <2>3. /\ r \in Seq(Messages)
          /\ Len(r) = Len(ms)
          /\ \A j \in 1..Len(ms) : r[j] = IF j = n THEN e ELSE ms[j]
      BY <2>1, <2>2, ExceptSeq
    <2> QED
      BY <2>1, <2>2, <2>3
  <1> QED
    BY <1>1, <1>2, ApplyCases

LEMMA ApplyFits ==
  ASSUME NEW ms, Fits(ms), NEW u \in Steps, NEW g
  PROVE  Fits(Apply(u, ms, g))
  BY ApplyType DEF Fits

LEMMA ApplyCalm ==
  ASSUME NEW ms \in Seq(Messages), NEW u \in Steps, NEW g, Calm(ms)
  PROVE  Calm(Apply(u, ms, g))
  <1> DEFINE r == Apply(u, ms, g)
  <1>1. Len(r) = Len(ms) /\ \A i \in 1..Len(ms) : i # Len(ms) => r[i] = ms[i]
    BY ApplyType
  <1> HIDE DEF r
  <1>2. Calm(r)
    BY <1>1 DEF Calm
  <1> QED
    BY <1>2 DEF r

\* The updates that end an answer.
Ends == {"complete", "stop", "error", "response"}

LEMMA UpdatedEnds ==
  ASSUME NEW m \in Messages, NEW u \in Steps, u.kind \in Ends
  PROVE  ~Pending(Updated(u, m))
  BY DEF Messages, Updated, Pending, Final, Ends

LEMMA ApplyEnds ==
  ASSUME NEW ms \in Seq(Messages), NEW u \in Steps, u.kind \in Ends, Calm(ms)
  PROVE  Settled(Apply(u, ms, u.gen))
  <1> DEFINE r == Apply(u, ms, u.gen)
             n == Len(ms)
  <1>1. /\ Len(r) = n /\ n \in Nat
        /\ \A i \in 1..n : i # n => r[i] = ms[i]
    BY ApplyType
  <1>2. n > 0 => ~Waits(r[n])
    <2> SUFFICES ASSUME n > 0 PROVE ~Waits(r[n])
      OBVIOUS
    <2>0. ms # <<>>
      OBVIOUS
    <2>1. CASE r = ms /\ ~IsAnswer(ms[n])
      BY <2>1 DEF Waits
    <2>2. CASE n \in 1..n /\ r = [ms EXCEPT ![n] = Updated(u, ms[n])]
      <3>1. ms[n] \in Messages /\ r[n] = Updated(u, ms[n])
        BY <2>2
      <3> QED
        BY <3>1, UpdatedEnds DEF Waits
    <2> QED
      BY <2>0, <2>1, <2>2, ApplyCases
  <1> HIDE DEF r, n
  <1>3. \A i \in 1..n : i # n => ~Waits(ms[i])
    BY DEF Calm, n
  <1>4. Settled(r)
    BY <1>1, <1>2, <1>3 DEF Settled
  <1> QED
    BY <1>4 DEF r

-----------------------------------------------------------------------------
(* What an update does to the text.                                        *)

\* A later state: more generations, and more letters sent.
Later(g, calls, h, later) ==
    /\ g \in Int /\ h \in Int /\ g <= h
    /\ \A k \in Gens : /\ calls[k].sent \in Nat /\ later[k].sent \in Nat
                       /\ calls[k].sent <= later[k].sent

LEMMA MessageLater ==
  ASSUME NEW m \in Messages, NEW g, NEW calls, NEW h, NEW later, Later(g, calls, h, later),
         MessageOK(m, g, calls)
  PROVE  MessageOK(m, h, later)
  <1>0. MaxGen \in Nat
    BY ConstantsAssumption
  <1>1. m.key \in Keys
    BY DEF Messages
  <1>2. m.key[2] \in Int
    BY <1>0, <1>1 DEF Keys, NoKey
  <1>3. m.key[2] <= h
    BY <1>2 DEF MessageOK, Later
  <1>4. ASSUME IsAnswer(m), m.text # Own
        PROVE  m.key[2] \in Gens /\ Begun(m.text, m.key[2], later[m.key[2]].sent)
    <2> DEFINE k == m.key[2]
    <2>1. k \in Gens /\ Begun(m.text, k, calls[k].sent)
      BY <1>4 DEF MessageOK
    <2> HIDE DEF k
    <2>2. calls[k].sent \in Nat /\ later[k].sent \in Nat /\ calls[k].sent <= later[k].sent
      BY <2>1 DEF Later
    <2>3. Begun(m.text, k, later[k].sent)
      BY <2>1, <2>2, BegunLater
    <2> QED
      BY <2>1, <2>3 DEF k
  <1> QED
    BY <1>3, <1>4 DEF MessageOK

LEMMA SoundLater ==
  ASSUME NEW ms \in Seq(Messages), NEW g, NEW calls, NEW h, NEW later,
         Later(g, calls, h, later), Sound(ms, g, calls)
  PROVE  Sound(ms, h, later)
  <1>1. ASSUME NEW i \in 1..Len(ms) PROVE MessageOK(ms[i], h, later)
    <2>1. ms[i] \in Messages /\ MessageOK(ms[i], g, calls)
      BY DEF Sound
    <2> QED
      BY <2>1, MessageLater
  <1> QED
    BY <1>1 DEF Sound

\* An update that leaves the text of the answer or replaces it by Own.
LEMMA ApplySound ==
  ASSUME NEW ms \in Seq(Messages), NEW u \in Steps, NEW h, NEW g, NEW calls,
         Sound(ms, g, calls), u.kind \in {"complete", "stop", "error"}
  PROVE  Sound(Apply(u, ms, h), g, calls)
  <1> DEFINE r == Apply(u, ms, h)
             n == Len(ms)
  <1>1. /\ r \in Seq(Messages) /\ Len(r) = n /\ n \in Nat
        /\ \A i \in 1..n : i # n => r[i] = ms[i]
        /\ \A i \in 1..n : r[i].key = ms[i].key
    BY ApplyType
  <1>2. n > 0 => r[n].text \in {Own, ms[n].text}
    <2> SUFFICES ASSUME n > 0 PROVE r[n].text \in {Own, ms[n].text}
      OBVIOUS
    <2>1. CASE r = ms
      BY <2>1
    <2>2. CASE n \in 1..n /\ r = [ms EXCEPT ![n] = Updated(u, ms[n])]
      <3>1. ms[n] \in Messages /\ r[n] = Updated(u, ms[n])
        BY <2>2
      <3>2. Updated(u, ms[n]).text \in {Own, ms[n].text}
        BY <3>1 DEF Updated, Messages
      <3> QED
        BY <3>1, <3>2
    <2> QED
      BY <2>1, <2>2, ApplyCases
  <1> HIDE DEF r
  <1>3. ASSUME NEW i \in 1..n PROVE MessageOK(r[i], g, calls)
    <2>1. MessageOK(ms[i], g, calls)
      BY DEF Sound
    <2>2. r[i].key = ms[i].key /\ r[i].text \in {Own, ms[i].text}
      BY <1>1, <1>2
    <2> QED
      BY <2>1, <2>2 DEF MessageOK, IsAnswer
  <1> QED
    BY <1>1, <1>3 DEF Sound, r

\* The last message is the answer g with the text w.
LEMMA SoundLast ==
  ASSUME NEW ms \in Seq(Messages), NEW r \in Seq(Messages), Len(r) = Len(ms),
         \A i \in 1..Len(ms) : i # Len(ms) => r[i] = ms[i],
         NEW g \in Gens, NEW calls, Sound(ms, g, calls), calls[g].sent \in Nat,
         r[Len(ms)].key = <<"assistant", g>>, Full(r[Len(ms)].text, g, calls[g].sent)
  PROVE  Sound(r, g, calls)
  <1>1. g \in Nat
    BY ConstantsAssumption DEF Gens
  <1>2. MessageOK(r[Len(ms)], g, calls)
    <2>1. Begun(r[Len(ms)].text, g, calls[g].sent)
      BY FullBegun
    <2> QED
      BY <1>1, <2>1 DEF MessageOK
  <1>3. \A i \in 1..Len(ms) : i # Len(ms) => MessageOK(r[i], g, calls)
    BY DEF Sound
  <1> QED
    BY <1>2, <1>3 DEF Sound

\* Nothing is buffered: the answer shows all that was sent.
LEMMA JoinsAll ==
  ASSUME NEW t, NEW g, NEW n \in Nat, Joins(t, <<>>, g, n)
  PROVE  t = Word(g, n)
  <1>1. PICK a \in 0..n :
         /\ t = Word(g, a)
         /\ IF Format[g] = "delta" THEN <<>> = Segment(g, a, n)
            ELSE <<>> = Word(g, n) \/ (a = n /\ <<>> = <<>>)
    BY DEF Joins
  <1>2. a \in Nat /\ a <= n
    BY <1>1
  <1>3. CASE a = n
    BY <1>1, <1>3
  <1>4. CASE a # n /\ <<>> = Segment(g, a, n)
    BY <1>2, <1>4, SegmentFacts
  <1>5. CASE a # n /\ <<>> = Word(g, n)
    <2>1. n = 0
      BY <1>5, WordFacts
    <2> QED
      BY <1>2, <1>5, <2>1
  <1> QED
    BY <1>1, <1>3, <1>4, <1>5

LEMMA JoinedAll ==
  ASSUME NEW t, NEW g, NEW n \in Nat, Joined(t, <<>>, g, n)
  PROVE  Full(t, g, n)
  BY JoinsAll DEF Joined, Full

LEMMA JoinedNow ==
  ASSUME NEW t, NEW g, NEW n \in Nat, Full(t, g, n)
  PROVE  Joined(t, <<>>, g, n)
  <1>1. n \in 0..n /\ n <= n
    OBVIOUS
  <1>2. Segment(g, n, n) = <<>>
    BY <1>1, SegmentEmpty
  <1>3. Joins(Word(g, n), <<>>, g, n)
    BY <1>1, <1>2 DEF Joins
  <1>4. <<>> \in Letters(g, n)
    BY DEF Letters
  <1> QED
    BY <1>3, <1>4 DEF Joined, Full

\* A flush of the buffer brings the answer up to what was sent.
LEMMA JoinsFlush ==
  ASSUME NEW t, NEW p, NEW g, NEW n \in Nat, Joins(t, p, g, n), p # <<>>, Clear(g, n)
  PROVE  t \o getAppendableChunk(t, p) = Word(g, n)
  <1>1. PICK a \in 0..n :
         /\ t = Word(g, a)
         /\ IF Format[g] = "delta" THEN p = Segment(g, a, n)
            ELSE p = Word(g, n) \/ (a = n /\ p = <<>>)
    BY DEF Joins
  <1>2. a \in Nat /\ a <= n
    BY <1>1
  <1>3. CASE Format[g] = "delta"
    <2>1. p = Segment(g, a, n) /\ ~Repeats(Word(g, n))
      BY <1>1, <1>3 DEF Clear
    <2>2. a # n
      BY <1>2, <2>1, SegmentEmpty
    <2>3. a < n
      BY <1>2, <2>2
    <2> QED
      BY <1>1, <1>2, <2>1, <2>3, AppendDelta
  <1>4. CASE Format[g] # "delta"
    <2>1. p = Word(g, n)
      BY <1>1, <1>4
    <2> QED
      BY <1>1, <1>2, <2>1, AppendSnapshot
  <1> QED
    BY <1>3, <1>4

LEMMA JoinedFlush ==
  ASSUME NEW t, NEW p, NEW g, NEW n \in Nat, Joined(t, p, g, n), p # <<>>
  PROVE  Full(t \o getAppendableChunk(t, p), g, n)
  <1>1. t \o getAppendableChunk(t, p) \in Letters(g, n)
    BY AppendableSeq DEF Joined, Letters
  <1>2. Clear(g, n) => t \o getAppendableChunk(t, p) = Word(g, n)
    BY JoinsFlush DEF Joined
  <1> QED
    BY <1>1, <1>2 DEF Full

\* The next chunk is buffered.
LEMMA JoinsMerge ==
  ASSUME NEW t, NEW p, NEW g, NEW n \in Nat, NEW k \in Nat, n <= k, Joins(t, p, g, n),
         NEW chunk, chunk = IF Format[g] = "delta" THEN Segment(g, n, k) ELSE Word(g, k),
         Clear(g, k), Format[g] \in {"delta", "snapshot"}
  PROVE  Joins(t, mergePendingStreamChunk(p, chunk), g, k)
  <1>1. PICK a \in 0..n :
         /\ t = Word(g, a)
         /\ IF Format[g] = "delta" THEN p = Segment(g, a, n)
            ELSE p = Word(g, n) \/ (a = n /\ p = <<>>)
    BY DEF Joins
  <1>2. a \in Nat /\ a <= n /\ a \in 0..k
    BY <1>1
  <1>3. CASE Format[g] = "delta"
    <2>1. ~Repeats(Word(g, k))
      BY <1>3 DEF Clear
    <2>2. mergePendingStreamChunk(p, chunk) = Segment(g, a, k)
      BY <1>1, <1>2, <1>3, <2>1, MergeDelta
    <2> QED
      BY <1>1, <1>2, <1>3, <2>2 DEF Joins
  <1>4. CASE Format[g] # "delta"
    <2>1. mergePendingStreamChunk(p, chunk) = Word(g, k)
      BY <1>1, <1>2, <1>4, MergeSnapshot
    <2> QED
      BY <1>1, <1>2, <1>4, <2>1 DEF Joins
  <1> QED
    BY <1>3, <1>4

\* A chunk is made of letters that were sent.
LEMMA ChunkLetters ==
  ASSUME NEW g, NEW n \in Nat, NEW k \in Nat, n <= k
  PROVE  Segment(g, n, k) \in Letters(g, k) /\ Word(g, k) \in Letters(g, k)
  <1>1. Segment(g, n, k) \in Letters(g, k)
    BY SegmentFacts DEF Letters
  <1>2. Word(g, k) \in Letters(g, k)
    BY WordFacts DEF Letters
  <1> QED
    BY <1>1, <1>2

LEMMA JoinedMerge ==
  ASSUME NEW t, NEW p, NEW g \in Gens, NEW n \in Nat, NEW k \in Nat, n <= k, Joined(t, p, g, n),
         NEW chunk, chunk = IF Format[g] = "delta" THEN Segment(g, n, k) ELSE Word(g, k)
  PROVE  Joined(t, mergePendingStreamChunk(p, chunk), g, k)
  <1>1. t \in Letters(g, k) /\ p \in Letters(g, k)
    BY LettersMore DEF Joined
  <1>2. chunk \in Letters(g, k)
    BY ChunkLetters
  <1>3. mergePendingStreamChunk(p, chunk) \in Letters(g, k)
    BY <1>1, <1>2, MergedSeq DEF Letters
  <1>4. Format[g] \in {"delta", "snapshot"}
    BY ConstantsAssumption DEF Gens
  <1>5. ASSUME Clear(g, k) PROVE Joins(t, mergePendingStreamChunk(p, chunk), g, k)
    <2>1. Joins(t, p, g, n)
      BY <1>5, ClearBefore DEF Joined
    <2> QED
      BY <1>4, <1>5, <2>1, JoinsMerge
  <1> QED
    BY <1>1, <1>3, <1>5 DEF Joined

\* A chunk of the current answer is applied to the conversation.
LEMMA GrowingFlush ==
  ASSUME NEW ms \in Seq(Messages), NEW u \in Steps, u.kind = "chunk", u.text # <<>>,
         NEW n \in Nat, Growing(ms, u.text, u.gen, n)
  PROVE  /\ Growing(Apply(u, ms, u.gen), <<>>, u.gen, n)
         /\ Full(Apply(u, ms, u.gen)[Len(ms)].text, u.gen, n)
  <1> DEFINE g == u.gen
             r == Apply(u, ms, g)
             l == Len(ms)
  <1>1. /\ l \in 1..l /\ ms # <<>> /\ ms[l] \in Messages /\ ms[l].key = <<"assistant", g>>
        /\ g \in Gens
    BY DEF Growing
  <1>2. IsAnswer(ms[l])
    BY <1>1 DEF IsAnswer
  <1>3. r = [ms EXCEPT ![l] = Updated(u, ms[l])]
    BY <1>1, <1>2, ApplyCases
  <1>4. r[l] = Updated(u, ms[l])
    BY <1>1, <1>3
  <1>5. ms[l].status # "error" /\ Joined(ms[l].text, u.text, g, n)
    BY DEF Growing, Pending
  <1>6. Updated(u, ms[l]) = [ms[l] EXCEPT !.text = ms[l].text \o getAppendableChunk(ms[l].text, u.text),
                                         !.status = "streaming"]
    BY <1>5 DEF Updated, applyStreamingChunk
  <1>7. Full(ms[l].text \o getAppendableChunk(ms[l].text, u.text), g, n)
    <2> DEFINE t == ms[l].text
               p == u.text
    <2>1. Joined(t, p, g, n) /\ p # <<>>
      BY <1>5
    <2> HIDE DEF t, p, g
    <2>2. Full(t \o getAppendableChunk(t, p), g, n)
      BY <2>1, JoinedFlush
    <2> QED
      BY <2>2 DEF t, p
  <1>8. Full(r[l].text, g, n) /\ r[l].status = "streaming"
    BY <1>1, <1>4, <1>6, <1>7 DEF Messages
  <1>9. /\ Len(r) = l
        /\ \A i \in 1..l : r[i].key = ms[i].key
    BY ApplyType
  <1> HIDE DEF r, l
  <1>10. \A i \in 1..l : ms[i].key = <<"assistant", g>> <=> i = l
    BY DEF Growing, l
  <1>11. Growing(r, <<>>, g, n)
    <2>1. Pending(r[l])
      BY <1>8 DEF Pending
    <2>2. Joined(r[l].text, <<>>, g, n)
      BY <1>8, JoinedNow
    <2>3. l > 0
      BY <1>1 DEF l
    <2> QED
      BY <1>1, <1>9, <1>10, <2>1, <2>2, <2>3 DEF Growing
  <1> QED
    BY <1>8, <1>11 DEF r, l

\* The answer is complete: it shows all that was sent.
LEMMA GrowingComplete ==
  ASSUME NEW ms \in Seq(Messages), NEW u \in Steps, u.kind \in {"complete", "response"},
         NEW n \in Nat, Growing(ms, <<>>, u.gen, n) \/ u.kind = "response", NEW p, NEW k,
         Growing(ms, p, u.gen, k),
         u.kind = "response" => u.text = Word(u.gen, n)
  PROVE  Whole(Apply(u, ms, u.gen), u.gen, n) /\ Full(Apply(u, ms, u.gen)[Len(ms)].text, u.gen, n)
  <1> DEFINE g == u.gen
             r == Apply(u, ms, g)
             l == Len(ms)
  <1>1. /\ l \in 1..l /\ ms # <<>> /\ ms[l] \in Messages /\ ms[l].key = <<"assistant", g>>
        /\ g \in Gens
    BY DEF Growing
  <1>2. IsAnswer(ms[l])
    BY <1>1 DEF IsAnswer
  <1>3. r = [ms EXCEPT ![l] = Updated(u, ms[l])]
    BY <1>1, <1>2, ApplyCases
  <1>4. r[l] = Updated(u, ms[l])
    BY <1>1, <1>3
  <1>5. Full(r[l].text, g, n)
    <2>1. CASE u.kind = "response"
      <3>1. Updated(u, ms[l]) = [ms[l] EXCEPT !.status = "complete", !.text = u.text]
        BY <2>1 DEF Updated
      <3>2. r[l].text = Word(g, n)
        BY <1>1, <1>4, <2>1, <3>1 DEF Messages
      <3> QED
        BY <3>2, FullWord
    <2>2. CASE u.kind = "complete"
      <3>1. Updated(u, ms[l]).text = ms[l].text
        BY <1>1, <2>2 DEF Updated, Messages
      <3>2. Joined(ms[l].text, <<>>, g, n)
        BY <2>2 DEF Growing
      <3>3. Full(ms[l].text, g, n)
        BY <3>2, JoinedAll
      <3> QED
        BY <1>4, <3>1, <3>3
    <2> QED
      BY <2>1, <2>2
  <1>6. /\ Len(r) = l
        /\ \A i \in 1..l : r[i].key = ms[i].key
    BY ApplyType
  <1>7. \A i \in 1..l : ms[i].key = <<"assistant", g>> <=> i = l
    BY DEF Growing, l
  <1> HIDE DEF r, l
  <1>8. Whole(r, g, n)
    BY <1>5, <1>6, <1>7 DEF Whole
  <1> QED
    BY <1>5, <1>8 DEF r, l

-----------------------------------------------------------------------------
(* The storage.                                                            *)

\* Only the last messages are kept.
LEMMA TrimKeeps ==
  ASSUME NEW ms \in Seq(Messages)
  PROVE  /\ trimMessages(ms) \in Seq(Messages)
         /\ Len(trimMessages(ms)) <= Len(ms)
         /\ Len(trimMessages(ms)) <= MaxStored
         /\ \A i \in 1..Len(trimMessages(ms)) :
               LET j == i + (Len(ms) - Len(trimMessages(ms)))
               IN  j \in 1..Len(ms) /\ trimMessages(ms)[i] = ms[j]
  <1> DEFINE l == Len(ms)
             r == SubSeq(ms, l - MaxStored + 1, l)
  <1>0. MaxStored \in Nat /\ l \in Nat
    BY ConstantsAssumption
  <1>1. CASE l <= MaxStored
    <2>1. trimMessages(ms) = ms
      BY <1>1 DEF trimMessages
    <2> QED
      BY <1>0, <1>1, <2>1
  <1>2. CASE ~(l <= MaxStored)
    <2>1. trimMessages(ms) = r
      BY <1>2 DEF trimMessages
    <2>2. \A i \in (l - MaxStored + 1)..l : ms[i] \in Messages
      BY <1>0, <1>2
    <2>3. l - MaxStored + 1 \in Int /\ l \in Int
      BY <1>0
    <2>4. /\ r \in Seq(Messages)
          /\ Len(r) = IF l - MaxStored + 1 <= l THEN l - (l - MaxStored + 1) + 1 ELSE 0
          /\ \A i \in 1..(l - (l - MaxStored + 1) + 1) : r[i] = ms[(l - MaxStored + 1) + i - 1]
      <3> HIDE DEF l
      <3> QED
        BY <2>2, <2>3, SubSeqProperties
    <2>5. Len(r) = MaxStored /\ \A i \in 1..MaxStored : r[i] = ms[i + (l - MaxStored)]
      <3> HIDE DEF l, r
      <3>1. l - (l - MaxStored + 1) + 1 = MaxStored
        BY <1>0
      <3>2. \A i \in 1..MaxStored : (l - MaxStored + 1) + i - 1 = i + (l - MaxStored)
        BY <1>0
      <3>3. Len(r) = MaxStored
        BY <1>0, <2>4, <3>1
      <3> QED
        BY <2>4, <3>1, <3>2, <3>3
    <2> HIDE DEF r
    <2> QED
      BY <1>0, <1>2, <2>1, <2>4, <2>5
  <1> QED
    BY <1>1, <1>2

LEMMA TrimFits ==
  ASSUME NEW ms, Fits(ms)
  PROVE  Fits(trimMessages(ms)) /\ Len(trimMessages(ms)) <= MaxStored
  <1>1. ms \in Seq(Messages) /\ Len(ms) <= MaxMessages /\ MaxMessages \in Nat /\ MaxStored \in Nat
    BY ConstantsAssumption DEF Fits
  <1> DEFINE r == trimMessages(ms)
  <1>2. r \in Seq(Messages) /\ Len(r) <= Len(ms) /\ Len(r) <= MaxStored
    BY <1>1, TrimKeeps
  <1> HIDE DEF r
  <1> QED
    BY <1>1, <1>2 DEF Fits, r

LEMMA TrimCalm ==
  ASSUME NEW ms \in Seq(Messages), Calm(ms)
  PROVE  Calm(trimMessages(ms))
  <1> DEFINE r == trimMessages(ms)
             d == Len(ms) - Len(r)
  <1>1. /\ r \in Seq(Messages)
        /\ \A i \in 1..Len(r) : i + d \in 1..Len(ms) /\ r[i] = ms[i + d]
    BY TrimKeeps
  <1> HIDE DEF r
  <1>2. ASSUME NEW i \in 1..Len(r), Waits(r[i]) PROVE i = Len(r)
    <2>1. i + d \in 1..Len(ms) /\ Waits(ms[i + d])
      BY <1>1, <1>2
    <2>2. i + d = Len(ms)
      BY <2>1 DEF Calm
    <2> QED
      BY <1>1, <2>2
  <1> QED
    BY <1>2 DEF Calm, r

LEMMA TrimSound ==
  ASSUME NEW ms \in Seq(Messages), NEW g, NEW calls, Sound(ms, g, calls)
  PROVE  Sound(trimMessages(ms), g, calls)
  <1> DEFINE r == trimMessages(ms)
             d == Len(ms) - Len(r)
  <1>1. \A i \in 1..Len(r) : i + d \in 1..Len(ms) /\ r[i] = ms[i + d]
    BY TrimKeeps
  <1> HIDE DEF r, d
  <1>2. Sound(r, g, calls)
    BY <1>1 DEF Sound
  <1> QED
    BY <1>2 DEF r

\* A repair of a message: its status changes, and its text when it is replaced by Own.
Repairs(m, r) ==
    /\ r \in Messages
    /\ r.key = m.key
    /\ r.text \in {Own, m.text}
    /\ Pending(r) => Pending(m)

LEMMA RepairedTalk ==
  ASSUME NEW ms \in Seq(Messages), NEW r, DOMAIN r = 1..Len(ms), r = [i \in 1..Len(ms) |-> r[i]],
         \A i \in 1..Len(ms) : Repairs(ms[i], r[i])
  PROVE  /\ r \in Seq(Messages)
         /\ Len(r) = Len(ms)
         /\ Calm(ms) => Calm(r)
         /\ \A g, calls : Sound(ms, g, calls) => Sound(r, g, calls)
  <1>1. Len(ms) \in Nat /\ r \in [1..Len(ms) -> Messages]
    BY DEF Repairs
  <1>2. r \in Seq(Messages) /\ Len(r) = Len(ms)
    BY <1>1
  <1>3. Calm(ms) => Calm(r)
    BY <1>2 DEF Calm, Repairs, Waits, IsAnswer
  <1>4. ASSUME NEW g, NEW calls, Sound(ms, g, calls) PROVE Sound(r, g, calls)
    <2>1. ASSUME NEW i \in 1..Len(ms) PROVE MessageOK(r[i], g, calls)
      <3>1. MessageOK(ms[i], g, calls) /\ Repairs(ms[i], r[i])
        BY <1>4 DEF Sound
      <3> QED
        BY <3>1 DEF MessageOK, Repairs, IsAnswer
    <2> QED
      BY <1>2, <2>1 DEF Sound
  <1> QED
    BY <1>2, <1>3, <1>4

LEMMA NormalizedRepairs ==
  ASSUME NEW m \in Messages
  PROVE  Repairs(m, Normalized(m))
  BY DEF Normalized, Repairs, Messages, Pending

\* Normalized messages.
Normal(ms) == [i \in DOMAIN ms |-> Normalized(ms[i])]

LEMMA NormalTalk ==
  ASSUME NEW ms \in Seq(Messages)
  PROVE  /\ Normal(ms) \in Seq(Messages)
         /\ Len(Normal(ms)) = Len(ms)
         /\ Calm(ms) => Calm(Normal(ms))
         /\ \A g, calls : Sound(ms, g, calls) => Sound(Normal(ms), g, calls)
  <1> DEFINE r == Normal(ms)
  <1>1. DOMAIN ms = 1..Len(ms)
    OBVIOUS
  <1>2. DOMAIN r = 1..Len(ms) /\ r = [i \in 1..Len(ms) |-> r[i]]
    BY <1>1 DEF Normal
  <1>3. ASSUME NEW i \in 1..Len(ms) PROVE Repairs(ms[i], r[i])
    <2>1. ms[i] \in Messages /\ r[i] = Normalized(ms[i])
      BY <1>1 DEF Normal
    <2> QED
      BY <2>1, NormalizedRepairs
  <1> HIDE DEF r
  <1> QED
    BY <1>2, <1>3, RepairedTalk DEF r

\* The repair of sanitizeMessagesOnLoad.
Sanitized(m) == IF m.text # <<>> THEN [m EXCEPT !.status = "complete"]
                ELSE [m EXCEPT !.status = "error", !.text = Own]

LEMMA SanitizedRepairs ==
  ASSUME NEW m \in Messages
  PROVE  Repairs(m, Sanitized(m)) /\ ~Pending(Sanitized(m))
  <1>1. CASE m.text # <<>>
    BY <1>1 DEF Sanitized, Repairs, Messages, Pending
  <1>2. CASE m.text = <<>>
    <2>1. Sanitized(m) = [m EXCEPT !.status = "error", !.text = Own]
      BY <1>2 DEF Sanitized
    <2>2. Sanitized(m) \in Messages
      BY <2>1, OwnType DEF Messages
    <2> QED
      BY <2>1, <2>2 DEF Repairs, Messages, Pending
  <1> QED
    BY <1>1, <1>2

LEMMA SanitizedTalk ==
  ASSUME NEW ms \in Seq(Messages)
  PROVE  /\ sanitizeMessagesOnLoad(ms) \in Seq(Messages)
         /\ Len(sanitizeMessagesOnLoad(ms)) = Len(ms)
         /\ Calm(ms) => Settled(sanitizeMessagesOnLoad(ms))
         /\ \A g, calls : Sound(ms, g, calls) => Sound(sanitizeMessagesOnLoad(ms), g, calls)
  <1> DEFINE r == sanitizeMessagesOnLoad(ms)
             pending == {i \in DOMAIN ms : IsAnswer(ms[i]) /\ Pending(ms[i])}
             k == Max(pending)
  <1>0. DOMAIN ms = 1..Len(ms) /\ Len(ms) \in Nat
    OBVIOUS
  <1>1. CASE pending = {}
    <2>1. r = ms
      BY <1>1 DEF sanitizeMessagesOnLoad
    <2>2. Settled(ms)
      BY <1>0, <1>1 DEF Settled, Waits
    <2> QED
      BY <2>1, <2>2
  <1>2. CASE pending # {}
    <2>1. r = [ms EXCEPT ![k] = Sanitized(ms[k])]
      BY <1>2 DEF sanitizeMessagesOnLoad, Sanitized
    <2>2. Calm(ms) => k = Len(ms)
      <3> SUFFICES ASSUME Calm(ms) PROVE k = Len(ms)
        OBVIOUS
      <3>1. pending = {Len(ms)}
        BY <1>0, <1>2 DEF Calm, Waits
      <3>2. \A x \in {Len(ms)} : x = Len(ms) /\ x >= x
        BY <1>0
      <3>3. \E x \in {Len(ms)} : \A y \in {Len(ms)} : x >= y
        BY <1>0
      <3>4. (CHOOSE x \in {Len(ms)} : \A y \in {Len(ms)} : x >= y) \in {Len(ms)}
        BY <3>3, Zenon
      <3> QED
        BY <3>1, <3>4 DEF Max
    <2> HIDE DEF k
    <2>3. /\ DOMAIN r = 1..Len(ms) /\ r = [i \in 1..Len(ms) |-> r[i]]
          /\ \A i \in 1..Len(ms) : r[i] = IF i = k THEN Sanitized(ms[i]) ELSE ms[i]
      BY <1>0, <2>1
    <2> HIDE DEF r
    <2>4. ASSUME NEW i \in 1..Len(ms) PROVE Repairs(ms[i], r[i])
      <3>1. ms[i] \in Messages
        BY <1>0
      <3>2. Repairs(ms[i], ms[i])
        BY <3>1 DEF Repairs
      <3> QED
        BY <2>3, <3>1, <3>2, SanitizedRepairs
    <2>5. /\ r \in Seq(Messages)
          /\ Len(r) = Len(ms)
          /\ Calm(ms) => Calm(r)
          /\ \A g, calls : Sound(ms, g, calls) => Sound(r, g, calls)
      BY <2>3, <2>4, RepairedTalk
    <2>6. Calm(ms) => Settled(r)
      <3> SUFFICES ASSUME Calm(ms), NEW i \in 1..Len(ms), Waits(r[i]) PROVE FALSE
        BY <2>5 DEF Settled
      <3>1. i = Len(ms)
        BY <2>5 DEF Calm
      <3>2. ms[i] \in Messages /\ r[i] = Sanitized(ms[i])
        BY <1>0, <2>2, <2>3, <3>1
      <3> QED
        BY <3>2, SanitizedRepairs DEF Waits
    <2> QED
      BY <2>5, <2>6 DEF r
  <1> QED
    BY <1>1, <1>2

\* A load repairs what an interrupted generation left.
LEMMA LoadedTalk ==
  ASSUME NEW ms, Fits(ms), NEW r, r = sanitizeMessagesOnLoad(trimMessages(Normal(ms)))
  PROVE  /\ Fits(r) /\ Len(r) <= MaxStored
         /\ Calm(ms) => Settled(r)
         /\ \A g, calls : Sound(ms, g, calls) => Sound(r, g, calls)
  <1> DEFINE n == Normal(ms)
             t == trimMessages(n)
  <1>1. ms \in Seq(Messages) /\ Len(ms) <= MaxMessages
    BY DEF Fits
  <1>2. /\ n \in Seq(Messages) /\ Len(n) = Len(ms)
        /\ Calm(ms) => Calm(n)
        /\ \A g, calls : Sound(ms, g, calls) => Sound(n, g, calls)
    BY <1>1, NormalTalk
  <1>3. r = sanitizeMessagesOnLoad(t)
    OBVIOUS
  <1> HIDE DEF n
  <1>4. Fits(n)
    BY <1>1, <1>2 DEF Fits
  <1>5. Fits(t) /\ Len(t) <= MaxStored
    BY <1>4, TrimFits
  <1>6. \A g, calls : Sound(n, g, calls) => Sound(t, g, calls)
    BY <1>2, TrimSound
  <1> HIDE DEF t
  <1>7. t \in Seq(Messages)
    BY <1>5 DEF Fits
  <1>8. /\ r \in Seq(Messages)
        /\ Len(r) = Len(t)
        /\ Calm(t) => Settled(r)
        /\ \A g, calls : Sound(t, g, calls) => Sound(r, g, calls)
    BY <1>3, <1>7, SanitizedTalk
  <1>9. Fits(r) /\ Len(r) <= MaxStored
    BY <1>5, <1>8 DEF Fits
  <1>10. Calm(ms) => Calm(t)
    <2>1. Calm(n) => Calm(t)
      <3> SUFFICES ASSUME Calm(n) PROVE Calm(t)
        OBVIOUS
      <3> QED
        BY <1>2, TrimCalm DEF t
    <2> QED
      BY <1>2, <2>1
  <1> QED
    BY <1>2, <1>6, <1>8, <1>9, <1>10

-----------------------------------------------------------------------------
(* The conversations that the user's actions render.                       *)

LEMMA AnswerType ==
  ASSUME NEW g \in Gens
  PROVE  Answer(g) \in Messages /\ Prompt(g) \in Messages
  <1>1. g \in 0..MaxGen
    BY ConstantsAssumption DEF Gens
  <1>2. <<"assistant", g>> \in Keys /\ <<"user", g>> \in Keys
    BY <1>1 DEF Keys
  <1>3. Own \in Texts /\ <<>> \in Texts
    BY OwnType
  <1>4. Answer(g) \in Messages
    BY <1>2, <1>3 DEF Answer, Messages
  <1>5. Prompt(g) \in Messages
    BY <1>2, <1>3 DEF Prompt, Messages
  <1> QED
    BY <1>4, <1>5

\* A new answer follows a conversation in which none waits.
LEMMA AskedTalk ==
  ASSUME NEW ms \in Seq(Messages), NEW g \in Gens
  PROVE  /\ ms \o <<Answer(g)>> \in Seq(Messages)
         /\ Len(ms \o <<Answer(g)>>) = Len(ms) + 1
         /\ \A i \in 1..Len(ms) : (ms \o <<Answer(g)>>)[i] = ms[i]
         /\ (ms \o <<Answer(g)>>)[Len(ms) + 1] = Answer(g)
  <1> DEFINE a == Answer(g)
  <1>1. a \in Messages
    BY AnswerType
  <1> HIDE DEF a
  <1>2. ms \o <<a>> = Append(ms, a)
    BY <1>1
  <1>3. /\ Append(ms, a) \in Seq(Messages)
        /\ Len(Append(ms, a)) = Len(ms) + 1
        /\ \A i \in 1..Len(ms) : Append(ms, a)[i] = ms[i]
        /\ Append(ms, a)[Len(ms) + 1] = a
    BY <1>1
  <1> QED
    BY <1>2, <1>3 DEF a

\* Answer g is not in the conversation yet.
Unasked(ms, g) == \A i \in 1..Len(ms) : ms[i].key # <<"assistant", g>>

LEMMA OldUnasked ==
  ASSUME NEW ms, NEW g \in Int, NEW calls, Sound(ms, g, calls)
  PROVE  Unasked(ms, g + 1)
  <1> SUFFICES ASSUME NEW i \in 1..Len(ms), ms[i].key = <<"assistant", g + 1>> PROVE FALSE
    BY DEF Unasked
  <1>1. ms[i].key[2] = g + 1 /\ ms[i].key[2] <= g
    BY DEF Sound, MessageOK
  <1> QED
    BY <1>1

LEMMA AskedSound ==
  ASSUME NEW ms \in Seq(Messages), NEW g \in Gens, NEW calls, calls[g].sent \in Nat,
         Sound(ms, g, calls), Settled(ms), Unasked(ms, g), NEW r, r = ms \o <<Answer(g)>>
  PROVE  /\ Calm(r)
         /\ Sound(r, g, calls)
         /\ Growing(r, <<>>, g, 0)
  <1> DEFINE l == Len(ms) + 1
  <1>0. l \in Nat /\ l > 0 /\ Len(ms) \in Nat /\ g \in Nat
    BY ConstantsAssumption DEF Gens
  <1>1. /\ r \in Seq(Messages)
        /\ Len(r) = l
        /\ \A i \in 1..Len(ms) : r[i] = ms[i]
        /\ r[l] = Answer(g)
    BY AskedTalk
  <1>2. \A i \in 1..l : i # l => i \in 1..Len(ms)
    BY <1>0
  <1>3. \A i \in 1..l : i # l => ~Waits(r[i])
    BY <1>1, <1>2 DEF Settled
  <1>4. Joined(<<>>, <<>>, g, 0) /\ Begun(<<>>, g, calls[g].sent)
    <2>1. Word(g, 0) = <<>> /\ Full(Word(g, 0), g, 0)
      BY WordFacts, FullWord
    <2>2. Joined(<<>>, <<>>, g, 0) /\ Begun(<<>>, g, 0)
      BY <2>1, JoinedNow, FullBegun
    <2> QED
      BY <2>2, BegunLater
  <1>5. MessageOK(Answer(g), g, calls)
    BY <1>0, <1>4 DEF MessageOK, Answer
  <1>6. \A i \in 1..l : i # l => r[i].key # <<"assistant", g>>
    BY <1>1, <1>2 DEF Unasked
  <1> HIDE DEF l
  <1>7. Calm(r)
    BY <1>1, <1>3 DEF Calm
  <1>8. Sound(r, g, calls)
    BY <1>1, <1>2, <1>5 DEF Sound
  <1>9. r[l].key = <<"assistant", g>> /\ Pending(r[l]) /\ r[l].text = <<>>
    BY <1>1 DEF Answer, Pending
  <1>10. Growing(r, <<>>, g, 0)
    BY <1>0, <1>1, <1>4, <1>6, <1>9 DEF Growing
  <1> QED
    BY <1>7, <1>8, <1>10

\* The beginning of a conversation.
LEMMA UptoTalk ==
  ASSUME NEW ms \in Seq(Messages), NEW k \in 0..Len(ms), NEW r, r = SubSeq(ms, 1, k)
  PROVE  r \in Seq(Messages) /\ Len(r) = k /\ \A i \in 1..k : r[i] = ms[i]
  <1>1. k \in Nat /\ k <= Len(ms)
    OBVIOUS
  <1>2. \A i \in 1..k : ms[i] \in Messages
    OBVIOUS
  <1>3. /\ SubSeq(ms, 1, k) \in Seq(Messages)
        /\ Len(SubSeq(ms, 1, k)) = IF 1 <= k THEN k - 1 + 1 ELSE 0
        /\ \A i \in 1..(k - 1 + 1) : SubSeq(ms, 1, k)[i] = ms[1 + i - 1]
    BY <1>1, <1>2, SubSeqProperties
  <1>4. k - 1 + 1 = k /\ \A i \in 1..k : 1 + i - 1 = i
    BY <1>1
  <1> QED
    BY <1>1, <1>3, <1>4

\* Some messages of a conversation, and none but these.
Selects(ms, r) == \A i \in 1..Len(r) : \E j \in 1..Len(ms) : r[i] = ms[j]

LEMMA SelectedTalk ==
  ASSUME NEW ms, NEW r, Selects(ms, r)
  PROVE  /\ Settled(ms) => Settled(r) /\ Calm(r)
         /\ \A g, calls : Sound(ms, g, calls) => Sound(r, g, calls)
         /\ \A g, n : Whole(ms, g, n) => Whole(r, g, n)
  <1>1. Settled(ms) => Settled(r) /\ Calm(r)
    BY DEF Selects, Settled, Calm
  <1>2. \A g, calls : Sound(ms, g, calls) => Sound(r, g, calls)
    BY DEF Selects, Sound
  <1>3. \A g, n : Whole(ms, g, n) => Whole(r, g, n)
    BY DEF Selects, Whole
  <1> QED
    BY <1>1, <1>2, <1>3

\* One message is rewritten by the user.
Rewritten(ms, k) == [ms EXCEPT ![k].text = Own]

LEMMA RewrittenTalk ==
  ASSUME NEW ms \in Seq(Messages), NEW k \in 1..Len(ms), NEW r, r = Rewritten(ms, k)
  PROVE  /\ r \in Seq(Messages)
         /\ Len(r) = Len(ms)
         /\ \A i \in 1..Len(ms) : /\ r[i].key = ms[i].key
                                  /\ r[i].status = ms[i].status
                                  /\ r[i].text \in {Own, ms[i].text}
                                  /\ i # k => r[i] = ms[i]
  <1> DEFINE e == [ms[k] EXCEPT !.text = Own]
  <1>1. ms[k] \in Messages
    OBVIOUS
  <1>2. e \in Messages /\ e.key = ms[k].key /\ e.status = ms[k].status /\ e.text = Own
    BY <1>1, OwnType DEF Messages
  <1>3. r = [ms EXCEPT ![k] = e]
    BY DEF Rewritten
  <1> HIDE DEF e
  <1>4. /\ r \in Seq(Messages)
        /\ Len(r) = Len(ms)
        /\ \A j \in 1..Len(ms) : r[j] = IF j = k THEN e ELSE ms[j]
    BY <1>2, <1>3, ExceptSeq
  <1> QED
    BY <1>2, <1>4

LEMMA RewrittenKeeps ==
  ASSUME NEW ms \in Seq(Messages), NEW k \in 1..Len(ms), NEW r, r = Rewritten(ms, k)
  PROVE  /\ Settled(ms) => Settled(r)
         /\ Calm(ms) => Calm(r)
         /\ \A g, calls : Sound(ms, g, calls) => Sound(r, g, calls)
         /\ \A g, n : Whole(ms, g, n) => Whole(r, g, n)
         /\ \A p, g, n : Growing(ms, p, g, n) /\ ms[k].key # <<"assistant", g>> => Growing(r, p, g, n)
  <1> DEFINE l == Len(ms)
  <1>1. /\ r \in Seq(Messages)
        /\ Len(r) = l
        /\ \A i \in 1..l : /\ r[i].key = ms[i].key
                           /\ r[i].status = ms[i].status
                           /\ r[i].text \in {Own, ms[i].text}
                           /\ i # k => r[i] = ms[i]
    BY RewrittenTalk
  <1>2. \A i \in 1..l : Waits(r[i]) <=> Waits(ms[i])
    BY <1>1 DEF Waits, IsAnswer, Pending
  <1>3. Settled(ms) => Settled(r)
    BY <1>1, <1>2 DEF Settled
  <1>4. Calm(ms) => Calm(r)
    BY <1>1, <1>2 DEF Calm
  <1>5. \A g, calls : Sound(ms, g, calls) => Sound(r, g, calls)
    <2> SUFFICES ASSUME NEW g, NEW calls, Sound(ms, g, calls), NEW i \in 1..l
                 PROVE  MessageOK(r[i], g, calls)
      BY <1>1 DEF Sound
    <2>1. MessageOK(ms[i], g, calls)
      BY DEF Sound
    <2>2. r[i].key = ms[i].key /\ r[i].text \in {Own, ms[i].text}
      BY <1>1
    <2> QED
      BY <2>1, <2>2 DEF MessageOK, IsAnswer
  <1>6. \A g, n : Whole(ms, g, n) => Whole(r, g, n)
    BY <1>1 DEF Whole
  <1>7. ASSUME NEW p, NEW g, NEW n, Growing(ms, p, g, n), ms[k].key # <<"assistant", g>>
        PROVE  Growing(r, p, g, n)
    <2>1. l \in 1..l /\ ms[l].key = <<"assistant", g>> /\ l > 0
      BY <1>7 DEF Growing
    <2>2. r[l] = ms[l]
      BY <1>1, <1>7, <2>1
    <2>3. \A i \in 1..l : r[i].key = <<"assistant", g>> <=> i = l
      BY <1>1, <1>7 DEF Growing
    <2> QED
      BY <1>1, <1>7, <2>1, <2>2, <2>3 DEF Growing
  <1> QED
    BY <1>3, <1>4, <1>5, <1>6, <1>7

-----------------------------------------------------------------------------
(* What waits for a render, and what a step does to it.                    *)

\* Nothing waits.
LEMMA NothingWaits ==
  ASSUME queue = <<>>
  PROVE  Coming = base /\ Halted = base
  BY ApplyNone DEF Coming, Halted

LEMMA RenderedTalks ==
  ASSUME NEW ms, Rendered(ms)
  PROVE  /\ Coming' = ms
         /\ Talks' = {ms, store'}
         /\ queue' = <<>> /\ saving' = TRUE
  <1>1. base' = ms /\ latest' = ms /\ queue' = <<>> /\ saving' = TRUE
    BY DEF Rendered
  <1>2. Coming' = ms /\ Halted' = ms
    BY <1>1, ApplyNone DEF Coming, Halted
  <1> QED
    BY <1>1, <1>2 DEF Talks

LEMMA UnchangedTalks ==
  ASSUME UNCHANGED <<gen, base, queue, latest, store>>
  PROVE  Coming' = Coming /\ Talks' = Talks
  BY DEF Coming, Halted, Talks

LEMMA RenderTalks ==
  ASSUME Render
  PROVE  /\ Coming' = Coming
         /\ Talks' \subseteq Talks
         /\ queue' = <<>>
         /\ saving' \in {saving, TRUE}
  <1>1. base' = Coming /\ queue' = <<>> /\ latest' \in {latest, Coming} /\ store' = store
        /\ saving' \in {saving, TRUE}
    BY DEF Render, Coming
  <1>2. Coming' = base' /\ Halted' = base'
    BY <1>1, ApplyNone DEF Coming, Halted
  <1> QED
    BY <1>1, <1>2 DEF Talks

LEMMA PairIs ==
  ASSUME NEW A, NEW c \in A, NEW u \in A
  PROVE  <<c>> \o <<u>> = <<c, u>>
  <1> DEFINE s == <<c>>
             t == <<u>>
             w == <<c, u>>
  <1>1. s \in Seq(A) /\ Len(s) = 1 /\ s[1] = c
    OBVIOUS
  <1>2. t \in Seq(A) /\ Len(t) = 1 /\ t[1] = u
    OBVIOUS
  <1>3. w \in Seq(A) /\ Len(w) = 2 /\ w[1] = c /\ w[2] = u
    OBVIOUS
  <1> HIDE DEF s, t, w
  <1> DEFINE n == 1
  <1>4. /\ n \in Nat /\ Len(s) = n /\ Len(t) = n /\ Len(w) = n + n
        /\ s \in Seq(A) /\ t \in Seq(A) /\ w \in Seq(A)
    BY <1>1, <1>2, <1>3
  <1>5. (\A i \in 1..n : w[i] = s[i]) /\ (\A i \in 1..n : w[n + i] = t[i])
    BY <1>1, <1>2, <1>3
  <1> HIDE DEF n
  <1>6. s \o t = w
    BY <1>4, <1>5, ConcatIs
  <1> QED
    BY <1>6 DEF s, t, w

\* One update, and then another, are queued or applied at once.
LEMMA QueueOne ==
  ASSUME queue \in Seq(Updates), NEW u \in Updates, NEW g
  PROVE  /\ queue \o <<u>> \in Seq(Updates)
         /\ ApplyAll(queue \o <<u>>, base, g) = Apply(u, ApplyAll(queue, base, g), g)
  <1>1. queue \o <<u>> = Append(queue, u) /\ Append(queue, u) \in Seq(Updates)
    OBVIOUS
  <1>2. ApplyAll(Append(queue, u), base, g) = Apply(u, ApplyAll(queue, base, g), g)
    BY ApplyOneMore
  <1> QED
    BY <1>1, <1>2

LEMMA QueueTwo ==
  ASSUME queue \in Seq(Updates), NEW c \in Updates, NEW u \in Updates, NEW g
  PROVE  /\ queue \o <<c, u>> \in Seq(Updates)
         /\ ApplyAll(queue \o <<c, u>>, base, g) = Apply(u, Apply(c, ApplyAll(queue, base, g), g), g)
  <1> DEFINE q == Append(queue, c)
  <1>1. q \in Seq(Updates)
    OBVIOUS
  <1>2. ApplyAll(q, base, g) = Apply(c, ApplyAll(queue, base, g), g)
    BY ApplyOneMore
  <1>3. queue \o <<c, u>> = Append(q, u)
    OBVIOUS
  <1> HIDE DEF q
  <1>4. Append(q, u) \in Seq(Updates)
    BY <1>1
  <1>5. ApplyAll(Append(q, u), base, g) = Apply(u, ApplyAll(q, base, g), g)
    BY <1>1, ApplyOneMore
  <1> QED
    BY <1>2, <1>3, <1>4, <1>5

\* The same for a queue that starts with a given conversation.
LEMMA QueueSet ==
  ASSUME NEW ms \in Seq(Messages), NEW old, NEW g
  PROVE  /\ <<Set(ms)>> \in Seq(Updates)
         /\ ApplyAll(<<Set(ms)>>, old, g) = ms
  <1> DEFINE s == Set(ms)
  <1>1. s \in Updates
    BY DEF Set, Updates
  <1>2. Apply(s, old, g) = ms
    BY ApplySet
  <1> HIDE DEF s
  <1> DEFINE e == <<>>
  <1>3. <<s>> = Append(e, s) /\ e \in Seq(Updates) /\ <<s>> \in Seq(Updates)
    BY <1>1
  <1>5. ApplyAll(e, old, g) = old
    BY ApplyNone
  <1> HIDE DEF e
  <1>4. ApplyAll(Append(e, s), old, g) = Apply(s, ApplyAll(e, old, g), g)
    BY <1>1, <1>3, ApplyOneMore
  <1> QED
    BY <1>2, <1>3, <1>4, <1>5 DEF s

LEMMA QueueSetOne ==
  ASSUME NEW ms \in Seq(Messages), NEW u \in Updates, NEW old, NEW g
  PROVE  /\ <<Set(ms)>> \o <<u>> \in Seq(Updates)
         /\ ApplyAll(<<Set(ms)>> \o <<u>>, old, g) = Apply(u, ms, g)
  <1> DEFINE q == <<Set(ms)>>
  <1>1. q \in Seq(Updates) /\ ApplyAll(q, old, g) = ms
    BY QueueSet
  <1> HIDE DEF q
  <1>2. q \o <<u>> = Append(q, u) /\ Append(q, u) \in Seq(Updates)
    BY <1>1
  <1>3. ApplyAll(Append(q, u), old, g) = Apply(u, ApplyAll(q, old, g), g)
    BY <1>1, ApplyOneMore
  <1> QED
    BY <1>1, <1>2, <1>3 DEF q

\* The updates us are queued; first is what the first of them makes of the conversation.
EnqueuedTalks(first, last) ==
    /\ queue' \in Seq(Updates)
    /\ Coming' = last
    /\ Talks' \subseteq Talks \cup {first, last}
    /\ saving' \in {saving, TRUE}

LEMMA EnqueueNone ==
  ASSUME NEW early, Enqueue(<<>>, early), UNCHANGED <<gen, base, store>>, queue \in Seq(Updates)
  PROVE  EnqueuedTalks(Coming, Coming)
  <1>1. UNCHANGED <<queue, latest, saving>>
    BY DEF Enqueue
  <1>2. Coming' = Coming /\ Talks' = Talks
    BY <1>1, UnchangedTalks
  <1> QED
    BY <1>1, <1>2 DEF EnqueuedTalks

LEMMA EnqueueOne ==
  ASSUME NEW u \in Steps, u.gen = gen, NEW early, Enqueue(<<u>>, early),
         UNCHANGED <<gen, base, store>>, queue \in Seq(Updates), base \in Seq(Messages), gen \in Nat
  PROVE  EnqueuedTalks(Apply(u, Coming, gen), Apply(u, Coming, gen))
  <1> DEFINE first == Apply(u, base, gen)
  <1>0. u \in Updates /\ gen # gen + 1 /\ <<u>> # <<>> /\ Head(<<u>>) = u /\ Tail(<<u>>) = <<>>
    BY DEF Updates
  <1>1. CASE queue' = queue \o <<u>> /\ UNCHANGED <<latest, saving>>
    <2>1. Coming' = Apply(u, Coming, gen) /\ queue' \in Seq(Updates)
      BY <1>0, <1>1, QueueOne DEF Coming
    <2>2. Halted' = Apply(u, Halted, gen + 1)
      BY <1>0, <1>1, QueueOne DEF Halted
    <2>3. Halted' = Halted
      BY <1>0, <2>2, ApplyStale
    <2> QED
      BY <1>1, <2>1, <2>3 DEF EnqueuedTalks, Talks
  <1>2. CASE /\ queue = <<>>
             /\ queue' = <<Set(first)>> \o <<>>
             /\ latest' = first
             /\ saving' = TRUE
    <2>1. Coming = base
      BY <1>2, NothingWaits
    <2>2. first \in Seq(Messages)
      BY ApplyType
    <2> HIDE DEF first
    <2>3. queue' = <<Set(first)>>
      BY <1>2
    <2>4. Coming' = first /\ Halted' = first /\ queue' \in Seq(Updates)
      BY <2>2, <2>3, QueueSet DEF Coming, Halted
    <2> QED
      BY <1>2, <2>1, <2>4 DEF EnqueuedTalks, Talks, first
  <1>3. \/ queue' = queue \o <<u>> /\ UNCHANGED <<latest, saving>>
        \/ /\ queue = <<>>
           /\ queue' = <<Set(first)>> \o <<>>
           /\ latest' = first
           /\ saving' = TRUE
    BY <1>0 DEF Enqueue
  <1> QED
    BY <1>1, <1>2, <1>3

LEMMA EnqueueTwo ==
  ASSUME NEW c \in Steps, NEW u \in Steps, c.gen = gen, u.gen = gen, NEW early,
         Enqueue(<<c, u>>, early),
         UNCHANGED <<gen, base, store>>, queue \in Seq(Updates), base \in Seq(Messages), gen \in Nat
  PROVE  EnqueuedTalks(Apply(c, Coming, gen), Apply(u, Apply(c, Coming, gen), gen))
  <1> DEFINE first == Apply(c, base, gen)
  <1>0. /\ u \in Updates /\ c \in Updates /\ gen # gen + 1 /\ <<c, u>> # <<>>
        /\ Head(<<c, u>>) = c /\ Tail(<<c, u>>) = <<u>>
    BY DEF Updates
  <1>1. CASE queue' = queue \o <<c, u>> /\ UNCHANGED <<latest, saving>>
    <2>1. Coming' = Apply(u, Apply(c, Coming, gen), gen) /\ queue' \in Seq(Updates)
      BY <1>0, <1>1, QueueTwo DEF Coming
    <2>2. Halted' = Apply(u, Apply(c, Halted, gen + 1), gen + 1)
      BY <1>0, <1>1, QueueTwo DEF Halted
    <2>3. Halted' = Halted
      BY <1>0, <2>2, ApplyStale
    <2> QED
      BY <1>1, <2>1, <2>3 DEF EnqueuedTalks, Talks
  <1>2. CASE /\ queue = <<>>
             /\ queue' = <<Set(first)>> \o <<u>>
             /\ latest' = first
             /\ saving' = TRUE
    <2>1. Coming = base
      BY <1>2, NothingWaits
    <2>2. first \in Seq(Messages)
      BY ApplyType
    <2> HIDE DEF first
    <2>3. Coming' = Apply(u, first, gen) /\ queue' \in Seq(Updates)
      BY <1>0, <1>2, <2>2, QueueSetOne DEF Coming
    <2>4. Halted' = Apply(u, first, gen + 1)
      BY <1>0, <1>2, <2>2, QueueSetOne DEF Halted
    <2>5. Halted' = first
      BY <1>0, <2>4, ApplyStale
    <2> QED
      BY <1>2, <2>1, <2>3, <2>5 DEF EnqueuedTalks, Talks, first
  <1>3. \/ queue' = queue \o <<c, u>> /\ UNCHANGED <<latest, saving>>
        \/ /\ queue = <<>>
           /\ queue' = <<Set(first)>> \o <<u>>
           /\ latest' = first
           /\ saving' = TRUE
    BY <1>0 DEF Enqueue
  <1> QED
    BY <1>1, <1>2, <1>3

\* The conversation when the buffer has been flushed.
FlushedTalk == IF pend.text = <<>> THEN Coming ELSE Apply(Update("chunk", pend.text), Coming, gen)

LEMMA EndAnswerTalks ==
  ASSUME IInv, TalkType, NEW kind \in {"complete", "error"}, NEW early, EndAnswer(kind, early),
         UNCHANGED <<gen, base, store>>
  PROVE  /\ Update(kind, <<>>) \in Steps
         /\ EnqueuedTalks(FlushedTalk, Apply(Update(kind, <<>>), FlushedTalk, gen))
  <1> DEFINE u == Update(kind, <<>>)
             c == Update("chunk", pend.text)
  <1>0. /\ queue \in Seq(Updates) /\ base \in Seq(Messages) /\ gen \in Nat /\ gen \in 0..MaxGen
        /\ pend.gen = gen /\ pend.text \in Texts /\ <<>> \in Texts
    BY ConstantsAssumption, OwnType DEF IInv, ControlType, CountersAgree, TalkType, Talks, Fits
  <1>1. u \in Steps /\ c \in Steps /\ u.gen = gen /\ c.gen = gen
    BY <1>0 DEF Update, Steps
  <1>2. Enqueue(Flushed \o <<u>>, early /\ Flushed # <<>>)
    BY DEF EndAnswer
  <1>3. Flushed = IF pend.text = <<>> THEN <<>> ELSE <<c>>
    BY <1>0 DEF Flushed
  <1>4. FlushedTalk = IF pend.text = <<>> THEN Coming ELSE Apply(c, Coming, gen)
    BY DEF FlushedTalk
  <1> HIDE DEF u, c
  <1>5. CASE pend.text = <<>>
    <2>1. Flushed \o <<u>> = <<u>>
      BY <1>3, <1>5
    <2>2. Enqueue(<<u>>, early /\ Flushed # <<>>)
      BY <1>2, <2>1
    <2>3. EnqueuedTalks(Apply(u, Coming, gen), Apply(u, Coming, gen))
      BY <1>0, <1>1, <2>2, EnqueueOne
    <2> QED
      BY <1>1, <1>4, <1>5, <2>3 DEF EnqueuedTalks, u
  <1>6. CASE pend.text # <<>>
    <2>0. <<c>> \o <<u>> = <<c, u>>
      BY <1>1, PairIs
    <2>1. Flushed \o <<u>> = <<c, u>>
      BY <1>3, <1>6, <2>0
    <2>2. Enqueue(<<c, u>>, early /\ Flushed # <<>>)
      BY <1>2, <2>1
    <2>3. EnqueuedTalks(Apply(c, Coming, gen), Apply(u, Apply(c, Coming, gen), gen))
      BY <1>0, <1>1, <2>2, EnqueueTwo
    <2> QED
      BY <1>1, <1>4, <1>6, <2>3 DEF u
  <1> QED
    BY <1>5, <1>6

-----------------------------------------------------------------------------
(* The flags.                                                              *)

LEMMA InitFlagInv == Init => FlagInv
  BY ConstantsAssumption DEF Init, FlagInv, Flags, Gens, Busy, IsCurrent

LEMMA FlagUntouched ==
  ASSUME IInv, FlagInv, UNCHANGED <<chat, net, flags>>,
         UNCHANGED <<seen, queue>> \/ (seen' = flags /\ queue' = <<>>)
  PROVE  FlagInv'
  <1>1. UNCHANGED <<gen, timer, ctl, call, flags>> /\ flags \in Flags
    BY DEF chat, net, IInv, ControlType
  <1>2. /\ seen' \in Flags
        /\ ~Busy(seen') => ~Busy(flags') /\ queue' = <<>>
    BY <1>1 DEF FlagInv, Busy
  <1> QED
    BY <1>1, <1>2 DEF FlagInv, IsCurrent

LEMMA SendChatFlag ==
  ASSUME IInv, FlagInv, NEW messages, sendChat(messages)
  PROVE  FlagInv'
  <1>1. gen + 1 \in Gens /\ gen \in Nat /\ MaxGen \in Nat /\ Gens = 1..MaxGen /\ call \in [Gens -> Calls]
    BY ConstantsAssumption DEF IInv, ControlType, sendChat, Gens
  <1>2. PICK stream \in BOOLEAN :
         /\ ctl' = [gen |-> ctl.gen + 1, source |-> 0]
         /\ call' = [call EXCEPT ![gen + 1].state = IF stream THEN "headers" ELSE "http",
                                 ![gen + 1].ctl = ctl.gen + 1]
    BY DEF sendChat
  <1>3. /\ gen' = gen + 1
        /\ timer' = 0
        /\ flags' = [requesting |-> TRUE, streaming |-> FALSE]
        /\ seen' = flags'
    BY DEF sendChat, Discard
  <1>4. /\ \A g \in Gens : g # gen + 1 => call'[g] = call[g]
        /\ call'[gen + 1].state \in {"headers", "http"}
        /\ call'[gen + 1].sent = call[gen + 1].sent
    BY <1>1, <1>2 DEF Calls
  <1>5. call[gen + 1].sent = 0
    BY <1>1 DEF FlagInv
  <1>6. \A g \in Gens : /\ call'[g].state \in {"none", "headers", "http"} => call'[g].sent = 0
                        /\ g > gen' => call'[g].state = "none"
                        /\ call'[g].sent <= MaxLetters
    <2> SUFFICES ASSUME NEW g \in Gens
                 PROVE  /\ call'[g].state \in {"none", "headers", "http"} => call'[g].sent = 0
                        /\ g > gen' => call'[g].state = "none"
                        /\ call'[g].sent <= MaxLetters
      OBVIOUS
    <2>1. CASE g = gen + 1
      BY <1>1, <1>3, <1>4, <1>5, <2>1, ConstantsAssumption
    <2>2. CASE g # gen + 1
      BY <1>1, <1>3, <1>4, <2>2 DEF FlagInv
    <2> QED
      BY <2>1, <2>2
  <1>7. \A g \in Gens : ~IsCurrent(g)'
    BY <1>1, <1>2 DEF IsCurrent
  <1>8. seen' \in Flags /\ Busy(seen') /\ flags'.requesting = TRUE /\ flags'.streaming = FALSE
    BY <1>3 DEF Flags, Busy
  <1>9. ctl'.source \in 0..MaxGen
    BY <1>1, <1>2
  <1> QED
    BY <1>3, <1>6, <1>7, <1>8, <1>9 DEF FlagInv

LEMMA NewGenerationFlag ==
  ASSUME IInv, FlagInv, gen < MaxGen, gen' = gen + 1, Discard(gen + 1),
         ctl' = [gen |-> ctl.gen + 1, source |-> 0], call' = call,
         flags' = [requesting |-> FALSE, streaming |-> FALSE], seen' = flags', queue' = <<>>
  PROVE  FlagInv'
  <1>1. gen + 1 \in Gens /\ gen \in Nat /\ MaxGen \in Nat /\ Gens = 1..MaxGen
    BY ConstantsAssumption DEF IInv, ControlType, Gens
  <1>2. timer' = 0
    BY DEF Discard
  <1>3. \A g \in Gens : ~IsCurrent(g)'
    BY <1>1 DEF IsCurrent
  <1>4. call'[gen + 1].state = "none"
    BY <1>1 DEF FlagInv
  <1>5. \A g \in Gens : /\ call'[g].state \in {"none", "headers", "http"} => call'[g].sent = 0
                        /\ g > gen' => call'[g].state = "none"
                        /\ call'[g].sent <= MaxLetters
    BY <1>1 DEF FlagInv
  <1>6. seen' \in Flags /\ ~Busy(seen') /\ ~Busy(flags') /\ flags'.streaming = FALSE
    BY DEF Flags, Busy
  <1>7. ctl'.source \in 0..MaxGen
    BY <1>1
  <1> QED
    BY <1>2, <1>3, <1>4, <1>5, <1>6, <1>7 DEF FlagInv

LEMMA FlushTimerFlag ==
  ASSUME IInv, FlagInv, FlushTimer
  PROVE  FlagInv'
  <1>1. UNCHANGED <<gen, ctl, call, flags, seen>> /\ timer' = 0
    BY DEF FlushTimer, net
  <1>2. Busy(seen)
    BY DEF FlushTimer, FlagInv, Busy
  <1> QED
    BY <1>1, <1>2 DEF FlagInv, IsCurrent, Busy

LEMMA HeadersArriveFlag ==
  ASSUME IInv, FlagInv, NEW g \in Gens, HeadersArrive(g)
  PROVE  FlagInv'
  <1>0. /\ call \in [Gens -> Calls] /\ flags \in Flags
        /\ UNCHANGED <<gen, timer, seen, queue>> /\ call[g].state = "headers"
    BY DEF IInv, ControlType, HeadersArrive, chat
  <1>1. CASE ctl.gen # call[g].ctl
    <2>1. /\ call' = [call EXCEPT ![g].state = "over"]
          /\ UNCHANGED <<ctl, open, flags>>
      BY <1>1 DEF HeadersArrive
    <2>2. g # gen
      BY <1>0, <1>1 DEF IInv, CountersAgree
    <2>3. /\ \A h \in Gens : h # g => call'[h] = call[h]
          /\ call'[g].state = "over" /\ call'[g].sent = call[g].sent
      BY <1>0, <2>1 DEF Calls
    <2>4. \A h \in Gens : IsCurrent(h)' => IsCurrent(h)
      BY <2>1, <2>3 DEF IsCurrent
    <2>5. \A h \in Gens : /\ call'[h].state \in {"none", "headers", "http"} => call'[h].sent = 0
                          /\ h > gen => call'[h].state = "none"
                          /\ call'[h].sent <= MaxLetters
      BY <1>0, <2>3 DEF FlagInv
    <2>6. gen \in Gens => call'[gen] = call[gen]
      BY <2>2, <2>3
    <2> QED
      BY <1>0, <2>1, <2>4, <2>5, <2>6 DEF FlagInv, Busy
  <1>2. CASE ctl.gen = call[g].ctl
    <2>1. /\ call' = [call EXCEPT ![g].state = "stream"]
          /\ ctl' = [ctl EXCEPT !.source = g]
          /\ flags' = [flags EXCEPT !.streaming = TRUE]
      BY <1>2 DEF HeadersArrive
    <2>2. g = gen
      BY <1>0, <1>2 DEF IInv, CountersAgree
    <2>3. /\ \A h \in Gens : h # g => call'[h] = call[h]
          /\ call'[g].state = "stream" /\ call'[g].sent = call[g].sent
          /\ flags'.streaming = TRUE /\ flags'.requesting = flags.requesting
      BY <1>0, <2>1 DEF Calls, Flags
    <2>4. Busy(seen)
      BY <1>0, <2>2 DEF FlagInv, Busy
    <2>5. \A h \in Gens : /\ call'[h].state \in {"none", "headers", "http"} => call'[h].sent = 0
                          /\ h > gen => call'[h].state = "none"
                          /\ call'[h].sent <= MaxLetters
      BY <1>0, <2>3 DEF FlagInv
    <2>6. ctl'.source \in 0..MaxGen
      BY <2>1, ConstantsAssumption DEF IInv, ControlType, Gens
    <2> QED
      BY <1>0, <2>2, <2>3, <2>4, <2>5, <2>6 DEF FlagInv, Busy
  <1> QED
    BY <1>1, <1>2

LEMMA HeadersFailFlag ==
  ASSUME IInv, FlagInv, NEW g \in Gens, HeadersFail(g)
  PROVE  FlagInv' /\ Busy(flags) /\ ~Busy(flags')
  <1>0. /\ call \in [Gens -> Calls] /\ flags \in Flags
        /\ UNCHANGED <<gen, seen, ctl>> /\ call[g].state = "headers"
        /\ call' = [call EXCEPT ![g].state = "over"]
    BY DEF IInv, ControlType, HeadersFail
  <1>1. g = gen
    BY DEF HeadersFail, IInv, CountersAgree
  <1>2. timer' = 0
    BY <1>1, EndAnswerBuffer DEF HeadersFail
  <1>3. flags' = [flags EXCEPT !.requesting = FALSE]
    BY <1>1 DEF HeadersFail
  <1>4. /\ \A h \in Gens : h # g => call'[h] = call[h]
        /\ call'[g].state = "over" /\ call'[g].sent = call[g].sent
    BY <1>0 DEF Calls
  <1>5. flags.requesting /\ ~flags.streaming
    BY <1>0, <1>1 DEF FlagInv
  <1>6. ~flags'.requesting /\ ~flags'.streaming
    BY <1>0, <1>3, <1>5 DEF Flags
  <1>7. Busy(seen)
    BY <1>5 DEF FlagInv, Busy
  <1>8. \A h \in Gens : ~IsCurrent(h)'
    BY <1>0, <1>4, <1>5 DEF FlagInv, IsCurrent
  <1>9. \A h \in Gens : /\ call'[h].state \in {"none", "headers", "http"} => call'[h].sent = 0
                        /\ h > gen => call'[h].state = "none"
                        /\ call'[h].sent <= MaxLetters
    BY <1>0, <1>4 DEF FlagInv
  <1>10. FlagInv'
    BY <1>0, <1>1, <1>2, <1>4, <1>6, <1>7, <1>8, <1>9 DEF FlagInv
  <1> QED
    BY <1>5, <1>6, <1>10 DEF Busy

LEMMA ChunkFlag ==
  ASSUME IInv, FlagInv, NEW g \in Gens, Chunk(g)
  PROVE  FlagInv' /\ Busy(flags)
  <1>0. /\ call \in [Gens -> Calls]
        /\ UNCHANGED <<gen, seen, ctl, flags, queue>> /\ call[g].state = "stream"
        /\ \E n \in (call[g].sent + 1)..MaxLetters : call' = [call EXCEPT ![g].sent = n]
    BY DEF IInv, ControlType, Chunk, page, IsCurrent, Calls
  <1>1. flags.streaming
    BY DEF FlagInv, Chunk
  <1>2. /\ \A h \in Gens : h # g => call'[h] = call[h]
        /\ call'[g].state = call[g].state /\ call'[g].sent <= MaxLetters
    BY <1>0, ConstantsAssumption DEF Calls
  <1>3. \A h \in Gens : /\ call'[h].state \in {"none", "headers", "http"} => call'[h].sent = 0
                        /\ h > gen => call'[h].state = "none"
                        /\ call'[h].sent <= MaxLetters
    <2> SUFFICES ASSUME NEW h \in Gens
                 PROVE  /\ call'[h].state \in {"none", "headers", "http"} => call'[h].sent = 0
                        /\ h > gen => call'[h].state = "none"
                        /\ call'[h].sent <= MaxLetters
      OBVIOUS
    <2>1. CASE h = g
      BY <1>0, <1>2, <2>1 DEF FlagInv
    <2>2. CASE h # g
      BY <1>2, <2>2 DEF FlagInv
    <2> QED
      BY <2>1, <2>2
  <1>4. \A h \in Gens : call'[h].state = call[h].state
    BY <1>2
  <1>5. FlagInv'
    BY <1>0, <1>1, <1>3, <1>4 DEF FlagInv
  <1> QED
    BY <1>1, <1>5 DEF Busy

LEMMA CloseSourceFlag ==
  ASSUME IInv, FlagInv, NEW g \in Gens, NEW kind, NEW early, IsCurrent(g), CloseSource(g, kind, early)
  PROVE  FlagInv' /\ Busy(flags) /\ ~Busy(flags')
  <1>1. g = gen
    BY DEF IsCurrent, IInv, CountersAgree
  <1>2. timer' = 0
    BY <1>1, EndAnswerBuffer DEF CloseSource
  <1>3. PICK state \in {"done", "over"} : call' = [call EXCEPT ![g].state = state]
    BY DEF CloseSource
  <1>4. /\ ctl' = [ctl EXCEPT !.source = 0]
        /\ flags' = [requesting |-> FALSE, streaming |-> FALSE]
        /\ UNCHANGED <<gen, seen>>
    BY <1>1 DEF CloseSource
  <1>5. flags.streaming /\ Busy(seen)
    BY DEF FlagInv, Busy
  <1>6. ctl'.source = 0 /\ MaxGen \in Nat /\ Gens = 1..MaxGen
    BY <1>4, ConstantsAssumption DEF IInv, ControlType, Gens
  <1>7. call \in [Gens -> Calls]
    BY DEF IInv, ControlType
  <1>8. /\ \A h \in Gens : h # g => call'[h] = call[h]
        /\ call'[g].state \in {"done", "over"} /\ call'[g].sent = call[g].sent
    BY <1>3, <1>7 DEF Calls
  <1>9. \A h \in Gens : /\ call'[h].state \in {"none", "headers", "http"} => call'[h].sent = 0
                        /\ h > gen => call'[h].state = "none"
                        /\ call'[h].sent <= MaxLetters
    <2>1. g \in Nat /\ gen \in Nat
      BY <1>1, <1>6
    <2> QED
      BY <1>1, <1>8, <2>1 DEF FlagInv
  <1>10. \A h \in Gens : ~IsCurrent(h)'
    BY <1>6 DEF IsCurrent
  <1>11. ~flags'.requesting /\ ~flags'.streaming
    BY <1>4
  <1>12. FlagInv'
    BY <1>1, <1>2, <1>4, <1>5, <1>6, <1>8, <1>9, <1>10, <1>11 DEF FlagInv
  <1> QED
    BY <1>5, <1>11, <1>12 DEF Busy

LEMMA CloseEarlyFlag ==
  ASSUME IInv, FlagInv, NEW g \in Gens, CloseEarly(g)
  PROVE  FlagInv'
  <1>0. /\ call \in [Gens -> Calls] /\ g = gen
        /\ UNCHANGED <<gen, timer, seen, ctl, flags, queue>> /\ call[g].state = "stream"
        /\ call' = [call EXCEPT ![g].state = "cut"]
    BY DEF IInv, ControlType, CountersAgree, CloseEarly, page, chat, IsCurrent
  <1>1. flags.streaming
    BY DEF FlagInv, CloseEarly
  <1>2. /\ \A h \in Gens : h # g => call'[h] = call[h]
        /\ call'[g].state = "cut" /\ call'[g].sent = call[g].sent
    BY <1>0 DEF Calls
  <1>3. \A h \in Gens : /\ call'[h].state \in {"none", "headers", "http"} => call'[h].sent = 0
                        /\ h > gen => call'[h].state = "none"
                        /\ call'[h].sent <= MaxLetters
    <2>1. g \in Int
      BY ConstantsAssumption DEF Gens
    <2> QED
      BY <1>0, <1>2, <2>1 DEF FlagInv
  <1> QED
    BY <1>0, <1>1, <1>2, <1>3 DEF FlagInv, Busy

LEMMA ResponseFlag ==
  ASSUME IInv, FlagInv, NEW g \in Gens, Response(g)
  PROVE  FlagInv' /\ Busy(flags) /\ ~Busy(flags')
  <1>0. /\ call \in [Gens -> Calls] /\ flags \in Flags /\ g = gen /\ g \in Int
        /\ UNCHANGED <<gen, seen, ctl>> /\ call[g].state = "http"
        /\ flags' = [flags EXCEPT !.requesting = FALSE]
    BY ConstantsAssumption DEF IInv, ControlType, Response, Gens
  <1>1. flags.requesting /\ ~flags.streaming
    BY <1>0 DEF Response, IInv, OpenIsHeld, FlagInv
  <1>2. ~flags'.requesting /\ ~flags'.streaming
    BY <1>0, <1>1 DEF Flags
  <1>3. Busy(seen)
    BY <1>1 DEF FlagInv, Busy
  <1>4. timer' = 0
    <2>1. timer = 0
      BY <1>1 DEF FlagInv
    <2> QED
      BY <2>1, EndAnswerBuffer DEF Response
  <1>5. /\ \A h \in Gens : h # g => call'[h] = call[h]
        /\ call'[g].state \in {"done", "over"}
        /\ call'[g].sent <= MaxLetters
    <2>1. CASE call' = [call EXCEPT ![g].state = "over"]
      BY <1>0, <2>1 DEF Calls, FlagInv
    <2>2. CASE \E n \in 0..MaxLetters : call' = [call EXCEPT ![g].state = "done", ![g].sent = n]
      <3>1. PICK n \in 0..MaxLetters : call' = [call EXCEPT ![g].state = "done", ![g].sent = n]
        BY <2>2
      <3>2. /\ call'[g] = [call[g] EXCEPT !.state = "done", !.sent = n]
            /\ \A h \in Gens : h # g => call'[h] = call[h]
        BY <1>0, <3>1
      <3>3. call'[g].state = "done" /\ call'[g].sent = n
        BY <1>0, <3>2 DEF Calls
      <3> QED
        BY <3>2, <3>3, ConstantsAssumption
    <2> QED
      BY <2>1, <2>2 DEF Response
  <1>6. \A h \in Gens : /\ call'[h].state \in {"none", "headers", "http"} => call'[h].sent = 0
                        /\ h > gen => call'[h].state = "none"
                        /\ call'[h].sent <= MaxLetters
    BY <1>0, <1>5 DEF FlagInv
  <1>7. \A h \in Gens : ~IsCurrent(h)'
    BY <1>0, <1>1, <1>5 DEF FlagInv, IsCurrent
  <1>8. FlagInv'
    BY <1>0, <1>2, <1>3, <1>4, <1>5, <1>6, <1>7 DEF FlagInv
  <1> QED
    BY <1>1, <1>2, <1>8 DEF Busy

-----------------------------------------------------------------------------
(* The conversations are kept by the steps of the network.                 *)

TalkNext == TalkType' /\ (~clobbered' => TalkInv')

LEMMA Numbers ==
  ASSUME IInv
  PROVE  /\ gen \in Nat /\ gen \in 0..MaxGen /\ MaxGen \in Nat
         /\ \A g \in Gens : call[g].sent \in Nat
  BY ConstantsAssumption DEF IInv, ControlType, Calls

LEMMA StepLater ==
  ASSUME IInv, IInv', gen <= gen', \A g \in Gens : call[g].sent <= call'[g].sent
  PROVE  Later(gen, call, gen', call')
  <1>1. gen \in Int /\ gen' \in Int
    BY ConstantsAssumption DEF IInv, ControlType
  <1>2. \A g \in Gens : call[g].sent \in Nat /\ call'[g].sent \in Nat
    BY DEF IInv, ControlType, Calls
  <1> QED
    BY <1>1, <1>2 DEF Later

\* What was said stays right.
LEMMA TalksLater ==
  ASSUME TalkType, TalkInv, Later(gen, call, gen', call')
  PROVE  \A ms \in Talks : Sound(ms, gen', call') /\ Calm(ms)
  <1> SUFFICES ASSUME NEW ms \in Talks PROVE Sound(ms, gen', call') /\ Calm(ms)
    OBVIOUS
  <1>1. ms \in Seq(Messages) /\ Sound(ms, gen, call) /\ Calm(ms)
    BY DEF TalkType, TalkInv, Fits
  <1> QED
    BY <1>1, SoundLater

LEMMA TalkOf ==
  base \in Talks /\ latest \in Talks /\ store \in Talks /\ Coming \in Talks /\ Halted \in Talks
  BY DEF Talks

\* The types when the conversations are old ones and the two that an update makes.
LEMMA EnqueuedType ==
  ASSUME TalkType, NEW first, NEW last, EnqueuedTalks(first, last), Fits(first), Fits(last),
         UNCHANGED <<store, editing, clobbered>>, pend'.text \in Texts
  PROVE  TalkType'
  <1>1. \A ms \in Talks' : Fits(ms)
    BY DEF EnqueuedTalks, TalkType
  <1> QED
    BY <1>1 DEF EnqueuedTalks, TalkType

LEMMA FlushedType ==
  ASSUME IInv, TalkType
  PROVE  Fits(FlushedTalk) /\ Update("chunk", pend.text) \in Steps /\ Fits(Coming)
  <1>1. Fits(Coming) /\ pend.text \in Texts /\ gen \in 0..MaxGen
    BY TalkOf DEF TalkType, IInv, ControlType
  <1>2. Update("chunk", pend.text) \in Steps
    BY <1>1 DEF Update, Steps
  <1> QED
    BY <1>1, <1>2, ApplyFits DEF FlushedTalk

\* A flush shows all that was sent.
LEMMA FlushedGrows ==
  ASSUME IInv, TalkType, TalkInv, Busy(flags)
  PROVE  /\ Growing(FlushedTalk, <<>>, gen, call[gen].sent)
         /\ Sound(FlushedTalk, gen, call)
         /\ Calm(FlushedTalk)
  <1> DEFINE n == call[gen].sent
             c == Update("chunk", pend.text)
             ms == Coming
             r == Apply(c, ms, gen)
  <1>1. /\ Growing(ms, pend.text, gen, n)
        /\ Sound(ms, gen, call) /\ Calm(ms)
        /\ ms \in Seq(Messages)
    BY TalkOf DEF TalkInv, TalkType, Fits
  <1>2. gen \in Gens /\ n \in Nat
    BY <1>1, Numbers DEF Growing
  <1>3. c \in Steps /\ c.gen = gen /\ c.kind = "chunk" /\ c.text = pend.text
    BY FlushedType DEF Update
  <1> HIDE DEF n, c, ms
  <1>4. CASE pend.text = <<>>
    BY <1>1, <1>4 DEF FlushedTalk, n, ms
  <1>5. CASE pend.text # <<>>
    <2>1. Growing(r, <<>>, gen, n) /\ Full(r[Len(ms)].text, gen, n)
      BY <1>1, <1>2, <1>3, <1>5, GrowingFlush
    <2>2. /\ r \in Seq(Messages) /\ Len(r) = Len(ms)
          /\ \A i \in 1..Len(ms) : i # Len(ms) => r[i] = ms[i]
      BY <1>1, <1>3, ApplyType
    <2>3. Calm(r)
      BY <1>1, <1>3, ApplyCalm
    <2>4. r = FlushedTalk
      BY <1>5 DEF FlushedTalk, c, ms
    <2> HIDE DEF r
    <2>5. r[Len(ms)].key = <<"assistant", gen>>
      <3>1. Len(r) \in 1..Len(r)
        BY <2>1, <2>2 DEF Growing
      <3> QED
        BY <2>1, <2>2, <3>1 DEF Growing
    <2>6. n = call[gen].sent /\ call[gen].sent \in Nat
      BY <1>2 DEF n
    <2>7. Sound(r, gen, call)
      BY <1>1, <1>2, <2>1, <2>2, <2>5, <2>6, SoundLast
    <2> QED
      BY <2>1, <2>3, <2>4, <2>7 DEF n
  <1> QED
    BY <1>4, <1>5

\* The answer ends.
LEMMA EndAnswerTalk ==
  ASSUME IInv, IInv', TalkType, ~clobbered => TalkInv,
         NEW kind \in {"complete", "error"}, NEW early, EndAnswer(kind, early),
         UNCHANGED <<gen, base, store, editing, clobbered>>, Busy(flags), ~Busy(flags'),
         \A g \in Gens : call'[g].sent = call[g].sent,
         gen \in Gens /\ call'[gen].state = "done" => kind = "complete"
  PROVE  TalkNext
  <1> DEFINE u == Update(kind, <<>>)
             f == FlushedTalk
             r == Apply(u, f, gen)
             n == call[gen].sent
  <1>1. u \in Steps /\ EnqueuedTalks(f, r)
    BY EndAnswerTalks
  <1>2. u.kind = kind /\ u.gen = gen
    BY DEF Update
  <1>3. Fits(f) /\ f \in Seq(Messages)
    BY FlushedType DEF Fits
  <1>4. pend' = [gen |-> gen, text |-> <<>>]
    BY EndAnswerBuffer
  <1> HIDE DEF u, f
  <1>5. Fits(r)
    BY <1>1, <1>3, ApplyFits
  <1>6. TalkType'
    BY <1>1, <1>3, <1>4, <1>5, EnqueuedType, OwnType
  <1>7. ASSUME ~clobbered PROVE TalkInv'
    <2>0. TalkInv
      BY <1>7
    <2>1. Growing(f, <<>>, gen, n) /\ Sound(f, gen, call) /\ Calm(f)
      BY <2>0, FlushedGrows DEF f
    <2>2. gen \in Gens /\ n \in Nat /\ call'[gen].sent = n
      BY <2>1, Numbers DEF Growing
    <2> HIDE DEF n
    <2>3. Later(gen, call, gen', call')
      <3>1. \A g \in Gens : call[g].sent <= call'[g].sent
        BY Numbers
      <3>2. gen <= gen'
        BY Numbers
      <3> QED
        BY <3>1, <3>2, StepLater
    <2>4. Sound(r, gen, call)
      BY <1>1, <1>2, <1>3, <2>1, ApplySound
    <2>5. Settled(r)
      <3>1. u.kind \in Ends
        BY <1>2 DEF Ends
      <3>2. Settled(Apply(u, f, u.gen))
        BY <1>1, <1>3, <2>1, <3>1, ApplyEnds
      <3> QED
        BY <1>2, <3>2
    <2>6. Calm(r)
      BY <2>5 DEF Settled, Calm
    <2>7. kind = "complete" => Whole(r, gen, n)
      <3> SUFFICES ASSUME kind = "complete" PROVE Whole(r, gen, n)
        OBVIOUS
      <3>1. Whole(Apply(u, f, u.gen), u.gen, n)
        <4>1. Growing(f, <<>>, u.gen, n) /\ u.kind = "complete"
          BY <1>2, <2>1
        <4>2. u.kind \in {"complete", "response"} /\ (u.kind = "response" => u.text = Word(u.gen, n))
          BY <4>1
        <4> QED
          BY <1>1, <1>3, <2>2, <4>1, <4>2, GrowingComplete
      <3> QED
        BY <1>2, <3>1
    <2> HIDE DEF r
    <2>8. r \in Seq(Messages)
      BY <1>5 DEF Fits
    <2>9. Sound(f, gen', call') /\ Sound(r, gen', call')
      BY <1>3, <2>1, <2>3, <2>4, <2>8, SoundLater
    <2>10. \A ms \in Talks' : Sound(ms, gen', call') /\ Calm(ms)
      <3>1. \A ms \in Talks : Sound(ms, gen', call') /\ Calm(ms)
        BY <2>0, <2>3, TalksLater
      <3> QED
        BY <1>1, <2>1, <2>6, <2>9, <3>1 DEF EnqueuedTalks
    <2>11. Coming' = r
      BY <1>1 DEF EnqueuedTalks
    <2>12. gen' \in Gens /\ call'[gen'].state = "done" => Whole(Coming', gen', call'[gen'].sent)
      BY <2>2, <2>7, <2>11
    <2>13. editing'[2] <= gen'
      BY <2>0 DEF TalkInv
    <2> QED
      BY <2>5, <2>10, <2>11, <2>12, <2>13 DEF TalkInv
  <1> QED
    BY <1>6, <1>7 DEF TalkNext

\* The flush timer.
LEMMA FlushTimerTalk ==
  ASSUME IInv, FlagInv, TalkType, ~clobbered => TalkInv, FlushTimer
  PROVE  TalkNext
  <1> DEFINE f == FlushedTalk
             c == Update("chunk", pend.text)
  <1>0. /\ UNCHANGED <<gen, base, store, call, flags, editing, clobbered>>
        /\ Enqueue(Flushed, TRUE)
        /\ pend.gen = gen /\ pend'.text = <<>>
    BY DEF FlushTimer, net, IInv, ControlType, CountersAgree
  <1>1. Busy(flags) /\ flags.streaming
    BY DEF FlushTimer, FlagInv, Busy
  <1>2. Fits(f) /\ c \in Steps /\ c.gen = gen
    BY FlushedType DEF Update
  <1>3. queue \in Seq(Updates) /\ base \in Seq(Messages) /\ gen \in Nat
    BY Numbers, TalkOf DEF TalkType, Fits
  <1>4. EnqueuedTalks(f, f)
    <2>1. CASE pend.text = <<>>
      <3>1. Enqueue(<<>>, TRUE) /\ f = Coming
        BY <1>0, <2>1 DEF Flushed, FlushedTalk
      <3>2. EnqueuedTalks(Coming, Coming)
        BY <1>0, <1>3, <3>1, EnqueueNone
      <3> QED
        BY <3>1, <3>2
    <2>2. CASE pend.text # <<>>
      <3>1. Enqueue(<<c>>, TRUE) /\ f = Apply(c, Coming, gen)
        BY <1>0, <2>2 DEF Flushed, FlushedTalk
      <3> HIDE DEF c, f
      <3>2. EnqueuedTalks(Apply(c, Coming, gen), Apply(c, Coming, gen))
        BY <1>0, <1>2, <1>3, <3>1, EnqueueOne
      <3> QED
        BY <3>1, <3>2
    <2> QED
      BY <2>1, <2>2
  <1> HIDE DEF f, c
  <1>5. TalkType'
    BY <1>0, <1>2, <1>4, EnqueuedType, OwnType
  <1>6. ASSUME ~clobbered PROVE TalkInv'
    <2>0. TalkInv
      BY <1>6
    <2>1. Growing(f, <<>>, gen, call[gen].sent) /\ Sound(f, gen, call) /\ Calm(f)
      BY <1>1, <2>0, FlushedGrows DEF f
    <2>2. \A ms \in Talks' : Sound(ms, gen', call') /\ Calm(ms)
      BY <1>0, <1>4, <2>0, <2>1 DEF EnqueuedTalks, TalkInv
    <2>3. Coming' = f
      BY <1>4 DEF EnqueuedTalks
    <2>4. call[gen].state # "done"
      BY <1>1 DEF FlagInv
    <2> QED
      BY <1>0, <1>1, <2>0, <2>1, <2>2, <2>3, <2>4 DEF TalkInv
  <1> QED
    BY <1>0, <1>5, <1>6 DEF TalkNext

LEMMA MergeType ==
  ASSUME NEW s \in Texts, NEW t \in Texts PROVE mergePendingStreamChunk(s, t) \in Texts
  BY ConcatType DEF mergePendingStreamChunk

LEMMA SegmentType ==
  ASSUME NEW g \in Gens, NEW a \in Nat, NEW b \in 0..MaxLetters, a <= b
  PROVE  Segment(g, a, b) \in Texts
  <1> DEFINE A == {Letter(g, i) : i \in 1..b}
             B == {<<0, 0>>} \cup {Letter(h, i) : h \in Gens, i \in 1..MaxLetters}
  <1>1. b \in Nat /\ MaxLetters \in Nat
    BY ConstantsAssumption
  <1>2. A \subseteq B /\ Texts = Seq(B)
    BY <1>1 DEF Texts
  <1>3. Segment(g, a, b) \in Seq(A)
    BY <1>1, SegmentFacts
  <1> HIDE DEF A, B
  <1> QED
    BY <1>2, <1>3

\* The conversations stay and the text sent grows.
LEMMA SameTalks ==
  ASSUME IInv, IInv', TalkType, ~clobbered => TalkInv,
         UNCHANGED <<gen, base, queue, latest, store, saving, editing, clobbered>>,
         \A g \in Gens : call[g].sent <= call'[g].sent, pend'.text \in Texts,
         Busy(flags) <=> Busy(flags'),
         Busy(flags) /\ gen \in Gens /\ Growing(Coming, pend.text, gen, call[gen].sent) =>
            Growing(Coming, pend'.text, gen, call'[gen].sent),
         gen \in Gens /\ call'[gen].state = "done" =>
            call[gen].state = "done" /\ call'[gen].sent = call[gen].sent
  PROVE  TalkNext
  <1>1. Coming' = Coming /\ Talks' = Talks
    BY UnchangedTalks
  <1>2. TalkType'
    BY <1>1 DEF TalkType
  <1>3. ASSUME ~clobbered PROVE TalkInv'
    <2>0. TalkInv
      BY <1>3
    <2>1. gen <= gen'
      BY Numbers
    <2>2. Later(gen, call, gen', call')
      BY <2>1, StepLater
    <2>3. \A ms \in Talks' : Sound(ms, gen', call') /\ Calm(ms)
      BY <1>1, <2>0, <2>2, TalksLater
    <2>4. Busy(flags') => Growing(Coming', pend'.text, gen', call'[gen'].sent)
      <3> SUFFICES ASSUME Busy(flags') PROVE Growing(Coming', pend'.text, gen', call'[gen'].sent)
        OBVIOUS
      <3>1. Growing(Coming, pend.text, gen, call[gen].sent)
        BY <2>0 DEF TalkInv
      <3>2. gen \in Gens
        BY <3>1 DEF Growing
      <3> QED
        BY <1>1, <3>1, <3>2
    <2>5. ~Busy(flags') => Settled(Coming')
      BY <1>1, <2>0 DEF TalkInv
    <2>6. gen' \in Gens /\ call'[gen'].state = "done" => Whole(Coming', gen', call'[gen'].sent)
      BY <1>1, <2>0 DEF TalkInv
    <2>7. editing'[2] <= gen' /\ (Busy(flags') => editing' # <<"assistant", gen'>>)
      BY <2>0 DEF TalkInv
    <2> QED
      BY <2>3, <2>4, <2>5, <2>6, <2>7 DEF TalkInv
  <1> QED
    BY <1>2, <1>3 DEF TalkNext

LEMMA ChunkTalk ==
  ASSUME IInv, IInv', FlagInv, TalkType, ~clobbered => TalkInv, NEW g \in Gens, Chunk(g)
  PROVE  TalkNext
  <1>1. g = gen /\ pend.gen = g
    BY DEF Chunk, IsCurrent, IInv, CountersAgree
  <1> PICK n \in (call[g].sent + 1)..MaxLetters :
        /\ call' = [call EXCEPT ![g].sent = n]
        /\ LET chunk == IF Format[g] = "delta" THEN Segment(g, call[g].sent, n) ELSE Word(g, n)
           IN  pend' = [pend EXCEPT !.text = mergePendingStreamChunk(@, chunk)]
    BY <1>1 DEF Chunk
  <1> DEFINE chunk == IF Format[g] = "delta" THEN Segment(g, call[g].sent, n) ELSE Word(g, n)
  <1>0. /\ UNCHANGED <<gen, flags, base, queue, latest, saving, store, editing, clobbered>>
        /\ call[g].state = "stream"
        /\ call \in [Gens -> Calls]
    BY DEF Chunk, page, IsCurrent, IInv, ControlType
  <1>2. n \in 0..MaxLetters /\ n \in Nat /\ call[g].sent \in Nat /\ call[g].sent <= n
    BY Numbers, ConstantsAssumption
  <1>3. pend'.text = mergePendingStreamChunk(pend.text, chunk)
    <2>1. pend = [gen |-> pend.gen, text |-> pend.text]
      BY DEF IInv, ControlType
    <2>2. pend' = [pend EXCEPT !.text = mergePendingStreamChunk(@, chunk)]
      OBVIOUS
    <2> HIDE DEF chunk
    <2> QED
      BY <2>1, <2>2
  <1>4. /\ \A h \in Gens : h # g => call'[h] = call[h]
        /\ call'[g].state = "stream" /\ call'[g].sent = n
    BY <1>0, <1>2 DEF Calls
  <1>5. chunk \in Texts
    BY <1>2, SegmentType, WordType
  <1>6. pend'.text \in Texts
    BY <1>3, <1>5, MergeType DEF TalkType
  <1>7. \A h \in Gens : call[h].sent <= call'[h].sent
    BY <1>2, <1>4, Numbers
  <1>8. ASSUME Growing(Coming, pend.text, gen, call[gen].sent)
        PROVE  Growing(Coming, pend'.text, gen, call'[gen].sent)
    <2> DEFINE ms == Coming
               t == ms[Len(ms)].text
               p == pend.text
               m == call[g].sent
    <2>1. Joined(t, p, g, m)
      BY <1>1, <1>8 DEF Growing
    <2>2. /\ m \in Nat /\ n \in Nat /\ m <= n
          /\ chunk = IF Format[g] = "delta" THEN Segment(g, m, n) ELSE Word(g, n)
      BY <1>2
    <2> HIDE DEF t, p, m, chunk
    <2>3. Joined(t, mergePendingStreamChunk(p, chunk), g, n)
      BY <2>1, <2>2, JoinedMerge
    <2>4. Joined(t, pend'.text, g, n)
      BY <1>3, <2>3 DEF p
    <2> HIDE DEF ms
    <2>5. Growing(ms, pend'.text, g, n)
      BY <1>1, <1>8, <2>4 DEF Growing, t, ms
    <2> QED
      BY <1>1, <1>4, <2>5 DEF ms
  <1> HIDE DEF chunk
  <1>9. gen \in Gens /\ call'[gen].state # "done"
    BY <1>1, <1>4
  <1> QED
    BY <1>0, <1>6, <1>7, <1>8, <1>9, SameTalks

LEMMA HeadersArriveTalk ==
  ASSUME IInv, IInv', FlagInv, TalkType, ~clobbered => TalkInv, NEW g \in Gens, HeadersArrive(g)
  PROVE  TalkNext
  <1>0. /\ UNCHANGED <<gen, pend, base, queue, latest, saving, store, editing, clobbered>>
        /\ call[g].state = "headers" /\ call \in [Gens -> Calls] /\ flags \in Flags
        /\ pend'.text \in Texts
    BY DEF HeadersArrive, chat, IInv, ControlType, TalkType
  <1>1. PICK state \in {"stream", "over"} : call' = [call EXCEPT ![g].state = state]
    BY DEF HeadersArrive
  <1>2. /\ \A h \in Gens : call'[h].sent = call[h].sent
        /\ \A h \in Gens : call'[h].state = "done" => call[h].state = "done"
    BY <1>0, <1>1 DEF Calls
  <1>3. Busy(flags) <=> Busy(flags')
    <2>1. CASE ctl.gen # call[g].ctl
      BY <2>1 DEF HeadersArrive
    <2>2. CASE ctl.gen = call[g].ctl
      <3>1. g = gen
        BY <1>0, <2>2 DEF IInv, CountersAgree
      <3>2. flags.requesting
        BY <1>0, <3>1 DEF FlagInv
      <3>3. flags' = [flags EXCEPT !.streaming = TRUE]
        BY <2>2 DEF HeadersArrive
      <3> QED
        BY <1>0, <3>2, <3>3 DEF Busy, Flags
    <2> QED
      BY <2>1, <2>2
  <1>4. \A h \in Gens : call[h].sent <= call'[h].sent
    BY <1>2, Numbers
  <1> QED
    BY <1>0, <1>2, <1>3, <1>4, SameTalks

LEMMA CloseEarlyTalk ==
  ASSUME IInv, IInv', TalkType, ~clobbered => TalkInv, NEW g \in Gens, CloseEarly(g)
  PROVE  TalkNext
  <1>0. /\ UNCHANGED <<gen, pend, flags, base, queue, latest, saving, store, editing, clobbered>>
        /\ call \in [Gens -> Calls] /\ call' = [call EXCEPT ![g].state = "cut"]
        /\ pend'.text \in Texts
    BY DEF CloseEarly, chat, page, IInv, ControlType, TalkType
  <1>1. /\ \A h \in Gens : call'[h].sent = call[h].sent
        /\ \A h \in Gens : call'[h].state = "done" => call[h].state = "done"
    BY <1>0 DEF Calls
  <1>2. \A h \in Gens : call[h].sent <= call'[h].sent
    BY <1>1, Numbers
  <1> QED
    BY <1>0, <1>1, <1>2, SameTalks

LEMMA HeadersFailTalk ==
  ASSUME IInv, IInv', FlagInv, TalkType, ~clobbered => TalkInv, NEW g \in Gens, HeadersFail(g)
  PROVE  TalkNext
  <1>1. g = gen
    BY DEF HeadersFail, IInv, CountersAgree
  <1>2. /\ UNCHANGED <<gen, base, store, editing, clobbered>>
        /\ EndAnswer("error", TRUE)
        /\ call' = [call EXCEPT ![g].state = "over"] /\ call \in [Gens -> Calls]
    BY <1>1 DEF HeadersFail, IInv, ControlType
  <1>3. Busy(flags) /\ ~Busy(flags')
    BY HeadersFailFlag
  <1>4. /\ \A h \in Gens : call'[h].sent = call[h].sent
        /\ call'[gen].state # "done"
    BY <1>1, <1>2 DEF Calls
  <1> QED
    BY <1>2, <1>3, <1>4, EndAnswerTalk

LEMMA CloseSourceTalk ==
  ASSUME IInv, IInv', FlagInv, TalkType, ~clobbered => TalkInv, NEW g \in Gens,
         NEW kind \in {"complete", "error"}, NEW early, IsCurrent(g), CloseSource(g, kind, early)
  PROVE  TalkNext
  <1>1. g = gen
    BY DEF IsCurrent, IInv, CountersAgree
  <1>2. /\ UNCHANGED <<gen, base, store, editing, clobbered>>
        /\ EndAnswer(kind, early)
        /\ call' = [call EXCEPT ![g].state = IF kind = "complete" THEN "done" ELSE "over"]
        /\ call \in [Gens -> Calls]
    BY <1>1 DEF CloseSource, IInv, ControlType
  <1>3. Busy(flags) /\ ~Busy(flags')
    BY CloseSourceFlag
  <1>4. /\ \A h \in Gens : call'[h].sent = call[h].sent
        /\ call'[gen].state = "done" => kind = "complete"
    BY <1>1, <1>2 DEF Calls
  <1> QED
    BY <1>2, <1>3, <1>4, EndAnswerTalk

\* An answer in one piece.
LEMMA ResponseTalk ==
  ASSUME IInv, IInv', FlagInv, TalkType, ~clobbered => TalkInv, NEW g \in Gens, Response(g)
  PROVE  TalkNext
  <1>0. /\ g = gen /\ call \in [Gens -> Calls] /\ call[g].state = "http"
        /\ UNCHANGED <<gen, base, store, editing, clobbered>>
        /\ gen \in Nat /\ gen \in 0..MaxGen
    BY Numbers DEF Response, IInv, ControlType
  <1>1. Busy(flags) /\ ~Busy(flags')
    BY ResponseFlag
  <1>2. CASE call' = [call EXCEPT ![g].state = "over"] /\ EndAnswer("error", TRUE)
    <2>1. /\ \A h \in Gens : call'[h].sent = call[h].sent
          /\ call'[gen].state # "done"
      BY <1>0, <1>2 DEF Calls
    <2> QED
      BY <1>0, <1>1, <1>2, <2>1, EndAnswerTalk
  <1>3. CASE \E n \in 0..MaxLetters :
                /\ call' = [call EXCEPT ![g].state = "done", ![g].sent = n]
                /\ Enqueue(<<Update("response", Word(g, n))>>, TRUE)
                /\ UNCHANGED <<pend, timer>>
    <2>1. PICK n \in 0..MaxLetters :
                /\ call' = [call EXCEPT ![g].state = "done", ![g].sent = n]
                /\ Enqueue(<<Update("response", Word(g, n))>>, TRUE)
                /\ UNCHANGED <<pend, timer>>
      BY <1>3
    <2> DEFINE u == Update("response", Word(g, n))
               r == Apply(u, Coming, gen)
    <2>2. /\ u \in Steps /\ u.gen = gen /\ u.kind = "response" /\ u.text = Word(g, n)
      BY <1>0, WordType DEF Update, Steps
    <2>3. Enqueue(<<u>>, TRUE)
      BY <2>1
    <2>4. queue \in Seq(Updates) /\ base \in Seq(Messages) /\ Fits(Coming) /\ Coming \in Seq(Messages)
      BY TalkOf DEF TalkType, Fits
    <2> HIDE DEF u
    <2>5. EnqueuedTalks(r, r)
      BY <1>0, <2>2, <2>3, <2>4, EnqueueOne
    <2>6. Fits(r) /\ r \in Seq(Messages)
      BY <2>2, <2>4, ApplyFits DEF Fits
    <2>7. TalkType'
      BY <1>0, <2>1, <2>5, <2>6, EnqueuedType DEF TalkType
    <2>8. /\ call'[g] = [call[g] EXCEPT !.state = "done", !.sent = n]
          /\ \A h \in Gens : h # g => call'[h] = call[h]
      BY <1>0, <2>1
    <2>9. call'[g].sent = n /\ n \in Nat /\ call[g].sent = 0
      BY <1>0, <2>8, ConstantsAssumption DEF Calls, FlagInv
    <2>10. ASSUME ~clobbered PROVE TalkInv'
      <3>0. TalkInv
        BY <2>10
      <3> DEFINE ms == Coming
                 l == Len(ms)
                 k == call[gen].sent
      <3>1. Growing(ms, pend.text, gen, k) /\ Calm(ms)
        BY <1>1, <3>0, TalkOf DEF TalkInv
      <3>2. \A h \in Gens : call[h].sent <= call'[h].sent
        <4>1. \A h \in Gens : call[h].sent \in Nat
          BY Numbers
        <4>2. call[g].sent <= call'[g].sent
          BY <2>9
        <4>3. \A h \in Gens : h # g => call'[h].sent = call[h].sent
          BY <2>8
        <4> QED
          BY <4>1, <4>2, <4>3
      <3>3. gen <= gen'
        BY <1>0
      <3>4. Later(gen, call, gen', call')
        BY <3>2, <3>3, StepLater
      <3>5. \A x \in Talks : Sound(x, gen', call') /\ Calm(x)
        BY <3>0, <3>4, TalksLater
      <3>6. Sound(ms, gen', call') /\ ms \in Seq(Messages)
        BY <2>4, <3>5, TalkOf
      <3> HIDE DEF ms, k
      <3>7. Whole(r, gen, n) /\ Full(r[l].text, gen, n)
        <4>1. r = Apply(u, ms, u.gen)
          BY <2>2 DEF ms
        <4>2. /\ u.kind \in {"complete", "response"}
              /\ Growing(ms, <<>>, u.gen, n) \/ u.kind = "response"
              /\ u.kind = "response" => u.text = Word(u.gen, n)
              /\ Growing(ms, pend.text, u.gen, k)
          BY <1>0, <2>2, <3>1
        <4>3. /\ Whole(Apply(u, ms, u.gen), u.gen, n)
              /\ Full(Apply(u, ms, u.gen)[Len(ms)].text, u.gen, n)
          BY <2>2, <2>9, <3>6, <4>2, GrowingComplete
        <4> QED
          BY <2>2, <4>1, <4>3
      <3>8. /\ Len(r) = l
            /\ \A i \in 1..l : i # l => r[i] = ms[i]
            /\ \A i \in 1..l : r[i].key = ms[i].key
        BY <2>2, <3>6, ApplyType DEF ms
      <3>9. Settled(r)
        <4>1. u.kind \in Ends
          BY <2>2 DEF Ends
        <4> QED
          BY <2>2, <3>1, <3>6, <4>1, ApplyEnds DEF ms
      <3> HIDE DEF r
      <3>10. l \in 1..l /\ r[l].key = <<"assistant", gen>>
        BY <3>1, <3>6, <3>8 DEF Growing
      <3>11. Sound(r, gen, call')
        <4>1. n = call'[gen].sent /\ call'[gen].sent \in Nat /\ gen \in Gens
          BY <1>0, <2>9
        <4>2. Sound(ms, gen, call')
          BY <1>0, <3>6
        <4> QED
          BY <2>6, <3>6, <3>7, <3>8, <3>10, <4>1, <4>2, SoundLast
      <3>12. Calm(r)
        BY <3>9 DEF Settled, Calm
      <3>13. \A x \in Talks' : Sound(x, gen', call') /\ Calm(x)
        BY <1>0, <2>5, <3>5, <3>11, <3>12 DEF EnqueuedTalks
      <3>14. Coming' = r
        BY <2>5 DEF EnqueuedTalks
      <3>15. editing'[2] <= gen'
        BY <1>0, <3>0 DEF TalkInv
      <3> QED
        BY <1>0, <1>1, <2>9, <3>7, <3>9, <3>13, <3>14, <3>15 DEF TalkInv
    <2> QED
      BY <1>0, <2>7, <2>10 DEF TalkNext
  <1> QED
    BY <1>0, <1>2, <1>3 DEF Response, Word

-----------------------------------------------------------------------------
(* The conversations are kept by renders, saves and the user's actions.    *)

LEMMA RenderTalk ==
  ASSUME IInv, IInv', TalkType, ~clobbered => TalkInv, Render
  PROVE  TalkNext
  <1>0. UNCHANGED <<gen, pend, call, flags, store, editing, clobbered>>
    BY DEF Render, chat, net
  <1>1. Coming' = Coming /\ Talks' \subseteq Talks /\ queue' = <<>> /\ saving' \in {saving, TRUE}
    BY RenderTalks
  <1>2. queue' \in Seq(Updates)
    BY <1>1
  <1>5. saving' \in BOOLEAN
    BY <1>1, Zenon DEF TalkType
  <1>3. TalkType'
    BY <1>0, <1>1, <1>2, <1>5 DEF TalkType
  <1>4. TalkInv => TalkInv'
    BY <1>0, <1>1 DEF TalkInv
  <1> QED
    BY <1>0, <1>3, <1>4 DEF TalkNext

LEMMA SaveTalk ==
  ASSUME IInv, TalkType, ~clobbered => TalkInv, Save
  PROVE  TalkNext
  <1> DEFINE r == trimMessages(latest)
  <1>0. /\ UNCHANGED <<gen, pend, call, flags, base, queue, latest, editing, clobbered>>
        /\ store' = r /\ saving' = FALSE
    BY DEF Save, chat, net
  <1>1. Coming' = Coming /\ Talks' \subseteq Talks \cup {r}
    BY <1>0 DEF Coming, Halted, Talks
  <1>2. Fits(latest) /\ latest \in Seq(Messages)
    BY TalkOf DEF TalkType, Fits
  <1>3. Fits(r) /\ Len(r) <= MaxStored
    BY <1>2, TrimFits
  <1>4. TalkInv => Sound(r, gen, call) /\ Calm(r)
    <2> SUFFICES ASSUME TalkInv PROVE Sound(r, gen, call) /\ Calm(r)
      OBVIOUS
    <2>1. Sound(latest, gen, call) /\ Calm(latest)
      BY TalkOf DEF TalkInv
    <2> QED
      BY <1>2, <2>1, TrimSound, TrimCalm
  <1> HIDE DEF r
  <1>5. TalkType'
    BY <1>0, <1>1, <1>3 DEF TalkType
  <1>6. TalkInv => TalkInv'
    BY <1>0, <1>1, <1>4 DEF TalkInv
  <1> QED
    BY <1>0, <1>5, <1>6 DEF TalkNext

\* Another message goes into the editor, or none.
LEMMA EditTalk ==
  ASSUME IInv, FlagInv, TalkType, ~clobbered => TalkInv,
         handleEditMessage \/ handleEditOpenChange \/ UNCHANGED vars
  PROVE  TalkNext
  <1>0. UNCHANGED <<gen, pend, call, flags, base, queue, latest, saving, store, clobbered>>
    BY DEF handleEditMessage, handleEditOpenChange, vars, page, chat, net
  <1>1. Coming' = Coming /\ Talks' = Talks
    BY <1>0, UnchangedTalks
  <1>2. NoKey \in Keys /\ NoKey[2] <= gen /\ NoKey # <<"assistant", gen>>
    BY Numbers DEF NoKey, Keys
  <1>3. /\ editing' \in Keys
        /\ TalkInv => editing'[2] <= gen /\ (Busy(flags) => editing' # <<"assistant", gen>>)
    <2>1. CASE handleEditMessage
      <3>1. PICK i \in DOMAIN base : editing' = base[i].key
        BY <2>1 DEF handleEditMessage
      <3>2. ~Busy(flags)
        BY <2>1 DEF handleEditMessage, FlagInv
      <3>3. base \in Seq(Messages)
        BY TalkOf DEF TalkType, Fits
      <3>4. i \in 1..Len(base) /\ base[i] \in Messages
        BY <3>1, <3>3
      <3>5. TalkInv => Sound(base, gen, call)
        BY TalkOf DEF TalkInv
      <3> QED
        BY <3>1, <3>2, <3>4, <3>5 DEF Messages, Sound, MessageOK
    <2>2. CASE handleEditOpenChange
      BY <1>2, <2>2 DEF handleEditOpenChange
    <2>3. CASE UNCHANGED vars
      BY <2>3 DEF vars, TalkType, TalkInv
    <2> QED
      BY <2>1, <2>2, <2>3
  <1>4. TalkType'
    BY <1>0, <1>1, <1>3 DEF TalkType
  <1>5. TalkInv => TalkInv'
    BY <1>0, <1>1, <1>3 DEF TalkInv
  <1> QED
    BY <1>0, <1>4, <1>5 DEF TalkNext

\* A conversation is rendered by a click that leaves the request alone.
LEMMA ClickTalk ==
  ASSUME IInv, TalkType, ~clobbered => TalkInv, NEW ms, Fits(ms), Rendered(ms),
         UNCHANGED <<gen, pend, call, flags, store>>, editing' \in {editing, NoKey},
         clobbered' \in BOOLEAN, clobbered => clobbered',
         ~clobbered' =>
            /\ Sound(ms, gen, call) /\ Calm(ms)
            /\ Busy(flags) => Growing(ms, pend.text, gen, call[gen].sent)
            /\ ~Busy(flags) => Settled(ms)
            /\ gen \in Gens /\ call[gen].state = "done" => Whole(ms, gen, call[gen].sent)
  PROVE  TalkNext
  <1>1. Coming' = ms /\ Talks' = {ms, store} /\ queue' = <<>> /\ saving' = TRUE
    BY RenderedTalks
  <1>2. NoKey \in Keys /\ NoKey[2] <= gen /\ NoKey # <<"assistant", gen>>
    BY Numbers DEF NoKey, Keys
  <1>3. TalkType'
    <2>1. \A x \in Talks' : Fits(x)
      BY <1>1, TalkOf DEF TalkType
    <2>2. queue' \in Seq(Updates) /\ saving' \in BOOLEAN /\ editing' \in Keys
      BY <1>1, <1>2 DEF TalkType
    <2> QED
      BY <2>1, <2>2 DEF TalkType
  <1>4. ASSUME ~clobbered' PROVE TalkInv'
    <2>0. TalkInv
      BY <1>4
    <2>1. \A x \in Talks' : Sound(x, gen', call') /\ Calm(x)
      BY <1>1, <1>4, <2>0, TalkOf DEF TalkInv
    <2>2. editing'[2] <= gen' /\ (Busy(flags') => editing' # <<"assistant", gen'>>)
      BY <1>2, <2>0 DEF TalkInv
    <2> QED
      BY <1>1, <1>4, <2>1, <2>2 DEF TalkInv
  <1> QED
    BY <1>3, <1>4 DEF TalkNext

LEMMA DeleteTalk ==
  ASSUME IInv, FlagInv, TalkType, ~clobbered => TalkInv, handleDeleteMessage
  PROVE  TalkNext
  <1>0. /\ UNCHANGED <<gen, pend, call, flags, store, editing, clobbered>>
        /\ ~Busy(flags) /\ clobbered \in BOOLEAN
    BY DEF handleDeleteMessage, chat, net, FlagInv, TalkType
  <1>1. PICK i \in DOMAIN base : Rendered(removeMessageByKey(Coming, base[i].key))
    BY DEF handleDeleteMessage, Coming
  <1> DEFINE r == removeMessageByKey(Coming, base[i].key)
  <1>2. Coming \in Seq(Messages) /\ Len(Coming) <= MaxMessages
    BY TalkOf DEF TalkType, Fits
  <1>3. /\ r \in Seq(Messages) /\ Len(r) <= Len(Coming)
        /\ \A j \in 1..Len(r) : \E k \in 1..Len(Coming) : r[j] = Coming[k]
    BY <1>2, WithoutKeeps
  <1>4. Rendered(r)
    BY <1>1
  <1> HIDE DEF r
  <1>5. Fits(r)
    BY <1>2, <1>3, ConstantsAssumption DEF Fits
  <1>6. Selects(Coming, r)
    BY <1>3 DEF Selects
  <1>7. TalkInv => /\ Sound(r, gen, call) /\ Calm(r) /\ Settled(r)
                   /\ gen \in Gens /\ call[gen].state = "done" => Whole(r, gen, call[gen].sent)
    <2> SUFFICES ASSUME TalkInv
                 PROVE  /\ Sound(r, gen, call) /\ Calm(r) /\ Settled(r)
                        /\ gen \in Gens /\ call[gen].state = "done" => Whole(r, gen, call[gen].sent)
      OBVIOUS
    <2>1. Sound(Coming, gen, call) /\ Settled(Coming)
      BY <1>0, TalkOf DEF TalkInv
    <2>2. gen \in Gens /\ call[gen].state = "done" => Whole(Coming, gen, call[gen].sent)
      BY DEF TalkInv
    <2> QED
      BY <1>6, <2>1, <2>2, SelectedTalk
  <1> QED
    BY <1>0, <1>4, <1>5, <1>7, ClickTalk

LEMMA ClearTalk ==
  ASSUME IInv, FlagInv, TalkType, ~clobbered => TalkInv, handleClearMessages
  PROVE  TalkNext
  <1>0. /\ UNCHANGED <<gen, pend, call, flags, store, clobbered>> /\ editing' = NoKey
        /\ ~Busy(flags) /\ clobbered \in BOOLEAN /\ Rendered(<<>>)
    BY DEF handleClearMessages, chat, net, FlagInv, TalkType
  <1> DEFINE e == <<>>
  <1>1. Fits(e)
    BY ConstantsAssumption DEF Fits
  <1>2. Calm(e) /\ Settled(e) /\ Sound(e, gen, call) /\ Whole(e, gen, call[gen].sent)
    BY DEF Calm, Settled, Sound, Whole
  <1>3. Rendered(e)
    BY <1>0
  <1> HIDE DEF e
  <1> QED
    BY <1>0, <1>1, <1>2, <1>3, ClickTalk

\* The message in the editor.
LEMMA EditedIs ==
  ASSUME TalkType, InEditor
  PROVE  /\ base \in Seq(Messages) /\ Len(base) <= MaxMessages
         /\ Index(editing) \in 1..Len(base) /\ base[Index(editing)].key = editing
  <1>1. base \in Seq(Messages) /\ Len(base) <= MaxMessages
    BY TalkOf DEF TalkType, Fits
  <1>2. \E i \in DOMAIN base : base[i].key = editing
    BY DEF InEditor
  <1>3. Index(editing) \in DOMAIN base /\ base[Index(editing)].key = editing
    BY <1>2, Zenon DEF Index
  <1> QED
    BY <1>1, <1>3

LEMMA SaveEditTalk ==
  ASSUME IInv, TalkType, ~clobbered => TalkInv, saveEdit
  PROVE  TalkNext
  <1> DEFINE k == Index(editing)
             r == Rewritten(base, k)
  <1>0. /\ UNCHANGED <<gen, pend, call, flags, store>> /\ editing' = NoKey
        /\ Rendered(r) /\ clobbered \in BOOLEAN
        /\ clobbered' = (clobbered \/ Coming # base)
    BY DEF saveEdit, chat, net, TalkType, Rewritten, Coming
  <1>1. /\ base \in Seq(Messages) /\ Len(base) <= MaxMessages
        /\ k \in 1..Len(base) /\ base[k].key = editing
    BY EditedIs DEF saveEdit
  <1> HIDE DEF k
  <1>2. r \in Seq(Messages) /\ Len(r) = Len(base)
    BY <1>1, RewrittenTalk
  <1>3. /\ Settled(base) => Settled(r)
        /\ Calm(base) => Calm(r)
        /\ \A g, calls : Sound(base, g, calls) => Sound(r, g, calls)
        /\ \A g, n : Whole(base, g, n) => Whole(r, g, n)
        /\ \A p, g, n : Growing(base, p, g, n) /\ base[k].key # <<"assistant", g>> => Growing(r, p, g, n)
    BY <1>1, RewrittenKeeps
  <1> HIDE DEF r
  <1>4. Fits(r)
    BY <1>1, <1>2 DEF Fits
  <1>5. clobbered' \in BOOLEAN /\ (clobbered => clobbered')
    BY <1>0, Zenon
  <1>6. ~clobbered' => ~clobbered /\ Coming = base
    BY <1>0, Zenon
  <1>7. ASSUME ~clobbered'
        PROVE  /\ Sound(r, gen, call) /\ Calm(r)
               /\ Busy(flags) => Growing(r, pend.text, gen, call[gen].sent)
               /\ ~Busy(flags) => Settled(r)
               /\ gen \in Gens /\ call[gen].state = "done" => Whole(r, gen, call[gen].sent)
    <2>1. TalkInv /\ Coming = base
      BY <1>6, <1>7
    <2>2. Sound(base, gen, call) /\ Calm(base)
      BY <2>1, TalkOf DEF TalkInv
    <2>3. /\ Busy(flags) => Growing(base, pend.text, gen, call[gen].sent)
          /\ Busy(flags) => editing # <<"assistant", gen>>
          /\ ~Busy(flags) => Settled(base)
          /\ gen \in Gens /\ call[gen].state = "done" => Whole(base, gen, call[gen].sent)
      BY <2>1 DEF TalkInv
    <2> QED
      BY <1>1, <1>3, <2>2, <2>3
  <1> QED
    BY <1>0, <1>4, <1>5, <1>7, ClickTalk

-----------------------------------------------------------------------------
(* The conversations are kept when a new generation starts.                *)

\* What sendChat does to the requests.
LEMMA SendChatCall ==
  ASSUME IInv, IInv', FlagInv, NEW messages, sendChat(messages)
  PROVE  /\ gen' = gen + 1 /\ gen + 1 \in Gens /\ gen \in Nat
         /\ call'[gen + 1].sent = 0 /\ call'[gen + 1].state # "done"
         /\ pend'.text = <<>> /\ Busy(flags') /\ Rendered(messages)
         /\ Later(gen, call, gen', call')
  <1>1. gen + 1 \in Gens /\ gen \in Nat /\ MaxGen \in Nat /\ Gens = 1..MaxGen /\ call \in [Gens -> Calls]
    BY ConstantsAssumption DEF IInv, ControlType, sendChat, Gens
  <1>2. PICK stream \in BOOLEAN :
         call' = [call EXCEPT ![gen + 1].state = IF stream THEN "headers" ELSE "http",
                              ![gen + 1].ctl = ctl.gen + 1]
    BY DEF sendChat
  <1>3. /\ gen' = gen + 1 /\ pend'.text = <<>> /\ Rendered(messages)
        /\ flags' = [requesting |-> TRUE, streaming |-> FALSE]
    BY DEF sendChat, Discard
  <1>4. /\ \A g \in Gens : g # gen + 1 => call'[g] = call[g]
        /\ call'[gen + 1].state \in {"headers", "http"}
        /\ call'[gen + 1].sent = call[gen + 1].sent
    BY <1>1, <1>2 DEF Calls
  <1>5. call[gen + 1].sent = 0
    BY <1>1 DEF FlagInv
  <1>6. \A g \in Gens : call'[g].sent = call[g].sent
    BY <1>4
  <1>7. \A g \in Gens : call[g].sent <= call'[g].sent
    BY <1>6, Numbers
  <1>8. gen <= gen'
    BY <1>1, <1>3
  <1>9. Later(gen, call, gen', call')
    BY <1>7, <1>8, StepLater
  <1>10. Busy(flags')
    BY <1>3 DEF Busy
  <1> QED
    BY <1>1, <1>3, <1>4, <1>5, <1>9, <1>10

LEMMA SendTalk ==
  ASSUME IInv, IInv', FlagInv, TalkType, ~clobbered => TalkInv,
         NEW ms \in Seq(Messages), Len(ms) + 1 <= MaxMessages, sendChat(ms \o <<Answer(gen + 1)>>),
         UNCHANGED <<store, clobbered>>, editing' \in {editing, NoKey},
         ~clobbered => Sound(ms, gen + 1, call') /\ Settled(ms) /\ Unasked(ms, gen + 1)
  PROVE  TalkNext
  <1> DEFINE r == ms \o <<Answer(gen + 1)>>
  <1>0. /\ gen' = gen + 1 /\ gen + 1 \in Gens /\ gen \in Nat
        /\ call'[gen + 1].sent = 0 /\ call'[gen + 1].state # "done"
        /\ pend'.text = <<>> /\ Busy(flags') /\ Rendered(r)
        /\ Later(gen, call, gen', call')
    BY SendChatCall
  <1>1. r \in Seq(Messages) /\ Len(r) = Len(ms) + 1
    BY <1>0, AskedTalk
  <1> HIDE DEF r
  <1>2. ASSUME ~clobbered
        PROVE  Calm(r) /\ Sound(r, gen + 1, call') /\ Growing(r, <<>>, gen + 1, 0)
    <2> DEFINE g == gen + 1
    <2>1. /\ g \in Gens /\ call'[g].sent \in Nat
          /\ Sound(ms, g, call') /\ Settled(ms) /\ Unasked(ms, g)
      BY <1>0, <1>2
    <2>2. r = ms \o <<Answer(g)>>
      BY DEF r
    <2> HIDE DEF g
    <2>3. Calm(r) /\ Sound(r, g, call') /\ Growing(r, <<>>, g, 0)
      BY <2>1, <2>2, AskedSound
    <2> QED
      BY <2>3 DEF g
  <1>3. Coming' = r /\ Talks' = {r, store} /\ queue' = <<>> /\ saving' = TRUE
    BY <1>0, RenderedTalks
  <1>4. NoKey \in Keys /\ NoKey[2] = 0
    BY DEF NoKey, Keys
  <1>5. TalkType'
    <2>1. \A x \in Talks' : Fits(x)
      BY <1>1, <1>3, TalkOf DEF TalkType, Fits
    <2>2. queue' \in Seq(Updates) /\ saving' \in BOOLEAN /\ editing' \in Keys
      BY <1>3, <1>4 DEF TalkType
    <2> QED
      BY <1>0, <2>1, <2>2, OwnType DEF TalkType
  <1>6. ASSUME ~clobbered PROVE TalkInv'
    <2>0. TalkInv
      BY <1>6
    <2>1. \A x \in Talks : Sound(x, gen', call') /\ Calm(x)
      BY <1>0, <2>0, TalksLater
    <2>2. \A x \in Talks' : Sound(x, gen', call') /\ Calm(x)
      BY <1>0, <1>2, <1>3, <1>6, <2>1, TalkOf
    <2>3. editing'[2] <= gen
      BY <1>0, <1>4, <2>0 DEF TalkInv
    <2>4. editing'[2] \in Int
      <3>1. editing' \in Keys
        BY <1>4 DEF TalkType
      <3> QED
        BY <3>1, ConstantsAssumption DEF Keys, NoKey
    <2>5. editing' # <<"assistant", gen + 1>> /\ editing'[2] <= gen + 1
      BY <1>0, <2>3, <2>4
    <2> QED
      BY <1>0, <1>2, <1>3, <1>6, <2>2, <2>5 DEF TalkInv
  <1> QED
    BY <1>5, <1>6 DEF TalkNext

LEMMA SendMessageTalk ==
  ASSUME IInv, IInv', FlagInv, TalkType, ~clobbered => TalkInv, handleSendMessage
  PROVE  TalkNext
  <1> DEFINE q == Prompt(gen + 1)
             a == Answer(gen + 1)
             ms == Append(base, q)
  <1>0. /\ queue = <<>> /\ ~Busy(flags) /\ Len(base) + 2 <= MaxMessages
        /\ sendChat(base \o <<q, a>>) /\ UNCHANGED <<store, editing, clobbered>>
    BY DEF handleSendMessage, FlagInv
  <1>1. gen' = gen + 1 /\ gen + 1 \in Gens /\ gen \in Nat /\ Later(gen, call, gen', call')
    BY <1>0, SendChatCall
  <1>2. q \in Messages /\ a \in Messages
    BY <1>1, AnswerType
  <1>3. base \in Seq(Messages) /\ Coming = base
    BY <1>0, TalkOf, NothingWaits DEF TalkType, Fits
  <1>4. q.key = <<"user", gen + 1>>
    BY DEF Prompt
  <1> HIDE DEF q, a
  <1>5. base \o <<q, a>> = Append(ms, a)
    BY <1>2, <1>3
  <1>6. /\ ms \in Seq(Messages) /\ Len(ms) = Len(base) + 1
        /\ \A i \in 1..Len(base) : ms[i] = base[i]
        /\ ms[Len(base) + 1] = q
    BY <1>2, <1>3
  <1> HIDE DEF ms
  <1>7. base \o <<q, a>> = ms \o <<a>>
    BY <1>2, <1>5, <1>6
  <1>8. Len(ms) + 1 <= MaxMessages
    BY <1>0, <1>3, <1>6, ConstantsAssumption
  <1>9. ASSUME ~clobbered PROVE Sound(ms, gen + 1, call') /\ Settled(ms) /\ Unasked(ms, gen + 1)
    <2>0. TalkInv
      BY <1>9
    <2>1. Sound(base, gen, call) /\ Settled(base)
      BY <1>0, <1>3, <2>0, TalkOf DEF TalkInv
    <2>2. Sound(base, gen + 1, call')
      BY <1>1, <1>3, <2>1, SoundLater
    <2>3. Unasked(base, gen + 1)
      BY <1>1, <2>1, OldUnasked
    <2>4. q.key[1] = "user" /\ q.key[2] = gen + 1
      BY <1>4
    <2>5. ~IsAnswer(q) /\ q.key[2] <= gen + 1 /\ q.key # <<"assistant", gen + 1>>
      BY <1>1, <2>4 DEF IsAnswer
    <2>6. MessageOK(q, gen + 1, call') /\ ~Waits(q)
      BY <2>5 DEF MessageOK, Waits
    <2>7. \A i \in 1..Len(ms) : i \in 1..Len(base) \/ i = Len(base) + 1
      BY <1>3, <1>6
    <2>8. Sound(ms, gen + 1, call')
      BY <1>6, <2>2, <2>6, <2>7 DEF Sound
    <2>9. Settled(ms)
      BY <1>6, <2>1, <2>6, <2>7 DEF Settled
    <2>10. Unasked(ms, gen + 1)
      BY <1>6, <2>3, <2>5, <2>7 DEF Unasked
    <2> QED
      BY <2>8, <2>9, <2>10
  <1>10. sendChat(ms \o <<Answer(gen + 1)>>)
    BY <1>0, <1>7 DEF a
  <1> QED
    BY <1>0, <1>6, <1>8, <1>9, <1>10, SendTalk

LEMMA RegenerateTalk ==
  ASSUME IInv, IInv', FlagInv, TalkType, ~clobbered => TalkInv, handleRegenerateMessage
  PROVE  TalkNext
  <1>0. /\ queue = <<>> /\ ~Busy(flags) /\ UNCHANGED <<store, editing, clobbered>>
    BY DEF handleRegenerateMessage, FlagInv
  <1>1. base \in Seq(Messages) /\ Coming = base
    BY <1>0, TalkOf, NothingWaits DEF TalkType, Fits
  <1>2. PICK i \in DOMAIN base :
          /\ Len(Upto(i)) < MaxMessages
          /\ sendChat(Upto(IF IsAnswer(base[i]) THEN i - 1 ELSE i) \o <<Answer(gen + 1)>>)
    BY DEF handleRegenerateMessage
  <1> DEFINE k == IF IsAnswer(base[i]) THEN i - 1 ELSE i
             ms == SubSeq(base, 1, k)
  <1>3. i \in 1..Len(base) /\ i \in 0..Len(base) /\ k \in 0..Len(base) /\ k <= i /\ Len(base) \in Nat
    BY <1>1, <1>2
  <1>4. sendChat(ms \o <<Answer(gen + 1)>>)
    BY <1>2 DEF Upto
  <1>5. Len(SubSeq(base, 1, i)) = i /\ i < MaxMessages
    <2>1. Len(SubSeq(base, 1, i)) = i
      BY <1>1, <1>3, UptoTalk
    <2> QED
      BY <1>2, <2>1 DEF Upto
  <1> HIDE DEF k
  <1>6. ms \in Seq(Messages) /\ Len(ms) = k /\ \A j \in 1..k : ms[j] = base[j]
    BY <1>1, <1>3, UptoTalk
  <1> HIDE DEF ms
  <1>7. gen' = gen + 1 /\ gen + 1 \in Gens /\ gen \in Nat /\ Later(gen, call, gen', call')
    BY <1>4, SendChatCall
  <1>8. Len(ms) + 1 <= MaxMessages
    BY <1>3, <1>5, <1>6, ConstantsAssumption
  <1>9. Selects(base, ms)
    BY <1>3, <1>6 DEF Selects
  <1>10. ASSUME ~clobbered PROVE Sound(ms, gen + 1, call') /\ Settled(ms) /\ Unasked(ms, gen + 1)
    <2>0. TalkInv
      BY <1>10
    <2>1. Sound(base, gen, call) /\ Settled(base)
      BY <1>0, <1>1, <2>0, TalkOf DEF TalkInv
    <2>2. Sound(ms, gen, call) /\ Settled(ms)
      BY <1>9, <2>1, SelectedTalk
    <2> QED
      BY <1>6, <1>7, <2>2, SoundLater, OldUnasked
  <1> QED
    BY <1>0, <1>4, <1>6, <1>8, <1>10, SendTalk

LEMMA SubmitTalk ==
  ASSUME IInv, IInv', FlagInv, TalkType, ~clobbered => TalkInv, saveEditAndSubmit
  PROVE  TalkNext
  <1> DEFINE k == Index(editing)
             t == SubSeq(base, 1, k)
             ms == Rewritten(t, k)
  <1>0. /\ UNCHANGED <<store, clobbered>> /\ editing' = NoKey
        /\ ~IsAnswer(base[k]) /\ k < MaxMessages
        /\ sendChat(ms \o <<Answer(gen + 1)>>)
    BY DEF saveEditAndSubmit, Upto, Rewritten
  <1>1. /\ base \in Seq(Messages) /\ k \in 1..Len(base)
    BY EditedIs DEF saveEditAndSubmit
  <1> HIDE DEF k
  <1>2. k \in 0..Len(base) /\ k \in Nat /\ k \in 1..k /\ k <= Len(base) /\ Len(base) \in Nat
    BY <1>1
  <1>3. t \in Seq(Messages) /\ Len(t) = k /\ \A j \in 1..k : t[j] = base[j]
    BY <1>1, <1>2, UptoTalk
  <1> HIDE DEF t
  <1>4. ms \in Seq(Messages) /\ Len(ms) = Len(t)
    BY <1>2, <1>3, RewrittenTalk
  <1>5. /\ Settled(t) => Settled(ms)
        /\ \A g, calls : Sound(t, g, calls) => Sound(ms, g, calls)
    BY <1>2, <1>3, RewrittenKeeps
  <1> HIDE DEF ms
  <1>6. gen' = gen + 1 /\ gen + 1 \in Gens /\ gen \in Nat /\ Later(gen, call, gen', call')
    BY <1>0, SendChatCall
  <1>7. Len(ms) + 1 <= MaxMessages
    BY <1>0, <1>2, <1>3, <1>4, ConstantsAssumption
  <1>8. ASSUME ~clobbered PROVE Sound(ms, gen + 1, call') /\ Settled(ms) /\ Unasked(ms, gen + 1)
    <2>0. TalkInv
      BY <1>8
    <2>1. Sound(base, gen, call) /\ Calm(base)
      BY <2>0, TalkOf DEF TalkInv
    <2>2. Settled(t)
      <3> SUFFICES ASSUME NEW j \in 1..k, Waits(base[j]) PROVE FALSE
        BY <1>3 DEF Settled
      <3>1. j = Len(base)
        BY <1>2, <2>1 DEF Calm
      <3>2. j = k
        BY <1>2, <3>1
      <3> QED
        BY <1>0, <3>2 DEF Waits
    <2>3. Sound(t, gen, call)
      BY <1>2, <1>3, <2>1 DEF Sound
    <2>4. Sound(ms, gen, call) /\ Settled(ms)
      BY <1>5, <2>2, <2>3
    <2> QED
      BY <1>4, <1>6, <2>4, SoundLater, OldUnasked
  <1> QED
    BY <1>0, <1>4, <1>7, <1>8, SendTalk

\* A new generation without a request renders a conversation in which no answer waits.
LEMMA QuietTalk ==
  ASSUME IInv, IInv', FlagInv, TalkType, ~clobbered => TalkInv, NEW ms, Fits(ms),
         gen < MaxGen, gen' = gen + 1, pend'.text = <<>>, call' = call, ~Busy(flags'),
         base' = ms, latest' = ms, queue' = <<>>, saving' \in BOOLEAN,
         store' = store \/ (store' = ms /\ Len(ms) <= MaxStored),
         editing' \in {editing, NoKey}, clobbered' = clobbered,
         ~clobbered => Sound(ms, gen, call) /\ Settled(ms)
  PROVE  TalkNext
  <1>1. Coming' = ms /\ Talks' \subseteq {ms, store}
    <2>1. Coming' = ms /\ Halted' = ms
      BY ApplyNone DEF Coming, Halted
    <2> QED
      BY <2>1 DEF Talks
  <1>2. gen + 1 \in Gens /\ gen \in Nat /\ ms \in Seq(Messages)
    BY Numbers DEF Gens, Fits
  <1>3. NoKey \in Keys /\ NoKey[2] = 0
    BY DEF NoKey, Keys
  <1>4. TalkType'
    <2>1. \A x \in Talks' : Fits(x)
      BY <1>1, TalkOf DEF TalkType
    <2>2. queue' \in Seq(Updates) /\ editing' \in Keys
      BY <1>3 DEF TalkType
    <2>3. Len(store') <= MaxStored
      BY DEF TalkType
    <2> QED
      BY <2>1, <2>2, <2>3, OwnType DEF TalkType
  <1>5. ASSUME ~clobbered PROVE TalkInv'
    <2>0. TalkInv
      BY <1>5
    <2>1. Later(gen, call, gen', call')
      <3>1. gen <= gen' /\ \A g \in Gens : call[g].sent <= call'[g].sent
        BY <1>2, Numbers
      <3> QED
        BY <3>1, StepLater
    <2>2. \A x \in Talks : Sound(x, gen', call') /\ Calm(x)
      BY <2>0, <2>1, TalksLater
    <2>3. Sound(ms, gen', call')
      BY <1>2, <1>5, <2>1, SoundLater
    <2>4. Calm(ms)
      BY <1>5 DEF Settled, Calm
    <2>5. \A x \in Talks' : Sound(x, gen', call') /\ Calm(x)
      BY <1>1, <2>2, <2>3, <2>4, TalkOf
    <2>6. call'[gen'].state # "done"
      BY <1>2 DEF FlagInv
    <2>7. editing'[2] <= gen'
      <3>1. editing'[2] <= gen
        BY <1>2, <1>3, <2>0 DEF TalkInv
      <3>2. editing' \in Keys
        BY <1>3 DEF TalkType
      <3>3. editing'[2] \in Int
        BY <3>2, ConstantsAssumption DEF Keys, NoKey
      <3> QED
        BY <1>2, <3>1, <3>3
    <2> QED
      BY <1>1, <1>5, <2>5, <2>6, <2>7 DEF TalkInv
  <1> QED
    BY <1>4, <1>5 DEF TalkNext

\* What stop makes of the updates that wait: those of the stopped generation are lost unless
\* React has applied them.
LEMMA StoppedTalk ==
  ASSUME IInv, FlagInv, TalkType, NEW u \in Steps, u.gen = gen + 1, NEW ms, Busy(seen),
         \/ ms = ApplyAll(queue \o Flushed \o <<u>>, base, gen + 1)
         \/ /\ queue = <<>> /\ flags = seen
            /\ ms = Apply(u, ApplyAll(Flushed, base, gen), gen + 1)
  PROVE  \E old : /\ Fits(old)
                  /\ ms = Apply(u, old, gen + 1)
                  /\ TalkInv => Sound(old, gen, call) /\ Calm(old)
  <1> DEFINE c == Update("chunk", pend.text)
             h == gen + 1
  <1>0. /\ queue \in Seq(Updates) /\ gen \in Nat /\ gen # h
        /\ u \in Updates /\ <<>> \in Seq(Updates)
    BY Numbers DEF TalkType, Updates
  <1>1. c \in Steps /\ c \in Updates /\ c.gen = gen
    BY FlushedType DEF Updates, Update
  <1>2. Flushed = IF pend.text = <<>> THEN <<>> ELSE <<c>>
    BY DEF Flushed, IInv, CountersAgree
  <1>3. Fits(Halted) /\ (TalkInv => Sound(Halted, gen, call) /\ Calm(Halted))
    BY TalkOf DEF TalkType, TalkInv
  <1> HIDE DEF c
  <1>4. CASE ms = ApplyAll(queue \o Flushed \o <<u>>, base, gen + 1)
    <2> DEFINE q == queue \o Flushed
    <2>1. q \in Seq(Updates) /\ ApplyAll(q, base, h) = Halted
      <3>1. CASE pend.text = <<>>
        <4>1. q = queue
          BY <1>0, <1>2, <3>1
        <4> QED
          BY <1>0, <4>1 DEF Halted
      <3>2. CASE pend.text # <<>>
        <4>1. q = queue \o <<c>>
          BY <1>2, <3>2
        <4>2. queue \o <<c>> \in Seq(Updates) /\ ApplyAll(queue \o <<c>>, base, h) = Apply(c, Halted, h)
          BY <1>0, <1>1, QueueOne DEF Halted
        <4>3. Apply(c, Halted, h) = Halted
          BY <1>0, <1>1, ApplyStale
        <4> QED
          BY <4>1, <4>2, <4>3
      <3> QED
        BY <3>1, <3>2
    <2>2. ms = ApplyAll(q \o <<u>>, base, h)
      BY <1>4
    <2> HIDE DEF q, h
    <2>3. q \o <<u>> = Append(q, u)
      BY <1>0, <2>1
    <2>4. ApplyAll(Append(q, u), base, h) = Apply(u, ApplyAll(q, base, h), h)
      BY <1>0, <2>1, ApplyOneMore
    <2>5. ms = Apply(u, Halted, h)
      BY <2>1, <2>2, <2>3, <2>4
    <2> QED
      BY <1>3, <2>5 DEF h
  <1>5. CASE /\ queue = <<>> /\ flags = seen
             /\ ms = Apply(u, ApplyAll(Flushed, base, gen), gen + 1)
    <2>1. Coming = base
      BY <1>5, NothingWaits
    <2>2. ApplyAll(Flushed, base, gen) = FlushedTalk
      <3>1. CASE pend.text = <<>>
        <4>1. ApplyAll(Flushed, base, gen) = base
          BY <1>2, <3>1, ApplyNone
        <4> QED
          BY <2>1, <3>1, <4>1 DEF FlushedTalk
      <3>2. CASE pend.text # <<>>
        <4>1. queue \o <<c>> = <<c>>
          BY <1>5
        <4>2. ApplyAll(queue \o <<c>>, base, gen) = Apply(c, Coming, gen)
          BY <1>0, <1>1, QueueOne DEF Coming
        <4> QED
          BY <1>2, <3>2, <4>1, <4>2 DEF FlushedTalk, c
      <3> QED
        BY <3>1, <3>2
    <2>3. Fits(FlushedTalk) /\ (TalkInv => Sound(FlushedTalk, gen, call) /\ Calm(FlushedTalk))
      BY <1>5, FlushedType, FlushedGrows
    <2> QED
      BY <1>5, <2>2, <2>3
  <1> QED
    BY <1>4, <1>5

LEMMA StopTalk ==
  ASSUME IInv, IInv', FlagInv, TalkType, ~clobbered => TalkInv, stopGeneration
  PROVE  TalkNext
  <1> DEFINE u == [kind |-> "stop", gen |-> gen + 1, text |-> <<>>]
  <1>0. /\ Busy(seen) /\ gen < MaxGen /\ gen' = gen + 1 /\ pend'.text = <<>> /\ call' = call
        /\ ~Busy(flags') /\ UNCHANGED <<store, editing, clobbered>>
    BY DEF stopGeneration, Discard, Busy
  <1>1. u \in Steps /\ u.gen = gen + 1 /\ u.kind = "stop"
    BY <1>0, Numbers, OwnType DEF Steps
  <1>2. PICK ms : /\ Rendered(ms)
                  /\ \/ ms = ApplyAll(queue \o Flushed \o <<u>>, base, gen + 1)
                     \/ /\ queue = <<>> /\ flags = seen
                        /\ ms = Apply(u, ApplyAll(Flushed, base, gen), gen + 1)
    BY DEF stopGeneration
  <1> HIDE DEF u
  <1>3. PICK old : /\ Fits(old)
                   /\ ms = Apply(u, old, gen + 1)
                   /\ TalkInv => Sound(old, gen, call) /\ Calm(old)
    BY <1>0, <1>1, <1>2, StoppedTalk
  <1>4. Fits(ms) /\ old \in Seq(Messages)
    BY <1>1, <1>3, ApplyFits DEF Fits
  <1>5. ASSUME ~clobbered PROVE Sound(ms, gen, call) /\ Settled(ms)
    <2>1. Sound(old, gen, call) /\ Calm(old)
      BY <1>3, <1>5
    <2>2. Sound(Apply(u, old, gen + 1), gen, call)
      BY <1>1, <1>4, <2>1, ApplySound
    <2>3. Settled(Apply(u, old, u.gen))
      BY <1>1, <1>4, <2>1, ApplyEnds DEF Ends
    <2> QED
      BY <1>1, <1>3, <2>2, <2>3
  <1>6. base' = ms /\ latest' = ms /\ queue' = <<>> /\ saving' \in BOOLEAN
    BY <1>2 DEF Rendered
  <1> QED
    BY <1>0, <1>4, <1>5, <1>6, QuietTalk

\* The page is loaded from the storage.
LEMMA MountTalk ==
  ASSUME IInv, IInv', FlagInv, TalkType, ~clobbered => TalkInv, NEW saved, Fits(saved),
         Mount(sanitizeMessagesOnLoad(trimMessages(Normal(saved)))),
         ~clobbered => Sound(saved, gen, call) /\ Calm(saved)
  PROVE  TalkNext
  <1> DEFINE ms == sanitizeMessagesOnLoad(trimMessages(Normal(saved)))
  <1>1. /\ Fits(ms) /\ Len(ms) <= MaxStored
        /\ Calm(saved) => Settled(ms)
        /\ \A g, calls : Sound(saved, g, calls) => Sound(ms, g, calls)
    BY LoadedTalk
  <1>2. Mount(ms)
    OBVIOUS
  <1> HIDE DEF ms
  <1>3. /\ gen < MaxGen /\ gen' = gen + 1 /\ pend'.text = <<>> /\ call' = call
        /\ ~Busy(flags') /\ base' = ms /\ latest' = ms /\ queue' = <<>>
        /\ store' = ms /\ editing' = NoKey /\ clobbered' = clobbered
    BY <1>2 DEF Mount, Discard, Busy
  <1>5. saving' \in BOOLEAN
    BY <1>2 DEF Mount
  <1>4. ~clobbered => Sound(ms, gen, call) /\ Settled(ms)
    BY <1>1
  <1> QED
    BY <1>1, <1>3, <1>4, <1>5, QuietTalk

LEMMA NavigateTalk ==
  ASSUME IInv, IInv', FlagInv, TalkType, ~clobbered => TalkInv, Navigate \/ Reload
  PROVE  TalkNext
  <1>1. PICK saved \in {store, trimMessages(latest)} :
           Mount(sanitizeMessagesOnLoad(trimMessages(Normal(saved))))
    <2>1. CASE Reload
      BY <2>1 DEF Reload, loadMessages, Normal
    <2>2. CASE Navigate
      BY <2>2 DEF Navigate, Normal
    <2> QED
      BY <2>1, <2>2
  <1>2. Fits(store) /\ Fits(latest) /\ latest \in Seq(Messages)
    BY TalkOf DEF TalkType, Fits
  <1>3. Fits(saved)
    BY <1>2, TrimFits
  <1>4. ASSUME ~clobbered PROVE Sound(saved, gen, call) /\ Calm(saved)
    <2>1. /\ Sound(store, gen, call) /\ Calm(store)
          /\ Sound(latest, gen, call) /\ Calm(latest)
      BY <1>4, TalkOf DEF TalkInv
    <2> QED
      BY <1>2, <2>1, TrimSound, TrimCalm
  <1> QED
    BY <1>1, <1>3, <1>4, MountTalk

-----------------------------------------------------------------------------
(* The theorems.                                                           *)

\* Earlier, the conversation of another visit, fits and no answer of it waits.
LEMMA EarlierTalk ==
  ASSUME NEW ms \in {<<>>, Earlier}, NEW calls
  PROVE  /\ Fits(ms) /\ Len(ms) <= MaxStored
         /\ Sound(ms, 0, calls) /\ Calm(ms) /\ Settled(ms)
  <1>0. /\ MaxMessages \in Nat /\ MaxMessages >= 2 /\ MaxStored \in Nat /\ MaxStored >= 2
        /\ 0 \in 0..MaxGen
    BY ConstantsAssumption
  <1>1. CASE ms = <<>>
    BY <1>0, <1>1 DEF Fits, Sound, Calm, Settled
  <1>2. CASE ms = Earlier
    <2> DEFINE q == [key |-> <<"user", 0>>, status |-> "none", text |-> Own]
               a == [key |-> <<"assistant", 0>>, status |-> "complete", text |-> Own]
    <2>1. <<"user", 0>> \in Keys /\ <<"assistant", 0>> \in Keys
      BY <1>0 DEF Keys
    <2>2. q \in Messages
      BY <2>1, OwnType DEF Messages
    <2>3. a \in Messages
      BY <2>1, OwnType DEF Messages
    <2>4. ~Waits(q) /\ MessageOK(q, 0, calls)
      BY DEF Waits, IsAnswer, Pending, MessageOK
    <2>5. ~Waits(a) /\ MessageOK(a, 0, calls)
      BY DEF Waits, IsAnswer, Pending, MessageOK
    <2>6. ms = <<q, a>>
      BY <1>2 DEF Earlier
    <2> HIDE DEF q, a
    <2>7. ms \in Seq(Messages) /\ Len(ms) = 2 /\ ms[1] = q /\ ms[2] = a
      BY <2>2, <2>3, <2>6
    <2>8. Fits(ms) /\ Len(ms) <= MaxStored
      BY <1>0, <2>7 DEF Fits
    <2>9. \A i \in 1..Len(ms) : i = 1 \/ i = 2
      BY <2>7
    <2>10. Sound(ms, 0, calls)
      BY <2>4, <2>5, <2>7, <2>9 DEF Sound
    <2>11. Settled(ms) /\ Calm(ms)
      BY <2>4, <2>5, <2>7, <2>9 DEF Settled, Calm
    <2> QED
      BY <2>8, <2>10, <2>11
  <1> QED
    BY <1>1, <1>2

LEMMA InitPageInv == Init => PageInv
<1> SUFFICES ASSUME Init PROVE PageInv
  OBVIOUS
<1>1. /\ base = store /\ latest = store /\ queue = <<>> /\ gen = 0 /\ store \in {<<>>, Earlier}
      /\ pend = [gen |-> 0, text |-> <<>>] /\ editing = NoKey
      /\ flags = [requesting |-> FALSE, streaming |-> FALSE]
  BY DEF Init
<1>2. saving = FALSE /\ clobbered = FALSE
  BY DEF Init
<1>3. Coming = store /\ Talks = {store}
  BY <1>1, NothingWaits DEF Talks
<1>4. Fits(store) /\ Len(store) <= MaxStored /\ Sound(store, 0, call) /\ Calm(store) /\ Settled(store)
  BY <1>1, EarlierTalk
<1>5. NoKey \in Keys /\ NoKey[2] = 0
  BY DEF NoKey, Keys
<1>6. TalkType
  <2>1. saving \in BOOLEAN /\ clobbered \in BOOLEAN
    BY <1>2
  <2>2. queue \in Seq(Updates) /\ pend.text \in Texts
    BY <1>1, OwnType
  <2> QED
    BY <1>1, <1>3, <1>4, <1>5, <2>1, <2>2 DEF TalkType
<1>7. TalkInv
  <2>1. ~Busy(flags) /\ gen \notin Gens
    BY <1>1, ConstantsAssumption DEF Busy, Gens
  <2> QED
    BY <1>1, <1>3, <1>4, <1>5, <2>1 DEF TalkInv
<1> QED
  BY <1>6, <1>7, InitIInv, InitFlagInv DEF PageInv

LEMMA NextPageInv == PageInv /\ [Next]_vars => PageInv'
<1> SUFFICES ASSUME PageInv, [Next]_vars PROVE PageInv'
  OBVIOUS
<1>0. IInv /\ IInv' /\ FlagInv /\ TalkType /\ (~clobbered => TalkInv)
  BY NextIInv DEF PageInv
<1> SUFFICES FlagInv' /\ TalkNext
  BY <1>0 DEF PageInv, TalkNext
<1>1. CASE Render
  <2>1. UNCHANGED <<chat, net, flags>> /\ seen' = flags /\ queue' = <<>>
    BY <1>1 DEF Render
  <2> QED
    BY <1>0, <1>1, <2>1, FlagUntouched, RenderTalk
<1>2. CASE Save
  <2>1. UNCHANGED <<chat, net, flags, seen, queue>>
    BY <1>2 DEF Save
  <2> QED
    BY <1>0, <1>2, <2>1, FlagUntouched, SaveTalk
<1>3. CASE handleEditMessage \/ handleEditOpenChange \/ UNCHANGED vars
  <2>1. UNCHANGED <<chat, net, flags, seen, queue>>
    BY <1>3 DEF handleEditMessage, handleEditOpenChange, vars, page
  <2> QED
    BY <1>0, <1>3, <2>1, FlagUntouched, EditTalk
<1>4. CASE handleDeleteMessage
  <2>1. UNCHANGED <<chat, net, flags>> /\ seen' = flags /\ queue' = <<>>
    BY <1>4 DEF handleDeleteMessage, Rendered
  <2> QED
    BY <1>0, <1>4, <2>1, FlagUntouched, DeleteTalk
<1>5. CASE handleClearMessages
  <2>1. UNCHANGED <<chat, net, flags>> /\ seen' = flags /\ queue' = <<>>
    BY <1>5 DEF handleClearMessages, Rendered
  <2> QED
    BY <1>0, <1>5, <2>1, FlagUntouched, ClearTalk
<1>6. CASE saveEdit
  <2>1. UNCHANGED <<chat, net, flags>> /\ seen' = flags /\ queue' = <<>>
    BY <1>6 DEF saveEdit, Rendered
  <2> QED
    BY <1>0, <1>6, <2>1, FlagUntouched, SaveEditTalk
<1>7. CASE FlushTimer
  BY <1>0, <1>7, FlushTimerFlag, FlushTimerTalk
<1>8. CASE handleSendMessage \/ handleRegenerateMessage \/ saveEditAndSubmit
  <2>1. PICK messages : sendChat(messages)
    BY <1>8 DEF handleSendMessage, handleRegenerateMessage, saveEditAndSubmit
  <2>2. FlagInv'
    BY <1>0, <2>1, SendChatFlag
  <2> QED
    BY <1>0, <1>8, <2>2, SendMessageTalk, RegenerateTalk, SubmitTalk
<1>9. CASE stopGeneration
  <2>1. FlagInv'
    BY <1>0, <1>9, NewGenerationFlag DEF stopGeneration, Rendered
  <2> QED
    BY <1>0, <1>9, <2>1, StopTalk
<1>10. CASE Navigate \/ Reload
  <2>1. PICK messages : Mount(messages)
    BY <1>10 DEF Navigate, Reload
  <2>2. FlagInv'
    BY <1>0, <2>1, NewGenerationFlag DEF Mount
  <2> QED
    BY <1>0, <1>10, <2>2, NavigateTalk
<1>11. ASSUME NEW g \in Gens, Answered(g) \/ Chunk(g) PROVE FlagInv' /\ TalkNext
  <2>1. CASE HeadersArrive(g)
    BY <1>0, <2>1, HeadersArriveFlag, HeadersArriveTalk
  <2>2. CASE HeadersFail(g)
    BY <1>0, <2>2, HeadersFailFlag, HeadersFailTalk
  <2>3. CASE Done(g)
    <3>1. IsCurrent(g) /\ CloseSource(g, "complete", FALSE)
      BY <2>3 DEF Done
    <3> QED
      BY <1>0, <3>1, CloseSourceFlag, CloseSourceTalk
  <2>4. CASE StreamError(g)
    <3>1. IsCurrent(g) /\ CloseSource(g, "error", TRUE)
      BY <2>4 DEF StreamError
    <3> QED
      BY <1>0, <3>1, CloseSourceFlag, CloseSourceTalk
  <2>5. CASE CloseEarly(g)
    BY <1>0, <2>5, CloseEarlyFlag, CloseEarlyTalk
  <2>6. CASE Response(g)
    BY <1>0, <2>6, ResponseFlag, ResponseTalk
  <2>7. CASE Chunk(g)
    BY <1>0, <2>7, ChunkFlag, ChunkTalk
  <2> QED
    BY <1>11, <2>1, <2>2, <2>3, <2>4, <2>5, <2>6, <2>7 DEF Answered, HeadersEnd, StreamEnds
<1> QED
  BY <1>1, <1>2, <1>3, <1>4, <1>5, <1>6, <1>7, <1>8, <1>9, <1>10, <1>11 DEF Next

LEMMA PageInvariance == Spec => []PageInv
<1> QED BY InitPageInv, NextPageInv, PTL DEF Spec

\* The variables of the page keep their types, and the conversation and its copy in the storage
\* their bounds, also when an edit was saved over updates.
THEOREM TypeCorrect == Spec => []TypeOK
<1>1. PageInv => TypeOK
  <2> SUFFICES ASSUME PageInv PROVE TypeOK
    OBVIOUS
  <2>0. IInv /\ FlagInv /\ TalkType
    BY DEF PageInv
  <2>1. gen \in 0..MaxGen /\ pend \in [gen: 0..MaxGen, text: Texts]
    BY <2>0 DEF IInv, ControlType, CountersAgree, TalkType
  <2>2. {timer, abort} \subseteq 0..MaxGen
    BY <2>0, Numbers DEF IInv, ControlType, CountersAgree
  <2>3. ctl \in [gen: 0..MaxGen, source: 0..MaxGen]
    BY <2>0 DEF IInv, ControlType, CountersAgree, FlagInv
  <2>4. call \in [Gens -> [state: {"none", "headers", "stream", "http", "done", "over", "cut"},
                           ctl: 0..MaxGen, sent: 0..MaxLetters]]
    <3>1. call \in [Gens -> Calls] /\ MaxLetters \in Nat
      BY <2>0, ConstantsAssumption DEF IInv, ControlType
    <3>2. \A g \in Gens : call[g].sent \in 0..MaxLetters
      BY <2>0, <3>1, Numbers DEF FlagInv
    <3> QED
      BY <3>1, <3>2 DEF Calls
  <2>5. open \subseteq Gens /\ {flags, seen} \subseteq Flags
    BY <2>0 DEF IInv, ControlType, FlagInv
  <2>6. {base, latest, store} \subseteq Seq(Messages) /\ Len(base) <= MaxMessages /\ Len(store) <= MaxStored
    BY <2>0, TalkOf DEF TalkType, Fits
  <2>7. editing \in Keys /\ {saving, clobbered} \subseteq BOOLEAN
    BY <2>0 DEF TalkType
  <2> QED
    BY <2>1, <2>2, <2>3, <2>4, <2>5, <2>6, <2>7 DEF TypeOK
<1> QED BY <1>1, PageInvariance, PTL

\* When nothing is being generated and everything is rendered, no answer is left waiting: the
\* ends of a request, stopGeneration and the load from the storage all settle the last answer.
THEOREM NoStuckAnswerHolds == Spec => []NoStuckAnswer
<1>1. PageInv => NoStuckAnswer
  <2> SUFFICES ASSUME PageInv, ~Busy(flags), queue = <<>>, ~clobbered
               PROVE  \A i \in DOMAIN base : IsAnswer(base[i]) => ~Pending(base[i])
    BY DEF NoStuckAnswer
  <2>1. Settled(base)
    BY NothingWaits DEF PageInv, TalkInv
  <2>2. DOMAIN base = 1..Len(base)
    BY TalkOf DEF PageInv, TalkType, Fits
  <2> QED
    BY <2>1, <2>2 DEF Settled, Waits
<1> QED BY <1>1, PageInvariance, PTL

\* An answer shows only letters that the provider sent for it, whatever it sends and however its
\* chunks are cut, buffered, flushed and applied; the beginning of them, and all of it at the end,
\* when the chunks are snapshots or no delta repeats what is right before it.
THEOREM TextIsSentHolds == Spec => []TextIsSent
<1>1. PageInv => TextIsSent
  <2> SUFFICES ASSUME PageInv, ~clobbered, NEW i \in DOMAIN base,
                      IsAnswer(base[i]), base[i].text # Own
               PROVE  LET m == base[i] g == m.key[2]
                      IN  /\ ToSet(m.text) \subseteq ToSet(Sent(g))
                          /\ Plain(g) => Shown(m, g)
    BY DEF TextIsSent
  <2> DEFINE m == base[i]
             g == m.key[2]
             n == call[g].sent
  <2>0. IInv /\ TalkInv /\ TalkType
    BY DEF PageInv
  <2>1. base \in Seq(Messages) /\ Sound(base, gen, call)
    BY <2>0, TalkOf DEF TalkType, TalkInv, Fits
  <2>2. i \in 1..Len(base) /\ m \in Messages
    BY <2>1
  <2>3. g \in Gens /\ Begun(m.text, g, n)
    BY <2>1, <2>2 DEF Sound, MessageOK
  <2>4. Sent(g) = Word(g, n)
    BY DEF Sent
  <2>5. n \in Nat
    BY <2>0, <2>3, Numbers
  <2> HIDE DEF n, g
  <2>6. ToSet(m.text) \subseteq ToSet(Sent(g))
    <3>1. m.text \in Seq({Letter(g, k) : k \in 1..n})
      BY <2>3 DEF Begun, Letters
    <3>2. \A k \in 1..n : Letter(g, k) \in ToSet(Word(g, n))
      BY <2>5 DEF Word, ToSet
    <3>3. \A j \in DOMAIN m.text : m.text[j] \in {Letter(g, k) : k \in 1..n}
      BY <3>1
    <3>4. \A j \in DOMAIN m.text : m.text[j] \in ToSet(Word(g, n))
      BY <3>2, <3>3
    <3> QED
      BY <2>4, <3>4 DEF ToSet
  <2>7. ASSUME Plain(g) PROVE Shown(m, g)
    <3>0. Clear(g, n)
      BY <2>4, <2>7 DEF Plain, Clear
    <3>1. IsPrefix(m.text, Sent(g))
      <4>1. PICK k \in 0..n : m.text = Word(g, k)
        BY <2>3, <3>0 DEF Begun
      <4>2. k \in Nat /\ k <= n
        BY <2>5, <4>1
      <4> QED
        BY <2>4, <2>5, <4>1, <4>2, WordPrefix
    <3>2. ASSUME g = gen, call[g].state = "done", queue = <<>> PROVE m.text = Sent(g)
      <4>1. Coming = base
        BY <3>2, NothingWaits
      <4>2. Whole(base, gen, n)
        BY <2>0, <2>3, <3>2, <4>1 DEF TalkInv, n
      <4>3. m.key = <<"assistant", g>>
        <5>1. m.key \in Keys /\ m.key[1] = "assistant" /\ m.key[2] = g
          BY <2>2 DEF Messages, IsAnswer, g
        <5> QED
          BY <5>1 DEF Keys, NoKey
      <4>4. Full(m.text, g, n)
        BY <2>2, <3>2, <4>2, <4>3 DEF Whole
      <4> QED
        BY <2>4, <3>0, <4>4 DEF Full
    <3> QED
      BY <3>1, <3>2 DEF Shown
  <2> QED
    BY <2>6, <2>7 DEF g
<1> QED BY <1>1, PageInvariance, PTL
=============================================================================
