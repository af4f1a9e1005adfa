---------------------------- MODULE Defer_proofs ----------------------------
(***************************************************************************)
(* Proofs about Defer, for every number of goroutines and values and every *)
(* depth of calls: what recover returns is the panic of its own call, and  *)
(* panics reach the callers that Go has them reach.                        *)
(***************************************************************************)
EXTENDS Defer, SequenceTheorems, TLAPS

-----------------------------------------------------------------------------
\* A stack of frames.
Stack(s) == s \in Seq(Frame) /\ Nested(s)

\* The frame whose deferred calls run, if any does.
Site(s) == IF IsTop(s, {"deferred"}) THEN Len(s) - 1 ELSE Len(s)

\* One panic is under way, v, or none if v is Nil: it is that of the frame at
\* Site, which handles it.
Unwinds(s, v) ==
    /\ \A i \in 1 .. Len(s) : s[i].panic = IF i = Site(s) THEN v ELSE Nil
    /\ v # Nil => ~Empty(s) /\ s[Site(s)].phase = "handler"

\* No panic is under way and no error handler is active.
Calm(s) == \A i \in 1 .. Len(s) : s[i].panic = Nil /\ s[i].phase # "handler"

\* Only the goroutine that runs can have a panic under way: it is the value
\* of the shared variable.
OneUnwinds ==
    /\ Unwinds(stack[cur], recoverVal)
    /\ \A g \in Go \ {cur} : Calm(stack[g])

IInv == TypeOK /\ (clean => OneUnwinds)

-----------------------------------------------------------------------------
\* Frames, and the stacks that the operations build.
LEMMA Frames ==
    ASSUME NEW f \in Frame
    PROVE  /\ f.phase \in {"body", "handler", "normal", "deferred"}
           /\ f.defers \in 0 .. MaxDefers
           /\ f.panic \in Value \cup {Nil}
           /\ f.phase = "deferred" => f.panic = Nil
BY BoundAssumption DEF Frame

LEMMA NewFrames == Called \in Frame /\ Running \in Frame
BY BoundAssumption DEF Called, Running, Frame

LEMMA Elements ==
    ASSUME NEW s, Stack(s)
    PROVE  /\ Len(s) \in Nat
           /\ \A i \in 1 .. Len(s) : s[i] \in Frame
           /\ ~Empty(s) => Top(s) \in Frame /\ Len(s) \in 1 .. Len(s)
           /\ IsTop(s, {"deferred"}) =>
                 /\ Len(s) > 1 /\ Under(s) \in Frame
                 /\ Under(s).phase \in {"handler", "normal"}
           /\ InCode(s) <=> ~IsTop(s, {"handler", "normal"})
<1>1. Len(s) \in Nat /\ \A i \in 1 .. Len(s) : s[i] \in Frame
  BY ElementOfSeq, LenProperties DEF Stack
<1>2. ~Empty(s) => Top(s) \in Frame /\ Len(s) \in 1 .. Len(s)
  BY <1>1 DEF Empty, Top
<1>3. ASSUME IsTop(s, {"deferred"})
      PROVE  /\ Len(s) > 1 /\ Under(s) \in Frame
             /\ Under(s).phase \in {"handler", "normal"}
  <2>1. Len(s) \in 1 .. Len(s) /\ s[Len(s)].phase = "deferred"
    BY <1>2, <1>3 DEF IsTop, Top
  <2>2. Len(s) > 1 /\ s[Len(s) - 1].phase \in {"handler", "normal"}
    BY <2>1 DEF Stack, Nested
  <2> QED
    BY <1>1, <2>2 DEF Under
<1>4. InCode(s) <=> ~IsTop(s, {"handler", "normal"})
  BY <1>2, Frames DEF InCode, IsTop
<1> QED
  BY <1>1, <1>2, <1>3, <1>4

\* The frame on top changes, but not from or to a deferred call.
WithTop(s, x) == [s EXCEPT ![Len(s)] = x]
SameKind(x, y) == x.phase = "deferred" <=> y.phase = "deferred"

LEMMA SetTop ==
    ASSUME NEW s, Stack(s), ~Empty(s), NEW x \in Frame, SameKind(x, Top(s)),
           NEW t, t = WithTop(s, x)
    PROVE  /\ Stack(t) /\ Len(t) = Len(s) /\ Top(t) = x
           /\ \A i \in 1 .. Len(s) : t[i] = IF i = Len(s) THEN x ELSE s[i]
<1>1. Len(s) \in Nat /\ Len(s) \in 1 .. Len(s) /\ s \in Seq(Frame)
  BY Elements DEF Stack
<1>2. t \in Seq(Frame) /\ Len(t) = Len(s)
  BY <1>1, ExceptSeq DEF WithTop
<1>3. \A i \in 1 .. Len(s) : t[i] = IF i = Len(s) THEN x ELSE s[i]
  BY <1>1, ExceptSeq DEF WithTop
<1>4. Nested(t)
  BY <1>1, <1>2, <1>3 DEF Stack, Nested, Top, SameKind
<1> QED
  BY <1>1, <1>2, <1>3, <1>4 DEF Stack, Top

LEMMA Popped ==
    ASSUME NEW s, Stack(s), ~Empty(s)
    PROVE  /\ Stack(Pop(s)) /\ Len(Pop(s)) = Len(s) - 1
           /\ \A i \in 1 .. Len(s) - 1 : Pop(s)[i] = s[i]
<1> DEFINE n == Len(s) - 1
           p == Pop(s)
<1>1. n \in Nat /\ \A i \in 1 .. n + 1 : s[i] \in Frame
  BY Elements DEF Empty
<1>2. p = SubSeq(s, 1, n)
  BY DEF Pop
<1>3. 1 \in Int /\ n \in Int /\ \A i \in 1 .. n : s[i] \in Frame
  BY <1>1
<1> HIDE DEF n, p
<1>4. /\ p \in Seq(Frame) /\ Len(p) = IF 1 <= n THEN n - 1 + 1 ELSE 0
      /\ \A i \in 1 .. n - 1 + 1 : p[i] = s[1 + i - 1]
  BY <1>2, <1>3, SubSeqProperties
<1>5. Len(p) = n
  BY <1>1, <1>4
<1>6. ASSUME NEW i \in 1 .. n PROVE p[i] = s[i]
  <2>1. i \in 1 .. n - 1 + 1 /\ 1 + i - 1 = i
    BY <1>1
  <2>2. p[i] = s[1 + i - 1]
    BY <1>4, <2>1
  <2> QED
    BY <2>1, <2>2
<1>7. Nested(p)
  <2>1. \A i \in 1 .. n : i \in 1 .. Len(s)
    BY <1>1 DEF n
  <2> QED
    BY <1>1, <1>5, <1>6, <2>1 DEF Stack, Nested
<1> QED
  BY <1>4, <1>5, <1>6, <1>7 DEF Stack, n, p

WithNew(s, x) == Append(s, x)
Follows(x, s) == x.phase = "deferred" <=> IsTop(s, {"handler", "normal"})

LEMMA Pushed ==
    ASSUME NEW s, Stack(s), NEW x \in Frame, Follows(x, s), NEW t, t = WithNew(s, x)
    PROVE  /\ Stack(t) /\ Len(t) = Len(s) + 1
           /\ \A i \in 1 .. Len(t) : t[i] = IF i = Len(t) THEN x ELSE s[i]
<1>1. Len(s) \in Nat /\ s \in Seq(Frame)
  BY Elements DEF Stack
<1>2. t \in Seq(Frame) /\ Len(t) = Len(s) + 1
  BY <1>1 DEF WithNew
<1>3. \A i \in 1 .. Len(t) : t[i] = IF i = Len(t) THEN x ELSE s[i]
  BY <1>1 DEF WithNew
<1>4. Nested(t)
  BY <1>1, <1>2, <1>3 DEF Stack, Nested, IsTop, Empty, Top, Follows
<1> QED
  BY <1>2, <1>3, <1>4 DEF Stack

\* An error thrown in code: what happens to the stack, and which panic is
\* under way, unless the code gets it wrong.
LEMMA ThrownUnwinds ==
    ASSUME NEW s, Stack(s), InCode(s), NEW v \in Value, NEW skipped \in BOOLEAN
    PROVE  /\ Stack(Thrown(s, v, skipped))
           /\ \A w : Unwinds(s, w) /\ ~ Mishandled(s, skipped)
                     => Unwinds(Thrown(s, v, skipped), v)
<1>1. CASE Empty(s)
  BY <1>1 DEF Thrown, Mishandled
<1>2. CASE IsTop(s, {"body"})
  <2> DEFINE x == [phase |-> "handler", defers |-> IF skipped THEN 0 ELSE Top(s).defers,
                   panic |-> v]
             t == Thrown(s, v, skipped)
  <2>1. ~Empty(s) /\ Top(s) \in Frame /\ Top(s).phase = "body"
    BY <1>2, Elements DEF IsTop
  <2>2. /\ x \in Frame /\ x.phase = "handler" /\ x.panic = v
        /\ SameKind(x, Top(s))
    BY <2>1, Frames, BoundAssumption DEF Frame, SameKind
  <2>3. t = WithTop(s, x)
    BY <2>1 DEF Thrown, WithTop
  <2> HIDE DEF x, t
  <2>4. /\ Stack(t) /\ Len(t) = Len(s) /\ Top(t) = x
        /\ \A i \in 1 .. Len(s) : t[i] = IF i = Len(s) THEN x ELSE s[i]
    BY <2>1, <2>2, <2>3, SetTop
  <2>5. Len(s) \in 1 .. Len(s) /\ Site(s) = Len(s) /\ Site(t) = Len(s) /\ ~Empty(t)
    BY <2>1, <2>2, <2>4, Elements DEF Site, IsTop, Empty
  <2>6. ASSUME NEW w, Unwinds(s, w) PROVE Unwinds(t, v)
    BY <2>2, <2>4, <2>5, <2>6 DEF Unwinds
  <2> QED
    BY <2>4, <2>6 DEF t
<1>3. CASE IsTop(s, {"deferred"})
  <2> DEFINE p == Pop(s)
             x == [Top(p) EXCEPT !.panic = v]
             t == Thrown(s, v, skipped)
  <2>1. /\ Len(s) \in Nat /\ Len(s) > 1 /\ ~Empty(s)
        /\ Under(s) \in Frame /\ Under(s).phase \in {"handler", "normal"}
        /\ Top(s).phase = "deferred"
    BY <1>3, Elements DEF IsTop
  <2>2. /\ Stack(p) /\ Len(p) = Len(s) - 1
        /\ \A i \in 1 .. Len(s) - 1 : p[i] = s[i]
    BY <2>1, Popped
  <2>3. Top(p) = Under(s) /\ ~Empty(p)
    BY <2>1, <2>2 DEF Top, Under, Empty
  <2>4. /\ x \in Frame /\ x.phase = Under(s).phase /\ x.panic = v
        /\ SameKind(x, Top(p))
    BY <2>1, <2>3 DEF Frame, SameKind
  <2>5. t = WithTop(p, x)
    BY <2>1, <2>2 DEF Thrown, Top, WithTop
  <2> HIDE DEF p, x, t
  <2>6. /\ Stack(t) /\ Len(t) = Len(p) /\ Top(t) = x
        /\ \A i \in 1 .. Len(p) : t[i] = IF i = Len(p) THEN x ELSE p[i]
    BY <2>1, <2>2, <2>3, <2>4, <2>5, SetTop
  <2>7. Site(s) = Len(s) - 1 /\ Site(t) = Len(s) - 1 /\ ~Empty(t)
    BY <1>3, <2>1, <2>2, <2>4, <2>6 DEF Site, IsTop, Empty
  <2>8. ASSUME NEW w, Unwinds(s, w), ~ Mishandled(s, skipped) PROVE Unwinds(t, v)
    <3>1. Under(s).phase = "handler"
      BY <1>3, <2>1, <2>8 DEF Mishandled
    <3>2. t[Site(t)] = x
      BY <2>1, <2>2, <2>6, <2>7
    <3>3. \A i \in 1 .. Len(t) : t[i].panic = IF i = Site(t) THEN v ELSE Nil
      BY <2>1, <2>2, <2>4, <2>6, <2>7, <2>8 DEF Unwinds
    <3> QED
      BY <2>4, <2>7, <3>1, <3>2, <3>3 DEF Unwinds
  <2> QED
    BY <2>6, <2>8 DEF t
<1> QED
  BY <1>1, <1>2, <1>3 DEF InCode, IsTop

-----------------------------------------------------------------------------
\* What each operation does to the stack s of the goroutine that runs while
\* the panic v is under way there.
LEMMA NothingUnderWay ==
    ASSUME NEW s, Stack(s), NEW v, Unwinds(s, v), InCode(s), ~IsTop(s, {"deferred"})
    PROVE  v = Nil
BY Elements DEF Unwinds, Site, InCode, IsTop, Top

LEMMA CallKeeps ==
    ASSUME NEW s, Stack(s), NEW v, InCode(s)
    PROVE  /\ Stack(Append(s, Called))
           /\ Unwinds(s, v) /\ ~(IsTop(s, {"deferred"}) /\ Under(s).panic # Nil)
                 => Unwinds(Append(s, Called), v)
<1> DEFINE t == Append(s, Called)
<1>1. Called \in Frame /\ Called.phase = "body" /\ Called.panic = Nil
  BY NewFrames DEF Called
<1>2. ~IsTop(s, {"handler", "normal"}) /\ Len(s) \in Nat
  BY Elements
<1> HIDE DEF t
<1>3. /\ Stack(t) /\ Len(t) = Len(s) + 1
      /\ \A i \in 1 .. Len(t) : t[i] = IF i = Len(t) THEN Called ELSE s[i]
  <2>1. Follows(Called, s)
    BY <1>1, <1>2 DEF Follows
  <2>2. t = WithNew(s, Called)
    BY DEF t, WithNew
  <2> QED
    BY <1>1, <2>1, <2>2, Pushed
<1>4. ASSUME Unwinds(s, v), ~(IsTop(s, {"deferred"}) /\ Under(s).panic # Nil)
      PROVE  Unwinds(t, v)
  <2>1. v = Nil
    <3>1. CASE IsTop(s, {"deferred"})
      <4>1. Len(s) > 1 /\ Site(s) = Len(s) - 1 /\ Under(s) = s[Site(s)]
        BY <3>1, Elements DEF Site, Under
      <4> QED
        BY <1>2, <1>4, <3>1, <4>1 DEF Unwinds
    <3>2. CASE ~IsTop(s, {"deferred"})
      BY <1>4, <3>2, NothingUnderWay
    <3> QED
      BY <3>1, <3>2
  <2>2. \A i \in 1 .. Len(s) : s[i].panic = Nil
    BY <1>4, <2>1 DEF Unwinds
  <2> QED
    BY <1>1, <1>2, <1>3, <2>1, <2>2 DEF Unwinds
<1> QED
  BY <1>3, <1>4 DEF t

\* A change of the frame on top that touches neither its panic nor, while a
\* panic is under way, its phase.
LEMMA SetTopKeeps ==
    ASSUME NEW s, Stack(s), ~Empty(s), NEW x \in Frame, SameKind(x, Top(s)),
           x.panic = Top(s).panic, NEW v
    PROVE  /\ Stack(WithTop(s, x))
           /\ Unwinds(s, v) /\ (v = Nil \/ x.phase = Top(s).phase)
                 => Unwinds(WithTop(s, x), v)
<1> DEFINE t == WithTop(s, x)
<1>1. Len(s) \in Nat /\ Len(s) \in 1 .. Len(s)
  BY Elements
<1> HIDE DEF t
<1>2. /\ Stack(t) /\ Len(t) = Len(s) /\ Top(t) = x
      /\ \A i \in 1 .. Len(s) : t[i] = IF i = Len(s) THEN x ELSE s[i]
  BY SetTop DEF t
<1>3. Site(t) = Site(s) /\ ~Empty(t)
  BY <1>2 DEF Site, IsTop, Empty, SameKind
<1>4. ASSUME Unwinds(s, v), v = Nil \/ x.phase = Top(s).phase PROVE Unwinds(t, v)
  <2>1. \A i \in 1 .. Len(t) : t[i].panic = IF i = Site(t) THEN v ELSE Nil
    BY <1>1, <1>2, <1>3, <1>4 DEF Unwinds, Top
  <2>2. CASE v = Nil
    BY <2>1, <2>2 DEF Unwinds
  <2>3. CASE v # Nil
    <3>1. s[Site(s)].phase = "handler" /\ x.phase = Top(s).phase
      BY <1>4, <2>3 DEF Unwinds
    <3>2. Site(s) \in 1 .. Len(s)
      BY <1>1, Elements DEF Site
    <3>3. t[Site(t)].phase = "handler"
      BY <1>2, <1>3, <3>1, <3>2 DEF Top
    <3> QED
      BY <1>3, <2>1, <3>3 DEF Unwinds
  <2> QED
    BY <2>2, <2>3
<1> QED
  BY <1>2, <1>4 DEF t

LEMMA PushKeeps ==
    ASSUME NEW s, Stack(s), IsTop(s, {"handler", "normal"}), NEW v
    PROVE  /\ Stack(Append(s, Running))
           /\ Unwinds(s, v) => Unwinds(Append(s, Running), v)
<1> DEFINE t == Append(s, Running)
<1>1. Running \in Frame /\ Running.phase = "deferred" /\ Running.panic = Nil
  BY NewFrames DEF Running
<1>2. Len(s) \in Nat /\ ~Empty(s) /\ Site(s) = Len(s)
  BY Elements DEF IsTop, Site
<1> HIDE DEF t
<1>3. /\ Stack(t) /\ Len(t) = Len(s) + 1
      /\ \A i \in 1 .. Len(t) : t[i] = IF i = Len(t) THEN Running ELSE s[i]
  <2>1. Follows(Running, s)
    BY <1>1 DEF Follows
  <2>2. t = WithNew(s, Running)
    BY DEF t, WithNew
  <2> QED
    BY <1>1, <2>1, <2>2, Pushed
<1>4. Site(t) = Len(s) /\ ~Empty(t) /\ Len(s) \in 1 .. Len(s)
  BY <1>1, <1>2, <1>3 DEF Site, IsTop, Top, Empty
<1>5. t[Site(t)] = s[Site(s)]
  BY <1>2, <1>3, <1>4
<1> QED
  BY <1>1, <1>2, <1>3, <1>4, <1>5 DEF Unwinds, t

\* A deferred call ends, or all deferred calls of a call have run and no
\* panic is under way.
LEMMA PopKeeps ==
    ASSUME NEW s, Stack(s), ~Empty(s), NEW v
    PROVE  /\ Stack(Pop(s))
           /\ Unwinds(s, v) /\ (IsTop(s, {"deferred"}) \/ v = Nil) => Unwinds(Pop(s), v)
<1> DEFINE p == Pop(s)
<1>1. Len(s) \in Nat /\ Len(s) > 0
  BY Elements DEF Empty
<1> HIDE DEF p
<1>2. /\ Stack(p) /\ Len(p) = Len(s) - 1
      /\ \A i \in 1 .. Len(s) - 1 : p[i] = s[i]
  BY Popped DEF p
<1>3. ASSUME Unwinds(s, v), IsTop(s, {"deferred"}) PROVE Unwinds(p, v)
  <2>1. /\ Len(s) > 1 /\ Under(s).phase \in {"handler", "normal"}
        /\ Site(s) = Len(s) - 1
    BY <1>3, Elements DEF Site
  <2>2. Site(p) = Len(s) - 1 /\ ~Empty(p)
    BY <1>1, <1>2, <2>1 DEF Site, IsTop, Top, Under, Empty
  <2> QED
    BY <1>1, <1>2, <1>3, <2>1, <2>2 DEF Unwinds
<1>4. ASSUME Unwinds(s, v), v = Nil PROVE Unwinds(p, v)
  BY <1>1, <1>2, <1>4 DEF Unwinds
<1> QED
  BY <1>2, <1>3, <1>4 DEF p

\* All deferred calls have run: what is on top next is code, and the panic
\* under way is that of the call.
LEMMA Rethrown ==
    ASSUME NEW s, Stack(s), IsTop(s, {"handler", "normal"}), NEW v
    PROVE  /\ InCode(Pop(s))
           /\ Unwinds(s, v) => Top(s).panic = v /\ Unwinds(Pop(s), Nil)
<1>1. /\ Len(s) \in Nat /\ Len(s) > 0 /\ ~Empty(s) /\ Site(s) = Len(s)
      /\ Top(s).phase \in {"handler", "normal"}
  BY Elements DEF IsTop, Empty, Site
<1> DEFINE p == Pop(s)
<1>2. /\ Stack(p) /\ Len(p) = Len(s) - 1
      /\ \A i \in 1 .. Len(s) - 1 : p[i] = s[i]
  BY <1>1, Popped
<1> HIDE DEF p
<1>3. ~IsTop(p, {"handler", "normal"})
  <2>1. Len(s) > 1 => ~(s[Len(s) - 1].phase \in {"handler", "normal"})
    BY <1>1 DEF Stack, Nested, Top
  <2> QED
    BY <1>1, <1>2, <2>1 DEF IsTop, Top, Empty
<1>4. ASSUME Unwinds(s, v) PROVE Top(s).panic = v /\ Unwinds(p, Nil)
  BY <1>1, <1>2, <1>4 DEF Unwinds, Top
<1> QED
  BY <1>2, <1>3, <1>4, Elements DEF p

Recovered(s) == [s EXCEPT ![Len(s) - 1] = [@ EXCEPT !.panic = Nil]]

LEMMA RecoverKeeps ==
    ASSUME NEW s, Stack(s), IsTop(s, {"deferred"})
    PROVE  /\ Stack(Recovered(s))
           /\ \A v : Unwinds(s, v) => Unwinds(Recovered(s), Nil)
<1> DEFINE t == Recovered(s)
           x == [Under(s) EXCEPT !.panic = Nil]
<1>1. /\ Len(s) \in Nat /\ Len(s) > 1 /\ s \in Seq(Frame) /\ Site(s) = Len(s) - 1
      /\ Under(s) \in Frame /\ Under(s).phase \in {"handler", "normal"}
  BY Elements DEF Stack, Site
<1>2. x \in Frame /\ x.phase = Under(s).phase /\ x.panic = Nil
  BY <1>1 DEF Frame
<1>3. t = [s EXCEPT ![Len(s) - 1] = x]
  BY <1>1 DEF Recovered, Under
<1> HIDE DEF t, x
<1>4. /\ t \in Seq(Frame) /\ Len(t) = Len(s)
      /\ \A i \in 1 .. Len(s) : t[i] = IF i = Len(s) - 1 THEN x ELSE s[i]
  BY <1>1, <1>2, <1>3, ExceptSeq
<1>5. \A i \in 1 .. Len(s) : t[i].phase = s[i].phase
  BY <1>1, <1>2, <1>4 DEF Under
<1>6. Nested(t)
  BY <1>1, <1>4, <1>5 DEF Stack, Nested
<1>7. ASSUME NEW v, Unwinds(s, v) PROVE Unwinds(t, Nil)
  BY <1>1, <1>2, <1>4, <1>7 DEF Unwinds
<1> QED
  BY <1>4, <1>6, <1>7 DEF Stack, t

-----------------------------------------------------------------------------
\* The goroutine that runs gets the stack t, and the panic under way there
\* is the new value of the shared variable, unless something went wrong.
LEMMA StepKeeps ==
    ASSUME IInv, NEW t, Stack(t), stack' = [stack EXCEPT ![cur] = t], cur' = cur,
           recoverVal' \in Value \cup {Nil}, clean' \in BOOLEAN,
           errerr' \in [Go -> BOOLEAN],
           clean' => clean /\ Unwinds(t, recoverVal')
    PROVE  IInv'
<1>1. TypeOK'
  BY DEF IInv, TypeOK, Stack
<1>2. ASSUME clean' PROVE OneUnwinds'
  <2>1. OneUnwinds /\ stack'[cur] = t /\ \A g \in Go \ {cur} : stack'[g] = stack[g]
    BY <1>2 DEF IInv, TypeOK
  <2>2. Unwinds(stack[cur], recoverVal)' <=> Unwinds(t, recoverVal')
    BY <2>1 DEF Unwinds, Empty, Site, IsTop, Top
  <2>3. \A g \in Go \ {cur} : Calm(stack[g])' <=> Calm(stack[g])
    BY <2>1 DEF Calm
  <2> QED
    BY <1>2, <2>1, <2>2, <2>3 DEF OneUnwinds
<1> QED
  BY <1>1, <1>2 DEF IInv

LEMMA Current ==
    ASSUME IInv
    PROVE  /\ Stack(stack[cur])
           /\ clean => Unwinds(stack[cur], recoverVal)
           /\ stack = [stack EXCEPT ![cur] = stack[cur]]
           /\ recoverVal \in Value \cup {Nil} /\ clean \in BOOLEAN
           /\ errerr \in [Go -> BOOLEAN]
BY DEF IInv, TypeOK, OneUnwinds, Stack

LEMMA InitIInv == Init => IInv
<1> SUFFICES ASSUME Init PROVE IInv
  OBVIOUS
<1>1. \A g \in Go : stack[g] \in Seq(Frame) /\ Len(stack[g]) = 0
  <2>1. <<>> \in Seq(Frame) /\ Len(<<>>) = 0
    BY EmptySeq
  <2> QED
    BY <2>1 DEF Init
<1>2. TypeOK
  BY <1>1 DEF Init, TypeOK, Nested
<1>3. OneUnwinds
  BY <1>1 DEF Init, OneUnwinds, Unwinds, Calm, Empty
<1> QED
  BY <1>2, <1>3 DEF IInv

LEMMA NextIInv == IInv /\ [Next]_vars => IInv'
<1> SUFFICES ASSUME IInv, [Next]_vars PROVE IInv'
  OBVIOUS
<1> DEFINE s == stack[cur]
<1>0. /\ Stack(s)
      /\ clean => Unwinds(s, recoverVal)
      /\ stack = [stack EXCEPT ![cur] = s]
      /\ recoverVal \in Value \cup {Nil} /\ clean \in BOOLEAN
      /\ stack \in [Go -> Seq(Frame)] /\ cur \in Go
      /\ errerr \in [Go -> BOOLEAN]
  BY Current DEF IInv, TypeOK
<1> HIDE DEF s
<1>1. CASE Call
  <2>1. /\ InCode(s) /\ stack' = [stack EXCEPT ![cur] = Append(s, Called)]
        /\ cur' = cur /\ recoverVal' = recoverVal /\ errerr' = errerr
        /\ clean' = (clean /\ ~(IsTop(s, {"deferred"}) /\ Under(s).panic # Nil))
    BY <1>1 DEF Call, s
  <2>2. /\ Stack(Append(s, Called))
        /\ clean' => Unwinds(Append(s, Called), recoverVal)
    BY <1>0, <2>1, CallKeeps
  <2> QED
    BY <1>0, <2>1, <2>2, StepKeeps
<1>2. CASE Defer
  <2> DEFINE x == [Top(s) EXCEPT !.defers = @ + 1]
  <2>1. /\ IsTop(s, {"body"}) /\ Top(s).defers < MaxDefers
        /\ cur' = cur /\ recoverVal' = recoverVal /\ errerr' = errerr /\ clean' = clean
        /\ stack' = [stack EXCEPT ![cur] = WithTop(s, x)]
    BY <1>0, <1>2 DEF Defer, s, Top, WithTop
  <2>2. ~Empty(s) /\ Top(s) \in Frame /\ Top(s).phase = "body"
    BY <1>0, <2>1, Elements DEF IsTop
  <2>3. /\ x \in Frame /\ SameKind(x, Top(s)) /\ x.panic = Top(s).panic
        /\ x.phase = Top(s).phase
    BY <2>1, <2>2, BoundAssumption DEF Frame, SameKind
  <2> HIDE DEF x
  <2>4. /\ Stack(WithTop(s, x))
        /\ clean => Unwinds(WithTop(s, x), recoverVal)
    BY <1>0, <2>2, <2>3, SetTopKeeps
  <2> QED
    BY <1>0, <2>1, <2>4, StepKeeps
<1>3. CASE Return
  <2> DEFINE x == [Top(s) EXCEPT !.phase = "normal"]
  <2>1. /\ IsTop(s, {"body"})
        /\ cur' = cur /\ recoverVal' = recoverVal /\ errerr' = errerr /\ clean' = clean
        /\ stack' = [stack EXCEPT ![cur] = WithTop(s, x)]
    BY <1>0, <1>3 DEF Return, s, Top, WithTop
  <2>2. ~Empty(s) /\ Top(s) \in Frame /\ Top(s).phase = "body"
    BY <1>0, <2>1, Elements DEF IsTop
  <2>3. x \in Frame /\ SameKind(x, Top(s)) /\ x.panic = Top(s).panic
    BY <2>2 DEF Frame, SameKind
  <2>4. clean => recoverVal = Nil
    BY <1>0, <2>1, <2>2, NothingUnderWay DEF InCode, IsTop
  <2> HIDE DEF x
  <2>5. /\ Stack(WithTop(s, x))
        /\ clean => Unwinds(WithTop(s, x), recoverVal)
    BY <1>0, <2>2, <2>3, <2>4, SetTopKeeps
  <2> QED
    BY <1>0, <2>1, <2>5, StepKeeps
<1>4. CASE BeginDeferred
  <2> DEFINE x == [Top(s) EXCEPT !.defers = @ - 1]
             r == WithTop(s, x)
  <2>1. /\ IsTop(s, {"handler", "normal"}) /\ Top(s).defers > 0
        /\ cur' = cur /\ recoverVal' = recoverVal /\ errerr' = errerr /\ clean' = clean
        /\ stack' = [stack EXCEPT ![cur] = Append(r, Running)]
    BY <1>0, <1>4 DEF BeginDeferred, s, Top, WithTop
  <2>2. ~Empty(s) /\ Top(s) \in Frame /\ Top(s).phase \in {"handler", "normal"}
    BY <1>0, <2>1, Elements DEF IsTop
  <2>3. /\ x \in Frame /\ SameKind(x, Top(s)) /\ x.panic = Top(s).panic
        /\ x.phase = Top(s).phase
    BY <2>1, <2>2, BoundAssumption DEF Frame, SameKind
  <2> HIDE DEF x
  <2>4. Stack(r) /\ (clean => Unwinds(r, recoverVal)) /\ Len(r) = Len(s) /\ Top(r) = x
    BY <1>0, <2>2, <2>3, SetTop, SetTopKeeps
  <2> HIDE DEF r
  <2>5. IsTop(r, {"handler", "normal"})
    BY <2>2, <2>3, <2>4 DEF IsTop, Empty
  <2>6. /\ Stack(Append(r, Running))
        /\ clean => Unwinds(Append(r, Running), recoverVal)
    BY <2>4, <2>5, PushKeeps
  <2> QED
    BY <1>0, <2>1, <2>6, StepKeeps
<1>5. CASE EndDeferred
  <2>1. /\ IsTop(s, {"deferred"}) /\ stack' = [stack EXCEPT ![cur] = Pop(s)]
        /\ cur' = cur /\ recoverVal' = recoverVal /\ errerr' = errerr /\ clean' = clean
    BY <1>5 DEF EndDeferred, s
  <2>2. Stack(Pop(s)) /\ (clean => Unwinds(Pop(s), recoverVal))
    BY <1>0, <2>1, PopKeeps DEF IsTop
  <2> QED
    BY <1>0, <2>1, <2>2, StepKeeps
<1>6. CASE Recover
  <2>1. /\ IsTop(s, {"deferred"}) /\ cur' = cur /\ recoverVal' = Nil /\ errerr' = errerr
        /\ clean' = clean
        /\ stack' = [stack EXCEPT ![cur] = Recovered(s)]
    BY <1>0, <1>6 DEF Recover, s, Recovered
  <2>2. Stack(Recovered(s)) /\ (clean => Unwinds(Recovered(s), Nil))
    BY <1>0, <2>1, RecoverKeeps
  <2> QED
    BY <1>0, <2>1, <2>2, StepKeeps
<1>7. CASE Finish
  <2>1. /\ IsTop(s, {"handler", "normal"}) /\ cur' = cur /\ recoverVal' = recoverVal
    BY <1>7 DEF Finish, s
  <2>2. Stack(Pop(s)) /\ InCode(Pop(s))
    BY <1>0, <2>1, PopKeeps, Rethrown DEF IsTop
  <2>3. CASE Throws(Top(s))
    <3>1. /\ recoverVal \in Value
          /\ stack' = [stack EXCEPT ![cur] = Thrown(Pop(s), recoverVal, FALSE)]
          /\ errerr' = [errerr EXCEPT ![cur] = IsTop(Pop(s), {"body"})]
          /\ clean' = (clean /\ ~ Mishandled(Pop(s), FALSE))
      BY <1>0, <1>7, <2>3 DEF Finish, s, Throws
    <3>2. clean => Unwinds(Pop(s), Nil)
      BY <1>0, <2>1, Rethrown
    <3>3. PICK t : t = Thrown(Pop(s), recoverVal, FALSE)
      OBVIOUS
    <3>4. Stack(t) /\ (clean' => Unwinds(t, recoverVal))
      BY <2>2, <3>1, <3>2, <3>3, ThrownUnwinds
    <3>5. errerr' \in [Go -> BOOLEAN]
      BY <1>0, <3>1 DEF IsTop
    <3> QED
      BY <1>0, <2>1, <3>1, <3>3, <3>4, <3>5, StepKeeps
  <2>4. CASE ~Throws(Top(s))
    <3>1. /\ stack' = [stack EXCEPT ![cur] = Pop(s)] /\ clean' = clean
          /\ errerr' \in [Go -> BOOLEAN]
      BY <1>0, <1>7, <2>4 DEF Finish, s
    <3>2. clean => recoverVal = Nil
      <4>1. Site(s) = Len(s) /\ Top(s).phase \in {"handler", "normal"}
        BY <2>1 DEF Site, IsTop
      <4> QED
        BY <1>0, <2>4, <4>1 DEF Unwinds, Throws, Top
    <3>3. clean => Unwinds(Pop(s), recoverVal)
      BY <1>0, <2>1, <3>2, PopKeeps DEF IsTop
    <3> QED
      BY <1>0, <2>1, <2>2, <3>1, <3>3, StepKeeps
  <2> QED
    BY <2>3, <2>4
<1>8. ASSUME NEW v \in Value, Throw(v),
             recoverVal' \in Value \cup {Nil}, clean' \in BOOLEAN,
             clean' => clean /\ ~ Mishandled(s, errerr[cur]) /\ recoverVal' = v
      PROVE  IInv'
  <2>1. PICK t : t = Thrown(s, v, errerr[cur])
    OBVIOUS
  <2>2. /\ InCode(s) /\ stack' = [stack EXCEPT ![cur] = t] /\ cur' = cur
        /\ errerr[cur] \in BOOLEAN
    BY <1>0, <1>8, <2>1 DEF Throw, s
  <2>3. errerr' \in [Go -> BOOLEAN]
    BY <1>0, <1>8 DEF Throw, IsTop
  <2>4. Stack(t) /\ (clean' => Unwinds(t, v))
    BY <1>0, <1>8, <2>1, <2>2, ThrownUnwinds
  <2> QED
    BY <1>0, <1>8, <2>2, <2>3, <2>4, StepKeeps
<1>11. ASSUME NEW v \in Value, Panic(v) PROVE IInv'
  <2>1. /\ Throw(v) /\ recoverVal' = v
        /\ clean' = (clean /\ ~ Mishandled(s, errerr[cur]))
    BY <1>11 DEF Panic, s
  <2> QED
    BY <1>0, <1>8, <2>1
<1>12. ASSUME NEW v \in Value, RuntimeError(v) PROVE IInv'
  <2>1. /\ Throw(v) /\ recoverVal' = IF errerr[cur] \/ Empty(s) THEN recoverVal ELSE v
        /\ clean' = (clean /\ ~ errerr[cur] /\ ~ Mishandled(s, FALSE))
    BY <1>12 DEF RuntimeError, s
  <2>2. clean' => clean /\ ~ Mishandled(s, errerr[cur]) /\ recoverVal' = v
    BY <1>0, <2>1 DEF Mishandled
  <2> QED
    BY <1>0, <1>8, <2>1, <2>2
<1>9. CASE Switch
  <2>1. /\ InCode(s) /\ \A i \in 1 .. Len(s) : s[i].phase # "handler"
        /\ cur' \in Go \ {cur}
        /\ stack' = stack /\ recoverVal' = recoverVal /\ errerr' = errerr /\ clean' = clean
    BY <1>9 DEF Switch, s
  <2>2. TypeOK'
    BY <2>1 DEF IInv, TypeOK
  <2>3. ASSUME clean PROVE OneUnwinds'
    <3>1. Unwinds(s, recoverVal) /\ \A g \in Go \ {cur} : Calm(stack[g])
      BY <1>0, <2>3 DEF IInv, OneUnwinds
    <3>2. recoverVal = Nil
      <4>1. ~Empty(s) => Site(s) \in 1 .. Len(s)
        BY <1>0, Elements DEF Site
      <4> QED
        BY <2>1, <3>1, <4>1 DEF Unwinds
    <3>3. Calm(s)
      BY <2>1, <3>1, <3>2 DEF Calm, Unwinds
    <3>4. \A g \in Go : Calm(stack[g])
      BY <3>1, <3>3 DEF s
    <3>5. Unwinds(stack[cur'], Nil)
      BY <2>1, <3>4 DEF Unwinds, Calm
    <3>6. Unwinds(stack[cur], recoverVal)'
      BY <2>1, <3>2, <3>5 DEF Unwinds, Empty, Site, IsTop, Top
    <3>7. \A g \in Go \ {cur'} : Calm(stack[g])'
      BY <2>1, <3>4 DEF Calm
    <3> QED
      BY <3>6, <3>7 DEF OneUnwinds
  <2> QED
    BY <2>1, <2>2, <2>3 DEF IInv
<1>10. CASE UNCHANGED vars
  <2>1. stack' = stack /\ recoverVal' = recoverVal /\ errerr' = errerr
        /\ cur' = cur /\ clean' = clean
    BY <1>10 DEF vars
  <2> QED
    BY <1>0, <2>1, StepKeeps
<1> QED
  BY <1>1, <1>2, <1>3, <1>4, <1>5, <1>6, <1>7, <1>9, <1>10, <1>11, <1>12 DEF Next

-----------------------------------------------------------------------------
LEMMA Invariance == Spec => []IInv
BY InitIInv, NextIInv, PTL DEF Spec

\* Frames are what __actuallyCall leaves on a stack, deferred calls run only
\* on top of calls that have left their body, and the variables have their
\* types (defer.lua:169-199).
THEOREM DeferTypeOK == Spec => []TypeOK
<1>1. IInv => TypeOK
  BY DEF IInv
<1> QED
  BY <1>1, Invariance, PTL

\* recover gives a deferred call the panic of the very call that deferred
\* it, although all calls of all goroutines share __recoverVal, until one of
\* the things happens that clean names; those are where LuaJIT skips an error
\* handler, too (defer.lua:33-53).
THEOREM RecoverOwn == Spec => []RecoverSeesOwn
<1>1. IInv => RecoverSeesOwn
  <2> SUFFICES ASSUME IInv, clean, IsTop(stack[cur], {"deferred"})
               PROVE  recoverVal = Under(stack[cur]).panic
    BY DEF RecoverSeesOwn
  <2> DEFINE s == stack[cur]
  <2>1. Stack(s) /\ Unwinds(s, recoverVal)
    BY Current
  <2> HIDE DEF s
  <2>2. IsTop(s, {"deferred"})
    BY DEF s
  <2>3. Len(s) \in Nat /\ Len(s) > 1 /\ Site(s) = Len(s) - 1
    BY <2>1, <2>2, Elements DEF Site
  <2>4. Under(s).panic = recoverVal
    BY <2>1, <2>3 DEF Unwinds, Under
  <2> QED
    BY <2>4 DEF s
<1> QED
  BY <1>1, Invariance, PTL

\* No panic is lost or raised twice on its way from the throw to the recover
\* until one of the things happens that clean names (defer.lua:73-163).
THEOREM Propagation == Spec => []PanicsPropagate
<1>1. IInv => PanicsPropagate
  <2> SUFFICES ASSUME IInv, clean, IsTop(stack[cur], {"handler", "normal"})
               PROVE  Throws(Top(stack[cur])) <=> Top(stack[cur]).panic # Nil
    BY DEF PanicsPropagate
  <2> DEFINE s == stack[cur]
  <2>1. Stack(s) /\ Unwinds(s, recoverVal)
    BY Current
  <2> HIDE DEF s
  <2>2. IsTop(s, {"handler", "normal"})
    BY DEF s
  <2>3. Top(s).panic = recoverVal
    BY <2>1, <2>2, Rethrown
  <2>4. recoverVal # Nil => Top(s).phase = "handler"
    <3>1. Site(s) = Len(s)
      BY <2>2 DEF Site, IsTop
    <3> QED
      BY <2>1, <3>1 DEF Unwinds, Top
  <2>5. Throws(Top(s)) <=> Top(s).panic # Nil
    BY <2>3, <2>4 DEF Throws
  <2> QED
    BY <2>5 DEF s
<1> QED
  BY <1>1, Invariance, PTL
=============================================================================
