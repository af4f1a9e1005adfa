-------------------------- MODULE TypeGraph_proofs --------------------------
(***************************************************************************)
(* Proofs about TypeGraph, for any set of types: the graph stays free of   *)
(* cycles, only edges that complete one are refused, an order that is not  *)
(* stale is topological, and code is written after what it depends on.     *)
(*                                                                         *)
(* The argument is that of depth-first search. Inv says what its stack is  *)
(* (a path, whose calls have finished the children they looked at) and     *)
(* what the finished nodes are (free of cycles, closed under children).    *)
(***************************************************************************)
EXTENDS TypeGraph, SequenceTheorems, TLAPS

Frame == [node : Node, next : Nat \ {0}]

NodesOf(st) == {st[i].node : i \in DOMAIN st}

\* st is a path of the graph without repetition, its nodes are marked, and of
\* every call on it the children that were looked at are done, or are further
\* up on the stack.
StackOK(st, kids, marked) ==
    /\ \A i \in 1 .. Len(st) : st[i].next <= Len(kids[st[i].node]) + 1
    /\ \A i, j \in 1 .. Len(st) : st[i].node = st[j].node => i = j
    /\ \A i \in 1 .. Len(st) - 1 : st[i + 1].node \in Elems(kids[st[i].node])
    /\ NodesOf(st) \subseteq marked
    /\ \A i \in 1 .. Len(st) : \A k \in 1 .. st[i].next - 1 :
          \/ kids[st[i].node][k] \in marked \ NodesOf(st)
          \/ \E j \in i + 1 .. Len(st) : st[j].node = kids[st[i].node][k]
-----------------------------------------------------------------------------
(***************************************************************************)
(* Sequences                                                               *)
(***************************************************************************)

\* What a sequence contains after an element was appended (dfsOrder, dfsNodes).
LEMMA AppendElems ==
    ASSUME NEW S, NEW s \in Seq(S), NEW x \in S
    PROVE  /\ Append(s, x) \in Seq(S)
           /\ Elems(Append(s, x)) = Elems(s) \cup {x}
           /\ Injective(s) /\ x \notin Elems(s) => Injective(Append(s, x))
<1> DEFINE t == Append(s, x)
<1>1. /\ t \in Seq(S)
      /\ Len(t) = Len(s) + 1
      /\ \A i \in 1 .. Len(s) : t[i] = s[i]
      /\ t[Len(s) + 1] = x
      /\ Len(s) \in Nat
  BY AppendProperties, LenProperties
<1>2. DOMAIN t = 1 .. Len(s) + 1 /\ DOMAIN s = 1 .. Len(s)
  BY <1>1, LenProperties
<1> HIDE DEF t
<1>3. Elems(t) = Elems(s) \cup {x}
  BY <1>1, <1>2 DEF Elems
<1>4. ASSUME Injective(s), x \notin Elems(s)  PROVE  Injective(t)
  <2> SUFFICES ASSUME NEW i \in 1 .. Len(s) + 1, NEW j \in 1 .. Len(s) + 1, t[i] = t[j]
               PROVE  i = j
    BY <1>2 DEF Injective
  <2>1. CASE i \in 1 .. Len(s) /\ j \in 1 .. Len(s)
    BY <2>1, <1>1, <1>2, <1>4 DEF Injective
  <2>2. CASE i = Len(s) + 1 /\ j \in 1 .. Len(s)
    BY <2>2, <1>1, <1>2, <1>4 DEF Elems
  <2>3. CASE j = Len(s) + 1 /\ i \in 1 .. Len(s)
    BY <2>3, <1>1, <1>2, <1>4 DEF Elems
  <2> QED  BY <2>1, <2>2, <2>3, <1>1
<1> QED  BY <1>1, <1>3, <1>4 DEF t

\* What is left of a sequence of roots after the first was taken.
LEMMA TailElems ==
    ASSUME NEW S, NEW s \in Seq(S), s # <<>>
    PROVE  /\ Head(s) \in S
           /\ Tail(s) \in Seq(S)
           /\ Elems(s) = {Head(s)} \cup Elems(Tail(s))
<1>1. /\ Head(s) \in S
      /\ Tail(s) \in Seq(S)
      /\ Len(Tail(s)) = Len(s) - 1
      /\ \A i \in 1 .. Len(Tail(s)) : Tail(s)[i] = s[i + 1]
  BY HeadTailProperties
<1>2. Head(s) = s[1] /\ Len(s) \in Nat \ {0}
  BY EmptySeq, LenProperties
<1>3. DOMAIN s = 1 .. Len(s) /\ DOMAIN Tail(s) = 1 .. Len(s) - 1
  BY <1>1, <1>2, LenProperties
<1>4. ASSUME NEW i \in 1 .. Len(s)  PROVE  s[i] = s[1] \/ \E j \in 1 .. Len(s) - 1 : s[i] = Tail(s)[j]
  <2>1. CASE i = 1  BY <2>1
  <2>2. CASE i > 1
    <3>1. i - 1 \in 1 .. Len(s) - 1 /\ (i - 1) + 1 = i  BY <2>2, <1>2
    <3> QED  BY <3>1, <1>1
  <2> QED  BY <2>1, <2>2
<1>5. ASSUME NEW j \in 1 .. Len(s) - 1  PROVE  \E i \in 1 .. Len(s) : s[i] = Tail(s)[j]
  BY <1>1, <1>2
<1>6. 1 \in 1 .. Len(s)  BY <1>2
<1>7. /\ Elems(s) = {s[i] : i \in 1 .. Len(s)}
      /\ Elems(Tail(s)) = {Tail(s)[j] : j \in 1 .. Len(s) - 1}
  BY <1>3 DEF Elems
<1>8. Elems(s) \subseteq {s[1]} \cup Elems(Tail(s))
  BY <1>4, <1>7
<1>9. {s[1]} \cup Elems(Tail(s)) \subseteq Elems(s)
  BY <1>5, <1>6, <1>7
<1> QED  BY <1>1, <1>2, <1>8, <1>9

\* What is left of a sequence without its last element (a stack after the
\* innermost call, the children after the new edge was backed out).
LEMMA FrontFacts ==
    ASSUME NEW S, NEW s \in Seq(S), s # <<>>
    PROVE  LET f == SubSeq(s, 1, Len(s) - 1)
           IN  /\ f \in Seq(S)
               /\ Len(f) = Len(s) - 1
               /\ Len(s) \in Nat /\ Len(s) >= 1
               /\ \A i \in 1 .. Len(s) - 1 : f[i] = s[i]
               /\ Elems(f) \subseteq Elems(s)
               /\ Injective(s) => Injective(f)
<1> DEFINE f == SubSeq(s, 1, Len(s) - 1)
<1>1. Len(s) \in Nat /\ Len(s) >= 1  BY EmptySeq, LenProperties
<1>2. \A i \in 1 .. Len(s) - 1 : s[i] \in S
  BY <1>1, ElementOfSeq
<1>3. /\ f \in Seq(S)
      /\ Len(f) = IF 1 <= Len(s) - 1 THEN (Len(s) - 1) - 1 + 1 ELSE 0
      /\ \A i \in 1 .. (Len(s) - 1) - 1 + 1 : f[i] = s[1 + i - 1]
  <2>1. 1 \in Int /\ Len(s) - 1 \in Int /\ \A i \in 1 .. Len(s) - 1 : s[i] \in S
    BY <1>1, <1>2
  <2> QED  BY <2>1, <1>1, SubSeqProperties
<1> HIDE DEF f
<1>4. Len(f) = Len(s) - 1 /\ \A i \in 1 .. Len(s) - 1 : f[i] = s[i]
  <2>1. Len(f) = Len(s) - 1
    <3>1. ASSUME NEW n \in Nat, n >= 1, NEW m, m = IF 1 <= n - 1 THEN (n - 1) - 1 + 1 ELSE 0
          PROVE  m = n - 1
      BY <3>1
    <3> QED  BY <3>1, <1>1, <1>3
  <2>2. ASSUME NEW i \in 1 .. Len(s) - 1  PROVE  f[i] = s[i]
    <3>1. i \in 1 .. (Len(s) - 1) - 1 + 1 /\ 1 + i - 1 = i  BY <1>1
    <3> QED  BY <3>1, <1>3
  <2> QED  BY <2>1, <2>2
<1>5. DOMAIN f = 1 .. Len(s) - 1 /\ DOMAIN s = 1 .. Len(s)
  BY <1>3, <1>4, LenProperties
<1>6. Elems(f) \subseteq Elems(s)
  BY <1>1, <1>4, <1>5 DEF Elems
<1>7. Injective(s) => Injective(f)
  BY <1>1, <1>4, <1>5 DEF Injective
<1> QED  BY <1>1, <1>3, <1>4, <1>6, <1>7 DEF f

\* Appending an edge and taking out the last one gives the children back.
LEMMA BackOut ==
    ASSUME NEW S, NEW s \in Seq(S), NEW x \in S
    PROVE  /\ SubSeq(Append(s, x), 1, Len(Append(s, x)) - 1) = s
           /\ Append(s, x) # <<>>
<1>1. Append(s, x) \in Seq(S) /\ Append(s, x) # <<>> /\ Len(Append(s, x)) = Len(s) + 1
  BY AppendProperties
<1> DEFINE f == SubSeq(Append(s, x), 1, Len(Append(s, x)) - 1)
<1>2. /\ f \in Seq(S)
      /\ Len(f) = Len(Append(s, x)) - 1
      /\ \A i \in 1 .. Len(Append(s, x)) - 1 : f[i] = Append(s, x)[i]
  BY <1>1, FrontFacts
<1>3. Len(f) = Len(s) /\ \A i \in 1 .. Len(s) : f[i] = s[i]
  BY <1>1, <1>2, AppendProperties, LenProperties
<1> HIDE DEF f
<1>4. f = s  BY <1>2, <1>3, SeqEqual
<1> QED  BY <1>1, <1>4 DEF f
-----------------------------------------------------------------------------
(***************************************************************************)
(* The stack of the search                                                 *)
(***************************************************************************)

\* st2 is st after the innermost call went on to its next child.
WentOn(st, st2, kids, n) ==
    LET L == Len(st)
    IN  /\ \A i \in 1 .. L : st2[i].node = st[i].node
        /\ \A i \in 1 .. L - 1 : st2[i].next = st[i].next
        /\ L >= 1 => /\ st2[L].next = st[L].next + 1
                     /\ st[L].next <= Len(kids[st[L].node])
                     /\ kids[st[L].node][st[L].next] = n

\* st2 is st after that, with a call for n on top.
Pushed(st, st2, kids, n) ==
    /\ WentOn(st, st2, kids, n)
    /\ Len(st2) = Len(st) + 1
    /\ st2[Len(st) + 1].node = n
    /\ st2[Len(st) + 1].next = 1

\* st2 is st without the innermost call, the L-th, which has no more children.
Popped(st, st2, kids, L) ==
    /\ L >= 1 /\ Len(st) = L /\ Len(st2) = L - 1
    /\ \A i \in 1 .. L - 1 : st2[i] = st[i]
    /\ st[L].next > Len(kids[st[L].node])

\* The marked nodes before and after n was marked.
Marks(marked, marked2, n) == n \notin marked /\ marked2 = marked \cup {n}

\* What the elements of a stack are.
LEMMA FrameFacts ==
    ASSUME NEW st \in Seq(Frame)
    PROVE  /\ Len(st) \in Nat
           /\ DOMAIN st = 1 .. Len(st)
           /\ \A i \in 1 .. Len(st) :
                 st[i] \in Frame /\ st[i].node \in Node /\ st[i].next \in Nat /\ st[i].next >= 1
<1>1. Len(st) \in Nat /\ DOMAIN st = 1 .. Len(st)  BY LenProperties
<1>2. ASSUME NEW i \in 1 .. Len(st)  PROVE  st[i] \in Frame
  BY ElementOfSeq
<1>3. \A f \in Frame : f.node \in Node /\ f.next \in Nat /\ f.next >= 1
  BY DEF Frame
<1> QED  BY <1>1, <1>2, <1>3

\* Entering a root, or a child that is not marked: the node is on the path and
\* the finished nodes stay the same (Enter).
LEMMA Push ==
    ASSUME NEW st \in Seq(Frame), NEW st2 \in Seq(Frame), NEW kids \in [Node -> Seq(Node)],
           NEW marked, NEW marked2, NEW n \in Node,
           Marks(marked, marked2, n),
           StackOK(st, kids, marked),
           Pushed(st, st2, kids, n)
    PROVE  /\ StackOK(st2, kids, marked2)
           /\ marked2 \ NodesOf(st2) = marked \ NodesOf(st)
<1>1. PICK L \in Nat : L = Len(st)  BY FrameFacts
<1>2. /\ Len(st2) = L + 1 /\ DOMAIN st = 1 .. L /\ DOMAIN st2 = 1 .. L + 1
      /\ \A i \in 1 .. L : st[i].node \in Node /\ st[i].next \in Nat /\ st[i].next >= 1
  BY <1>1, FrameFacts DEF Pushed
<1>3. st2[L + 1].node = n /\ st2[L + 1].next = 1
  BY <1>1 DEF Pushed
<1>4. /\ \A i \in 1 .. L : st2[i].node = st[i].node
      /\ \A i \in 1 .. L - 1 : st2[i].next = st[i].next
      /\ L >= 1 => /\ st2[L].next = st[L].next + 1
                   /\ st[L].next <= Len(kids[st[L].node])
                   /\ kids[st[L].node][st[L].next] = n
  BY <1>1 DEF Pushed, WentOn
<1>5. /\ NodesOf(st) = {st[i].node : i \in 1 .. L}
      /\ NodesOf(st2) = {st2[i].node : i \in 1 .. L + 1}
  BY <1>2 DEF NodesOf
<1>6. NodesOf(st2) = NodesOf(st) \cup {n}
  <2>1. {st2[i].node : i \in 1 .. L} = {st[i].node : i \in 1 .. L}  BY <1>4
  <2>2. 1 .. L + 1 = (1 .. L) \cup {L + 1}  OBVIOUS
  <2>3. {st2[i].node : i \in 1 .. L + 1} = {st2[i].node : i \in 1 .. L} \cup {st2[L + 1].node}
    BY <2>2
  <2> QED  BY <2>1, <2>3, <1>3, <1>5
<1>7. NodesOf(st) \subseteq marked /\ n \notin NodesOf(st)
  BY DEF StackOK, Marks
<1>8. marked2 \ NodesOf(st2) = marked \ NodesOf(st)
  BY <1>6, <1>7 DEF Marks
<1>9. StackOK(st2, kids, marked2)
  <2>1. ASSUME NEW i \in 1 .. L + 1  PROVE  st2[i].next <= Len(kids[st2[i].node]) + 1
    <3>0. \A m \in Node : Len(kids[m]) \in Nat  BY LenProperties
    <3>1. CASE i \in 1 .. L - 1
      <4>1. st[i].next <= Len(kids[st[i].node]) + 1  BY <3>1, <1>1 DEF StackOK
      <4>2. st2[i].node = st[i].node /\ st2[i].next = st[i].next  BY <3>1, <1>4
      <4> QED  BY <4>1, <4>2
    <3>2. CASE i = L /\ L >= 1
      <4>1. L \in 1 .. L /\ st[L].node \in Node /\ st[L].next \in Nat  BY <3>2, <1>2
      <4>2. /\ st2[L].next = st[L].next + 1 /\ st2[L].node = st[L].node
            /\ st[L].next <= Len(kids[st[L].node])
        BY <3>2, <4>1, <1>4
      <4>3. Len(kids[st[L].node]) \in Nat  BY <3>0, <4>1
      <4> QED  BY <3>2, <4>1, <4>2, <4>3
    <3>3. CASE i = L + 1  BY <3>0, <3>3, <1>3
    <3> QED  BY <3>1, <3>2, <3>3
  <2>2. ASSUME NEW i \in 1 .. L + 1, NEW j \in 1 .. L + 1, st2[i].node = st2[j].node
        PROVE  i = j
    <3>1. CASE i \in 1 .. L /\ j \in 1 .. L
      BY <3>1, <2>2, <1>1, <1>4 DEF StackOK
    <3>2. CASE i = L + 1 /\ j \in 1 .. L
      BY <3>2, <2>2, <1>3, <1>4, <1>5, <1>7
    <3>3. CASE j = L + 1 /\ i \in 1 .. L
      BY <3>3, <2>2, <1>3, <1>4, <1>5, <1>7
    <3> QED  BY <3>1, <3>2, <3>3
  <2>3. ASSUME NEW i \in 1 .. L  PROVE  st2[i + 1].node \in Elems(kids[st2[i].node])
    <3>1. CASE i \in 1 .. L - 1
      <4>1. st[i + 1].node \in Elems(kids[st[i].node])  BY <3>1, <1>1 DEF StackOK
      <4>2. i + 1 \in 1 .. L  BY <3>1
      <4> QED  BY <4>1, <4>2, <1>4
    <3>2. CASE i = L
      <4>1. L \in 1 .. L  BY <3>2
      <4>2. st[L].node \in Node /\ st[L].next \in Nat /\ st[L].next >= 1  BY <4>1, <1>2
      <4>3. kids[st[L].node] \in Seq(Node)  BY <4>2
      <4>4. /\ DOMAIN kids[st[L].node] = 1 .. Len(kids[st[L].node])
            /\ Len(kids[st[L].node]) \in Nat
        BY <4>3, LenProperties
      <4>5. st[L].next \in DOMAIN kids[st[L].node]  BY <4>1, <4>2, <4>4, <1>4
      <4>6. n \in Elems(kids[st[L].node])  BY <4>1, <4>5, <1>4 DEF Elems
      <4> QED  BY <3>2, <4>1, <4>6, <1>3, <1>4
    <3> QED  BY <3>1, <3>2
  <2>4. NodesOf(st2) \subseteq marked2
    BY <1>6, <1>7 DEF Marks
  <2>5. ASSUME NEW i \in 1 .. L + 1, NEW k \in 1 .. st2[i].next - 1
        PROVE  \/ kids[st2[i].node][k] \in marked \ NodesOf(st)
               \/ \E j \in i + 1 .. L + 1 : st2[j].node = kids[st2[i].node][k]
    <3>1. CASE i \in 1 .. L /\ k \in 1 .. st[i].next - 1
      <4>1. \/ kids[st[i].node][k] \in marked \ NodesOf(st)
            \/ \E j \in i + 1 .. L : st[j].node = kids[st[i].node][k]
        BY <3>1, <1>1 DEF StackOK
      <4>2. \A j \in i + 1 .. L : j \in 1 .. L /\ j \in i + 1 .. L + 1  BY <3>1
      <4> QED  BY <3>1, <4>1, <4>2, <1>4
    <3>2. CASE i = L /\ L >= 1 /\ k = st[L].next
      <4>1. L + 1 \in i + 1 .. L + 1 /\ L \in 1 .. L  BY <3>2
      <4>2. st2[L + 1].node = kids[st2[i].node][k]  BY <3>2, <4>1, <1>3, <1>4
      <4> QED  BY <4>1, <4>2
    <3>3. CASE i = L + 1
      <4>1. 1 .. st2[i].next - 1 = {}  BY <3>3, <1>3
      <4> QED  BY <4>1
    <3>4. \/ i \in 1 .. L /\ k \in 1 .. st[i].next - 1
          \/ i = L /\ L >= 1 /\ k = st[L].next
          \/ i = L + 1
      <4>1. CASE i \in 1 .. L - 1
        <5>1. st2[i].next = st[i].next /\ i \in 1 .. L  BY <4>1, <1>4
        <5> QED  BY <5>1
      <4>2. CASE i = L /\ L >= 1
        <5>1. st2[L].next = st[L].next + 1 /\ st[L].next \in Nat  BY <4>2, <1>2, <1>4
        <5> QED  BY <4>2, <5>1
      <4>3. CASE i = L + 1  BY <4>3
      <4> QED  BY <4>1, <4>2, <4>3
    <3> QED  BY <3>1, <3>2, <3>3, <3>4
  <2>6. \A i \in 1 .. Len(st2) : st2[i].next <= Len(kids[st2[i].node]) + 1
    BY <2>1, <1>2
  <2>7. \A i, j \in 1 .. Len(st2) : st2[i].node = st2[j].node => i = j
    BY <2>2, <1>2
  <2>8. \A i \in 1 .. Len(st2) - 1 : st2[i + 1].node \in Elems(kids[st2[i].node])
    <3>1. Len(st2) - 1 = L  BY <1>2
    <3> QED  BY <2>3, <3>1
  <2>9. \A i \in 1 .. Len(st2) : \A k \in 1 .. st2[i].next - 1 :
          \/ kids[st2[i].node][k] \in marked2 \ NodesOf(st2)
          \/ \E j \in i + 1 .. Len(st2) : st2[j].node = kids[st2[i].node][k]
    BY <2>5, <1>2, <1>8
  <2> QED  BY <2>4, <2>6, <2>7, <2>8, <2>9 DEF StackOK
<1> QED  BY <1>8, <1>9

\* Going on past a child that has been finished (Enter of a marked node).
LEMMA Skip ==
    ASSUME NEW st \in Seq(Frame), NEW st2 \in Seq(Frame), NEW kids \in [Node -> Seq(Node)],
           NEW marked, NEW n \in marked \ NodesOf(st),
           StackOK(st, kids, marked),
           WentOn(st, st2, kids, n),
           Len(st2) = Len(st)
    PROVE  /\ StackOK(st2, kids, marked)
           /\ NodesOf(st2) = NodesOf(st)
<1>1. PICK L \in Nat : L = Len(st)  BY FrameFacts
<1>2. /\ Len(st2) = L /\ DOMAIN st = 1 .. L /\ DOMAIN st2 = 1 .. L
      /\ \A i \in 1 .. L : st[i].node \in Node /\ st[i].next \in Nat /\ st[i].next >= 1
  BY <1>1, FrameFacts
<1>3. /\ \A i \in 1 .. L : st2[i].node = st[i].node
      /\ \A i \in 1 .. L - 1 : st2[i].next = st[i].next
      /\ L >= 1 => /\ st2[L].next = st[L].next + 1
                   /\ st[L].next <= Len(kids[st[L].node])
                   /\ kids[st[L].node][st[L].next] = n
  BY <1>1 DEF WentOn
<1>4. /\ NodesOf(st) = {st[i].node : i \in 1 .. L}
      /\ NodesOf(st2) = {st2[i].node : i \in 1 .. L}
  BY <1>2 DEF NodesOf
<1>5. NodesOf(st2) = NodesOf(st)
  <2>1. {st2[i].node : i \in 1 .. L} = {st[i].node : i \in 1 .. L}  BY <1>3
  <2> QED  BY <2>1, <1>4
<1>6. \A m \in Node : Len(kids[m]) \in Nat  BY LenProperties
<1>7. ASSUME NEW i \in 1 .. L  PROVE  st2[i].next <= Len(kids[st2[i].node]) + 1
  <2>1. CASE i \in 1 .. L - 1
    <3>1. st[i].next <= Len(kids[st[i].node]) + 1  BY <2>1, <1>1 DEF StackOK
    <3>2. st2[i].node = st[i].node /\ st2[i].next = st[i].next  BY <2>1, <1>3
    <3> QED  BY <3>1, <3>2
  <2>2. CASE i = L
    <3>1. L \in 1 .. L /\ st[L].node \in Node /\ st[L].next \in Nat  BY <2>2, <1>2
    <3> QED  BY <1>6, <2>2, <3>1, <1>3
  <2> QED  BY <2>1, <2>2
<1>8. \A i, j \in 1 .. L : st2[i].node = st2[j].node => i = j
  BY <1>1, <1>3 DEF StackOK
<1>9. ASSUME NEW i \in 1 .. L - 1  PROVE  st2[i + 1].node \in Elems(kids[st2[i].node])
  <2>1. st[i + 1].node \in Elems(kids[st[i].node])  BY <1>1 DEF StackOK
  <2>2. i + 1 \in 1 .. L /\ i \in 1 .. L  OBVIOUS
  <2> QED  BY <2>1, <2>2, <1>3
<1>10. NodesOf(st2) \subseteq marked  BY <1>5 DEF StackOK
<1>11. ASSUME NEW i \in 1 .. L, NEW k \in 1 .. st2[i].next - 1
       PROVE  \/ kids[st2[i].node][k] \in marked \ NodesOf(st)
              \/ \E j \in i + 1 .. L : st2[j].node = kids[st2[i].node][k]
  <2>1. CASE k \in 1 .. st[i].next - 1
    <3>1. \/ kids[st[i].node][k] \in marked \ NodesOf(st)
          \/ \E j \in i + 1 .. L : st[j].node = kids[st[i].node][k]
      BY <2>1, <1>1 DEF StackOK
    <3>2. \A j \in i + 1 .. L : j \in 1 .. L  OBVIOUS
    <3> QED  BY <3>1, <3>2, <1>3
  <2>2. CASE i = L /\ k = st[L].next
    BY <2>2, <1>3
  <2>3. CASE i \in 1 .. L - 1
    BY <2>1, <2>3, <1>3
  <2>4. CASE i = L
    <3>1. st2[L].next = st[L].next + 1 /\ st[L].next \in Nat  BY <2>4, <1>2, <1>3
    <3> QED  BY <2>1, <2>2, <2>4, <3>1
  <2> QED  BY <2>3, <2>4
<1>12. \A i \in 1 .. Len(st2) : st2[i].next <= Len(kids[st2[i].node]) + 1
  BY <1>7, <1>2
<1>13. \A i, j \in 1 .. Len(st2) : st2[i].node = st2[j].node => i = j
  BY <1>8, <1>2
<1>14. \A i \in 1 .. Len(st2) - 1 : st2[i + 1].node \in Elems(kids[st2[i].node])
  BY <1>9, <1>2
<1>15. \A i \in 1 .. Len(st2) : \A k \in 1 .. st2[i].next - 1 :
         \/ kids[st2[i].node][k] \in marked \ NodesOf(st2)
         \/ \E j \in i + 1 .. Len(st2) : st2[j].node = kids[st2[i].node][k]
  BY <1>11, <1>2, <1>5
<1> QED  BY <1>5, <1>10, <1>12, <1>13, <1>14, <1>15 DEF StackOK

\* The end of the innermost call: its node is finished, after its children
\* (Finish).
LEMMA Pop ==
    ASSUME NEW st \in Seq(Frame), NEW st2 \in Seq(Frame), NEW kids \in [Node -> Seq(Node)],
           NEW marked, NEW L \in Nat,
           StackOK(st, kids, marked),
           Popped(st, st2, kids, L)
    PROVE  /\ StackOK(st2, kids, marked)
           /\ st[L].node \in Node
           /\ st[L].node \in NodesOf(st)
           /\ Elems(kids[st[L].node]) \subseteq marked \ NodesOf(st)
           /\ marked \ NodesOf(st2) = (marked \ NodesOf(st)) \cup {st[L].node}
<1> DEFINE top == st[L].node
<1> USE DEF Popped
<1>1. /\ DOMAIN st = 1 .. L /\ DOMAIN st2 = 1 .. L - 1
      /\ \A i \in 1 .. L : st[i].node \in Node /\ st[i].next \in Nat /\ st[i].next >= 1
  BY FrameFacts
<1>2. L \in 1 .. L /\ top \in Node  BY <1>1
<1>3. /\ NodesOf(st) = {st[i].node : i \in 1 .. L}
      /\ NodesOf(st2) = {st2[i].node : i \in 1 .. L - 1}
  BY <1>1 DEF NodesOf
<1>4. \A i, j \in 1 .. L : st[i].node = st[j].node => i = j  BY DEF StackOK
<1>5. NodesOf(st) \subseteq marked  BY DEF StackOK
<1>6. NodesOf(st2) = NodesOf(st) \ {top}
  <2>1. \A i \in 1 .. L - 1 : i \in 1 .. L /\ i # L  OBVIOUS
  <2>2. \A i \in 1 .. L : i = L \/ i \in 1 .. L - 1  OBVIOUS
  <2>3. NodesOf(st2) \subseteq NodesOf(st) \ {top}
    <3>1. ASSUME NEW i \in 1 .. L - 1  PROVE  st2[i].node \in NodesOf(st) \ {top}
      BY <1>2, <1>3, <1>4, <2>1
    <3> QED  BY <3>1, <1>3
  <2>4. NodesOf(st) \ {top} \subseteq NodesOf(st2)
    BY <1>3, <2>2
  <2> QED  BY <2>3, <2>4
<1>7. top \in NodesOf(st)  BY <1>2, <1>3
<1>8. marked \ NodesOf(st2) = (marked \ NodesOf(st)) \cup {top}
  BY <1>5, <1>6, <1>7
<1>9. Elems(kids[top]) \subseteq marked \ NodesOf(st)
  <2>1. DOMAIN kids[top] = 1 .. Len(kids[top]) /\ Len(kids[top]) \in Nat
    BY <1>2, LenProperties
  <2>2. ASSUME NEW k \in 1 .. Len(kids[top])  PROVE  kids[top][k] \in marked \ NodesOf(st)
    <3>1. k \in 1 .. st[L].next - 1  BY <1>1, <1>2, <2>1
    <3>2. \/ kids[top][k] \in marked \ NodesOf(st)
          \/ \E j \in L + 1 .. L : st[j].node = kids[top][k]
      BY <1>2, <3>1 DEF StackOK
    <3>3. L + 1 .. L = {}  OBVIOUS
    <3> QED  BY <3>2, <3>3
  <2> QED  BY <2>1, <2>2 DEF Elems
<1>10. ASSUME NEW i \in 1 .. L - 1, NEW k \in 1 .. st2[i].next - 1
       PROVE  \/ kids[st2[i].node][k] \in marked \ NodesOf(st2)
              \/ \E j \in i + 1 .. L - 1 : st2[j].node = kids[st2[i].node][k]
  <2>1. i \in 1 .. L /\ k \in 1 .. st[i].next - 1  OBVIOUS
  <2>2. \/ kids[st[i].node][k] \in marked \ NodesOf(st)
        \/ \E j \in i + 1 .. L : st[j].node = kids[st[i].node][k]
    BY <2>1 DEF StackOK
  <2>3. CASE kids[st[i].node][k] \in marked \ NodesOf(st)
    BY <2>3, <1>8
  <2>4. CASE \E j \in i + 1 .. L : st[j].node = kids[st[i].node][k]
    <3>1. PICK j \in i + 1 .. L : st[j].node = kids[st[i].node][k]  BY <2>4
    <3>2. CASE j = L
      <4>1. kids[st[i].node][k] = top  BY <3>1, <3>2
      <4>2. top \in marked \ NodesOf(st2)  BY <1>5, <1>6, <1>7
      <4> QED  BY <4>1, <4>2
    <3>3. CASE j \in i + 1 .. L - 1
      <4>1. j \in 1 .. L - 1  BY <3>3
      <4>2. st2[j].node = kids[st2[i].node][k]  BY <3>1, <4>1
      <4> QED  BY <3>3, <4>2
    <3> QED  BY <3>2, <3>3
  <2> QED  BY <2>2, <2>3, <2>4
<1>11. \A i \in 1 .. Len(st2) : st2[i].next <= Len(kids[st2[i].node]) + 1
  <2>1. ASSUME NEW i \in 1 .. L - 1  PROVE  st2[i].next <= Len(kids[st2[i].node]) + 1
    <3>1. i \in 1 .. L  OBVIOUS
    <3> QED  BY <3>1 DEF StackOK
  <2> QED  BY <2>1
<1>12. \A i, j \in 1 .. Len(st2) : st2[i].node = st2[j].node => i = j
  BY <1>4
<1>13. \A i \in 1 .. Len(st2) - 1 : st2[i + 1].node \in Elems(kids[st2[i].node])
  <2>1. ASSUME NEW i \in 1 .. (L - 1) - 1  PROVE  st2[i + 1].node \in Elems(kids[st2[i].node])
    <3>1. i \in 1 .. L - 1 /\ i + 1 \in 1 .. L - 1  OBVIOUS
    <3>2. st[i + 1].node \in Elems(kids[st[i].node])  BY <3>1 DEF StackOK
    <3> QED  BY <3>1, <3>2
  <2> QED  BY <2>1
<1>14. NodesOf(st2) \subseteq marked  BY <1>5, <1>6
<1>15. \A i \in 1 .. Len(st2) : \A k \in 1 .. st2[i].next - 1 :
         \/ kids[st2[i].node][k] \in marked \ NodesOf(st2)
         \/ \E j \in i + 1 .. Len(st2) : st2[j].node = kids[st2[i].node][k]
  BY <1>10
<1>16. StackOK(st2, kids, marked)
  BY <1>11, <1>12, <1>13, <1>14, <1>15 DEF StackOK
<1> QED  BY <1>2, <1>7, <1>8, <1>9, <1>16

\* A child of the innermost call that is on the stack closes a cycle.
LEMMA BackEdge ==
    ASSUME NEW st \in Seq(Frame), NEW kids \in [Node -> Seq(Node)], NEW marked,
           NEW L \in Nat, L >= 1, Len(st) = L,
           StackOK(st, kids, marked),
           NEW c \in Elems(kids[st[L].node]), c \in NodesOf(st)
    PROVE  ~NoCycle(kids, Node)
<1>1. /\ DOMAIN st = 1 .. L
      /\ \A i \in 1 .. L : st[i].node \in Node
  BY FrameFacts
<1>2. PICK m \in 1 .. L : st[m].node = c
  BY <1>1 DEF NodesOf
<1> DEFINE T == {st[i].node : i \in m .. L}
<1>3. T \in SUBSET Node /\ T # {} /\ c \in T
  <2>1. m \in m .. L /\ \A i \in m .. L : i \in 1 .. L  OBVIOUS
  <2> QED  BY <2>1, <1>1, <1>2
<1>4. ASSUME NEW i \in m .. L  PROVE  Elems(kids[st[i].node]) \cap T # {}
  <2>1. CASE i = L
    BY <2>1, <1>3
  <2>2. CASE i < L
    <3>1. i \in 1 .. L - 1 /\ i + 1 \in m .. L  BY <2>2
    <3>2. st[i + 1].node \in Elems(kids[st[i].node])  BY <3>1 DEF StackOK
    <3> QED  BY <3>1, <3>2
  <2> QED  BY <2>1, <2>2
<1>5. \A n \in T : Elems(kids[n]) \cap T # {}
  BY <1>4
<1> QED  BY <1>3, <1>5 DEF NoCycle
-----------------------------------------------------------------------------
(***************************************************************************)
(* The inductive invariant                                                 *)
(***************************************************************************)

\* The nodes whose calls have returned, in this search or, for
\* makeRequiredTypes, in an earlier one.
Finished == Marked \ Ancestors

\* The types of the variables that TypeOK leaves out.
ShapeInv ==
    /\ TypeOK
    /\ \A n \in Node \ Elems(nodes) : children[n] = <<>>
    /\ mode = "idle" => stack = <<>> /\ roots = <<>>

StackInv == StackOK(stack, children, Marked)

\* The children as they were before the edge that is being tried.
ChildrenBefore ==
    [children EXCEPT ![edge.par] = SubSeq(@, 1, Len(@) - 1)]

\* While a new edge is tried: without it there is no cycle, and there is none
\* among the finished nodes, from which no edge leads back to the others.
CycleInv ==
    mode = "cycle" =>
        /\ stale
        /\ edge.par \in Node
        /\ children[edge.par] # <<>>
        /\ NoCycle(ChildrenBefore, Node)
        /\ \A n \in Finished : Kids(n) \subseteq Finished
        /\ NoCycle(children, Finished)
        /\ Elems(nodes) \subseteq visited \cup Elems(roots)

\* While the order is made, it has the finished nodes.
OrderInv ==
    mode = "order" =>
        /\ ChildrenFirst(order)
        /\ Injective(order)
        /\ Elems(order) = Finished
        /\ Elems(nodes) \subseteq visited \cup Elems(roots)

\* What was made has been written, but for the calls in progress.
OutInv ==
    /\ Elems(out) = IF mode = "gen" THEN Finished ELSE made
    /\ mode = "gen" => Elems(order) \subseteq made \cup Elems(roots)

Inv ==
    /\ ShapeInv
    /\ StackInv
    /\ CycleInv
    /\ OrderInv
    /\ OutInv
    /\ Acyclic
    /\ OrderIsTopological
    /\ AllWritten

\* The set of the nodes on the stack, under its two names.
LEMMA AncestorsAre == Ancestors = NodesOf(stack)
BY DEF Ancestors, NodesOf

\* An empty stack is a stack.
LEMMA EmptyStack ==
    ASSUME NEW kids, NEW marked
    PROVE  /\ StackOK(<<>>, kids, marked)
           /\ NodesOf(<<>>) = {}
<1>1. Len(<<>>) = 0 /\ DOMAIN <<>> = {} /\ 1 .. 0 = {} /\ 1 .. 0 - 1 = {}
  BY EmptySeq
<1>2. NodesOf(<<>>) = {}  BY <1>1 DEF NodesOf
<1> QED  BY <1>1, <1>2 DEF StackOK

LEMMA EmptyElems == Elems(<<>>) = {} /\ Injective(<<>>)
<1>1. DOMAIN <<>> = {}  OBVIOUS
<1> QED  BY <1>1 DEF Elems, Injective

\* Init establishes the invariant.
LEMMA InvInit == Init => Inv
<1> SUFFICES ASSUME Init  PROVE Inv
  OBVIOUS
<1> USE DEF Init
<1>1. <<>> \in Seq(Node) /\ <<>> \in Seq(Frame)
  BY EmptySeq
<1>2. \A n \in Node : children[n] = <<>> /\ Kids(n) = {}
  BY EmptyElems DEF Kids
<1>3. TypeOK
  <2>1. children \in [Node -> Seq(Node)]  BY <1>1
  <2>2. \A n \in Node : Injective(children[n]) /\ Elems(children[n]) \subseteq Elems(nodes)
    BY <1>2, EmptyElems
  <2> QED  BY <1>1, <2>1, <2>2, EmptyElems DEF TypeOK, Frame
<1>4. ShapeInv  BY <1>2, <1>3 DEF ShapeInv
<1>5. StackInv  BY EmptyStack DEF StackInv
<1>6. CycleInv /\ OrderInv  BY DEF CycleInv, OrderInv
<1>7. OutInv  BY EmptyElems DEF OutInv
<1>8. Acyclic
  BY <1>2 DEF Acyclic, NoCycle, Kids
<1>9. OrderIsTopological /\ AllWritten
  <2>1. DOMAIN order = {}  OBVIOUS
  <2> QED  BY <1>2, <2>1, EmptyElems DEF OrderIsTopological, AllWritten, ChildrenFirst
<1> QED  BY <1>4, <1>5, <1>6, <1>7, <1>8, <1>9 DEF Inv
-----------------------------------------------------------------------------
(***************************************************************************)
(* The steps between searches                                              *)
(***************************************************************************)

\* A new node has no edges, so that all that was true of the graph still is.
LEMMA NewNodeStep ==
    ASSUME Inv, NEW n \in Node, NewNode(n)
    PROVE  Inv'
<1> USE DEF NewNode, search
<1>1. /\ nodes' \in Seq(Node)
      /\ Elems(nodes') = Elems(nodes) \cup {n}
      /\ Injective(nodes')
  BY AppendElems DEF Inv, ShapeInv, TypeOK
<1>2. TypeOK'
  <2>1. \A m \in Node : Injective(children'[m]) /\ Elems(children'[m]) \subseteq Elems(nodes')
    BY <1>1 DEF Inv, ShapeInv, TypeOK
  <2> QED  BY <1>1, <2>1 DEF Inv, ShapeInv, TypeOK
<1>3. ShapeInv'
  BY <1>1, <1>2 DEF Inv, ShapeInv
<1>4. StackInv'
  BY DEF Inv, StackInv, StackOK, Marked, NodesOf
<1>5. CycleInv' /\ OrderInv'
  BY DEF CycleInv, OrderInv
<1>6. OutInv'
  BY DEF Inv, OutInv
<1>7. Acyclic'
  BY DEF Inv, Acyclic, NoCycle
<1>8. OrderIsTopological'
  BY DEF Inv, OrderIsTopological, ChildrenFirst, Kids
<1>9. AllWritten'
  BY DEF Inv, AllWritten
<1> QED  BY <1>3, <1>4, <1>5, <1>6, <1>7, <1>8, <1>9 DEF Inv

\* A new edge starts the search for a cycle; the graph without it has none.
LEMMA AddChildStep ==
    ASSUME Inv, NEW p \in Node, NEW c \in Node, AddChild(p, c)
    PROVE  Inv'
<1> USE DEF AddChild, InsertEdge
<1>1. TypeOK /\ mode = "idle" /\ stack = <<>> /\ stack' = <<>>
  BY DEF Inv, ShapeInv
<1>2. /\ children[p] \in Seq(Node)
      /\ Injective(children[p])
      /\ Elems(children[p]) \subseteq Elems(nodes)
  BY <1>1 DEF TypeOK
<1>3. /\ Append(children[p], c) \in Seq(Node)
      /\ Elems(Append(children[p], c)) = Elems(children[p]) \cup {c}
      /\ Injective(Append(children[p], c))
  BY <1>2, AppendElems
<1>4. /\ children' = [children EXCEPT ![p] = Append(@, c)]
      /\ children \in [Node -> Seq(Node)]
      /\ children'[p] = Append(children[p], c)
      /\ \A n \in Node : n # p => children'[n] = children[n]
  BY <1>1 DEF TypeOK
<1>5. TypeOK'
  <2>1. children' \in [Node -> Seq(Node)]  BY <1>3, <1>4
  <2>2. \A n \in Node : Injective(children'[n]) /\ Elems(children'[n]) \subseteq Elems(nodes')
    BY <1>1, <1>3, <1>4 DEF TypeOK
  <2> QED  BY <1>1, <2>1, <2>2, EmptySeq DEF TypeOK
<1>6. ShapeInv'
  <2>1. p \in Elems(nodes)  OBVIOUS
  <2>2. \A n \in Node \ Elems(nodes') : children'[n] = <<>>
    BY <1>4, <2>1 DEF Inv, ShapeInv
  <2> QED  BY <1>5, <2>2 DEF ShapeInv
<1>7. StackInv'
  BY <1>1, EmptyStack DEF StackInv
<1>8. CycleInv'
  <2>1. edge'.par = p  OBVIOUS
  <2>2. children'[p] # <<>>  BY <1>2, <1>4, BackOut
  <2>3. ChildrenBefore' = children
    <3>1. ChildrenBefore' = [children' EXCEPT ![p] = SubSeq(@, 1, Len(@) - 1)]
      BY <2>1 DEF ChildrenBefore
    <3>2. ChildrenBefore' = [children' EXCEPT ![p] = children[p]]
      BY <1>2, <1>4, <3>1, BackOut
    <3> QED  BY <1>4, <3>2
  <2>4. NoCycle(ChildrenBefore', Node)
    BY <1>1, <2>3 DEF Inv, Acyclic
  <2>5. Finished' = {}  BY DEF Finished, Marked
  <2>6. NoCycle(children', Finished')  BY <2>5 DEF NoCycle
  <2> QED  BY <2>1, <2>2, <2>4, <2>5, <2>6 DEF CycleInv, NoCycle
<1>9. OrderInv'  BY DEF OrderInv
<1>10. OutInv'  BY <1>1 DEF Inv, OutInv
<1>11. Acyclic' /\ OrderIsTopological' /\ AllWritten'
  BY DEF Acyclic, OrderIsTopological, AllWritten
<1> QED  BY <1>6, <1>7, <1>8, <1>9, <1>10, <1>11 DEF Inv

\* genCode starts to make the order, or goes straight to the code.
LEMMA GenCodeStep ==
    ASSUME Inv, GenCode
    PROVE  Inv'
<1> USE DEF GenCode, graph
<1>1. TypeOK /\ mode = "idle" /\ stack = <<>> /\ stack' = <<>>
  BY DEF Inv, ShapeInv
<1>2. StackInv'  BY <1>1, EmptyStack DEF StackInv
<1>3. TypeOK'  BY <1>1, EmptySeq DEF TypeOK
<1>4. ShapeInv'  BY <1>1, <1>3 DEF Inv, ShapeInv
<1>5. CycleInv'  BY <1>1 DEF CycleInv
<1>6. Acyclic'  BY <1>1 DEF Inv, Acyclic, NoCycle
<1>7. AllWritten'  BY <1>1 DEF AllWritten
<1>8. Ancestors' = {}
  BY <1>1, EmptyStack, AncestorsAre DEF Ancestors
<1>9. CASE stale
  <2>1. OrderInv'
    <3>1. Finished' = {}  BY <1>9, <1>8 DEF Finished, Marked
    <3>2. ChildrenFirst(order')
      <4>1. DOMAIN order' = {}  BY <1>9
      <4> QED  BY <4>1 DEF ChildrenFirst
    <3> QED  BY <1>9, <3>1, <3>2, EmptyElems DEF OrderInv, ChildrenFirst
  <2>2. OutInv'  BY <1>1, <1>9 DEF Inv, OutInv
  <2>3. OrderIsTopological'  BY <1>9 DEF OrderIsTopological
  <2> QED  BY <1>2, <1>4, <1>5, <1>6, <1>7, <2>1, <2>2, <2>3 DEF Inv
<1>10. CASE ~stale
  <2>1. OrderInv'  BY <1>10 DEF OrderInv
  <2>2. OutInv'
    <3>1. Finished' = made  BY <1>8, <1>10 DEF Finished, Marked
    <3> QED  BY <1>1, <1>10, <3>1 DEF Inv, OutInv
  <2>3. OrderIsTopological'
    BY <1>1, <1>10 DEF Inv, OrderIsTopological, ChildrenFirst, Kids
  <2> QED  BY <1>2, <1>4, <1>5, <1>6, <1>7, <2>1, <2>2, <2>3 DEF Inv
<1> QED  BY <1>9, <1>10

\* reset goes back to the initial state.
LEMMA ResetStep ==
    ASSUME Inv, Reset
    PROVE  Inv'
<1> USE DEF Reset, search
<1>1. TypeOK /\ mode = "idle" /\ mode' = "idle" /\ stack = <<>> /\ roots = <<>>
      /\ stack' = <<>> /\ roots' = <<>>
  BY DEF Inv, ShapeInv
<1>2. <<>> \in Seq(Node) /\ <<>> \in Seq(Frame)
  BY EmptySeq
<1>3. \A n \in Node : children'[n] = <<>> /\ Kids(n)' = {}
  BY EmptyElems DEF Kids
<1>4. TypeOK'
  <2>1. children' \in [Node -> Seq(Node)]  BY <1>2
  <2>2. \A n \in Node : Injective(children'[n]) /\ Elems(children'[n]) \subseteq Elems(nodes')
    BY <1>3, EmptyElems
  <2> QED  BY <1>1, <1>2, <2>1, <2>2, EmptyElems DEF TypeOK, Frame
<1>5. ShapeInv'  BY <1>1, <1>3, <1>4 DEF ShapeInv
<1>6. StackInv'  BY <1>1, EmptyStack DEF StackInv
<1>7. CycleInv' /\ OrderInv'  BY <1>1 DEF CycleInv, OrderInv
<1>8. OutInv'  BY <1>1, EmptyElems DEF OutInv
<1>9. Acyclic'  BY <1>3 DEF Acyclic, NoCycle, Kids
<1>10. OrderIsTopological' /\ AllWritten'
  <2>1. DOMAIN order' = {}  OBVIOUS
  <2> QED  BY <1>3, <2>1, EmptyElems DEF OrderIsTopological, AllWritten, ChildrenFirst
<1> QED  BY <1>5, <1>6, <1>7, <1>8, <1>9, <1>10 DEF Inv
-----------------------------------------------------------------------------
(***************************************************************************)
(* The steps of a search                                                   *)
(***************************************************************************)

\* Push, for the stack of the state and of the next one.
LEMMA PushStep ==
    ASSUME NEW n \in Node, stack' \in Seq(Frame), stack \in Seq(Frame),
           children \in [Node -> Seq(Node)],
           Marks(Marked, Marked', n),
           StackOK(stack, children, Marked),
           Pushed(stack, stack', children, n)
    PROVE  /\ StackOK(stack', children, Marked')
           /\ Marked' \ NodesOf(stack') = Marked \ NodesOf(stack)
BY Push

\* Going on to a node n, a root or a child: the finished nodes stay the same
\* and n is marked afterwards. A marked n has to be a finished one.
LEMMA EnterStep ==
    ASSUME Inv, mode # "idle",
           NEW n \in Node, NEW below \in Seq(Frame),
           Len(below) = Len(stack), WentOn(stack, below, children, n),
           n \in Marked => n \in Finished,
           Enter(n, below),
           UNCHANGED <<graph, stale, order, out, mode, edge>>,
           roots' \in Seq(Node), Elems(roots) \subseteq Elems(roots') \cup {n}
    PROVE  Inv'
<1> USE DEF graph
<1>1. TypeOK /\ stack \in Seq(Frame) /\ children \in [Node -> Seq(Node)]
  BY DEF Inv, ShapeInv, TypeOK, Frame
<1>2. StackOK(stack, children, Marked)
  BY DEF Inv, StackInv
<1>3. /\ stack' \in Seq(Frame)
      /\ StackOK(stack', children, Marked')
      /\ Marked' \ NodesOf(stack') = Marked \ NodesOf(stack)
      /\ n \in Marked'
      /\ visited \subseteq visited' /\ made \subseteq made'
      /\ visited' \subseteq visited \cup {n} /\ made' \subseteq made \cup {n}
      /\ mode # "gen" => made' = made
  <2>1. CASE n \in Marked
    <3>1. stack' = below /\ visited' = visited /\ made' = made
      BY <2>1 DEF Enter
    <3>2. Marked' = Marked  BY <3>1 DEF Marked
    <3>3. n \in Marked \ NodesOf(stack)
      BY <2>1, AncestorsAre DEF Finished
    <3>4. StackOK(below, children, Marked) /\ NodesOf(below) = NodesOf(stack)
      BY <1>1, <1>2, <3>3, Skip
    <3> QED  BY <2>1, <3>1, <3>2, <3>4
  <2>2. CASE n \notin Marked
    <3> DEFINE new == [node |-> n, next |-> 1]
    <3>1. /\ stack' = Append(below, new)
          /\ visited' = IF mode = "gen" THEN visited ELSE visited \cup {n}
          /\ made' = IF mode = "gen" THEN made \cup {n} ELSE made
      BY <2>2 DEF Enter
    <3>2. Marked' = Marked \cup {n}  BY <3>1 DEF Marked
    <3>3. new \in Frame  BY DEF Frame
    <3>4. /\ stack' \in Seq(Frame)
          /\ Len(stack') = Len(stack) + 1
          /\ \A i \in 1 .. Len(stack) : stack'[i] = below[i]
          /\ stack'[Len(stack) + 1] = new
      BY <3>1, <3>3, AppendProperties
    <3>5. WentOn(stack, stack', children, n)
      <4>1. Len(stack) \in Nat  BY <1>1, LenProperties
      <4>2. \A i \in 1 .. Len(stack) : stack'[i].node = stack[i].node
        BY <3>4 DEF WentOn
      <4>3. \A i \in 1 .. Len(stack) - 1 : stack'[i].next = stack[i].next
        <5>1. ASSUME NEW i \in 1 .. Len(stack) - 1  PROVE  stack'[i].next = stack[i].next
          <6>1. i \in 1 .. Len(stack)  BY <4>1
          <6> QED  BY <6>1, <3>4 DEF WentOn
        <5> QED  BY <5>1
      <4>4. Len(stack) >= 1 => stack'[Len(stack)] = below[Len(stack)]
        BY <4>1, <3>4
      <4> QED  BY <4>2, <4>3, <4>4 DEF WentOn
    <3>6. /\ StackOK(stack', children, Marked')
          /\ Marked' \ NodesOf(stack') = Marked \ NodesOf(stack)
      <4>1. Pushed(stack, stack', children, n)
        BY <3>4, <3>5 DEF Pushed
      <4>2. Marks(Marked, Marked', n)
        BY <2>2, <3>2 DEF Marks
      <4>3. stack' \in Seq(Frame)  BY <3>4
      <4> QED  BY <1>1, <1>2, <4>1, <4>2, <4>3, PushStep
    <3> QED  BY <3>1, <3>2, <3>4, <3>6
  <2> QED  BY <2>1, <2>2
<1>4. Finished' = Finished
  BY <1>3, AncestorsAre DEF Finished, Ancestors, NodesOf
<1>5. TypeOK'
  BY <1>1, <1>3 DEF TypeOK, Frame
<1>6. ShapeInv'
  BY <1>5 DEF Inv, ShapeInv
<1>7. StackInv'
  BY <1>3 DEF StackInv
<1>8. CycleInv'
  <2>1. SUFFICES ASSUME mode = "cycle"  PROVE CycleInv'
    BY DEF CycleInv
  <2>2. n \in visited'  BY <1>3, <2>1 DEF Marked
  <2>3. Elems(nodes) \subseteq visited' \cup Elems(roots')
    BY <1>3, <2>1, <2>2 DEF Inv, CycleInv
  <2>4. ChildrenBefore' = ChildrenBefore  BY DEF ChildrenBefore
  <2>5. /\ stale /\ edge.par \in Node /\ children[edge.par] # <<>>
        /\ NoCycle(ChildrenBefore, Node)
        /\ \A m \in Finished : Elems(children[m]) \subseteq Finished
        /\ NoCycle(children, Finished)
    BY <2>1 DEF Inv, CycleInv, Kids
  <2>6. NoCycle(ChildrenBefore', Node) /\ NoCycle(children', Finished')
    BY <1>4, <2>4, <2>5
  <2>7. \A m \in Finished' : Elems(children'[m]) \subseteq Finished'
    BY <1>4, <2>5
  <2> QED  BY <2>3, <2>5, <2>6, <2>7 DEF CycleInv, Kids
<1>9. OrderInv'
  <2>1. SUFFICES ASSUME mode = "order"  PROVE OrderInv'
    BY DEF OrderInv
  <2>2. n \in visited'  BY <1>3, <2>1 DEF Marked
  <2>3. Elems(nodes) \subseteq visited' \cup Elems(roots')
    BY <1>3, <2>1, <2>2 DEF Inv, OrderInv
  <2>4. ChildrenFirst(order)'
    <3>1. ChildrenFirst(order)  BY <2>1 DEF Inv, OrderInv
    <3>2. ChildrenFirst(order)' <=> ChildrenFirst(order)  BY DEF ChildrenFirst, Kids
    <3> QED  BY <3>1, <3>2
  <2> QED  BY <2>1, <2>3, <2>4, <1>4 DEF Inv, OrderInv, Injective
<1>10. OutInv'
  <2>1. CASE mode = "gen"
    <3>1. n \in made'  BY <1>3, <2>1 DEF Marked
    <3> QED  BY <1>3, <1>4, <2>1, <3>1 DEF Inv, OutInv
  <2>2. CASE mode # "gen"
    BY <1>3, <2>2 DEF Inv, OutInv
  <2> QED  BY <2>1, <2>2
<1>11. Acyclic'
  BY DEF Inv, Acyclic, NoCycle
<1>12. OrderIsTopological'
  <2>1. (ChildrenFirst(order)' <=> ChildrenFirst(order)) /\ \A m \in Node : Kids(m)' = Kids(m)
    BY DEF ChildrenFirst, Kids
  <2>2. OrderIsTopological  BY DEF Inv
  <2> QED  BY <2>1, <2>2 DEF OrderIsTopological
<1>13. AllWritten'
  BY DEF AllWritten
<1> QED  BY <1>6, <1>7, <1>8, <1>9, <1>10, <1>11, <1>12, <1>13 DEF Inv

\* A root: the stack is empty, so that a marked root is a finished node.
LEMMA NextRootStep ==
    ASSUME Inv, NextRoot
    PROVE  Inv'
<1>1. /\ roots \in Seq(Node) /\ roots # <<>> /\ stack = <<>>
      /\ mode # "idle" /\ Enter(Head(roots), stack) /\ roots' = Tail(roots)
      /\ UNCHANGED <<graph, stale, order, out, mode, edge>>
  BY DEF Inv, ShapeInv, TypeOK, NextRoot
<1>2. /\ Head(roots) \in Node /\ roots' \in Seq(Node)
      /\ Elems(roots) \subseteq Elems(roots') \cup {Head(roots)}
  BY <1>1, TailElems
<1>3. Len(stack) = 0 /\ 1 .. 0 = {} /\ 1 .. 0 - 1 = {} /\ stack \in Seq(Frame)
  BY <1>1, EmptySeq
<1>4. WentOn(stack, stack, children, Head(roots))
  BY <1>3 DEF WentOn
<1>5. Head(roots) \in Marked => Head(roots) \in Finished
  BY <1>1, EmptyStack, AncestorsAre DEF Finished
<1> QED  BY <1>1, <1>2, <1>3, <1>4, <1>5, EnterStep

\* The stack after the innermost call went on, and after it returned.
LEMMA StackFacts ==
    ASSUME TypeOK, stack # <<>>
    PROVE  LET L == Len(stack)
               below == Append(Below, [Top EXCEPT !.next = @ + 1])
           IN  /\ stack \in Seq(Frame) /\ L \in Nat /\ L >= 1
               /\ Top = stack[L] /\ Top \in Frame /\ Top.node \in Node
               /\ Top.next \in Nat /\ Top.next >= 1
               /\ Below \in Seq(Frame) /\ Len(Below) = L - 1
               /\ \A i \in 1 .. L - 1 : Below[i] = stack[i]
               /\ below \in Seq(Frame) /\ Len(below) = L
               /\ \A i \in 1 .. L - 1 : below[i] = stack[i]
               /\ below[L].node = Top.node /\ below[L].next = Top.next + 1
<1> DEFINE L == Len(stack)
           moved == [Top EXCEPT !.next = @ + 1]
           below == Append(Below, moved)
<1>1. stack \in Seq(Frame)  BY DEF TypeOK, Frame
<1>2. /\ L \in Nat /\ L >= 1
      /\ Below \in Seq(Frame) /\ Len(Below) = L - 1
      /\ \A i \in 1 .. L - 1 : Below[i] = stack[i]
  BY <1>1, FrontFacts DEF Below
<1>3. Top = stack[L] /\ Top \in Frame
  <2>1. L \in 1 .. L  BY <1>2
  <2> QED  BY <1>1, <2>1, ElementOfSeq DEF Top
<1>4. /\ Top.node \in Node /\ Top.next \in Nat /\ Top.next >= 1
      /\ moved \in Frame /\ moved.node = Top.node /\ moved.next = Top.next + 1
  BY <1>3 DEF Frame
<1> HIDE DEF moved
<1>5. /\ below \in Seq(Frame)
      /\ Len(below) = Len(Below) + 1
      /\ \A i \in 1 .. Len(Below) : below[i] = Below[i]
      /\ below[Len(Below) + 1] = moved
  BY <1>2, <1>4, AppendProperties
<1> HIDE DEF below
<1>6. /\ Len(below) = L
      /\ \A i \in 1 .. L - 1 : below[i] = stack[i]
      /\ below[L] = moved
  BY <1>2, <1>5
<1> QED  BY <1>1, <1>2, <1>3, <1>4, <1>5, <1>6 DEF below, moved

\* A child: a marked one is finished, for one that is on the stack closes a
\* cycle, and there is none but while a new edge is tried.
LEMMA NextChildStep ==
    ASSUME Inv, NextChild
    PROVE  Inv'
<1> DEFINE L == Len(stack)
           below == Append(Below, [Top EXCEPT !.next = @ + 1])
           ch == children[Top.node][Top.next]
<1>1. /\ TypeOK /\ stack # <<>> /\ Top.next <= Len(children[Top.node])
      /\ ~ClosesCycle(ch) /\ Enter(ch, below)
      /\ UNCHANGED <<graph, stale, order, out, mode, edge, roots>>
  BY DEF Inv, ShapeInv, NextChild
<1>2. mode # "idle"
  BY <1>1 DEF Inv, ShapeInv
<1>3. /\ stack \in Seq(Frame) /\ L \in Nat /\ L >= 1
      /\ Top = stack[L] /\ Top.node \in Node
      /\ Top.next \in Nat /\ Top.next >= 1
      /\ below \in Seq(Frame) /\ Len(below) = L
      /\ \A i \in 1 .. L - 1 : below[i] = stack[i]
      /\ below[L].node = Top.node /\ below[L].next = Top.next + 1
  BY <1>1, StackFacts
<1>4. children \in [Node -> Seq(Node)] /\ roots \in Seq(Node)  BY <1>1 DEF TypeOK
<1>5. ch \in Node /\ ch \in Elems(children[Top.node])
  <2>1. children[Top.node] \in Seq(Node)  BY <1>3, <1>4
  <2>2. /\ Len(children[Top.node]) \in Nat
        /\ DOMAIN children[Top.node] = 1 .. Len(children[Top.node])
    BY <2>1, LenProperties
  <2>3. Top.next \in 1 .. Len(children[Top.node])  BY <1>1, <1>3, <2>2
  <2>4. ch \in Node  BY <2>1, <2>3, ElementOfSeq
  <2> QED  BY <2>2, <2>3, <2>4 DEF Elems
<1> HIDE DEF below, ch
<1>6. WentOn(stack, below, children, ch)
  <2>1. ASSUME NEW i \in 1 .. L  PROVE  below[i].node = stack[i].node
    <3>1. i \in 1 .. L - 1 \/ i = L  BY <1>3
    <3> QED  BY <3>1, <1>3
  <2>2. \A i \in 1 .. L - 1 : below[i].next = stack[i].next  BY <1>3
  <2>3. /\ below[L].next = stack[L].next + 1
        /\ stack[L].next <= Len(children[stack[L].node])
        /\ children[stack[L].node][stack[L].next] = ch
    BY <1>1, <1>3 DEF ch
  <2> QED  BY <2>1, <2>2, <2>3 DEF WentOn
<1>7. ch \in Marked => ch \in Finished
  <2>1. SUFFICES ASSUME ch \in Ancestors  PROVE FALSE
    BY DEF Finished
  <2>2. mode # "cycle"  BY <1>1, <2>1 DEF ClosesCycle
  <2>3. NoCycle(children, Node)  BY <2>2 DEF Inv, Acyclic
  <2>4. StackOK(stack, children, Marked)  BY DEF Inv, StackInv
  <2>5. ch \in NodesOf(stack) /\ ch \in Elems(children[stack[L].node])
    BY <1>3, <1>5, <2>1, AncestorsAre
  <2> QED  BY <1>3, <1>4, <2>3, <2>4, <2>5, BackEdge
<1>8. Len(below) = Len(stack) /\ below \in Seq(Frame)  BY <1>3
<1>9. roots' \in Seq(Node) /\ Elems(roots) \subseteq Elems(roots') \cup {ch}
  BY <1>1, <1>4
<1> QED  BY <1>1, <1>2, <1>5, <1>6, <1>7, <1>8, <1>9, EnterStep DEF below, ch

\* An edge that closes a cycle is taken out: the children are what they were
\* before the call, and the order stays stale.
LEMMA CycleFoundStep ==
    ASSUME Inv, CycleFound
    PROVE  Inv'
<1> DEFINE before == SubSeq(children[edge.par], 1, Len(children[edge.par]) - 1)
<1>1. /\ TypeOK /\ mode = "cycle" /\ mode' = "idle"
      /\ edge' = NoEdge /\ roots' = <<>> /\ stack' = <<>>
      /\ children' = [children EXCEPT ![edge.par] = before]
      /\ UNCHANGED <<nodes, stale, order, visited, made, out>>
  BY DEF Inv, ShapeInv, CycleFound, ClosesCycle
<1>2. /\ stale /\ edge.par \in Node /\ children[edge.par] # <<>>
      /\ NoCycle(ChildrenBefore, Node)
  BY <1>1 DEF Inv, CycleInv
<1>3. /\ children \in [Node -> Seq(Node)]
      /\ children[edge.par] \in Seq(Node)
      /\ Injective(children[edge.par])
      /\ Elems(children[edge.par]) \subseteq Elems(nodes)
  BY <1>1, <1>2 DEF TypeOK
<1>4. /\ before \in Seq(Node)
      /\ Elems(before) \subseteq Elems(children[edge.par])
      /\ Injective(before)
  BY <1>2, <1>3, FrontFacts
<1>5. children' = ChildrenBefore
  BY <1>1 DEF ChildrenBefore
<1> HIDE DEF before
<1>6. /\ children' \in [Node -> Seq(Node)]
      /\ children'[edge.par] = before
      /\ \A n \in Node : n # edge.par => children'[n] = children[n]
  BY <1>1, <1>2, <1>3, <1>4
<1>7. TypeOK'
  <2>1. \A n \in Node : Injective(children'[n]) /\ Elems(children'[n]) \subseteq Elems(nodes')
    BY <1>1, <1>3, <1>4, <1>6 DEF TypeOK
  <2> QED  BY <1>1, <1>6, <2>1, EmptySeq DEF TypeOK
<1>8. ShapeInv'
  <2>1. edge.par \in Elems(nodes)  BY <1>2 DEF Inv, ShapeInv
  <2>2. \A n \in Node \ Elems(nodes') : children'[n] = <<>>
    BY <1>1, <1>6, <2>1 DEF Inv, ShapeInv
  <2> QED  BY <1>1, <1>7, <2>2 DEF ShapeInv
<1>9. StackInv'  BY <1>1, EmptyStack DEF StackInv
<1>10. CycleInv' /\ OrderInv'  BY <1>1 DEF CycleInv, OrderInv
<1>11. OutInv'  BY <1>1 DEF Inv, OutInv
<1>12. Acyclic'  BY <1>2, <1>5 DEF Acyclic
<1>13. OrderIsTopological' /\ AllWritten'
  BY <1>1, <1>2 DEF OrderIsTopological, AllWritten
<1> QED  BY <1>8, <1>9, <1>10, <1>11, <1>12, <1>13 DEF Inv

\* No cycle goes through a node whose children are all in a closed set without
\* cycles that it is not in.
LEMMA NoCycleGrows ==
    ASSUME NEW kids, NEW S, NEW n, n \notin S,
           NoCycle(kids, S),
           \A m \in S : Elems(kids[m]) \subseteq S,
           Elems(kids[n]) \subseteq S
    PROVE  NoCycle(kids, S \cup {n})
<1> SUFFICES ASSUME NEW T \in SUBSET (S \cup {n}), T # {}
             PROVE  \E m \in T : Elems(kids[m]) \cap T = {}
  BY DEF NoCycle
<1>1. CASE T \cap S = {}
  <2>1. T = {n}  BY <1>1
  <2> QED  BY <2>1
<1>2. CASE T \cap S # {}
  <2>1. PICK m \in T \cap S : Elems(kids[m]) \cap (T \cap S) = {}
    BY <1>2 DEF NoCycle
  <2>2. Elems(kids[m]) \cap T = {}  BY <2>1
  <2> QED  BY <2>1, <2>2
<1> QED  BY <1>1, <1>2

\* An order stays topological when a node is appended after its children.
LEMMA ChildrenFirstGrows ==
    ASSUME NEW s \in Seq(Node), NEW n \in Node, ChildrenFirst(s), Kids(n) \subseteq Elems(s)
    PROVE  ChildrenFirst(Append(s, n))
<1> DEFINE t == Append(s, n)
<1>1. PICK L \in Nat : L = Len(s)  BY LenProperties
<1>2. /\ DOMAIN s = 1 .. L
      /\ DOMAIN t = 1 .. L + 1
      /\ \A i \in 1 .. L : t[i] = s[i]
      /\ t[L + 1] = n
  BY <1>1, AppendProperties, LenProperties
<1> HIDE DEF t
<1>3. ASSUME NEW i \in 1 .. L + 1, NEW c \in Kids(t[i])
      PROVE  \E j \in 1 .. i - 1 : t[j] = c
  <2>1. CASE i \in 1 .. L
    <3>1. c \in Kids(s[i])  BY <1>2, <2>1
    <3>2. PICK j \in 1 .. i - 1 : s[j] = c  BY <1>2, <2>1, <3>1 DEF ChildrenFirst
    <3>3. j \in 1 .. L  BY <2>1
    <3> QED  BY <1>2, <3>2, <3>3
  <2>2. CASE i = L + 1
    <3>1. c \in Elems(s)  BY <1>2, <2>2
    <3>2. PICK j \in 1 .. L : s[j] = c  BY <1>2, <3>1 DEF Elems
    <3>3. j \in 1 .. i - 1  BY <2>2
    <3> QED  BY <1>2, <3>2, <3>3
  <2> QED  BY <2>1, <2>2
<1>4. ChildrenFirst(t)
  BY <1>2, <1>3 DEF ChildrenFirst
<1> QED  BY <1>4 DEF t

\* What the end of a call finishes: one node more, after its children.
LEMMA FinishFacts ==
    ASSUME Inv, Finish
    PROVE  /\ mode # "idle"
           /\ Marked' = Marked
           /\ stack' \in Seq(Frame)
           /\ StackOK(stack', children, Marked)
           /\ Top.node \in Node
           /\ Top.node \notin Finished
           /\ Kids(Top.node) \subseteq Finished
           /\ Finished' = Finished \cup {Top.node}
<1>1. /\ TypeOK /\ stack # <<>> /\ stack' = Below
      /\ Top.next > Len(children[Top.node])
      /\ UNCHANGED <<graph, stale, visited, made, mode, edge, roots>>
  BY DEF Inv, ShapeInv, Finish
<1>2. mode # "idle"
  BY <1>1 DEF Inv, ShapeInv
<1>3. Marked' = Marked  BY <1>1 DEF Marked
<1>4. PICK L \in Nat : L = Len(stack)  BY <1>1, StackFacts
<1>5. /\ stack \in Seq(Frame) /\ L >= 1 /\ Len(stack) = L
      /\ Top = stack[L]
      /\ stack' \in Seq(Frame) /\ Len(stack') = L - 1
      /\ \A i \in 1 .. L - 1 : stack'[i] = stack[i]
  BY <1>1, <1>4, StackFacts
<1>6. children \in [Node -> Seq(Node)]  BY <1>1 DEF TypeOK
<1>7. StackOK(stack, children, Marked)  BY DEF Inv, StackInv
<1>8. Popped(stack, stack', children, L)
  <2>1. stack[L].next > Len(children[stack[L].node])  BY <1>1, <1>5
  <2> QED  BY <1>5, <2>1 DEF Popped
<1>9. /\ StackOK(stack', children, Marked)
      /\ stack[L].node \in Node
      /\ stack[L].node \in NodesOf(stack)
      /\ Elems(children[stack[L].node]) \subseteq Marked \ NodesOf(stack)
      /\ Marked \ NodesOf(stack') = (Marked \ NodesOf(stack)) \cup {stack[L].node}
  BY <1>5, <1>6, <1>7, <1>8, Pop
<1>10. Finished = Marked \ NodesOf(stack)
  BY AncestorsAre DEF Finished
<1>11. Finished' = Marked \ NodesOf(stack')
  BY <1>3 DEF Finished, Ancestors, NodesOf
<1> QED  BY <1>2, <1>3, <1>5, <1>9, <1>10, <1>11 DEF Kids

\* The end of a call: its node joins the finished nodes, which stay closed and
\* free of cycles, and the order or the output, after its children.
LEMMA FinishStep ==
    ASSUME Inv, Finish
    PROVE  Inv'
<1> DEFINE n == Top.node
<1>1. /\ TypeOK
      /\ order' = IF mode = "order" THEN Append(order, n) ELSE order
      /\ out' = IF mode = "gen" /\ n \notin Elems(out) THEN Append(out, n) ELSE out
      /\ UNCHANGED <<nodes, children, stale, visited, made, mode, edge, roots>>
  BY DEF Inv, ShapeInv, Finish, graph
<1>2. /\ mode # "idle" /\ Marked' = Marked
      /\ stack' \in Seq(Frame) /\ StackOK(stack', children, Marked)
      /\ n \in Node /\ n \notin Finished
      /\ Kids(n) \subseteq Finished /\ Finished' = Finished \cup {n}
  BY FinishFacts
<1> HIDE DEF n
<1>3. /\ order \in Seq(Node) /\ out \in Seq(Node) /\ Injective(out)
  BY <1>1 DEF TypeOK
<1>4. /\ Append(order, n) \in Seq(Node)
      /\ Elems(Append(order, n)) = Elems(order) \cup {n}
      /\ Injective(order) /\ n \notin Elems(order) => Injective(Append(order, n))
  BY <1>2, <1>3, AppendElems
<1>5. /\ Append(out, n) \in Seq(Node)
      /\ Elems(Append(out, n)) = Elems(out) \cup {n}
      /\ n \notin Elems(out) => Injective(Append(out, n))
  BY <1>2, <1>3, AppendElems
<1>6. TypeOK'
  <2>1. order' \in Seq(Node)  BY <1>1, <1>3, <1>4
  <2>2. out' \in Seq(Node) /\ Injective(out')  BY <1>1, <1>3, <1>5
  <2> QED  BY <1>1, <1>2, <2>1, <2>2 DEF TypeOK, Frame
<1>7. ShapeInv'  BY <1>1, <1>2, <1>6 DEF Inv, ShapeInv
<1>8. StackInv'  BY <1>1, <1>2 DEF StackInv
<1>9. CycleInv'
  <2>1. SUFFICES ASSUME mode = "cycle"  PROVE CycleInv'
    BY <1>1 DEF CycleInv
  <2>2. /\ stale /\ edge.par \in Node /\ children[edge.par] # <<>>
        /\ NoCycle(ChildrenBefore, Node)
        /\ \A m \in Finished : Elems(children[m]) \subseteq Finished
        /\ NoCycle(children, Finished)
        /\ Elems(nodes) \subseteq visited \cup Elems(roots)
    BY <2>1 DEF Inv, CycleInv, Kids
  <2>3. NoCycle(children, Finished \cup {n})
    BY <1>2, <2>2, NoCycleGrows DEF Kids
  <2>4. \A m \in Finished' : Elems(children'[m]) \subseteq Finished'
    BY <1>1, <1>2, <2>2 DEF Kids
  <2>5. ChildrenBefore' = ChildrenBefore  BY <1>1 DEF ChildrenBefore
  <2>6. NoCycle(ChildrenBefore', Node) /\ NoCycle(children', Finished')
    BY <1>1, <1>2, <2>2, <2>3, <2>5
  <2> QED  BY <1>1, <2>2, <2>4, <2>6 DEF CycleInv, Kids
<1>10. OrderInv'
  <2>1. SUFFICES ASSUME mode = "order"  PROVE OrderInv'
    BY <1>1 DEF OrderInv
  <2>2. /\ ChildrenFirst(order) /\ Injective(order) /\ Elems(order) = Finished
        /\ Elems(nodes) \subseteq visited \cup Elems(roots)
    BY <2>1 DEF Inv, OrderInv
  <2>3. order' = Append(order, n)  BY <1>1, <2>1
  <2>4. ChildrenFirst(Append(order, n))
    BY <1>2, <1>3, <2>2, ChildrenFirstGrows
  <2>5. ChildrenFirst(order)'
    BY <1>1, <2>3, <2>4 DEF ChildrenFirst, Kids
  <2>6. Injective(order') /\ Elems(order') = Finished'
    BY <1>2, <1>4, <2>2, <2>3
  <2> QED  BY <1>1, <2>2, <2>5, <2>6 DEF OrderInv
<1>11. OutInv'
  <2>1. CASE mode = "gen"
    <3>1. Elems(out) = Finished /\ Elems(order) \subseteq made \cup Elems(roots)
      BY <2>1 DEF Inv, OutInv
    <3>2. Elems(out') = Finished'
      BY <1>1, <1>2, <1>5, <2>1, <3>1
    <3> QED  BY <1>1, <2>1, <3>1, <3>2 DEF OutInv
  <2>2. CASE mode # "gen"
    BY <1>1, <2>2 DEF Inv, OutInv
  <2> QED  BY <2>1, <2>2
<1>12. Acyclic'  BY <1>1 DEF Inv, Acyclic, NoCycle
<1>13. OrderIsTopological'
  <2>1. SUFFICES ASSUME mode = "gen", ~stale  PROVE OrderIsTopological'
    BY <1>1, <1>2 DEF OrderIsTopological
  <2>2. order' = order  BY <1>1, <2>1
  <2> QED  BY <1>1, <2>1, <2>2 DEF Inv, OrderIsTopological, ChildrenFirst, Kids
<1>14. AllWritten'  BY <1>1, <1>2 DEF AllWritten
<1> QED  BY <1>7, <1>8, <1>9, <1>10, <1>11, <1>12, <1>13, <1>14 DEF Inv

\* The end of a search: every node was a root, so that what holds of the
\* finished nodes holds of all.
LEMMA DoneStep ==
    ASSUME Inv, Done
    PROVE  Inv'
<1> USE DEF Done, graph
<1>1. TypeOK /\ stack = <<>> /\ roots = <<>> /\ stack' = <<>> /\ mode # "idle"
  BY DEF Inv, ShapeInv
<1>2. Elems(roots) = {}  BY <1>1, EmptyElems
<1>3. Finished = Marked /\ Finished' = Marked'
  BY <1>1, EmptyStack, AncestorsAre DEF Finished, Ancestors, NodesOf
<1>4. order \in Seq(Node)  BY <1>1 DEF TypeOK
<1>5. TypeOK'  BY <1>1, <1>4, EmptySeq DEF TypeOK
<1>6. ShapeInv'  BY <1>1, <1>5 DEF Inv, ShapeInv
<1>7. StackInv'  BY <1>1, EmptyStack DEF StackInv
<1>8. CycleInv' /\ OrderInv'  BY DEF CycleInv, OrderInv
<1>9. CASE mode = "cycle"
  <2>1. /\ stale /\ NoCycle(children, visited) /\ Elems(nodes) \subseteq visited
    BY <1>2, <1>3, <1>9 DEF Inv, CycleInv, Marked
  <2>2. Acyclic'
    <3>1. SUFFICES ASSUME NEW T \in SUBSET Node, T # {}
                   PROVE  \E m \in T : Elems(children[m]) \cap T = {}
      BY DEF Acyclic, NoCycle
    <3>2. CASE T \subseteq visited
      BY <2>1, <3>1, <3>2 DEF NoCycle
    <3>3. CASE \E m \in T : m \notin visited
      <4>1. PICK m \in T : m \notin visited  BY <3>3
      <4>2. children[m] = <<>>  BY <2>1, <4>1 DEF Inv, ShapeInv
      <4> QED  BY <4>1, <4>2, EmptyElems
    <3> QED  BY <3>2, <3>3
  <2>3. OutInv'  BY <1>9 DEF Inv, OutInv
  <2>4. OrderIsTopological' /\ AllWritten'
    BY <2>1 DEF OrderIsTopological, AllWritten
  <2> QED  BY <1>6, <1>7, <1>8, <2>2, <2>3, <2>4 DEF Inv
<1>10. CASE mode = "order"
  <2>1. /\ ChildrenFirst(order) /\ Injective(order) /\ Elems(order) = visited
        /\ Elems(nodes) \subseteq visited
    BY <1>2, <1>3, <1>10 DEF Inv, OrderInv, Marked
  <2>2. Acyclic'  BY <1>10 DEF Inv, Acyclic, NoCycle
  <2>3. OutInv'
    <3>1. Elems(out) = made  BY <1>10 DEF Inv, OutInv
    <3>2. Finished' = made  BY <1>3, <1>10 DEF Marked
    <3> QED  BY <1>10, <3>1, <3>2 DEF OutInv
  <2>4. OrderIsTopological'
    <3>1. \A m \in Node : Kids(m) # {} => m \in Elems(order)
      <4>1. SUFFICES ASSUME NEW m \in Node, m \notin Elems(nodes)  PROVE Kids(m) = {}
        BY <2>1
      <4>2. children[m] = <<>>  BY <4>1 DEF Inv, ShapeInv
      <4> QED  BY <4>2, EmptyElems DEF Kids
    <3> QED  BY <2>1, <3>1 DEF OrderIsTopological, ChildrenFirst, Kids
  <2>5. AllWritten'  BY <1>10 DEF AllWritten
  <2> QED  BY <1>6, <1>7, <1>8, <2>2, <2>3, <2>4, <2>5 DEF Inv
<1>11. CASE mode = "gen"
  <2>1. Elems(out) = made /\ Elems(order) \subseteq made
    BY <1>2, <1>3, <1>11 DEF Inv, OutInv, Marked
  <2>2. Acyclic'  BY <1>11 DEF Inv, Acyclic, NoCycle
  <2>3. OutInv'  BY <1>11, <2>1 DEF OutInv
  <2>4. OrderIsTopological'
    BY <1>11 DEF Inv, OrderIsTopological, ChildrenFirst, Kids
  <2>5. AllWritten'  BY <2>1 DEF AllWritten
  <2> QED  BY <1>6, <1>7, <1>8, <2>2, <2>3, <2>4, <2>5 DEF Inv
<1> QED  BY <1>1, <1>9, <1>10, <1>11 DEF TypeOK
-----------------------------------------------------------------------------
(***************************************************************************)
(* The theorems                                                            *)
(***************************************************************************)

\* Every step preserves the invariant.
LEMMA InvNext == Inv /\ [Next]_vars => Inv'
<1> SUFFICES ASSUME Inv, [Next]_vars  PROVE Inv'
  OBVIOUS
<1>1. ASSUME NEW n \in Node, NewNode(n)  PROVE Inv'
  BY <1>1, NewNodeStep
<1>2. ASSUME NEW p \in Node, NEW c \in Node, AddChild(p, c)  PROVE Inv'
  BY <1>2, AddChildStep
<1>3. CASE GenCode  BY <1>3, GenCodeStep
<1>4. CASE Reset  BY <1>4, ResetStep
<1>5. CASE NextRoot  BY <1>5, NextRootStep
<1>6. CASE NextChild  BY <1>6, NextChildStep
<1>7. CASE CycleFound  BY <1>7, CycleFoundStep
<1>8. CASE Finish  BY <1>8, FinishStep
<1>9. CASE Done  BY <1>9, DoneStep
<1>10. CASE UNCHANGED vars
  <2> USE <1>10 DEF vars
  <2>1. ShapeInv'  BY DEF Inv, ShapeInv, TypeOK
  <2>2. Marked' = Marked /\ Finished' = Finished
    BY DEF Marked, Finished, Ancestors
  <2>3. StackInv'  BY <2>2 DEF Inv, StackInv
  <2>4. CycleInv'  BY <2>2 DEF Inv, CycleInv, ChildrenBefore, NoCycle, Kids
  <2>5. OrderInv'  BY <2>2 DEF Inv, OrderInv, ChildrenFirst, Kids
  <2>6. OutInv'  BY <2>2 DEF Inv, OutInv
  <2>7. Acyclic'  BY DEF Inv, Acyclic, NoCycle
  <2>8. OrderIsTopological'
    BY DEF Inv, OrderIsTopological, ChildrenFirst, Kids
  <2>9. AllWritten'  BY DEF Inv, AllWritten
  <2> QED  BY <2>1, <2>3, <2>4, <2>5, <2>6, <2>7, <2>8, <2>9 DEF Inv
<1> QED  BY <1>1, <1>2, <1>3, <1>4, <1>5, <1>6, <1>7, <1>8, <1>9, <1>10 DEF Next

LEMMA Invariance == Spec => []Inv
BY InvInit, InvNext, PTL DEF Spec

\* The shape of the state, whatever edges are added and refused: no child and
\* no node is listed twice.
THEOREM Typing == Spec => []TypeOK
<1>1. Inv => TypeOK  BY DEF Inv, ShapeInv
<1> QED  BY <1>1, Invariance, PTL

\* hasCycle misses no cycle: the graph addChild leaves behind has none.
THEOREM NoCycles == Spec => []Acyclic
<1>1. Inv => Acyclic  BY DEF Inv
<1> QED  BY <1>1, Invariance, PTL

\* The order that genCode works from, and keeps while it is not stale, has
\* every node after its children.
THEOREM Topological == Spec => []OrderIsTopological
<1>1. Inv => OrderIsTopological  BY DEF Inv
<1> QED  BY <1>1, Invariance, PTL

\* genCode writes the code of all the types of the order.
THEOREM Written == Spec => []AllWritten
<1>1. Inv => AllWritten  BY DEF Inv
<1> QED  BY <1>1, Invariance, PTL

\* An edge is backed out only when it closes a cycle.
THEOREM OnlyCyclesRefused == Spec => RefusesOnlyCycles
<1>1. Inv /\ [Next]_vars => [CycleFound => ~NoCycle(children, Node)]_vars
  <2> SUFFICES ASSUME Inv, CycleFound  PROVE ~NoCycle(children, Node)
    OBVIOUS
  <2>1. /\ TypeOK /\ stack # <<>> /\ Top.next <= Len(children[Top.node])
        /\ children[Top.node][Top.next] \in Ancestors
    BY DEF Inv, ShapeInv, CycleFound, ClosesCycle
  <2>2. PICK L \in Nat : L = Len(stack)  BY <2>1, StackFacts
  <2>3. /\ stack \in Seq(Frame) /\ L >= 1 /\ Len(stack) = L
        /\ Top = stack[L] /\ Top.node \in Node
        /\ Top.next \in Nat /\ Top.next >= 1
    BY <2>1, <2>2, StackFacts
  <2>4. children \in [Node -> Seq(Node)]  BY <2>1 DEF TypeOK
  <2> DEFINE c == children[Top.node][Top.next]
  <2>5. c \in Elems(children[Top.node])
    <3>1. children[Top.node] \in Seq(Node)  BY <2>3, <2>4
    <3>2. /\ Len(children[Top.node]) \in Nat
          /\ DOMAIN children[Top.node] = 1 .. Len(children[Top.node])
      BY <3>1, LenProperties
    <3>3. Top.next \in DOMAIN children[Top.node]  BY <2>1, <2>3, <3>2
    <3> QED  BY <3>3 DEF Elems
  <2>6. c \in NodesOf(stack)  BY <2>1, AncestorsAre
  <2> HIDE DEF c
  <2>7. StackOK(stack, children, Marked)  BY DEF Inv, StackInv
  <2>8. c \in Elems(children[stack[L].node])  BY <2>3, <2>5
  <2> QED  BY <2>3, <2>4, <2>6, <2>7, <2>8, BackEdge
<1> QED  BY <1>1, Invariance, PTL DEF Spec, RefusesOnlyCycles

\* Code is written after the code of everything it depends on.
THEOREM DependenciesWrittenFirst == Spec => DependenciesFirst
<1>1. Inv /\ [Next]_vars
      => [\A n \in Elems(out') \ Elems(out) : Kids(n) \subseteq Elems(out)]_vars
  <2> SUFFICES ASSUME Inv, Next, NEW n \in Elems(out') \ Elems(out)
               PROVE  Kids(n) \subseteq Elems(out)
    OBVIOUS
  <2>1. CASE Finish
    <3>1. /\ out \in Seq(Node)
          /\ out' = IF mode = "gen" /\ Top.node \notin Elems(out)
                    THEN Append(out, Top.node) ELSE out
      BY <2>1 DEF Inv, ShapeInv, TypeOK, Finish
    <3>2. Top.node \in Node /\ Kids(Top.node) \subseteq Finished
      BY <2>1, FinishFacts
    <3>3. mode = "gen" /\ out' = Append(out, Top.node)  BY <3>1
    <3>4. n = Top.node  BY <3>1, <3>2, <3>3, AppendElems
    <3>5. Elems(out) = Finished  BY <3>3 DEF Inv, OutInv
    <3> QED  BY <3>2, <3>4, <3>5
  <2>2. CASE Reset
    BY <2>2, EmptyElems DEF Reset
  <2>3. CASE ~Finish /\ ~Reset
    <3>1. out' = out
      BY <2>3 DEF Next, NewNode, AddChild, InsertEdge, GenCode, NextRoot, NextChild,
         CycleFound, Done
    <3> QED  BY <3>1
  <2> QED  BY <2>1, <2>2, <2>3
<1> QED  BY <1>1, Invariance, PTL DEF Spec, DependenciesFirst
=============================================================================
