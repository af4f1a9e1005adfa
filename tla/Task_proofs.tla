----------------------------- MODULE Task_proofs -----------------------------
(***************************************************************************)
(* For any number of coroutines, channels of any size, select statements,  *)
(* closed channels and panics: the state of the runtime keeps its shape,   *)
(* no buffer exceeds its capacity, no coroutine waits for what is there,   *)
(* who waits is queued, who was answered runnable, and no value is handed  *)
(* over twice. Where nothing is closed or timed, Go code is given the      *)
(* select statement of GoSelect.                                           *)
(***************************************************************************)
EXTENDS Task, FiniteSetTheorems, SequenceTheorems, TLAPS

\* The inductive invariant. NoMissedRendezvous is what keeps a buffer within
\* its capacity; the shape of the alts is what keeps NoMissedRendezvous.
Inv ==
    /\ TypeOK
    /\ IsFiniteSet(queued)
    /\ NoMissedRendezvous

Value == Message \cup {Nil, TIMEOUT}
-----------------------------------------------------------------------------
\* A function maps a finite set onto a finite set.
LEMMA FiniteImage ==
    ASSUME NEW S, IsFiniteSet(S), NEW T, NEW f \in [S -> T],
           \A y \in T : \E x \in S : f[x] = y
    PROVE  IsFiniteSet(T)
<1>1. f \in Surjection(S, T)
  BY DEF Surjection
<1> QED BY <1>1, FS_Surjection

\* The alts that a select statement queues.
LEMMA AltsOfType ==
    ASSUME NEW t \in Task, NEW n \in 1 .. MaxOps, NEW s \in Stmt
    PROVE  /\ AltsOf(t, n, s) \subseteq Alt
           /\ IsFiniteSet(AltsOf(t, n, s))
           /\ \A a \in AltsOf(t, n, s) : a.task = t /\ a.n = n /\ ~a.closed
<1> DEFINE alt(i) == [task |-> t, n |-> n, i |-> i, c |-> s.cases[i].c,
                      op |-> s.cases[i].op, to |-> s.cases[i].to, closed |-> FALSE]
           f == [i \in DOMAIN s.cases |-> alt(i)]
<1>1. /\ s.cases \in Seq(Case)
      /\ \A i \in DOMAIN s.cases : s.cases[i].to => s.cases[i].op = RECV
  BY StmtAssumption
<1>2. /\ DOMAIN s.cases = 1 .. Len(s.cases)
      /\ Len(s.cases) \in Nat
      /\ \A i \in DOMAIN s.cases : i \in Nat /\ s.cases[i] \in Case
  BY <1>1, LenProperties
<1>3. IsFiniteSet(DOMAIN s.cases)
  BY <1>2, FS_Interval
<1>4. f \in [DOMAIN s.cases -> AltsOf(t, n, s)]
  BY DEF AltsOf
<1>5. IsFiniteSet(AltsOf(t, n, s))
  <2>1. ASSUME NEW y \in AltsOf(t, n, s)
        PROVE  \E i \in DOMAIN s.cases : f[i] = y
    BY DEF AltsOf
  <2> DEFINE D == DOMAIN s.cases
             T == AltsOf(t, n, s)
  <2>2. f \in [D -> T] /\ IsFiniteSet(D) /\ \A y \in T : \E i \in D : f[i] = y
    BY <2>1, <1>3, <1>4
  <2> HIDE DEF f, D, T
  <2>3. IsFiniteSet(T)
    BY <2>2, FiniteImage
  <2> QED BY <2>3 DEF T
<1>6. ASSUME NEW i \in DOMAIN s.cases
      PROVE  alt(i) \in Alt
  <2>1. /\ s.cases[i].c \in Chan
        /\ s.cases[i].op \in {RECV, SEND}
        /\ s.cases[i].to \in BOOLEAN
    BY <1>2 DEF Case
  <2> QED BY <2>1, <1>1, <1>2 DEF Alt
<1>7. \A a \in AltsOf(t, n, s) : a.task = t /\ a.n = n /\ ~a.closed
  BY DEF AltsOf
<1>8. AltsOf(t, n, s) \subseteq Alt
  BY <1>6 DEF AltsOf
<1> QED BY <1>5, <1>7, <1>8

\* What altexec does to a channel leaves nobody waiting for what is there.
LEMMA CopyFacts ==
    ASSUME Inv, NEW a \in Alt, ~a.closed, CanExec(a), NEW o \in Partners(a)
    PROVE  /\ CopyFor(a, o).value \in Value
           /\ CopyFor(a, o).buf \in Seq(Message)
           /\ Len(CopyFor(a, o).buf) <= Size[a.c]
           /\ \A x \in queued : x.c = a.c =>
                 /\ x.op = RECV => CopyFor(a, o).buf = <<>>
                 /\ x.op = SEND => Len(CopyFor(a, o).buf) = Size[a.c]
           /\ o # NoAlt => o \in queued
<1> DEFINE q == buf[a.c]
           k == Size[a.c]
<1>1. /\ a.c \in Chan /\ a.op \in {RECV, SEND} /\ a.to \in BOOLEAN
      /\ a.task \in Task /\ a.n \in 1 .. MaxOps /\ a.i \in Nat
      /\ a.to => a.op = RECV
  BY DEF Alt
<1>2. q \in Seq(Message) /\ Len(q) <= k /\ k \in Nat /\ Len(q) \in Nat
  BY <1>1, TaskAssumption DEF Inv, TypeOK
<1>3. \A x \in queued : /\ x \in Alt
                        /\ x.c = a.c /\ x.op = RECV => q = <<>>
                        /\ x.c = a.c /\ x.op = SEND => Len(q) = k
  BY DEF Inv, TypeOK, NoMissedRendezvous
<1>4. q = <<>> <=> Len(q) = 0
  BY <1>2, EmptySeq
<1>5. RECV # SEND /\ a # NoAlt /\ NoAlt \notin Alt
  BY DistinctAssumption
<1>6. \A x \in Alt : Payload(x) \in Message
  BY DEF Alt, Payload, Message
<1>7. CASE a.op = RECV
  <2>1. CopyFor(a, o) = Copy(a, o, a.c)
    BY <1>7 DEF CopyFor
  <2>2. CASE a.to /\ o = NoAlt
    <3>1. CopyFor(a, o) = [value |-> TIMEOUT, buf |-> q]
      BY <2>1, <2>2, <1>5 DEF Copy
    <3> QED BY <3>1, <1>2, <1>3, <2>2 DEF Value
  <2>3. CASE ~a.to /\ o = NoAlt
    <3>1. \A x \in queued : ~(x.c = a.c /\ x.op = SEND)
      BY <2>3, <1>5, <1>7, <1>3 DEF Partners, GetOtherAlts, GetAlts
    <3>2. Len(q) > 0
      BY <3>1, <1>7, <1>5 DEF CanExec, GetOtherAlts, GetAlts
    <3>3. CopyFor(a, o) = [value |-> Head(q), buf |-> Tail(q)]
      BY <2>1, <2>3, <1>5 DEF Copy
    <3>4. /\ Head(q) \in Message
          /\ Tail(q) \in Seq(Message)
          /\ Len(Tail(q)) = Len(q) - 1
      BY <3>2, <1>2, <1>4, HeadTailProperties
    <3>5. \A x \in queued : ~(x.c = a.c /\ x.op = RECV)
      BY <3>2, <1>3, <1>4
    <3> QED BY <3>1, <3>3, <3>4, <3>5, <1>2, <2>3 DEF Value
  <2>4. CASE o # NoAlt
    <3>1. /\ o \in queued /\ o \in Alt /\ o.c = a.c /\ o.op = SEND
          /\ a.to => o.to
      BY <2>4, <1>3, <1>5, <1>7 DEF Partners, GetOtherAlts, GetAlts
    <3>2. ~a.to
      BY <3>1, <1>5 DEF Alt
    <3>3. Len(q) = k
      BY <3>1, <1>3
    <3>4. CASE q = <<>>
      <4>1. CopyFor(a, o) = [value |-> Payload(o), buf |-> q]
        BY <2>1, <2>4, <3>4, <1>5 DEF Copy
      <4> QED BY <4>1, <3>1, <1>2, <1>3, <1>6 DEF Value
    <3>5. CASE q # <<>>
      <4>1. CopyFor(a, o) = [value |-> Head(q), buf |-> Append(Tail(q), Payload(o))]
        BY <2>1, <2>4, <3>2, <3>5, <1>5 DEF Copy
      <4>2. /\ Head(q) \in Message
            /\ Tail(q) \in Seq(Message)
            /\ Len(Tail(q)) = Len(q) - 1
        BY <3>5, <1>2, HeadTailProperties
      <4>3. /\ Append(Tail(q), Payload(o)) \in Seq(Message)
            /\ Len(Append(Tail(q), Payload(o))) = Len(q)
        BY <4>2, <3>1, <1>2, <1>6, AppendProperties
      <4>4. \A x \in queued : ~(x.c = a.c /\ x.op = RECV)
        BY <3>5, <1>3
      <4> QED BY <4>1, <4>2, <4>3, <4>4, <3>1, <3>3, <1>2 DEF Value
    <3> QED BY <3>4, <3>5
  <2> QED BY <2>2, <2>3, <2>4, <1>1
<1>8. CASE a.op = SEND
  <2>1. CopyFor(a, o) = Copy(o, a, a.c) /\ ~a.to
    BY <1>1, <1>8, <1>5 DEF CopyFor
  <2>2. CASE o = NoAlt
    <3>1. \A x \in queued : ~(x.c = a.c /\ x.op = RECV)
      BY <2>1, <2>2, <1>5, <1>8, <1>3 DEF Partners, GetOtherAlts, GetAlts
    <3>2. Len(q) < k
      BY <3>1, <1>8, <1>5 DEF CanExec, GetOtherAlts, GetAlts
    <3>3. CopyFor(a, o) = [value |-> Nil, buf |-> Append(q, Payload(a))]
      BY <2>1, <2>2, <1>5 DEF Copy
    <3>4. /\ Append(q, Payload(a)) \in Seq(Message)
          /\ Len(Append(q, Payload(a))) = Len(q) + 1
      BY <1>2, <1>6, AppendProperties
    <3>5. \A x \in queued : ~(x.c = a.c /\ x.op = SEND)
      BY <3>2, <1>2, <1>3
    <3> QED BY <3>1, <3>2, <3>3, <3>4, <3>5, <1>2, <2>2 DEF Value
  <2>3. CASE o # NoAlt
    <3>1. o \in queued /\ o \in Alt /\ o.c = a.c /\ o.op = RECV
      BY <2>1, <2>3, <1>3, <1>5, <1>8 DEF Partners, GetOtherAlts, GetAlts
    <3>2. q = <<>>
      BY <3>1, <1>3
    <3>3. CopyFor(a, o) = [value |-> Payload(a), buf |-> q]
      BY <2>1, <2>3, <3>2, <1>5 DEF Copy
    <3> QED BY <3>1, <3>3, <1>2, <1>3, <1>6 DEF Value
  <2> QED BY <2>2, <2>3
<1> QED BY <1>1, <1>7, <1>8
-----------------------------------------------------------------------------
\* The record of a select after it was resolved.
LEMMA ResolvedType ==
    ASSUME NEW x \in Selection, NEW i \in Nat, NEW v \in Value
    PROVE  /\ [x EXCEPT !.resolved = i, !.value = v] \in Selection
           /\ [x EXCEPT !.resolved = i, !.value = v] # NoSel
BY DistinctAssumption DEF Selection, Value

\* The record of a select that begins to wait.
LEMMA UnresolvedType ==
    ASSUME NEW s \in Stmt, NEW p \in BOOLEAN
    PROVE  LET x == [stmt |-> s, resolved |-> 0, value |-> Nil, parked |-> p]
           IN  x \in Selection /\ x # NoSel
<1> DEFINE x == [stmt |-> s, resolved |-> 0, value |-> Nil, parked |-> p]
<1>1. x \in Selection
  BY DEF Selection
<1>2. NoSel \notin Selection
  BY DistinctAssumption
<1> HIDE DEF x
<1>3. x # NoSel
  BY <1>1, <1>2
<1> QED BY <1>1, <1>3 DEF x

\* Alts leave the queues as whole alt_arrays, a coroutine is made ready and
\* its select is resolved.
LEMMA WakeType ==
    ASSUME Inv, NEW o \in queued, NEW v \in Value, Wake(o, v)
    PROVE  /\ queued' \subseteq queued
           /\ ready' \in [Task -> Nat]
           /\ sel' \in [Task -> Selection \cup {NoSel}]
           /\ \A t \in Task : sel[t] # NoSel => sel'[t] # NoSel
<1>1. o \in Alt /\ o.task \in Task /\ o.i \in Nat
  BY DEF Inv, TypeOK, Alt
<1>2. ready \in [Task -> Nat] /\ sel \in [Task -> Selection \cup {NoSel}]
  BY DEF Inv, TypeOK
<1>3. queued' \subseteq queued
  BY DEF Wake, Dequeue
<1>4. ready' \in [Task -> Nat]
  BY <1>1, <1>2 DEF Wake, MakeReady
<1>5. CASE ~IsCurrent(o)
  BY <1>2, <1>3, <1>4, <1>5 DEF Wake
<1>6. CASE IsCurrent(o)
  <2> DEFINE w == IF o.op = RECV THEN v ELSE sel[o.task].value
             x == [sel[o.task] EXCEPT !.resolved = o.i, !.value = w]
  <2>1. sel[o.task] \in Selection
    BY <1>1, <1>2, <1>6 DEF IsCurrent
  <2>2. w \in Value
    BY <2>1 DEF Selection, Value
  <2>3. x \in Selection /\ x # NoSel
    <3> HIDE DEF w
    <3> QED BY <1>1, <2>1, <2>2, ResolvedType
  <2>4. sel' = [sel EXCEPT ![o.task] = x]
    BY <1>1, <1>2, <1>6, <2>1 DEF Wake, Selection
  <2> HIDE DEF x
  <2> QED BY <1>1, <1>2, <1>3, <1>4, <2>3, <2>4
<1> QED BY <1>5, <1>6

\* Fewer alts in the queues, and the same buffers.
LEMMA FewerQueued ==
    ASSUME Inv, queued' \subseteq queued, UNCHANGED buf
    PROVE  IsFiniteSet(queued)' /\ NoMissedRendezvous'
<1>1. IsFiniteSet(queued')
  BY FS_Subset DEF Inv
<1>2. NoMissedRendezvous'
  BY DEF Inv, NoMissedRendezvous
<1> QED BY <1>1, <1>2

\* Control stays where it is.
LEMMA SameControl ==
    ASSUME Inv, UNCHANGED <<sched, status>>
    PROVE  /\ sched' \in {"suspended", "running", "normal", "dead"}
           /\ status' \in [Task -> {"none", "suspended", "running", "dead"}]
           /\ OneInControl'
BY DEF Inv, TypeOK, OneInControl, HasControl

\* The coroutine in control goes back to its scheduler.
LEMMA YieldControl ==
    ASSUME Inv, NEW t \in Task, HasControl(t),
           NEW s \in {"suspended", "dead"}, YieldAs(t, s)
    PROVE  /\ sched' \in {"suspended", "running", "normal", "dead"}
           /\ status' \in [Task -> {"none", "suspended", "running", "dead"}]
           /\ OneInControl'
BY DEF Inv, TypeOK, OneInControl, HasControl, YieldAs

\* A statement is counted.
LEMMA BeginOpType ==
    ASSUME Inv, NEW t \in Task, BeginOp(t)
    PROVE  /\ ops' \in [Task -> 0 .. MaxOps]
           /\ ops[t] + 1 \in 1 .. MaxOps
           /\ HasControl(t)
BY TaskAssumption DEF Inv, TypeOK, BeginOp
-----------------------------------------------------------------------------
\* A select that finds a case ready.
LEMMA SelectReadyStep ==
    ASSUME Inv, NEW t \in Task, NEW s \in Stmt, SelectReady(t, s)
    PROVE  Inv'
<1>1. PICK a \in AltsOf(t, ops[t] + 1, s) : ExecCase(t, s, a)
  BY DEF SelectReady
<1>2. ops' \in [Task -> 0 .. MaxOps] /\ ops[t] + 1 \in 1 .. MaxOps
  BY BeginOpType DEF SelectReady
<1>3. a \in Alt /\ ~a.closed
  BY <1>2, AltsOfType
<1>4. CanExec(a) /\ UNCHANGED <<sched, status, timer, closed>>
  BY <1>1 DEF ExecCase
<1>5. PICK o \in Partners(a) :
        /\ buf' = [buf EXCEPT ![a.c] = CopyFor(a, o).buf]
        /\ IF o = NoAlt THEN UNCHANGED <<sel, queued, ready>>
           ELSE Wake(o, CopyFor(a, o).value)
  BY <1>1 DEF ExecCase
<1>6. /\ CopyFor(a, o).value \in Value
      /\ CopyFor(a, o).buf \in Seq(Message)
      /\ Len(CopyFor(a, o).buf) <= Size[a.c]
      /\ \A x \in queued : x.c = a.c =>
            /\ x.op = RECV => CopyFor(a, o).buf = <<>>
            /\ x.op = SEND => Len(CopyFor(a, o).buf) = Size[a.c]
      /\ o # NoAlt => o \in queued
  BY <1>3, <1>4, CopyFacts
<1> DEFINE q == CopyFor(a, o).buf
<1> HIDE DEF q
<1>7. /\ buf \in [Chan -> Seq(Message)]
      /\ \A c \in Chan : Len(buf[c]) <= Size[c]
      /\ a.c \in Chan
  BY <1>3 DEF Inv, TypeOK, Alt
<1>8. /\ buf' \in [Chan -> Seq(Message)]
      /\ \A c \in Chan : buf'[c] = IF c = a.c THEN q ELSE buf[c]
      /\ \A c \in Chan : Len(buf'[c]) <= Size[c]
  BY <1>5, <1>6, <1>7 DEF q
<1>9. /\ queued' \subseteq queued
      /\ ready' \in [Task -> Nat]
      /\ sel' \in [Task -> Selection \cup {NoSel}]
      /\ \A u \in Task : sel[u] # NoSel => sel'[u] # NoSel
  <2>1. CASE o = NoAlt
    BY <2>1, <1>5 DEF Inv, TypeOK
  <2>2. CASE o # NoAlt
    <3>1. Wake(o, CopyFor(a, o).value)
      BY <2>2, <1>5
    <3> QED BY <3>1, <2>2, <1>6, WakeType
  <2> QED BY <2>1, <2>2
<1>10. TypeOK'
  <2>1. timer' \subseteq {u \in Task : sel'[u] # NoSel}
    BY <1>4, <1>9 DEF Inv, TypeOK
  <2>2. queued' \subseteq Alt /\ closed' \subseteq Closing
    BY <1>4, <1>9 DEF Inv, TypeOK
  <2> QED BY <2>1, <2>2, <1>2, <1>4, <1>8, <1>9, SameControl DEF TypeOK
<1>11. IsFiniteSet(queued')
  BY <1>9, FS_Subset DEF Inv
<1>12. NoMissedRendezvous'
  <2>1. \A x \in queued' : /\ x \in queued /\ x.c \in Chan
                           /\ x.op = RECV => buf[x.c] = <<>>
                           /\ x.op = SEND => Len(buf[x.c]) = Size[x.c]
    BY <1>9 DEF Inv, TypeOK, NoMissedRendezvous, Alt
  <2>2. \A x \in queued' : x.op = RECV => buf'[x.c] = <<>>
    BY <2>1, <1>6, <1>8 DEF q
  <2>3. \A x \in queued' : x.op = SEND => Len(buf'[x.c]) = Size[x.c]
    BY <2>1, <1>6, <1>8 DEF q
  <2>4. \A x, y \in queued' :
          x.c = y.c /\ x.op # y.op => x.task = y.task /\ x.n = y.n
    BY <2>1 DEF Inv, NoMissedRendezvous
  <2> QED BY <2>2, <2>3, <2>4 DEF NoMissedRendezvous
<1> QED BY <1>10, <1>11, <1>12 DEF Inv

\* A select that finds no case ready queues its alts and yields.
LEMMA SelectBlockStep ==
    ASSUME Inv, NEW t \in Task, NEW s \in Stmt, SelectBlock(t, s)
    PROVE  Inv'
<1> DEFINE new == AltsOf(t, ops[t] + 1, s)
           x == [stmt |-> s, resolved |-> 0, value |-> Nil, parked |-> FALSE]
<1>1. /\ BeginOp(t)
      /\ YieldAs(t, "suspended")
      /\ NoneReady(t, s)
      /\ queued' = queued \cup new
      /\ sel' = [sel EXCEPT ![t] = x]
      /\ timer' \subseteq timer \cup {t}
      /\ UNCHANGED <<ready, buf, got, closed>>
  BY DEF SelectBlock
<1>2. ops' \in [Task -> 0 .. MaxOps] /\ ops[t] + 1 \in 1 .. MaxOps /\ HasControl(t)
  BY <1>1, BeginOpType
<1>3. /\ new \subseteq Alt
      /\ IsFiniteSet(new)
      /\ \A a \in new : a.task = t /\ a.n = ops[t] + 1
  BY <1>2, AltsOfType
<1>4. \A a \in new : ~CanExec(a)
  BY <1>1 DEF NoneReady
<1> HIDE DEF new
<1>5. x \in Selection /\ x # NoSel
  BY UnresolvedType
<1> HIDE DEF x
<1>6. IsFiniteSet(queued')
  BY <1>1, <1>3, FS_Union DEF Inv
<1>7. TypeOK'
  <2>1. /\ sel' \in [Task -> Selection \cup {NoSel}]
        /\ timer' \subseteq {u \in Task : sel'[u] # NoSel}
    BY <1>1, <1>5 DEF Inv, TypeOK
  <2>2. queued' \subseteq Alt
    BY <1>1, <1>3 DEF Inv, TypeOK
  <2>3. /\ ready' \in [Task -> Nat]
        /\ buf' \in [Chan -> Seq(Message)]
        /\ \A c \in Chan : Len(buf'[c]) <= Size[c]
        /\ closed' \subseteq Closing
    BY <1>1 DEF Inv, TypeOK
  <2>4. HasControl(t) /\ YieldAs(t, "suspended")
    BY <1>1, <1>2
  <2>5. /\ sched' \in {"suspended", "running", "normal", "dead"}
        /\ status' \in [Task -> {"none", "suspended", "running", "dead"}]
        /\ OneInControl'
    BY <2>4, YieldControl
  <2> QED BY <2>1, <2>2, <2>3, <2>5, <1>2 DEF TypeOK
<1>8. NoMissedRendezvous'
  <2>1. \A a \in Alt : /\ a.c \in Chan /\ a.op \in {RECV, SEND}
                       /\ buf[a.c] \in Seq(Message) /\ Len(buf[a.c]) \in Nat
                       /\ Size[a.c] \in Nat /\ Len(buf[a.c]) <= Size[a.c]
                       /\ buf[a.c] = <<>> <=> Len(buf[a.c]) = 0
    BY TaskAssumption, EmptySeq DEF Inv, TypeOK, Alt
  <2>2. ASSUME NEW a \in new
        PROVE  /\ a.op = RECV => buf[a.c] = <<>>
               /\ a.op = SEND => Len(buf[a.c]) = Size[a.c]
    <3>1. a \in Alt /\ ~CanExec(a)
      BY <1>3, <1>4
    <3> QED BY <3>1, <2>1, DistinctAssumption DEF CanExec
  <2>3. ASSUME NEW a \in new, NEW o \in queued
        PROVE  ~(a.c = o.c /\ a.op # o.op)
    <3>1. a \in Alt /\ ~CanExec(a) /\ o \in Alt
      BY <1>3, <1>4 DEF Inv, TypeOK
    <3>2. /\ o.op = RECV => buf[o.c] = <<>>
          /\ o.op = SEND => Len(buf[o.c]) = Size[o.c]
      BY DEF Inv, NoMissedRendezvous
    <3>3. CASE Size[a.c] = 0
      <4>1. GetOtherAlts(a.c, a.op) = {}
        BY <3>1, <3>3 DEF CanExec
      <4> QED BY <4>1, <3>1, <2>1, DistinctAssumption DEF GetOtherAlts, GetAlts
    <3>4. CASE Size[a.c] # 0
      BY <3>1, <3>2, <3>4, <2>1, <2>2, DistinctAssumption
    <3> QED BY <3>3, <3>4
  <2>4. \A a \in queued' : /\ a.op = RECV => buf[a.c] = <<>>
                           /\ a.op = SEND => Len(buf[a.c]) = Size[a.c]
    BY <2>2, <1>1 DEF Inv, NoMissedRendezvous
  <2>5. \A a, o \in queued :
          a.c = o.c /\ a.op # o.op => a.task = o.task /\ a.n = o.n
    BY DEF Inv, NoMissedRendezvous
  <2>6. \A a, o \in queued' :
          a.c = o.c /\ a.op # o.op => a.task = o.task /\ a.n = o.n
    BY <2>3, <2>5, <1>1, <1>3
  <2> QED BY <2>4, <2>6, <1>1 DEF NoMissedRendezvous
<1> QED BY <1>6, <1>7, <1>8 DEF Inv

\* select{} yields with nothing to wait for.
LEMMA SelectForeverStep ==
    ASSUME Inv, NEW t \in Task, NEW s \in Stmt, SelectForever(t, s)
    PROVE  Inv'
<1> DEFINE x == [stmt |-> s, resolved |-> 0, value |-> Nil, parked |-> TRUE]
<1>1. /\ BeginOp(t)
      /\ YieldAs(t, "suspended")
      /\ ready' = [ready EXCEPT ![t] = 0]
      /\ sel' = [sel EXCEPT ![t] = x]
      /\ UNCHANGED <<timer, queued, buf, got, closed>>
  BY DEF SelectForever
<1>2. x \in Selection /\ x # NoSel
  BY UnresolvedType
<1> HIDE DEF x
<1>3. ops' \in [Task -> 0 .. MaxOps] /\ HasControl(t)
  BY <1>1, BeginOpType
<1>4. /\ sel' \in [Task -> Selection \cup {NoSel}]
      /\ timer' \subseteq {u \in Task : sel'[u] # NoSel}
  BY <1>1, <1>2 DEF Inv, TypeOK
<1>5. /\ sched' \in {"suspended", "running", "normal", "dead"}
      /\ status' \in [Task -> {"none", "suspended", "running", "dead"}]
      /\ OneInControl'
  <2>1. HasControl(t) /\ YieldAs(t, "suspended")
    BY <1>1, <1>3
  <2> QED BY <2>1, YieldControl
<1>6. TypeOK'
  BY <1>1, <1>3, <1>4, <1>5 DEF Inv, TypeOK
<1> QED BY <1>1, <1>6, FewerQueued DEF Inv

\* close with receivers waiting: their alts stay queued, and change a flag
\* that NoMissedRendezvous does not look at.
LEMMA CloseReceiversStep ==
    ASSUME Inv, NEW c \in Chan, CloseReceivers(c)
    PROVE  /\ IsFiniteSet(queued)' /\ NoMissedRendezvous'
           /\ queued' \subseteq Alt
           /\ ready' \in [Task -> Nat]
           /\ sel' \in [Task -> Selection \cup {NoSel}]
           /\ \A u \in Task : sel[u] # NoSel => sel'[u] # NoSel
           /\ UNCHANGED buf
<1> DEFINE rs == GetAlts(c, RECV)
           told == {r.task : r \in {a \in rs : IsCurrent(a)}}
           mark(r) == [r EXCEPT !.closed = TRUE]
           marked == {mark(r) : r \in rs}
           v(u) == IF u \in timer THEN TIMEOUT ELSE Nil
<1>1. /\ queued' = (queued \ rs) \cup marked
      /\ MakeAllReady(rs)
      /\ sel' = [u \in Task |-> IF u \in told
                    THEN [sel[u] EXCEPT !.resolved = 1, !.value = v(u)]
                    ELSE sel[u]]
      /\ UNCHANGED buf
  BY DEF CloseReceivers
<1>2. queued \subseteq Alt /\ IsFiniteSet(queued) /\ rs \subseteq queued
  BY DEF Inv, TypeOK, GetAlts
<1>3. \A r \in rs : /\ mark(r) \in Alt /\ mark(r).c = r.c /\ mark(r).op = r.op
                    /\ mark(r).task = r.task /\ mark(r).n = r.n
  BY <1>2 DEF Alt
<1>4. IsFiniteSet(rs) /\ IsFiniteSet(queued \ rs)
  BY <1>2, FS_Subset
<1>5. IsFiniteSet(queued')
  <2> DEFINE f == [r \in rs |-> mark(r)]
             R == rs
             M == marked
  <2>1. f \in [R -> M] /\ IsFiniteSet(R) /\ \A y \in M : \E r \in R : f[r] = y
    BY <1>4
  <2> HIDE DEF f, R, M
  <2>2. IsFiniteSet(M)
    BY <2>1, FiniteImage
  <2>3. IsFiniteSet(marked)
    BY <2>2 DEF M
  <2> HIDE DEF marked, rs
  <2> QED BY <2>3, <1>1, <1>4, FS_Union
<1>6. \A x \in queued' : \E y \in queued :
         x \in Alt /\ x.c = y.c /\ x.op = y.op /\ x.task = y.task /\ x.n = y.n
  <2> SUFFICES ASSUME NEW x \in queued'
               PROVE  \E y \in queued : /\ x \in Alt /\ x.c = y.c /\ x.op = y.op
                                        /\ x.task = y.task /\ x.n = y.n
    OBVIOUS
  <2>1. CASE x \in queued
    BY <2>1, <1>2
  <2>2. CASE x \notin queued
    <3>1. PICK r \in rs : x = mark(r)
      BY <2>2, <1>1
    <3> QED BY <3>1, <1>2, <1>3
  <2> QED BY <2>1, <2>2
<1>7. NoMissedRendezvous'
  <2> HIDE DEF rs, marked
  <2>1. /\ \A a \in queued : a.op = RECV => buf[a.c] = <<>>
        /\ \A a \in queued : a.op = SEND => Len(buf[a.c]) = Size[a.c]
        /\ \A a, o \in queued :
              a.c = o.c /\ a.op # o.op => a.task = o.task /\ a.n = o.n
    BY DEF Inv, NoMissedRendezvous
  <2>2. buf' = buf
    BY <1>1
  <2>3. \A x \in queued' : /\ x.op = RECV => buf[x.c] = <<>>
                           /\ x.op = SEND => Len(buf[x.c]) = Size[x.c]
    BY <2>1, <1>6
  <2>4. \A x, z \in queued' :
          x.c = z.c /\ x.op # z.op => x.task = z.task /\ x.n = z.n
    <3> SUFFICES ASSUME NEW x \in queued', NEW z \in queued',
                        x.c = z.c, x.op # z.op
                 PROVE  x.task = z.task /\ x.n = z.n
      OBVIOUS
    <3>1. PICK x1 \in queued : /\ x.c = x1.c /\ x.op = x1.op
                              /\ x.task = x1.task /\ x.n = x1.n
      BY <1>6
    <3>2. PICK z1 \in queued : /\ z.c = z1.c /\ z.op = z1.op
                              /\ z.task = z1.task /\ z.n = z1.n
      BY <1>6
    <3> QED BY <3>1, <3>2, <2>1
  <2> QED BY <2>2, <2>3, <2>4 DEF NoMissedRendezvous
<1>8. ready' \in [Task -> Nat]
  <2>1. \A u \in Task : Cardinality({r \in rs : r.task = u}) \in Nat
    <3> SUFFICES ASSUME NEW u \in Task
                 PROVE  Cardinality({r \in rs : r.task = u}) \in Nat
      OBVIOUS
    <3> DEFINE S == {r \in rs : r.task = u}
    <3>1. S \in SUBSET rs
      OBVIOUS
    <3> HIDE DEF S, rs
    <3>2. IsFiniteSet(S)
      BY <3>1, <1>4, FS_Subset
    <3>3. Cardinality(S) \in Nat
      BY <3>2, FS_CardinalityType
    <3> QED BY <3>3 DEF S
  <2>2. ready \in [Task -> Nat]
    BY DEF Inv, TypeOK
  <2> DEFINE n(u) == Cardinality({r \in rs : r.task = u})
  <2>3. ready' = [u \in Task |-> ready[u] + n(u)]
    BY <1>1 DEF MakeAllReady
  <2>4. \A u \in Task : n(u) \in Nat
    BY <2>1
  <2> HIDE DEF n
  <2> QED BY <2>2, <2>3, <2>4
<1>9. ASSUME NEW u \in Task
      PROVE  /\ sel'[u] \in Selection \cup {NoSel}
             /\ sel[u] # NoSel => sel'[u] # NoSel
  <2>1. sel[u] \in Selection \cup {NoSel}
    BY DEF Inv, TypeOK
  <2>2. CASE u \in told
    <3>1. sel[u] \in Selection
      BY <2>1, <2>2, <1>2 DEF IsCurrent
    <3>2. v(u) \in Value
      BY DEF Value
    <3>3. sel'[u] = [sel[u] EXCEPT !.resolved = 1, !.value = v(u)]
      BY <2>2, <1>1
    <3> DEFINE w == v(u)
               y == [sel[u] EXCEPT !.resolved = 1, !.value = w]
    <3>4. w \in Value
      BY <3>2
    <3> HIDE DEF w
    <3>5. y \in Selection /\ y # NoSel
      BY <3>1, <3>4, ResolvedType
    <3>6. sel'[u] = y
      BY <3>3 DEF w
    <3> HIDE DEF y
    <3> QED BY <3>5, <3>6
  <2>3. CASE u \notin told
    BY <2>1, <2>3, <1>1
  <2> QED BY <2>2, <2>3
<1>10. sel' \in [Task -> Selection \cup {NoSel}]
  BY <1>1, <1>9
<1> QED BY <1>1, <1>5, <1>6, <1>7, <1>8, <1>9, <1>10

\* close with a sender waiting: it belongs to a select that also receives, so
\* the buffer is empty and nothing is put into it.
LEMMA CloseOwnSenderStep ==
    ASSUME Inv, NEW c \in Chan, CloseOwnSender(c)
    PROVE  /\ IsFiniteSet(queued)' /\ NoMissedRendezvous'
           /\ queued' \subseteq Alt
           /\ ready' \in [Task -> Nat]
           /\ sel' \in [Task -> Selection \cup {NoSel}]
           /\ \A u \in Task : sel[u] # NoSel => sel'[u] # NoSel
           /\ UNCHANGED buf
<1>1. CASE UNCHANGED <<queued, ready, sel, buf>>
  BY <1>1, FewerQueued DEF Inv, TypeOK
<1>2. CASE ~UNCHANGED <<queued, ready, sel, buf>>
  <2>1. PICK r \in GetAlts(c, RECV), s \in GetAlts(c, SEND) :
          LET copy == Copy([r EXCEPT !.closed = TRUE], s, c)
          IN  /\ Dequeue(s)
              /\ MakeReady(s.task)
              /\ buf' = [buf EXCEPT ![c] = copy.buf]
              /\ sel' = IF IsCurrent(s)
                        THEN [sel EXCEPT ![s.task].resolved = s.i,
                                         ![s.task].value = copy.value]
                        ELSE sel
    BY <1>2 DEF CloseOwnSender
  <2> DEFINE r1 == [r EXCEPT !.closed = TRUE]
             x == [sel[s.task] EXCEPT !.resolved = s.i, !.value = Payload(s)]
  <2>2. /\ r \in queued /\ r \in Alt /\ r.op = RECV /\ r.c = c
        /\ s \in queued /\ s \in Alt /\ s.task \in Task /\ s.i \in Nat
        /\ s.n \in 1 .. MaxOps
    BY DEF GetAlts, Inv, TypeOK, Alt
  <2>3. buf[c] = <<>>
    BY <2>2 DEF Inv, NoMissedRendezvous
  <2>4. r1 \in Alt
    BY <2>2 DEF Alt
  <2>5. r1 # NoAlt /\ s # NoAlt
    BY <2>2, <2>4, DistinctAssumption
  <2>6. Copy(r1, s, c) = [value |-> Payload(s), buf |-> buf[c]]
    BY <2>3, <2>5 DEF Copy
  <2>7. buf' = buf
    BY <2>1, <2>6 DEF Inv, TypeOK
  <2>8. queued' \subseteq queued
    BY <2>1 DEF Dequeue
  <2>9. ready' \in [Task -> Nat]
    BY <2>1, <2>2 DEF MakeReady, Inv, TypeOK
  <2>10. /\ sel' \in [Task -> Selection \cup {NoSel}]
         /\ \A u \in Task : sel[u] # NoSel => sel'[u] # NoSel
    <3>1. sel \in [Task -> Selection \cup {NoSel}]
      BY DEF Inv, TypeOK
    <3>2. CASE ~IsCurrent(s)
      BY <3>1, <3>2, <2>1
    <3>3. CASE IsCurrent(s)
      <4>1. sel[s.task] \in Selection
        BY <3>1, <3>3, <2>2 DEF IsCurrent
      <4>2. Payload(s) \in Value
        BY <2>2 DEF Payload, Value, Message
      <4>3. x \in Selection /\ x # NoSel
        <5>1. s.i \in Nat
          BY <2>2
        <5> QED BY <4>1, <4>2, <5>1, ResolvedType
      <4>4. sel' = [sel EXCEPT ![s.task] = x]
        <5>1. sel' = [sel EXCEPT ![s.task].resolved = s.i,
                                 ![s.task].value = Copy(r1, s, c).value]
          BY <3>3, <2>1
        <5>2. Copy(r1, s, c).value = Payload(s)
          BY <2>6
        <5> HIDE DEF r1
        <5> QED BY <5>1, <5>2, <3>1, <4>1, <2>2 DEF Selection
      <4> HIDE DEF x
      <4> QED BY <3>1, <4>3, <4>4, <2>2
    <3> QED BY <3>2, <3>3
  <2>11. IsFiniteSet(queued)' /\ NoMissedRendezvous'
    BY <2>7, <2>8, FewerQueued
  <2> QED BY <2>7, <2>8, <2>9, <2>10, <2>11 DEF Inv, TypeOK
<1> QED BY <1>1, <1>2

LEMMA CloseStep ==
    ASSUME Inv, NEW t \in Task, NEW c \in Chan, Close(t, c)
    PROVE  Inv'
<1>1. /\ BeginOp(t)
      /\ c \in Closing
      /\ CloseReceivers(c) \/ CloseOwnSender(c)
      /\ closed' = closed \cup {c}
      /\ UNCHANGED <<sched, status, timer, got>>
  BY DEF Close
<1>2. /\ IsFiniteSet(queued)' /\ NoMissedRendezvous'
      /\ queued' \subseteq Alt
      /\ ready' \in [Task -> Nat]
      /\ sel' \in [Task -> Selection \cup {NoSel}]
      /\ \A u \in Task : sel[u] # NoSel => sel'[u] # NoSel
      /\ UNCHANGED buf
  BY <1>1, CloseReceiversStep, CloseOwnSenderStep
<1>3. ops' \in [Task -> 0 .. MaxOps]
  BY <1>1, BeginOpType
<1>4. /\ timer' \subseteq {u \in Task : sel'[u] # NoSel}
      /\ buf' \in [Chan -> Seq(Message)]
      /\ \A d \in Chan : Len(buf'[d]) <= Size[d]
      /\ closed' \subseteq Closing
  BY <1>1, <1>2 DEF Inv, TypeOK
<1>5. /\ sched' \in {"suspended", "running", "normal", "dead"}
      /\ status' \in [Task -> {"none", "suspended", "running", "dead"}]
      /\ OneInControl'
  BY <1>1, SameControl
<1>6. TypeOK'
  BY <1>2, <1>3, <1>4, <1>5 DEF TypeOK
<1> QED BY <1>2, <1>6 DEF Inv

\* The scheduler lets timeouts expire and yields to the REPL.
LEMMA SchedulerYieldStep ==
    ASSUME Inv, SchedulerYield
    PROVE  Inv'
<1>1. PICK X \in SUBSET timer : Expire(X)
  BY DEF SchedulerYield
<1>2. /\ sched = "running" /\ sched' = "suspended"
      /\ UNCHANGED <<status, ops, buf, got, closed>>
  BY DEF SchedulerYield
<1> DEFINE y(t) == [sel[t] EXCEPT !.resolved = 1, !.value = TIMEOUT]
<1>3. /\ sel' = [t \in Task |-> IF t \in X THEN y(t) ELSE sel[t]]
      /\ ready' = [t \in Task |-> ready[t] + IF t \in X THEN 1 ELSE 0]
      /\ queued' \subseteq queued
      /\ timer' \subseteq timer
  BY <1>1 DEF Expire
<1>4. ASSUME NEW t \in Task, t \in X
      PROVE  y(t) \in Selection /\ y(t) # NoSel
  <2>1. sel[t] \in Selection
    BY <1>4 DEF Inv, TypeOK
  <2>2. TIMEOUT \in Value
    BY DEF Value
  <2> QED BY <2>1, <2>2, ResolvedType
<1> HIDE DEF y
<1>5. /\ sel' \in [Task -> Selection \cup {NoSel}]
      /\ timer' \subseteq {t \in Task : sel'[t] # NoSel}
  BY <1>3, <1>4 DEF Inv, TypeOK
<1>6. /\ ready' \in [Task -> Nat]
      /\ queued' \subseteq Alt
      /\ sched' \in {"suspended", "running", "normal", "dead"}
  BY <1>2, <1>3 DEF Inv, TypeOK
<1>7. OneInControl'
  BY <1>2 DEF Inv, TypeOK, OneInControl, HasControl
<1>8. TypeOK'
  BY <1>2, <1>5, <1>6, <1>7 DEF Inv, TypeOK
<1> QED BY <1>2, <1>3, <1>8, FewerQueued DEF Inv

\* The scheduler resumes a coroutine: whatever becomes of it, the channels and
\* the statement counts stay as they are.
LEMMA ResumeStep ==
    ASSUME Inv, NEW t \in Task,
           Resume(t) \/ ResumeParked(t) \/ ResumeUnresolved(t) \/ ResumeDead(t)
    PROVE  Inv'
<1>1. /\ sched = "running"
      /\ ready[t] > 0
      /\ ready' = [ready EXCEPT ![t] = @ - 1]
      /\ timer' = timer \ {t}
      /\ UNCHANGED <<ops, queued, buf, closed>>
  BY DEF Resume, ResumeParked, ResumeUnresolved, ResumeDead, PickTask
<1>2. \A u \in Task : ~HasControl(u)
  BY <1>1 DEF Inv, TypeOK, OneInControl
<1>3. /\ sel' \in [Task -> Selection \cup {NoSel}]
      /\ \A u \in Task \ {t} : sel'[u] = sel[u]
  <2>1. sel \in [Task -> Selection \cup {NoSel}]
    BY DEF Inv, TypeOK
  <2>2. CASE ResumeParked(t)
    <3>1. sel[t] \in Selection
      BY <2>1, <2>2 DEF ResumeParked
    <3>2. [sel[t] EXCEPT !.parked = FALSE] \in Selection
      BY <3>1 DEF Selection
    <3>3. sel' = [sel EXCEPT ![t] = [sel[t] EXCEPT !.parked = FALSE]]
      BY <2>1, <2>2 DEF ResumeParked
    <3> QED BY <2>1, <3>2, <3>3
  <2>3. CASE ~ResumeParked(t)
    BY <2>1, <2>3 DEF Resume, ResumeUnresolved, ResumeDead
  <2> QED BY <2>2, <2>3
<1>4. /\ timer' \subseteq {u \in Task : sel'[u] # NoSel}
      /\ ready' \in [Task -> Nat]
      /\ ops' \in [Task -> 0 .. MaxOps]
      /\ queued' \subseteq Alt
      /\ buf' \in [Chan -> Seq(Message)]
      /\ \A c \in Chan : Len(buf'[c]) <= Size[c]
      /\ closed' \subseteq Closing
  BY <1>1, <1>3 DEF Inv, TypeOK
<1>5. /\ sched' \in {"suspended", "running", "normal", "dead"}
      /\ status' \in [Task -> {"none", "suspended", "running", "dead"}]
      /\ OneInControl'
  <2>1. status \in [Task -> {"none", "suspended", "running", "dead"}]
    BY DEF Inv, TypeOK
  <2>2. CASE Resume(t)
    BY <2>1, <2>2, <1>2 DEF Resume, OneInControl, HasControl
  <2>3. CASE ResumeUnresolved(t)
    BY <2>1, <2>3, <1>2 DEF ResumeUnresolved, OneInControl, HasControl
  <2>4. CASE ResumeParked(t)
    BY <2>1, <2>4, <1>1, <1>2 DEF ResumeParked, OneInControl, HasControl
  <2>5. CASE ResumeDead(t)
    BY <2>1, <2>5, <1>2 DEF ResumeDead, OneInControl, HasControl
  <2> QED BY <2>2, <2>3, <2>4, <2>5
<1>6. TypeOK'
  BY <1>3, <1>4, <1>5 DEF TypeOK
<1> QED BY <1>1, <1>6, FewerQueued DEF Inv

\* Coroutines are created and end; the channels are not touched.
LEMMA ControlStep ==
    ASSUME Inv,
           \/ \E t \in EvalTask : Eval(t)
           \/ \E t, u \in Task : Spawn(t, u)
           \/ \E t \in Task : Return(t) \/ Panic(t)
    PROVE  Inv'
<1>1. UNCHANGED <<timer, ops, sel, queued, buf, closed>>
  BY DEF Eval, Spawn, Return, Panic
<1>2. ready' \in [Task -> Nat]
  BY TaskAssumption DEF Inv, TypeOK, Eval, Spawn, Return, Panic, MakeReady
<1>3. /\ sched' \in {"suspended", "running", "normal", "dead"}
      /\ status' \in [Task -> {"none", "suspended", "running", "dead"}]
      /\ OneInControl'
  <2>1. /\ status \in [Task -> {"none", "suspended", "running", "dead"}]
        /\ sched \in {"suspended", "running", "normal", "dead"}
        /\ OneInControl
    BY DEF Inv, TypeOK
  <2>2. CASE \E t \in EvalTask : Eval(t)
    BY <2>1, <2>2, TaskAssumption DEF Eval, OneInControl, HasControl
  <2>3. CASE \E t, u \in Task : Spawn(t, u)
    BY <2>1, <2>3 DEF Spawn, OneInControl, HasControl
  <2>4. CASE \E t \in Task : Return(t)
    BY <2>1, <2>4 DEF Return, YieldAs, OneInControl, HasControl
  <2>5. CASE \E t \in Task : Panic(t)
    BY <2>1, <2>5 DEF Panic, OneInControl, HasControl
  <2> QED BY <2>2, <2>3, <2>4, <2>5
<1>4. TypeOK'
  BY <1>1, <1>2, <1>3 DEF Inv, TypeOK
<1> QED BY <1>1, <1>4, FewerQueued DEF Inv

LEMMA SelectDefaultStep ==
    ASSUME Inv, NEW t \in Task, NEW s \in Stmt, SelectDefault(t, s)
    PROVE  Inv'
<1>1. BeginOp(t) /\ UNCHANGED <<sched, status, ready, timer, sel, queued, buf, closed>>
  BY DEF SelectDefault
<1>2. ops' \in [Task -> 0 .. MaxOps]
  BY <1>1, BeginOpType
<1>3. OneInControl'
  BY <1>1, SameControl
<1>4. TypeOK'
  BY <1>1, <1>2, <1>3 DEF Inv, TypeOK
<1> QED BY <1>1, <1>4, FewerQueued DEF Inv
-----------------------------------------------------------------------------
LEMMA InvInit == Init => Inv
<1> SUFFICES ASSUME Init
             PROVE  Inv
  OBVIOUS
<1>1. \A c \in Chan : buf[c] = <<>> /\ Len(buf[c]) = 0 /\ Size[c] \in Nat
  BY EmptySeq, TaskAssumption DEF Init
<1>2. buf \in [Chan -> Seq(Message)]
  BY EmptySeq DEF Init
<1>3. TypeOK
  BY <1>1, <1>2, TaskAssumption DEF Init, TypeOK, OneInControl, HasControl
<1>4. IsFiniteSet(queued)
  BY FS_EmptySet DEF Init
<1> QED BY <1>3, <1>4 DEF Init, Inv, NoMissedRendezvous

LEMMA InvNext == Inv /\ [Next]_vars => Inv'
<1> SUFFICES ASSUME Inv, [Next]_vars
             PROVE  Inv'
  OBVIOUS
<1>1. CASE \E t \in EvalTask : Eval(t)
  BY <1>1, ControlStep
<1>2. CASE SchedulerStep
  BY <1>2, SchedulerYieldStep, ResumeStep DEF SchedulerStep
<1>3. ASSUME NEW t \in Task, TaskStep(t)
      PROVE  Inv'
  <2>1. CASE Return(t) \/ Panic(t) \/ \E u \in Task : Spawn(t, u)
    BY <2>1, ControlStep
  <2>2. CASE SelectStep(t)
    BY <2>2, SelectReadyStep, SelectDefaultStep, SelectBlockStep,
       SelectForeverStep DEF SelectStep
  <2>3. CASE \E c \in Closing : Close(t, c)
    BY <2>3, CloseStep, TaskAssumption
  <2> QED BY <1>3, <2>1, <2>2, <2>3 DEF TaskStep
<1>4. CASE UNCHANGED vars
  <2>1. TypeOK'
    BY <1>4 DEF vars, Inv, TypeOK, OneInControl, HasControl
  <2> QED BY <1>4, <2>1, FewerQueued DEF vars, Inv
<1> QED BY <1>1, <1>2, <1>3, <1>4 DEF Next

\* The state of the runtime keeps its shape: one coroutine is in control, and
\* no channel holds more than its capacity.
THEOREM Typing == Spec => []TypeOK
<1>1. Inv => TypeOK
  BY DEF Inv
<1> QED BY <1>1, InvInit, InvNext, PTL DEF Spec

\* Nobody ever waits for what is there: no receiver on a channel that has a
\* value, no sender on one that has room, no sender and receiver on opposite
\* sides of one channel, whatever is sent, received, selected, timed out,
\* closed or panics.
THEOREM Rendezvous == Spec => []NoMissedRendezvous
<1>1. Inv => NoMissedRendezvous
  BY DEF Inv
<1> QED BY <1>1, InvInit, InvNext, PTL DEF Spec
-----------------------------------------------------------------------------
(***************************************************************************)
(* Waiting and waking: who waits is queued, who was answered is runnable,  *)
(* and, until a channel is closed, nobody else is.                          *)
(***************************************************************************)
\* A coroutine that select{} has parked for good.
Parked(t) == sel[t] # NoSel /\ sel[t].parked

\* What a select that has not been answered looks like: its coroutine is
\* suspended, and one parked by select{} has nothing that could answer it.
SelShape ==
    /\ \A t \in Task : sel[t] # NoSel => status[t] = "suspended"
    /\ \A t \in Task : Parked(t) => /\ sel[t].stmt.cases = <<>>
                                    /\ sel[t].resolved = 0
                                    /\ t \notin timer
    /\ \A a \in queued : /\ a.i > 0
                         /\ a.n <= ops[a.task]
                         /\ ~(Parked(a.task) /\ a.n = ops[a.task])

\* The second inductive invariant, over Inv. Its parts need each other: that a
\* scheduler resumes only what can go on follows from the answered being
\* runnable once, that from the queues holding only what waits, and that from
\* every waiting select being queued whole.
WakeInv ==
    /\ SelShape
    /\ AllAltsQueued
    /\ NoLostWakeup
    /\ TimerArmed
    /\ IntactUntilClosed

\* The alts of a statement are numbered from 1.
LEMMA AltsOfPlace ==
    ASSUME NEW t \in Task, NEW n \in 1 .. MaxOps, NEW s \in Stmt,
           NEW a \in AltsOf(t, n, s)
    PROVE  a.i \in Nat /\ a.i > 0
<1>1. PICK i \in DOMAIN s.cases : a.i = i
  BY DEF AltsOf
<1>2. s.cases \in Seq(Case)
  BY StmtAssumption
<1>3. i \in 1 .. Len(s.cases) /\ Len(s.cases) \in Nat
  BY <1>2, LenProperties
<1> QED BY <1>1, <1>3

\* Starting, ending and panicking leave all selects and queues as they are.
LEMMA ControlWake ==
    ASSUME Inv, WakeInv,
           \/ \E t \in EvalTask : Eval(t)
           \/ \E t, u \in Task : Spawn(t, u)
           \/ \E t \in Task : Return(t) \/ Panic(t)
    PROVE  WakeInv'
<1>1. UNCHANGED <<timer, ops, sel, queued, buf, closed>>
  BY DEF Eval, Spawn, Return, Panic
<1>2. PICK t \in Task : \/ /\ status[t] = "none"
                           /\ status' = [status EXCEPT ![t] = "suspended"]
                           /\ ready' = [ready EXCEPT ![t] = @ + 1]
                        \/ /\ status[t] = "running"
                           /\ status' = [status EXCEPT ![t] = "dead"]
                           /\ UNCHANGED ready
  BY TaskAssumption DEF Eval, Spawn, Return, Panic, MakeReady, HasControl, YieldAs
<1>3. /\ status \in [Task -> {"none", "suspended", "running", "dead"}]
      /\ ready \in [Task -> Nat]
  BY DEF Inv, TypeOK
<1>4. sel[t] = NoSel
  BY <1>2 DEF WakeInv, SelShape
<1>5. SelShape'
  BY <1>1, <1>2, <1>3, <1>4 DEF WakeInv, SelShape, Parked
<1>6. AllAltsQueued'
  BY <1>1 DEF WakeInv, AllAltsQueued, Blocked, AltsOf
<1>7. NoLostWakeup'
  BY <1>1, <1>2, <1>3, <1>4 DEF WakeInv, NoLostWakeup
<1>8. TimerArmed'
  BY <1>1 DEF WakeInv, TimerArmed, Blocked
<1>9. IntactUntilClosed'
  <2> SUFFICES ASSUME closed' = {}
               PROVE  NoStaleAlts' /\ ReadyIsResolved'
    BY DEF IntactUntilClosed
  <2>1. NoStaleAlts /\ ReadyIsResolved
    BY <1>1 DEF WakeInv, IntactUntilClosed
  <2>2. NoStaleAlts'
    BY <2>1, <1>1 DEF NoStaleAlts, IsCurrent, Blocked
  <2>3. ReadyIsResolved'
    BY <2>1, <1>1, <1>2, <1>3, <1>4 DEF ReadyIsResolved
  <2> QED BY <2>2, <2>3
<1> QED BY <1>5, <1>6, <1>7, <1>8, <1>9 DEF WakeInv

\* A default branch leaves all selects and queues as they are.
LEMMA DefaultWake ==
    ASSUME Inv, WakeInv, NEW t \in Task, NEW s \in Stmt, SelectDefault(t, s)
    PROVE  WakeInv'
<1>1. /\ HasControl(t)
      /\ ops' = [ops EXCEPT ![t] = @ + 1]
      /\ UNCHANGED <<sched, status, ready, timer, sel, queued, buf, got, closed>>
  BY DEF SelectDefault, BeginOp
<1>2. /\ sel[t] = NoSel
      /\ ops \in [Task -> 0 .. MaxOps]
      /\ queued \subseteq Alt
  BY <1>1 DEF WakeInv, SelShape, HasControl, Inv, TypeOK
<1>3. \A u \in Task : u # t => ops'[u] = ops[u]
  BY <1>1, <1>2
<1>4. SelShape'
  <2>1. \A a \in queued : a.task \in Task /\ a.n \in Nat
    BY <1>2 DEF Alt
  <2>2. \A a \in queued : a.n <= ops'[a.task]
    BY <2>1, <1>1, <1>2 DEF WakeInv, SelShape
  <2>3. \A a \in queued : ~(Parked(a.task) /\ a.n = ops'[a.task])
    BY <2>1, <1>2, <1>3 DEF WakeInv, SelShape, Parked
  <2> QED BY <2>2, <2>3, <1>1 DEF WakeInv, SelShape, Parked
<1>5. AllAltsQueued'
  <2> SUFFICES ASSUME NEW u \in Task, Blocked(u)'
               PROVE  (AltsOf(u, ops[u], sel[u].stmt) \subseteq queued)'
    BY DEF AllAltsQueued
  <2>1. u # t /\ Blocked(u)
    BY <1>1, <1>2 DEF Blocked
  <2> QED BY <2>1, <1>1, <1>3 DEF WakeInv, AllAltsQueued, AltsOf
<1>6. NoLostWakeup' /\ TimerArmed'
  BY <1>1 DEF WakeInv, NoLostWakeup, TimerArmed, Blocked
<1>7. IntactUntilClosed'
  <2> SUFFICES ASSUME closed' = {}
               PROVE  NoStaleAlts' /\ ReadyIsResolved'
    BY DEF IntactUntilClosed
  <2>1. NoStaleAlts /\ ReadyIsResolved
    BY <1>1 DEF WakeInv, IntactUntilClosed
  <2>2. NoStaleAlts'
    <3> SUFFICES ASSUME NEW a \in queued
                 PROVE  (IsCurrent(a) /\ Blocked(a.task))'
      BY <1>1 DEF NoStaleAlts
    <3>1. a.task \in Task /\ IsCurrent(a) /\ Blocked(a.task)
      BY <2>1, <1>2 DEF NoStaleAlts, Alt
    <3>2. a.task # t
      BY <3>1, <1>2 DEF Blocked
    <3> QED BY <3>1, <3>2, <1>1, <1>3 DEF IsCurrent, Blocked
  <2>3. ReadyIsResolved'
    BY <2>1, <1>1 DEF ReadyIsResolved
  <2> QED BY <2>2, <2>3
<1> QED BY <1>4, <1>5, <1>6, <1>7 DEF WakeInv

\* One alt is taken out of the queues with all of its select, and what it
\* belongs to is resolved with it, if that still waits.
LEMMA AnswerWake ==
    ASSUME Inv, WakeInv, NEW t \in Task, HasControl(t),
           ops' = [ops EXCEPT ![t] = @ + 1],
           UNCHANGED <<status, timer>>, closed \subseteq closed',
           NEW o \in queued, Dequeue(o), MakeReady(o.task),
           ~IsCurrent(o) => sel' = sel,
           IsCurrent(o) => /\ sel'[o.task] # NoSel
                           /\ sel'[o.task].resolved = o.i
                           /\ sel'[o.task].stmt = sel[o.task].stmt
                           /\ sel'[o.task].parked = sel[o.task].parked,
           \A u \in Task : u # o.task => sel'[u] = sel[u]
    PROVE  WakeInv'
<1>1. /\ status \in [Task -> {"none", "suspended", "running", "dead"}]
      /\ ready \in [Task -> Nat]
      /\ ops \in [Task -> 0 .. MaxOps]
      /\ queued \subseteq Alt
      /\ o.task \in Task
  BY DEF Inv, TypeOK, Alt
<1>2. /\ sel[t] = NoSel
      /\ \A a \in queued : a.task \in Task /\ a.n \in Nat /\ a.i \in Nat
      /\ o.i > 0
  BY <1>1 DEF WakeInv, SelShape, HasControl, Alt
<1>3. /\ \A u \in Task : u # t => ops'[u] = ops[u]
      /\ ops'[t] = ops[t] + 1
  BY <1>1
<1>4. /\ queued' \subseteq queued
      /\ \A a \in queued : a \notin queued' => a.task = o.task /\ a.n = o.n
      /\ \A a \in queued' : ~(a.task = o.task /\ a.n = o.n)
  BY DEF Dequeue
<1>5. /\ ready' = [ready EXCEPT ![o.task] = @ + 1]
      /\ \A u \in Task : ready'[u] = IF u = o.task THEN ready[u] + 1 ELSE ready[u]
      /\ \A u \in Task : ready[u] \in Nat
  BY <1>1 DEF MakeReady
<1>6. IsCurrent(o) => sel[o.task] # NoSel /\ ~Parked(o.task) /\ o.n = ops[o.task]
  BY DEF IsCurrent, WakeInv, SelShape
<1>7. \A u \in Task : sel'[u] # NoSel => sel[u] # NoSel /\ status[u] = "suspended"
  BY <1>6 DEF WakeInv, SelShape
<1>8. \A u \in Task : Parked(u)' => Parked(u) /\ sel'[u] = sel[u] /\ u # t
  BY <1>2, <1>6 DEF Parked
<1>9. SelShape'
  <2>1. \A a \in queued' : /\ a.i > 0
                           /\ a.n <= ops'[a.task]
    BY <1>1, <1>2, <1>3, <1>4 DEF WakeInv, SelShape
  <2>2. \A a \in queued' : ~(Parked(a.task)' /\ a.n = ops'[a.task])
    BY <1>2, <1>3, <1>4, <1>8 DEF WakeInv, SelShape
  <2>3. \A u \in Task : Parked(u)' => /\ sel'[u].stmt.cases = <<>>
                                      /\ sel'[u].resolved = 0
                                      /\ u \notin timer
    BY <1>8 DEF WakeInv, SelShape
  <2> QED BY <2>1, <2>2, <2>3, <1>7 DEF SelShape, Parked
<1>10. \A u \in Task : Blocked(u)' => /\ Blocked(u)
                                      /\ sel'[u] = sel[u]
                                      /\ u # t
                                      /\ ~(u = o.task /\ IsCurrent(o))
  BY <1>2 DEF Blocked
<1>11. AllAltsQueued'
  <2> SUFFICES ASSUME NEW u \in Task, Blocked(u)',
                      NEW a \in AltsOf(u, ops'[u], sel'[u].stmt)
               PROVE  a \in queued'
    BY DEF AllAltsQueued, AltsOf
  <2>1. Blocked(u) /\ sel'[u] = sel[u] /\ ops'[u] = ops[u]
    BY <1>3, <1>10
  <2>2. a \in queued
    BY <2>1 DEF WakeInv, AllAltsQueued
  <2>3. a.task = u /\ a.n = ops[u]
    BY <2>1 DEF AltsOf
  <2>4. ~(a.task = o.task /\ a.n = o.n)
    BY <2>1, <2>3, <1>10 DEF IsCurrent, Blocked
  <2> QED BY <2>2, <2>4, <1>4
<1>12. NoLostWakeup'
  BY <1>5, <1>2 DEF WakeInv, NoLostWakeup
<1>13. TimerArmed'
  <2> SUFFICES ASSUME NEW u \in Task, Blocked(u)',
                      \E i \in DOMAIN sel'[u].stmt.cases : sel'[u].stmt.cases[i].to
               PROVE  u \in timer
    BY DEF TimerArmed
  <2> QED BY <1>10 DEF WakeInv, TimerArmed
<1>14. IntactUntilClosed'
  <2> SUFFICES ASSUME closed' = {}
               PROVE  NoStaleAlts' /\ ReadyIsResolved'
    BY DEF IntactUntilClosed
  <2>1. NoStaleAlts /\ ReadyIsResolved
    BY DEF WakeInv, IntactUntilClosed
  <2>2. IsCurrent(o) /\ Blocked(o.task)
    BY <2>1 DEF NoStaleAlts
  <2>3. NoStaleAlts'
    <3> SUFFICES ASSUME NEW a \in queued'
                 PROVE  (IsCurrent(a) /\ Blocked(a.task))'
      BY DEF NoStaleAlts
    <3>1. a.task \in Task /\ IsCurrent(a) /\ Blocked(a.task)
      BY <2>1, <1>2, <1>4 DEF NoStaleAlts
    <3>2. a.task # t /\ a.task # o.task
      BY <3>1, <2>2, <1>2, <1>4 DEF Blocked, IsCurrent
    <3> QED BY <3>1, <3>2, <1>3 DEF IsCurrent, Blocked
  <2>4. ReadyIsResolved'
    <3> SUFFICES ASSUME NEW u \in Task
                 PROVE  ready'[u] = IF /\ status[u] = "suspended"
                                       /\ sel'[u] = NoSel \/ sel'[u].resolved > 0
                                    THEN 1 ELSE 0
      BY DEF ReadyIsResolved
    <3>1. CASE u = o.task
      <4>1. ready[u] = 0 /\ status[u] = "suspended"
        BY <3>1, <2>1, <2>2 DEF ReadyIsResolved, Blocked, WakeInv, SelShape
      <4> QED BY <4>1, <3>1, <2>2, <1>2, <1>5
    <3>2. CASE u # o.task
      BY <3>2, <2>1, <1>5 DEF ReadyIsResolved
    <3> QED BY <3>1, <3>2
  <2> QED BY <2>3, <2>4
<1> QED BY <1>9, <1>11, <1>12, <1>13, <1>14 DEF WakeInv

\* A running coroutine has executed a statement that leaves the queues alone.
LEMMA QuietWake ==
    ASSUME Inv, WakeInv, NEW t \in Task, HasControl(t),
           ops' = [ops EXCEPT ![t] = @ + 1],
           UNCHANGED <<status, timer, sel, queued, ready>>, closed \subseteq closed'
    PROVE  WakeInv'
<1>2. /\ sel[t] = NoSel
      /\ ops \in [Task -> 0 .. MaxOps]
      /\ queued \subseteq Alt
  BY DEF WakeInv, SelShape, HasControl, Inv, TypeOK
<1>3. \A u \in Task : u # t => ops'[u] = ops[u]
  BY <1>2
<1>4. SelShape'
  <2>1. \A a \in queued : a.task \in Task /\ a.n \in Nat
    BY <1>2 DEF Alt
  <2>2. \A a \in queued : a.n <= ops'[a.task]
    BY <2>1, <1>2 DEF WakeInv, SelShape
  <2>3. \A a \in queued : ~(Parked(a.task) /\ a.n = ops'[a.task])
    BY <2>1, <1>2, <1>3 DEF WakeInv, SelShape, Parked
  <2> QED BY <2>2, <2>3 DEF WakeInv, SelShape, Parked
<1>5. AllAltsQueued'
  <2> SUFFICES ASSUME NEW u \in Task, Blocked(u)'
               PROVE  (AltsOf(u, ops[u], sel[u].stmt) \subseteq queued)'
    BY DEF AllAltsQueued
  <2>1. u # t /\ Blocked(u)
    BY <1>2 DEF Blocked
  <2> QED BY <2>1, <1>3 DEF WakeInv, AllAltsQueued, AltsOf
<1>6. NoLostWakeup' /\ TimerArmed'
  BY DEF WakeInv, NoLostWakeup, TimerArmed, Blocked
<1>7. IntactUntilClosed'
  <2> SUFFICES ASSUME closed' = {}
               PROVE  NoStaleAlts' /\ ReadyIsResolved'
    BY DEF IntactUntilClosed
  <2>1. NoStaleAlts /\ ReadyIsResolved
    BY DEF WakeInv, IntactUntilClosed
  <2>2. NoStaleAlts'
    <3> SUFFICES ASSUME NEW a \in queued
                 PROVE  (IsCurrent(a) /\ Blocked(a.task))'
      BY DEF NoStaleAlts
    <3>1. a.task \in Task /\ IsCurrent(a) /\ Blocked(a.task)
      BY <2>1, <1>2 DEF NoStaleAlts, Alt
    <3>2. a.task # t
      BY <3>1, <1>2 DEF Blocked
    <3> QED BY <3>1, <3>2, <1>3 DEF IsCurrent, Blocked
  <2>3. ReadyIsResolved'
    BY <2>1 DEF ReadyIsResolved
  <2> QED BY <2>2, <2>3
<1> QED BY <1>4, <1>5, <1>6, <1>7 DEF WakeInv

\* What Wake does to the select it answers.
LEMMA WakeEffect ==
    ASSUME Inv, NEW o \in queued, NEW v \in Value, Wake(o, v)
    PROVE  /\ Dequeue(o) /\ MakeReady(o.task)
           /\ ~IsCurrent(o) => sel' = sel
           /\ IsCurrent(o) => /\ sel'[o.task] # NoSel
                              /\ sel'[o.task].resolved = o.i
                              /\ sel'[o.task].stmt = sel[o.task].stmt
                              /\ sel'[o.task].parked = sel[o.task].parked
           /\ \A u \in Task : u # o.task => sel'[u] = sel[u]
<1>1. o.task \in Task /\ sel \in [Task -> Selection \cup {NoSel}]
  BY DEF Inv, TypeOK, Alt
<1>4. Dequeue(o) /\ MakeReady(o.task)
  BY DEF Wake
<1>2. CASE ~IsCurrent(o)
  BY <1>2, <1>4 DEF Wake
<1>3. CASE IsCurrent(o)
  <2> DEFINE w == IF o.op = RECV THEN v ELSE sel[o.task].value
             x == [sel[o.task] EXCEPT !.resolved = o.i, !.value = w]
  <2>1. sel[o.task] \in Selection
    BY <1>1, <1>3 DEF IsCurrent
  <2>2. sel' = [sel EXCEPT ![o.task] = x]
    BY <1>1, <1>3, <2>1 DEF Wake, Selection
  <2>3. /\ x.resolved = o.i /\ x.stmt = sel[o.task].stmt
        /\ x.parked = sel[o.task].parked
    BY <2>1 DEF Selection
  <2>4. sel'[o.task] = x
    <3> HIDE DEF x
    <3> QED BY <2>2, <1>1
  <2>5. sel'[o.task] # NoSel
    <3> HIDE DEF x
    <3> QED BY WakeType, <1>1, <1>3 DEF IsCurrent
  <2>6. \A u \in Task : u # o.task => sel'[u] = sel[u]
    <3> HIDE DEF x
    <3> QED BY <2>2, <1>1
  <2> HIDE DEF x
  <2> QED BY <2>3, <2>4, <2>5, <2>6, <1>3, <1>4
<1> QED BY <1>2, <1>3

\* A select that goes on at once answers at most the alt on the other side.
LEMMA SelectReadyWake ==
    ASSUME Inv, WakeInv, NEW t \in Task, NEW s \in Stmt, SelectReady(t, s)
    PROVE  WakeInv'
<1>1. PICK a \in AltsOf(t, ops[t] + 1, s) : ExecCase(t, s, a)
  BY DEF SelectReady
<1>2. /\ HasControl(t)
      /\ ops' = [ops EXCEPT ![t] = @ + 1]
      /\ ops[t] + 1 \in 1 .. MaxOps
  BY BeginOpType DEF SelectReady, BeginOp
<1>3. a \in Alt /\ ~a.closed
  BY <1>2, AltsOfType
<1>4. /\ CanExec(a)
      /\ UNCHANGED <<status, timer>>
      /\ closed' = closed
  BY <1>1 DEF ExecCase
<1>5. PICK o \in Partners(a) :
        IF o = NoAlt THEN UNCHANGED <<sel, queued, ready>>
        ELSE Wake(o, CopyFor(a, o).value)
  BY <1>1 DEF ExecCase
<1>6. CASE o = NoAlt
  BY <1>2, <1>4, <1>5, <1>6, QuietWake
<1>7. CASE o # NoAlt
  <2>1. o \in queued /\ CopyFor(a, o).value \in Value
    BY <1>3, <1>4, <1>7, CopyFacts
  <2>2. Wake(o, CopyFor(a, o).value)
    BY <1>5, <1>7
  <2>3. /\ Dequeue(o) /\ MakeReady(o.task)
        /\ ~IsCurrent(o) => sel' = sel
        /\ IsCurrent(o) => /\ sel'[o.task] # NoSel
                           /\ sel'[o.task].resolved = o.i
                           /\ sel'[o.task].stmt = sel[o.task].stmt
                           /\ sel'[o.task].parked = sel[o.task].parked
        /\ \A u \in Task : u # o.task => sel'[u] = sel[u]
    BY <2>1, <2>2, WakeEffect
  <2>4. closed \subseteq closed'
    BY <1>4
  <2> QED BY <2>1, <2>3, <2>4, <1>2, <1>4, AnswerWake
<1> QED BY <1>6, <1>7

\* A select that has to wait queues all of its cases, and arms its timeout.
LEMMA SelectBlockWake ==
    ASSUME Inv, WakeInv, NEW t \in Task, NEW s \in Stmt, SelectBlock(t, s)
    PROVE  WakeInv'
<1> DEFINE new == AltsOf(t, ops[t] + 1, s)
           x == [stmt |-> s, resolved |-> 0, value |-> Nil, parked |-> FALSE]
           timed == \E i \in DOMAIN s.cases : s.cases[i].to
<1>1. /\ HasControl(t)
      /\ ops' = [ops EXCEPT ![t] = @ + 1]
      /\ ops[t] + 1 \in 1 .. MaxOps
      /\ status' = [status EXCEPT ![t] = "suspended"]
      /\ queued' = queued \cup new
      /\ timer' = IF timed THEN timer \cup {t} ELSE timer
      /\ sel' = [sel EXCEPT ![t] = x]
      /\ UNCHANGED <<ready, closed>>
  BY BeginOpType DEF SelectBlock, BeginOp, YieldAs
<1>2. /\ status \in [Task -> {"none", "suspended", "running", "dead"}]
      /\ ready \in [Task -> Nat]
      /\ ops \in [Task -> 0 .. MaxOps]
      /\ sel \in [Task -> Selection \cup {NoSel}]
      /\ queued \subseteq Alt
      /\ timer \subseteq {u \in Task : sel[u] # NoSel}
  BY DEF Inv, TypeOK
<1>3. sel[t] = NoSel /\ status[t] = "running"
  BY <1>1 DEF WakeInv, SelShape, HasControl
<1>4. x # NoSel /\ x.stmt = s /\ x.resolved = 0 /\ ~x.parked
  BY UnresolvedType
<1>5. \A a \in new : a.task = t /\ a.n = ops[t] + 1 /\ a.i > 0
  <2>1. \A a \in new : a.task = t /\ a.n = ops[t] + 1
    BY DEF AltsOf
  <2>2. ASSUME NEW a \in new PROVE a.i > 0
    BY <1>1, AltsOfPlace
  <2> QED BY <2>1, <2>2
<1> HIDE DEF x, timed
<1>6. /\ sel'[t] = x /\ ops'[t] = ops[t] + 1 /\ status'[t] = "suspended"
      /\ \A u \in Task : u # t => /\ sel'[u] = sel[u] /\ ops'[u] = ops[u]
                                  /\ status'[u] = status[u]
                                  /\ u \in timer' <=> u \in timer
  BY <1>1, <1>2
<1>7. \A a \in queued : a.task \in Task /\ a.n \in Nat
  BY <1>2 DEF Alt
<1>8. SelShape'
  <2>1. \A u \in Task : sel'[u] # NoSel => status'[u] = "suspended"
    BY <1>6 DEF WakeInv, SelShape
  <2>2. \A u \in Task : Parked(u)' => Parked(u) /\ u # t /\ sel'[u] = sel[u]
    BY <1>4, <1>6 DEF Parked
  <2>3. \A u \in Task : Parked(u)' => /\ sel'[u].stmt.cases = <<>>
                                      /\ sel'[u].resolved = 0
                                      /\ u \notin timer'
    BY <2>2, <1>6 DEF WakeInv, SelShape
  <2>4. ASSUME NEW a \in queued'
        PROVE  /\ a.i > 0
               /\ a.n <= ops'[a.task]
               /\ ~(Parked(a.task)' /\ a.n = ops'[a.task])
    <3>1. CASE a \in new
      <4>1. a.task = t /\ a.n = ops'[t] /\ a.i > 0 /\ ops'[t] \in Nat
        BY <3>1, <1>1, <1>5, <1>6
      <4>2. ~Parked(t)'
        BY <2>2
      <4> QED BY <4>1, <4>2
    <3>2. CASE a \in queued
      <4>1. a.i > 0 /\ a.n <= ops[a.task] /\ ~(Parked(a.task) /\ a.n = ops[a.task])
        BY <3>2 DEF WakeInv, SelShape
      <4>2. a.n <= ops'[a.task]
        BY <4>1, <3>2, <1>2, <1>6, <1>7
      <4>3. ~(Parked(a.task)' /\ a.n = ops'[a.task])
        BY <4>1, <3>2, <2>2, <1>6, <1>7
      <4> QED BY <4>1, <4>2, <4>3
    <3> QED BY <3>1, <3>2, <1>1
  <2> QED BY <2>1, <2>3, <2>4 DEF SelShape, Parked
<1>9. AllAltsQueued'
  <2> SUFFICES ASSUME NEW u \in Task, Blocked(u)'
               PROVE  (AltsOf(u, ops[u], sel[u].stmt) \subseteq queued)'
    BY DEF AllAltsQueued
  <2>1. CASE u = t
    BY <2>1, <1>1, <1>4, <1>6 DEF AltsOf
  <2>2. CASE u # t
    <3>1. Blocked(u) /\ sel'[u] = sel[u] /\ ops'[u] = ops[u]
      BY <2>2, <1>6 DEF Blocked
    <3>2. AltsOf(u, ops[u], sel[u].stmt) \subseteq queued
      BY <3>1 DEF WakeInv, AllAltsQueued
    <3> QED BY <3>1, <3>2, <1>1 DEF AltsOf
  <2> QED BY <2>1, <2>2
<1>10. NoLostWakeup'
  BY <1>1, <1>4, <1>6 DEF WakeInv, NoLostWakeup
<1>11. TimerArmed'
  <2> SUFFICES ASSUME NEW u \in Task, Blocked(u)',
                      \E i \in DOMAIN sel'[u].stmt.cases : sel'[u].stmt.cases[i].to
               PROVE  u \in timer'
    BY DEF TimerArmed
  <2>1. CASE u = t
    <3>1. timed
      BY <2>1, <1>4, <1>6 DEF timed
    <3> QED BY <3>1, <2>1, <1>1
  <2>2. CASE u # t
    BY <2>2, <1>6 DEF WakeInv, TimerArmed, Blocked
  <2> QED BY <2>1, <2>2
<1>12. IntactUntilClosed'
  <2> SUFFICES ASSUME closed' = {}
               PROVE  NoStaleAlts' /\ ReadyIsResolved'
    BY DEF IntactUntilClosed
  <2>1. NoStaleAlts /\ ReadyIsResolved
    BY <1>1 DEF WakeInv, IntactUntilClosed
  <2>2. ASSUME NEW a \in queued'
        PROVE  (IsCurrent(a) /\ Blocked(a.task))'
    <3>1. CASE a \in new
      BY <3>1, <1>4, <1>5, <1>6 DEF IsCurrent, Blocked
    <3>2. CASE a \in queued
      <4>1. a.task \in Task /\ IsCurrent(a) /\ Blocked(a.task)
        BY <3>2, <2>1, <1>7 DEF NoStaleAlts
      <4>2. a.task # t
        BY <4>1, <1>3 DEF Blocked
      <4> QED BY <4>1, <4>2, <1>6 DEF IsCurrent, Blocked
    <3> QED BY <3>1, <3>2, <1>1
  <2>3. ready[t] = 0
    BY <2>1, <1>3 DEF ReadyIsResolved
  <2>4. ReadyIsResolved'
    BY <2>1, <2>3, <1>1, <1>4, <1>6 DEF ReadyIsResolved
  <2> QED BY <2>2, <2>4 DEF NoStaleAlts
<1> QED BY <1>8, <1>9, <1>10, <1>11, <1>12 DEF WakeInv

\* select{} queues nothing.
LEMMA SelectForeverWake ==
    ASSUME Inv, WakeInv, NEW t \in Task, NEW s \in Stmt, SelectForever(t, s)
    PROVE  WakeInv'
<1> DEFINE x == [stmt |-> s, resolved |-> 0, value |-> Nil, parked |-> TRUE]
<1>1. /\ HasControl(t)
      /\ ops' = [ops EXCEPT ![t] = @ + 1]
      /\ ops[t] + 1 \in 1 .. MaxOps
      /\ s.cases = <<>>
      /\ ready' = [ready EXCEPT ![t] = 0]
      /\ status' = [status EXCEPT ![t] = "suspended"]
      /\ sel' = [sel EXCEPT ![t] = x]
      /\ UNCHANGED <<timer, queued, closed>>
  BY BeginOpType DEF SelectForever, BeginOp, YieldAs
<1>2. /\ status \in [Task -> {"none", "suspended", "running", "dead"}]
      /\ ready \in [Task -> Nat]
      /\ ops \in [Task -> 0 .. MaxOps]
      /\ sel \in [Task -> Selection \cup {NoSel}]
      /\ queued \subseteq Alt
      /\ timer \subseteq {u \in Task : sel[u] # NoSel}
  BY DEF Inv, TypeOK
<1>3. sel[t] = NoSel /\ status[t] = "running" /\ t \notin timer
  BY <1>1, <1>2 DEF WakeInv, SelShape, HasControl
<1>4. x # NoSel /\ x.stmt = s /\ x.resolved = 0 /\ x.parked
  BY UnresolvedType
<1> HIDE DEF x
<1>5. /\ sel'[t] = x /\ ops'[t] = ops[t] + 1 /\ status'[t] = "suspended"
      /\ ready'[t] = 0
      /\ \A u \in Task : u # t => /\ sel'[u] = sel[u] /\ ops'[u] = ops[u]
                                  /\ status'[u] = status[u]
                                  /\ ready'[u] = ready[u]
  BY <1>1, <1>2
<1>6. \A a \in queued : a.task \in Task /\ a.n \in Nat
  BY <1>2 DEF Alt
<1>7. \A u \in Task : Blocked(u)' => Blocked(u) /\ u # t
  BY <1>4, <1>5 DEF Blocked
<1>8. SelShape'
  <2>1. \A u \in Task : sel'[u] # NoSel => status'[u] = "suspended"
    BY <1>5 DEF WakeInv, SelShape
  <2>2. \A u \in Task : u # t => (Parked(u)' <=> Parked(u))
    BY <1>5 DEF Parked
  <2>3. ASSUME NEW u \in Task, Parked(u)'
        PROVE  /\ sel'[u].stmt.cases = <<>>
               /\ sel'[u].resolved = 0
               /\ u \notin timer'
    BY <2>2, <2>3, <1>1, <1>3, <1>4, <1>5 DEF WakeInv, SelShape
  <2>4. ASSUME NEW a \in queued
        PROVE  /\ a.i > 0
               /\ a.n <= ops'[a.task]
               /\ ~(Parked(a.task)' /\ a.n = ops'[a.task])
    <3>1. a.i > 0 /\ a.n <= ops[a.task] /\ ~(Parked(a.task) /\ a.n = ops[a.task])
      BY DEF WakeInv, SelShape
    <3>2. CASE a.task = t
      <4>1. a.n < ops'[t]
        BY <3>1, <3>2, <1>2, <1>5, <1>6
      <4> QED BY <4>1, <3>1, <3>2, <1>2, <1>5, <1>6
    <3>3. CASE a.task # t
      BY <3>1, <3>3, <2>2, <1>5, <1>6
    <3> QED BY <3>2, <3>3
  <2> QED BY <2>1, <2>3, <2>4, <1>1 DEF SelShape, Parked
<1>9. AllAltsQueued'
  BY <1>1, <1>5, <1>7 DEF WakeInv, AllAltsQueued, AltsOf
<1>10. NoLostWakeup'
  BY <1>4, <1>5 DEF WakeInv, NoLostWakeup
<1>11. TimerArmed'
  <2> SUFFICES ASSUME NEW u \in Task, Blocked(u)',
                      \E i \in DOMAIN sel'[u].stmt.cases : sel'[u].stmt.cases[i].to
               PROVE  u \in timer
    BY <1>1 DEF TimerArmed
  <2> QED BY <1>5, <1>7 DEF WakeInv, TimerArmed
<1>12. IntactUntilClosed'
  <2> SUFFICES ASSUME closed' = {}
               PROVE  NoStaleAlts' /\ ReadyIsResolved'
    BY DEF IntactUntilClosed
  <2>1. NoStaleAlts /\ ReadyIsResolved
    BY <1>1 DEF WakeInv, IntactUntilClosed
  <2>2. ASSUME NEW a \in queued
        PROVE  (IsCurrent(a) /\ Blocked(a.task))'
    <3>1. a.task \in Task /\ IsCurrent(a) /\ Blocked(a.task)
      BY <2>1, <1>6 DEF NoStaleAlts
    <3>2. a.task # t
      BY <3>1, <1>3 DEF Blocked
    <3> QED BY <3>1, <3>2, <1>5 DEF IsCurrent, Blocked
  <2>3. ReadyIsResolved'
    BY <2>1, <1>4, <1>5 DEF ReadyIsResolved
  <2> QED BY <2>2, <2>3, <1>1 DEF NoStaleAlts
<1> QED BY <1>8, <1>9, <1>10, <1>11, <1>12 DEF WakeInv

\* The fields of a select that was resolved.
Resolved(x, i, v) == [x EXCEPT !.resolved = i, !.value = v]

\* Only the answer of a resolved select is new.
LEMMA ResolvedFields ==
    ASSUME NEW x \in Selection, NEW i \in Nat, NEW v \in Value
    PROVE  /\ Resolved(x, i, v) # NoSel
           /\ Resolved(x, i, v).resolved = i
           /\ Resolved(x, i, v).stmt = x.stmt
           /\ Resolved(x, i, v).parked = x.parked
<1>1. /\ Resolved(x, i, v).resolved = i
      /\ Resolved(x, i, v).stmt = x.stmt
      /\ Resolved(x, i, v).parked = x.parked
  BY DEF Selection, Resolved
<1>2. Resolved(x, i, v) # NoSel
  BY ResolvedType DEF Resolved
<1> QED BY <1>1, <1>2

\* close tells the receivers: their alts stay where they are, but their
\* selects are resolved and their coroutines runnable.
LEMMA CloseReceiversWake ==
    ASSUME Inv, WakeInv, NEW t \in Task, NEW c \in Chan, HasControl(t),
           ops' = [ops EXCEPT ![t] = @ + 1],
           UNCHANGED <<status, timer>>, closed' # {}, CloseReceivers(c)
    PROVE  WakeInv'
<1> DEFINE rs == GetAlts(c, RECV)
           told == {r.task : r \in {a \in rs : IsCurrent(a)}}
           mark(r) == [r EXCEPT !.closed = TRUE]
           v(u) == IF u \in timer THEN TIMEOUT ELSE Nil
           n(u) == Cardinality({r \in rs : r.task = u})
<1>1. /\ queued' = (queued \ rs) \cup {mark(r) : r \in rs}
      /\ MakeAllReady(rs)
      /\ sel' = [u \in Task |-> IF u \in told
                    THEN [sel[u] EXCEPT !.resolved = 1, !.value = v(u)]
                    ELSE sel[u]]
  BY DEF CloseReceivers
<1>2. /\ queued \subseteq Alt /\ IsFiniteSet(queued) /\ rs \subseteq queued
      /\ ready \in [Task -> Nat]
      /\ ops \in [Task -> 0 .. MaxOps]
      /\ sel \in [Task -> Selection \cup {NoSel}]
  BY DEF Inv, TypeOK, GetAlts
<1>3. /\ sel[t] = NoSel
      /\ \A a \in queued : a.task \in Task /\ a.n \in Nat
      /\ \A u \in Task : u # t => ops'[u] = ops[u]
      /\ ops'[t] = ops[t] + 1
  BY <1>2 DEF WakeInv, SelShape, HasControl, Alt
<1>4. \A r \in rs : mark(r).i = r.i /\ mark(r).task = r.task /\ mark(r).n = r.n
  BY <1>2 DEF Alt
<1>5. \A a \in queued' : \E y \in queued : a.i = y.i /\ a.task = y.task /\ a.n = y.n
  <2> SUFFICES ASSUME NEW a \in queued'
               PROVE  \E y \in queued : a.i = y.i /\ a.task = y.task /\ a.n = y.n
    OBVIOUS
  <2>1. CASE a \in queued
    BY <2>1
  <2>2. CASE a \notin queued
    <3>1. PICK r \in rs : a = mark(r)
      BY <2>2, <1>1
    <3> QED BY <3>1, <1>2, <1>4
  <2> QED BY <2>1, <2>2
<1>6. ASSUME NEW u \in Task, u \in told
      PROVE  /\ sel[u] # NoSel /\ ~Parked(u) /\ u # t
             /\ sel'[u].resolved = 1 /\ sel'[u] # NoSel
             /\ sel'[u].stmt = sel[u].stmt /\ sel'[u].parked = sel[u].parked
             /\ \E r \in rs : r.task = u
  <2>1. PICK r \in rs : r.task = u /\ IsCurrent(r)
    BY <1>6
  <2>2. r \in queued
    BY <1>2
  <2>3. sel[u] # NoSel /\ ~Parked(u) /\ u # t
    BY <2>1, <2>2, <1>3 DEF IsCurrent, WakeInv, SelShape
  <2>4. sel[u] \in Selection
    BY <2>3, <1>2
  <2> DEFINE w == v(u)
             y == Resolved(sel[u], 1, w)
  <2>5. w \in Value
    BY DEF Value
  <2>6. sel'[u] = y
    BY <1>1, <1>6 DEF Resolved
  <2> HIDE DEF w
  <2>7. y # NoSel /\ y.resolved = 1 /\ y.stmt = sel[u].stmt /\ y.parked = sel[u].parked
    BY <2>4, <2>5, ResolvedFields
  <2> HIDE DEF y
  <2> QED BY <2>1, <2>3, <2>6, <2>7
<1>7. \A u \in Task : u \notin told => sel'[u] = sel[u]
  BY <1>1
<1>8. \A u \in Task : n(u) \in Nat /\ ((\E r \in rs : r.task = u) => n(u) > 0)
  <2> SUFFICES ASSUME NEW u \in Task
               PROVE  n(u) \in Nat /\ ((\E r \in rs : r.task = u) => n(u) > 0)
    OBVIOUS
  <2> DEFINE S == {r \in rs : r.task = u}
  <2>1. S \in SUBSET queued
    BY <1>2
  <2>2. (\E r \in rs : r.task = u) => S # {}
    OBVIOUS
  <2>3. n(u) = Cardinality(S)
    OBVIOUS
  <2> HIDE DEF S, n
  <2>4. IsFiniteSet(S)
    BY <2>1, <1>2, FS_Subset
  <2>5. Cardinality(S) \in Nat /\ (Cardinality(S) = 0 <=> S = {})
    BY <2>4, FS_CardinalityType, FS_EmptySet
  <2> QED BY <2>2, <2>3, <2>5
<1>9. \A u \in Task : ready'[u] = ready[u] + n(u)
  BY <1>1 DEF MakeAllReady
<1> HIDE DEF n, told
<1>10. \A u \in Task : Parked(u)' => Parked(u) /\ sel'[u] = sel[u] /\ u # t
  BY <1>3, <1>6, <1>7 DEF Parked
<1>11. \A u \in Task : Blocked(u)' => Blocked(u) /\ sel'[u] = sel[u] /\ u # t /\ u \notin told
  BY <1>3, <1>6, <1>7 DEF Blocked
<1>12. SelShape'
  <2>1. \A u \in Task : sel'[u] # NoSel => status[u] = "suspended"
    BY <1>6, <1>7 DEF WakeInv, SelShape
  <2>2. \A u \in Task : Parked(u)' => /\ sel'[u].stmt.cases = <<>>
                                      /\ sel'[u].resolved = 0
                                      /\ u \notin timer
    BY <1>10 DEF WakeInv, SelShape
  <2>3. ASSUME NEW a \in queued'
        PROVE  /\ a.i > 0
               /\ a.n <= ops'[a.task]
               /\ ~(Parked(a.task)' /\ a.n = ops'[a.task])
    <3>1. PICK y \in queued : a.i = y.i /\ a.task = y.task /\ a.n = y.n
      BY <1>5
    <3>2. /\ y.i > 0 /\ y.n <= ops[y.task] /\ ~(Parked(y.task) /\ y.n = ops[y.task])
          /\ y.task \in Task /\ y.n \in Nat
      BY <1>3 DEF WakeInv, SelShape
    <3>3. y.n <= ops'[y.task]
      BY <3>2, <1>2, <1>3
    <3>4. ~(Parked(y.task)' /\ y.n = ops'[y.task])
      BY <3>2, <1>3, <1>10
    <3> QED BY <3>1, <3>2, <3>3, <3>4
  <2> QED BY <2>1, <2>2, <2>3 DEF SelShape, Parked
<1>13. AllAltsQueued'
  <2> SUFFICES ASSUME NEW u \in Task, Blocked(u)',
                      NEW a \in AltsOf(u, ops'[u], sel'[u].stmt)
               PROVE  a \in queued'
    BY DEF AllAltsQueued, AltsOf
  <2>1. Blocked(u) /\ sel'[u] = sel[u] /\ ops'[u] = ops[u] /\ u \notin told
    BY <1>3, <1>11
  <2>2. a \in queued
    BY <2>1 DEF WakeInv, AllAltsQueued
  <2>3. a.task = u /\ a.n = ops[u]
    BY <2>1 DEF AltsOf
  <2>4. a \notin rs
    BY <2>1, <2>3 DEF told, IsCurrent, Blocked
  <2> QED BY <2>2, <2>4, <1>1
<1>14. NoLostWakeup'
  <2> SUFFICES ASSUME NEW u \in Task, sel'[u] # NoSel, sel'[u].resolved > 0
               PROVE  ready'[u] > 0
    BY DEF NoLostWakeup
  <2>1. ready[u] \in Nat /\ n(u) \in Nat /\ ready'[u] = ready[u] + n(u)
    BY <1>2, <1>8, <1>9
  <2>2. CASE u \in told
    BY <2>1, <2>2, <1>6, <1>8
  <2>3. CASE u \notin told
    <3>1. ready[u] > 0
      BY <2>3, <1>7 DEF WakeInv, NoLostWakeup
    <3> QED BY <3>1, <2>1
  <2> QED BY <2>2, <2>3
<1>15. TimerArmed'
  <2> SUFFICES ASSUME NEW u \in Task, Blocked(u)',
                      \E i \in DOMAIN sel'[u].stmt.cases : sel'[u].stmt.cases[i].to
               PROVE  u \in timer
    BY DEF TimerArmed
  <2> QED BY <1>11 DEF WakeInv, TimerArmed
<1>16. IntactUntilClosed'
  BY DEF IntactUntilClosed
<1> QED BY <1>12, <1>13, <1>14, <1>15, <1>16 DEF WakeInv

\* close answers a select that both sends and receives with its own case.
LEMMA CloseOwnSenderWake ==
    ASSUME Inv, WakeInv, NEW t \in Task, NEW c \in Chan, HasControl(t),
           ops' = [ops EXCEPT ![t] = @ + 1],
           UNCHANGED <<status, timer>>, closed \subseteq closed',
           CloseOwnSender(c)
    PROVE  WakeInv'
<1>1. CASE UNCHANGED <<queued, ready, sel, buf>>
  BY <1>1, QuietWake
<1>2. CASE ~UNCHANGED <<queued, ready, sel, buf>>
  <2>1. PICK r \in GetAlts(c, RECV), s \in GetAlts(c, SEND) :
          LET copy == Copy([r EXCEPT !.closed = TRUE], s, c)
          IN  /\ Dequeue(s)
              /\ MakeReady(s.task)
              /\ sel' = IF IsCurrent(s)
                        THEN [sel EXCEPT ![s.task].resolved = s.i,
                                         ![s.task].value = copy.value]
                        ELSE sel
    BY <1>2 DEF CloseOwnSender
  <2> DEFINE w == Copy([r EXCEPT !.closed = TRUE], s, c).value
  <2>2. s \in queued /\ s.task \in Task
    BY DEF GetAlts, Inv, TypeOK, Alt
  <2>3. sel \in [Task -> Selection \cup {NoSel}]
    BY DEF Inv, TypeOK
  <2>4. \A u \in Task : sel[u] # NoSel => sel'[u] # NoSel
    BY CloseOwnSenderStep
  <2>5. sel' = IF IsCurrent(s)
               THEN [sel EXCEPT ![s.task].resolved = s.i, ![s.task].value = w]
               ELSE sel
    BY <2>1
  <2> HIDE DEF w
  <2>6. IsCurrent(s) => /\ sel'[s.task] # NoSel
                        /\ sel'[s.task].resolved = s.i
                        /\ sel'[s.task].stmt = sel[s.task].stmt
                        /\ sel'[s.task].parked = sel[s.task].parked
    <3> SUFFICES ASSUME IsCurrent(s)
                 PROVE  /\ sel'[s.task] # NoSel
                        /\ sel'[s.task].resolved = s.i
                        /\ sel'[s.task].stmt = sel[s.task].stmt
                        /\ sel'[s.task].parked = sel[s.task].parked
      OBVIOUS
    <3>1. sel[s.task] \in Selection /\ sel'[s.task] # NoSel
      BY <2>2, <2>3, <2>4 DEF IsCurrent
    <3>2. sel' = [sel EXCEPT ![s.task].resolved = s.i, ![s.task].value = w]
      BY <2>5
    <3> QED BY <3>1, <3>2, <2>2, <2>3 DEF Selection
  <2>7. /\ ~IsCurrent(s) => sel' = sel
        /\ \A u \in Task : u # s.task => sel'[u] = sel[u]
    BY <2>2, <2>3, <2>5
  <2> QED BY <2>1, <2>2, <2>6, <2>7, AnswerWake
<1> QED BY <1>1, <1>2

\* The two kinds of close.
LEMMA CloseWake ==
    ASSUME Inv, WakeInv, NEW t \in Task, NEW c \in Chan, Close(t, c)
    PROVE  WakeInv'
<1>1. /\ HasControl(t)
      /\ ops' = [ops EXCEPT ![t] = @ + 1]
      /\ CloseReceivers(c) \/ CloseOwnSender(c)
      /\ closed \subseteq closed' /\ closed' # {}
      /\ UNCHANGED <<status, timer>>
  BY DEF Close, BeginOp
<1> QED BY <1>1, CloseReceiversWake, CloseOwnSenderWake

\* Timeouts expire only when nothing is runnable.
LEMMA SchedulerYieldWake ==
    ASSUME Inv, WakeInv, SchedulerYield
    PROVE  WakeInv'
<1>1. PICK X \in SUBSET timer : Expire(X)
  BY DEF SchedulerYield
<1>2. /\ \A u \in Task : ready[u] = 0
      /\ UNCHANGED <<status, ops, buf, got, closed>>
  BY DEF SchedulerYield
<1> DEFINE y(t) == Resolved(sel[t], 1, TIMEOUT)
<1>3. /\ sel' = [t \in Task |-> IF t \in X THEN y(t) ELSE sel[t]]
      /\ ready' = [t \in Task |-> ready[t] + IF t \in X THEN 1 ELSE 0]
      /\ queued' = {a \in queued : ~(a.task \in X /\ IsCurrent(a))}
      /\ timer' = timer \ X
  BY <1>1 DEF Expire, Resolved
<1>4. /\ sel \in [Task -> Selection \cup {NoSel}]
      /\ X \subseteq {u \in Task : sel[u] # NoSel}
      /\ \A a \in queued : a.task \in Task
  BY DEF Inv, TypeOK, Alt
<1>5. ASSUME NEW u \in Task, u \in X
      PROVE  /\ y(u).resolved = 1 /\ y(u) # NoSel
             /\ y(u).parked = sel[u].parked
  <2>1. sel[u] \in Selection /\ 1 \in Nat /\ TIMEOUT \in Value
    BY <1>4, <1>5 DEF Value
  <2> QED BY <2>1, ResolvedFields
<1> HIDE DEF y
<1>6. \A u \in Task : /\ ready'[u] = IF u \in X THEN 1 ELSE 0
                      /\ sel'[u] = IF u \in X THEN y(u) ELSE sel[u]
  BY <1>2, <1>3
<1>7. \A u \in Task : Parked(u)' => Parked(u) /\ sel'[u] = sel[u]
  BY <1>4, <1>5, <1>6 DEF WakeInv, SelShape, Parked
<1>8. \A u \in Task : Blocked(u)' => Blocked(u) /\ sel'[u] = sel[u] /\ u \notin X
  BY <1>5, <1>6 DEF Blocked
<1>9. SelShape'
  <2>1. \A u \in Task : sel'[u] # NoSel => status[u] = "suspended"
    BY <1>4, <1>6 DEF WakeInv, SelShape
  <2>2. \A u \in Task : Parked(u)' => /\ sel'[u].stmt.cases = <<>>
                                      /\ sel'[u].resolved = 0
                                      /\ u \notin timer'
    BY <1>3, <1>7 DEF WakeInv, SelShape
  <2>3. \A a \in queued' : /\ a.i > 0
                           /\ a.n <= ops[a.task]
                           /\ ~(Parked(a.task)' /\ a.n = ops[a.task])
    BY <1>3, <1>4, <1>7 DEF WakeInv, SelShape
  <2> QED BY <2>1, <2>2, <2>3, <1>2 DEF SelShape, Parked
<1>10. AllAltsQueued'
  <2> SUFFICES ASSUME NEW u \in Task, Blocked(u)',
                      NEW a \in AltsOf(u, ops[u], sel[u].stmt)
               PROVE  a \in queued'
    BY <1>2, <1>8 DEF AllAltsQueued, AltsOf
  <2>1. a \in queued /\ a.task = u
    BY <1>8 DEF WakeInv, AllAltsQueued, AltsOf
  <2> QED BY <2>1, <1>3, <1>8
<1>11. NoLostWakeup'
  BY <1>2, <1>6 DEF WakeInv, NoLostWakeup
<1>12. TimerArmed'
  <2> SUFFICES ASSUME NEW u \in Task, Blocked(u)',
                      \E i \in DOMAIN sel'[u].stmt.cases : sel'[u].stmt.cases[i].to
               PROVE  u \in timer'
    BY DEF TimerArmed
  <2> QED BY <1>3, <1>8 DEF WakeInv, TimerArmed
<1>13. IntactUntilClosed'
  <2> SUFFICES ASSUME closed' = {}
               PROVE  NoStaleAlts' /\ ReadyIsResolved'
    BY DEF IntactUntilClosed
  <2>1. NoStaleAlts /\ ReadyIsResolved
    BY <1>2 DEF WakeInv, IntactUntilClosed
  <2>2. ASSUME NEW a \in queued'
        PROVE  (IsCurrent(a) /\ Blocked(a.task))'
    <3>1. a \in queued /\ a.task \in Task /\ IsCurrent(a) /\ Blocked(a.task)
      BY <2>1, <1>3, <1>4 DEF NoStaleAlts
    <3>2. sel'[a.task] = sel[a.task]
      BY <3>1, <1>3, <1>6
    <3> QED BY <3>1, <3>2, <1>2 DEF IsCurrent, Blocked
  <2>3. ASSUME NEW u \in Task
        PROVE  ready'[u] = IF /\ status[u] = "suspended"
                              /\ sel'[u] = NoSel \/ sel'[u].resolved > 0
                           THEN 1 ELSE 0
    <3>1. CASE u \in X
      BY <3>1, <1>4, <1>5, <1>6 DEF WakeInv, SelShape
    <3>2. CASE u \notin X
      BY <3>2, <2>1, <1>2, <1>6 DEF ReadyIsResolved
    <3> QED BY <3>1, <3>2
  <2> QED BY <2>2, <2>3, <1>2 DEF NoStaleAlts, ReadyIsResolved
<1> QED BY <1>9, <1>10, <1>11, <1>12, <1>13 DEF WakeInv

\* The scheduler takes a coroutine off the list of runnable ones. It is never
\* one that is parked or has ended, unless a channel was closed.
LEMMA ResumeWake ==
    ASSUME Inv, WakeInv, NEW t \in Task,
           Resume(t) \/ ResumeParked(t) \/ ResumeUnresolved(t) \/ ResumeDead(t)
    PROVE  WakeInv'
<1>1. /\ ready[t] > 0
      /\ ready' = [ready EXCEPT ![t] = @ - 1]
      /\ timer' = timer \ {t}
      /\ UNCHANGED <<ops, queued, closed>>
  BY DEF Resume, ResumeParked, ResumeUnresolved, ResumeDead, PickTask
<1>2. /\ status \in [Task -> {"none", "suspended", "running", "dead"}]
      /\ ready \in [Task -> Nat]
      /\ sel \in [Task -> Selection \cup {NoSel}]
      /\ \A a \in queued : a.task \in Task
  BY DEF Inv, TypeOK, Alt
<1>3. /\ \A u \in Task : u # t => ready'[u] = ready[u] /\ (u \in timer' <=> u \in timer)
      /\ ready'[t] = ready[t] - 1
  BY <1>1, <1>2
<1>4. CASE ~ResumeParked(t)
  <2>1. /\ sel'[t] = NoSel
        /\ \A u \in Task : u # t => sel'[u] = sel[u] /\ status'[u] = status[u]
    BY <1>2, <1>4 DEF Resume, ResumeUnresolved, ResumeDead, WakeInv, SelShape
  <2>2. /\ \A u \in Task : Parked(u)' => Parked(u) /\ u # t
        /\ \A u \in Task : Blocked(u)' => Blocked(u) /\ u # t
    BY <2>1 DEF Parked, Blocked
  <2>3. SelShape'
    <3>1. \A u \in Task : sel'[u] # NoSel => status'[u] = "suspended"
      BY <2>1 DEF WakeInv, SelShape
    <3>2. \A u \in Task : Parked(u)' => /\ sel'[u].stmt.cases = <<>>
                                        /\ sel'[u].resolved = 0
                                        /\ u \notin timer'
      BY <2>1, <2>2, <1>3 DEF WakeInv, SelShape
    <3>3. \A a \in queued : /\ a.i > 0
                            /\ a.n <= ops[a.task]
                            /\ ~(Parked(a.task)' /\ a.n = ops[a.task])
      BY <2>2, <1>2 DEF WakeInv, SelShape
    <3> QED BY <3>1, <3>2, <3>3, <1>1 DEF SelShape, Parked
  <2>4. AllAltsQueued'
    BY <2>1, <2>2, <1>1 DEF WakeInv, AllAltsQueued, AltsOf
  <2>5. NoLostWakeup'
    BY <2>1, <1>3 DEF WakeInv, NoLostWakeup
  <2>6. TimerArmed'
    <3> SUFFICES ASSUME NEW u \in Task, Blocked(u)',
                        \E i \in DOMAIN sel'[u].stmt.cases : sel'[u].stmt.cases[i].to
                 PROVE  u \in timer'
      BY DEF TimerArmed
    <3> QED BY <2>1, <2>2, <1>3 DEF WakeInv, TimerArmed
  <2>7. IntactUntilClosed'
    <3> SUFFICES ASSUME closed' = {}
                 PROVE  NoStaleAlts' /\ ReadyIsResolved'
      BY DEF IntactUntilClosed
    <3>1. NoStaleAlts /\ ReadyIsResolved
      BY <1>1 DEF WakeInv, IntactUntilClosed
    <3>2. /\ ready[t] = 1 /\ status[t] = "suspended"
          /\ sel[t] = NoSel \/ sel[t].resolved > 0
      BY <3>1, <1>1 DEF ReadyIsResolved
    <3>3. NoStaleAlts'
      <4> SUFFICES ASSUME NEW a \in queued
                   PROVE  (IsCurrent(a) /\ Blocked(a.task))'
        BY <1>1 DEF NoStaleAlts
      <4>1. a.task \in Task /\ IsCurrent(a) /\ Blocked(a.task)
        BY <3>1, <1>2 DEF NoStaleAlts
      <4>2. a.task # t
        BY <4>1, <3>2 DEF Blocked
      <4> QED BY <4>1, <4>2, <2>1, <1>1 DEF IsCurrent, Blocked
    <3>4. status'[t] # "suspended"
      BY <3>2, <1>2, <1>4 DEF Resume, ResumeUnresolved, ResumeDead
    <3>5. ReadyIsResolved'
      BY <3>1, <3>2, <3>4, <2>1, <1>3 DEF ReadyIsResolved
    <3> QED BY <3>3, <3>5
  <2> QED BY <2>3, <2>4, <2>5, <2>6, <2>7 DEF WakeInv
<1>5. CASE ResumeParked(t)
  <2>1. /\ Parked(t) /\ status[t] = "suspended"
        /\ sel' = [sel EXCEPT ![t].parked = FALSE]
        /\ UNCHANGED status
    BY <1>5 DEF ResumeParked, Parked
  <2>2. /\ sel[t] \in Selection /\ sel[t].stmt.cases = <<>> /\ sel[t].resolved = 0
        /\ \A a \in queued : ~(a.task = t /\ a.n = ops[t])
    BY <2>1, <1>2 DEF Parked, WakeInv, SelShape
  <2>3. /\ sel'[t].stmt = sel[t].stmt /\ sel'[t].resolved = 0 /\ ~sel'[t].parked
        /\ \A u \in Task : u # t => sel'[u] = sel[u]
    BY <2>1, <2>2, <1>2 DEF Selection
  <2>4. /\ \A u \in Task : Parked(u)' => Parked(u) /\ u # t
        /\ \A u \in Task : Blocked(u)' => u = t \/ Blocked(u)
    BY <2>3 DEF Parked, Blocked
  <2>5. SelShape'
    <3>1. \A u \in Task : sel'[u] # NoSel => status[u] = "suspended"
      BY <2>1, <2>3 DEF WakeInv, SelShape
    <3>2. \A u \in Task : Parked(u)' => /\ sel'[u].stmt.cases = <<>>
                                        /\ sel'[u].resolved = 0
                                        /\ u \notin timer'
      BY <2>3, <2>4, <1>3 DEF WakeInv, SelShape
    <3>3. \A a \in queued : /\ a.i > 0
                            /\ a.n <= ops[a.task]
                            /\ ~(Parked(a.task)' /\ a.n = ops[a.task])
      BY <2>4, <1>2 DEF WakeInv, SelShape
    <3> QED BY <3>1, <3>2, <3>3, <2>1, <1>1 DEF SelShape, Parked
  <2>6. AllAltsQueued'
    <3> SUFFICES ASSUME NEW u \in Task, Blocked(u)',
                        NEW a \in AltsOf(u, ops[u], sel'[u].stmt)
                 PROVE  a \in queued
      BY <1>1 DEF AllAltsQueued, AltsOf
    <3>1. u # t
      BY <2>2, <2>3 DEF AltsOf
    <3> QED BY <3>1, <2>3, <2>4 DEF WakeInv, AllAltsQueued
  <2>7. NoLostWakeup'
    BY <2>3, <1>3 DEF WakeInv, NoLostWakeup
  <2>8. TimerArmed'
    <3> SUFFICES ASSUME NEW u \in Task, Blocked(u)',
                        NEW i \in DOMAIN sel'[u].stmt.cases, sel'[u].stmt.cases[i].to
                 PROVE  u \in timer'
      BY DEF TimerArmed
    <3>1. u # t
      BY <2>2, <2>3
    <3> QED BY <3>1, <2>3, <2>4, <1>3 DEF WakeInv, TimerArmed
  <2>9. IntactUntilClosed'
    <3>1. closed' = {} => ReadyIsResolved
      BY <1>1 DEF WakeInv, IntactUntilClosed
    <3>2. ~ReadyIsResolved
      BY <2>1, <2>2, <1>1 DEF ReadyIsResolved, Parked
    <3> QED BY <3>1, <3>2 DEF IntactUntilClosed
  <2> QED BY <2>5, <2>6, <2>7, <2>8, <2>9 DEF WakeInv
<1> QED BY <1>4, <1>5

\* Nothing waits to begin with.
LEMMA WakeInit == Init => WakeInv
BY DEF Init, WakeInv, SelShape, Parked, AllAltsQueued, Blocked, NoLostWakeup,
       TimerArmed, IntactUntilClosed, NoStaleAlts, ReadyIsResolved

\* Every step keeps what is known of waiting and waking.
LEMMA WakeNext == Inv /\ WakeInv /\ [Next]_vars => WakeInv'
<1> SUFFICES ASSUME Inv, WakeInv, [Next]_vars
             PROVE  WakeInv'
  OBVIOUS
<1>1. CASE \E t \in EvalTask : Eval(t)
  BY <1>1, ControlWake
<1>2. CASE SchedulerStep
  BY <1>2, SchedulerYieldWake, ResumeWake DEF SchedulerStep
<1>3. ASSUME NEW t \in Task, TaskStep(t)
      PROVE  WakeInv'
  <2>1. CASE Return(t) \/ Panic(t) \/ \E u \in Task : Spawn(t, u)
    BY <2>1, ControlWake
  <2>2. CASE SelectStep(t)
    BY <2>2, SelectReadyWake, DefaultWake, SelectBlockWake, SelectForeverWake
       DEF SelectStep
  <2>3. CASE \E c \in Closing : Close(t, c)
    BY <2>3, CloseWake, TaskAssumption
  <2> QED BY <1>3, <2>1, <2>2, <2>3 DEF TaskStep
<1>4. CASE UNCHANGED vars
  BY <1>4 DEF vars, WakeInv, SelShape, Parked, AllAltsQueued, AltsOf, Blocked,
     NoLostWakeup, TimerArmed, IntactUntilClosed, NoStaleAlts, IsCurrent,
     ReadyIsResolved
<1> QED BY <1>1, <1>2, <1>3, <1>4 DEF Next

\* Both invariants together.
LEMMA FullInit == Init => Inv /\ WakeInv
BY InvInit, WakeInit

\* Both invariants are kept together.
LEMMA FullNext == Inv /\ WakeInv /\ [Next]_vars => (Inv /\ WakeInv)'
BY InvNext, WakeNext

\* Without a close in the program nothing is ever closed.
LEMMA NothingClosed ==
    ASSUME Closing = {}, Inv, WakeInv
    PROVE  NoStaleAlts /\ ReadyIsResolved
<1>1. closed = {}
  BY DEF Inv, TypeOK
<1> QED BY <1>1 DEF WakeInv, IntactUntilClosed

\* A goroutine that waits is queued with every case of its select, whatever is
\* sent, timed out, closed or panics.
THEOREM WaitersQueued == Spec => []AllAltsQueued
<1>1. WakeInv => AllAltsQueued
  BY DEF WakeInv
<1> QED BY <1>1, FullInit, FullNext, PTL DEF Spec

\* A select that was resolved has its coroutine on the list of runnable ones,
\* whatever is closed or panics.
THEOREM WakeupsKept == Spec => []NoLostWakeup
<1>1. WakeInv => NoLostWakeup
  BY DEF WakeInv
<1> QED BY <1>1, FullInit, FullNext, PTL DEF Spec

\* A receive with a timeout that still waits has its timeout armed.
THEOREM TimersArmed == Spec => []TimerArmed
<1>1. WakeInv => TimerArmed
  BY DEF WakeInv
<1> QED BY <1>1, FullInit, FullNext, PTL DEF Spec

\* Until the first close the queues hold waiting selects only, and what is
\* runnable is what can go on, once each: panics and timeouts do no harm.
THEOREM Intact == Spec => []IntactUntilClosed
<1>1. WakeInv => IntactUntilClosed
  BY DEF WakeInv
<1> QED BY <1>1, FullInit, FullNext, PTL DEF Spec

\* In a program that closes no channel no answered select is left in a queue.
THEOREM QueuesFresh ==
    ASSUME Closing = {}
    PROVE  Spec => []NoStaleAlts
<1>1. Inv /\ WakeInv => NoStaleAlts
  BY NothingClosed
<1> QED BY <1>1, FullInit, FullNext, PTL DEF Spec

\* In a program that closes no channel a coroutine is runnable exactly when it
\* is new or answered, and once.
THEOREM RunnableOnce ==
    ASSUME Closing = {}
    PROVE  Spec => []ReadyIsResolved
<1>1. Inv /\ WakeInv => ReadyIsResolved
  BY NothingClosed
<1> QED BY <1>1, FullInit, FullNext, PTL DEF Spec

\* A step of a program that closes no channel leaves an answered select alone.
LEMMA AnswerStays ==
    ASSUME Closing = {}, Inv, WakeInv, Next,
           NEW u \in Task, sel[u] # NoSel, sel[u].resolved > 0
    PROVE  sel'[u] \in {sel[u], NoSel}
<1>1. /\ NoStaleAlts /\ ReadyIsResolved
      /\ status[u] = "suspended" /\ ready[u] = 1
      /\ ~Parked(u) /\ ~Blocked(u)
  BY NothingClosed DEF WakeInv, SelShape, ReadyIsResolved, Parked, Blocked
<1>2. sel \in [Task -> Selection \cup {NoSel}]
  BY DEF Inv, TypeOK
<1>3. CASE \E t \in EvalTask : Eval(t)
  BY <1>3 DEF Eval
<1>4. CASE SchedulerYield
  BY <1>1, <1>4 DEF SchedulerYield
<1>5. ASSUME NEW t \in Task,
             Resume(t) \/ ResumeParked(t) \/ ResumeUnresolved(t) \/ ResumeDead(t)
      PROVE  sel'[u] \in {sel[u], NoSel}
  <2>1. CASE u = t
    BY <2>1, <1>1, <1>2, <1>5 DEF Resume, ResumeParked, ResumeUnresolved, ResumeDead, Parked
  <2>2. CASE u # t
    BY <2>2, <1>2, <1>5 DEF Resume, ResumeParked, ResumeUnresolved, ResumeDead
  <2> QED BY <2>1, <2>2
<1>6. ASSUME NEW t \in Task, TaskStep(t)
      PROVE  sel'[u] \in {sel[u], NoSel}
  <2>1. CASE Return(t) \/ Panic(t) \/ \E w \in Task : Spawn(t, w)
    BY <2>1 DEF Return, Panic, Spawn
  <2>2. ASSUME NEW s \in Stmt, SelectReady(t, s)
        PROVE  sel'[u] \in {sel[u], NoSel}
    <3>1. PICK a \in AltsOf(t, ops[t] + 1, s) : ExecCase(t, s, a)
      BY <2>2 DEF SelectReady
    <3>2. a \in Alt /\ ~a.closed
      BY <2>2, BeginOpType, AltsOfType DEF SelectReady
    <3>3. CanExec(a)
      BY <3>1 DEF ExecCase
    <3>4. PICK o \in Partners(a) :
            IF o = NoAlt THEN UNCHANGED <<sel, queued, ready>>
            ELSE Wake(o, CopyFor(a, o).value)
      BY <3>1 DEF ExecCase
    <3>5. CASE o = NoAlt
      BY <3>4, <3>5
    <3>6. CASE o # NoAlt
      <4>1. o \in queued /\ CopyFor(a, o).value \in Value
        BY <3>2, <3>3, <3>6, CopyFacts
      <4>2. Wake(o, CopyFor(a, o).value)
        BY <3>4, <3>6
      <4>3. \A w \in Task : w # o.task => sel'[w] = sel[w]
        BY <4>1, <4>2, WakeEffect
      <4>4. u # o.task
        BY <4>1, <1>1 DEF NoStaleAlts
      <4> QED BY <4>3, <4>4
    <3> QED BY <3>5, <3>6
  <2>3. ASSUME NEW s \in Stmt,
               SelectDefault(t, s) \/ SelectBlock(t, s) \/ SelectForever(t, s)
        PROVE  sel'[u] \in {sel[u], NoSel}
    <3>1. u # t
      BY <2>3, <1>1 DEF SelectDefault, SelectBlock, SelectForever, BeginOp, HasControl
    <3> QED BY <3>1, <2>3, <1>2 DEF SelectDefault, SelectBlock, SelectForever
  <2> QED BY <1>6, <2>1, <2>2, <2>3 DEF TaskStep, SelectStep
<1> QED BY <1>3, <1>4, <1>5, <1>6 DEF Next, SchedulerStep

\* In a program that closes no channel the answer of a select is never
\* overwritten before its goroutine has seen it.
THEOREM AnsweredOnce ==
    ASSUME Closing = {}
    PROVE  Spec => ResolvedOnce
<1>1. Inv /\ WakeInv /\ [Next]_vars
        => [\A t \in Task : sel[t] # NoSel /\ sel[t].resolved > 0
                              => sel'[t] \in {sel[t], NoSel}]_vars
  <2> SUFFICES ASSUME Inv, WakeInv, Next
               PROVE  \A t \in Task : sel[t] # NoSel /\ sel[t].resolved > 0
                                        => sel'[t] \in {sel[t], NoSel}
    OBVIOUS
  <2> QED BY AnswerStays
<1> QED BY <1>1, FullInit, FullNext, PTL DEF Spec, ResolvedOnce

\* A coroutine that was never run is runnable.
NewIsReady ==
    \A t \in Task : status[t] = "suspended" /\ sel[t] = NoSel => ready[t] > 0

\* What wakes others only leaves the new ones runnable.
LEMMA WakingKeepsNew ==
    ASSUME NewIsReady, ready \in [Task -> Nat], ready' \in [Task -> Nat],
           UNCHANGED status,
           \A u \in Task : sel[u] # NoSel => sel'[u] # NoSel,
           \A u \in Task : ready'[u] >= ready[u]
    PROVE  NewIsReady'
<1> SUFFICES ASSUME NEW u \in Task, status[u] = "suspended", sel'[u] = NoSel
             PROVE  ready'[u] > 0
  BY DEF NewIsReady
<1>1. ready[u] > 0
  BY DEF NewIsReady
<1>2. ready[u] \in Nat /\ ready'[u] \in Nat /\ ready'[u] >= ready[u]
  OBVIOUS
<1> QED BY <1>1, <1>2

\* What puts its own coroutine to sleep leaves the new ones runnable.
LEMMA SleepingKeepsNew ==
    ASSUME NewIsReady, NEW t \in Task,
           \A u \in Task : u # t => /\ status'[u] = status[u]
                                   /\ sel'[u] = sel[u]
                                   /\ ready'[u] = ready[u],
           status'[t] # "suspended" \/ sel'[t] # NoSel
    PROVE  NewIsReady'
BY DEF NewIsReady

\* A coroutine is runnable from the moment it is created.
LEMMA CreatingKeepsNew ==
    ASSUME NewIsReady, ready \in [Task -> Nat], NEW u \in Task, MakeReady(u),
           status \in [Task -> {"none", "suspended", "running", "dead"}],
           status' = [status EXCEPT ![u] = "suspended"], UNCHANGED sel
    PROVE  NewIsReady'
<1>1. ready'[u] = ready[u] + 1 /\ ready[u] \in Nat
  BY DEF MakeReady
<1>2. \A v \in Task : v # u => ready'[v] = ready[v] /\ status'[v] = status[v]
  BY DEF MakeReady
<1> QED BY <1>1, <1>2 DEF NewIsReady

LEMMA CloseKeepsNew ==
    ASSUME Inv, NewIsReady, NEW t \in Task, NEW c \in Chan, Close(t, c)
    PROVE  NewIsReady'
<1>1. /\ CloseReceivers(c) \/ CloseOwnSender(c)
      /\ UNCHANGED status
  BY DEF Close
<1>2. /\ ready \in [Task -> Nat]
      /\ IsFiniteSet(queued)
      /\ \A a \in queued : a.task \in Task
  BY DEF Inv, TypeOK, Alt
<1>3. /\ ready' \in [Task -> Nat]
      /\ \A u \in Task : sel[u] # NoSel => sel'[u] # NoSel
  BY <1>1, CloseReceiversStep, CloseOwnSenderStep
<1>4. CASE CloseReceivers(c)
  <2> DEFINE rs == GetAlts(c, RECV)
             n(u) == Cardinality({r \in rs : r.task = u})
  <2>1. IsFiniteSet(rs)
    BY <1>2, FS_Subset DEF GetAlts
  <2>2. ASSUME NEW u \in Task
        PROVE  ready'[u] >= ready[u]
    <3>1. ready'[u] = ready[u] + n(u)
      BY <1>4 DEF CloseReceivers, MakeAllReady
    <3>2. n(u) \in Nat
      BY <2>1, FS_Subset, FS_CardinalityType
    <3> HIDE DEF n
    <3> QED BY <3>1, <3>2, <1>2
  <2> QED BY <2>2, <1>1, <1>2, <1>3, WakingKeepsNew
<1>5. CASE CloseOwnSender(c)
  <2>1. \/ ready' = ready
        \/ \E s \in queued : MakeReady(s.task)
    BY <1>5 DEF CloseOwnSender, GetAlts
  <2>2. \A u \in Task : ready'[u] >= ready[u]
    <3>1. CASE ready' = ready
      BY <3>1, <1>2
    <3>2. ASSUME NEW s \in queued, MakeReady(s.task)
          PROVE  \A u \in Task : ready'[u] >= ready[u]
      BY <3>2, <1>2 DEF MakeReady
    <3> QED BY <2>1, <3>1, <3>2
  <2> QED BY <2>2, <1>1, <1>2, <1>3, WakingKeepsNew
<1> QED BY <1>1, <1>4, <1>5

LEMMA SelectReadyKeepsNew ==
    ASSUME Inv, NewIsReady, NEW t \in Task, NEW s \in Stmt, SelectReady(t, s)
    PROVE  NewIsReady'
<1>1. PICK a \in AltsOf(t, ops[t] + 1, s) : ExecCase(t, s, a)
  BY DEF SelectReady
<1>2. ops[t] + 1 \in 1 .. MaxOps
  BY BeginOpType DEF SelectReady
<1>3. a \in Alt /\ ~a.closed
  BY <1>2, AltsOfType
<1>4. CanExec(a) /\ UNCHANGED status
  BY <1>1 DEF ExecCase
<1>5. PICK o \in Partners(a) :
        IF o = NoAlt THEN UNCHANGED <<sel, queued, ready>>
        ELSE Wake(o, CopyFor(a, o).value)
  BY <1>1 DEF ExecCase
<1>6. CASE o = NoAlt
  BY <1>4, <1>5, <1>6 DEF NewIsReady
<1>7. CASE o # NoAlt
  <2>1. o \in queued /\ CopyFor(a, o).value \in Value
    BY <1>3, <1>4, <1>7, CopyFacts
  <2>2. Wake(o, CopyFor(a, o).value)
    BY <1>5, <1>7
  <2>3. /\ ready' \in [Task -> Nat]
        /\ \A u \in Task : sel[u] # NoSel => sel'[u] # NoSel
    BY <2>1, <2>2, WakeType
  <2>4. ready \in [Task -> Nat] /\ o.task \in Task
    BY <2>1 DEF Inv, TypeOK, Alt
  <2>5. \A u \in Task : ready'[u] >= ready[u]
    BY <2>2, <2>4 DEF Wake, MakeReady
  <2> QED BY <2>3, <2>4, <2>5, <1>4, WakingKeepsNew
<1> QED BY <1>6, <1>7

\* Nothing but being resumed takes a new coroutine off the list.
LEMMA NewNext ==
    ASSUME Inv, NewIsReady, EvalHasRun, [Next]_vars
    PROVE  NewIsReady' /\ EvalHasRun'
<1>1. /\ status \in [Task -> {"none", "suspended", "running", "dead"}]
      /\ ready \in [Task -> Nat]
      /\ sel \in [Task -> Selection \cup {NoSel}]
      /\ timer \subseteq {t \in Task : sel[t] # NoSel}
      /\ \A t \in Task : HasControl(t) => sched = "normal"
  BY DEF Inv, TypeOK, OneInControl
<1>2. ASSUME NEW t \in EvalTask, Eval(t)
      PROVE  NewIsReady' /\ EvalHasRun'
  <2>1. NewIsReady'
    BY <1>1, <1>2, TaskAssumption, CreatingKeepsNew DEF Eval
  <2>2. sched' # "suspended"
    BY <1>2 DEF Eval
  <2> QED BY <2>1, <2>2 DEF EvalHasRun
<1>3. CASE SchedulerYield
  <2>1. PICK X \in SUBSET timer : Expire(X)
    BY <1>3 DEF SchedulerYield
  <2>2. status' = status /\ \A t \in Task : ready[t] = 0
    BY <1>3 DEF SchedulerYield
  <2>3. \A t \in Task : t \notin X => sel'[t] = sel[t]
    BY <2>1 DEF Expire
  <2>4. ASSUME NEW t \in X
        PROVE  sel'[t] # NoSel
    <3>1. t \in Task /\ sel[t] \in Selection
      BY <1>1
    <3>2. sel'[t] = Resolved(sel[t], 1, TIMEOUT)
      BY <3>1, <2>1 DEF Expire, Resolved
    <3>3. TIMEOUT \in Value
      BY DEF Value
    <3> QED BY <3>1, <3>2, <3>3, ResolvedFields
  <2>5. \A t \in Task : status[t] = "suspended" => sel'[t] # NoSel
    BY <2>2, <2>3, <2>4 DEF NewIsReady
  <2> QED BY <2>2, <2>5, TaskAssumption DEF NewIsReady, EvalHasRun
<1>4. ASSUME NEW t \in Task,
             Resume(t) \/ ResumeParked(t) \/ ResumeUnresolved(t) \/ ResumeDead(t)
      PROVE  NewIsReady' /\ EvalHasRun'
  <2>1. /\ sched = "running"
        /\ ready' = [ready EXCEPT ![t] = @ - 1]
    BY <1>4 DEF Resume, ResumeParked, ResumeUnresolved, ResumeDead, PickTask
  <2>2. sched' # "suspended"
    BY <2>1, <1>4 DEF Resume, ResumeParked, ResumeUnresolved, ResumeDead
  <2>3. \A u \in Task : u # t => /\ status'[u] = status[u]
                                 /\ sel'[u] = sel[u]
                                 /\ ready'[u] = ready[u]
    BY <2>1, <1>1, <1>4 DEF Resume, ResumeParked, ResumeUnresolved, ResumeDead
  <2>4. status'[t] # "suspended" \/ sel'[t] # NoSel
    <3>1. CASE ResumeParked(t)
      <4>1. sel[t] \in Selection /\ sel' = [sel EXCEPT ![t].parked = FALSE]
        BY <3>1, <1>1 DEF ResumeParked
      <4>2. sel'[t] \in Selection
        BY <4>1, <1>1 DEF Selection
      <4> QED BY <4>2, DistinctAssumption
    <3>2. CASE ~ResumeParked(t)
      BY <3>2, <1>1, <1>4 DEF Resume, ResumeUnresolved, ResumeDead
    <3> QED BY <3>1, <3>2
  <2>5. NewIsReady'
    BY <2>3, <2>4, SleepingKeepsNew
  <2> QED BY <2>2, <2>5 DEF EvalHasRun
<1>5. ASSUME NEW t \in Task, TaskStep(t)
      PROVE  NewIsReady' /\ EvalHasRun'
  <2>1. HasControl(t) /\ sched = "normal"
    BY <1>5, <1>1 DEF TaskStep, SelectStep, Return, Panic, Spawn, SelectReady,
       SelectDefault, SelectBlock, SelectForever, Close, BeginOp
  <2>2. sched' # "suspended"
    BY <1>5, <2>1 DEF TaskStep, SelectStep, Return, Panic, Spawn, Close,
       SelectReady, ExecCase, SelectDefault, SelectBlock, SelectForever, YieldAs
  <2>3. CASE Return(t) \/ Panic(t)
    <3>1. UNCHANGED <<ready, sel>> /\ status' = [status EXCEPT ![t] = "dead"]
      BY <2>3 DEF Return, Panic, YieldAs
    <3> QED BY <3>1, <2>2, <1>1, SleepingKeepsNew DEF EvalHasRun
  <2>4. ASSUME NEW u \in Task, Spawn(t, u)
        PROVE  NewIsReady' /\ EvalHasRun'
    BY <2>4, <2>2, <1>1, CreatingKeepsNew DEF Spawn, EvalHasRun
  <2>5. ASSUME NEW s \in Stmt, SelectReady(t, s)
        PROVE  NewIsReady' /\ EvalHasRun'
    BY <2>5, <2>2, SelectReadyKeepsNew DEF EvalHasRun
  <2>6. ASSUME NEW s \in Stmt, SelectDefault(t, s)
        PROVE  NewIsReady' /\ EvalHasRun'
    BY <2>6, <2>2 DEF SelectDefault, NewIsReady, EvalHasRun
  <2>7. ASSUME NEW s \in Stmt, SelectBlock(t, s) \/ SelectForever(t, s)
        PROVE  NewIsReady' /\ EvalHasRun'
    <3>1. PICK p \in BOOLEAN :
             sel' = [sel EXCEPT ![t] =
               [stmt |-> s, resolved |-> 0, value |-> Nil, parked |-> p]]
      BY <2>7 DEF SelectBlock, SelectForever
    <3> DEFINE x == [stmt |-> s, resolved |-> 0, value |-> Nil, parked |-> p]
    <3>2. x # NoSel
      BY UnresolvedType
    <3>3. /\ status' = [status EXCEPT ![t] = "suspended"]
          /\ \A u \in Task : u # t => ready'[u] = ready[u]
      BY <2>7, <1>1 DEF SelectBlock, SelectForever, YieldAs
    <3> HIDE DEF x
    <3>4. sel' = [sel EXCEPT ![t] = x]
      BY <3>1 DEF x
    <3>5. sel'[t] # NoSel /\ \A u \in Task : u # t => sel'[u] = sel[u]
      BY <3>2, <3>4, <1>1
    <3>6. NewIsReady'
      BY <3>3, <3>5, <1>1, SleepingKeepsNew
    <3> QED BY <3>6, <2>2 DEF EvalHasRun
  <2>8. ASSUME NEW c \in Closing, Close(t, c)
        PROVE  NewIsReady' /\ EvalHasRun'
    BY <2>8, <2>2, TaskAssumption, CloseKeepsNew DEF EvalHasRun
  <2> QED BY <1>5, <2>3, <2>4, <2>5, <2>6, <2>7, <2>8 DEF TaskStep, SelectStep
<1>6. CASE UNCHANGED vars
  BY <1>6 DEF vars, NewIsReady, EvalHasRun
<1> QED BY <1>2, <1>3, <1>4, <1>5, <1>6 DEF Next, SchedulerStep

\* The REPL gets control back only when the code it evaluated has ended or
\* waits, whatever was closed before.
THEOREM EvaluationsRun == Spec => []EvalHasRun
<1>1. Init => NewIsReady /\ EvalHasRun
  BY TaskAssumption DEF Init, NewIsReady, EvalHasRun
<1>2. Inv /\ NewIsReady /\ EvalHasRun /\ [Next]_vars => NewIsReady' /\ EvalHasRun'
  BY NewNext
<1> QED BY <1>1, <1>2, InvInit, InvNext, PTL DEF Spec
-----------------------------------------------------------------------------
\* A program without close and without timeouts: what GoSelect speaks of.
Plain == Closing = {} /\ \A s \in Stmt : \A i \in DOMAIN s.cases : ~s.cases[i].to

\* A select that was resolved and is not resumed yet.
Answered(t) == sel[t] # NoSel /\ sel[t].resolved > 0

\* In such a program no timeout is pending, every queued alt is a case of the
\* statement its coroutine waits in, nothing was received while waiting, what
\* answered a select is one of its cases, and what select returned is a result.
PlainInv ==
    /\ timer = {}
    /\ \A a \in queued : a \in AltsOf(a.task, a.n, sel[a.task].stmt)
    /\ \A t \in Task : Blocked(t) => sel[t].value = Nil
    /\ \A t \in Task : Answered(t) => sel[t].resolved \in DOMAIN sel[t].stmt.cases
    /\ got \in [Task -> Result \cup {NoOutcome}]

WaitInv == Inv /\ WakeInv /\ PlainInv

\* What the other invariants say of such a program.
LEMMA WaitFacts ==
    ASSUME Plain, WaitInv
    PROVE  /\ Inv /\ WakeInv /\ PlainInv /\ NoStaleAlts /\ ReadyIsResolved
           /\ queued \subseteq Alt
           /\ sel \in [Task -> Selection \cup {NoSel}]
           /\ ops \in [Task -> 0 .. MaxOps]
BY NothingClosed DEF Plain, WaitInv, Inv, TypeOK

\* The answer of a Wake.
LEMMA WakeAnswer ==
    ASSUME Inv, NEW o \in queued, NEW v \in Value, Wake(o, v), IsCurrent(o)
    PROVE  sel'[o.task].value = IF o.op = RECV THEN v ELSE sel[o.task].value
<1>1. o.task \in Task /\ sel \in [Task -> Selection \cup {NoSel}]
  BY DEF Inv, TypeOK, Alt
<1> DEFINE w == IF o.op = RECV THEN v ELSE sel[o.task].value
           x == [sel[o.task] EXCEPT !.resolved = o.i, !.value = w]
<1>2. sel[o.task] \in Selection
  BY <1>1 DEF IsCurrent
<1>3. sel' = [sel EXCEPT ![o.task] = x]
  BY <1>1, <1>2 DEF Wake, Selection
<1>4. x.value = w
  BY <1>2 DEF Selection
<1> HIDE DEF x
<1>5. sel'[o.task] = x
  BY <1>1, <1>3
<1> QED
  BY <1>4, <1>5

\* An alt of a statement names one of its cases.
LEMMA AltCase ==
    ASSUME Plain, NEW t \in Task, NEW n, NEW s \in Stmt, NEW a \in AltsOf(t, n, s)
    PROVE  /\ a.task = t /\ a.n = n /\ ~a.to /\ ~a.closed
           /\ a.i \in DOMAIN s.cases /\ a.c = s.cases[a.i].c /\ a.op = s.cases[a.i].op
BY DEF AltsOf, Plain

\* What select returns.
LEMMA OutcomeType ==
    ASSUME NEW s \in Stmt, NEW i \in DOMAIN s.cases, NEW v \in Value
    PROVE  /\ Outcome(s, i, v) \in Result /\ Outcome(s, i, v) # NoOutcome
           /\ Outcome(s, i, v).c = s.cases[i].c /\ Outcome(s, i, v).op = s.cases[i].op
           /\ Outcome(s, i, v).value = v
<1>1. s.cases \in Seq(Case) /\ DOMAIN s.cases = 1 .. Len(s.cases)
  BY StmtAssumption, LenProperties
<1>2. s.cases[i] \in Case
  BY <1>1, ElementOfSeq
<1>3. PICK x : x = s.cases[i]
  OBVIOUS
<1>4. x.c \in Chan /\ x.op \in {RECV, SEND}
  BY <1>2, <1>3 DEF Case
<1>5. [c |-> x.c, op |-> x.op, value |-> v, ok |-> TRUE] \in Result
  BY <1>4 DEF Result, Value
<1>6. Outcome(s, i, v) = [c |-> x.c, op |-> x.op, value |-> v, ok |-> TRUE]
  BY <1>3 DEF Outcome
<1>7. NoOutcome \notin Result
  BY DistinctAssumption
<1>8. Outcome(s, i, v) # NoOutcome
  BY <1>5, <1>6, <1>7
<1> QED
  BY <1>3, <1>5, <1>6, <1>8

-----------------------------------------------------------------------------
\* Steps keep PlainInv.
LEMMA PlainSame ==
    ASSUME Plain, WaitInv, NEW t \in Task, ~Blocked(t),
           timer' = timer, queued' \subseteq queued,
           \A u \in Task : u # t => sel'[u] = sel[u],
           sel'[t] # NoSel => sel'[t].parked /\ sel'[t].resolved = 0,
           got' \in [Task -> Result \cup {NoOutcome}]
    PROVE  PlainInv'
<1>1. /\ PlainInv /\ NoStaleAlts /\ queued \subseteq Alt
  BY WaitFacts
<1>2. ASSUME NEW a \in queued' PROVE a \in AltsOf(a.task, a.n, sel'[a.task].stmt)
  <2>1. a \in queued /\ a.task \in Task /\ Blocked(a.task)
    BY <1>1 DEF NoStaleAlts, Alt
  <2>2. a.task # t
    BY <2>1 DEF Blocked
  <2> QED
    BY <1>1, <2>1, <2>2 DEF PlainInv
<1>3. \A u \in Task : Blocked(u)' => sel'[u].value = Nil
  BY <1>1 DEF PlainInv, Blocked
<1>4. \A u \in Task : Answered(u)' => sel'[u].resolved \in DOMAIN sel'[u].stmt.cases
  BY <1>1 DEF PlainInv, Answered
<1> QED
  BY <1>1, <1>2, <1>3, <1>4 DEF PlainInv, AltsOf

\* A case that is executed answers one waiting select at most.
LEMMA PlainSelectReady ==
    ASSUME Plain, WaitInv, NEW t \in Task, NEW s \in Stmt, SelectReady(t, s)
    PROVE  PlainInv'
<1>1. PICK a \in AltsOf(t, ops[t] + 1, s) : ExecCase(t, s, a)
  BY DEF SelectReady
<1>2. /\ Inv /\ WakeInv /\ PlainInv /\ NoStaleAlts /\ queued \subseteq Alt
  BY WaitFacts
<1>3. a \in Alt /\ ~a.closed
  BY <1>2, BeginOpType, AltsOfType DEF SelectReady
<1>4. CanExec(a) /\ timer' = timer
  BY <1>1 DEF ExecCase
<1>5. PICK o \in Partners(a) :
        /\ got' = [got EXCEPT ![t] =
                    Outcome(s, a.i, IF a.op = RECV THEN CopyFor(a, o).value ELSE Nil)]
        /\ IF o = NoAlt THEN UNCHANGED <<sel, queued, ready>>
           ELSE Wake(o, CopyFor(a, o).value)
  BY <1>1 DEF ExecCase
<1>8. got' \in [Task -> Result \cup {NoOutcome}]
  <2>1. CopyFor(a, o).value \in Value
    BY <1>2, <1>3, <1>4, CopyFacts
  <2>2. PICK v \in Value : v = IF a.op = RECV THEN CopyFor(a, o).value ELSE Nil
    BY <2>1 DEF Value
  <2>3. a.i \in DOMAIN s.cases
    BY AltCase
  <2>4. PICK r \in Result : r = Outcome(s, a.i, v)
    BY <2>3, OutcomeType
  <2>5. got' = [got EXCEPT ![t] = r]
    BY <1>5, <2>2, <2>4
  <2> QED
    BY <1>2, <2>5 DEF PlainInv
<1>6. CASE o = NoAlt
  BY <1>2, <1>4, <1>5, <1>6, <1>8 DEF PlainInv, AltsOf, Blocked, Answered
<1>7. CASE o # NoAlt
  <2>1. o \in queued /\ CopyFor(a, o).value \in Value
    BY <1>2, <1>3, <1>4, <1>7, CopyFacts
  <2>2. Wake(o, CopyFor(a, o).value)
    BY <1>5, <1>7
  <2>3. /\ Dequeue(o) /\ IsCurrent(o) /\ o.task \in Task /\ o.i > 0
        /\ sel'[o.task].resolved = o.i /\ sel'[o.task].stmt = sel[o.task].stmt
        /\ \A u \in Task : u # o.task => sel'[u] = sel[u]
    BY <1>2, <2>1, <2>2, WakeEffect DEF NoStaleAlts, Alt, WakeInv, SelShape
  <2>4. ASSUME NEW x \in queued' PROVE x \in AltsOf(x.task, x.n, sel'[x.task].stmt)
    <3>1. x \in queued /\ x.task \in Task
      BY <1>2, <2>3 DEF Dequeue, Alt
    <3>2. sel'[x.task].stmt = sel[x.task].stmt
      BY <2>3, <3>1
    <3> QED
      BY <1>2, <3>1, <3>2 DEF PlainInv
  <2>5. \A u \in Task : Blocked(u)' => sel'[u].value = Nil
    <3>1. o.i \in Nat /\ ~Blocked(o.task)'
      BY <1>2, <2>1, <2>3 DEF Blocked, Alt
    <3> QED
      BY <1>2, <2>3, <3>1 DEF PlainInv, Blocked
  <2>6. \A u \in Task : Answered(u)' => sel'[u].resolved \in DOMAIN sel'[u].stmt.cases
    <3>1. IsCurrent(o) /\ o.i \in DOMAIN sel[o.task].stmt.cases
      <4>1. PICK w \in Stmt : w = sel[o.task].stmt
        BY <1>2, <2>3, WaitFacts DEF IsCurrent, Selection
      <4>2. o \in AltsOf(o.task, o.n, w)
        BY <1>2, <2>1, <4>1 DEF PlainInv
      <4> QED
        BY <2>3, <4>1, <4>2, AltCase
    <3>2. o.i \in DOMAIN sel'[o.task].stmt.cases
      BY <2>3, <3>1
    <3> QED
      BY <1>2, <2>3, <3>2 DEF PlainInv, Answered
  <2> QED
    BY <1>2, <1>4, <1>8, <2>4, <2>5, <2>6 DEF PlainInv, AltsOf
<1> QED
  BY <1>6, <1>7

\* A select that blocks queues its own cases.
LEMMA PlainSelectBlock ==
    ASSUME Plain, WaitInv, NEW t \in Task, NEW s \in Stmt, SelectBlock(t, s)
    PROVE  PlainInv'
<1>1. /\ Inv /\ WakeInv /\ PlainInv /\ NoStaleAlts /\ queued \subseteq Alt
      /\ sel \in [Task -> Selection \cup {NoSel}]
  BY WaitFacts
<1>2. PICK x : x = [stmt |-> s, resolved |-> 0, value |-> Nil, parked |-> FALSE]
  OBVIOUS
<1>3. /\ HasControl(t)
      /\ queued' = queued \cup AltsOf(t, ops[t] + 1, s)
      /\ timer' = timer /\ sel' = [sel EXCEPT ![t] = x] /\ got' = got
  BY <1>2 DEF SelectBlock, BeginOp, Plain
<1>4. sel'[t] = x /\ sel[t] = NoSel /\ \A u \in Task : u # t => sel'[u] = sel[u]
  BY <1>1, <1>3 DEF WakeInv, SelShape, HasControl
<1>5. x.stmt = s /\ x.value = Nil /\ x.resolved = 0
  BY <1>2
<1>6. ASSUME NEW a \in queued' PROVE a \in AltsOf(a.task, a.n, sel'[a.task].stmt)
  <2>1. CASE a \in queued
    <3>1. a.task \in Task /\ Blocked(a.task)
      BY <1>1, <2>1 DEF NoStaleAlts, Alt
    <3>2. a.task # t
      BY <1>4, <3>1 DEF Blocked
    <3> QED
      BY <1>1, <1>4, <2>1, <3>1, <3>2 DEF PlainInv
  <2>2. CASE a \in AltsOf(t, ops[t] + 1, s)
    <3>1. a.task = t /\ a.n = ops[t] + 1
      BY <2>2, AltCase
    <3> QED
      BY <1>4, <1>5, <2>2, <3>1
  <2> QED
    BY <1>3, <2>1, <2>2
<1>7. \A u \in Task : Blocked(u)' => sel'[u].value = Nil
  BY <1>1, <1>4, <1>5 DEF PlainInv, Blocked
<1>8. \A u \in Task : Answered(u)' => sel'[u].resolved \in DOMAIN sel'[u].stmt.cases
  BY <1>1, <1>4, <1>5 DEF PlainInv, Answered
<1> QED
  BY <1>1, <1>3, <1>6, <1>7, <1>8 DEF PlainInv, AltsOf

\* Without timeouts nothing expires.
LEMMA PlainSchedulerYield ==
    ASSUME Plain, WaitInv, SchedulerYield
    PROVE  sel' = sel /\ queued' = queued /\ timer' = timer
<1>1. timer = {} /\ sel \in [Task -> Selection \cup {NoSel}]
  BY WaitFacts DEF PlainInv
<1>2. Expire({})
  BY <1>1 DEF SchedulerYield
<1>3. sel' = [t \in Task |-> sel[t]] /\ queued' = queued /\ timer' = timer
  BY <1>2 DEF Expire
<1> QED
  BY <1>1, <1>3

\* What is resumed was answered or is new.
LEMMA PlainResume ==
    ASSUME Plain, WaitInv, NEW t \in Task,
           Resume(t) \/ ResumeParked(t) \/ ResumeUnresolved(t) \/ ResumeDead(t)
    PROVE  /\ Resume(t) \/ ResumeDead(t)
           /\ ~Blocked(t) /\ UNCHANGED <<ops, queued, buf>> /\ timer' = timer
           /\ \A u \in Task : u # t => sel'[u] = sel[u] /\ got'[u] = got[u]
           /\ sel'[t] = NoSel
           /\ got' \in [Task -> Result \cup {NoOutcome}]
           /\ IF sel[t] = NoSel THEN got'[t] = got[t]
              ELSE /\ sel[t].resolved > 0
                   /\ got'[t] = Outcome(sel[t].stmt, sel[t].resolved, sel[t].value)
<1>1. /\ WakeInv /\ ReadyIsResolved /\ timer = {} /\ sel \in [Task -> Selection \cup {NoSel}]
      /\ got \in [Task -> Result \cup {NoOutcome}]
  BY WaitFacts DEF PlainInv
<1>2. ready[t] > 0
  BY DEF Resume, ResumeParked, ResumeUnresolved, ResumeDead, PickTask
<1>3. status[t] = "suspended" /\ (sel[t] = NoSel \/ sel[t].resolved > 0)
  BY <1>1, <1>2 DEF ReadyIsResolved
<1>4. ~Blocked(t)
  <2>1. sel[t] # NoSel => sel[t].resolved \in Nat
    BY <1>1 DEF Selection
  <2> QED
    BY <1>3, <2>1 DEF Blocked
<1>5. ~ResumeDead(t)
  BY <1>3 DEF ResumeDead
<1>6. ~ResumeUnresolved(t)
  BY <1>3 DEF ResumeUnresolved
<1>7. ~ResumeParked(t)
  BY <1>1, <1>3 DEF ResumeParked, WakeInv, SelShape, Parked
<1>8. Resume(t)
  BY <1>5, <1>6, <1>7
<1>9. timer' = timer /\ UNCHANGED <<ops, queued, buf>>
  BY <1>1, <1>8 DEF Resume, PickTask
<1>10. CASE sel[t] = NoSel
  BY <1>1, <1>4, <1>8, <1>9, <1>10 DEF Resume
<1>11. CASE sel[t] # NoSel
  <2>1. sel' = [sel EXCEPT ![t] = NoSel]
    BY <1>8, <1>11 DEF Resume
  <2>2. PICK r : r = Outcome(sel[t].stmt, sel[t].resolved, sel[t].value)
    OBVIOUS
  <2>3. got' = [got EXCEPT ![t] = r]
    BY <1>8, <1>11, <2>2 DEF Resume
  <2>4. sel'[t] = NoSel /\ got'[t] = r
        /\ \A u \in Task : u # t => sel'[u] = sel[u] /\ got'[u] = got[u]
    BY <1>1, <2>1, <2>3
  <2>5. r \in Result
    <3>1. PICK x \in Selection : x = sel[t]
      BY <1>1, <1>11
    <3>2. x.stmt \in Stmt /\ x.value \in Value
      BY DEF Selection, Value
    <3>3. x.resolved \in DOMAIN x.stmt.cases
      BY <1>3, <1>11, <3>1, WaitFacts DEF PlainInv, Answered
    <3> QED
      BY <2>2, <3>1, <3>2, <3>3, OutcomeType
  <2>6. got' \in [Task -> Result \cup {NoOutcome}]
    BY <1>1, <2>3, <2>5
  <2> QED
    BY <1>3, <1>4, <1>8, <1>9, <1>11, <2>2, <2>4, <2>6
<1> QED
  BY <1>10, <1>11

\* Starting, ending, and a select with a default leave the selects alone.
LEMMA PlainControl ==
    ASSUME Plain, WaitInv,
           \/ \E t \in EvalTask : Eval(t)
           \/ \E t, u \in Task : Spawn(t, u)
           \/ \E t \in Task : Return(t) \/ Panic(t)
           \/ \E t \in Task, s \in Stmt : SelectDefault(t, s)
    PROVE  UNCHANGED <<timer, sel, queued, buf, got>> /\ (ops' = ops \/ \E t \in Task : BeginOp(t))
BY DEF Eval, Spawn, Return, Panic, SelectDefault

\* select{} parks a coroutine that was in no select.
LEMMA PlainSelectForever ==
    ASSUME Plain, WaitInv, NEW t \in Task, NEW s \in Stmt, SelectForever(t, s)
    PROVE  /\ UNCHANGED <<timer, queued, buf, got>>
           /\ BeginOp(t) /\ sel[t] = NoSel
           /\ sel'[t].parked /\ sel'[t].resolved = 0
           /\ \A u \in Task : u # t => sel'[u] = sel[u]
<1>1. /\ WakeInv /\ sel \in [Task -> Selection \cup {NoSel}]
  BY WaitFacts
<1>2. PICK x : x = [stmt |-> s, resolved |-> 0, value |-> Nil, parked |-> TRUE]
  OBVIOUS
<1>3. x.parked /\ x.resolved = 0
  BY <1>2
<1>4. sel' = [sel EXCEPT ![t] = x]
  BY <1>2 DEF SelectForever
<1>5. UNCHANGED <<timer, queued, buf, got>> /\ BeginOp(t)
  BY DEF SelectForever
<1>6. sel[t] = NoSel
  BY <1>1, <1>5 DEF BeginOp, HasControl, WakeInv, SelShape
<1> QED
  BY <1>1, <1>3, <1>4, <1>5, <1>6

\* Every step keeps PlainInv.
LEMMA PlainNext ==
    ASSUME Plain, WaitInv, [Next]_vars
    PROVE  PlainInv'
<1> USE WaitFacts
<1>1. ASSUME UNCHANGED <<timer, sel, queued, got>> PROVE PlainInv'
  BY <1>1 DEF PlainInv, Blocked, Answered, AltsOf
<1>2. CASE \E t \in EvalTask : Eval(t)
  BY <1>1, <1>2, PlainControl
<1>3. CASE SchedulerYield
  <2>1. got' = got
    BY <1>3 DEF SchedulerYield
  <2> QED
    BY <1>1, <1>3, <2>1, PlainSchedulerYield
<1>4. ASSUME NEW t \in Task, Resume(t) \/ ResumeParked(t) \/ ResumeUnresolved(t) \/ ResumeDead(t)
      PROVE  PlainInv'
  <2>1. /\ ~Blocked(t) /\ queued' = queued /\ timer' = timer /\ sel'[t] = NoSel
        /\ \A u \in Task : u # t => sel'[u] = sel[u]
    BY <1>4, PlainResume
  <2>2. got' \in [Task -> Result \cup {NoOutcome}]
    BY <1>4, PlainResume
  <2> QED
    BY <2>1, <2>2, PlainSame
<1>5. ASSUME NEW t \in Task, TaskStep(t)
      PROVE  PlainInv'
  <2>1. CASE Return(t) \/ Panic(t) \/ (\E u \in Task : Spawn(t, u))
    BY <1>1, <2>1, PlainControl
  <2>2. ASSUME NEW s \in Stmt, SelectForever(t, s) PROVE PlainInv'
    <3>1. sel[t] = NoSel /\ UNCHANGED <<timer, queued, got>>
          /\ sel'[t].parked /\ sel'[t].resolved = 0
          /\ \A u \in Task : u # t => sel'[u] = sel[u]
      BY <2>2, PlainSelectForever
    <3>2. ~Blocked(t)
      BY <3>1 DEF Blocked
    <3>3. got' \in [Task -> Result \cup {NoOutcome}]
      BY <3>1 DEF PlainInv
    <3> QED
      BY <3>1, <3>2, <3>3, PlainSame
  <2>3. ASSUME NEW s \in Stmt, SelectDefault(t, s) PROVE PlainInv'
    BY <1>1, <2>3, PlainControl
  <2>4. CASE SelectStep(t)
    BY <2>2, <2>3, <2>4, PlainSelectReady, PlainSelectBlock DEF SelectStep
  <2>5. ~ \E c \in Closing : Close(t, c)
    BY DEF Plain
  <2> QED
    BY <1>5, <2>1, <2>4, <2>5 DEF TaskStep
<1>6. CASE UNCHANGED vars
  BY <1>1, <1>6 DEF vars
<1> QED
  BY <1>2, <1>3, <1>4, <1>5, <1>6 DEF Next, SchedulerStep

\* The three invariants hold at the start ...
LEMMA WaitInit == Init => WaitInv
<1>1. Init => PlainInv
  BY DEF Init, PlainInv, Blocked, Answered
<1> QED
  BY <1>1, FullInit DEF WaitInv

\* ... and every step keeps them together.
LEMMA WaitNext ==
    ASSUME Plain
    PROVE  WaitInv /\ [Next]_vars => WaitInv'
<1> SUFFICES ASSUME WaitInv, [Next]_vars PROVE WaitInv'
  OBVIOUS
<1>1. PlainInv'
  BY PlainNext
<1> QED
  BY <1>1, FullNext DEF WaitInv

-----------------------------------------------------------------------------
\* The offer that an alt makes, and an outcome as GoSelect has it.
Offer(a) == [c |-> a.c, op |-> a.op, val |-> Payload(a)]

Seen(o) == IF o = NoOutcome THEN o ELSE [c |-> o.c, op |-> o.op, value |-> o.value]

\* The refinement mapping at one goroutine, in this state and the next.
LEMMA MappedWait ==
    ASSUME NEW t \in Task
    PROVE  /\ WaitsFor[t] = IF Blocked(t) THEN OffersOf(t, ops[t], sel[t].stmt) ELSE {}
           /\ WaitsFor'[t] = IF Blocked(t)' THEN OffersOf(t, ops'[t], sel'[t].stmt) ELSE {}
<1>1. (\A u \in Task : WaitsFor[u] = IF Blocked(u) THEN OffersOf(u, ops[u], sel[u].stmt) ELSE {})
  BY DEF WaitsFor
<1>2. (\A u \in Task : WaitsFor[u] = IF Blocked(u) THEN OffersOf(u, ops[u], sel[u].stmt) ELSE {})'
  BY <1>1, PTL
<1> QED
  BY <1>1, <1>2 DEF OffersOf, AltsOf, Payload

\* The same for what was received.
LEMMA MappedGot ==
    ASSUME NEW t \in Task
    PROVE  /\ Received[t] = IF Answered(t)
                            THEN Seen(Outcome(sel[t].stmt, sel[t].resolved, sel[t].value))
                            ELSE Seen(got[t])
           /\ Received'[t] = IF Answered(t)'
                            THEN Seen(Outcome(sel'[t].stmt, sel'[t].resolved, sel'[t].value))
                            ELSE Seen(got'[t])
BY DEF Received, Answered, Seen, Outcome

\* What a goroutine waits for and has received changes only with its select.
LEMMA SameWait ==
    ASSUME NEW t \in Task, sel'[t] = sel[t], Blocked(t) => ops'[t] = ops[t]
    PROVE  WaitsFor'[t] = WaitsFor[t]
<1>1. Blocked(t)' <=> Blocked(t)
  BY DEF Blocked
<1>2. CASE Blocked(t)
  <2>1. PICK n : n = ops[t]
    OBVIOUS
  <2>2. PICK x : x = sel[t]
    OBVIOUS
  <2> QED
    BY <1>1, <1>2, <2>1, <2>2, MappedWait
<1> QED
  BY <1>1, <1>2, MappedWait

\* The same for what was received.
LEMMA SameGot ==
    ASSUME NEW t \in Task, sel'[t] = sel[t], got'[t] = got[t]
    PROVE  Received'[t] = Received[t]
<1>1. Answered(t)' <=> Answered(t)
  BY DEF Answered
<1>2. PICK x : x = sel[t]
  OBVIOUS
<1> QED
  BY <1>1, <1>2, MappedGot

\* A result as GoSelect has it.
LEMMA SeenOutcome ==
    ASSUME NEW s \in Stmt, NEW i \in DOMAIN s.cases, NEW v \in Value
    PROVE  Seen(Outcome(s, i, v)) = [c |-> s.cases[i].c, op |-> s.cases[i].op, value |-> v]
<1>1. PICK r : r = Outcome(s, i, v)
  OBVIOUS
<1>2. r # NoOutcome /\ r.c = s.cases[i].c /\ r.op = s.cases[i].op /\ r.value = v
  BY <1>1, OutcomeType
<1> QED
  BY <1>1, <1>2 DEF Seen

\* A queued alt is an offer of its goroutine, and an offer a goroutine waits
\* with is a queued alt.
LEMMA QueuedWaits ==
    ASSUME Plain, WaitInv, NEW a \in queued
    PROVE  /\ a.task \in Task /\ Offer(a) \in WaitsFor[a.task]
           /\ <<a.task, Offer(a)>> \in Go!Waiting(a.c, a.op)
<1>1. a.task \in Task /\ Blocked(a.task) /\ a.n = ops[a.task]
  BY WaitFacts DEF NoStaleAlts, IsCurrent, Alt
<1>2. a \in AltsOf(a.task, a.n, sel[a.task].stmt)
  BY WaitFacts DEF PlainInv
<1>3. PICK s : s = sel[a.task].stmt
  OBVIOUS
<1>4. PICK n : n = ops[a.task]
  OBVIOUS
<1>5. Offer(a) \in OffersOf(a.task, n, s)
  BY <1>1, <1>2, <1>3, <1>4 DEF OffersOf, Offer
<1>6. Offer(a) \in WaitsFor[a.task]
  BY <1>1, <1>3, <1>4, <1>5, MappedWait
<1>7. Offer(a).c = a.c /\ Offer(a).op = a.op
  BY DEF Offer
<1> HIDE DEF Offer
<1> QED
  BY <1>1, <1>6, <1>7 DEF Go!Waiting

\* What GoSelect finds waiting is the offer of a queued alt.
LEMMA WaitingQueued ==
    ASSUME Plain, WaitInv, NEW c, NEW op, NEW w \in Go!Waiting(c, op)
    PROVE  \E a \in GetAlts(c, op) : w[1] = a.task /\ w[2] = Offer(a)
<1>1. w[1] \in Task /\ w[2] \in WaitsFor[w[1]] /\ w[2].c = c /\ w[2].op = op
  BY DEF Go!Waiting
<1>2. PICK t \in Task : t = w[1]
  BY <1>1
<1>3. Blocked(t) /\ w[2] \in OffersOf(t, ops[t], sel[t].stmt)
  BY <1>1, <1>2, MappedWait
<1>4. PICK a \in AltsOf(t, ops[t], sel[t].stmt) : w[2] = Offer(a)
  BY <1>3 DEF OffersOf, Offer
<1>5. a \in queued
  BY <1>3, <1>4, WaitFacts DEF WakeInv, AllAltsQueued
<1>6. a.task = t /\ a.c = c /\ a.op = op
  BY <1>1, <1>4 DEF AltsOf, Offer
<1> QED
  BY <1>2, <1>4, <1>5, <1>6 DEF GetAlts

\* Nobody waits in GoSelect when the queue is empty, and only then.
LEMMA WaitingEmpty ==
    ASSUME Plain, WaitInv, NEW c, NEW op
    PROVE  Go!Waiting(c, op) = {} <=> GetAlts(c, op) = {}
<1>1. ASSUME NEW a \in GetAlts(c, op) PROVE Go!Waiting(c, op) # {}
  BY QueuedWaits DEF GetAlts
<1>2. ASSUME NEW w \in Go!Waiting(c, op) PROVE GetAlts(c, op) # {}
  BY WaitingQueued
<1> QED
  BY <1>1, <1>2

\* A case is ready in GoSelect when altcanexec finds that it can be executed.
LEMMA ReadyIsCanExec ==
    ASSUME Plain, WaitInv, NEW a \in Alt
    PROVE  Go!Ready(Offer(a)) <=> CanExec(a)
<1>1. /\ a.c \in Chan /\ a.op \in {RECV, SEND}
      /\ Offer(a).c = a.c /\ Offer(a).op = a.op
  BY DEF Alt, Offer
<1>2. buf[a.c] \in Seq(Message) /\ Size[a.c] \in Nat
  BY <1>1, WaitFacts, TaskAssumption DEF Inv, TypeOK
<1>3. Len(buf[a.c]) > 0 <=> buf[a.c] # <<>>
  BY <1>2, EmptySeq
<1>4. PICK op : op = IF a.op = SEND THEN RECV ELSE SEND
  OBVIOUS
<1>5. GetOtherAlts(a.c, a.op) = GetAlts(a.c, op)
  BY <1>4 DEF GetOtherAlts
<1>6. Go!Waiting(a.c, op) = {} <=> GetAlts(a.c, op) = {}
  BY WaitingEmpty
<1> HIDE DEF Offer
<1> QED
  BY <1>1, <1>3, <1>4, <1>5, <1>6 DEF Go!Ready, CanExec

-----------------------------------------------------------------------------
\* What a case that is executed copies, by who waits on the other side.
LEMMA CopyCases ==
    ASSUME Inv, NEW a \in Alt, ~a.to, ~a.closed, CanExec(a), NEW o \in Partners(a)
    PROVE  /\ o = NoAlt => GetOtherAlts(a.c, a.op) = {}
           /\ o # NoAlt => o \in GetOtherAlts(a.c, a.op)
           /\ a.op = SEND /\ o # NoAlt =>
                buf[a.c] = <<>> /\ CopyFor(a, o).value = Payload(a) /\ CopyFor(a, o).buf = buf[a.c]
           /\ a.op = SEND /\ o = NoAlt =>
                Len(buf[a.c]) < Size[a.c] /\ CopyFor(a, o).buf = Append(buf[a.c], Payload(a))
           /\ a.op = RECV /\ Size[a.c] = 0 =>
                o # NoAlt /\ CopyFor(a, o).value = Payload(o) /\ CopyFor(a, o).buf = buf[a.c]
           /\ a.op = RECV /\ Size[a.c] # 0 =>
                /\ buf[a.c] # <<>> /\ CopyFor(a, o).value = Head(buf[a.c])
                /\ o = NoAlt => CopyFor(a, o).buf = Tail(buf[a.c])
                /\ o # NoAlt => CopyFor(a, o).buf = Append(Tail(buf[a.c]), Payload(o))
<1>1. /\ a.c \in Chan /\ a.op \in {RECV, SEND} /\ RECV # SEND
      /\ NoAlt \notin Alt
      /\ NoMissedRendezvous /\ queued \subseteq Alt
  BY DistinctAssumption DEF Alt, Inv, TypeOK
<1>2. buf[a.c] \in Seq(Message) /\ Size[a.c] \in Nat /\ Len(buf[a.c]) <= Size[a.c]
  BY <1>1, TaskAssumption DEF Inv, TypeOK
<1>3. Len(buf[a.c]) > 0 <=> buf[a.c] # <<>>
  BY <1>2, EmptySeq
<1>4. GetOtherAlts(a.c, a.op) \subseteq Alt /\ a # NoAlt
  BY <1>1 DEF GetOtherAlts, GetAlts
<1>5. /\ o = NoAlt => GetOtherAlts(a.c, a.op) = {}
      /\ o # NoAlt => o \in GetOtherAlts(a.c, a.op)
  BY <1>1, <1>4 DEF Partners
<1>6. o # NoAlt => o \in queued /\ o.c = a.c /\ o.op = IF a.op = SEND THEN RECV ELSE SEND
  BY <1>5 DEF GetOtherAlts, GetAlts
<1>7. Size[a.c] = 0 => buf[a.c] = <<>> /\ o # NoAlt
  BY <1>2, <1>3, <1>5 DEF CanExec
<1>8. CASE a.op = SEND
  <2>1. CopyFor(a, o) = Copy(o, a, a.c)
    BY <1>1, <1>8 DEF CopyFor
  <2>2. CASE o # NoAlt
    <3>1. buf[a.c] = <<>>
      BY <1>1, <1>6, <1>8, <2>2 DEF NoMissedRendezvous
    <3>2. Copy(o, a, a.c) = [value |-> Payload(a), buf |-> buf[a.c]]
      BY <1>4, <2>2, <3>1 DEF Copy
    <3> QED
      BY <1>1, <1>5, <1>8, <2>1, <2>2, <3>1, <3>2
  <2>3. CASE o = NoAlt
    <3>1. Len(buf[a.c]) < Size[a.c]
      BY <1>7, <1>8, <2>3 DEF CanExec
    <3>2. Copy(o, a, a.c).buf = Append(buf[a.c], Payload(a))
      BY <1>4, <2>3 DEF Copy
    <3> QED
      BY <1>1, <1>5, <1>8, <2>1, <2>3, <3>1, <3>2
  <2> QED
    BY <2>2, <2>3
<1>9. CASE a.op = RECV
  <2>1. CopyFor(a, o) = Copy(a, o, a.c)
    BY <1>9 DEF CopyFor
  <2>2. CASE Size[a.c] = 0
    <3>1. Copy(a, o, a.c) = [value |-> Payload(o), buf |-> buf[a.c]]
      BY <1>4, <1>7, <2>2 DEF Copy
    <3> QED
      BY <1>1, <1>5, <1>7, <1>9, <2>1, <2>2, <3>1
  <2>3. CASE Size[a.c] # 0
    <3>1. buf[a.c] # <<>>
      BY <1>1, <1>3, <1>9, <2>3 DEF CanExec
    <3>2. Copy(a, o, a.c) = [value |-> Head(buf[a.c]),
             buf |-> IF o = NoAlt THEN Tail(buf[a.c]) ELSE Append(Tail(buf[a.c]), Payload(o))]
      BY <1>4, <3>1 DEF Copy
    <3> QED
      BY <1>1, <1>5, <1>9, <2>1, <2>3, <3>1, <3>2
  <2> QED
    BY <2>2, <2>3
<1> QED
  BY <1>1, <1>8, <1>9

\* The outcome of an offer that is completed with the value v.
Completed(a, v) == [c |-> a.c, op |-> a.op, value |-> v]

\* A case that is executed: what it does to the two parties, as GoSelect sees it.
Executes(t, a, o) ==
    LET v == CopyFor(a, o).value
        gotT == Completed(a, IF a.op = RECV THEN v ELSE Nil)
    IN  /\ buf' = [buf EXCEPT ![a.c] = CopyFor(a, o).buf]
        /\ IF o = NoAlt
           THEN WaitsFor' = WaitsFor /\ Received' = [Received EXCEPT ![t] = gotT]
           ELSE /\ WaitsFor' = [WaitsFor EXCEPT ![o.task] = {}]
                /\ Received' = [Received EXCEPT ![t] = gotT,
                      ![o.task] = Completed(o, IF o.op = RECV THEN v ELSE Nil)]

\* Extensionality of the mapping.
OnTasks(f) == f = [u \in Task |-> f[u]]

\* The mapping is a pair of functions of the goroutines.
LEMMA OnTasksNow ==
    ASSUME NEW W, W = WaitsFor, NEW R, R = Received
    PROVE  OnTasks(W) /\ OnTasks(R)
<1>1. OnTasks(W)
  BY DEF WaitsFor, OnTasks
<1>2. DOMAIN R = Task
  BY DEF Received
<1>3. OnTasks(R)
  BY <1>2 DEF Received, OnTasks
<1> QED
  BY <1>1, <1>3

\* The same in the next state.
LEMMA OnTasksNext ==
    ASSUME NEW W, W = WaitsFor', NEW R, R = Received'
    PROVE  OnTasks(W) /\ OnTasks(R)
<1>1. OnTasks(W)
  BY DEF WaitsFor, OnTasks
<1>2. DOMAIN R = Task
  BY DEF Received
<1>3. OnTasks(R)
  BY <1>2 DEF Received, OnTasks
<1> QED
  BY <1>1, <1>3

\* Two such functions that agree everywhere are one.
LEMMA Unchanged ==
    ASSUME NEW f, NEW g, OnTasks(f), OnTasks(g), \A u \in Task : g[u] = f[u]
    PROVE  g = f
BY DEF OnTasks

\* Two that agree everywhere but at one goroutine.
LEMMA OneChanged ==
    ASSUME NEW f, NEW g, OnTasks(f), OnTasks(g), NEW t \in Task, NEW y,
           \A u \in Task : g[u] = IF u = t THEN y ELSE f[u]
    PROVE  g = [f EXCEPT ![t] = y]
BY DEF OnTasks

\* The mapping changes at most at one goroutine.
LEMMA WaitChanged ==
    ASSUME NEW t \in Task, NEW y, WaitsFor'[t] = y,
           \A u \in Task : u # t => WaitsFor'[u] = WaitsFor[u]
    PROVE  WaitsFor' = [WaitsFor EXCEPT ![t] = y]
<1>1. PICK W : W = WaitsFor
  OBVIOUS
<1>2. PICK X : X = WaitsFor'
  OBVIOUS
<1>3. OnTasks(W) /\ OnTasks(X)
  BY <1>1, <1>2, OnTasksNow, OnTasksNext
<1>4. \A u \in Task : X[u] = IF u = t THEN y ELSE W[u]
  BY <1>1, <1>2
<1>5. X = [W EXCEPT ![t] = y]
  BY <1>3, <1>4, OneChanged
<1> QED
  BY <1>1, <1>2, <1>5

\* Nobody begins or ends to wait.
LEMMA WaitUnchanged ==
    ASSUME \A u \in Task : WaitsFor'[u] = WaitsFor[u]
    PROVE  WaitsFor' = WaitsFor
<1>1. PICK W : W = WaitsFor
  OBVIOUS
<1>2. PICK X : X = WaitsFor'
  OBVIOUS
<1>3. OnTasks(W) /\ OnTasks(X)
  BY <1>1, <1>2, OnTasksNow, OnTasksNext
<1> QED
  BY <1>1, <1>2, <1>3, Unchanged

\* Nobody receives anything.
LEMMA GotUnchanged ==
    ASSUME \A u \in Task : Received'[u] = Received[u]
    PROVE  Received' = Received
<1>1. PICK W : W = Received
  OBVIOUS
<1>2. PICK X : X = Received'
  OBVIOUS
<1>3. OnTasks(W) /\ OnTasks(X)
  BY <1>1, <1>2, OnTasksNow, OnTasksNext
<1> QED
  BY <1>1, <1>2, <1>3, Unchanged

\* A party that was found waiting: it waits no more and has its outcome.
LEMMA AnswerMapped ==
    ASSUME Plain, WaitInv, NEW o \in queued, NEW v \in Value, Wake(o, v)
    PROVE  /\ WaitsFor'[o.task] = {}
           /\ Received'[o.task] = Completed(o, IF o.op = RECV THEN v ELSE Nil)
           /\ \A u \in Task : u # o.task => sel'[u] = sel[u]
<1>1. /\ Inv /\ o.task \in Task /\ Blocked(o.task) /\ IsCurrent(o) /\ o.i \in Nat /\ o.i > 0
  BY WaitFacts DEF NoStaleAlts, Alt, WakeInv, SelShape
<1>2. PICK s : s = sel[o.task].stmt
  OBVIOUS
<1>3. s \in Stmt /\ sel[o.task].value = Nil
  BY <1>1, <1>2, WaitFacts DEF IsCurrent, Selection, PlainInv
<1>4. PICK n : n = o.n /\ o \in AltsOf(o.task, n, s)
  BY <1>2, WaitFacts DEF PlainInv
<1>5. o.i \in DOMAIN s.cases /\ o.c = s.cases[o.i].c /\ o.op = s.cases[o.i].op
  BY <1>1, <1>3, <1>4, AltCase
<1>6. PICK w : w = IF o.op = RECV THEN v ELSE Nil
  OBVIOUS
<1>7. /\ sel'[o.task] # NoSel /\ sel'[o.task].resolved = o.i /\ sel'[o.task].stmt = s
      /\ sel'[o.task].value = w
      /\ \A u \in Task : u # o.task => sel'[u] = sel[u]
  BY <1>1, <1>2, <1>3, <1>6, WakeEffect, WakeAnswer
<1>8. ~Blocked(o.task)' /\ Answered(o.task)'
  BY <1>1, <1>7 DEF Blocked, Answered
<1>9. Seen(Outcome(s, o.i, w)) = [c |-> o.c, op |-> o.op, value |-> w]
  <2>1. w \in Value
    BY <1>6 DEF Value
  <2> QED
    BY <1>3, <1>5, <2>1, SeenOutcome
<1>10. Received'[o.task] = [c |-> o.c, op |-> o.op, value |-> w]
  BY <1>1, <1>7, <1>8, <1>9, MappedGot
<1> QED
  BY <1>1, <1>6, <1>7, <1>8, <1>10, MappedWait DEF Completed

\* A select that goes on at once executes one of its cases.
LEMMA ReadyExecutes ==
    ASSUME Plain, WaitInv, NEW t \in Task, NEW s \in Stmt, SelectReady(t, s)
    PROVE  /\ ops[t] + 1 \in 1 .. MaxOps /\ sel[t] = NoSel /\ WaitsFor[t] = {}
           /\ \E a \in AltsOf(t, ops[t] + 1, s) :
                /\ a \in Alt /\ ~a.to /\ ~a.closed /\ CanExec(a)
                /\ \E o \in Partners(a) : Executes(t, a, o) /\ (o # NoAlt => o.task # t)
<1>1. BeginOp(t) /\ ops[t] + 1 \in 1 .. MaxOps
  BY BeginOpType, WaitFacts DEF SelectReady
<1>2. sel[t] = NoSel /\ ~Blocked(t)
  BY <1>1, WaitFacts DEF BeginOp, HasControl, WakeInv, SelShape, Blocked
<1>3. PICK a \in AltsOf(t, ops[t] + 1, s) : ExecCase(t, s, a)
  BY DEF SelectReady
<1>4. a \in Alt /\ ~a.to /\ ~a.closed /\ CanExec(a)
  <2>1. PICK n \in 1 .. MaxOps : n = ops[t] + 1
    BY <1>1
  <2> QED
    BY <1>3, <2>1, AltsOfType, AltCase DEF ExecCase
<1>5. PICK o \in Partners(a) :
        /\ buf' = [buf EXCEPT ![a.c] = CopyFor(a, o).buf]
        /\ got' = [got EXCEPT ![t] =
              Outcome(s, a.i, IF a.op = RECV THEN CopyFor(a, o).value ELSE Nil)]
        /\ IF o = NoAlt THEN UNCHANGED <<sel, queued, ready>>
           ELSE Wake(o, CopyFor(a, o).value)
  BY <1>3 DEF ExecCase
<1>6. PICK v \in Value : v = CopyFor(a, o).value
  BY <1>4, WaitFacts, CopyFacts
<1>7. PICK w \in Value : w = IF a.op = RECV THEN v ELSE Nil
  BY DEF Value
<1>8. a.i \in DOMAIN s.cases /\ a.c = s.cases[a.i].c /\ a.op = s.cases[a.i].op
  BY AltCase
<1>9. PICK r : r = Outcome(s, a.i, w)
  OBVIOUS
<1>10. got' = [got EXCEPT ![t] = r]
  BY <1>5, <1>6, <1>7, <1>9
<1>11. got'[t] = r /\ \A u \in Task : u # t => got'[u] = got[u]
  BY <1>10, WaitFacts DEF PlainInv
<1>12. Seen(r) = Completed(a, w)
  BY <1>8, <1>9, SeenOutcome DEF Completed
<1>13. \A u \in Task : u # t => ops'[u] = ops[u]
  BY <1>1, WaitFacts DEF BeginOp
<1>14. o # NoAlt => o \in queued /\ o.task # t /\ o.task \in Task
  <2>1. o # NoAlt => o \in queued
    BY <1>4, WaitFacts, CopyCases DEF GetOtherAlts, GetAlts
  <2> QED
    BY <1>2, <2>1, WaitFacts DEF NoStaleAlts, Alt
<1>15. sel'[t] = NoSel
  BY <1>2, <1>5, <1>6, <1>14, AnswerMapped
<1>16. WaitsFor'[t] = {} /\ WaitsFor[t] = {} /\ Received'[t] = Completed(a, w)
  BY <1>2, <1>11, <1>12, <1>15, MappedWait, MappedGot DEF Blocked, Answered
<1>17. ASSUME NEW u \in Task, u # t, o # NoAlt => u # o.task
       PROVE  WaitsFor'[u] = WaitsFor[u] /\ Received'[u] = Received[u]
  <2>1. sel'[u] = sel[u]
    BY <1>5, <1>6, <1>14, <1>17, AnswerMapped
  <2> QED
    BY <1>11, <1>13, <1>17, <2>1, SameWait, SameGot
<1>18. PICK W : W = WaitsFor
  OBVIOUS
<1>22. PICK X : X = WaitsFor'
  OBVIOUS
<1>23. PICK R : R = Received
  OBVIOUS
<1>24. PICK S : S = Received'
  OBVIOUS
<1>25. OnTasks(W) /\ OnTasks(X) /\ OnTasks(R) /\ OnTasks(S)
  BY <1>18, <1>22, <1>23, <1>24, OnTasksNow, OnTasksNext
<1>19. PICK y : y = Completed(a, w)
  OBVIOUS
<1>20. CASE o = NoAlt
  <2>1. \A u \in Task : X[u] = W[u] /\ S[u] = IF u = t THEN y ELSE R[u]
    BY <1>16, <1>17, <1>18, <1>19, <1>20, <1>22, <1>23, <1>24
  <2>2. X = W /\ S = [R EXCEPT ![t] = y]
    BY <1>25, <2>1, Unchanged, OneChanged
  <2>3. Executes(t, a, o)
    BY <1>5, <1>6, <1>7, <1>18, <1>19, <1>20, <1>22, <1>23, <1>24, <2>2 DEF Executes
  <2> QED
    BY <1>1, <1>2, <1>4, <1>16, <1>20, <2>3
<1>21. CASE o # NoAlt
  <2>1. PICK x : x = Completed(o, IF o.op = RECV THEN v ELSE Nil)
    OBVIOUS
  <2>2. WaitsFor'[o.task] = {} /\ Received'[o.task] = x
    BY <1>5, <1>6, <1>14, <1>21, <2>1, AnswerMapped
  <2>3. \A u \in Task : /\ X[u] = IF u = o.task THEN {} ELSE W[u]
                        /\ S[u] = IF u = t THEN y ELSE IF u = o.task THEN x ELSE R[u]
    BY <1>14, <1>16, <1>17, <1>18, <1>19, <1>21, <1>22, <1>23, <1>24, <2>2
  <2>4. X = [W EXCEPT ![o.task] = {}] /\ S = [R EXCEPT ![t] = y, ![o.task] = x]
    <3>1. X = [W EXCEPT ![o.task] = {}]
      BY <1>14, <1>21, <1>25, <2>3, OneChanged
    <3>2. PICK p \in Task : p = o.task /\ p # t
      BY <1>14, <1>21
    <3>3. \A u \in Task : S[u] = IF u = t THEN y ELSE IF u = p THEN x ELSE R[u]
      BY <2>3, <3>2
    <3>4. S = [R EXCEPT ![t] = y, ![p] = x]
      <4>1. PICK h : h = [R EXCEPT ![t] = y, ![p] = x]
        OBVIOUS
      <4>2. DOMAIN R = Task
        BY <1>25 DEF OnTasks
      <4>3. OnTasks(h) /\ \A u \in Task : h[u] = IF u = p THEN x ELSE IF u = t THEN y ELSE R[u]
        BY <4>1, <4>2 DEF OnTasks
      <4>4. S = h
        BY <1>25, <3>2, <3>3, <4>3, Unchanged
      <4> QED
        BY <4>1, <4>4
    <3> QED
      BY <3>1, <3>2, <3>4
  <2>5. Executes(t, a, o)
    BY <1>5, <1>6, <1>7, <1>18, <1>19, <1>21, <1>22, <1>23, <1>24, <2>1, <2>4 DEF Executes
  <2> QED
    BY <1>1, <1>2, <1>4, <1>14, <1>16, <2>5
<1> QED
  BY <1>20, <1>21

-----------------------------------------------------------------------------
\* The party found waiting, as GoSelect sees it.
LEMMA PartnerWaits ==
    ASSUME Plain, WaitInv, NEW a \in Alt, NEW o \in GetOtherAlts(a.c, a.op), NEW op,
           op = IF a.op = SEND THEN RECV ELSE SEND
    PROVE  \E w \in Go!Waiting(a.c, op) :
              /\ w[1] = o.task /\ w[2].c = o.c /\ w[2].op = o.op /\ w[2].val = Payload(o)
<1>1. o \in queued /\ o.c = a.c /\ o.op = op
  BY DEF GetOtherAlts, GetAlts
<1>2. PICK w : w = <<o.task, Offer(o)>>
  OBVIOUS
<1>3. w \in Go!Waiting(o.c, o.op)
  BY <1>1, <1>2, QueuedWaits
<1>4. w \in Go!Waiting(a.c, op)
  BY <1>1, <1>3 DEF Go!Waiting
<1>5. w[1] = o.task /\ w[2].c = o.c /\ w[2].op = o.op /\ w[2].val = Payload(o)
  BY <1>2 DEF Offer
<1> QED
  BY <1>4, <1>5

\* A case that is executed completes its offer.
LEMMA ExecutesCompletes ==
    ASSUME Plain, WaitInv, NEW t \in Task, NEW a \in Alt, ~a.to, ~a.closed, CanExec(a),
           NEW o \in Partners(a), Executes(t, a, o)
    PROVE  Go!Complete(t, Offer(a))
<1>1. PICK x : x = Offer(a)
  OBVIOUS
<1>2. x.c = a.c /\ x.op = a.op /\ x.val = Payload(a)
  BY <1>1 DEF Offer
<1>3. /\ a.c \in Chan /\ a.op \in {RECV, SEND} /\ RECV # SEND /\ DOMAIN buf = Chan
      /\ buf = [buf EXCEPT ![a.c] = buf[a.c]]
  BY WaitFacts, DistinctAssumption DEF Alt, Inv, TypeOK
<1>4. PICK v : v = CopyFor(a, o).value
  OBVIOUS
<1>5. PICK q : q = CopyFor(a, o).buf
  OBVIOUS
<1>6. buf' = [buf EXCEPT ![a.c] = q]
  BY <1>5 DEF Executes
<1>7. o = NoAlt => /\ WaitsFor' = WaitsFor
                   /\ Received' = [Received EXCEPT ![t] =
                        [c |-> x.c, op |-> x.op, value |-> IF a.op = RECV THEN v ELSE Nil]]
  BY <1>2, <1>4 DEF Executes, Completed
<1>8. o # NoAlt =>
        /\ WaitsFor' = [WaitsFor EXCEPT ![o.task] = {}]
        /\ Received' = [Received EXCEPT
              ![t] = [c |-> x.c, op |-> x.op, value |-> IF a.op = RECV THEN v ELSE Nil],
              ![o.task] = [c |-> o.c, op |-> o.op, value |-> IF o.op = RECV THEN v ELSE Nil]]
  BY <1>2, <1>4 DEF Executes, Completed
<1>9. o # NoAlt => o \in GetOtherAlts(a.c, a.op)
  BY CopyCases, WaitFacts
<1>10. o # NoAlt => o.op = IF a.op = SEND THEN RECV ELSE SEND
  BY <1>9 DEF GetOtherAlts, GetAlts
<1>11. CASE a.op = SEND /\ o # NoAlt
  <2>1. PICK w \in Go!Waiting(a.c, RECV) :
              /\ w[1] = o.task /\ w[2].c = o.c /\ w[2].op = o.op /\ w[2].val = Payload(o)
    BY <1>9, <1>11, PartnerWaits
  <2>2. buf[a.c] = <<>> /\ v = Payload(a) /\ buf' = buf
    BY <1>3, <1>4, <1>5, <1>6, <1>11, CopyCases, WaitFacts
  <2>3. WaitsFor' = [WaitsFor EXCEPT ![w[1]] = {}]
    BY <1>8, <1>11, <2>1
  <2>4. Received' = [Received EXCEPT ![t] = [c |-> x.c, op |-> x.op, value |-> Nil],
              ![w[1]] = [c |-> w[2].c, op |-> w[2].op, value |-> x.val]]
    BY <1>2, <1>3, <1>8, <1>10, <1>11, <2>1, <2>2
  <2>5. w \in Go!Waiting(x.c, RECV)
    BY <1>2, <2>1 DEF Go!Waiting
  <2>6. Go!SendToWaiting(t, x)
    BY <1>2, <2>2, <2>3, <2>4, <2>5 DEF Go!SendToWaiting, Go!Outcome
  <2> QED
    BY <1>1, <1>2, <1>11, <2>6 DEF Go!Complete
<1>12. CASE a.op = SEND /\ o = NoAlt
  <2>1. Len(buf[a.c]) < Size[a.c] /\ q = Append(buf[a.c], Payload(a))
        /\ GetOtherAlts(a.c, a.op) = {}
    BY <1>5, <1>12, CopyCases, WaitFacts
  <2>2. GetAlts(a.c, RECV) = {}
    BY <1>12, <2>1 DEF GetOtherAlts
  <2>3. Go!Waiting(x.c, RECV) = {}
    <3>1. Go!Waiting(a.c, RECV) = {}
      BY <2>2, WaitingEmpty
    <3> QED
      BY <1>2, <3>1 DEF Go!Waiting
  <2>4. Received' = [Received EXCEPT ![t] = [c |-> x.c, op |-> x.op, value |-> Nil]]
    BY <1>3, <1>7, <1>12
  <2>5. Go!SendToBuffer(t, x)
    BY <1>2, <1>6, <1>7, <1>12, <2>1, <2>3, <2>4 DEF Go!SendToBuffer, Go!Outcome
  <2> QED
    BY <1>1, <1>2, <1>12, <2>5 DEF Go!Complete
<1>13. CASE a.op = RECV /\ Size[a.c] = 0
  <2>1. o # NoAlt /\ v = Payload(o) /\ buf' = buf
    BY <1>3, <1>4, <1>5, <1>6, <1>13, CopyCases, WaitFacts
  <2>2. PICK w \in Go!Waiting(a.c, SEND) :
              /\ w[1] = o.task /\ w[2].c = o.c /\ w[2].op = o.op /\ w[2].val = Payload(o)
    BY <1>3, <1>9, <1>13, <2>1, PartnerWaits
  <2>3. WaitsFor' = [WaitsFor EXCEPT ![w[1]] = {}]
    BY <1>8, <2>1, <2>2
  <2>4. Received' = [Received EXCEPT ![t] = [c |-> x.c, op |-> x.op, value |-> w[2].val],
              ![w[1]] = [c |-> w[2].c, op |-> w[2].op, value |-> Nil]]
    BY <1>2, <1>3, <1>8, <1>10, <1>13, <2>1, <2>2
  <2>5. w \in Go!Waiting(x.c, SEND)
    BY <1>2, <2>2 DEF Go!Waiting
  <2>6. Go!RecvFromWaiting(t, x)
    BY <1>2, <1>13, <2>1, <2>3, <2>4, <2>5 DEF Go!RecvFromWaiting, Go!Outcome
  <2> QED
    BY <1>1, <1>2, <1>13, <2>6 DEF Go!Complete
<1>14. CASE a.op = RECV /\ Size[a.c] # 0
  <2>1. buf[a.c] # <<>> /\ v = Head(buf[a.c])
    BY <1>4, <1>14, CopyCases, WaitFacts
  <2>2. CASE o = NoAlt
    <3>1. q = Tail(buf[a.c]) /\ GetOtherAlts(a.c, a.op) = {}
      BY <1>5, <1>14, <2>2, CopyCases, WaitFacts
    <3>2. Go!Waiting(x.c, SEND) = {}
      <4>1. GetAlts(a.c, SEND) = {}
        BY <1>3, <1>14, <3>1 DEF GetOtherAlts
      <4>2. Go!Waiting(a.c, SEND) = {}
        BY <4>1, WaitingEmpty
      <4> QED
        BY <1>2, <4>2 DEF Go!Waiting
    <3>3. Received' = [Received EXCEPT ![t] =
              [c |-> x.c, op |-> x.op, value |-> Head(buf[x.c])]]
      BY <1>2, <1>7, <1>14, <2>1, <2>2
    <3>4. Go!RecvFromBuffer(t, x)
      BY <1>2, <1>6, <1>7, <2>1, <2>2, <3>1, <3>2, <3>3 DEF Go!RecvFromBuffer, Go!Outcome
    <3> QED
      BY <1>1, <1>2, <1>14, <3>4 DEF Go!Complete
  <2>3. CASE o # NoAlt
    <3>1. q = Append(Tail(buf[a.c]), Payload(o))
      BY <1>5, <1>14, <2>3, CopyCases, WaitFacts
    <3>2. PICK w \in Go!Waiting(a.c, SEND) :
              /\ w[1] = o.task /\ w[2].c = o.c /\ w[2].op = o.op /\ w[2].val = Payload(o)
      BY <1>3, <1>9, <1>14, <2>3, PartnerWaits
    <3>3. WaitsFor' = [WaitsFor EXCEPT ![w[1]] = {}]
      BY <1>8, <2>3, <3>2
    <3>4. Received' = [Received EXCEPT
              ![t] = [c |-> x.c, op |-> x.op, value |-> Head(buf[x.c])],
              ![w[1]] = [c |-> w[2].c, op |-> w[2].op, value |-> Nil]]
      BY <1>2, <1>3, <1>8, <1>10, <1>14, <2>1, <2>3, <3>2
    <3>5. w \in Go!Waiting(x.c, SEND)
      BY <1>2, <3>2 DEF Go!Waiting
    <3>6. Go!RecvFromBuffer(t, x)
      BY <1>2, <1>6, <2>1, <3>1, <3>2, <3>3, <3>4, <3>5 DEF Go!RecvFromBuffer, Go!Outcome
    <3> QED
      BY <1>1, <1>2, <1>14, <3>6 DEF Go!Complete
  <2> QED
    BY <2>2, <2>3
<1> QED
  BY <1>3, <1>11, <1>12, <1>13, <1>14

\* A select that goes on at once is a select of GoSelect.
LEMMA ReadySelects ==
    ASSUME Plain, WaitInv, NEW t \in Task, NEW s \in Stmt, SelectReady(t, s)
    PROVE  Go!SelectNext
<1>1. PICK n \in 1 .. MaxOps : n = ops[t] + 1
  BY ReadyExecutes
<1>2. WaitsFor[t] = {}
  BY ReadyExecutes
<1>3. PICK a \in AltsOf(t, n, s) : Go!Complete(t, Offer(a))
  BY <1>1, ReadyExecutes, ExecutesCompletes
<1>4. PICK O : O = OffersOf(t, n, s)
  OBVIOUS
<1>5. Offer(a) \in O
  BY <1>4 DEF OffersOf, Offer
<1>6. Go!Select(t, O)
  BY <1>2, <1>3, <1>5 DEF Go!Select
<1>7. O \in {OffersOf(u, m, r) : u \in Task, m \in 1 .. MaxOps, r \in Stmt}
  BY <1>4
<1> QED
  BY <1>6, <1>7 DEF Go!SelectNext

\* A select that blocks is one that waits in GoSelect.
LEMMA BlockSelects ==
    ASSUME Plain, WaitInv, NEW t \in Task, NEW s \in Stmt, SelectBlock(t, s)
    PROVE  Go!SelectNext
<1>1. BeginOp(t) /\ NoneReady(t, s) /\ UNCHANGED <<buf, got>>
  BY DEF SelectBlock
<1>2. PICK n \in 1 .. MaxOps : n = ops[t] + 1
  BY <1>1, BeginOpType, WaitFacts
<1>3. sel[t] = NoSel /\ ~Blocked(t) /\ ~Answered(t)
  BY <1>1, WaitFacts DEF BeginOp, HasControl, WakeInv, SelShape, Blocked, Answered
<1>4. ops'[t] = n /\ \A u \in Task : u # t => ops'[u] = ops[u]
  BY <1>1, <1>2, WaitFacts DEF BeginOp
<1>5. PICK x : x = [stmt |-> s, resolved |-> 0, value |-> Nil, parked |-> FALSE]
  OBVIOUS
<1>6. x.stmt = s /\ x.resolved = 0 /\ x.parked = FALSE /\ x # NoSel
  BY <1>5, UnresolvedType
<1>7. sel' = [sel EXCEPT ![t] = x]
  BY <1>5 DEF SelectBlock
<1>8. sel'[t] = x /\ \A u \in Task : u # t => sel'[u] = sel[u]
  BY <1>7, WaitFacts
<1>9. Blocked(t)' /\ ~Answered(t)'
  BY <1>6, <1>8 DEF Blocked, Answered
<1>10. PICK O : O = OffersOf(t, n, s)
  OBVIOUS
<1>11. WaitsFor[t] = {} /\ WaitsFor'[t] = O
  BY <1>3, <1>4, <1>6, <1>8, <1>9, <1>10, MappedWait
<1>12. Received'[t] = Received[t]
  BY <1>1, <1>3, <1>9, MappedGot
<1>13. ASSUME NEW u \in Task, u # t
       PROVE  WaitsFor'[u] = WaitsFor[u] /\ Received'[u] = Received[u]
  BY <1>1, <1>4, <1>8, <1>13, SameWait, SameGot
<1>14. WaitsFor' = [WaitsFor EXCEPT ![t] = O] /\ Received' = Received
  BY <1>11, <1>12, <1>13, WaitChanged, GotUnchanged
<1>15. ASSUME NEW o \in O PROVE ~Go!Ready(o)
  <2>1. PICK a \in AltsOf(t, n, s) : o = Offer(a)
    BY <1>10 DEF OffersOf, Offer
  <2>2. a \in Alt /\ ~CanExec(a)
    BY <1>1, <1>2, <2>1, AltsOfType DEF NoneReady
  <2>3. ~Go!Ready(Offer(a))
    BY <2>2, ReadyIsCanExec
  <2> QED
    BY <2>1, <2>3 DEF Go!Ready
<1>16. Go!Select(t, O)
  BY <1>1, <1>11, <1>14, <1>15 DEF Go!Select
<1>17. O \in {OffersOf(u, m, r) : u \in Task, m \in 1 .. MaxOps, r \in Stmt}
  BY <1>10
<1> QED
  BY <1>16, <1>17 DEF Go!SelectNext

-----------------------------------------------------------------------------
\* The other steps are invisible: who waits for what and what was received,
\* as GoSelect sees it, are as before.
LEMMA Stutters ==
    ASSUME buf' = buf,
           \A u \in Task : WaitsFor'[u] = WaitsFor[u] /\ Received'[u] = Received[u]
    PROVE  UNCHANGED Go!selectVars
<1>1. WaitsFor' = WaitsFor
  BY WaitUnchanged
<1>2. Received' = Received
  BY GotUnchanged
<1> QED
  BY <1>1, <1>2 DEF Go!selectVars

\* Steps that touch no select.
LEMMA SameSelects ==
    ASSUME UNCHANGED <<sel, got, buf>>, \A u \in Task : Blocked(u) => ops'[u] = ops[u]
    PROVE  UNCHANGED Go!selectVars
<1>1. ASSUME NEW u \in Task
      PROVE  WaitsFor'[u] = WaitsFor[u] /\ Received'[u] = Received[u]
  BY SameWait, SameGot
<1> QED
  BY <1>1, Stutters

\* Starting, ending, and a select with a default.
LEMMA ControlStutters ==
    ASSUME Plain, WaitInv,
           \/ \E t \in EvalTask : Eval(t)
           \/ \E t, u \in Task : Spawn(t, u)
           \/ \E t \in Task : Return(t) \/ Panic(t)
           \/ \E t \in Task, s \in Stmt : SelectDefault(t, s)
    PROVE  UNCHANGED Go!selectVars
<1>1. UNCHANGED <<sel, got, buf>>
  BY PlainControl
<1>2. ASSUME NEW u \in Task, Blocked(u) PROVE ops'[u] = ops[u]
  <2>1. CASE ops' = ops
    BY <2>1
  <2>2. ASSUME NEW t \in Task, BeginOp(t) PROVE ops'[u] = ops[u]
    <3>1. u # t
      BY <1>2, <2>2, WaitFacts DEF BeginOp, HasControl, WakeInv, SelShape, Blocked
    <3> QED
      BY <2>2, <3>1, WaitFacts DEF BeginOp
  <2> QED
    BY <2>1, <2>2, PlainControl
<1> QED
  BY <1>1, <1>2, SameSelects

\* select{}: it waits for nothing that could come.
LEMMA ForeverStutters ==
    ASSUME Plain, WaitInv, NEW t \in Task, NEW s \in Stmt, SelectForever(t, s)
    PROVE  UNCHANGED Go!selectVars
<1>1. /\ UNCHANGED <<queued, buf, got>> /\ BeginOp(t) /\ sel[t] = NoSel
      /\ sel'[t].parked /\ sel'[t].resolved = 0
      /\ \A u \in Task : u # t => sel'[u] = sel[u]
  BY PlainSelectForever
<1>2. \A u \in Task : u # t => ops'[u] = ops[u]
  BY <1>1, WaitFacts DEF BeginOp
<1>3. ~Blocked(t) /\ ~Answered(t) /\ ~Blocked(t)' /\ ~Answered(t)'
  BY <1>1 DEF Blocked, Answered
<1>4. WaitsFor'[t] = WaitsFor[t] /\ Received'[t] = Received[t]
  BY <1>1, <1>3, MappedWait, MappedGot
<1>5. ASSUME NEW u \in Task, u # t
      PROVE  WaitsFor'[u] = WaitsFor[u] /\ Received'[u] = Received[u]
  BY <1>1, <1>2, <1>5, SameWait, SameGot
<1> QED
  BY <1>1, <1>4, <1>5, Stutters

\* The answer was visible when it was given, not when its goroutine resumes.
LEMMA ResumeStutters ==
    ASSUME Plain, WaitInv, NEW t \in Task,
           Resume(t) \/ ResumeParked(t) \/ ResumeUnresolved(t) \/ ResumeDead(t)
    PROVE  UNCHANGED Go!selectVars
<1>1. /\ ~Blocked(t) /\ UNCHANGED <<ops, queued, buf>>
      /\ \A u \in Task : u # t => sel'[u] = sel[u] /\ got'[u] = got[u]
      /\ sel'[t] = NoSel
  BY PlainResume
<1>2. ~Blocked(t)' /\ ~Answered(t)'
  BY <1>1 DEF Blocked, Answered
<1>3. Received'[t] = Received[t]
  <2>1. CASE sel[t] = NoSel
    <3>1. ~Answered(t) /\ got'[t] = got[t]
      BY <2>1, PlainResume DEF Answered
    <3> QED
      BY <1>2, <3>1, MappedGot
  <2>2. CASE sel[t] # NoSel
    <3>1. PICK r : r = Outcome(sel[t].stmt, sel[t].resolved, sel[t].value)
      OBVIOUS
    <3>2. Answered(t) /\ got'[t] = r
      BY <2>2, <3>1, PlainResume DEF Answered
    <3>3. Received[t] = Seen(r)
      BY <3>1, <3>2, MappedGot
    <3>4. Received'[t] = Seen(r)
      BY <1>2, <3>2, MappedGot
    <3> QED
      BY <3>3, <3>4
  <2> QED
    BY <2>1, <2>2
<1>4. WaitsFor'[t] = WaitsFor[t]
  BY <1>1, <1>2, MappedWait
<1>5. ASSUME NEW u \in Task, u # t
      PROVE  WaitsFor'[u] = WaitsFor[u] /\ Received'[u] = Received[u]
  BY <1>1, <1>5, SameWait, SameGot
<1> QED
  BY <1>1, <1>3, <1>4, <1>5, Stutters

\* Every step is a step of GoSelect or invisible there.
LEMMA SelectSimulates ==
    ASSUME Plain
    PROVE  WaitInv /\ [Next]_vars => [Go!SelectNext]_(Go!selectVars)
<1> SUFFICES ASSUME WaitInv, [Next]_vars PROVE [Go!SelectNext]_(Go!selectVars)
  OBVIOUS
<1>1. CASE \E t \in EvalTask : Eval(t)
  BY <1>1, ControlStutters
<1>2. CASE SchedulerYield
  <2>1. UNCHANGED <<sel, got, buf, ops>>
    BY <1>2, PlainSchedulerYield DEF SchedulerYield
  <2> QED
    BY <2>1, SameSelects
<1>3. CASE \E t \in Task : Resume(t) \/ ResumeParked(t) \/ ResumeUnresolved(t) \/ ResumeDead(t)
  BY <1>3, ResumeStutters
<1>4. ASSUME NEW t \in Task, TaskStep(t)
      PROVE  [Go!SelectNext]_(Go!selectVars)
  <2>1. CASE Return(t) \/ Panic(t) \/ (\E u \in Task : Spawn(t, u))
    BY <2>1, ControlStutters
  <2>2. CASE SelectStep(t)
    <3>1. ASSUME NEW s \in Stmt, SelectReady(t, s) \/ SelectBlock(t, s)
          PROVE  Go!SelectNext
      BY <3>1, ReadySelects, BlockSelects
    <3>2. ASSUME NEW s \in Stmt, SelectDefault(t, s) \/ SelectForever(t, s)
          PROVE  UNCHANGED Go!selectVars
      BY <3>2, ControlStutters, ForeverStutters
    <3> QED
      BY <2>2, <3>1, <3>2 DEF SelectStep
  <2>3. ~ \E c \in Closing : Close(t, c)
    BY DEF Plain
  <2> QED
    BY <1>4, <2>1, <2>2, <2>3 DEF TaskStep
<1>5. CASE UNCHANGED vars
  <2>1. UNCHANGED <<sel, got, buf, ops>>
    BY <1>5 DEF vars
  <2> QED
    BY <2>1, SameSelects
<1> QED
  BY <1>1, <1>2, <1>3, <1>4, <1>5 DEF Next, SchedulerStep

\* The initial states agree.
LEMMA SelectStarts == Init => Go!SelectInit
<1> SUFFICES ASSUME Init PROVE Go!SelectInit
  OBVIOUS
<1>1. ASSUME NEW t \in Task
      PROVE  WaitsFor[t] = {} /\ Received[t] = NoOutcome
  <2>1. sel[t] = NoSel /\ got[t] = NoOutcome
    BY DEF Init
  <2>2. ~Blocked(t) /\ ~Answered(t)
    BY <2>1 DEF Blocked, Answered
  <2> QED
    BY <2>1, <2>2, MappedWait, MappedGot DEF Seen
<1>2. PICK W : W = WaitsFor
  OBVIOUS
<1>3. PICK R : R = Received
  OBVIOUS
<1>4. OnTasks(W) /\ OnTasks(R)
  BY <1>2, <1>3, OnTasksNow
<1>5. W = [t \in Task |-> {}]
  BY <1>1, <1>2, <1>4 DEF OnTasks
<1>6. R = [t \in Task |-> NoOutcome]
  BY <1>1, <1>3, <1>4 DEF OnTasks
<1> QED
  BY <1>2, <1>3, <1>5, <1>6 DEF Init, Go!SelectInit

\* A program that closes no channel and uses no timeout: scheduler, queues and
\* runnable list give the Go code the select statement of GoSelect.
THEOREM SelectRefinesGo ==
    ASSUME Plain
    PROVE  Spec => RefinesGoSelect
<1>1. Init => WaitInv
  BY WaitInit
<1>2. WaitInv /\ [Next]_vars => WaitInv'
  BY WaitNext
<1>3. Init => Go!SelectInit
  BY SelectStarts
<1>4. WaitInv /\ [Next]_vars => [Go!SelectNext]_(Go!selectVars)
  BY SelectSimulates
<1> QED
  BY <1>1, <1>2, <1>3, <1>4, PTL DEF Spec, RefinesGoSelect, Go!SelectSpec

-----------------------------------------------------------------------------
(***************************************************************************)
(* No value is handed out twice, whatever is closed, times out or panics.  *)
(***************************************************************************)
\* Where a value that was sent can be: in the buffer of a channel, with the
\* select that it answers, or with the Go code that received it last.
InBuffer(c) == {buf[c][k] : k \in 1 .. Len(buf[c])}
InSelect(t) == IF sel[t] = NoSel THEN {} ELSE {sel[t].value} \cap Message
InOutcome(t) == IF got[t] = NoOutcome THEN {} ELSE {got[t].value} \cap Message

Place == ({"buf"} \X Chan) \cup ({"sel", "got"} \X Task)
Held(p) == IF p[1] = "buf" THEN InBuffer(p[2])
           ELSE IF p[1] = "sel" THEN InSelect(p[2]) ELSE InOutcome(p[2])

\* It may still be sent: its select was not begun, or waits with it.
Pending(m) ==
    \/ m[2] > ops[m[1]]
    \/ \E a \in queued : a.op = SEND /\ Payload(a) = m

\* No value is in two places, or twice in a buffer.
Distinct(q) == \A j, k \in 1 .. Len(q) : q[j] = q[k] => j = k
HeldOnce ==
    /\ \A p, q \in Place : p # q => Held(p) \cap Held(q) = {}
    /\ \A c \in Chan : Distinct(buf[c])

\* What is somewhere was sent, and is not sent again.
HeldIsSent == \A p \in Place : \A m \in Held(p) : ~Pending(m)

HInv == HeldOnce /\ HeldIsSent /\ DOMAIN got = Task

\* What comes to a place p, between two states, was there, was moved there (x,
\* from g to h) or was sent there (y, to k).
Comes(p, old, new, g, x, h, y, k) ==
    \A m \in new : \/ m \in old /\ (p = g => m # x)
                   \/ m = x /\ p = h
                   \/ m = y /\ p = k

\* A step moves one value at most, and sends one at most.
Flow(g, x, h, y, k) ==
    /\ x \in Message => g \in Place /\ x \in Held(g) /\ g[1] # "got"
    /\ y \in Message => Pending(y) /\ ~Pending(y)'
    /\ \A m \in Message : Pending(m)' => Pending(m)
    /\ \A c \in Chan : Comes(<<"buf", c>>, InBuffer(c), InBuffer(c)', g, x, h, y, k)
    /\ \A t \in Task : Comes(<<"sel", t>>, InSelect(t), InSelect(t)', g, x, h, y, k)
    /\ \A t \in Task : Comes(<<"got", t>>, InOutcome(t), InOutcome(t)', g, x, h, y, k)

\* m reaches p: it is sent there, or was there, or is moved there from a place
\* that is not with the Go code.
Reaches(m, p) ==
    \/ Pending(m)
    \/ \E q \in Place : m \in Held(q) /\ (q[1] = "got" => q = p)

\* The places by kind.
LEMMA PlaceCases ==
    ASSUME NEW p \in Place
    PROVE  \/ \E c \in Chan : p = <<"buf", c>> /\ Held(p) = InBuffer(c) /\ Held(p)' = InBuffer(c)'
           \/ \E t \in Task : p = <<"sel", t>> /\ Held(p) = InSelect(t) /\ Held(p)' = InSelect(t)'
           \/ \E t \in Task : p = <<"got", t>> /\ Held(p) = InOutcome(t) /\ Held(p)' = InOutcome(t)'
<1>1. CASE p \in {"buf"} \X Chan
  <2>1. PICK c \in Chan : p = <<"buf", c>>
    BY <1>1
  <2> QED
    BY <2>1 DEF Held
<1>2. CASE p \in {"sel"} \X Task
  <2>1. PICK t \in Task : p = <<"sel", t>>
    BY <1>2
  <2> QED
    BY <2>1 DEF Held
<1>3. CASE p \in {"got"} \X Task
  <2>1. PICK t \in Task : p = <<"got", t>>
    BY <1>3
  <2> QED
    BY <2>1 DEF Held
<1> QED
  BY <1>1, <1>2, <1>3 DEF Place

\* What the places hold, by kind.
LEMMA PlaceOf ==
    /\ \A c \in Chan : <<"buf", c>> \in Place /\ Held(<<"buf", c>>) = InBuffer(c)
    /\ \A t \in Task : <<"sel", t>> \in Place /\ Held(<<"sel", t>>) = InSelect(t)
    /\ \A t \in Task : <<"got", t>> \in Place /\ Held(<<"got", t>>) = InOutcome(t)
BY DEF Place, Held

\* Only messages are counted.
LEMMA HeldMessage ==
    ASSUME Inv, NEW p \in Place
    PROVE  Held(p) \subseteq Message
<1>1. ASSUME NEW c \in Chan PROVE InBuffer(c) \subseteq Message
  BY DEF Inv, TypeOK, InBuffer
<1>2. \A t \in Task : InSelect(t) \subseteq Message /\ InOutcome(t) \subseteq Message
  BY DEF InSelect, InOutcome
<1> QED
  BY <1>1, <1>2, PlaceCases

\* A flow keeps what is held once, and brings nothing but what was pending.
LEMMA FlowKeeps ==
    ASSUME Inv, Inv', HInv, NEW g, NEW x, NEW h, NEW y, NEW k, Flow(g, x, h, y, k)
    PROVE  /\ \A p, q \in Place : p # q => Held(p)' \cap Held(q)' = {}
           /\ HeldIsSent'
           /\ \A p \in Place : \A m \in Held(p)' : Reaches(m, p)
<1>1. ASSUME NEW p \in Place
      PROVE  Comes(p, Held(p), Held(p)', g, x, h, y, k)
  BY PlaceCases DEF Flow
<1>2. ASSUME NEW p \in Place PROVE Held(p)' \subseteq Message
  <2>1. (Held(p) \subseteq Message)'
    <3>1. ASSUME NEW c \in Chan PROVE InBuffer(c)' \subseteq Message
      BY DEF Inv, TypeOK, InBuffer
    <3>2. \A t \in Task : InSelect(t)' \subseteq Message /\ InOutcome(t)' \subseteq Message
      BY DEF InSelect, InOutcome
    <3> QED
      BY <3>1, <3>2, PlaceCases
  <2> QED
    BY <2>1
<1>3. ASSUME NEW p \in Place, NEW m \in Held(p)'
      PROVE  /\ m \in Message
             /\ \/ m \in Held(p) /\ (p = g => m # x)
                \/ m = x /\ p = h
                \/ m = y /\ p = k
  BY <1>1, <1>2 DEF Comes
<1>4. x \in Message => g \in Place /\ x \in Held(g) /\ g[1] # "got"
  BY DEF Flow
<1>5. y \in Message => /\ Pending(y) /\ ~Pending(y)'
                       /\ \A p \in Place : y \notin Held(p)
  BY DEF Flow, HInv, HeldIsSent
<1>6. ASSUME NEW p \in Place, NEW q \in Place, p # q, NEW m, m \in Held(p)', m \in Held(q)'
      PROVE  FALSE
  <2>1. \A r \in Place, s \in Place : r # s => ~(m \in Held(r) /\ m \in Held(s))
    BY DEF HInv, HeldOnce
  <2> QED
    BY <1>3, <1>4, <1>5, <1>6, <2>1
<1>7. ASSUME NEW p \in Place, NEW m \in Held(p)'
      PROVE  /\ ~Pending(m)'
             /\ Reaches(m, p)
  <2>1. (\E q \in Place : m \in Held(q)) => ~Pending(m)'
    <3>1. (\E q \in Place : m \in Held(q)) => ~Pending(m)
      BY DEF HInv, HeldIsSent
    <3> QED
      BY <1>3, <1>7, <3>1 DEF Flow
  <2>2. CASE m = y
    BY <1>3, <1>5, <1>7, <2>2 DEF Reaches
  <2>3. CASE m # y
    <3>1. m \in Held(p) \/ m = x
      BY <1>3, <1>7, <2>3
    <3>2. Reaches(m, p)
      BY <1>3, <1>4, <1>7, <3>1 DEF Reaches
    <3> QED
      BY <1>3, <1>4, <1>7, <2>1, <3>1, <3>2
  <2> QED
    BY <2>2, <2>3
<1> QED
  BY <1>6, <1>7 DEF HeldIsSent

\* Sequences without repetition.
LEMMA DistinctAppend ==
    ASSUME NEW q \in Seq(Message), Distinct(q), NEW y \in Message,
           y \notin {q[k] : k \in 1 .. Len(q)}
    PROVE  /\ Distinct(Append(q, y))
           /\ \A m \in {Append(q, y)[k] : k \in 1 .. Len(Append(q, y))} :
                 m \in {q[k] : k \in 1 .. Len(q)} \/ m = y
<1>1. PICK r : r = Append(q, y)
  OBVIOUS
<1>2. /\ Len(q) \in Nat /\ Len(r) = Len(q) + 1 /\ r[Len(q) + 1] = y
      /\ \A k \in 1 .. Len(q) : r[k] = q[k]
  BY <1>1, AppendProperties
<1>3. Distinct(r)
  BY <1>2 DEF Distinct
<1>4. \A k \in 1 .. Len(r) : r[k] \in {q[j] : j \in 1 .. Len(q)} \/ r[k] = y
  BY <1>2
<1> QED
  BY <1>1, <1>3, <1>4

\* What is taken from the front is no longer there.
LEMMA DistinctTail ==
    ASSUME NEW q \in Seq(Message), Distinct(q), q # <<>>
    PROVE  /\ Tail(q) \in Seq(Message) /\ Distinct(Tail(q))
           /\ Head(q) \in Message /\ Head(q) \in {q[k] : k \in 1 .. Len(q)}
           /\ \A m \in {Tail(q)[k] : k \in 1 .. Len(Tail(q))} :
                 m \in {q[k] : k \in 1 .. Len(q)} /\ m # Head(q)
<1>1. PICK r : r = Tail(q)
  OBVIOUS
<1>2. /\ Len(q) \in Nat /\ Len(q) > 0 /\ r \in Seq(Message) /\ Len(r) = Len(q) - 1
      /\ \A k \in 1 .. Len(r) : r[k] = q[k + 1]
      /\ Head(q) = q[1]
  BY <1>1, HeadTailProperties, EmptySeq
<1>3. Distinct(r)
  BY <1>2 DEF Distinct
<1>4. \A k \in 1 .. Len(r) : r[k] \in {q[j] : j \in 1 .. Len(q)} /\ r[k] # q[1]
  BY <1>2 DEF Distinct
<1>5. q[1] \in Message
  BY <1>2, ElementOfSeq
<1> QED
  BY <1>1, <1>2, <1>3, <1>4, <1>5

\* Selects begin and alts leave: nothing that was sent becomes pending again.
LEMMA PendingShrinks ==
    ASSUME Inv, Inv', \A t \in Task : ops'[t] >= ops[t],
           \A a \in queued' : a.op = SEND =>
              \/ \E b \in queued : b.op = SEND /\ Payload(b) = Payload(a)
              \/ a.n > ops[a.task]
    PROVE  \A m \in Message : Pending(m)' => Pending(m)
<1> SUFFICES ASSUME NEW m \in Message, Pending(m)' PROVE Pending(m)
  OBVIOUS
<1>1. m[1] \in Task /\ m[2] \in Nat
  BY DEF Message
<1>2. ops[m[1]] \in Nat /\ ops'[m[1]] \in Nat /\ ops'[m[1]] >= ops[m[1]]
  BY <1>1, TaskAssumption DEF Inv, TypeOK
<1>3. CASE m[2] > ops'[m[1]]
  BY <1>1, <1>2, <1>3 DEF Pending
<1>4. ASSUME NEW a \in queued', a.op = SEND, Payload(a) = m
      PROVE  Pending(m)
  <2>1. m[1] = a.task /\ m[2] = a.n
    BY <1>4 DEF Payload
  <2> QED
    BY <1>4, <2>1 DEF Pending
<1> QED
  BY <1>3, <1>4 DEF Pending, Payload

\* A step that sends nothing and moves nothing.
LEMMA NoFlow ==
    ASSUME buf' = buf, \A m \in Message : Pending(m)' => Pending(m),
           \A t \in Task : InSelect(t)' \subseteq InSelect(t),
           \A t \in Task : InOutcome(t)' \subseteq InOutcome(t), HInv, Inv
    PROVE  Flow(Nil, Nil, Nil, Nil, Nil) /\ (\A c \in Chan : Distinct(buf'[c]))
<1>1. Nil \notin Message
  BY DistinctAssumption
<1>2. ASSUME NEW p, NEW old, NEW new, new \subseteq old, old \subseteq Message
      PROVE  Comes(p, old, new, Nil, Nil, Nil, Nil, Nil)
  BY <1>1, <1>2 DEF Comes
<1>3. ASSUME NEW c \in Chan PROVE InBuffer(c)' \subseteq InBuffer(c) /\ InBuffer(c) \subseteq Message
  BY DEF InBuffer, Inv, TypeOK
<1>4. \A t \in Task : InSelect(t) \subseteq Message /\ InOutcome(t) \subseteq Message
  BY DEF InSelect, InOutcome
<1>5. \A c \in Chan : Comes(<<"buf", c>>, InBuffer(c), InBuffer(c)', Nil, Nil, Nil, Nil, Nil)
  BY <1>2, <1>3
<1>6. \A t \in Task : Comes(<<"sel", t>>, InSelect(t), InSelect(t)', Nil, Nil, Nil, Nil, Nil)
  BY <1>2, <1>4
<1>7. \A t \in Task : Comes(<<"got", t>>, InOutcome(t), InOutcome(t)', Nil, Nil, Nil, Nil, Nil)
  BY <1>2, <1>4
<1> QED
  BY <1>1, <1>5, <1>6, <1>7 DEF Flow, HInv, HeldOnce

\* What every step does: values flow, each buffer stays without repetition.
Flows == \E g, x, h, y, k : Flow(g, x, h, y, k)
Keeps == Flows /\ (\A c \in Chan : Distinct(buf'[c])) /\ DOMAIN got' = Task

\* One select is given a value that is no message, or ends.
LEMMA QuietSelects ==
    ASSUME Inv, HInv, buf' = buf, got' = got,
           \A m \in Message : Pending(m)' => Pending(m),
           \A t \in Task : \/ sel'[t] = sel[t] \/ sel'[t] = NoSel
                           \/ sel'[t].value \notin Message
                           \/ sel[t] # NoSel /\ sel'[t].value = sel[t].value
    PROVE  Keeps
<1>1. ASSUME NEW t \in Task PROVE InSelect(t)' \subseteq InSelect(t)
  BY DEF InSelect
<1>2. \A t \in Task : InOutcome(t)' \subseteq InOutcome(t)
  BY DEF InOutcome
<1>3. Flow(Nil, Nil, Nil, Nil, Nil) /\ (\A c \in Chan : Distinct(buf'[c]))
  BY <1>1, <1>2, NoFlow
<1> QED
  BY <1>3 DEF Keeps, Flows, HInv

\* Steps that touch neither queues nor buffers nor answers.
LEMMA ControlFlow ==
    ASSUME Inv, Inv', WakeInv, HInv,
           \/ \E t \in EvalTask : Eval(t)
           \/ \E t, u \in Task : Spawn(t, u)
           \/ \E t \in Task : Return(t) \/ Panic(t)
           \/ \E t \in Task, s \in Stmt : SelectDefault(t, s)
           \/ UNCHANGED vars
    PROVE  Keeps
<1>1. UNCHANGED <<sel, queued, buf, got>>
  BY DEF Eval, Spawn, Return, Panic, SelectDefault, vars
<1>2. ops' = ops \/ \E t \in Task : ops' = [ops EXCEPT ![t] = @ + 1]
  BY DEF Eval, Spawn, Return, Panic, SelectDefault, BeginOp, vars
<1>3. \A t \in Task : ops'[t] >= ops[t]
  <2>1. ops \in [Task -> 0 .. MaxOps] /\ MaxOps \in Nat
    BY TaskAssumption DEF Inv, TypeOK
  <2>2. CASE ops' = ops
    BY <2>1, <2>2
  <2>3. ASSUME NEW u \in Task, ops' = [ops EXCEPT ![u] = @ + 1]
        PROVE  \A t \in Task : ops'[t] >= ops[t]
    BY <2>1, <2>3
  <2> QED
    BY <1>2, <2>2, <2>3
<1>4. \A m \in Message : Pending(m)' => Pending(m)
  BY <1>1, <1>3, PendingShrinks
<1> QED
  BY <1>1, <1>4, QuietSelects

\* select{} waits with nothing to send.
LEMMA SelectForeverFlow ==
    ASSUME Inv, Inv', WakeInv, HInv, NEW t \in Task, NEW s \in Stmt, SelectForever(t, s)
    PROVE  Keeps
<1>1. PICK x : x = [stmt |-> s, resolved |-> 0, value |-> Nil, parked |-> TRUE]
  OBVIOUS
<1>2. UNCHANGED <<queued, buf, got>> /\ sel' = [sel EXCEPT ![t] = x]
      /\ ops' = [ops EXCEPT ![t] = @ + 1]
  BY <1>1 DEF SelectForever, BeginOp
<1>3. x.value \notin Message
  BY <1>1, DistinctAssumption
<1>4. \A u \in Task : sel'[u] = IF u = t THEN x ELSE sel[u]
  BY <1>2 DEF Inv, TypeOK
<1>5. \A u \in Task : ops'[u] >= ops[u]
  BY <1>2, TaskAssumption DEF Inv, TypeOK
<1>6. \A m \in Message : Pending(m)' => Pending(m)
  BY <1>2, <1>5, PendingShrinks
<1> QED
  BY <1>2, <1>3, <1>4, <1>6, QuietSelects

\* A select that waits keeps what it would send pending.
LEMMA SelectBlockFlow ==
    ASSUME Inv, Inv', WakeInv, HInv, NEW t \in Task, NEW s \in Stmt, SelectBlock(t, s)
    PROVE  Keeps
<1>1. PICK x : x = [stmt |-> s, resolved |-> 0, value |-> Nil, parked |-> FALSE]
  OBVIOUS
<1>2. UNCHANGED <<buf, got>> /\ sel' = [sel EXCEPT ![t] = x]
      /\ ops' = [ops EXCEPT ![t] = @ + 1]
      /\ queued' = queued \cup AltsOf(t, ops[t] + 1, s)
  BY <1>1 DEF SelectBlock, BeginOp
<1>3. x.value \notin Message
  BY <1>1, DistinctAssumption
<1>4. \A u \in Task : sel'[u] = IF u = t THEN x ELSE sel[u]
  BY <1>2 DEF Inv, TypeOK
<1>5. \A u \in Task : ops'[u] >= ops[u]
  BY <1>2, TaskAssumption DEF Inv, TypeOK
<1>6. ASSUME NEW a \in queued', a.op = SEND
      PROVE  \/ \E b \in queued : b.op = SEND /\ Payload(b) = Payload(a)
             \/ a.n > ops[a.task]
  <2>1. CASE a \in queued
    BY <1>6, <2>1
  <2>2. CASE a \in AltsOf(t, ops[t] + 1, s)
    <3>1. a.task = t /\ a.n = ops[t] + 1
      BY <2>2 DEF AltsOf
    <3> QED
      BY <3>1, TaskAssumption DEF Inv, TypeOK
  <2> QED
    BY <1>2, <2>1, <2>2
<1>7. \A m \in Message : Pending(m)' => Pending(m)
  BY <1>5, <1>6, PendingShrinks
<1> QED
  BY <1>2, <1>3, <1>4, <1>7, QuietSelects

\* An expired receive is answered with TIMEOUT, which is no message.
LEMMA SchedulerYieldFlow ==
    ASSUME Inv, Inv', WakeInv, HInv, SchedulerYield
    PROVE  Keeps
<1>1. PICK X \in SUBSET timer : Expire(X)
  BY DEF SchedulerYield
<1>2. UNCHANGED <<ops, buf, got>>
  BY DEF SchedulerYield
<1>3. ASSUME NEW t \in Task
      PROVE  sel'[t] = sel[t] \/ sel'[t].value \notin Message
  <2>1. CASE t \in X
    <3>1. sel[t] \in Selection
      BY <2>1 DEF Inv, TypeOK
    <3>2. sel'[t] = [sel[t] EXCEPT !.resolved = 1, !.value = TIMEOUT]
      BY <1>1, <2>1 DEF Expire
    <3>3. sel'[t].value = TIMEOUT
      BY <3>1, <3>2 DEF Selection
    <3> QED
      BY <3>3, DistinctAssumption
  <2>2. CASE t \notin X
    BY <1>1, <2>2 DEF Expire
  <2> QED
    BY <2>1, <2>2
<1>4. queued' \subseteq queued
  BY <1>1 DEF Expire
<1>5. \A t \in Task : ops'[t] >= ops[t]
  BY <1>2, TaskAssumption DEF Inv, TypeOK
<1>6. \A m \in Message : Pending(m)' => Pending(m)
  BY <1>4, <1>5, PendingShrinks
<1> QED
  BY <1>2, <1>3, <1>6, QuietSelects

\* The value that answered the select goes to the Go code.
LEMMA ResumeFlow ==
    ASSUME Inv, Inv', WakeInv, HInv, NEW t \in Task,
           Resume(t) \/ ResumeParked(t) \/ ResumeUnresolved(t) \/ ResumeDead(t)
    PROVE  Keeps
<1>1. UNCHANGED <<ops, queued, buf>>
  BY DEF Resume, ResumeParked, ResumeUnresolved, ResumeDead
<1>2. \A u \in Task : ops'[u] >= ops[u]
  BY <1>1, TaskAssumption DEF Inv, TypeOK
<1>3. \A m \in Message : Pending(m)' => Pending(m)
  BY <1>1, <1>2, PendingShrinks
<1>4. sel \in [Task -> Selection \cup {NoSel}] /\ DOMAIN got = Task
  BY DEF Inv, TypeOK, HInv
<1>5. CASE got' = got
  <2>1. ASSUME NEW u \in Task
        PROVE  \/ sel'[u] = sel[u] \/ sel'[u] = NoSel
               \/ sel[u] # NoSel /\ sel'[u].value = sel[u].value
    <3>1. CASE ResumeParked(t)
      <4>1. sel[t] \in Selection /\ sel' = [sel EXCEPT ![t] = [sel[t] EXCEPT !.parked = FALSE]]
        BY <1>4, <3>1 DEF ResumeParked
      <4>2. PICK x : x = [sel[t] EXCEPT !.parked = FALSE]
        OBVIOUS
      <4>3. x.value = sel[t].value
        BY <4>1, <4>2 DEF Selection
      <4>4. sel'[u] = IF u = t THEN x ELSE sel[u]
        BY <1>4, <4>1, <4>2
      <4>5. sel[t] # NoSel
        BY <3>1 DEF ResumeParked
      <4> QED
        BY <4>3, <4>4, <4>5
    <3>2. CASE ~ResumeParked(t)
      <4>1. sel' = sel \/ sel' = [sel EXCEPT ![t] = NoSel]
        BY <3>2 DEF Resume, ResumeUnresolved, ResumeDead
      <4> QED
        BY <1>4, <4>1
    <3> QED
      BY <3>1, <3>2
  <2> QED
    BY <1>1, <1>3, <1>5, <2>1, QuietSelects
<1>6. CASE got' # got
  <2>1. sel[t] # NoSel /\ sel' = [sel EXCEPT ![t] = NoSel]
        /\ got' = [got EXCEPT ![t] = Outcome(sel[t].stmt, sel[t].resolved, sel[t].value)]
    BY <1>6 DEF Resume, ResumeParked, ResumeUnresolved, ResumeDead
  <2>2. PICK v : v = sel[t].value
    OBVIOUS
  <2>3. PICK r : r = Outcome(sel[t].stmt, sel[t].resolved, v)
    OBVIOUS
  <2>4. r.value = v
    BY <2>3 DEF Outcome
  <2>5. got' = [got EXCEPT ![t] = r]
    BY <2>1, <2>2, <2>3
  <2>6. DOMAIN got' = Task /\ (\A u \in Task : got'[u] = IF u = t THEN r ELSE got[u])
        /\ (\A u \in Task : sel'[u] = IF u = t THEN NoSel ELSE sel[u])
    BY <1>4, <2>1, <2>5
  <2> DEFINE g == <<"sel", t>>
             h == <<"got", t>>
  <2>7. v \in Message => g \in Place /\ v \in Held(g) /\ g[1] # "got"
    <3>1. v \in Message => v \in InSelect(t)
      BY <2>1, <2>2 DEF InSelect
    <3> QED
      BY <3>1, PlaceOf
  <2>8. ASSUME NEW c \in Chan
        PROVE  Comes(<<"buf", c>>, InBuffer(c), InBuffer(c)', g, v, h, Nil, Nil)
    <3>1. InBuffer(c)' = InBuffer(c)
      BY <1>1 DEF InBuffer
    <3>2. <<"buf", c>> # g
      OBVIOUS
    <3> QED
      BY <3>1, <3>2 DEF Comes
  <2>9. ASSUME NEW u \in Task
        PROVE  Comes(<<"sel", u>>, InSelect(u), InSelect(u)', g, v, h, Nil, Nil)
    <3>1. u = t => InSelect(u)' = {}
      BY <2>6 DEF InSelect
    <3>2. u # t => InSelect(u)' = InSelect(u) /\ <<"sel", u>> # g
      BY <2>6 DEF InSelect
    <3> QED
      BY <3>1, <3>2 DEF Comes
  <2>10. ASSUME NEW u \in Task
         PROVE  Comes(<<"got", u>>, InOutcome(u), InOutcome(u)', g, v, h, Nil, Nil)
    <3>1. u = t => InOutcome(u)' \subseteq {v}
      BY <2>4, <2>6 DEF InOutcome
    <3>2. u # t => InOutcome(u)' = InOutcome(u)
      BY <2>6 DEF InOutcome
    <3>3. <<"got", u>> # g
      OBVIOUS
    <3> QED
      BY <3>1, <3>2, <3>3 DEF Comes
  <2> HIDE DEF g, h
  <2>11. Flow(g, v, h, Nil, Nil)
    BY <1>3, <2>7, <2>8, <2>9, <2>10, DistinctAssumption DEF Flow
  <2>12. \A c \in Chan : Distinct(buf'[c])
    BY <1>1 DEF HInv, HeldOnce
  <2> QED
    BY <2>6, <2>11, <2>12 DEF Keeps, Flows
<1> QED
  BY <1>5, <1>6

\* A receive with a timeout finds no partner, as only receives have timeouts.
LEMMA CopyTimeout ==
    ASSUME Inv, NEW a \in Alt, a.to, NEW o \in Partners(a)
    PROVE  o = NoAlt /\ CopyFor(a, o) = [value |-> TIMEOUT, buf |-> buf[a.c]]
<1>1. a.op = RECV /\ RECV # SEND /\ NoAlt \notin Alt
  BY DistinctAssumption DEF Alt
<1>2. \A x \in GetOtherAlts(a.c, a.op) : x.op = SEND /\ x \in Alt
  BY <1>1 DEF GetOtherAlts, GetAlts, Inv, TypeOK
<1>3. \A x \in GetOtherAlts(a.c, a.op) : ~x.to
  BY <1>1, <1>2 DEF Alt
<1>4. o = NoAlt
  BY <1>3 DEF Partners
<1>5. a # NoAlt
  BY <1>1
<1> QED
  BY <1>1, <1>4, <1>5 DEF CopyFor, Copy

\* The partner's alts leave the queues, and with them what they would send.
LEMMA DequeueEnds ==
    ASSUME Inv, Inv', WakeInv, NEW o \in queued, Dequeue(o), \A t \in Task : ops'[t] >= ops[t]
    PROVE  /\ Payload(o) \in Message
           /\ ~Pending(Payload(o))'
           /\ o.op = SEND => Pending(Payload(o))
<1>1. /\ o.task \in Task /\ o.n \in 1 .. MaxOps /\ o.i \in Nat /\ o.n <= ops[o.task]
      /\ ops \in [Task -> 0 .. MaxOps] /\ MaxOps \in Nat
  BY TaskAssumption DEF Inv, TypeOK, Alt, WakeInv, SelShape
<1>2. PICK m : m = Payload(o)
  OBVIOUS
<1>3. m \in Message /\ m[1] = o.task /\ m[2] = o.n
  BY <1>1, <1>2 DEF Message, Payload
<1>4. ~(m[2] > ops'[m[1]])
  <2>1. ops'[o.task] >= ops[o.task] /\ ops[o.task] \in Nat /\ ops'[o.task] \in Nat
    BY <1>1 DEF Inv, TypeOK
  <2> QED
    BY <1>1, <1>3, <2>1
<1>5. ASSUME NEW a \in queued', Payload(a) = m PROVE FALSE
  <2>1. a.task = o.task /\ a.n = o.n
    BY <1>2, <1>5 DEF Payload
  <2> QED
    BY <2>1 DEF Dequeue
<1>6. ~Pending(m)'
  BY <1>4, <1>5 DEF Pending, Payload
<1>7. o.op = SEND => Pending(m)
  BY <1>2 DEF Pending
<1> QED
  BY <1>2, <1>3, <1>6, <1>7

\* The value that the running coroutine sends was not sent before.
LEMMA NewPayload ==
    ASSUME Inv, Inv', WakeInv, NEW t \in Task, BeginOp(t), queued' \subseteq queued,
           NEW a \in Alt, a.task = t, a.n = ops[t] + 1
    PROVE  Payload(a) \in Message /\ Pending(Payload(a)) /\ ~Pending(Payload(a))'
<1>1. PICK m : m = Payload(a)
  OBVIOUS
<1>2. m \in Message /\ m[1] = t /\ m[2] = ops[t] + 1
  BY <1>1 DEF Message, Payload, Alt
<1>3. /\ ops \in [Task -> 0 .. MaxOps] /\ MaxOps \in Nat
      /\ \A x \in queued : x.n <= ops[x.task] /\ x.n \in Nat
  BY TaskAssumption DEF Inv, TypeOK, WakeInv, SelShape, Alt
<1>4. ops'[t] = ops[t] + 1
  BY <1>3 DEF BeginOp
<1>5. ASSUME NEW x \in queued', Payload(x) = m PROVE FALSE
  <2>1. x.task = t /\ x.n = ops[t] + 1 /\ x \in queued
    BY <1>2, <1>5 DEF Payload
  <2> QED
    BY <1>3, <2>1
<1>6. ~Pending(m)'
  BY <1>2, <1>3, <1>4, <1>5 DEF Pending, Payload
<1>7. Pending(m)
  BY <1>2, <1>3 DEF Pending
<1> QED
  BY <1>1, <1>2, <1>6, <1>7

\* A Wake changes one select, and gives it v if it receives.
LEMMA WakeSelects ==
    ASSUME Inv, NEW o \in queued, NEW v \in Value, Wake(o, v), NEW u \in Task
    PROVE  \/ InSelect(u)' = InSelect(u)
           \/ u = o.task /\ o.op = RECV /\ InSelect(u)' \subseteq {v}
<1>1. o.task \in Task
  BY DEF Inv, TypeOK, Alt
<1>2. CASE u # o.task \/ ~IsCurrent(o)
  <2>1. sel'[u] = sel[u]
    BY <1>2, WakeEffect
  <2> QED
    BY <2>1 DEF InSelect
<1>3. CASE u = o.task /\ IsCurrent(o)
  <2>1. sel'[u] # NoSel /\ sel[u] # NoSel
    BY <1>3, WakeEffect DEF IsCurrent
  <2>2. sel'[u].value = IF o.op = RECV THEN v ELSE sel[u].value
    BY <1>3, WakeAnswer
  <2> QED
    BY <1>3, <2>1, <2>2 DEF InSelect
<1> QED
  BY <1>2, <1>3

\* What stays where it is.
LEMMA ComesSame ==
    ASSUME NEW p, NEW S, NEW T, T \subseteq S, NEW g, NEW x, p # g \/ x \notin S, NEW h, NEW y, NEW k
    PROVE  Comes(p, S, T, g, x, h, y, k)
BY DEF Comes

\* The case that is executed at once: a value goes to a waiting receiver, into
\* the buffer, or from a waiting sender or the buffer to the running coroutine.
LEMMA SelectReadyFlow ==
    ASSUME Inv, Inv', WakeInv, HInv, NEW t \in Task, NEW s \in Stmt, SelectReady(t, s)
    PROVE  Keeps
<1>1. BeginOp(t) /\ ops[t] + 1 \in 1 .. MaxOps
  BY BeginOpType DEF SelectReady
<1>2. PICK a \in AltsOf(t, ops[t] + 1, s) : ExecCase(t, s, a)
  BY DEF SelectReady
<1>3. a \in Alt /\ ~a.closed /\ CanExec(a) /\ a.task = t /\ a.n = ops[t] + 1
  <2>1. PICK n \in 1 .. MaxOps : n = ops[t] + 1
    BY <1>1
  <2> QED
    BY <1>2, <2>1, AltsOfType DEF ExecCase
<1>4. PICK o \in Partners(a) :
        /\ buf' = [buf EXCEPT ![a.c] = CopyFor(a, o).buf]
        /\ got' = [got EXCEPT ![t] =
              Outcome(s, a.i, IF a.op = RECV THEN CopyFor(a, o).value ELSE Nil)]
        /\ IF o = NoAlt THEN UNCHANGED <<sel, queued, ready>>
           ELSE Wake(o, CopyFor(a, o).value)
  BY <1>2 DEF ExecCase
<1>5. PICK v \in Value : v = CopyFor(a, o).value
  BY <1>3, CopyFacts
<1>6. PICK q : q = CopyFor(a, o).buf
  OBVIOUS
<1>7. PICK w : w = IF a.op = RECV THEN v ELSE Nil
  OBVIOUS
<1>8. PICK r : r = Outcome(s, a.i, w)
  OBVIOUS
<1>9. r.value = w
  BY <1>8 DEF Outcome
<1>10. got' = [got EXCEPT ![t] = r]
  BY <1>4, <1>5, <1>7, <1>8
<1>11. DOMAIN got' = Task /\ \A u \in Task : got'[u] = IF u = t THEN r ELSE got[u]
  BY <1>10 DEF HInv
<1>12. /\ InOutcome(t)' \subseteq {w} \cap Message
       /\ \A u \in Task : u # t => InOutcome(u)' = InOutcome(u)
  BY <1>9, <1>11 DEF InOutcome
<1>13. /\ a.c \in Chan /\ buf \in [Chan -> Seq(Message)] /\ buf' = [buf EXCEPT ![a.c] = q]
       /\ a.op \in {RECV, SEND} /\ RECV # SEND /\ a.to \in BOOLEAN
       /\ Nil \notin Message /\ TIMEOUT \notin Message
  BY <1>3, <1>4, <1>6, DistinctAssumption DEF Inv, TypeOK, Alt
<1>14. \A c \in Chan : buf'[c] = IF c = a.c THEN q ELSE buf[c]
  BY <1>13
<1>15. \A c \in Chan : c # a.c => InBuffer(c)' = InBuffer(c)
  BY <1>14 DEF InBuffer
<1>16. InBuffer(a.c)' = {q[j] : j \in 1 .. Len(q)}
  BY <1>13, <1>14 DEF InBuffer
<1>17. \A c \in Chan : Distinct(buf[c])
  BY DEF HInv, HeldOnce
<1>18. o # NoAlt => o \in queued /\ Dequeue(o) /\ o.op = IF a.op = SEND THEN RECV ELSE SEND
  <2>1. o # NoAlt => o \in GetOtherAlts(a.c, a.op)
    <3>1. CASE a.to
      BY <1>3, <3>1, CopyTimeout
    <3>2. CASE ~a.to
      BY <1>3, <3>2, CopyCases
    <3> QED
      BY <3>1, <3>2
  <2> QED
    BY <1>4, <2>1 DEF GetOtherAlts, GetAlts, Wake
<1>19. \A u \in Task : \/ InSelect(u)' = InSelect(u)
                       \/ o # NoAlt /\ u = o.task /\ a.op = SEND /\ InSelect(u)' \subseteq {v}
  <2>1. CASE o = NoAlt
    BY <1>4, <2>1 DEF InSelect
  <2>2. CASE o # NoAlt
    <3>1. Wake(o, v)
      BY <1>4, <1>5, <2>2
    <3> QED
      BY <1>13, <1>18, <2>2, <3>1, WakeSelects
  <2> QED
    BY <2>1, <2>2
<1>20. queued' \subseteq queued /\ \A u \in Task : ops'[u] >= ops[u]
  <2>1. queued' \subseteq queued
    BY <1>4, <1>18 DEF Dequeue
  <2>2. ops \in [Task -> 0 .. MaxOps] /\ MaxOps \in Nat
    BY TaskAssumption DEF Inv, TypeOK
  <2> QED
    BY <1>1, <2>1, <2>2 DEF BeginOp
<1>21. \A m \in Message : Pending(m)' => Pending(m)
  BY <1>20, PendingShrinks
<1>22. Payload(a) \in Message /\ Pending(Payload(a)) /\ ~Pending(Payload(a))'
  BY <1>1, <1>3, <1>20, NewPayload
<1>23. o # NoAlt /\ o.op = SEND =>
         Payload(o) \in Message /\ Pending(Payload(o)) /\ ~Pending(Payload(o))'
  BY <1>18, <1>20, DequeueEnds
<1>24. CASE a.to
  <2>1. o = NoAlt /\ v = TIMEOUT /\ q = buf[a.c]
    BY <1>3, <1>5, <1>6, <1>24, CopyTimeout
  <2>2. buf' = buf /\ InOutcome(t)' = {}
    BY <1>7, <1>12, <1>13, <1>24, <2>1
  <2>3. \A u \in Task : InSelect(u)' \subseteq InSelect(u) /\ InOutcome(u)' \subseteq InOutcome(u)
    BY <1>12, <1>19, <2>1, <2>2
  <2>4. Flow(Nil, Nil, Nil, Nil, Nil) /\ (\A c \in Chan : Distinct(buf'[c]))
    BY <1>21, <2>2, <2>3, NoFlow
  <2> QED
    BY <1>11, <2>4 DEF Keeps, Flows
<1>25. CASE ~a.to /\ a.op = SEND /\ o # NoAlt
  <2> DEFINE k == <<"sel", o.task>>
  <2>1. v = Payload(a) /\ q = buf[a.c] /\ w = Nil
    BY <1>3, <1>5, <1>6, <1>7, <1>13, <1>25, CopyCases
  <2>2. buf' = buf /\ InOutcome(t)' = {}
    BY <1>12, <1>13, <2>1
  <2>3. ASSUME NEW c \in Chan
        PROVE  Comes(<<"buf", c>>, InBuffer(c), InBuffer(c)', Nil, Nil, Nil, v, k)
    <3>1. InBuffer(c)' = InBuffer(c) /\ Nil \notin InBuffer(c)
      BY <1>13, <2>2 DEF InBuffer
    <3> QED
      BY <3>1, ComesSame
  <2>4. ASSUME NEW u \in Task
        PROVE  Comes(<<"got", u>>, InOutcome(u), InOutcome(u)', Nil, Nil, Nil, v, k)
    <3>1. InOutcome(u)' \subseteq InOutcome(u) /\ Nil \notin InOutcome(u)
      BY <1>12, <1>13, <2>2 DEF InOutcome
    <3> QED
      BY <3>1, ComesSame
  <2>5. ASSUME NEW u \in Task
        PROVE  Comes(<<"sel", u>>, InSelect(u), InSelect(u)', Nil, Nil, Nil, v, k)
    <3>1. Nil \notin InSelect(u)
      BY <1>13 DEF InSelect
    <3>2. CASE InSelect(u)' = InSelect(u)
      BY <3>1, <3>2, ComesSame
    <3>3. CASE u = o.task /\ InSelect(u)' \subseteq {v}
      BY <3>3 DEF Comes
    <3> QED
      BY <1>19, <3>2, <3>3
  <2> HIDE DEF k
  <2>6. Flow(Nil, Nil, Nil, v, k)
    BY <1>13, <1>21, <1>22, <2>1, <2>3, <2>4, <2>5 DEF Flow
  <2> QED
    BY <1>11, <1>17, <2>2, <2>6 DEF Keeps, Flows
<1>26. CASE ~a.to /\ a.op = SEND /\ o = NoAlt
  <2> DEFINE k == <<"buf", a.c>>
             y == Payload(a)
  <2>1. q = Append(buf[a.c], y) /\ w = Nil
    BY <1>3, <1>6, <1>7, <1>13, <1>26, CopyCases
  <2>2. y \notin InBuffer(a.c)
    <3>1. \A p \in Place : y \notin Held(p)
      BY <1>22 DEF HInv, HeldIsSent
    <3> QED
      BY <1>13, <3>1, PlaceOf
  <2>3. Distinct(q) /\ \A m \in InBuffer(a.c)' : m \in InBuffer(a.c) \/ m = y
    <3>1. PICK b \in Seq(Message) : b = buf[a.c]
      BY <1>13
    <3>2. Distinct(b) /\ y \in Message /\ y \notin {b[j] : j \in 1 .. Len(b)}
      BY <1>13, <1>17, <1>22, <2>2, <3>1 DEF InBuffer
    <3>3. /\ Distinct(q)
          /\ \A m \in {q[j] : j \in 1 .. Len(q)} : m \in {b[j] : j \in 1 .. Len(b)} \/ m = y
      <4> HIDE DEF y
      <4>1. q = Append(b, y)
        BY <2>1, <3>1
      <4> QED
        BY <3>2, <4>1, DistinctAppend
    <3> QED
      BY <1>16, <3>1, <3>3 DEF InBuffer
  <2>4. ASSUME NEW c \in Chan
        PROVE  Comes(<<"buf", c>>, InBuffer(c), InBuffer(c)', Nil, Nil, Nil, y, k)
    <3>1. Nil \notin InBuffer(c)
      BY <1>13 DEF InBuffer
    <3>2. CASE c = a.c
      BY <2>3, <3>1, <3>2 DEF Comes
    <3>3. CASE c # a.c
      BY <1>15, <3>1, <3>3, ComesSame
    <3> QED
      BY <3>2, <3>3
  <2>5. ASSUME NEW u \in Task
        PROVE  Comes(<<"got", u>>, InOutcome(u), InOutcome(u)', Nil, Nil, Nil, y, k)
    <3>1. InOutcome(u)' \subseteq InOutcome(u) /\ Nil \notin InOutcome(u)
      BY <1>12, <1>13, <2>1 DEF InOutcome
    <3> QED
      BY <3>1, ComesSame
  <2>6. ASSUME NEW u \in Task
        PROVE  Comes(<<"sel", u>>, InSelect(u), InSelect(u)', Nil, Nil, Nil, y, k)
    <3>1. InSelect(u)' = InSelect(u) /\ Nil \notin InSelect(u)
      BY <1>13, <1>19, <1>26 DEF InSelect
    <3> QED
      BY <3>1, ComesSame
  <2> HIDE DEF k, y
  <2>7. y \in Message /\ Pending(y) /\ ~Pending(y)'
    BY <1>22 DEF y
  <2>8. Flow(Nil, Nil, Nil, y, k)
    BY <1>13, <1>21, <2>4, <2>5, <2>6, <2>7 DEF Flow
  <2>9. \A c \in Chan : Distinct(buf'[c])
    BY <1>14, <1>17, <2>3
  <2> QED
    BY <1>11, <2>8, <2>9 DEF Keeps, Flows
<1>27. CASE ~a.to /\ a.op = RECV /\ Size[a.c] = 0
  <2> DEFINE k == <<"got", t>>
  <2>1. o # NoAlt /\ v = Payload(o) /\ q = buf[a.c] /\ w = v
    BY <1>3, <1>5, <1>6, <1>7, <1>13, <1>27, CopyCases
  <2>2. buf' = buf /\ o.op = SEND
    BY <1>13, <1>18, <1>27, <2>1
  <2>3. ASSUME NEW c \in Chan
        PROVE  Comes(<<"buf", c>>, InBuffer(c), InBuffer(c)', Nil, Nil, Nil, v, k)
    <3>1. InBuffer(c)' = InBuffer(c) /\ Nil \notin InBuffer(c)
      BY <1>13, <2>2 DEF InBuffer
    <3> QED
      BY <3>1, ComesSame
  <2>4. ASSUME NEW u \in Task
        PROVE  Comes(<<"got", u>>, InOutcome(u), InOutcome(u)', Nil, Nil, Nil, v, k)
    <3>1. Nil \notin InOutcome(u)
      BY <1>13 DEF InOutcome
    <3>2. CASE u = t
      BY <1>12, <2>1, <3>2 DEF Comes
    <3>3. CASE u # t
      BY <1>12, <3>1, <3>3, ComesSame
    <3> QED
      BY <3>2, <3>3
  <2>5. ASSUME NEW u \in Task
        PROVE  Comes(<<"sel", u>>, InSelect(u), InSelect(u)', Nil, Nil, Nil, v, k)
    <3>1. InSelect(u)' = InSelect(u) /\ Nil \notin InSelect(u)
      BY <1>13, <1>19, <1>27 DEF InSelect
    <3> QED
      BY <3>1, ComesSame
  <2> HIDE DEF k
  <2>6. Flow(Nil, Nil, Nil, v, k)
    BY <1>13, <1>21, <1>23, <2>1, <2>2, <2>3, <2>4, <2>5 DEF Flow
  <2> QED
    BY <1>11, <1>17, <2>2, <2>6 DEF Keeps, Flows
<1>28. CASE ~a.to /\ a.op = RECV /\ Size[a.c] # 0
  <2> DEFINE g == <<"buf", a.c>>
             h == <<"got", t>>
  <2>1. PICK b \in Seq(Message) : b = buf[a.c]
    BY <1>13
  <2>2. b # <<>> /\ v = Head(b) /\ w = v /\ Distinct(b)
    BY <1>3, <1>5, <1>7, <1>13, <1>17, <1>28, <2>1, CopyCases
  <2>3. /\ Tail(b) \in Seq(Message) /\ Distinct(Tail(b)) /\ v \in Message
        /\ v \in {b[j] : j \in 1 .. Len(b)}
        /\ \A m \in {Tail(b)[j] : j \in 1 .. Len(Tail(b))} :
              m \in {b[j] : j \in 1 .. Len(b)} /\ m # v
    BY <2>2, DistinctTail
  <2>4. g \in Place /\ g[1] # "got" /\ v \in Held(g) /\ InBuffer(a.c) = {b[j] : j \in 1 .. Len(b)}
    BY <1>13, <2>1, <2>3, PlaceOf DEF InBuffer
  <2>5. PICK y : y = IF o = NoAlt THEN Nil ELSE Payload(o)
    OBVIOUS
  <2>6. y \in Message => Pending(y) /\ ~Pending(y)'
    BY <1>13, <1>18, <1>23, <1>28, <2>5
  <2>7. /\ Distinct(q)
        /\ \A m \in {q[j] : j \in 1 .. Len(q)} :
              m = y \/ (m \in {b[j] : j \in 1 .. Len(b)} /\ m # v)
    <3>1. CASE o = NoAlt
      <4>1. q = Tail(b)
        BY <1>3, <1>6, <1>28, <2>1, <3>1, CopyCases
      <4> QED
        BY <2>3, <4>1
    <3>2. CASE o # NoAlt
      <4>1. q = Append(Tail(b), y)
        BY <1>3, <1>6, <1>28, <2>1, <2>5, <3>2, CopyCases
      <4>2. y \in Message /\ Pending(y)
        BY <1>13, <1>18, <1>23, <1>28, <2>5, <3>2
      <4>3. y \notin {Tail(b)[j] : j \in 1 .. Len(Tail(b))}
        <5>1. \A p \in Place : y \notin Held(p)
          BY <4>2 DEF HInv, HeldIsSent
        <5>2. y \notin {b[j] : j \in 1 .. Len(b)}
          BY <1>13, <2>4, <5>1, PlaceOf
        <5> QED
          BY <2>3, <5>2
      <4>4. PICK d \in Seq(Message) : d = Tail(b)
        BY <2>3
      <4>5. /\ Distinct(d) /\ y \notin {d[j] : j \in 1 .. Len(d)}
            /\ \A m \in {d[j] : j \in 1 .. Len(d)} :
                  m \in {b[j] : j \in 1 .. Len(b)} /\ m # v
        BY <2>3, <4>3, <4>4
      <4>6. /\ Distinct(q)
            /\ \A m \in {q[j] : j \in 1 .. Len(q)} : m \in {d[j] : j \in 1 .. Len(d)} \/ m = y
        <5>1. q = Append(d, y)
          BY <4>1, <4>4
        <5> QED
          BY <4>2, <4>5, <5>1, DistinctAppend
      <4> QED
        BY <4>5, <4>6
    <3> QED
      BY <3>1, <3>2
  <2>8. ASSUME NEW c \in Chan
        PROVE  Comes(<<"buf", c>>, InBuffer(c), InBuffer(c)', g, v, h, y, g)
    <3>1. CASE c = a.c
      <4>1. ASSUME NEW m \in InBuffer(c)'
            PROVE  (m \in InBuffer(c) /\ m # v) \/ m = y
        BY <1>16, <2>4, <2>7, <3>1, <4>1
      <4> QED
        BY <3>1, <4>1 DEF Comes
    <3>2. CASE c # a.c
      <4>1. <<"buf", c>> # g
        BY <3>2
      <4> QED
        BY <1>15, <3>2, <4>1, ComesSame
    <3> QED
      BY <3>1, <3>2
  <2>9. ASSUME NEW u \in Task
        PROVE  Comes(<<"got", u>>, InOutcome(u), InOutcome(u)', g, v, h, y, g)
    <3>1. <<"got", u>> # g
      OBVIOUS
    <3>2. CASE u = t
      BY <1>12, <2>2, <3>2 DEF Comes
    <3>3. CASE u # t
      BY <1>12, <3>1, <3>3, ComesSame
    <3> QED
      BY <3>2, <3>3
  <2>10. ASSUME NEW u \in Task
         PROVE  Comes(<<"sel", u>>, InSelect(u), InSelect(u)', g, v, h, y, g)
    <3>1. InSelect(u)' = InSelect(u) /\ <<"sel", u>> # g
      BY <1>13, <1>19, <1>28
    <3> QED
      BY <3>1, ComesSame
  <2> HIDE DEF g, h
  <2>11. Flow(g, v, h, y, g)
    BY <1>21, <2>4, <2>6, <2>8, <2>9, <2>10 DEF Flow
  <2>12. \A c \in Chan : Distinct(buf'[c])
    BY <1>14, <1>17, <2>7
  <2> QED
    BY <1>11, <2>11, <2>12 DEF Keeps, Flows
<1> QED
  BY <1>13, <1>24, <1>25, <1>26, <1>27, <1>28

\* The close of a channel that receivers wait on sends and moves nothing.
LEMMA CloseReceiversFlow ==
    ASSUME Inv, Inv', HInv, NEW c \in Chan, CloseReceivers(c), got' = got,
           \A t \in Task : ops'[t] >= ops[t]
    PROVE  Keeps
<1> DEFINE rs == GetAlts(c, RECV)
           told == {r.task : r \in {a \in rs : IsCurrent(a)}}
<1>1. /\ queued' = (queued \ rs) \cup {[r EXCEPT !.closed = TRUE] : r \in rs}
      /\ sel' = [u \in Task |->
                    IF u \in told
                    THEN [sel[u] EXCEPT !.resolved = 1,
                            !.value = IF u \in timer THEN TIMEOUT ELSE Nil]
                    ELSE sel[u]]
      /\ buf' = buf
  BY DEF CloseReceivers
<1>2. ASSUME NEW a \in queued', a.op = SEND
      PROVE  a \in queued
  <2>1. CASE a \in queued \ rs
    BY <2>1
  <2>2. ASSUME NEW r \in rs, a = [r EXCEPT !.closed = TRUE] PROVE FALSE
    <3>1. r \in Alt /\ r.op = RECV
      BY <2>2 DEF GetAlts, Inv, TypeOK
    <3>2. a.op = RECV
      BY <2>2, <3>1 DEF Alt
    <3> QED
      BY <1>2, <3>2, DistinctAssumption
  <2> QED
    BY <1>1, <1>2, <2>1, <2>2
<1>3. \A m \in Message : Pending(m)' => Pending(m)
  BY <1>2, PendingShrinks
<1>4. ASSUME NEW u \in Task
      PROVE  sel'[u] = sel[u] \/ sel'[u].value \notin Message
  <2>1. CASE u \in told
    <3>1. PICK x : x = IF u \in timer THEN TIMEOUT ELSE Nil
      OBVIOUS
    <3>2. sel'[u] = [sel[u] EXCEPT !.resolved = 1, !.value = x]
      BY <1>1, <2>1, <3>1
    <3>3. sel[u] \in Selection
      BY <2>1 DEF GetAlts, IsCurrent, Inv, TypeOK
    <3>4. sel'[u].value = x
      BY <3>2, <3>3 DEF Selection
    <3> QED
      BY <3>1, <3>4, DistinctAssumption
  <2>2. CASE u \notin told
    BY <1>1, <2>2
  <2> QED
    BY <2>1, <2>2
<1> QED
  BY <1>1, <1>3, <1>4, QuietSelects

\* The close of a channel with a select that offers both sides: what it sends is
\* its own answer.
LEMMA CloseOwnSenderFlow ==
    ASSUME Inv, Inv', WakeInv, HInv, NEW c \in Chan, CloseOwnSender(c), got' = got,
           \A t \in Task : ops'[t] >= ops[t]
    PROVE  Keeps
<1>1. CASE GetAlts(c, RECV) = {}
  <2>1. UNCHANGED <<queued, sel, buf>>
    BY <1>1 DEF CloseOwnSender
  <2>2. \A m \in Message : Pending(m)' => Pending(m)
    BY <2>1, PendingShrinks
  <2> QED
    BY <2>1, <2>2, QuietSelects
<1>2. CASE GetAlts(c, RECV) # {}
  <2>1. PICK r \in GetAlts(c, RECV), s \in GetAlts(c, SEND) :
          LET copy == Copy([r EXCEPT !.closed = TRUE], s, c)
          IN  /\ Dequeue(s)
              /\ buf' = [buf EXCEPT ![c] = copy.buf]
              /\ sel' = IF IsCurrent(s)
                        THEN [sel EXCEPT ![s.task].resolved = s.i,
                                         ![s.task].value = copy.value]
                        ELSE sel
    BY <1>2 DEF CloseOwnSender
  <2>2. /\ r \in Alt /\ s \in Alt /\ s \in queued /\ s.op = SEND
        /\ buf[c] = <<>> /\ s.task \in Task
    BY <2>1 DEF GetAlts, Inv, TypeOK, NoMissedRendezvous, Alt
  <2>3. PICK d : d = [r EXCEPT !.closed = TRUE]
    OBVIOUS
  <2>4. d # NoAlt /\ s # NoAlt
    <3>1. d \in Alt
      BY <2>2, <2>3 DEF Alt
    <3> QED
      BY <2>2, <3>1, DistinctAssumption
  <2>5. PICK v : v = Payload(s)
    OBVIOUS
  <2>6. Copy(d, s, c) = [value |-> v, buf |-> buf[c]]
    BY <2>2, <2>4, <2>5 DEF Copy
  <2>7. Copy(d, s, c).value = v /\ Copy(d, s, c).buf = buf[c]
    BY <2>6
  <2>8. /\ buf' = [buf EXCEPT ![c] = buf[c]]
        /\ sel' = IF IsCurrent(s)
                  THEN [sel EXCEPT ![s.task].resolved = s.i, ![s.task].value = v]
                  ELSE sel
    BY <2>1, <2>3, <2>7
  <2>9. buf' = buf
    BY <2>8 DEF Inv, TypeOK
  <2>10. v \in Message /\ Pending(v) /\ ~Pending(v)'
    BY <2>1, <2>2, <2>5, DequeueEnds
  <2>11. queued' \subseteq queued
    BY <2>1 DEF Dequeue
  <2>12. \A m \in Message : Pending(m)' => Pending(m)
    BY <2>11, PendingShrinks
  <2>13. ASSUME NEW u \in Task
         PROVE  InSelect(u)' = InSelect(u) \/ (u = s.task /\ InSelect(u)' \subseteq {v})
    <3>1. CASE IsCurrent(s) /\ u = s.task
      <4>1. sel[u] \in Selection
        BY <3>1 DEF IsCurrent, Inv, TypeOK
      <4>2. sel'[u] = [sel[u] EXCEPT !.resolved = s.i, !.value = v]
        BY <2>8, <3>1, <4>1 DEF Inv, TypeOK
      <4>3. sel'[u].value = v
        BY <4>1, <4>2 DEF Selection
      <4> QED
        BY <3>1, <4>3 DEF InSelect
    <3>2. CASE ~(IsCurrent(s) /\ u = s.task)
      <4>1. sel'[u] = sel[u]
        BY <2>8, <3>2 DEF Inv, TypeOK
      <4> QED
        BY <4>1 DEF InSelect
    <3> QED
      BY <3>1, <3>2
  <2> DEFINE k == <<"sel", s.task>>
  <2>14. Nil \notin Message
    BY DistinctAssumption
  <2>15. ASSUME NEW b \in Chan
         PROVE  Comes(<<"buf", b>>, InBuffer(b), InBuffer(b)', Nil, Nil, Nil, v, k)
    <3>1. InBuffer(b)' = InBuffer(b) /\ Nil \notin InBuffer(b)
      BY <2>9, <2>14 DEF InBuffer, Inv, TypeOK
    <3> QED
      BY <3>1, ComesSame
  <2>16. ASSUME NEW u \in Task
         PROVE  Comes(<<"got", u>>, InOutcome(u), InOutcome(u)', Nil, Nil, Nil, v, k)
    <3>1. InOutcome(u)' = InOutcome(u) /\ Nil \notin InOutcome(u)
      BY <2>14 DEF InOutcome
    <3> QED
      BY <3>1, ComesSame
  <2>17. ASSUME NEW u \in Task
         PROVE  Comes(<<"sel", u>>, InSelect(u), InSelect(u)', Nil, Nil, Nil, v, k)
    <3>1. Nil \notin InSelect(u)
      BY <2>14 DEF InSelect
    <3>2. CASE InSelect(u)' = InSelect(u)
      BY <3>1, <3>2, ComesSame
    <3>3. CASE u = s.task /\ InSelect(u)' \subseteq {v}
      BY <3>3 DEF Comes
    <3> QED
      BY <2>13, <3>2, <3>3
  <2> HIDE DEF k
  <2>18. Flow(Nil, Nil, Nil, v, k)
    BY <2>10, <2>12, <2>14, <2>15, <2>16, <2>17 DEF Flow
  <2> QED
    BY <2>9, <2>18 DEF Keeps, Flows, HInv, HeldOnce
<1> QED
  BY <1>1, <1>2

\* A close, whoever waits.
LEMMA CloseFlow ==
    ASSUME Inv, Inv', WakeInv, HInv, NEW t \in Task, NEW c \in Closing, Close(t, c)
    PROVE  Keeps
<1>1. /\ c \in Chan /\ got' = got /\ ops' = [ops EXCEPT ![t] = @ + 1]
      /\ CloseReceivers(c) \/ CloseOwnSender(c)
  BY TaskAssumption DEF Close, BeginOp
<1>2. \A u \in Task : ops'[u] >= ops[u]
  BY <1>1, TaskAssumption DEF Inv, TypeOK
<1> QED
  BY <1>1, <1>2, CloseReceiversFlow, CloseOwnSenderFlow

\* Every step moves a value at most, and sends one at most.
LEMMA FlowNext ==
    ASSUME Inv, Inv', WakeInv, HInv, [Next]_vars
    PROVE  Keeps
<1>1. CASE UNCHANGED vars \/ \E t \in EvalTask : Eval(t)
  BY <1>1, ControlFlow
<1>2. CASE SchedulerStep
  BY <1>2, SchedulerYieldFlow, ResumeFlow DEF SchedulerStep
<1>3. ASSUME NEW t \in Task, TaskStep(t)
      PROVE  Keeps
  <2>1. CASE Return(t) \/ Panic(t) \/ \E u \in Task : Spawn(t, u)
    BY <2>1, ControlFlow
  <2>2. ASSUME NEW s \in Stmt,
               \/ SelectReady(t, s) \/ SelectDefault(t, s)
               \/ SelectBlock(t, s) \/ SelectForever(t, s)
        PROVE  Keeps
    <3>1. CASE SelectDefault(t, s)
      BY <3>1, ControlFlow
    <3> QED
      BY <2>2, <3>1, SelectReadyFlow, SelectBlockFlow, SelectForeverFlow
  <2>3. CASE \E c \in Closing : Close(t, c)
    BY <2>3, CloseFlow
  <2> QED
    BY <1>3, <2>1, <2>2, <2>3 DEF TaskStep, SelectStep
<1> QED
  BY <1>1, <1>2, <1>3 DEF Next

\* A value that was sent is not sent again, and one that reaches a place was
\* at another or was not sent before.
DeliveredOnce ==
    [][\A m \in Message :
          /\ ~Pending(m) => ~Pending(m)'
          /\ \A p \in Place : m \in Held(p)' => Reaches(m, p)]_vars

\* Nothing is anywhere at the start.
LEMMA HeldInit == Init => HInv
<1> SUFFICES ASSUME Init PROVE HInv
  OBVIOUS
<1>1. DOMAIN got = Task
  BY DEF Init
<1>2. \A c \in Chan : buf[c] = <<>>
  BY DEF Init
<1>3. \A c \in Chan : InBuffer(c) = {} /\ Distinct(buf[c])
  BY <1>2 DEF InBuffer, Distinct
<1>4. \A t \in Task : InSelect(t) = {} /\ InOutcome(t) = {}
  BY DEF Init, InSelect, InOutcome
<1>5. ASSUME NEW p \in Place PROVE Held(p) = {}
  BY <1>3, <1>4, PlaceCases
<1> QED
  BY <1>1, <1>3, <1>5 DEF HInv, HeldOnce, HeldIsSent

\* Every step keeps the third invariant, and brings back nothing.
LEMMA HeldNext ==
    ASSUME Inv, WakeInv, HInv, [Next]_vars
    PROVE  /\ HInv'
           /\ \A m \in Message : Pending(m)' => Pending(m)
           /\ \A p \in Place : \A m \in Held(p)' : Reaches(m, p)
<1>1. Inv' /\ Keeps
  BY InvNext, FlowNext
<1>2. PICK g, x, h, y, k : Flow(g, x, h, y, k)
  BY <1>1 DEF Keeps, Flows
<1>3. /\ \A p, q \in Place : p # q => Held(p)' \cap Held(q)' = {}
      /\ HeldIsSent'
      /\ \A p \in Place : \A m \in Held(p)' : Reaches(m, p)
  BY <1>1, <1>2, FlowKeeps
<1>4. \A m \in Message : Pending(m)' => Pending(m)
  BY <1>2 DEF Flow
<1>5. HeldOnce'
  BY <1>1, <1>3 DEF HeldOnce, Keeps, Place
<1> QED
  BY <1>1, <1>3, <1>4, <1>5 DEF HInv, Keeps

\* No value is in two places, or twice in a buffer, whatever is closed, times
\* out or panics: altcopy moves a value and never copies it, and what altexec
\* hands over leaves the queues with all the alts of its select
\* (chan.lua:348-420).
THEOREM ValuesHeldOnce == Spec => []HeldOnce
<1>1. Inv /\ WakeInv /\ HInv /\ [Next]_vars => (Inv /\ WakeInv /\ HInv)'
  BY FullNext, HeldNext
<1>2. HInv => HeldOnce
  BY DEF HInv
<1> QED
  BY <1>1, <1>2, FullInit, HeldInit, PTL DEF Spec

\* No value is handed over twice: what was sent is not sent again, what Go code
\* received stays with it, and what was lost does not come back.
THEOREM ValuesDeliveredOnce == Spec => DeliveredOnce
<1>1. Inv /\ WakeInv /\ HInv /\ [Next]_vars => (Inv /\ WakeInv /\ HInv)'
  BY FullNext, HeldNext
<1>2. Inv /\ WakeInv /\ HInv /\ [Next]_vars =>
        [\A m \in Message :
          /\ ~Pending(m) => ~Pending(m)'
          /\ \A p \in Place : m \in Held(p)' => Reaches(m, p)]_vars
  BY HeldNext
<1> QED
  BY <1>1, <1>2, FullInit, HeldInit, PTL DEF Spec, DeliveredOnce
=============================================================================
