-------------------------------- MODULE Task --------------------------------
(***************************************************************************)
(* Goroutines, channels and select of the gijit runtime                    *)
(* (pkg/compiler/prelude/chan.lua, __eval of prelude/tsys.lua).            *)
(*                                                                         *)
(* Everything runs in one Lua state. A goroutine is a coroutine; so is the *)
(* scheduler, and so is every piece of code the REPL evaluates. Exactly    *)
(* one of them has control at a time and keeps it until it yields, ends or *)
(* fails: a step below is what one of them does between two points where   *)
(* another step could be observed.                                         *)
(*                                                                         *)
(* A blocked select statement leaves an "alt" per case with the channels   *)
(* it names. The channel's two Sets of alts are the subsets of queued with *)
(* that channel and that direction.                                        *)
(***************************************************************************)
EXTENDS Integers, Sequences, FiniteSets

CONSTANTS
    Task,       \* coroutines for Go code, one for each go statement and eval
    EvalTask,   \* those that __eval creates; the others come from go statements
    Chan,       \* channels
    Size,       \* [Chan -> Nat], CircularBuffer sizes
    Stmt,       \* the select statements the Go code may execute
    Closing,    \* the channels the Go code may close
    Panicking,  \* the goroutines that may end with an uncaught panic
    MaxOps,     \* bound: select and close statements executed per coroutine
    RECV, SEND, \* the op field of an alt
    Nil, TIMEOUT, NoOutcome, NoSel, NoAlt

\* A case of a select statement. "to" is TRUE for a receive with a timeout.
Case == [c : Chan, op : {RECV, SEND}, to : BOOLEAN]

ASSUME TaskAssumption ==
    /\ EvalTask \subseteq Task
    /\ Panicking \subseteq Task \ EvalTask
    /\ Closing \subseteq Chan
    /\ Size \in [Chan -> Nat]
    /\ MaxOps \in Nat

\* Only recv(to) of the Channel object sets a timeout: it is the one case of
\* its alt_array, and it is a receive.
ASSUME StmtAssumption ==
    \A s \in Stmt :
        /\ s \in [cases : Seq(Case), default : BOOLEAN]
        /\ \A i \in DOMAIN s.cases :
              s.cases[i].to => /\ Len(s.cases) = 1
                               /\ s.cases[i].op = RECV
                               /\ ~s.default

Message == Task \X (1 .. MaxOps) \X Nat
Selection == [stmt : Stmt, resolved : Nat, parked : BOOLEAN,
              value : Message \cup {Nil, TIMEOUT}]

\* An alt; (task, n) identifies the alt_array it belongs to and i its place
\* there. Alts are built anew for every select, so none is ever re-used.
Alt == {a \in [task : Task, n : 1 .. MaxOps, i : Nat, c : Chan,
               op : {RECV, SEND}, to : BOOLEAN, closed : BOOLEAN] :
           a.to => a.op = RECV}

\* What select returns to the Go code.
Result == [c : Chan, op : {RECV, SEND}, value : Message \cup {Nil, TIMEOUT}, ok : {TRUE}]

ASSUME DistinctAssumption ==
    /\ RECV # SEND
    /\ NoSel \notin Selection /\ NoAlt \notin Alt /\ NoOutcome \notin Result
    /\ Nil \notin Message /\ TIMEOUT \notin Message

VARIABLES
    sched,   \* coroutine.status(scheduler_co): suspended (the REPL has
             \* control), running, normal (a Task has control) or dead
    status,  \* [Task -> status of the coroutine; "none" before it is created]
    ready,   \* [Task -> number of occurrences in tasks_runnable]
    timer,   \* the coroutines with an entry in tasks_to
    ops,     \* [Task -> number of select and close statements begun]
    sel,     \* [Task -> the alt_array the coroutine blocks in, or NoSel]
    queued,  \* the alts in the _recv_alts and _send_alts of all channels
    buf,     \* [Chan -> contents of the CircularBuffer, oldest first]
    got,     \* [Task -> result of its latest select, as the Go code sees it]
    closed   \* history: the channels close was called on; the code forgets it

vars == <<sched, status, ready, timer, ops, sel, queued, buf, got, closed>>
-----------------------------------------------------------------------------
AltsOf(t, n, s) ==
    {[task |-> t, n |-> n, i |-> i, c |-> s.cases[i].c, op |-> s.cases[i].op,
      to |-> s.cases[i].to, closed |-> FALSE] : i \in DOMAIN s.cases}

\* The value p of a send: who sends it, in which select, in which case.
Payload(a) == <<a.task, a.n, a.i>>

GetAlts(c, op) == {a \in queued : a.c = c /\ a.op = op}

GetOtherAlts(c, op) == GetAlts(c, IF op = SEND THEN RECV ELSE SEND)

\* Is a an alt of the select its coroutine is blocked in now?
IsCurrent(a) == sel[a.task] # NoSel /\ a.n = ops[a.task]

\* Defect: room in a buffer that is full.
CanExec_AtCapacity(a) ==
    IF Size[a.c] = 0 THEN GetOtherAlts(a.c, a.op) # {}
    ELSE IF a.op = SEND THEN Len(buf[a.c]) <= Size[a.c]
    ELSE Len(buf[a.c]) > 0

\* altcanexec: can this alt be executed without blocking?
CanExec(a) ==
    IF Size[a.c] = 0 THEN GetOtherAlts(a.c, a.op) # {}
    ELSE IF a.op = SEND THEN Len(buf[a.c]) < Size[a.c]
    ELSE Len(buf[a.c]) > 0

\* other_alts:random(a.to): any of them, but with a timeout only one that has
\* a timeout itself; nil when there is none.
Partners(a) ==
    LET others == {o \in GetOtherAlts(a.c, a.op) : a.to => o.to}
    IN  IF others = {} THEN {NoAlt} ELSE others

\* Defect: a receive from a full buffer forgets the sender it makes room for.
Copy_LosesSender(r, s, c) ==
    IF r # NoAlt /\ s # NoAlt /\ buf[c] = <<>>
    THEN [value |-> Payload(s), buf |-> buf[c]]
    ELSE IF r # NoAlt
    THEN [value |-> IF buf[c] = <<>> THEN Nil ELSE Head(buf[c]),
          buf |-> IF buf[c] = <<>> THEN <<>> ELSE Tail(buf[c])]
    ELSE [value |-> Nil, buf |-> Append(buf[c], Payload(s))]

\* altcopy for a receiving alt r and a sending alt s of channel c, either of
\* which may be NoAlt: what r's alt_array gets as value and what the buffer
\* becomes. (Its result, true for a timeout or a close, makes the receiver's
\* own task ready: see Expire and CloseReceivers. When a running task executes
\* a case the task field of its alt_array is not set yet and nothing happens.)
Copy(r, s, c) ==
    IF r # NoAlt /\ s # NoAlt /\ buf[c] = <<>>
    THEN [value |-> Payload(s), buf |-> buf[c]]
    ELSE IF r # NoAlt /\ r.to THEN [value |-> TIMEOUT, buf |-> buf[c]]
    ELSE IF r # NoAlt /\ r.closed THEN [value |-> Nil, buf |-> buf[c]]
    ELSE LET popped == IF r = NoAlt THEN buf[c] ELSE Tail(buf[c])
         IN  [value |-> IF r = NoAlt THEN Nil ELSE Head(buf[c]),
              buf |-> IF s = NoAlt THEN popped ELSE Append(popped, Payload(s))]

CopyFor(a, o) == IF a.op = RECV THEN Copy(a, o, a.c) ELSE Copy(o, a, a.c)

\* Defects: only the case that was chosen leaves its queue; alts of an earlier
\* select are taken for those of the present one.
Dequeue_OneAlt(a) == queued' = queued \ {a}
Dequeue_ByTask(a) == queued' = {x \in queued : x.task # a.task}

\* altalldequeue of the alt_array that a belongs to.
Dequeue(a) == queued' = {x \in queued : ~(x.task = a.task /\ x.n = a.n)}

MakeReady(t) == ready' = [ready EXCEPT ![t] = @ + 1]

\* Defect: the first case is taken for the one that was chosen.
Wake_FirstCase(o, value) ==
    /\ Dequeue(o)
    /\ MakeReady(o.task)
    /\ sel' = IF IsCurrent(o)
              THEN [sel EXCEPT ![o.task].resolved = 1, ![o.task].value = value]
              ELSE sel

\* The rest of altexec for the partner o that was found in a queue: take its
\* alts out of the channels, record the case that was chosen, make it ready.
Wake(o, value) ==
    /\ Dequeue(o)
    /\ MakeReady(o.task)
    /\ sel' = IF IsCurrent(o)
              THEN [sel EXCEPT ![o.task].resolved = o.i,
                               ![o.task].value = IF o.op = RECV THEN value ELSE @]
              ELSE sel

\* What select returns for case i of statement s: alt_array.closed is never
\* set (close sets it on the alt), so the ok flag is always true.
Outcome(s, i, value) ==
    [c |-> s.cases[i].c, op |-> s.cases[i].op, value |-> value, ok |-> TRUE]
-----------------------------------------------------------------------------
Init ==
    /\ sched = "suspended"
    /\ status = [t \in Task |-> "none"]
    /\ ready = [t \in Task |-> 0]
    /\ timer = {}
    /\ ops = [t \in Task |-> 0]
    /\ sel = [t \in Task |-> NoSel]
    /\ queued = {}
    /\ buf = [c \in Chan |-> <<>>]
    /\ got = [t \in Task |-> NoOutcome]
    /\ closed = {}

HasControl(t) == status[t] = "running"

\* Control goes from t back to the scheduler that resumed it.
YieldAs(t, s) ==
    /\ status' = [status EXCEPT ![t] = s]
    /\ sched' = "running"

(* ----------------------------- the REPL -------------------------------- *)

\* __eval: a new coroutine for the code, made ready, then the scheduler is
\* resumed. Resuming a dead scheduler fails; __eval's pcall hides the error
\* and the coroutine stays in tasks_runnable.
Eval(t) ==
    /\ sched \in {"suspended", "dead"}
    /\ t \in EvalTask
    /\ status[t] = "none"
    /\ status' = [status EXCEPT ![t] = "suspended"]
    /\ MakeReady(t)
    /\ sched' = IF sched = "dead" THEN "dead" ELSE "running"
    /\ UNCHANGED <<timer, ops, sel, queued, buf, got, closed>>

(* --------------------------- the scheduler ----------------------------- *)

\* Defect: resuming one task drops the timeouts of all.
PickTask_AllTimers(t) ==
    /\ sched = "running"
    /\ ready[t] > 0
    /\ ready' = [ready EXCEPT ![t] = @ - 1]
    /\ timer' = {}

\* A random runnable task is taken from the list and its timeout dropped.
PickTask(t) ==
    /\ sched = "running"
    /\ ready[t] > 0
    /\ ready' = [ready EXCEPT ![t] = @ - 1]
    /\ timer' = timer \ {t}

\* It starts its Go code, or returns from the select it was blocked in.
Resume(t) ==
    /\ PickTask(t)
    /\ status[t] = "suspended"
    /\ \/ /\ sel[t] = NoSel
          /\ UNCHANGED <<sel, got>>
       \/ /\ sel[t] # NoSel
          /\ sel[t].resolved > 0
          /\ got' = [got EXCEPT ![t] =
                        Outcome(sel[t].stmt, sel[t].resolved, sel[t].value)]
          /\ sel' = [sel EXCEPT ![t] = NoSel]
    /\ status' = [status EXCEPT ![t] = "running"]
    /\ sched' = "normal"
    /\ UNCHANGED <<ops, queued, buf, closed>>

\* It is a coroutine parked by select{}: it falls through to the yield of an
\* ordinary select that has no case to wait for.
ResumeParked(t) ==
    /\ PickTask(t)
    /\ status[t] = "suspended"
    /\ sel[t] # NoSel
    /\ sel[t].parked
    /\ sel' = [sel EXCEPT ![t].parked = FALSE]
    /\ UNCHANGED <<sched, status, ops, queued, buf, got, closed>>

\* It was not resolved: "assert(alt_array.resolved > 0)" compares with nil.
\* The error ends the coroutine. Code under __eval has its xpcall around it;
\* a goroutine's error is raised again by the scheduler, which dies of it.
ResumeUnresolved(t) ==
    /\ PickTask(t)
    /\ status[t] = "suspended"
    /\ sel[t] # NoSel
    /\ sel[t].resolved = 0
    /\ ~sel[t].parked
    /\ status' = [status EXCEPT ![t] = "dead"]
    /\ sched' = IF t \in EvalTask THEN "running" ELSE "dead"
    /\ sel' = [sel EXCEPT ![t] = NoSel]
    /\ UNCHANGED <<ops, queued, buf, got, closed>>

\* It has ended: coroutine.resume fails and the scheduler dies.
ResumeDead(t) ==
    /\ PickTask(t)
    /\ status[t] = "dead"
    /\ sched' = "dead"
    /\ UNCHANGED <<status, ops, sel, queued, buf, got, closed>>

\* Defect: a receive that timed out stays in its channel's queue.
Expire_LeavesAlt(X) ==
    /\ sel' = [t \in Task |-> IF t \in X
                              THEN [sel[t] EXCEPT !.resolved = 1, !.value = TIMEOUT]
                              ELSE sel[t]]
    /\ ready' = [t \in Task |-> ready[t] + IF t \in X THEN 1 ELSE 0]
    /\ timer' = timer \ X
    /\ UNCHANGED queued

\* Nothing is runnable: every timed receive whose time has come (any of them)
\* is resolved with TIMEOUT and made ready, to run when the scheduler is
\* resumed next; then the scheduler yields to the REPL.
Expire(X) ==
    /\ sel' = [t \in Task |-> IF t \in X
                              THEN [sel[t] EXCEPT !.resolved = 1, !.value = TIMEOUT]
                              ELSE sel[t]]
    /\ ready' = [t \in Task |-> ready[t] + IF t \in X THEN 1 ELSE 0]
    /\ queued' = {a \in queued : ~(a.task \in X /\ IsCurrent(a))}
    /\ timer' = timer \ X

\* Defects: the scheduler yields although a task is runnable; it goes on
\* waiting as long as a timeout is pending.
SchedulerYield_Early ==
    /\ sched = "running"
    /\ \E X \in SUBSET timer : Expire(X)
    /\ sched' = "suspended"
    /\ UNCHANGED <<status, ops, buf, got, closed>>
SchedulerYield_WaitsForTimers ==
    /\ sched = "running"
    /\ timer = {}
    /\ \A t \in Task : ready[t] = 0
    /\ sched' = "suspended"
    /\ UNCHANGED <<status, ready, timer, ops, sel, queued, buf, got, closed>>

SchedulerYield ==
    /\ sched = "running"
    /\ \A t \in Task : ready[t] = 0
    /\ \E X \in SUBSET timer : Expire(X)
    /\ sched' = "suspended"
    /\ UNCHANGED <<status, ops, buf, got, closed>>

(* ----------------------------- Go code --------------------------------- *)

\* A go statement: the new goroutine is ready, its creator keeps control.
Spawn(t, u) ==
    /\ HasControl(t)
    /\ u \in Task \ EvalTask
    /\ status[u] = "none"
    /\ status' = [status EXCEPT ![u] = "suspended"]
    /\ MakeReady(u)
    /\ UNCHANGED <<sched, timer, ops, sel, queued, buf, got, closed>>

\* The Go code returns. Evaluated code that panics ends the same way.
Return(t) ==
    /\ HasControl(t)
    /\ YieldAs(t, "dead")
    /\ UNCHANGED <<ready, timer, ops, sel, queued, buf, got, closed>>

\* A panic that no defer recovers leaves spawn's pcall, and the scheduler
\* raises it again: the scheduler's coroutine is dead for good.
Panic(t) ==
    /\ HasControl(t)
    /\ t \in Panicking
    /\ status' = [status EXCEPT ![t] = "dead"]
    /\ sched' = "dead"
    /\ UNCHANGED <<ready, timer, ops, sel, queued, buf, got, closed>>

BeginOp(t) ==
    /\ HasControl(t)
    /\ ops[t] < MaxOps
    /\ ops' = [ops EXCEPT ![t] = @ + 1]

\* altexec of case a of the select statement s that t executes: a partner o
\* out of the other queue if there is one; t goes on.
ExecCase(t, s, a) ==
    /\ CanExec(a)
    /\ \E o \in Partners(a) :
        LET copy == CopyFor(a, o)
        IN  /\ buf' = [buf EXCEPT ![a.c] = copy.buf]
            /\ got' = [got EXCEPT ![t] =
                  Outcome(s, a.i, IF a.op = RECV THEN copy.value ELSE Nil)]
            /\ IF o = NoAlt THEN UNCHANGED <<sel, queued, ready>>
               ELSE Wake(o, copy.value)
    /\ UNCHANGED <<sched, status, timer, closed>>

SelectReady(t, s) ==
    /\ BeginOp(t)
    /\ \E a \in AltsOf(t, ops[t] + 1, s) : ExecCase(t, s, a)

NoneReady(t, s) == \A a \in AltsOf(t, ops[t] + 1, s) : ~CanExec(a)

SelectDefault(t, s) ==
    /\ BeginOp(t)
    /\ s.default
    /\ NoneReady(t, s)
    /\ UNCHANGED <<sched, status, ready, timer, sel, queued, buf, got, closed>>

\* No case can be executed and there is no default: the alts are put into
\* the queues, and the coroutine yields. The second parameter that
\* nbsend and nbrecv pass (can_block) is dropped: they are send and recv.
SelectBlock(t, s) ==
    /\ BeginOp(t)
    /\ ~s.default
    /\ s.cases # <<>>
    /\ NoneReady(t, s)
    /\ queued' = queued \cup AltsOf(t, ops[t] + 1, s)
    /\ timer' = IF \E i \in DOMAIN s.cases : s.cases[i].to
                THEN timer \cup {t} ELSE timer
    /\ sel' = [sel EXCEPT ![t] =
                  [stmt |-> s, resolved |-> 0, value |-> Nil, parked |-> FALSE]]
    /\ YieldAs(t, "suspended")
    /\ UNCHANGED <<ready, buf, got, closed>>

\* select{}: the coroutine takes itself off the runnable list and yields.
SelectForever(t, s) ==
    /\ BeginOp(t)
    /\ s.cases = <<>> /\ ~s.default
    /\ ready' = [ready EXCEPT ![t] = 0]
    /\ sel' = [sel EXCEPT ![t] =
                  [stmt |-> s, resolved |-> 0, value |-> Nil, parked |-> TRUE]]
    /\ YieldAs(t, "suspended")
    /\ UNCHANGED <<timer, queued, buf, got, closed>>

\* Defect: only one of the receivers that are told is made ready.
MakeAllReady_OnlyOne(rs) ==
    IF rs = {} THEN UNCHANGED ready ELSE \E r \in rs : MakeReady(r.task)

\* The coroutine of each of the alts in rs is made ready, once per alt.
MakeAllReady(rs) ==
    ready' = [u \in Task |-> ready[u] + Cardinality({r \in rs : r.task = u})]

\* close(c) with nobody waiting to send on c: each waiting receiver is told
\* and made ready, with the first case of its select as the one that was
\* chosen; nobody is taken out of the queues.
CloseReceivers(c) ==
    LET rs == GetAlts(c, RECV)
        told == {r.task : r \in {a \in rs : IsCurrent(a)}}
    IN  /\ GetAlts(c, SEND) = {}
        /\ queued' = (queued \ rs) \cup {[r EXCEPT !.closed = TRUE] : r \in rs}
        /\ MakeAllReady(rs)
        /\ sel' = [u \in Task |->
                      IF u \in told
                      THEN [sel[u] EXCEPT !.resolved = 1,
                              !.value = IF u \in timer THEN TIMEOUT ELSE Nil]
                      ELSE sel[u]]
        /\ UNCHANGED buf

\* close(c) with senders waiting on c: altexec finds one of them for the
\* receiver. Both wait only when they are cases of one select
\* (NoMissedRendezvous), which is resolved with its own sending case, and
\* leaves the queues with all its alts.
CloseOwnSender(c) ==
    /\ GetAlts(c, SEND) # {}
    /\ IF GetAlts(c, RECV) = {} THEN UNCHANGED <<queued, ready, sel, buf>>
       ELSE \E r \in GetAlts(c, RECV), s \in GetAlts(c, SEND) :
              LET copy == Copy([r EXCEPT !.closed = TRUE], s, c)
              IN  /\ Dequeue(s)
                  /\ MakeReady(s.task)
                  /\ buf' = [buf EXCEPT ![c] = copy.buf]
                  /\ sel' = IF IsCurrent(s)
                            THEN [sel EXCEPT ![s.task].resolved = s.i,
                                             ![s.task].value = copy.value]
                            ELSE sel

Close(t, c) ==
    /\ BeginOp(t)
    /\ c \in Closing
    /\ CloseReceivers(c) \/ CloseOwnSender(c)
    /\ closed' = closed \cup {c}
    /\ UNCHANGED <<sched, status, timer, got>>

SchedulerStep ==
    \/ SchedulerYield
    \/ \E t \in Task :
        Resume(t) \/ ResumeParked(t) \/ ResumeUnresolved(t) \/ ResumeDead(t)

SelectStep(t) ==
    \E s \in Stmt : \/ SelectReady(t, s) \/ SelectDefault(t, s)
                    \/ SelectBlock(t, s) \/ SelectForever(t, s)

TaskStep(t) ==
    \/ Return(t) \/ Panic(t) \/ SelectStep(t)
    \/ \E u \in Task : Spawn(t, u)
    \/ \E c \in Closing : Close(t, c)

Next ==
    \/ \E t \in EvalTask : Eval(t)
    \/ SchedulerStep
    \/ \E t \in Task : TaskStep(t)

Spec == Init /\ [][Next]_vars
-----------------------------------------------------------------------------
\* Control is in one place: a Go coroutine is running exactly when the
\* scheduler that resumed it is normal.
OneInControl ==
    /\ sched = "normal" <=> \E t \in Task : HasControl(t)
    /\ \A t, u \in Task : HasControl(t) /\ HasControl(u) => t = u

\* The shape of the state: one coroutine is in control, no channel holds more
\* than its capacity, and only a coroutine inside a select has a timeout.
TypeOK ==
    /\ sched \in {"suspended", "running", "normal", "dead"}
    /\ status \in [Task -> {"none", "suspended", "running", "dead"}]
    /\ ready \in [Task -> Nat]
    /\ timer \subseteq {t \in Task : sel[t] # NoSel}
    /\ ops \in [Task -> 0 .. MaxOps]
    /\ sel \in [Task -> Selection \cup {NoSel}]
    /\ queued \subseteq Alt
    /\ buf \in [Chan -> Seq(Message)]
    /\ \A c \in Chan : Len(buf[c]) <= Size[c]
    /\ closed \subseteq Closing
    /\ OneInControl

Blocked(t) == sel[t] # NoSel /\ sel[t].resolved = 0 /\ ~sel[t].parked

\* Nobody waits for what is there: a goroutine waits to receive only on an
\* empty channel and to send only on a full one, and a sender and a receiver
\* wait on one channel only when one select statement offers both
\* (select_inner, chan.lua:507-584: altcanexec is asked before the alts are
\* queued, and every later step re-establishes it).
NoMissedRendezvous ==
    /\ \A a \in queued : a.op = RECV => buf[a.c] = <<>>
    /\ \A a \in queued : a.op = SEND => Len(buf[a.c]) = Size[a.c]
    /\ \A a, o \in queued :
          a.c = o.c /\ a.op # o.op => a.task = o.task /\ a.n = o.n

\* A goroutine that waits is queued at every channel of its select
\* (chan.lua:579-584; altalldequeue takes an alt_array out as a whole).
AllAltsQueued ==
    \A t \in Task : Blocked(t) => AltsOf(t, ops[t], sel[t].stmt) \subseteq queued

\* Once a select has been resolved nothing of it is left in any queue: every
\* queued alt belongs to a select that waits (altalldequeue, chan.lua:391).
NoStaleAlts == \A a \in queued : IsCurrent(a) /\ Blocked(a.task)

\* A coroutine is runnable if and only if it was never run or its select has
\* been resolved, and it is in tasks_runnable once: the assertion
\* "alt_array.resolved > 0" (chan.lua:596) never fails, no wake-up is lost and
\* no ended coroutine is resumed.
ReadyIsResolved ==
    \A t \in Task :
        ready[t] = IF /\ status[t] = "suspended"
                      /\ sel[t] = NoSel \/ sel[t].resolved > 0
                   THEN 1 ELSE 0

\* Only close breaks the two: whatever panics and times out, the queues and
\* tasks_runnable are as they should be until the first channel is closed
\* (Channel.close, chan.lua:642, is the one caller that does not dequeue).
IntactUntilClosed == closed = {} => NoStaleAlts /\ ReadyIsResolved

\* A select that was resolved is going to be resumed, whatever was closed.
NoLostWakeup ==
    \A t \in Task : sel[t] # NoSel /\ sel[t].resolved > 0 => ready[t] > 0

\* A receive with a timeout that waits has its timeout armed: dropping the
\* tasks_to entry at every resume (chan.lua:261) and registering one only
\* where there is none (chan.lua:536) never leaves a waiting one without.
TimerArmed ==
    \A t \in Task :
        Blocked(t) /\ (\E i \in DOMAIN sel[t].stmt.cases : sel[t].stmt.cases[i].to)
            => t \in timer

\* When the scheduler hands control back to the REPL, the code it evaluated has
\* run, to its end or to a select it waits in (__eval, tsys.lua:3313-3339).
EvalHasRun ==
    sched = "suspended" =>
        \A t \in EvalTask : status[t] = "suspended" => sel[t] # NoSel

\* A select that has been resolved keeps its case and its value until its
\* goroutine has seen them (altexec resolves only selects that still wait).
ResolvedOnce ==
    [][\A t \in Task : sel[t] # NoSel /\ sel[t].resolved > 0
                         => sel'[t] \in {sel[t], NoSel}]_vars

-----------------------------------------------------------------------------
\* Fairness. Lua runs the scheduler and the coroutine that has control until
\* they are done; each of them takes the next step it can. Nothing makes the
\* user of the REPL evaluate more code.
Fairness == WF_vars(SchedulerStep) /\ \A t \in Task : WF_vars(TaskStep(t))

FairSpec == Spec /\ Fairness

\* While the scheduler is alive and has work, a goroutine whose select was
\* resolved gets to run, whichever task the random choice prefers. (One whose
\* timeout expired when nothing was runnable waits for the next evaluation.)
WokenRuns ==
    \A t \in Task :
        (sel[t] # NoSel /\ sel[t].resolved > 0 /\ sched \in {"running", "normal"})
            ~> (sel[t] = NoSel \/ sched = "dead")

\* The REPL gets control back from every evaluation, however many goroutines
\* are left waiting: for good, for each other or for a timeout.
EvalReturns ==
    (sched \in {"running", "normal"}) ~> (sched \in {"suspended", "dead"})

-----------------------------------------------------------------------------
\* Refinement mapping to GoSelect: who waits for what is read off the blocked
\* selects, not off the queues, and a select counts as complete from the
\* moment it is resolved.
OffersOf(t, n, s) ==
    {[c |-> a.c, op |-> a.op, val |-> Payload(a)] : a \in AltsOf(t, n, s)}

WaitsFor ==
    [t \in Task |-> IF Blocked(t) THEN OffersOf(t, ops[t], sel[t].stmt) ELSE {}]

Received ==
    LET seen(o) == IF o = NoOutcome THEN o
                   ELSE [c |-> o.c, op |-> o.op, value |-> o.value]
    IN  [t \in Task |->
            IF sel[t] # NoSel /\ sel[t].resolved > 0
            THEN seen(Outcome(sel[t].stmt, sel[t].resolved, sel[t].value))
            ELSE seen(got[t])]

Go == INSTANCE GoSelect
        WITH wait <- WaitsFor, got <- Received,
             Offers <- {OffersOf(t, n, s) : t \in Task, n \in 1 .. MaxOps, s \in Stmt}

\* Until a channel is closed or a timeout is used, the runtime gives Go code
\* the select statement of GoSelect: one case of each party per
\* communication, no value lost, made up or handed out twice, buffered values
\* in the order they were sent, and no case taken that could not be
\* (select, altexec and altcopy, chan.lua:348-603).
RefinesGoSelect == Go!SelectSpec
=============================================================================
