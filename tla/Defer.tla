-------------------------------- MODULE Defer --------------------------------
(***************************************************************************)
(* defer, panic and recover (prelude/defer.lua). A call of a Go function   *)
(* with deferred calls is __actuallyCall: it runs the body under xpcall,   *)
(* then the deferred calls, last one first: in the error handler           *)
(* __panicHandler if the body panicked, in __processDefers if it returned. *)
(* The panic under way is the global __recoverVal, which all goroutines    *)
(* share. Functions without deferred calls leave no trace here: an error   *)
(* passes through them. Return values are left out.                        *)
(*                                                                         *)
(* LuaJIT calls no error handler while one runs: what is thrown then goes  *)
(* to the nearest xpcall at once. A call made from a deferred call of a    *)
(* call that panicked, and that panics itself, has none of its deferred    *)
(* calls run; and only panic() still notes its value, an error of the      *)
(* runtime does not. After one such error handlers are called again.       *)
(*                                                                         *)
(* Each frame also carries, as history, the panic that the call is         *)
(* unwinding with according to Go.                                         *)
(***************************************************************************)
EXTENDS Integers, Sequences

CONSTANTS Go,        \* the goroutines, the evaluated code among them
          Value,     \* what can be thrown
          Nil,       \* Lua's nil: no panic
          MaxDepth,  \* bound: no call where a goroutine has that many frames
          MaxDefers  \* bound: the deferred calls of a call

ASSUME NilAssumption == Nil \notin Value
ASSUME BoundAssumption == MaxDepth \in Nat /\ MaxDefers \in Nat

VARIABLES stack,      \* [Go -> sequence of frames], the last one on top
          recoverVal, \* the global __recoverVal
          errerr,     \* [Go -> is the status LUA_ERRERR: a handler runs, and
                      \*        nothing was thrown since it was called]
          cur,        \* the goroutine that runs
          clean       \* history: nothing that the code gets wrong has happened

vars == <<stack, recoverVal, errerr, cur, clean>>

\* A call in its body, or after it panicked or returned, with the deferred
\* calls still to run; and a deferred call that runs.
Frame == [phase : {"body", "handler", "normal"}, defers : 0 .. MaxDefers,
          panic : Value \cup {Nil}]
         \cup [phase : {"deferred"}, defers : {0}, panic : {Nil}]

\* What runs on top of a call that has left its body is a deferred call of
\* it, and deferred calls run nowhere else.
Nested(s) == \A i \in 1 .. Len(s) :
                s[i].phase = "deferred" <=> (i > 1 /\ s[i - 1].phase \in {"handler", "normal"})

TypeOK ==
    /\ stack \in [Go -> Seq(Frame)]
    /\ \A g \in Go : Nested(stack[g])
    /\ recoverVal \in Value \cup {Nil}
    /\ errerr \in [Go -> BOOLEAN]
    /\ cur \in Go
    /\ clean \in BOOLEAN

Called  == [phase |-> "body", defers |-> 0, panic |-> Nil]
Running == [phase |-> "deferred", defers |-> 0, panic |-> Nil]

Init ==
    /\ stack = [g \in Go |-> <<>>]
    /\ recoverVal = Nil
    /\ errerr = [g \in Go |-> FALSE]
    /\ cur \in Go
    /\ clean = TRUE

Empty(s) == Len(s) = 0
Top(s)   == s[Len(s)]
Under(s) == s[Len(s) - 1]
Pop(s)   == SubSeq(s, 1, Len(s) - 1)
IsTop(s, phases) == ~Empty(s) /\ Top(s).phase \in phases

\* What runs is Go code: the top level, a body or a deferred call.
InCode(s) == Empty(s) \/ IsTop(s, {"body", "deferred"})

\* The stack s once error v was thrown in the code on top: a body goes to
\* __panicHandler, or loses its deferred calls if no handler is called; a
\* deferred call ends in the xpcall around it; at the top level the code ends.
Thrown(s, v, skipped) ==
    IF Empty(s) THEN s
    ELSE IF Top(s).phase = "body"
    THEN [s EXCEPT ![Len(s)] =
            [phase |-> "handler", defers |-> IF skipped THEN 0 ELSE Top(s).defers, panic |-> v]]
    ELSE [Pop(s) EXCEPT ![Len(s) - 1] = [@ EXCEPT !.panic = v]]

\* Three ways in which the code goes wrong when an error is thrown: nothing
\* resets __recoverVal when no call recovers, __processDefers drops the panic
\* of a deferred call after a body that returned, and deferred calls are
\* skipped with the handler that would run them.
Mishandled(s, skipped) ==
    \/ Empty(s)
    \/ IsTop(s, {"deferred"}) /\ Under(s).phase = "normal"
    \/ skipped /\ IsTop(s, {"body"}) /\ Top(s).defers > 0

-----------------------------------------------------------------------------
\* A function with deferred calls is called. Called from a deferred call of
\* a call that panicked, its own deferred calls will find that panic.
Call ==
    LET s == stack[cur] IN
    /\ InCode(s)
    /\ Len(s) < MaxDepth
    /\ stack' = [stack EXCEPT ![cur] = Append(s, Called)]
    /\ clean' = (clean /\ ~(IsTop(s, {"deferred"}) /\ Under(s).panic # Nil))
    /\ UNCHANGED <<recoverVal, errerr, cur>>

\* Defect: the call is made where it is deferred.
Defer_AtOnce ==
    LET s == stack[cur] IN
    /\ IsTop(s, {"body"})
    /\ stack' = [stack EXCEPT ![cur] = Append(s, Running)]
    /\ UNCHANGED <<recoverVal, errerr, cur, clean>>

\* A defer statement.
Defer ==
    LET s == stack[cur] IN
    /\ IsTop(s, {"body"})
    /\ Top(s).defers < MaxDefers
    /\ stack' = [stack EXCEPT ![cur][Len(s)].defers = @ + 1]
    /\ UNCHANGED <<recoverVal, errerr, cur, clean>>

\* The code on top throws v. The handler of the body that it enters runs
\* until the next throw.
Throw(v) ==
    LET s == stack[cur] IN
    /\ InCode(s)
    /\ stack' = [stack EXCEPT ![cur] = Thrown(s, v, errerr[cur])]
    /\ errerr' = [errerr EXCEPT ![cur] = ~ @ /\ IsTop(s, {"body"})]
    /\ UNCHANGED cur

\* panic(v)
Panic(v) ==
    /\ Throw(v)
    /\ recoverVal' = v
    /\ clean' = (clean /\ ~ Mishandled(stack[cur], errerr[cur]))

\* An error v of the runtime: only a handler notes it.
RuntimeError(v) ==
    /\ Throw(v)
    /\ recoverVal' = IF errerr[cur] \/ Empty(stack[cur]) THEN recoverVal ELSE v
    /\ clean' = (clean /\ ~ errerr[cur] /\ ~ Mishandled(stack[cur], FALSE))

\* The body returns.
Return ==
    LET s == stack[cur] IN
    /\ IsTop(s, {"body"})
    /\ stack' = [stack EXCEPT ![cur][Len(s)].phase = "normal"]
    /\ UNCHANGED <<recoverVal, errerr, cur, clean>>

\* The next deferred call begins, and returns.
BeginDeferred ==
    LET s == stack[cur] IN
    /\ IsTop(s, {"handler", "normal"})
    /\ Top(s).defers > 0
    /\ stack' = [stack EXCEPT ![cur] =
                    Append([s EXCEPT ![Len(s)].defers = @ - 1], Running)]
    /\ UNCHANGED <<recoverVal, errerr, cur, clean>>
EndDeferred ==
    /\ IsTop(stack[cur], {"deferred"})
    /\ stack' = [stack EXCEPT ![cur] = Pop(@)]
    /\ UNCHANGED <<recoverVal, errerr, cur, clean>>

\* Defect: the panic is returned but goes on.
Recover_Keeps ==
    LET s == stack[cur] IN
    /\ IsTop(s, {"deferred"})
    /\ stack' = [stack EXCEPT ![cur][Len(s) - 1].panic = Nil]
    /\ UNCHANGED <<recoverVal, errerr, cur, clean>>

\* recover() called directly by a deferred call; elsewhere __isDirectDefer
\* has it return nil, and defer recover() translates to nothing.
Recover ==
    LET s == stack[cur] IN
    /\ IsTop(s, {"deferred"})
    /\ stack' = [stack EXCEPT ![cur][Len(s) - 1].panic = Nil]
    /\ recoverVal' = Nil
    /\ UNCHANGED <<errerr, cur, clean>>

\* Defect: __processDefers returns the named results whatever happened.
Throws_Never(f) == FALSE

\* All deferred calls have run: does __processDefers throw the panic again?
Throws(f) == f.phase = "handler" /\ recoverVal # Nil

\* The call returns to its caller, or throws to it: behind the throw that
\* ended its handler, so that handlers are called again.
Finish ==
    LET s == stack[cur] IN
    /\ IsTop(s, {"handler", "normal"})
    /\ Top(s).defers = 0
    /\ IF Throws(Top(s))
       THEN /\ stack' = [stack EXCEPT ![cur] = Thrown(Pop(s), recoverVal, FALSE)]
            /\ errerr' = [errerr EXCEPT ![cur] = IsTop(Pop(s), {"body"})]
            /\ clean' = (clean /\ ~ Mishandled(Pop(s), FALSE))
       ELSE /\ stack' = [stack EXCEPT ![cur] = Pop(s)]
            /\ errerr' = [errerr EXCEPT ![cur] = @ /\ Top(s).phase = "normal"]
            /\ UNCHANGED clean
    /\ UNCHANGED <<recoverVal, cur>>

\* Another goroutine runs: code has yielded or come to its end. Code that
\* runs inside an error handler cannot yield in LuaJIT.
Switch ==
    /\ InCode(stack[cur])
    /\ \A i \in 1 .. Len(stack[cur]) : stack[cur][i].phase # "handler"
    /\ cur' \in Go \ {cur}
    /\ UNCHANGED <<stack, recoverVal, errerr, clean>>

Next ==
    \/ Call \/ Defer \/ Return \/ BeginDeferred \/ EndDeferred \/ Recover \/ Finish
    \/ \E v \in Value : Panic(v) \/ RuntimeError(v)
    \/ Switch

Spec == Init /\ [][Next]_vars

-----------------------------------------------------------------------------
\* A deferred call that calls recover gets what Go would give it: the panic
\* of the very call that deferred it, the latest one not recovered yet, or
\* nil; never the panic of another call or goroutine, although all share
\* one variable (defer.lua:33-53).
RecoverSeesOwn ==
    clean => LET s == stack[cur] IN
             IsTop(s, {"deferred"}) => recoverVal = Under(s).panic

\* A call throws to its caller exactly when Go has it end with a panic: no
\* panic is lost or raised twice by calls between the throw and the recover
\* (defer.lua:73-163).
PanicsPropagate ==
    clean => LET s == stack[cur] IN
             IsTop(s, {"handler", "normal"}) /\ Top(s).defers = 0
                => (Throws(Top(s)) <=> Top(s).panic # Nil)

\* "call had no panic. run defers with the nil recover" (defer.lua:117), and
\* the assertion of line 132, that recoverVal is nil. It reads a global that
\* nothing sets, where __recoverVal was meant.
NilRecover == [][Return => recoverVal = Nil]_vars
=============================================================================
