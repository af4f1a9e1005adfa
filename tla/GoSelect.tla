------------------------------ MODULE GoSelect ------------------------------
(***************************************************************************)
(* What goroutines, channels and select statements promise a Go program,   *)
(* before any channel is closed: a goroutine either runs or waits on a set *)
(* of offers (the communication cases of one select statement), and one    *)
(* communication completes exactly one case of each party.                 *)
(*                                                                         *)
(* There is no scheduler here, no queue of waiting cases and no list of    *)
(* runnable tasks: who is waiting where follows from wait.                 *)
(***************************************************************************)
EXTENDS Integers, Sequences

CONSTANTS Task,          \* the goroutines
          Chan,          \* the channels
          Size,          \* [Chan -> Nat], the capacity of each channel
          Offers,        \* the sets of offers a select statement may make
          RECV, SEND,    \* the two directions
          Nil,           \* the outcome's value for a send
          NoOutcome      \* no select completed yet

VARIABLES buf,   \* [Chan -> Seq(value)], the buffered values, oldest first
          wait,  \* [Task -> offers of the select the goroutine waits in]
          got    \* [Task -> the outcome of its latest select]

selectVars == <<buf, wait, got>>

\* An offer is a record [c, op, val]; val is what a SEND offers.
Outcome(o, v) == [c |-> o.c, op |-> o.op, value |-> v]

\* The parties waiting in direction op on channel c.
Waiting(c, op) == {w \in Task \X UNION {wait[t] : t \in Task} :
                     w[2] \in wait[w[1]] /\ w[2].c = c /\ w[2].op = op}

Ready(o) ==
    IF Size[o.c] = 0
    THEN Waiting(o.c, IF o.op = SEND THEN RECV ELSE SEND) # {}
    ELSE IF o.op = SEND THEN Len(buf[o.c]) < Size[o.c] ELSE buf[o.c] # <<>>

\* A value passes from a sender to a receiver that waits for it.
SendToWaiting(t, o) ==
    \E w \in Waiting(o.c, RECV) :
        /\ buf[o.c] = <<>>
        /\ wait' = [wait EXCEPT ![w[1]] = {}]
        /\ got' = [got EXCEPT ![t] = Outcome(o, Nil),
                              ![w[1]] = Outcome(w[2], o.val)]
        /\ UNCHANGED buf

SendToBuffer(t, o) ==
    /\ Waiting(o.c, RECV) = {}
    /\ Len(buf[o.c]) < Size[o.c]
    /\ buf' = [buf EXCEPT ![o.c] = Append(@, o.val)]
    /\ got' = [got EXCEPT ![t] = Outcome(o, Nil)]
    /\ UNCHANGED wait

\* Unbuffered: the value comes from a sender that waits.
RecvFromWaiting(t, o) ==
    /\ Size[o.c] = 0
    /\ \E w \in Waiting(o.c, SEND) :
        /\ wait' = [wait EXCEPT ![w[1]] = {}]
        /\ got' = [got EXCEPT ![t] = Outcome(o, w[2].val),
                              ![w[1]] = Outcome(w[2], Nil)]
        /\ UNCHANGED buf

\* Buffered: the oldest value, and a sender that waited for room moves up.
RecvFromBuffer(t, o) ==
    /\ buf[o.c] # <<>>
    /\ \/ /\ Waiting(o.c, SEND) = {}
          /\ buf' = [buf EXCEPT ![o.c] = Tail(@)]
          /\ got' = [got EXCEPT ![t] = Outcome(o, Head(buf[o.c]))]
          /\ UNCHANGED wait
       \/ \E w \in Waiting(o.c, SEND) :
          /\ buf' = [buf EXCEPT ![o.c] = Append(Tail(@), w[2].val)]
          /\ got' = [got EXCEPT ![t] = Outcome(o, Head(buf[o.c])),
                                ![w[1]] = Outcome(w[2], Nil)]
          /\ wait' = [wait EXCEPT ![w[1]] = {}]

Complete(t, o) ==
    \/ o.op = SEND /\ (SendToWaiting(t, o) \/ SendToBuffer(t, o))
    \/ o.op = RECV /\ (RecvFromWaiting(t, o) \/ RecvFromBuffer(t, o))

\* A goroutine that does not wait executes a select statement.
Select(t, O) ==
    /\ wait[t] = {}
    /\ \/ \E o \in O : Complete(t, o)
       \/ /\ \A o \in O : ~Ready(o)
          /\ wait' = [wait EXCEPT ![t] = O]
          /\ UNCHANGED <<buf, got>>

SelectInit ==
    /\ buf = [c \in Chan |-> <<>>]
    /\ wait = [t \in Task |-> {}]
    /\ got = [t \in Task |-> NoOutcome]

SelectNext == \E t \in Task, O \in Offers : Select(t, O)

SelectSpec == SelectInit /\ [][SelectNext]_selectVars
=============================================================================
