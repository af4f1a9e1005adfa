---------------------------- MODULE BoundedFIFO ----------------------------
(***************************************************************************)
(* What the CircularBuffer of prelude/chan.lua promises the channel that   *)
(* owns it: a first-in first-out queue of at most Size values.             *)
(***************************************************************************)
EXTENDS Integers, Sequences

CONSTANTS Size,   \* the capacity of the buffer
          Value,  \* the values that can be stored
          Nil     \* no value, outside Value

VARIABLES q,      \* the values held, oldest first
          out     \* the value handed over by the latest operation, or Nil

fifoVars == <<q, out>>

FifoInit == q = <<>> /\ out = Nil

Enqueue(v) ==
    /\ Len(q) < Size
    /\ q' = Append(q, v)
    /\ out' = Nil

Dequeue ==
    /\ q # <<>>
    /\ out' = Head(q)
    /\ q' = Tail(q)

\* A receiver takes the oldest value and the sender that waited for room
\* puts its value behind the others, in one step.
Exchange(v) ==
    /\ Len(q) = Size
    /\ q # <<>>
    /\ out' = Head(q)
    /\ q' = Append(Tail(q), v)

FifoNext ==
    \/ \E v \in Value : Enqueue(v) \/ Exchange(v)
    \/ Dequeue

FifoSpec == FifoInit /\ [][FifoNext]_fifoVars
=============================================================================
