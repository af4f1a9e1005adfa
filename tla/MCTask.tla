------------------------------- MODULE MCTask -------------------------------
(***************************************************************************)
(* Instances of Task for TLC: an unbuffered channel u and a buffered one   *)
(* b, and the select statements of a small Go program.                     *)
(***************************************************************************)
EXTENDS Task, TLC

CONSTANTS u, b,        \* the channels
          main, g1, g2 \* the evaluated code and the goroutines

MCSize == [c \in Chan |-> IF c = b THEN 1 ELSE 0]

Snd(c) == [c |-> c, op |-> SEND, to |-> FALSE]
Rcv(c) == [c |-> c, op |-> RECV, to |-> FALSE]

\* select { cases } and select { cases; default: }
Sel(cases) == [cases |-> cases, default |-> FALSE]
Try(cases) == [cases |-> cases, default |-> TRUE]
\* ch:recv(to)
RcvTimeout(c) == Sel(<<[c |-> c, op |-> RECV, to |-> TRUE]>>)

\* Plain sends and receives, selects over both channels, one that sends and
\* receives on the same channel, one with a default, and select{}.
CoreStmt == {Sel(<<Snd(u)>>), Sel(<<Rcv(u)>>), Sel(<<Snd(b)>>), Sel(<<Rcv(b)>>),
             Sel(<<Rcv(u), Snd(b)>>), Sel(<<Snd(u), Rcv(u)>>),
             Try(<<Rcv(b), Snd(u)>>), Sel(<<>>)}

\* The smallest program that meets a documented behaviour the code lacks.
SendRecvStmt == {Sel(<<Snd(u)>>), Sel(<<Rcv(u)>>)}

\* Waiting for a channel that is closed in the first or in a later case of a
\* select, with a timeout, for a partner, and for good.
LiveStmt == {Sel(<<Snd(u)>>), Sel(<<Rcv(u), Snd(b)>>), Sel(<<Snd(u), Rcv(u)>>),
             Sel(<<Rcv(b)>>), RcvTimeout(u), Sel(<<>>)}

GoSymmetry == Permutations({g1, g2})
=============================================================================
