------------------------------ MODULE MCSlices ------------------------------
(***************************************************************************)
(* Slices for TLC: a program of at most MaxCalls operations, MaxCuts of    *)
(* them re-slicings. Arrays and slice variables are interchangeable.       *)
(***************************************************************************)
EXTENDS Slices, TLC

CONSTANTS MaxCalls,  \* bound: the operations of the program
          MaxCuts    \* bound: its re-slicings

VARIABLES calls,     \* the operations begun
          cuts       \* the re-slicings among them

MCInit == Init /\ calls = 0 /\ cuts = 0

\* A slice that is cut or made by the last operation would be of no use.
MCNext ==
    \/ /\ calls + 1 < MaxCalls /\ calls' = calls + 1
       /\ \/ cuts < MaxCuts /\ Cut /\ cuts' = cuts + 1
          \/ New /\ UNCHANGED cuts
    \/ calls < MaxCalls /\ Use /\ calls' = calls + 1 /\ UNCHANGED cuts
    \/ (CopyElement \/ Return) /\ UNCHANGED <<calls, cuts>>

MCSpec == MCInit /\ [][MCNext]_<<vars, calls, cuts>>

MCSymmetry == Permutations(Array) \cup Permutations(Slice)
=============================================================================
