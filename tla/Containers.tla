----------------------------- MODULE Containers -----------------------------
(***************************************************************************)
(* The two containers a channel is built from, side by side: the           *)
(* CircularBuffer with its values and the Set of the alts that wait.       *)
(***************************************************************************)
EXTENDS CircularBuffer, AltSet

ContainersInit == Init /\ SetInit

ContainersNext ==
    \/ Next /\ UNCHANGED setVars
    \/ SetNext /\ UNCHANGED vars

ContainersSpec == ContainersInit /\ [][ContainersNext]_<<vars, setVars>>
=============================================================================
