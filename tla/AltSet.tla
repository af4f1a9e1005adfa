------------------------------- MODULE AltSet -------------------------------
(***************************************************************************)
(* The Set of prelude/chan.lua that holds the alts waiting on one side of  *)
(* a channel: a list (l there), for a random choice in constant time, and  *)
(* a table a from an element to its place in it. remove puts the last one  *)
(* into the freed place. It then clears a[i], i being that place, where    *)
(* a[v] was meant: the entry of a removed element stays behind, so that an *)
(* element that was removed could never be added again. No alt is.         *)
(*                                                                         *)
(* members is what the user of the Set believes to be in it: what was      *)
(* added and not removed since.                                            *)
(***************************************************************************)
EXTENDS Integers, Sequences

CONSTANTS Elem   \* the alts

VARIABLES list,    \* the elements, in a sequence
          a,       \* [Elem -> place in list]; 0 stands for nil
          members, \* history: the elements the Set should hold
          used     \* history: the elements that were ever added

setVars == <<list, a, members, used>>

SetTypeOK ==
    /\ list \in Seq(Elem)
    /\ a \in [Elem -> Nat]
    /\ members \subseteq used
    /\ used \subseteq Elem

SetInit ==
    /\ list = <<>>
    /\ a = [v \in Elem |-> 0]
    /\ members = {}
    /\ used = {}

\* select_inner queues every alt once, and the code that calls select builds
\* fresh alts for each call: no element is added twice.
Add(v) ==
    /\ v \notin used
    /\ members' = members \cup {v}
    /\ used' = used \cup {v}
    /\ IF a[v] = 0
       THEN /\ list' = Append(list, v)
            /\ a' = [a EXCEPT ![v] = Len(list) + 1]
       ELSE UNCHANGED <<list, a>>

\* Defect: the entry of the element that moves is not brought up to date.
Remove_NoMove(v) ==
    /\ v \in members
    /\ members' = members \ {v}
    /\ list' = [k \in 1 .. Len(list) - 1 |-> IF k = a[v] THEN list[Len(list)] ELSE list[k]]
    /\ UNCHANGED <<a, used>>

\* altalldequeue and the scheduler's timeout loop remove an alt that is there.
Remove(v) ==
    /\ v \in members
    /\ members' = members \ {v}
    /\ a' = [a EXCEPT ![list[Len(list)]] = a[v]]
    /\ list' = [k \in 1 .. Len(list) - 1 |-> IF k = a[v] THEN list[Len(list)] ELSE list[k]]
    /\ UNCHANGED used

SetNext == \E v \in Elem : Add(v) \/ Remove(v)

SetSpec == SetInit /\ [][SetNext]_setVars
-----------------------------------------------------------------------------
\* Every place in the list is the one the table names for its element.
Indexed == \A k \in 1 .. Len(list) : a[list[k]] = k

\* The list holds exactly the members, each of them once, in the place that
\* the table gives: so random chooses among the alts that wait, and remove
\* takes out the alt it was asked to (Set, chan.lua:150-190). An element that
\* was never added has no place: adding it has an effect.
HoldsMembers ==
    /\ {list[k] : k \in 1 .. Len(list)} = members
    /\ Indexed
    /\ \A v \in Elem \ used : a[v] = 0
=============================================================================
