------------------------------ MODULE MCSession ------------------------------
(***************************************************************************)
(* The instance of Session that TLC checks.                                *)
(***************************************************************************)
EXTENDS Session, TLC

Other == Name \cup Method

MCItem ==
    [kind : {"var"}, name : Name, ref : Other \cup {Bad}, typed : {FALSE}]
    \cup {it \in [kind : {"var"}, name : Name, ref : Name \cup {Bad}, typed : {TRUE}] :
             it.ref \in {it.name, Bad}}
    \cup {it \in [kind : {"func"}, name : Name, ref : Other \cup {Good, Bad}, typed : {FALSE}] :
             it.ref # it.name}
    \cup {it \in [kind : {"short"}, name : Name, ref : Name \cup {Good}, typed : {FALSE}] :
             it.ref # it.name}
    \cup [kind : {"method"}, name : Method, ref : Name \cup {Good}, typed : {FALSE}]
    \cup [kind : {"expr"}, name : Method, ref : Name, typed : {FALSE}]

Symmetry == Permutations(Name)
=============================================================================
