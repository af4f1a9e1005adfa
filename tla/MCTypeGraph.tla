---------------------------- MODULE MCTypeGraph ----------------------------
(***************************************************************************)
(* TypeGraph over a few types, none of which differs from the others.      *)
(***************************************************************************)
EXTENDS TypeGraph, TLC

TypeSymmetry == Permutations(Node)
=============================================================================
