------------------------------ MODULE GoSlices ------------------------------
(***************************************************************************)
(* What the slices of Go promise a program. A slice variable s stands for  *)
(* a row cell[s] of storage cells, numbered from 0, of which the first     *)
(* len[s] are its elements; slices may share cells. mem is the content of  *)
(* the cells that some slice has.                                          *)
(***************************************************************************)
EXTENDS Integers

CONSTANTS Slice,   \* the slice variables of the program
          Value,   \* the values of an element
          Zero,    \* the zero value of the element type
          MaxArgs  \* the most values that a literal or a call of append names

VARIABLES cell, len, mem

vars == <<cell, len, mem>>

CellsOf(s) == {cell[s][k] : k \in DOMAIN cell[s]}
Reachable  == UNION {CellsOf(s) : s \in Slice}
Elements(s) == [k \in 0 .. len[s] - 1 |-> mem[cell[s][k]]]

\* Every slice is nil.
Init ==
    /\ cell = [s \in Slice |-> [k \in {} |-> k]]
    /\ len = [s \in Slice |-> 0]
    /\ mem = [x \in {} |-> Zero]

-----------------------------------------------------------------------------
\* d becomes the first n cells of a row.
Assign(d, row, n) ==
    /\ cell' = [cell EXCEPT ![d] = row]
    /\ len' = [len EXCEPT ![d] = n]

\* d becomes n of a row of different cells that no slice had before.
AssignNew(d, n) ==
    /\ Assign(d, cell'[d], n)
    /\ \A k, j \in DOMAIN cell'[d] : k # j => cell'[d][k] # cell'[d][j]
    /\ CellsOf(d)' \cap Reachable = {}

\* The cells that stay in use and are not in S keep their content.
KeepsAllBut(S) == \A x \in (Reachable \cap Reachable') \ S : mem'[x] = mem[x]

\* d = make([]T, n, c): zeroed cells of its own.
Make(d) ==
    /\ AssignNew(d, len'[d])
    /\ \A x \in CellsOf(d)' : mem'[x] = Zero
    /\ KeepsAllBut({})

\* d = []T{x0, x1, ...}: cells of its own, with the values listed.
Literal(d) ==
    /\ AssignNew(d, len'[d])
    /\ DOMAIN cell'[d] = 0 .. len'[d] - 1
    /\ KeepsAllBut({})

\* d = s[low:high:max]: a run of the cells of s, none of them changed.
Reslice(d, s) ==
    /\ Assign(d, cell'[d], len'[d])
    /\ \E low \in {0} \cup DOMAIN cell[s] : \A k \in DOMAIN cell'[d] :
          low + k \in DOMAIN cell[s] /\ cell'[d][k] = cell[s][low + k]
    /\ 0 .. len'[d] - 1 \subseteq DOMAIN cell'[d]
    /\ KeepsAllBut({})

\* s[k] = v
Write(s, k, v) ==
    /\ UNCHANGED <<cell, len>>
    /\ mem' = [mem EXCEPT ![cell[s][k]] = v]

\* copy(d, s): the elements are read before any of them is written.
Copy(d, s) ==
    LET shared == DOMAIN Elements(d) \cap DOMAIN Elements(s) IN
    /\ UNCHANGED <<cell, len>>
    /\ \A k \in shared : mem'[cell[d][k]] = mem[cell[s][k]]
    /\ KeepsAllBut({cell[d][k] : k \in shared})

\* d = append(s, x...), x being n elements: behind the elements of s if its
\* cells suffice, else in new cells, behind a copy of s and before zeroes.
AppendInPlace(d, s, n, x) ==
    /\ len[s] .. len[s] + n - 1 \subseteq DOMAIN cell[s]
    /\ Assign(d, cell[s], len[s] + n)
    /\ \A k \in 0 .. n - 1 : mem'[cell[s][len[s] + k]] = x[k]
    /\ KeepsAllBut({cell[s][len[s] + k] : k \in 0 .. n - 1})
AppendMoving(d, s, n, x) ==
    /\ ~ (len[s] .. len[s] + n - 1 \subseteq DOMAIN cell[s])
    /\ AssignNew(d, len[s] + n)
    /\ \A k \in DOMAIN cell'[d] : mem'[cell'[d][k]] =
          CASE k < len[s]     -> mem[cell[s][k]]
            [] k >= len'[d]   -> Zero
            [] OTHER          -> x[k - len[s]]
    /\ KeepsAllBut({})
Append(d, s, n, x) == AppendInPlace(d, s, n, x) \/ AppendMoving(d, s, n, x)

\* d = append(s, t...)
AppendSlice(d, s, t) == Append(d, s, len[t], Elements(t))

Next ==
    \E d, s \in Slice :
        \/ Make(d) \/ Literal(d) \/ Reslice(d, s) \/ Copy(d, s)
        \/ \E k \in DOMAIN Elements(s), v \in Value : Write(s, k, v)
        \/ \E n \in 1 .. MaxArgs : \E x \in [0 .. n - 1 -> Value] : Append(d, s, n, x)
        \/ \E t \in Slice : AppendSlice(d, s, t)

Spec == Init /\ [][Next]_vars
=============================================================================
