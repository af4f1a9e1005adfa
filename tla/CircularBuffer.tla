--------------------------- MODULE CircularBuffer ---------------------------
(***************************************************************************)
(* The CircularBuffer of prelude/chan.lua, the storage of a buffered       *)
(* channel: a table b of size + 1 slots (one is always free, so that a     *)
(* full buffer and an empty one differ), the index l of the oldest value   *)
(* and the index r of the next free slot, both modulo the number of slots. *)
(* altcanexec and altcopy are its only users; the actions carry their      *)
(* guards.                                                                 *)
(***************************************************************************)
EXTENDS Integers, Sequences

CONSTANTS Size,   \* the capacity given to make(chan T, Size)
          Value,  \* the values sent on the channel
          Nil     \* an unset slot, and "nothing popped"

ASSUME SizeAssumption == Size \in Nat
ASSUME NilAssumption == Nil \notin Value

VARIABLES b,      \* slot -> value; a popped slot keeps its value
          l, r,   \* where the next pop reads and the next push writes
          out     \* the value returned by the latest operation, or Nil

vars == <<b, l, r, out>>

Slots == Size + 1
Slot  == 0 .. Size

TypeOK ==
    /\ b \in [Slot -> Value \cup {Nil}]
    /\ l \in Slot
    /\ r \in Slot
    /\ out \in Value \cup {Nil}

len == (r - l) % Slots

\* Defect: the index runs off the end of the table.
Succ_NoWrap(i) == i + 1

\* The slot after i, around the end of the table.
Succ(i) == (i + 1) % Slots

Init ==
    /\ b = [i \in Slot |-> Nil]
    /\ l = 0
    /\ r = 0
    /\ out = Nil

-----------------------------------------------------------------------------
\* Defects: the index is advanced before the value is stored; all slots are
\* used, so that a full buffer looks empty.
Push_AdvanceFirst(v) ==
    /\ len < Size
    /\ b' = [b EXCEPT ![Succ(r)] = v]
    /\ r' = Succ(r)
    /\ out' = Nil
    /\ UNCHANGED l
Push_EverySlot(v) ==
    /\ len < Slots
    /\ b' = [b EXCEPT ![r] = v]
    /\ r' = Succ(r)
    /\ out' = Nil
    /\ UNCHANGED l

\* altcopy pushes a value that altcanexec found room for.
Push(v) ==
    /\ len < Size
    /\ b' = [b EXCEPT ![r] = v]
    /\ r' = Succ(r)
    /\ out' = Nil
    /\ UNCHANGED l

\* altcopy pops for a receiver that altcanexec found a value for.
Pop ==
    /\ len > 0
    /\ out' = b[l]
    /\ l' = Succ(l)
    /\ UNCHANGED <<b, r>>

\* altcopy with a receiver and a sender that was blocked on the full buffer:
\* "it's always okay to receive and then send", a pop followed by a push.
PopPush(v) ==
    /\ len = Size
    /\ len > 0
    /\ out' = b[l]
    /\ l' = Succ(l)
    /\ b' = [b EXCEPT ![r] = v]
    /\ r' = Succ(r)

Next ==
    \/ \E v \in Value : Push(v) \/ PopPush(v)
    \/ Pop

Spec == Init /\ [][Next]_vars

-----------------------------------------------------------------------------
\* The slot at distance k from slot i, around the end of the table.
At(i, k) == (i + k) % Slots

\* The values held, oldest first: the refinement mapping.
Contents == [i \in 1 .. len |-> b[At(l, i - 1)]]

Fifo == INSTANCE BoundedFIFO WITH q <- Contents

\* A CircularBuffer behaves as a bounded first-in first-out queue, whatever
\* the number of wrap-arounds: no pushed value is overwritten before it is
\* popped, none is popped twice, and a value that was popped but is still in
\* its slot is never seen again (CircularBuffer, chan.lua:195-218).
RefinesFIFO == Fifo!FifoSpec

\* Between l and r there are only pushed values, so a pop never returns an
\* unset slot; in particular the asserts of pop and push (chan.lua:207, 216)
\* hold at every call altcopy makes.
LiveSlotsSet == \A i \in 1 .. len : Contents[i] # Nil
=============================================================================
