------------------------------- MODULE Slices -------------------------------
(***************************************************************************)
(* The slices of the runtime (prelude/tsys.lua): a slice is a header with  *)
(* the place of its elements in an array that it may share with others.    *)
(* __makeSlice, __subslice, __internalAppend and the element writes of     *)
(* __valueSliceMT are one action each; the copying loop of __copyArray,    *)
(* which copy and append end with, takes a step per element.               *)
(*                                                                         *)
(* A number of a header is a Lua number or, when it was computed from an   *)
(* int of the program, an int64 object: it compares and adds like the      *)
(* number, but it is no index of a table (reading there gives nil, writing *)
(* is lost) and no limit of a loop. boxed says which numbers are objects.  *)
(*                                                                         *)
(* Elements are scalars: assigning one copies it. The arrays are Lua       *)
(* tables, as make, a literal and append create them. The program stays    *)
(* within the lengths of its slices: __subslice does not refuse s[low:]    *)
(* with low past the length, and the element access checks the capacity    *)
(* instead of the length.                                                  *)
(***************************************************************************)
EXTENDS Integers

CONSTANTS Slice,    \* the slice variables of the program
          Array,    \* the backing arrays; one that no slice has is garbage
          NoArray,  \* the array of a nil slice, which has no slots
          Args,     \* the table of the arguments of append(s, x, y)
          Value,    \* the values of an element
          Zero,     \* the zero value of the element type
          Nil,      \* Lua's nil: a slot that is not set, a missing argument
          NoLoop,   \* no copying loop runs
          Large,    \* from this capacity on, append grows by a quarter: 1024
          MaxCap,   \* bound: the slots of an array
          MaxArgs   \* bound: the values that a literal or a call of append names

Table == Array \cup {NoArray, Args}
Slot  == 0 .. MaxCap - 1

ASSUME TableAssumption == Args \notin Array /\ NoArray \notin Array /\ Args # NoArray
ASSUME ValueAssumption == Zero \in Value /\ Nil \notin Value /\ Nil \notin Int
ASSUME BoundAssumption == MaxCap \in Nat /\ Large \in Nat /\ MaxArgs \in 0 .. MaxCap

VARIABLES slice,  \* [Slice -> header]
          boxed,  \* [Slice -> the fields of the header that are int64 objects]
          heap,   \* [Table -> [Slot -> value]]
          loop,   \* the run of __copyArray under way, or NoLoop
          clean   \* history: no element was lost to an int64 object so far

vars == <<slice, boxed, heap, loop, clean>>

\* A slice stays within its array and its length within its capacity.
Header == {h \in [array : Array \cup {NoArray}, offset : 0 .. MaxCap,
                  length : 0 .. MaxCap, capacity : 0 .. MaxCap] :
             h.length <= h.capacity /\ h.offset + h.capacity <= MaxCap}
Field  == {"offset", "length", "capacity"}
Boxes  == [Slice -> SUBSET Field]
Memory == [Table -> [Slot -> Value \cup {Nil}]]

Loop == [dst : Table, to : Nat, src : Table, from : Nat, n : Nat,
         toBoxed : BOOLEAN, fromBoxed : BOOLEAN,  \* the offsets that are int64
         done : Nat,                \* elements copied so far
         old : Memory,              \* history: the memory when the loop began
         after : [Slice -> Header], \* the slices once the call returns,
         boxes : Boxes]             \* and what of them is int64

ASSUME LoopAssumption == NoLoop \notin Loop

TypeOK ==
    /\ slice \in [Slice -> Header]
    /\ boxed \in Boxes
    /\ heap \in Memory
    /\ loop \in Loop \cup {NoLoop}
    /\ clean \in BOOLEAN

NilSlice == [array |-> NoArray, offset |-> 0, length |-> 0, capacity |-> 0]
Unset    == [i \in Slot |-> Nil]

Init ==
    /\ slice = [s \in Slice |-> NilSlice]
    /\ boxed = [s \in Slice |-> {}]
    /\ heap = [a \in Table |-> Unset]
    /\ loop = NoLoop
    /\ clean = TRUE

Fresh == {a \in Array : \A s \in Slice : slice[s].array # a}

\* The memory without the tables that nothing refers to any more.
Collected(mem, sl) ==
    [a \in Table |-> IF \E s \in Slice : sl[s].array = a THEN mem[a] ELSE Unset]

Least(x, y) == IF x < y THEN x ELSE y
Most(x, y)  == IF x < y THEN y ELSE x

-----------------------------------------------------------------------------
\* d = make([]T, length, capacity)
Make(d, length, capacity) ==
    /\ loop = NoLoop
    /\ length <= capacity
    /\ \E a \in Fresh :
          /\ slice' = [slice EXCEPT ![d] =
                        [array |-> a, offset |-> 0, length |-> length, capacity |-> capacity]]
          /\ heap' = Collected([heap EXCEPT ![a] =
                        [i \in Slot |-> IF i < capacity THEN Zero ELSE Nil]], slice')
    /\ boxed' = [boxed EXCEPT ![d] = {}]
    /\ UNCHANGED <<loop, clean>>

\* d = []T{x0, x1, ...}: a slice of all of a new array.
Literal(d, n, x) ==
    /\ loop = NoLoop
    /\ \E a \in Fresh :
          /\ slice' = [slice EXCEPT ![d] =
                        [array |-> a, offset |-> 0, length |-> n, capacity |-> n]]
          /\ heap' = Collected([heap EXCEPT ![a] =
                        [i \in Slot |-> IF i < n THEN x[i] ELSE Nil]], slice')
    /\ boxed' = [boxed EXCEPT ![d] = {}]
    /\ UNCHANGED <<loop, clean>>

\* Defect: the limit of the capacity is not compared with the capacity.
InBounds_NoMax(h, low, high, max) ==
    /\ high # Nil => low <= high /\ high <= h.capacity
    /\ max # Nil => high <= max

\* What __subslice does not refuse.
InBounds(h, low, high, max) ==
    /\ high # Nil => low <= high /\ high <= h.capacity
    /\ max # Nil => high <= max /\ max <= h.capacity

\* The fields that a given upper bound replaces; low enters all three.
Given(high, max) == (IF high = Nil THEN {} ELSE {"length"}) \cup
                    (IF max = Nil THEN {} ELSE {"capacity"})

\* d = s[low:high:max]; high and max may be missing, max only with high. ints
\* are the bounds that are ints and not constants, each named for the field
\* it is for: nothing converts them, and an object makes objects of all that
\* is computed from it.
Reslice(d, s, low, high, max, ints) ==
    LET h == slice[s] IN
    /\ loop = NoLoop
    /\ high = Nil => max = Nil /\ low <= h.length
    /\ InBounds(h, low, high, max)
    /\ ints \subseteq {"offset"} \cup Given(high, max)
    /\ slice' = [slice EXCEPT ![d] =
          [array    |-> h.array,
           offset   |-> h.offset + low,
           length   |-> (IF high = Nil THEN h.length ELSE high) - low,
           capacity |-> (IF max = Nil THEN h.capacity ELSE max) - low]]
    /\ boxed' = [boxed EXCEPT ![d] =
          IF "offset" \in ints THEN Field
          ELSE (boxed[s] \ Given(high, max)) \cup ints]
    /\ heap' = Collected(heap, slice')
    /\ UNCHANGED <<loop, clean>>

\* What s[k] evaluates to: the index is converted, the offset is not.
Element(s, k) ==
    IF "offset" \in boxed[s] THEN Nil ELSE heap[slice[s].array][slice[s].offset + k]

\* The values that the program can read.
Read == UNION {{Element(s, k) : k \in 0 .. slice[s].length - 1} : s \in Slice}

\* s[k] = v; here offset and index are converted.
Write(s, k, v) ==
    /\ loop = NoLoop
    /\ k < slice[s].length
    /\ heap' = [heap EXCEPT ![slice[s].array][slice[s].offset + k] = v]
    /\ clean' = (clean /\ v # Nil)
    /\ UNCHANGED <<slice, boxed, loop>>

\* __copyArray is called with the memory mem, by a call that leaves the slices
\* after and boxes; it returns at once when every element is in place.
CopyArray(mem, dst, src, to, from, n, toBoxed, fromBoxed, after, boxes) ==
    /\ heap' = mem
    /\ loop' = [dst |-> dst, to |-> to, src |-> src, from |-> from, n |-> n,
                toBoxed |-> toBoxed, fromBoxed |-> fromBoxed,
                done |-> IF dst = src /\ to = from THEN n ELSE 0,
                old |-> mem, after |-> after, boxes |-> boxes]
    /\ UNCHANGED <<slice, boxed>>

\* copy(d, s)
Copy(d, s) ==
    /\ loop = NoLoop
    /\ CopyArray(heap, slice[d].array, slice[s].array, slice[d].offset,
                 slice[s].offset, Least(slice[s].length, slice[d].length),
                 "offset" \in boxed[d], "offset" \in boxed[s], slice, boxed)
    /\ UNCHANGED clean

\* The capacity append gives a slice it has to move.
Grown(capacity) == IF capacity < Large THEN capacity * 2 ELSE (capacity * 5) \div 4
NewCapacity(capacity, newLength) == Most(newLength, Grown(capacity))

\* Defect: one slot too few is set to zero.
Moved_OneShort(mem, h, offsetBoxed, c) ==
    [i \in Slot |-> CASE i < h.length -> IF offsetBoxed THEN Nil ELSE mem[h.array][h.offset + i]
                      [] i >= h.length /\ i < c - 1 -> Zero
                      [] OTHER -> Nil]

\* A new array of c slots that begins with the elements of a slice, as far as
\* its offset can read them. The loop copies one slot more, which is then set
\* to zero with the rest.
Moved(mem, h, offsetBoxed, c) ==
    [i \in Slot |-> CASE i < h.length -> IF offsetBoxed THEN Nil ELSE mem[h.array][h.offset + i]
                      [] i >= h.length /\ i < c -> Zero
                      [] OTHER -> Nil]

\* Defect: the last slot of the capacity is never used.
Fits_Strictly(h, newLength) == newLength < h.capacity
Fits(h, newLength) == newLength <= h.capacity

\* Growing raises an error when a limit of its loops is an object: the length
\* of the slice or the new capacity, which is the larger of two numbers.
GrowthFails(h, b, newLength, nBoxed) ==
    \/ "length" \in b
    \/ IF newLength > Grown(h.capacity) THEN nBoxed ELSE "capacity" \in b

\* d = append(s, n elements of src...); ints are the offset and the length of
\* those elements as far as they are int64.
InternalAppend(mem, d, s, src, from, n, ints) ==
    LET h == slice[s]
        b == boxed[s]
        newLength == h.length + n
        c == NewCapacity(h.capacity, newLength)
    IN  \/ /\ n = 0
           /\ slice' = [slice EXCEPT ![d] = h]
           /\ boxed' = [boxed EXCEPT ![d] = b]
           /\ heap' = Collected(heap, slice')
           /\ UNCHANGED <<loop, clean>>
        \/ /\ n > 0 /\ Fits(h, newLength)
           /\ CopyArray(mem, h.array, src, h.offset + h.length, from, n,
                        b \cap {"offset", "length"} # {}, "offset" \in ints,
                        [slice EXCEPT ![d] = [h EXCEPT !.length = newLength]],
                        [boxed EXCEPT ![d] = b \cup (ints \cap {"length"})])
           /\ UNCHANGED clean
        \/ /\ n > 0 /\ ~ Fits(h, newLength)
           /\ GrowthFails(h, b, newLength, "length" \in ints)
           /\ clean' = FALSE
           /\ UNCHANGED <<slice, boxed, heap, loop>>
        \/ /\ n > 0 /\ ~ Fits(h, newLength)
           /\ ~ GrowthFails(h, b, newLength, "length" \in ints)
           /\ c <= MaxCap
           /\ \E a \in Fresh :
                 CopyArray([mem EXCEPT ![a] = Moved(mem, h, "offset" \in b, c)],
                           a, src, h.length, from, n, FALSE, "offset" \in ints,
                           [slice EXCEPT ![d] = [array |-> a, offset |-> 0,
                                                 length |-> newLength, capacity |-> c]],
                           [boxed EXCEPT ![d] = ints \cap {"length"}])
           /\ clean' = (clean /\ ("offset" \in b => h.length = 0))

\* d = append(s, x0, x1, ...)
AppendArgs(d, s, n, x) ==
    /\ loop = NoLoop
    /\ InternalAppend([heap EXCEPT ![Args] = [i \in Slot |-> IF i < n THEN x[i] ELSE Nil]],
                      d, s, Args, 0, n, {})

\* d = append(s, t...)
AppendSlice(d, s, t) ==
    /\ loop = NoLoop
    /\ InternalAppend(heap, d, s, slice[t].array, slice[t].offset, slice[t].length, boxed[t])

\* Defect: the loop runs upwards whatever the overlap.
Place_Upwards(lp) == lp.done

\* The element the loop copies next: downwards when the elements move up
\* within one array.
Place(lp) == IF lp.dst = lp.src /\ lp.to > lp.from THEN lp.n - 1 - lp.done ELSE lp.done

\* The memory after element i is copied. An offset that is an object reads
\* nil, and what is written with one is never found again.
Stored(mem, lp, i) ==
    IF lp.toBoxed THEN mem
    ELSE [mem EXCEPT ![lp.dst][lp.to + i] =
             IF lp.fromBoxed THEN Nil ELSE mem[lp.src][lp.from + i]]

CopyElement ==
    /\ loop # NoLoop
    /\ loop.done < loop.n
    /\ heap' = Stored(heap, loop, Place(loop))
    /\ loop' = [loop EXCEPT !.done = @ + 1]
    /\ clean' = (clean /\ ~ loop.toBoxed /\ ~ loop.fromBoxed)
    /\ UNCHANGED <<slice, boxed>>

\* The call returns.
Return ==
    /\ loop # NoLoop
    /\ loop.done = loop.n
    /\ slice' = loop.after
    /\ boxed' = loop.boxes
    /\ heap' = Collected(heap, slice')
    /\ loop' = NoLoop
    /\ UNCHANGED clean

\* d is cut from a slice, made, used.
Cut ==
    \E d, s \in Slice, low \in 0 .. MaxCap, high, max \in 0 .. MaxCap \cup {Nil} :
        \E ints \in SUBSET Field : Reslice(d, s, low, high, max, ints)
New ==
    \E d \in Slice :
        \/ \E length, capacity \in 0 .. MaxCap : Make(d, length, capacity)
        \/ \E n \in 1 .. MaxArgs : \E x \in [0 .. n - 1 -> Value] : Literal(d, n, x)
Use ==
    \/ \E d, s \in Slice :
          \/ Copy(d, s)
          \/ \E n \in 1 .. MaxArgs : \E x \in [0 .. n - 1 -> Value] : AppendArgs(d, s, n, x)
          \/ \E t \in Slice : AppendSlice(d, s, t)
    \/ \E s \in Slice, k \in Slot, v \in Value \cup Read : Write(s, k, v)

Next == Cut \/ New \/ Use \/ CopyElement \/ Return

Spec == Init /\ [][Next]_vars

-----------------------------------------------------------------------------
Backed(mem, h) == \A k \in 0 .. h.capacity - 1 : mem[h.array][h.offset + k] # Nil

\* Every slot a slice may reach was set, whatever was made, cut and grown
\* before: an index that passes the checks of __valueSliceMT (tsys.lua:1060,
\* 1092) finds Lua's nil only through an int64 offset. It holds until the
\* first element is lost to an int64: read with such an offset and stored, or
\* copied with one, or lost with an append that fails (tsys.lua:758, 764, 877,
\* 1098).
SlotsSet == clean => \A s \in Slice : Backed(heap, slice[s])

\* When the loop of __copyArray ends, every element has the value its source
\* had when the loop began, however the two overlap, if no offset was an
\* int64; nothing outside the target has changed in any case, and nothing at
\* all if the offset of the target was one (tsys.lua:726-771; copy(s[1:], s),
\* append(s[:1], s[2:]...)).
Targets(lp) == IF lp.toBoxed THEN {} ELSE {<<lp.dst, lp.to + k>> : k \in 0 .. lp.n - 1}
CopyIsSimultaneous ==
    loop # NoLoop =>
        /\ loop.done = loop.n /\ ~ loop.toBoxed /\ ~ loop.fromBoxed =>
              \A k \in 0 .. loop.n - 1 :
                 heap[loop.dst][loop.to + k] = loop.old[loop.src][loop.from + k]
        /\ \A a \in Table, i \in Slot :
              <<a, i>> \notin Targets(loop) => heap[a][i] = loop.old[a][i]

\* A cell is a slot of an array; while a loop runs the program has not seen
\* what it did yet.
Cell(h) == [k \in 0 .. h.capacity - 1 |-> <<h.array, h.offset + k>>]
Cells   == UNION {{slice[s].array} \X (slice[s].offset .. slice[s].offset + slice[s].capacity - 1) :
                     s \in Slice}
Go == INSTANCE GoSlices WITH
        cell <- [s \in Slice |-> Cell(slice[s])],
        len  <- [s \in Slice |-> slice[s].length],
        mem  <- [x \in Cells |-> (IF loop = NoLoop THEN heap ELSE loop.old)[x[1]][x[2]]]

\* Slices that share an array see each other's writes, append writes behind
\* a slice exactly when its capacity suffices and moves it to storage of its
\* own otherwise, and copy reads before it writes: the runtime's slices are
\* Go's (tsys.lua:697-897, 2750-2773), those with int64 numbers included for
\* as long as no element was lost to one.
RefinesGoSlices == Go!Init /\ [][clean' => Go!Next]_(Go!vars)
=============================================================================
