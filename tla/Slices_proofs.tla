---------------------------- MODULE Slices_proofs ----------------------------
(***************************************************************************)
(* Proofs about Slices, for every number of slices and arrays, every bound *)
(* and every growth rule: the slots that slices reach are set, the copying *)
(* loop is a simultaneous assignment, and the slices implement GoSlices,   *)
(* the first and the last until an element is lost to an int64.            *)
(***************************************************************************)
EXTENDS Slices, TLAPS

-----------------------------------------------------------------------------
\* What a loop has done that reads and writes elements: done of them are in
\* place and the sources of the others are untouched. The order of Place is
\* what keeps the second part true when the places overlap.
Done(lp) == {k \in 0 .. lp.n - 1 : IF lp.dst = lp.src /\ lp.to > lp.from
                                   THEN k >= lp.n - lp.done ELSE k < lp.done}

Progress(mem, lp) ==
    /\ \A k \in Done(lp) : mem[lp.dst][lp.to + k] = lp.old[lp.src][lp.from + k]
    /\ \A k \in 0 .. lp.n - 1 :
          k \notin Done(lp) => mem[lp.src][lp.from + k] = lp.old[lp.src][lp.from + k]

\* Everything but the targets is untouched.
Footprint(mem, lp) ==
    \A a \in Table, i \in Slot : <<a, i>> \notin Targets(lp) => mem[a][i] = lp.old[a][i]

\* The loop stays in bounds.
InRange(lp) ==
    /\ lp.to + lp.n <= MaxCap
    /\ lp.from + lp.n <= MaxCap
    /\ lp.done <= lp.n

\* It moves only what is set, and the slices before and after the call are
\* backed.
Filled(lp) ==
    /\ \A k \in 0 .. lp.n - 1 : lp.old[lp.src][lp.from + k] # Nil
    /\ \A s \in Slice : Backed(lp.old, slice[s]) /\ Backed(lp.old, lp.after[s])

\* No offset is an object.
Plain(lp) == ~ lp.toBoxed /\ ~ lp.fromBoxed

LoopInv ==
    loop # NoLoop =>
        /\ InRange(loop) /\ Footprint(heap, loop)
        /\ clean \/ Plain(loop) => Progress(heap, loop)
        /\ clean => Filled(loop)

IInv == TypeOK /\ SlotsSet /\ LoopInv

-----------------------------------------------------------------------------
\* A header is a record of numbers within the bounds.
LEMMA HeaderFields ==
    ASSUME NEW h \in Header
    PROVE  /\ h.array \in Table /\ h.array # Args
           /\ h.offset \in Nat /\ h.length \in Nat /\ h.capacity \in Nat
           /\ h.length <= h.capacity /\ h.offset + h.capacity <= MaxCap
BY TableAssumption, BoundAssumption DEF Header, Table

\* Collecting garbage keeps what the slices reach.
LEMMA CollectedBacked ==
    ASSUME NEW mem \in Memory, NEW sl \in [Slice -> Header], NEW s \in Slice,
           Backed(mem, sl[s])
    PROVE  Backed(Collected(mem, sl), sl[s])
<1>1. sl[s].array \in Table
  BY HeaderFields
<1>2. Collected(mem, sl)[sl[s].array] = mem[sl[s].array]
  BY <1>1 DEF Collected
<1> QED
  BY <1>2 DEF Backed

LEMMA CollectedMemory ==
    ASSUME NEW mem \in Memory, NEW sl
    PROVE  Collected(mem, sl) \in Memory
BY DEF Collected, Memory, Unset

\* A step that gives the slices new headers and leaves no loop running.
LEMMA AssignInv ==
    ASSUME NEW mem \in Memory,
           slice' \in [Slice -> Header], boxed' \in Boxes, clean' \in BOOLEAN,
           clean' => \A s \in Slice : Backed(mem, slice'[s]),
           heap' = Collected(mem, slice'),
           loop' = NoLoop
    PROVE  IInv'
<1> DEFINE sl == slice'
<1>1. sl \in [Slice -> Header] /\ (clean' => \A s \in Slice : Backed(mem, sl[s]))
  OBVIOUS
<1>2. heap' = Collected(mem, sl)
  OBVIOUS
<1> HIDE DEF sl
<1>3. clean' => \A s \in Slice : Backed(heap', sl[s])
  BY <1>1, <1>2, CollectedBacked
<1>4. heap' \in Memory
  BY <1>2, CollectedMemory
<1>5. SlotsSet' <=> (clean' => \A s \in Slice : Backed(heap', sl[s]))
  BY DEF SlotsSet, sl, Backed
<1> QED
  BY <1>3, <1>4, <1>5 DEF IInv, TypeOK, LoopInv

\* What a call of __copyArray is given, and what is set of it.
Arguments(mem, dst, src, to, from, n, after) ==
    /\ mem \in Memory
    /\ dst \in Table /\ src \in Table
    /\ to \in Nat /\ from \in Nat /\ n \in Nat
    /\ to + n <= MaxCap /\ from + n <= MaxCap
    /\ after \in [Slice -> Header]
ArgumentsSet(mem, src, from, n, after) ==
    /\ \A k \in 0 .. n - 1 : mem[src][from + k] # Nil
    /\ \A s \in Slice : Backed(mem, slice[s]) /\ Backed(mem, after[s])

\* The loop begins with nothing done, or with all of it when every element
\* is in place.
LEMMA CopyArrayInv ==
    ASSUME NEW mem, NEW dst, NEW src, NEW to, NEW from, NEW n, NEW after,
           NEW toBoxed \in BOOLEAN, NEW fromBoxed \in BOOLEAN, NEW boxes \in Boxes,
           slice \in [Slice -> Header], boxed \in Boxes, clean' \in BOOLEAN,
           Arguments(mem, dst, src, to, from, n, after),
           clean' => ArgumentsSet(mem, src, from, n, after),
           CopyArray(mem, dst, src, to, from, n, toBoxed, fromBoxed, after, boxes)
    PROVE  IInv' /\ loop' \in Loop
<1> DEFINE lp == [dst |-> dst, to |-> to, src |-> src, from |-> from, n |-> n,
                  toBoxed |-> toBoxed, fromBoxed |-> fromBoxed,
                  done |-> IF dst = src /\ to = from THEN n ELSE 0,
                  old |-> mem, after |-> after, boxes |-> boxes]
<1>1. heap' = mem /\ loop' = lp /\ slice' = slice /\ boxed' = boxed
  BY DEF CopyArray
<1>2. lp \in Loop
  BY DEF Arguments, Loop
<1>3. InRange(lp)
  BY DEF Arguments, InRange
<1>4. Progress(mem, lp) /\ Footprint(mem, lp)
  <2>1. CASE dst = src /\ to = from
    BY <2>1 DEF Arguments, Progress, Done, Footprint
  <2>2. CASE ~(dst = src /\ to = from)
    <3>1. lp.done = 0 /\ lp.n = n /\ n \in Nat
      BY <2>2 DEF Arguments
    <3>2. Done(lp) = {}
      BY <3>1 DEF Done
    <3> QED
      BY <3>2 DEF Progress, Footprint
  <2> QED
    BY <2>1, <2>2
<1>5. clean' => /\ \A k \in 0 .. lp.n - 1 : lp.old[lp.src][lp.from + k] # Nil
                /\ \A s \in Slice : /\ Backed(mem, slice[s])
                                    /\ Backed(lp.old, lp.after[s]) /\ Backed(lp.old, slice[s])
  BY DEF ArgumentsSet
<1>6. TypeOK'
  <2>1. mem \in Memory
    BY DEF Arguments
  <2> QED
    BY <1>1, <1>2, <2>1 DEF TypeOK
<1>7. SlotsSet'
  <2>1. SlotsSet' <=> (clean' => \A s \in Slice : Backed(heap', slice'[s]))
    BY DEF SlotsSet, Backed
  <2> QED
    BY <1>1, <1>5, <2>1
<1>8. LoopInv'
  <2> HIDE DEF lp
  <2>1. InRange(loop)' <=> InRange(loop')
    BY DEF InRange
  <2>2. /\ Progress(heap, loop)' <=> Progress(heap', loop')
        /\ Footprint(heap, loop)' <=> Footprint(heap', loop')
    BY DEF Progress, Done, Targets, Footprint
  <2>3. Filled(loop)' <=>
          /\ \A k \in 0 .. loop'.n - 1 : loop'.old[loop'.src][loop'.from + k] # Nil
          /\ \A s \in Slice : Backed(loop'.old, slice'[s]) /\ Backed(loop'.old, loop'.after[s])
    BY DEF Filled, Backed
  <2> QED
    BY <1>1, <1>3, <1>4, <1>5, <2>1, <2>2, <2>3 DEF LoopInv
<1> QED
  BY <1>1, <1>2, <1>6, <1>7, <1>8 DEF IInv

-----------------------------------------------------------------------------
LEMMA InitInv == Init => IInv
<1> SUFFICES ASSUME Init PROVE IInv
  OBVIOUS
<1>1. NilSlice \in Header
  BY BoundAssumption DEF NilSlice, Header
<1>2. TypeOK
  BY <1>1 DEF Init, TypeOK, Memory, Unset, Boxes
<1>3. SlotsSet
  BY DEF Init, SlotsSet, Backed, NilSlice
<1> QED
  BY <1>2, <1>3 DEF IInv, LoopInv, Init

\* A new array of n slots that are set, for d alone.
LEMMA NewArrayInv ==
    ASSUME IInv, NEW d \in Slice, NEW a \in Fresh, NEW f \in [Slot -> Value \cup {Nil}],
           NEW length \in 0 .. MaxCap, NEW n \in 0 .. MaxCap, length <= n,
           \A i \in 0 .. n - 1 : f[i] # Nil,
           loop' = NoLoop, clean' = clean, boxed' = [boxed EXCEPT ![d] = {}],
           slice' = [slice EXCEPT ![d] =
                        [array |-> a, offset |-> 0, length |-> length, capacity |-> n]],
           heap' = Collected([heap EXCEPT ![a] = f], slice')
    PROVE  IInv'
<1> DEFINE h == [array |-> a, offset |-> 0, length |-> length, capacity |-> n]
           mem == [heap EXCEPT ![a] = f]
<1>1. a \in Array /\ a \in Table /\ \A s \in Slice : slice[s].array # a
  BY DEF Fresh, Table
<1>2. h \in Header
  BY <1>1, BoundAssumption DEF Header
<1>3. mem \in Memory
  BY <1>1 DEF IInv, TypeOK, Memory
<1>4. slice' \in [Slice -> Header]
  BY <1>2 DEF IInv, TypeOK
<1>5. Backed(mem, h)
  BY <1>1 DEF Backed, IInv, TypeOK, Memory
<1>6. clean => \A s \in Slice : Backed(mem, slice[s])
  BY <1>1 DEF Backed, IInv, TypeOK, Memory, SlotsSet
<1>7. \A s \in Slice : slice'[s] = IF s = d THEN h ELSE slice[s]
  BY DEF IInv, TypeOK
<1>8. clean' => \A s \in Slice : Backed(mem, slice'[s])
  BY <1>5, <1>6, <1>7
<1>9. boxed' \in Boxes /\ clean' \in BOOLEAN
  BY DEF IInv, TypeOK, Boxes
<1> QED
  BY <1>3, <1>4, <1>8, <1>9, AssignInv

LEMMA MakeInv ==
    ASSUME IInv, NEW d \in Slice, NEW length \in 0 .. MaxCap, NEW capacity \in 0 .. MaxCap,
           Make(d, length, capacity)
    PROVE  IInv'
<1> DEFINE f == [i \in Slot |-> IF i < capacity THEN Zero ELSE Nil]
<1>1. PICK a \in Fresh :
         /\ slice' = [slice EXCEPT ![d] =
                        [array |-> a, offset |-> 0, length |-> length, capacity |-> capacity]]
         /\ heap' = Collected([heap EXCEPT ![a] = f], slice')
  BY DEF Make
<1>2. f \in [Slot -> Value \cup {Nil}] /\ \A i \in 0 .. capacity - 1 : f[i] # Nil
  BY ValueAssumption, BoundAssumption DEF Slot
<1>3. /\ length <= capacity /\ loop' = NoLoop /\ clean' = clean
      /\ boxed' = [boxed EXCEPT ![d] = {}]
  BY DEF Make
<1> HIDE DEF f
<1> QED
  BY <1>1, <1>2, <1>3, NewArrayInv

LEMMA LiteralInv ==
    ASSUME IInv, NEW d \in Slice, NEW n \in 1 .. MaxArgs, NEW x \in [0 .. n - 1 -> Value],
           Literal(d, n, x)
    PROVE  IInv'
<1> DEFINE f == [i \in Slot |-> IF i < n THEN x[i] ELSE Nil]
<1>1. PICK a \in Fresh :
         /\ slice' = [slice EXCEPT ![d] =
                        [array |-> a, offset |-> 0, length |-> n, capacity |-> n]]
         /\ heap' = Collected([heap EXCEPT ![a] = f], slice')
  BY DEF Literal
<1>2. n \in 0 .. MaxCap /\ n <= n
  BY BoundAssumption
<1>3. f \in [Slot -> Value \cup {Nil}] /\ \A i \in 0 .. n - 1 : f[i] # Nil
  <2>1. \A i \in 0 .. n - 1 : x[i] \in Value /\ i \in Slot /\ i < n
    BY <1>2, BoundAssumption DEF Slot
  <2>2. \A i \in Slot : i < n => i \in 0 .. n - 1
    BY <1>2, BoundAssumption DEF Slot
  <2> QED
    BY <2>1, <2>2, ValueAssumption
<1>4. loop' = NoLoop /\ clean' = clean /\ boxed' = [boxed EXCEPT ![d] = {}]
  BY DEF Literal
<1> HIDE DEF f
<1> QED
  BY <1>1, <1>2, <1>3, <1>4, NewArrayInv

\* A part of a slice has a proper header and reaches no other slot.
LEMMA ResliceHeader ==
    ASSUME NEW h \in Header, NEW low \in 0 .. MaxCap,
           NEW high \in 0 .. MaxCap \cup {Nil}, NEW max \in 0 .. MaxCap \cup {Nil},
           high = Nil => max = Nil /\ low <= h.length,
           InBounds(h, low, high, max),
           NEW g, g = [array    |-> h.array,
                       offset   |-> h.offset + low,
                       length   |-> (IF high = Nil THEN h.length ELSE high) - low,
                       capacity |-> (IF max = Nil THEN h.capacity ELSE max) - low]
    PROVE  g \in Header /\ \A mem : Backed(mem, h) => Backed(mem, g)
<1>1. h.array \in Array \cup {NoArray} /\ h.offset \in 0 .. MaxCap /\ h.length \in 0 .. MaxCap
        /\ h.capacity \in 0 .. MaxCap /\ h.length <= h.capacity /\ h.offset + h.capacity <= MaxCap
  BY DEF Header
<1> DEFINE hi == IF high = Nil THEN h.length ELSE high
           mx == IF max = Nil THEN h.capacity ELSE max
<1>2. hi \in Nat /\ mx \in Nat /\ low <= hi /\ hi <= mx /\ mx <= h.capacity
  BY <1>1, ValueAssumption, BoundAssumption DEF InBounds
<1>3. g = [array |-> h.array, offset |-> h.offset + low, length |-> hi - low, capacity |-> mx - low]
  OBVIOUS
<1> HIDE DEF hi, mx
<1>4. g \in Header
  BY <1>1, <1>2, <1>3, BoundAssumption DEF Header
<1>5. ASSUME NEW mem, Backed(mem, h) PROVE Backed(mem, g)
  <2>1. SUFFICES ASSUME NEW k \in 0 .. g.capacity - 1
                 PROVE  mem[g.array][g.offset + k] # Nil
    BY DEF Backed
  <2>2. low + k \in 0 .. h.capacity - 1 /\ g.offset + k = h.offset + (low + k)
    BY <1>1, <1>2, <1>3, <2>1
  <2> QED
    BY <1>3, <1>5, <2>2 DEF Backed
<1> QED
  BY <1>4, <1>5

LEMMA ResliceInv ==
    ASSUME IInv, NEW d \in Slice, NEW s \in Slice, NEW low \in 0 .. MaxCap,
           NEW high \in 0 .. MaxCap \cup {Nil}, NEW max \in 0 .. MaxCap \cup {Nil},
           NEW ints \in SUBSET Field, Reslice(d, s, low, high, max, ints)
    PROVE  IInv'
<1> DEFINE h == slice[s]
           g == [array    |-> h.array,
                 offset   |-> h.offset + low,
                 length   |-> (IF high = Nil THEN h.length ELSE high) - low,
                 capacity |-> (IF max = Nil THEN h.capacity ELSE max) - low]
<1>1. /\ slice \in [Slice -> Header] /\ heap \in Memory /\ clean \in BOOLEAN
      /\ clean => \A t \in Slice : Backed(heap, slice[t])
  BY DEF IInv, TypeOK, SlotsSet
<1>2. /\ high = Nil => max = Nil /\ low <= h.length
      /\ InBounds(h, low, high, max)
      /\ slice' = [slice EXCEPT ![d] = g]
      /\ heap' = Collected(heap, slice')
      /\ loop' = NoLoop /\ clean' = clean
  BY DEF Reslice
<1>3. h \in Header /\ (clean => Backed(heap, h))
  BY <1>1
<1> HIDE DEF h
<1>4. g \in Header /\ (clean => Backed(heap, g))
  BY <1>2, <1>3, ResliceHeader
<1> HIDE DEF g
<1>5. slice' \in [Slice -> Header] /\ (clean' => \A t \in Slice : Backed(heap, slice'[t]))
  BY <1>1, <1>2, <1>4
<1>6. boxed' \in Boxes
  BY DEF Reslice, IInv, TypeOK, Boxes
<1> QED
  BY <1>1, <1>2, <1>5, <1>6, AssignInv

LEMMA WriteInv ==
    ASSUME IInv, NEW s \in Slice, NEW k \in Slot, NEW v \in Value \cup {Nil}, Write(s, k, v)
    PROVE  IInv'
<1>1. slice[s].array \in Table /\ slice[s].offset \in Nat
  BY HeaderFields DEF IInv, TypeOK
<1>2. /\ heap' \in Memory /\ slice' = slice /\ boxed' = boxed
      /\ loop = NoLoop /\ loop' = NoLoop
  BY <1>1 DEF Write, IInv, TypeOK, Memory
<1>3. clean' => clean /\ \A a \in Table, i \in Slot : heap[a][i] # Nil => heap'[a][i] # Nil
  BY <1>1 DEF Write, IInv, TypeOK, Memory
<1>4. ASSUME clean', NEW t \in Slice, NEW j \in 0 .. slice[t].capacity - 1
      PROVE  heap'[slice[t].array][slice[t].offset + j] # Nil
  <2>1. slice[t] \in Header
    BY DEF IInv, TypeOK
  <2>2. slice[t].array \in Table /\ slice[t].offset + j \in Slot
    BY <2>1, HeaderFields, BoundAssumption DEF Slot
  <2> QED
    BY <1>3, <1>4, <2>2 DEF IInv, SlotsSet, Backed
<1>5. SlotsSet'
  BY <1>2, <1>4 DEF SlotsSet, Backed
<1>6. clean' \in BOOLEAN
  BY DEF Write
<1> QED
  BY <1>2, <1>5, <1>6 DEF IInv, TypeOK, LoopInv

\* Only values and Lua's nil are read.
LEMMA ReadValues == TypeOK => Read \subseteq Value \cup {Nil}
<1> SUFFICES ASSUME TypeOK, NEW s \in Slice, NEW k \in 0 .. slice[s].length - 1
             PROVE  Element(s, k) \in Value \cup {Nil}
  BY DEF Read
<1>1. slice[s] \in Header
  BY DEF TypeOK
<1>2. slice[s].array \in Table /\ slice[s].offset + k \in Slot
  BY <1>1, HeaderFields, BoundAssumption DEF Slot
<1> QED
  BY <1>2 DEF TypeOK, Memory, Element

LEMMA CopyInv ==
    ASSUME IInv, NEW d \in Slice, NEW s \in Slice, Copy(d, s)
    PROVE  IInv' /\ loop' \in Loop
<1> DEFINE n == Least(slice[s].length, slice[d].length)
           toBoxed == "offset" \in boxed[d]
           fromBoxed == "offset" \in boxed[s]
<1>1. /\ slice \in [Slice -> Header] /\ heap \in Memory /\ boxed \in Boxes
      /\ clean \in BOOLEAN
      /\ clean => \A t \in Slice : Backed(heap, slice[t])
  BY DEF IInv, TypeOK, SlotsSet
<1>2. slice[d] \in Header /\ slice[s] \in Header
  BY <1>1
<1>3. n \in Nat /\ n <= slice[s].length /\ n <= slice[d].length
  BY <1>2, HeaderFields DEF Least
<1>4. CopyArray(heap, slice[d].array, slice[s].array, slice[d].offset, slice[s].offset, n,
                toBoxed, fromBoxed, slice, boxed)
  BY DEF Copy
<1>5. clean' = clean /\ toBoxed \in BOOLEAN /\ fromBoxed \in BOOLEAN
  BY DEF Copy
<1> HIDE DEF n, toBoxed, fromBoxed
<1>6. clean' => \A k \in 0 .. n - 1 : heap[slice[s].array][slice[s].offset + k] # Nil
  BY <1>1, <1>2, <1>3, <1>5, HeaderFields DEF Backed
<1>7. Arguments(heap, slice[d].array, slice[s].array, slice[d].offset, slice[s].offset, n, slice)
  BY <1>1, <1>2, <1>3, HeaderFields, BoundAssumption DEF Arguments
<1>8. clean' => ArgumentsSet(heap, slice[s].array, slice[s].offset, n, slice)
  BY <1>1, <1>5, <1>6 DEF ArgumentsSet
<1> QED
  BY <1>1, <1>4, <1>5, <1>7, <1>8, CopyArrayInv

-----------------------------------------------------------------------------
\* A slice that is moved to a new array begins with what its offset reads;
\* the rest of the new array is zero.
LEMMA MovedValues ==
    ASSUME NEW mem \in Memory, NEW h \in Header, NEW b \in BOOLEAN, NEW c \in 0 .. MaxCap
    PROVE  Moved(mem, h, b, c) \in [Slot -> Value \cup {Nil}]
<1>1. ASSUME NEW i \in Slot, i < h.length
      PROVE  mem[h.array][h.offset + i] \in Value \cup {Nil}
  <2>1. h.array \in Table /\ h.offset + i \in Slot
    BY <1>1, HeaderFields, BoundAssumption DEF Slot
  <2> QED
    BY <2>1 DEF Memory
<1>2. \A i \in Slot : i \in Int /\ h.length \in Int
  BY HeaderFields, BoundAssumption DEF Slot
<1> QED
  BY <1>1, <1>2, ValueAssumption DEF Moved

LEMMA MovedSet ==
    ASSUME NEW mem \in Memory, NEW h \in Header, Backed(mem, h), NEW c \in 0 .. MaxCap,
           NEW b \in BOOLEAN, b => h.length = 0
    PROVE  \A i \in 0 .. c - 1 : Moved(mem, h, b, c)[i] # Nil
<1>1. /\ h.array \in Table /\ h.offset \in Nat /\ h.length \in Nat /\ h.capacity \in Nat
      /\ h.length <= h.capacity /\ h.offset + h.capacity <= MaxCap
  BY HeaderFields
<1>2. ASSUME NEW i \in Slot, i < h.length
      PROVE  ~ b /\ mem[h.array][h.offset + i] # Nil
  <2>1. i \in 0 .. h.capacity - 1
    BY <1>1, <1>2, BoundAssumption DEF Slot
  <2>2. h.length # 0
    BY <1>1, <1>2, BoundAssumption DEF Slot
  <2> QED
    BY <2>1, <2>2 DEF Backed
<1>3. \A i \in Slot : Moved(mem, h, b, c)[i] =
         CASE i < h.length -> IF b THEN Nil ELSE mem[h.array][h.offset + i]
           [] i >= h.length /\ i < c -> Zero
           [] OTHER -> Nil
  BY DEF Moved
<1>4. ASSUME NEW i \in 0 .. c - 1
      PROVE  Moved(mem, h, b, c)[i] # Nil
  <2>1. i \in Slot /\ i < c /\ i \in Int
    BY BoundAssumption DEF Slot
  <2>2. CASE i < h.length
    <3>1. Moved(mem, h, b, c)[i] = mem[h.array][h.offset + i]
      BY <1>1, <1>2, <1>3, <2>1, <2>2
    <3> QED
      BY <1>2, <2>1, <2>2, <3>1
  <2>3. CASE i >= h.length
    <3>1. Moved(mem, h, b, c)[i] = Zero
      BY <1>1, <1>3, <2>1, <2>3
    <3> QED
      BY <3>1, ValueAssumption
  <2> QED
    BY <1>1, <2>1, <2>2, <2>3
<1> QED
  BY <1>4

\* What append is given: n elements, not in an array that append could take
\* for a new one; and in a clean run these are set, and the slices backed.
Appended(mem, src, from, n) ==
    /\ mem \in Memory
    /\ src \in Table /\ from \in Nat /\ n \in Nat /\ from + n <= MaxCap
    /\ n > 0 => src \notin Fresh
AppendedSet(mem, src, from, n) ==
    /\ \A k \in 0 .. n - 1 : mem[src][from + k] # Nil
    /\ \A s \in Slice : Backed(mem, slice[s])

LEMMA AppendInPlaceInv ==
    ASSUME IInv, NEW mem, NEW d \in Slice, NEW s \in Slice, NEW src, NEW from, NEW n,
           NEW ints \in SUBSET Field,
           Appended(mem, src, from, n), n # 0,
           clean => AppendedSet(mem, src, from, n),
           Fits(slice[s], slice[s].length + n),
           InternalAppend(mem, d, s, src, from, n, ints)
    PROVE  IInv' /\ loop' \in Loop
<1> DEFINE h == slice[s]
           g == [h EXCEPT !.length = h.length + n]
           after == [slice EXCEPT ![d] = g]
           toBoxed == boxed[s] \cap {"offset", "length"} # {}
           fromBoxed == "offset" \in ints
           boxes == [boxed EXCEPT ![d] = boxed[s] \cup (ints \cap {"length"})]
<1>1. slice \in [Slice -> Header] /\ h \in Header /\ boxed \in Boxes /\ clean \in BOOLEAN
  BY DEF IInv, TypeOK
<1>2. /\ CopyArray(mem, h.array, src, h.offset + h.length, from, n, toBoxed, fromBoxed, after, boxes)
      /\ clean' = clean
  BY DEF InternalAppend
<1>3. n \in Nat /\ h.length + n <= h.capacity
  BY DEF Fits, Appended
<1>4. /\ h.array \in Table /\ h.offset \in Nat /\ h.length \in Nat /\ h.capacity \in Nat
      /\ h.offset + h.capacity <= MaxCap
  BY <1>1, HeaderFields
<1>5. g \in Header
  BY <1>1, <1>3, BoundAssumption DEF Header
<1>6. g.array = h.array /\ g.offset = h.offset /\ g.capacity = h.capacity
  BY <1>1 DEF Header
<1>7. clean => \A t \in Slice : Backed(mem, slice[t])
  BY DEF AppendedSet
<1>8. toBoxed \in BOOLEAN /\ fromBoxed \in BOOLEAN /\ boxes \in Boxes
  BY <1>1 DEF Boxes, Field
<1> HIDE DEF h, g, toBoxed, fromBoxed, boxes
<1>9. clean => Backed(mem, g)
  BY <1>6, <1>7 DEF Backed, h
<1>10. /\ after \in [Slice -> Header]
       /\ clean => \A t \in Slice : Backed(mem, slice[t]) /\ Backed(mem, after[t])
  BY <1>1, <1>5, <1>7, <1>9
<1> HIDE DEF after
<1>11. h.offset + h.length \in Nat /\ (h.offset + h.length) + n <= MaxCap
  BY <1>3, <1>4, BoundAssumption
<1>12. Arguments(mem, h.array, src, h.offset + h.length, from, n, after)
  BY <1>4, <1>10, <1>11 DEF Arguments, Appended
<1>13. clean' => ArgumentsSet(mem, src, from, n, after)
  BY <1>2, <1>10 DEF ArgumentsSet, AppendedSet
<1> QED
  BY <1>1, <1>2, <1>8, <1>12, <1>13, CopyArrayInv

LEMMA AppendMovingInv ==
    ASSUME IInv, NEW mem, NEW d \in Slice, NEW s \in Slice, NEW src, NEW from, NEW n,
           NEW ints \in SUBSET Field,
           Appended(mem, src, from, n), n # 0,
           clean => AppendedSet(mem, src, from, n),
           ~Fits(slice[s], slice[s].length + n),
           ~GrowthFails(slice[s], boxed[s], slice[s].length + n, "length" \in ints),
           InternalAppend(mem, d, s, src, from, n, ints)
    PROVE  IInv' /\ loop' \in Loop
<1> DEFINE h == slice[s]
           newLength == h.length + n
           c == NewCapacity(h.capacity, newLength)
           b == "offset" \in boxed[s]
           fromBoxed == "offset" \in ints
           boxes == [boxed EXCEPT ![d] = ints \cap {"length"}]
<1>1. slice \in [Slice -> Header] /\ h \in Header /\ boxed \in Boxes /\ clean \in BOOLEAN
  BY DEF IInv, TypeOK
<1>2. /\ h.array \in Table /\ h.offset \in Nat /\ h.length \in Nat /\ h.capacity \in Nat
      /\ h.length <= h.capacity /\ h.offset + h.capacity <= MaxCap
  BY <1>1, HeaderFields
<1>3. /\ n \in Nat /\ n > 0 /\ src \notin Fresh /\ mem \in Memory
      /\ clean => Backed(mem, h)
  BY DEF Appended, AppendedSet
<1>4. c <= MaxCap /\ clean' = (clean /\ (b => h.length = 0))
  BY DEF InternalAppend
<1>5. c \in 0 .. MaxCap /\ newLength \in 0 .. c
  <2>1. Grown(h.capacity) \in Nat
    BY <1>2, BoundAssumption DEF Grown
  <2> QED
    BY <1>2, <1>3, <1>4, <2>1, BoundAssumption DEF NewCapacity, Most
<1>6. b \in BOOLEAN /\ fromBoxed \in BOOLEAN /\ boxes \in Boxes
  BY <1>1 DEF Boxes, Field
<1> DEFINE f == Moved(mem, h, b, c)
           H(a) == [array |-> a, offset |-> 0, length |-> newLength, capacity |-> c]
<1>7. PICK a \in Fresh : CopyArray([mem EXCEPT ![a] = f], a, src, h.length, from, n,
                                   FALSE, fromBoxed, [slice EXCEPT ![d] = H(a)], boxes)
  BY DEF InternalAppend
<1> DEFINE new == [mem EXCEPT ![a] = f]
           after == [slice EXCEPT ![d] = H(a)]
<1> HIDE DEF b, fromBoxed, boxes
<1>8. /\ f \in [Slot -> Value \cup {Nil}]
      /\ clean' => clean /\ \A i \in 0 .. c - 1 : f[i] # Nil
  BY <1>1, <1>3, <1>4, <1>5, <1>6, MovedValues, MovedSet
<1>9. h.length \in Nat /\ h.length + n <= MaxCap
  BY <1>2, <1>4, <1>5, BoundAssumption
<1> HIDE DEF f, c, newLength, h
<1>10. a \in Array /\ a \in Table /\ \A t \in Slice : slice[t].array # a
  BY DEF Fresh, Table
<1>11. H(a) \in Header
  BY <1>5, <1>10, BoundAssumption DEF Header
<1>12. new \in Memory /\ new[a] = f /\ \A x \in Table : x # a => new[x] = mem[x]
  BY <1>3, <1>8, <1>10 DEF Memory
<1> HIDE DEF new
<1>13. clean' => Backed(new, H(a))
  BY <1>8, <1>12 DEF Backed
<1>14. clean' => \A t \in Slice : Backed(new, slice[t])
  <2>1. clean' => \A t \in Slice : Backed(mem, slice[t]) /\ slice[t].array \in Table
    BY <1>1, <1>8, HeaderFields DEF AppendedSet
  <2> QED
    BY <1>10, <1>12, <2>1 DEF Backed
<1> HIDE DEF H
<1>15. /\ after \in [Slice -> Header]
       /\ clean' => \A t \in Slice : Backed(new, slice[t]) /\ Backed(new, after[t])
  BY <1>1, <1>11, <1>13, <1>14
<1>16. CopyArray(new, a, src, h.length, from, n, FALSE, fromBoxed, after, boxes)
  BY <1>7 DEF new
<1> HIDE DEF after
<1>17. clean' => \A k \in 0 .. n - 1 : new[src][from + k] # Nil
  BY <1>3, <1>8, <1>12 DEF Appended, AppendedSet
<1>18. Arguments(new, a, src, h.length, from, n, after)
  BY <1>9, <1>10, <1>12, <1>15 DEF Arguments, Appended
<1>19. clean' => ArgumentsSet(new, src, from, n, after)
  BY <1>15, <1>17 DEF ArgumentsSet
<1>20. clean' \in BOOLEAN
  BY <1>4
<1> QED
  BY <1>1, <1>6, <1>16, <1>18, <1>19, <1>20, CopyArrayInv

\* An append that raises an error changes nothing.
LEMMA AppendFails ==
    ASSUME IInv, loop = NoLoop, UNCHANGED <<slice, boxed, heap, loop>>, clean' = FALSE
    PROVE  IInv'
BY DEF IInv, TypeOK, SlotsSet, LoopInv

LEMMA InternalAppendInv ==
    ASSUME IInv, NEW mem, NEW d \in Slice, NEW s \in Slice, NEW src, NEW from, NEW n,
           NEW ints \in SUBSET Field,
           Appended(mem, src, from, n), clean => AppendedSet(mem, src, from, n),
           loop = NoLoop, InternalAppend(mem, d, s, src, from, n, ints)
    PROVE  IInv' /\ (n # 0 /\ clean' => loop' \in Loop)
<1>1. CASE n = 0
  <2>1. /\ slice \in [Slice -> Header] /\ heap \in Memory /\ boxed \in Boxes
        /\ clean \in BOOLEAN
        /\ clean => \A t \in Slice : Backed(heap, slice[t])
    BY DEF IInv, TypeOK, SlotsSet
  <2>2. /\ slice' = [slice EXCEPT ![d] = slice[s]]
        /\ boxed' = [boxed EXCEPT ![d] = boxed[s]]
        /\ heap' = Collected(heap, slice')
        /\ loop' = NoLoop /\ clean' = clean
    BY <1>1 DEF InternalAppend
  <2>3. /\ slice' \in [Slice -> Header] /\ boxed' \in Boxes
        /\ clean' => \A t \in Slice : Backed(heap, slice'[t])
    BY <2>1, <2>2 DEF Boxes
  <2> QED
    BY <1>1, <2>1, <2>2, <2>3, AssignInv
<1>2. CASE n # 0 /\ Fits(slice[s], slice[s].length + n)
  BY <1>2, AppendInPlaceInv
<1>3. CASE /\ n # 0 /\ ~ Fits(slice[s], slice[s].length + n)
           /\ GrowthFails(slice[s], boxed[s], slice[s].length + n, "length" \in ints)
  <2>1. UNCHANGED <<slice, boxed, heap, loop>> /\ clean' = FALSE
    BY <1>3 DEF InternalAppend
  <2> QED
    BY <2>1, AppendFails
<1>4. CASE /\ n # 0 /\ ~ Fits(slice[s], slice[s].length + n)
           /\ ~ GrowthFails(slice[s], boxed[s], slice[s].length + n, "length" \in ints)
  BY <1>4, AppendMovingInv
<1> QED
  BY <1>1, <1>2, <1>3, <1>4

LEMMA AppendSliceInv ==
    ASSUME IInv, NEW d \in Slice, NEW s \in Slice, NEW t \in Slice, AppendSlice(d, s, t)
    PROVE  IInv' /\ (slice[t].length # 0 /\ clean' => loop' \in Loop)
<1> DEFINE h == slice[t]
<1>1. loop = NoLoop /\ InternalAppend(heap, d, s, h.array, h.offset, h.length, boxed[t])
  BY DEF AppendSlice
<1>2. /\ h \in Header /\ heap \in Memory /\ boxed[t] \in SUBSET Field
      /\ clean => \A r \in Slice : Backed(heap, slice[r])
  BY DEF IInv, TypeOK, SlotsSet, Boxes
<1>3. /\ h.array \in Table /\ h.offset \in Nat /\ h.length \in Nat /\ h.capacity \in Nat
      /\ h.length <= h.capacity /\ h.offset + h.capacity <= MaxCap
  BY <1>2, HeaderFields
<1>4. h.array \notin Fresh
  BY DEF Fresh
<1>5. clean => Backed(heap, h)
  BY <1>2
<1> HIDE DEF h
<1>6. h.offset + h.length <= MaxCap
  BY <1>3, BoundAssumption
<1>7. clean => \A k \in 0 .. h.length - 1 : heap[h.array][h.offset + k] # Nil
  BY <1>3, <1>5 DEF Backed
<1>8. Appended(heap, h.array, h.offset, h.length)
  BY <1>2, <1>3, <1>4, <1>6 DEF Appended
<1>9. clean => AppendedSet(heap, h.array, h.offset, h.length)
  BY <1>2, <1>7 DEF AppendedSet
<1> QED
  BY <1>1, <1>2, <1>8, <1>9, InternalAppendInv DEF h

LEMMA AppendArgsInv ==
    ASSUME IInv, NEW d \in Slice, NEW s \in Slice, NEW n \in 1 .. MaxArgs,
           NEW x \in [0 .. n - 1 -> Value], AppendArgs(d, s, n, x)
    PROVE  IInv' /\ (clean' => loop' \in Loop)
<1> DEFINE f == [i \in Slot |-> IF i < n THEN x[i] ELSE Nil]
           mem == [heap EXCEPT ![Args] = f]
<1>1. loop = NoLoop /\ InternalAppend(mem, d, s, Args, 0, n, {})
  BY DEF AppendArgs
<1>2. n \in Nat /\ 0 + n <= MaxCap /\ n # 0
  BY BoundAssumption
<1>3. Args \in Table /\ Args \notin Fresh
  BY TableAssumption DEF Table, Fresh
<1>4. f \in [Slot -> Value \cup {Nil}] /\ \A k \in 0 .. n - 1 : f[0 + k] # Nil
  <2>1. \A i \in 0 .. n - 1 : x[i] \in Value /\ i \in Slot /\ i < n /\ 0 + i = i
    BY <1>2, BoundAssumption DEF Slot
  <2>2. \A i \in Slot : i < n => i \in 0 .. n - 1
    BY <1>2, BoundAssumption DEF Slot
  <2> QED
    BY <2>1, <2>2, ValueAssumption
<1> HIDE DEF f
<1>5. mem \in Memory /\ mem[Args] = f /\ \A a \in Table : a # Args => mem[a] = heap[a]
  BY <1>3, <1>4 DEF IInv, TypeOK, Memory
<1> HIDE DEF mem
<1>6. ASSUME clean, NEW t \in Slice PROVE Backed(mem, slice[t])
  <2>1. slice[t].array \in Table /\ slice[t].array # Args
    BY HeaderFields DEF IInv, TypeOK
  <2> QED
    BY <1>5, <1>6, <2>1 DEF Backed, IInv, SlotsSet
<1>7. Appended(mem, Args, 0, n)
  BY <1>2, <1>3, <1>5 DEF Appended
<1>8. clean => AppendedSet(mem, Args, 0, n)
  BY <1>4, <1>5, <1>6 DEF AppendedSet
<1> QED
  BY <1>1, <1>2, <1>7, <1>8, InternalAppendInv

-----------------------------------------------------------------------------
\* The place of the next element, and what becomes done with it.
LEMMA PlaceFacts ==
    ASSUME NEW lp \in Loop, lp.done < lp.n,
           NEW lq, lq = [lp EXCEPT !.done = @ + 1]
    PROVE  /\ Place(lp) \in 0 .. lp.n - 1
           /\ Place(lp) \notin Done(lp)
           /\ Done(lq) = Done(lp) \cup {Place(lp)}
           /\ \A k \in 0 .. lp.n - 1 :
                 (k \notin Done(lq) /\ lp.dst = lp.src) => lp.to + Place(lp) # lp.from + k
<1>1. lp.n \in Nat /\ lp.done \in Nat /\ lp.to \in Nat /\ lp.from \in Nat
  BY DEF Loop
<1>2. lq.n = lp.n /\ lq.done = lp.done + 1 /\ lq.dst = lp.dst /\ lq.src = lp.src
        /\ lq.to = lp.to /\ lq.from = lp.from
  BY DEF Loop
<1>3. CASE lp.dst = lp.src /\ lp.to > lp.from
  <2>1. Place(lp) = lp.n - 1 - lp.done
    BY <1>3 DEF Place
  <2>2. Done(lp) = {k \in 0 .. lp.n - 1 : k >= lp.n - lp.done}
    BY <1>3 DEF Done
  <2>3. Done(lq) = {k \in 0 .. lp.n - 1 : k >= lp.n - (lp.done + 1)}
    BY <1>2, <1>3 DEF Done
  <2> QED
    BY <1>1, <1>3, <2>1, <2>2, <2>3
<1>4. CASE ~(lp.dst = lp.src /\ lp.to > lp.from)
  <2>1. Place(lp) = lp.done
    BY <1>4 DEF Place
  <2>2. Done(lp) = {k \in 0 .. lp.n - 1 : k < lp.done}
    BY <1>4 DEF Done
  <2>3. Done(lq) = {k \in 0 .. lp.n - 1 : k < lp.done + 1}
    BY <1>2, <1>4 DEF Done
  <2> QED
    BY <1>1, <1>4, <2>1, <2>2, <2>3
<1> QED
  BY <1>3, <1>4

\* One turn of a loop that reads and writes elements.
LEMMA PlainTurn ==
    ASSUME TypeOK, loop # NoLoop, loop.done < loop.n, Plain(loop),
           InRange(loop), Footprint(heap, loop), Progress(heap, loop),
           NEW lq, lq = [loop EXCEPT !.done = @ + 1],
           NEW mem, mem = Stored(heap, loop, Place(loop))
    PROVE  /\ mem \in Memory
           /\ Progress(mem, lq) /\ Footprint(mem, lq)
           /\ (\A k \in 0 .. loop.n - 1 : loop.old[loop.src][loop.from + k] # Nil) =>
                 \A a \in Table, i \in Slot : heap[a][i] # Nil => mem[a][i] # Nil
<1> DEFINE p == Place(loop)
           to == loop.to + p
           from == loop.from + p
<1>1. /\ loop \in Loop /\ heap \in Memory
      /\ mem = [heap EXCEPT ![loop.dst][to] = heap[loop.src][from]]
  BY DEF TypeOK, Plain, Stored
<1>2. InRange(loop) /\ Footprint(heap, loop) /\ Progress(heap, loop)
  OBVIOUS
<1>3. /\ loop.dst \in Table /\ loop.src \in Table /\ loop.old \in Memory
      /\ loop.n \in Nat /\ loop.done \in Nat /\ loop.to \in Nat /\ loop.from \in Nat
  BY <1>1 DEF Loop
<1>4. /\ lq.n = loop.n /\ lq.done = loop.done + 1 /\ lq.dst = loop.dst /\ lq.src = loop.src
      /\ lq.to = loop.to /\ lq.from = loop.from /\ lq.old = loop.old
      /\ lq.toBoxed = loop.toBoxed
  BY <1>1, <1>3 DEF Loop
<1>5. /\ p \in 0 .. loop.n - 1
      /\ p \notin Done(loop)
      /\ Done(lq) = Done(loop) \cup {p}
      /\ \A k \in 0 .. loop.n - 1 :
            (k \notin Done(lq) /\ loop.dst = loop.src) => loop.to + p # loop.from + k
  BY <1>1, PlaceFacts
<1> HIDE DEF p
<1>6. to \in Slot /\ from \in Slot
  BY <1>2, <1>3, <1>5, BoundAssumption DEF InRange, Slot
<1>7. heap[loop.src][from] = loop.old[loop.src][from]
  BY <1>2, <1>5 DEF Progress
<1>8. mem \in Memory
  BY <1>1, <1>3, <1>6 DEF Memory
<1>9. \A a \in Table, i \in Slot :
         mem[a][i] = IF a = loop.dst /\ i = to THEN heap[loop.src][from] ELSE heap[a][i]
  BY <1>1, <1>3, <1>6 DEF Memory
<1>10. Progress(mem, lq)
  <2>1. ASSUME NEW k \in Done(lq)
        PROVE  mem[lq.dst][lq.to + k] = lq.old[lq.src][lq.from + k]
    <3>1. k \in 0 .. loop.n - 1 /\ loop.to + k \in Slot
      BY <1>2, <1>3, <1>4, <1>5, BoundAssumption DEF InRange, Slot, Done
    <3>2. CASE k = p
      BY <1>3, <1>4, <1>7, <1>9, <3>1, <3>2
    <3>3. CASE k # p
      <4>1. heap[loop.dst][loop.to + k] = loop.old[loop.src][loop.from + k]
        BY <1>2, <1>5, <3>3 DEF Progress
      <4>2. loop.to + k # to
        BY <1>3, <1>5, <3>1, <3>3
      <4> QED
        BY <1>3, <1>4, <1>9, <3>1, <4>1, <4>2
    <3> QED
      BY <3>2, <3>3
  <2>2. ASSUME NEW k \in 0 .. lq.n - 1, k \notin Done(lq)
        PROVE  mem[lq.src][lq.from + k] = lq.old[lq.src][lq.from + k]
    <3>1. k \in 0 .. loop.n - 1 /\ loop.from + k \in Slot /\ k \notin Done(loop)
      BY <1>2, <1>3, <1>4, <1>5, <2>2, BoundAssumption DEF InRange, Slot
    <3>2. ~(loop.src = loop.dst /\ loop.from + k = to)
      BY <1>5, <2>2, <3>1
    <3>3. heap[loop.src][loop.from + k] = loop.old[loop.src][loop.from + k]
      BY <1>2, <3>1 DEF Progress
    <3> QED
      BY <1>3, <1>4, <1>9, <3>1, <3>2, <3>3
  <2> QED
    BY <2>1, <2>2 DEF Progress
<1>11. ASSUME NEW a \in Table, NEW i \in Slot, <<a, i>> \notin Targets(lq)
       PROVE  mem[a][i] = lq.old[a][i]
  <2>1. Targets(lq) = Targets(loop)
    BY <1>4 DEF Targets
  <2>2. <<loop.dst, to>> \in Targets(loop)
    BY <1>5 DEF Targets, Plain
  <2>3. ~(a = loop.dst /\ i = to)
    BY <1>11, <2>1, <2>2
  <2>4. heap[a][i] = loop.old[a][i]
    BY <1>2, <1>11, <2>1 DEF Footprint
  <2> QED
    BY <1>4, <1>9, <2>3, <2>4
<1>12. ASSUME \A k \in 0 .. loop.n - 1 : loop.old[loop.src][loop.from + k] # Nil,
              NEW a \in Table, NEW i \in Slot, heap[a][i] # Nil
       PROVE  mem[a][i] # Nil
  BY <1>5, <1>7, <1>9, <1>12
<1> QED
  BY <1>8, <1>10, <1>11, <1>12 DEF Footprint

\* One turn of a loop with an object for an offset.
LEMMA BoxedTurn ==
    ASSUME TypeOK, loop # NoLoop, loop.done < loop.n, ~ Plain(loop),
           InRange(loop), Footprint(heap, loop),
           NEW lq, lq = [loop EXCEPT !.done = @ + 1],
           NEW mem, mem = Stored(heap, loop, Place(loop))
    PROVE  mem \in Memory /\ Footprint(mem, lq)
<1> DEFINE p == Place(loop)
           to == loop.to + p
<1>1. loop \in Loop /\ heap \in Memory
  BY DEF TypeOK
<1>2. /\ loop.dst \in Table /\ loop.n \in Nat /\ loop.to \in Nat
      /\ lq.n = loop.n /\ lq.dst = loop.dst /\ lq.to = loop.to /\ lq.old = loop.old
      /\ lq.toBoxed = loop.toBoxed
  BY <1>1 DEF Loop
<1>3. Targets(lq) = Targets(loop)
  BY <1>2 DEF Targets
<1>4. p \in 0 .. loop.n - 1
  BY <1>1, PlaceFacts
<1> HIDE DEF p
<1>5. CASE loop.toBoxed
  BY <1>1, <1>2, <1>3, <1>5 DEF Stored, Footprint
<1>6. CASE ~ loop.toBoxed
  <2>1. to \in Slot /\ <<loop.dst, to>> \in Targets(loop)
    BY <1>2, <1>4, <1>6, BoundAssumption DEF InRange, Slot, Targets
  <2>2. mem = [heap EXCEPT ![loop.dst][to] = Nil]
    BY <1>6 DEF Stored, Plain, p
  <2>3. mem \in Memory
    BY <1>1, <1>2, <2>1, <2>2 DEF Memory
  <2>4. ASSUME NEW a \in Table, NEW i \in Slot, <<a, i>> \notin Targets(lq)
        PROVE  mem[a][i] = lq.old[a][i]
    <3>1. ~(a = loop.dst /\ i = to)
      BY <1>3, <2>1, <2>4
    <3>2. mem[a][i] = heap[a][i]
      BY <1>1, <1>2, <2>1, <2>2, <3>1 DEF Memory
    <3> QED
      BY <1>2, <1>3, <2>4, <3>2 DEF Footprint
  <2> QED
    BY <2>3, <2>4 DEF Footprint
<1> QED
  BY <1>5, <1>6

LEMMA CopyElementInv ==
    ASSUME IInv, CopyElement
    PROVE  IInv'
<1> DEFINE lq == [loop EXCEPT !.done = @ + 1]
           mem == Stored(heap, loop, Place(loop))
<1>1. /\ loop # NoLoop /\ loop \in Loop /\ loop.done < loop.n
      /\ slice \in [Slice -> Header] /\ boxed \in Boxes /\ clean \in BOOLEAN
      /\ heap' = mem /\ loop' = lq /\ slice' = slice /\ boxed' = boxed
      /\ clean' = (clean /\ Plain(loop))
  BY DEF CopyElement, IInv, TypeOK, Plain
<1>2. /\ TypeOK /\ InRange(loop) /\ Footprint(heap, loop)
      /\ clean \/ Plain(loop) => Progress(heap, loop)
      /\ clean => Filled(loop)
  BY <1>1 DEF IInv, LoopInv
<1>3. /\ lq \in Loop
      /\ lq.n = loop.n /\ lq.done = loop.done + 1 /\ lq.dst = loop.dst /\ lq.src = loop.src
      /\ lq.to = loop.to /\ lq.from = loop.from /\ lq.old = loop.old /\ lq.after = loop.after
      /\ lq.toBoxed = loop.toBoxed /\ lq.fromBoxed = loop.fromBoxed
      /\ loop.n \in Nat /\ loop.done \in Nat
  BY <1>1 DEF Loop
<1>4. mem \in Memory /\ Footprint(mem, lq) /\ (Plain(loop) => Progress(mem, lq))
  BY <1>1, <1>2, PlainTurn, BoxedTurn
<1>5. clean' => \A a \in Table, i \in Slot : heap[a][i] # Nil => mem[a][i] # Nil
  BY <1>1, <1>2, PlainTurn DEF Filled
<1> HIDE DEF lq, mem
<1>6. TypeOK'
  BY <1>1, <1>3, <1>4 DEF TypeOK
<1>7. SlotsSet'
  <2>1. SlotsSet' <=> (clean' => \A s \in Slice : Backed(heap', slice'[s]))
    BY DEF SlotsSet, Backed
  <2>2. ASSUME clean', NEW s \in Slice, NEW k \in 0 .. slice[s].capacity - 1
        PROVE  heap'[slice[s].array][slice[s].offset + k] # Nil
    <3>1. slice[s].array \in Table /\ slice[s].offset + k \in Slot
      BY <1>1, HeaderFields, BoundAssumption DEF Slot
    <3>2. heap[slice[s].array][slice[s].offset + k] # Nil
      BY <1>1, <2>2 DEF IInv, SlotsSet, Backed
    <3> QED
      BY <1>1, <1>5, <2>2, <3>1, <3>2
  <2> QED
    BY <1>1, <2>1, <2>2 DEF Backed
<1>8. LoopInv'
  <2>1. /\ InRange(loop)' <=> InRange(loop')
        /\ Plain(loop)' <=> Plain(loop')
    BY DEF InRange, Plain
  <2>2. /\ Progress(heap, loop)' <=> Progress(heap', loop')
        /\ Footprint(heap, loop)' <=> Footprint(heap', loop')
    BY DEF Progress, Done, Targets, Footprint
  <2>3. Filled(loop)' <=>
          /\ \A k \in 0 .. loop'.n - 1 : loop'.old[loop'.src][loop'.from + k] # Nil
          /\ \A s \in Slice : Backed(loop'.old, slice'[s]) /\ Backed(loop'.old, loop'.after[s])
    BY DEF Filled, Backed
  <2>4. InRange(lq) /\ (Plain(lq) <=> Plain(loop))
    BY <1>1, <1>2, <1>3 DEF InRange, Plain
  <2>5. clean' => Filled(loop)'
    BY <1>1, <1>2, <1>3, <2>3 DEF Filled
  <2> QED
    BY <1>1, <1>4, <2>1, <2>2, <2>4, <2>5 DEF LoopInv
<1> QED
  BY <1>6, <1>7, <1>8 DEF IInv

\* Once everything is done, every slot that was set is set.
LEMMA ReturnInv ==
    ASSUME IInv, Return
    PROVE  IInv'
<1>1. /\ loop # NoLoop /\ loop \in Loop /\ loop.done = loop.n
      /\ heap \in Memory
      /\ slice' = loop.after /\ heap' = Collected(heap, slice') /\ loop' = NoLoop
      /\ boxed' = loop.boxes /\ clean' = clean /\ clean \in BOOLEAN
  BY DEF Return, IInv, TypeOK
<1>2. InRange(loop) /\ Footprint(heap, loop) /\ (clean => Filled(loop) /\ Progress(heap, loop))
  BY <1>1 DEF IInv, LoopInv
<1>3. loop.after \in [Slice -> Header] /\ loop.n \in Nat /\ loop.boxes \in Boxes
  BY <1>1 DEF Loop
<1>4. Done(loop) = 0 .. loop.n - 1
  BY <1>1, <1>3 DEF Done
<1>5. ASSUME clean, NEW a \in Table, NEW i \in Slot, loop.old[a][i] # Nil
      PROVE  heap[a][i] # Nil
  <2>1. CASE <<a, i>> \in Targets(loop)
    <3>1. PICK k \in 0 .. loop.n - 1 : a = loop.dst /\ i = loop.to + k
      BY <2>1 DEF Targets
    <3> QED
      BY <1>2, <1>4, <1>5, <3>1 DEF Progress, Filled
  <2>2. CASE <<a, i>> \notin Targets(loop)
    BY <1>2, <1>5, <2>2 DEF Footprint
  <2> QED
    BY <2>1, <2>2
<1>6. ASSUME clean, NEW s \in Slice
      PROVE  Backed(heap, loop.after[s])
  <2>1. loop.after[s] \in Header
    BY <1>3
  <2>2. SUFFICES ASSUME NEW k \in 0 .. loop.after[s].capacity - 1
                 PROVE  heap[loop.after[s].array][loop.after[s].offset + k] # Nil
    BY DEF Backed
  <2>3. loop.after[s].array \in Table /\ loop.after[s].offset + k \in Slot
    BY <2>1, HeaderFields, BoundAssumption DEF Slot
  <2> QED
    BY <1>2, <1>5, <1>6, <2>3 DEF Filled, Backed
<1>7. slice' \in [Slice -> Header] /\ (clean' => \A s \in Slice : Backed(heap, slice'[s]))
  BY <1>1, <1>3, <1>6
<1> QED
  BY <1>1, <1>3, <1>7, AssignInv

LEMMA NextInv == IInv /\ [Next]_vars => IInv'
<1> SUFFICES ASSUME IInv, [Next]_vars PROVE IInv'
  OBVIOUS
<1>1. ASSUME NEW d \in Slice, NEW length \in 0 .. MaxCap, NEW capacity \in 0 .. MaxCap,
             Make(d, length, capacity)
      PROVE  IInv'
  BY <1>1, MakeInv
<1>2. ASSUME NEW d \in Slice, NEW s \in Slice, NEW low \in 0 .. MaxCap,
             NEW high \in 0 .. MaxCap \cup {Nil}, NEW max \in 0 .. MaxCap \cup {Nil},
             NEW ints \in SUBSET Field, Reslice(d, s, low, high, max, ints)
      PROVE  IInv'
  BY <1>2, ResliceInv
<1>3. ASSUME NEW d \in Slice, NEW s \in Slice, Copy(d, s)
      PROVE  IInv'
  BY <1>3, CopyInv
<1>4. ASSUME NEW d \in Slice, NEW n \in 1 .. MaxArgs, NEW x \in [0 .. n - 1 -> Value],
             Literal(d, n, x)
      PROVE  IInv'
  BY <1>4, LiteralInv
<1>5. ASSUME NEW d \in Slice, NEW s \in Slice, NEW n \in 1 .. MaxArgs,
             NEW x \in [0 .. n - 1 -> Value], AppendArgs(d, s, n, x)
      PROVE  IInv'
  BY <1>5, AppendArgsInv
<1>6. ASSUME NEW d \in Slice, NEW s \in Slice, NEW t \in Slice, AppendSlice(d, s, t)
      PROVE  IInv'
  BY <1>6, AppendSliceInv
<1>7. ASSUME NEW s \in Slice, NEW k \in Slot, NEW v \in Value \cup Read, Write(s, k, v)
      PROVE  IInv'
  <2>1. v \in Value \cup {Nil}
    BY ReadValues DEF IInv
  <2> QED
    BY <1>7, <2>1, WriteInv
<1>8. CASE UNCHANGED vars
  BY <1>8 DEF vars, IInv, TypeOK, SlotsSet, LoopInv, Backed, InRange, Filled, Progress,
              Done, Targets, Footprint, Plain
<1> QED
  BY <1>1, <1>2, <1>3, <1>4, <1>5, <1>6, <1>7, <1>8, CopyElementInv, ReturnInv
     DEF Next, Cut, New, Use

\* Headers stay within their arrays and lengths within capacities.
THEOREM SlicesTypeOK == Spec => []TypeOK
<1>1. IInv => TypeOK
  BY DEF IInv
<1> QED
  BY <1>1, InitInv, NextInv, PTL DEF Spec

\* Whatever was made, cut and grown before and whatever numbers of the headers
\* are int64, every slot that a slice may reach was set until an element is
\* lost: an index that passes the check of __valueSliceMT finds a value there.
THEOREM SlotsAreSet == Spec => []SlotsSet
<1>1. IInv => SlotsSet
  BY DEF IInv
<1> QED
  BY <1>1, InitInv, NextInv, PTL DEF Spec

\* copy and append between offsets that are Lua numbers assign all elements at
\* once, as it were, whatever the overlap; they touch nothing else, and with an
\* int64 for the offset of the target nothing at all.
THEOREM CopyAtOnce == Spec => []CopyIsSimultaneous
<1>1. IInv => CopyIsSimultaneous
  <2> SUFFICES ASSUME IInv, loop # NoLoop PROVE CopyIsSimultaneous
    BY DEF CopyIsSimultaneous
  <2>1. loop \in Loop /\ Footprint(heap, loop) /\ (Plain(loop) => Progress(heap, loop))
    BY DEF IInv, TypeOK, LoopInv
  <2>2. loop.done = loop.n => Done(loop) = 0 .. loop.n - 1
    BY <2>1 DEF Loop, Done
  <2> QED
    BY <2>1, <2>2 DEF Progress, Footprint, Plain, CopyIsSimultaneous
<1> QED
  BY <1>1, InitInv, NextInv, PTL DEF Spec

-----------------------------------------------------------------------------
\* The memory a program sees: while a loop runs, the one before the call.
Seen == IF loop = NoLoop THEN heap ELSE loop.old

\* The cells of a header.
Run(h) == {h.array} \X (h.offset .. h.offset + h.capacity - 1)

LEMMA CellFacts ==
    ASSUME NEW h \in Header
    PROVE  /\ DOMAIN Cell(h) = 0 .. h.capacity - 1
           /\ \A k \in 0 .. h.capacity - 1 : Cell(h)[k] = <<h.array, h.offset + k>>
           /\ {Cell(h)[k] : k \in DOMAIN Cell(h)} = Run(h)
<1>1. h.offset \in Nat /\ h.capacity \in Nat
  BY HeaderFields
<1>2. ASSUME NEW x \in Run(h) PROVE \E k \in 0 .. h.capacity - 1 : x = <<h.array, h.offset + k>>
  <2>1. PICK i \in h.offset .. h.offset + h.capacity - 1 : x = <<h.array, i>>
    BY <1>2 DEF Run
  <2>2. i - h.offset \in 0 .. h.capacity - 1 /\ i = h.offset + (i - h.offset)
    BY <1>1
  <2> QED
    BY <2>1, <2>2
<1>3. ASSUME NEW k \in 0 .. h.capacity - 1 PROVE <<h.array, h.offset + k>> \in Run(h)
  <2>1. h.offset + k \in h.offset .. h.offset + h.capacity - 1
    BY <1>1
  <2> QED
    BY <2>1 DEF Run
<1>4. DOMAIN Cell(h) = 0 .. h.capacity - 1 /\ \A k \in 0 .. h.capacity - 1 : Cell(h)[k] = <<h.array, h.offset + k>>
  BY DEF Cell
<1> QED
  BY <1>2, <1>3, <1>4

\* The state functions of GoSlices in terms of headers.
LEMMA GoCells ==
    ASSUME slice \in [Slice -> Header]
    PROVE  /\ \A s \in Slice : Go!CellsOf(s) = Run(slice[s])
           /\ Go!Reachable = Cells
<1>1. ASSUME NEW s \in Slice PROVE Go!CellsOf(s) = Run(slice[s])
  <2>1. slice[s] \in Header
    OBVIOUS
  <2>2. Go!CellsOf(s) = {Cell(slice[s])[k] : k \in DOMAIN Cell(slice[s])}
    BY DEF Go!CellsOf
  <2> QED
    BY <2>1, <2>2, CellFacts
<1>2. Go!Reachable = UNION {Run(slice[s]) : s \in Slice}
  BY <1>1 DEF Go!Reachable
<1> QED
  BY <1>1, <1>2 DEF Cells, Run

LEMMA GoCellsNext ==
    ASSUME slice' \in [Slice -> Header]
    PROVE  /\ \A s \in Slice : Go!CellsOf(s)' = Run(slice'[s])
           /\ Go!Reachable' = Cells'
<1>1. ASSUME NEW s \in Slice PROVE Go!CellsOf(s)' = Run(slice'[s])
  <2>1. slice'[s] \in Header
    OBVIOUS
  <2>2. Go!CellsOf(s)' = {Cell(slice'[s])[k] : k \in DOMAIN Cell(slice'[s])}
    BY DEF Go!CellsOf, Cell
  <2> QED
    BY <2>1, <2>2, CellFacts
<1>2. Go!Reachable' = UNION {Run(slice'[s]) : s \in Slice}
  BY <1>1 DEF Go!Reachable
<1> QED
  BY <1>1, <1>2 DEF Cells, Run

LEMMA GoAssign ==
    ASSUME NEW d \in Slice, NEW g, slice \in [Slice -> Header],
           slice' = [slice EXCEPT ![d] = g]
    PROVE  Go!Assign(d, Cell(g), g.length)
<1>1. \A s \in Slice : slice'[s] = IF s = d THEN g ELSE slice[s]
  OBVIOUS
<1>2. [s \in Slice |-> Cell(slice'[s])] = [[s \in Slice |-> Cell(slice[s])] EXCEPT ![d] = Cell(g)]
  BY <1>1
<1>3. [s \in Slice |-> slice'[s].length] = [[s \in Slice |-> slice[s].length] EXCEPT ![d] = g.length]
  BY <1>1
<1> QED
  BY <1>2, <1>3 DEF Go!Assign, Cell

\* What the program sees at a cell.
LEMMA GoKeeps ==
    ASSUME NEW S, slice \in [Slice -> Header], slice' \in [Slice -> Header],
           \A x \in (Cells \cap Cells') \ S : Seen'[x[1]][x[2]] = Seen[x[1]][x[2]]
    PROVE  Go!KeepsAllBut(S)
BY GoCells, GoCellsNext DEF Go!KeepsAllBut, Seen

LEMMA GoStutter ==
    ASSUME slice' = slice, slice \in [Slice -> Header],
           \A x \in Cells : Seen'[x[1]][x[2]] = Seen[x[1]][x[2]]
    PROVE  UNCHANGED Go!vars
<1>1. Cells' = Cells
  BY DEF Cells
<1>2. [x \in Cells' |-> Seen'[x[1]][x[2]]] = [x \in Cells |-> Seen[x[1]][x[2]]]
  BY <1>1
<1> QED
  BY <1>2 DEF Go!vars, Seen, Cell

\* After a step that leaves no loop, the program sees the memory collected.
LEMMA SeenCollected ==
    ASSUME NEW mem \in Memory, slice' \in [Slice -> Header],
           heap' = Collected(mem, slice'), loop' = NoLoop
    PROVE  \A x \in Cells' : Seen'[x[1]][x[2]] = mem[x[1]][x[2]]
<1> TAKE x \in Cells'
<1>1. PICK s \in Slice : x \in Run(slice'[s])
  BY DEF Cells, Run
<1>2. x[1] = slice'[s].array /\ x[1] \in Table
  BY <1>1, HeaderFields DEF Run
<1>3. heap'[x[1]] = mem[x[1]]
  BY <1>2 DEF Collected
<1> QED
  BY <1>3 DEF Seen

\* The elements of a slice, as the program sees them.
LEMMA GoElements ==
    ASSUME slice \in [Slice -> Header], NEW s \in Slice
    PROVE  /\ Go!Elements(s) = [k \in 0 .. slice[s].length - 1 |->
                                  Seen[slice[s].array][slice[s].offset + k]]
           /\ \A k \in 0 .. slice[s].capacity - 1 : <<slice[s].array, slice[s].offset + k>> \in Cells
<1> DEFINE h == slice[s]
<1>1. h \in Header /\ h.length \in Nat /\ h.capacity \in Nat /\ h.length <= h.capacity /\ h.offset \in Nat
  BY HeaderFields
<1>2. ASSUME NEW k \in 0 .. h.capacity - 1
      PROVE  Cell(h)[k] = <<h.array, h.offset + k>> /\ <<h.array, h.offset + k>> \in Cells
  <2>1. Cell(h)[k] = <<h.array, h.offset + k>> /\ Cell(h)[k] \in Run(h)
    BY <1>1, CellFacts
  <2>2. \A x \in Run(h) : x \in Cells
    BY DEF Run, Cells
  <2> QED
    BY <2>1, <2>2
<1>3. ASSUME NEW k \in 0 .. h.length - 1
      PROVE  [x \in Cells |-> Seen[x[1]][x[2]]][Cell(h)[k]] = Seen[h.array][h.offset + k]
  <2>1. k \in 0 .. h.capacity - 1
    BY <1>1
  <2>2. Cell(h)[k] = <<h.array, h.offset + k>> /\ Cell(h)[k] \in Cells
    BY <1>2, <2>1
  <2> QED
    BY <2>2
<1>4. Go!Elements(s) = [k \in 0 .. h.length - 1 |-> [x \in Cells |-> Seen[x[1]][x[2]]][Cell(h)[k]]]
  BY DEF Go!Elements, Seen
<1> QED
  BY <1>2, <1>3, <1>4

\* The cells of the slices after a step.
NextCell == [s \in Slice |-> Cell(slice'[s])]

LEMMA GoAssignNewDef ==
    ASSUME NEW d \in Slice, NEW n
    PROVE  Go!AssignNew(d, n) <=>
             /\ Go!Assign(d, NextCell[d], n)
             /\ \A k, j \in DOMAIN NextCell[d] : k # j => NextCell[d][k] # NextCell[d][j]
             /\ Go!CellsOf(d)' \cap Go!Reachable = {}
BY DEF Go!AssignNew, NextCell, Cell

\* d gets cells of its own.
LEMMA GoAssignNew ==
    ASSUME NEW d \in Slice, NEW g \in Header,
           slice \in [Slice -> Header], slice' = [slice EXCEPT ![d] = g],
           \A s \in Slice : slice[s].array # g.array,
           \A x \in Cells \cap Cells' : x[1] # g.array => Seen'[x[1]][x[2]] = Seen[x[1]][x[2]]
    PROVE  Go!AssignNew(d, g.length) /\ Go!KeepsAllBut({})
<1>1. slice' \in [Slice -> Header] /\ slice'[d] = g
  OBVIOUS
<1>2. Go!Assign(d, Cell(g), g.length)
  BY GoAssign
<1>3. NextCell[d] = Cell(g)
  BY <1>1 DEF NextCell
<1>4. \A k, j \in DOMAIN Cell(g) : k # j => Cell(g)[k] # Cell(g)[j]
  <2>1. g.offset \in Nat /\ g.capacity \in Nat
    BY HeaderFields
  <2>2. SUFFICES ASSUME NEW k \in 0 .. g.capacity - 1, NEW j \in 0 .. g.capacity - 1, k # j
                 PROVE  Cell(g)[k] # Cell(g)[j]
    BY CellFacts
  <2>3. g.offset + k # g.offset + j
    BY <2>1, <2>2
  <2> QED
    BY <2>3, CellFacts
<1>5. Go!CellsOf(d)' = Run(g) /\ Go!Reachable = Cells
  BY <1>1, GoCells, GoCellsNext
<1>6. \A x \in Cells : x[1] # g.array
  BY DEF Cells
<1>7. \A x \in Run(g) : x[1] = g.array
  BY DEF Run
<1>8. Run(g) \cap Cells = {}
  BY <1>6, <1>7
<1>9. Go!AssignNew(d, g.length)
  BY <1>2, <1>3, <1>4, <1>5, <1>8, GoAssignNewDef
<1>10. Go!KeepsAllBut({})
  BY <1>1, <1>6, GoKeeps
<1> QED
  BY <1>9, <1>10

\* A new array of n slots for d alone.
Allot(d, a, f, length, n, g) ==
    /\ a \in Fresh /\ f \in [Slot -> Value \cup {Nil}]
    /\ length \in 0 .. MaxCap /\ n \in 0 .. MaxCap /\ length <= n
    /\ loop = NoLoop /\ loop' = NoLoop
    /\ g = [array |-> a, offset |-> 0, length |-> length, capacity |-> n]
    /\ slice' = [slice EXCEPT ![d] = g]
    /\ heap' = Collected([heap EXCEPT ![a] = f], slice')

LEMMA GoNewArray ==
    ASSUME IInv, NEW d \in Slice, NEW a, NEW f, NEW length, NEW n, NEW g,
           Allot(d, a, f, length, n, g)
    PROVE  /\ Go!AssignNew(d, length) /\ Go!KeepsAllBut({})
           /\ slice' \in [Slice -> Header] /\ slice'[d] = g
           /\ \A x \in Run(g) : x \in Cells' /\ Seen'[x[1]][x[2]] = f[x[2]]
           /\ Go!CellsOf(d)' = Run(g)
<1>0. /\ a \in Fresh /\ f \in [Slot -> Value \cup {Nil}]
      /\ length \in 0 .. MaxCap /\ n \in 0 .. MaxCap /\ length <= n
      /\ loop = NoLoop /\ loop' = NoLoop
      /\ g = [array |-> a, offset |-> 0, length |-> length, capacity |-> n]
      /\ slice' = [slice EXCEPT ![d] = g]
      /\ heap' = Collected([heap EXCEPT ![a] = f], slice')
  BY DEF Allot
<1>1. a \in Array /\ a \in Table /\ \A s \in Slice : slice[s].array # a
  BY <1>0 DEF Fresh, Table
<1>2. g \in Header /\ g.array = a /\ g.length = length
  BY <1>0, <1>1, BoundAssumption DEF Header
<1>3. slice \in [Slice -> Header] /\ heap \in Memory
  BY DEF IInv, TypeOK
<1>4. slice' \in [Slice -> Header] /\ slice'[d] = g
  BY <1>0, <1>2, <1>3
<1> DEFINE mem == [heap EXCEPT ![a] = f]
<1>5. mem \in Memory /\ mem[a] = f /\ \A b \in Table : b # a => mem[b] = heap[b]
  BY <1>0, <1>1, <1>3 DEF Memory
<1>6. heap' = Collected(mem, slice')
  BY <1>0
<1> HIDE DEF mem
<1>7. \A x \in Cells' : Seen'[x[1]][x[2]] = mem[x[1]][x[2]]
  BY <1>0, <1>4, <1>5, <1>6, SeenCollected
<1>8. \A x \in Cells : x[1] \in Table /\ x[1] # a
  BY <1>1, <1>3, HeaderFields DEF Cells
<1>9. \A x \in Cells \cap Cells' : Seen'[x[1]][x[2]] = Seen[x[1]][x[2]]
  BY <1>0, <1>5, <1>7, <1>8 DEF Seen
<1>10. Go!AssignNew(d, g.length) /\ Go!KeepsAllBut({})
  BY <1>0, <1>1, <1>2, <1>3, <1>9, GoAssignNew
<1>11. \A x \in Run(g) : x \in Cells' /\ x[1] = a
  <2>1. \A x \in Run(slice'[d]) : x \in Cells'
    BY DEF Run, Cells
  <2> QED
    BY <1>2, <1>4, <2>1 DEF Run
<1>12. Go!CellsOf(d)' = Run(g)
  BY <1>4, GoCellsNext
<1> QED
  BY <1>2, <1>4, <1>5, <1>7, <1>10, <1>11, <1>12

LEMMA GoMake ==
    ASSUME IInv, NEW d \in Slice, NEW length \in 0 .. MaxCap, NEW capacity \in 0 .. MaxCap,
           Make(d, length, capacity)
    PROVE  Go!Make(d)
<1> DEFINE f == [i \in Slot |-> IF i < capacity THEN Zero ELSE Nil]
           G(a) == [array |-> a, offset |-> 0, length |-> length, capacity |-> capacity]
<1>1. PICK a \in Fresh :
         /\ slice' = [slice EXCEPT ![d] = G(a)]
         /\ heap' = Collected([heap EXCEPT ![a] = f], slice')
  BY DEF Make
<1>2. f \in [Slot -> Value \cup {Nil}] /\ \A i \in 0 .. capacity - 1 : f[i] = Zero
  BY ValueAssumption, BoundAssumption DEF Slot
<1>3. length <= capacity /\ loop = NoLoop /\ loop' = NoLoop
  BY DEF Make
<1> DEFINE g == G(a)
<1>4. g = [array |-> a, offset |-> 0, length |-> length, capacity |-> capacity]
  OBVIOUS
<1>5. slice' = [slice EXCEPT ![d] = g]
  BY <1>1
<1> HIDE DEF f, g, G
<1>6. /\ Go!AssignNew(d, length) /\ Go!KeepsAllBut({})
      /\ slice' \in [Slice -> Header] /\ slice'[d] = g
      /\ \A x \in Run(g) : x \in Cells' /\ Seen'[x[1]][x[2]] = f[x[2]]
      /\ Go!CellsOf(d)' = Run(g)
  <2>1. Allot(d, a, f, length, capacity, g)
    BY <1>1, <1>2, <1>3, <1>4, <1>5 DEF Allot
  <2> QED
    BY <2>1, GoNewArray
<1>7. \A x \in Run(g) : x[2] \in 0 .. capacity - 1
  BY <1>4 DEF Run
<1>8. \A x \in Run(g) : [y \in Cells' |-> Seen'[y[1]][y[2]]][x] = Zero
  BY <1>2, <1>6, <1>7
<1>9. [s \in Slice |-> slice'[s].length][d] = length
  BY <1>4, <1>6
<1> QED
  BY <1>6, <1>8, <1>9 DEF Go!Make, Seen

LEMMA GoLiteral ==
    ASSUME IInv, NEW d \in Slice, NEW n \in 1 .. MaxArgs, NEW x \in [0 .. n - 1 -> Value],
           Literal(d, n, x)
    PROVE  Go!Literal(d)
<1> DEFINE f == [i \in Slot |-> IF i < n THEN x[i] ELSE Nil]
           G(a) == [array |-> a, offset |-> 0, length |-> n, capacity |-> n]
<1>1. PICK a \in Fresh :
         /\ slice' = [slice EXCEPT ![d] = G(a)]
         /\ heap' = Collected([heap EXCEPT ![a] = f], slice')
  BY DEF Literal
<1>2. n \in 0 .. MaxCap /\ n <= n
  BY BoundAssumption
<1>3. f \in [Slot -> Value \cup {Nil}]
  BY <1>2, BoundAssumption DEF Slot
<1>4. loop = NoLoop /\ loop' = NoLoop
  BY DEF Literal
<1> DEFINE g == G(a)
<1>5. g = [array |-> a, offset |-> 0, length |-> n, capacity |-> n]
  OBVIOUS
<1>6. slice' = [slice EXCEPT ![d] = g]
  BY <1>1
<1> HIDE DEF f, g, G
<1>7. /\ Go!AssignNew(d, n) /\ Go!KeepsAllBut({})
      /\ slice' \in [Slice -> Header] /\ slice'[d] = g
  <2>1. Allot(d, a, f, n, n, g)
    BY <1>1, <1>2, <1>3, <1>4, <1>5, <1>6 DEF Allot
  <2> QED
    BY <2>1, GoNewArray
<1>8. [s \in Slice |-> slice'[s].length][d] = n
  BY <1>5, <1>7
<1>9. DOMAIN NextCell[d] = 0 .. n - 1
  <2>1. g \in Header /\ g.capacity = n
    BY <1>5, <1>7
  <2> QED
    BY <1>7, <2>1, CellFacts DEF NextCell
<1>10. Go!Literal(d) <=> LET m == [s \in Slice |-> slice'[s].length][d] IN
          Go!AssignNew(d, m) /\ DOMAIN NextCell[d] = 0 .. m - 1 /\ Go!KeepsAllBut({})
  BY DEF Go!Literal, NextCell, Cell
<1> QED
  BY <1>7, <1>8, <1>9, <1>10

LEMMA GoReslice ==
    ASSUME IInv, NEW d \in Slice, NEW s \in Slice, NEW low \in 0 .. MaxCap,
           NEW high \in 0 .. MaxCap \cup {Nil}, NEW max \in 0 .. MaxCap \cup {Nil},
           NEW ints, Reslice(d, s, low, high, max, ints)
    PROVE  Go!Reslice(d, s)
<1>a. PICK h : h = slice[s]
  OBVIOUS
<1>b. PICK g : g = [array    |-> h.array,
                    offset   |-> h.offset + low,
                    length   |-> (IF high = Nil THEN h.length ELSE high) - low,
                    capacity |-> (IF max = Nil THEN h.capacity ELSE max) - low]
  OBVIOUS
<1>1. slice \in [Slice -> Header] /\ heap \in Memory
  BY DEF IInv, TypeOK
<1>2. /\ high = Nil => max = Nil /\ low <= h.length
      /\ InBounds(h, low, high, max)
      /\ slice' = [slice EXCEPT ![d] = g]
      /\ heap' = Collected(heap, slice')
      /\ loop = NoLoop /\ loop' = NoLoop
  BY <1>a, <1>b DEF Reslice
<1>3. h \in Header
  BY <1>a, <1>1
<1>4. h.length \in Nat /\ h.capacity \in Nat /\ h.offset \in Nat
  BY <1>3, HeaderFields
<1>5. g.array = h.array /\ g.offset = h.offset + low /\ low + g.capacity <= h.capacity
  BY <1>b, <1>2, <1>4, ValueAssumption DEF InBounds
<1>6. g \in Header
  BY <1>b, <1>2, <1>3, ResliceHeader
<1>7. slice' \in [Slice -> Header] /\ slice'[d] = g
  BY <1>1, <1>2, <1>6
<1>8. Go!Assign(d, Cell(g), g.length)
  <2>1. slice' = [slice EXCEPT ![d] = g]
    BY <1>2
  <2> QED
    BY <1>1, <2>1, GoAssign
<1>9. NextCell[d] = Cell(g) /\ [t \in Slice |-> slice'[t].length][d] = g.length
  BY <1>7 DEF NextCell
<1>10. /\ g.length \in Nat /\ g.capacity \in Nat /\ g.length <= g.capacity
       /\ DOMAIN Cell(g) = 0 .. g.capacity - 1 /\ DOMAIN Cell(h) = 0 .. h.capacity - 1
       /\ \A k \in 0 .. g.capacity - 1 : Cell(g)[k] = <<g.array, g.offset + k>>
       /\ \A k \in 0 .. h.capacity - 1 : Cell(h)[k] = <<h.array, h.offset + k>>
  BY <1>3, <1>6, CellFacts, HeaderFields
<1>11. \E j \in {0} \cup DOMAIN Cell(h) : \A k \in DOMAIN Cell(g) :
          j + k \in DOMAIN Cell(h) /\ Cell(g)[k] = Cell(h)[j + k]
  <2>1. CASE g.capacity = 0
    BY <1>10, <2>1
  <2>2. CASE g.capacity > 0
    <3>1. low \in 0 .. h.capacity - 1
      BY <1>4, <1>5, <1>10, <2>2
    <3>2. \A k \in 0 .. g.capacity - 1 : low + k \in 0 .. h.capacity - 1 /\ g.offset + k = h.offset + (low + k)
      BY <1>4, <1>5, <1>10
    <3>3. \A k \in DOMAIN Cell(g) : low + k \in DOMAIN Cell(h) /\ Cell(g)[k] = Cell(h)[low + k]
      BY <1>5, <1>10, <3>2
    <3> QED
      BY <1>10, <3>1, <3>3
  <2> QED
    BY <1>10, <2>1, <2>2
<1>12. 0 .. g.length - 1 \subseteq DOMAIN Cell(g)
  BY <1>10
<1>13. \A x \in Cells \cap Cells' : Seen'[x[1]][x[2]] = Seen[x[1]][x[2]]
  BY <1>1, <1>2, <1>7, SeenCollected DEF Seen
<1>14. Go!KeepsAllBut({})
  BY <1>1, <1>7, <1>13, GoKeeps
<1>15. [t \in Slice |-> Cell(slice[t])][s] = Cell(h)
  BY <1>a
<1> DEFINE row == [u \in Slice |-> Cell(slice[u])][s]
           next == [u \in Slice |-> Cell(slice'[u])][d]
           m == [u \in Slice |-> slice'[u].length][d]
<1>16. row = Cell(h) /\ next = Cell(g) /\ m = g.length
  BY <1>9, <1>15 DEF NextCell
<1> HIDE DEF row, next, m
<1>17. Go!Assign(d, next, m)
  BY <1>8, <1>16 DEF Go!Assign
<1>18. \E j \in {0} \cup DOMAIN row : \A k \in DOMAIN next : j + k \in DOMAIN row /\ next[k] = row[j + k]
  BY <1>11, <1>16
<1>19. 0 .. m - 1 \subseteq DOMAIN next
  BY <1>12, <1>16
<1> USE DEF row, next, m
<1> QED
  BY <1>14, <1>17, <1>18, <1>19 DEF Go!Reslice, Go!Assign

LEMMA GoWrite ==
    ASSUME IInv, NEW s \in Slice, NEW k \in Slot, NEW v \in Value, Write(s, k, v)
    PROVE  k \in DOMAIN Go!Elements(s) /\ Go!Write(s, k, v)
<1> DEFINE h == slice[s]
           y == <<h.array, h.offset + k>>
<1>1. slice \in [Slice -> Header] /\ heap \in Memory
  BY DEF IInv, TypeOK
<1>2. /\ h \in Header /\ h.array \in Table /\ h.offset \in Nat /\ h.length \in Nat
      /\ h.capacity \in Nat /\ h.length <= h.capacity /\ h.offset + h.capacity <= MaxCap
  BY <1>1, HeaderFields
<1>3. k \in 0 .. h.length - 1 /\ k \in 0 .. h.capacity - 1
  BY <1>2, BoundAssumption DEF Write, Slot
<1>4. /\ loop = NoLoop /\ loop' = NoLoop /\ slice' = slice
      /\ heap' = [heap EXCEPT ![h.array][h.offset + k] = v]
  BY DEF Write
<1>5. DOMAIN Go!Elements(s) = 0 .. h.length - 1 /\ y \in Cells
  BY <1>1, <1>3, GoElements
<1>6. Cell(h)[k] = y
  BY <1>2, <1>3, CellFacts
<1>7. ASSUME NEW x \in Cells
      PROVE  heap'[x[1]][x[2]] = IF x = y THEN v ELSE heap[x[1]][x[2]]
  <2>1. PICK t \in Slice : x \in Run(slice[t])
    BY DEF Cells, Run
  <2>2. /\ slice[t] \in Header /\ slice[t].array \in Table /\ slice[t].offset \in Nat
        /\ slice[t].capacity \in Nat /\ slice[t].offset + slice[t].capacity <= MaxCap
    BY <1>1, HeaderFields
  <2>3. x[1] \in Table /\ x[2] \in Slot /\ x = <<x[1], x[2]>>
    BY <2>1, <2>2, BoundAssumption DEF Run, Slot
  <2>4. h.offset + k \in Slot
    BY <1>2, <1>3, BoundAssumption DEF Slot
  <2> QED
    BY <1>1, <1>2, <1>4, <2>3, <2>4 DEF Memory
<1>8. Cells' = Cells
  BY <1>4 DEF Cells
<1>9. [x \in Cells' |-> heap'[x[1]][x[2]]] = [[x \in Cells |-> heap[x[1]][x[2]]] EXCEPT ![y] = v]
  BY <1>5, <1>7, <1>8
<1>10. [t \in Slice |-> Cell(slice[t])][s][k] = y
  BY <1>6
<1>11. [x \in Cells' |-> Seen'[x[1]][x[2]]]
          = [[x \in Cells |-> Seen[x[1]][x[2]]] EXCEPT ![[t \in Slice |-> Cell(slice[t])][s][k]] = v]
  BY <1>4, <1>9, <1>10 DEF Seen
<1>12. Go!Write(s, k, v)
  BY <1>4, <1>11 DEF Go!Write, Seen, Cell
<1> QED
  BY <1>3, <1>5, <1>12

-----------------------------------------------------------------------------
\* What a running loop was called for: copy(d, s), or an append to s whose
\* result is for d, in place or in a new array that has the elements of s.
CopyCall(sl, lp, d, s) ==
    /\ lp.dst = sl[d].array /\ lp.to = sl[d].offset
    /\ lp.src = sl[s].array /\ lp.from = sl[s].offset
    /\ lp.n = Least(sl[s].length, sl[d].length)
    /\ lp.after = sl

InPlaceCall(sl, lp, d, s) ==
    /\ Fits(sl[s], sl[s].length + lp.n)
    /\ lp.dst = sl[s].array /\ lp.to = sl[s].offset + sl[s].length
    /\ lp.after = [sl EXCEPT ![d] = [sl[s] EXCEPT !.length = sl[s].length + lp.n]]

MovingCall(sl, lp, d, s, c) ==
    /\ ~Fits(sl[s], sl[s].length + lp.n)
    /\ lp.dst \in Array /\ \A t \in Slice : sl[t].array # lp.dst
    /\ lp.to = sl[s].length
    /\ lp.after = [sl EXCEPT ![d] = [array |-> lp.dst, offset |-> 0,
                                     length |-> sl[s].length + lp.n, capacity |-> c]]
    /\ lp.old[lp.dst] = Moved(lp.old, sl[s], FALSE, c)

\* What is appended: the arguments of a call, or a slice.
Handed(sl, lp) ==
    \/ lp.src = Args /\ lp.from = 0 /\ lp.n \in 1 .. MaxArgs
    \/ \E t \in Slice : /\ lp.src = sl[t].array /\ lp.from = sl[t].offset
                        /\ lp.n = sl[t].length

Called(sl, lp) ==
    \E d, s \in Slice :
        \/ CopyCall(sl, lp, d, s)
        \/ Handed(sl, lp) /\ InPlaceCall(sl, lp, d, s)
        \/ Handed(sl, lp) /\ \E c \in 0 .. MaxCap : MovingCall(sl, lp, d, s, c)

CallInv == clean /\ loop # NoLoop => Called(slice, loop)

RInv == IInv /\ CallInv

LEMMA InitCall == Init => CallInv
BY DEF Init, CallInv

\* What a loop was called for does not depend on what it has done.
LEMMA CalledSame ==
    ASSUME NEW sl, NEW lp, NEW lq, Called(sl, lp),
           lq.dst = lp.dst, lq.src = lp.src, lq.to = lp.to, lq.from = lp.from,
           lq.n = lp.n, lq.after = lp.after, lq.old = lp.old
    PROVE  Called(sl, lq)
<1>1. Handed(sl, lp) => Handed(sl, lq)
  BY DEF Handed
<1>2. \A d, s \in Slice : CopyCall(sl, lp, d, s) => CopyCall(sl, lq, d, s)
  BY DEF CopyCall
<1>3. \A d, s \in Slice : InPlaceCall(sl, lp, d, s) => InPlaceCall(sl, lq, d, s)
  BY DEF InPlaceCall
<1>4. \A d, s \in Slice, c \in 0 .. MaxCap : MovingCall(sl, lp, d, s, c) => MovingCall(sl, lq, d, s, c)
  BY DEF MovingCall
<1> QED
  BY <1>1, <1>2, <1>3, <1>4 DEF Called

LEMMA CopyElementCall ==
    ASSUME RInv, CopyElement
    PROVE  CallInv'
<1> DEFINE lq == [loop EXCEPT !.done = @ + 1]
<1>1. /\ loop # NoLoop /\ loop \in Loop /\ loop' = lq /\ slice' = slice
      /\ clean' => Called(slice, loop)
  BY DEF CopyElement, RInv, IInv, TypeOK, CallInv
<1>2. /\ lq.n = loop.n /\ lq.dst = loop.dst /\ lq.src = loop.src
      /\ lq.to = loop.to /\ lq.from = loop.from /\ lq.old = loop.old /\ lq.after = loop.after
  BY <1>1 DEF Loop
<1> HIDE DEF lq
<1>3. clean' => Called(slice, lq)
  BY <1>1, <1>2, CalledSame
<1> QED
  BY <1>1, <1>3 DEF CallInv

\* A call of __copyArray.
LEMMA CopyArrayCall ==
    ASSUME NEW mem, NEW dst, NEW src, NEW to, NEW from, NEW n, NEW toBoxed,
           NEW fromBoxed, NEW after, NEW boxes,
           CopyArray(mem, dst, src, to, from, n, toBoxed, fromBoxed, after, boxes)
    PROVE  /\ slice' = slice
           /\ loop'.dst = dst /\ loop'.src = src /\ loop'.to = to /\ loop'.from = from
           /\ loop'.n = n /\ loop'.after = after /\ loop'.old = mem
BY DEF CopyArray

LEMMA CopyCalled ==
    ASSUME NEW d \in Slice, NEW s \in Slice, Copy(d, s)
    PROVE  CallInv'
<1>1. CopyArray(heap, slice[d].array, slice[s].array, slice[d].offset,
                slice[s].offset, Least(slice[s].length, slice[d].length),
                "offset" \in boxed[d], "offset" \in boxed[s], slice, boxed)
  BY DEF Copy
<1>2. CopyCall(slice', loop', d, s)
  BY <1>1 DEF CopyArray, CopyCall
<1> QED
  BY <1>2 DEF CallInv, Called

\* What append is given, as the loop will have it.
GivenTo(src, from, n) ==
    \/ src = Args /\ from = 0 /\ n \in 1 .. MaxArgs
    \/ \E t \in Slice : src = slice[t].array /\ from = slice[t].offset /\ n = slice[t].length

LEMMA MovedPlain ==
    ASSUME NEW mem, NEW h \in Header, NEW b, NEW c, b => h.length = 0
    PROVE  Moved(mem, h, b, c) = Moved(mem, h, FALSE, c)
<1>1. \A k \in Slot : k < h.length => ~ b
  BY BoundAssumption DEF Slot
<1> QED
  BY <1>1 DEF Moved

LEMMA AppendCalled ==
    ASSUME IInv, NEW mem, NEW d \in Slice, NEW s \in Slice, NEW src, NEW from, NEW n \in Nat,
           NEW ints, GivenTo(src, from, n), loop = NoLoop, mem \in Memory,
           InternalAppend(mem, d, s, src, from, n, ints)
    PROVE  CallInv'
<1>1. CASE n = 0
  BY <1>1 DEF InternalAppend, CallInv
<1>2. CASE n # 0 /\ Fits(slice[s], slice[s].length + n)
  <2>1. PICK toBoxed, fromBoxed, boxes :
           CopyArray(mem, slice[s].array, src, slice[s].offset + slice[s].length, from, n,
                     toBoxed, fromBoxed,
                     [slice EXCEPT ![d] = [slice[s] EXCEPT !.length = slice[s].length + n]], boxes)
    BY <1>2 DEF InternalAppend
  <2>2. Handed(slice', loop') /\ InPlaceCall(slice', loop', d, s)
    BY <1>2, <2>1 DEF CopyArray, Handed, GivenTo, InPlaceCall
  <2> QED
    BY <2>2 DEF CallInv, Called
<1>3. CASE /\ n # 0 /\ ~ Fits(slice[s], slice[s].length + n)
           /\ GrowthFails(slice[s], boxed[s], slice[s].length + n, "length" \in ints)
  <2>1. clean' = FALSE
    BY <1>3 DEF InternalAppend
  <2> QED
    BY <2>1 DEF CallInv
<1>4. CASE /\ n # 0 /\ ~ Fits(slice[s], slice[s].length + n)
           /\ ~ GrowthFails(slice[s], boxed[s], slice[s].length + n, "length" \in ints)
  <2>1. PICK h : h = slice[s]
    OBVIOUS
  <2>2. PICK c : c = NewCapacity(h.capacity, h.length + n)
    OBVIOUS
  <2> DEFINE b == "offset" \in boxed[s]
             fromBoxed == "offset" \in ints
  <2>3. /\ c <= MaxCap /\ clean' = (clean /\ (b => h.length = 0))
        /\ \E a \in Fresh :
              CopyArray([mem EXCEPT ![a] = Moved(mem, h, b, c)], a, src, h.length, from, n,
                        FALSE, fromBoxed,
                        [slice EXCEPT ![d] = [array |-> a, offset |-> 0,
                                              length |-> h.length + n, capacity |-> c]],
                        [boxed EXCEPT ![d] = ints \cap {"length"}])
    BY <1>4, <2>1, <2>2 DEF InternalAppend
  <2> HIDE DEF b, fromBoxed
  <2>4. SUFFICES ASSUME clean' PROVE CallInv'
    BY DEF CallInv
  <2>5a. PICK a \in Fresh :
            \E boxes :
              CopyArray([mem EXCEPT ![a] = Moved(mem, h, b, c)], a, src, h.length, from, n,
                        FALSE, fromBoxed,
                        [slice EXCEPT ![d] = [array |-> a, offset |-> 0,
                                              length |-> h.length + n, capacity |-> c]], boxes)
    BY <2>3
  <2>5. PICK boxes :
            CopyArray([mem EXCEPT ![a] = Moved(mem, h, b, c)], a, src, h.length, from, n,
                      FALSE, fromBoxed,
                      [slice EXCEPT ![d] = [array |-> a, offset |-> 0,
                                            length |-> h.length + n, capacity |-> c]], boxes)
    BY <2>5a
  <2>6. a \in Array /\ a \in Table /\ \A t \in Slice : slice[t].array # a
    BY DEF Fresh, Table
  <2>7. h \in Header /\ h.capacity \in Nat /\ h.length \in Nat
    BY <2>1, HeaderFields DEF IInv, TypeOK
  <2>8. c \in 0 .. MaxCap
    BY <2>2, <2>3, <2>7, BoundAssumption DEF NewCapacity, Grown, Most
  <2>9. Moved(mem, h, b, c) = Moved(mem, h, FALSE, c)
    BY <2>3, <2>4, <2>7, MovedPlain
  <2>10. PICK new : new = [mem EXCEPT ![a] = Moved(mem, h, FALSE, c)]
    OBVIOUS
  <2>11. PICK after : after = [slice EXCEPT ![d] = [array |-> a, offset |-> 0,
                                            length |-> h.length + n, capacity |-> c]]
    OBVIOUS
  <2>12. CopyArray(new, a, src, h.length, from, n, FALSE, fromBoxed, after, boxes)
    BY <2>5, <2>9, <2>10, <2>11
  <2>13. /\ slice' = slice
         /\ loop'.dst = a /\ loop'.src = src /\ loop'.to = h.length /\ loop'.from = from
         /\ loop'.n = n /\ loop'.after = after /\ loop'.old = new
    BY <2>12, CopyArrayCall
  <2>14. new[a] = Moved(mem, h, FALSE, c) /\ new[h.array] = mem[h.array]
    <3>1. h.array \in Table /\ h.array # a
      BY <2>1, <2>6, <2>7, HeaderFields
    <3> QED
      BY <2>6, <2>10, <3>1 DEF Memory
  <2>15. Moved(new, h, FALSE, c) = Moved(mem, h, FALSE, c)
    BY <2>14 DEF Moved
  <2>16. MovingCall(slice', loop', d, s, c)
    BY <1>4, <2>1, <2>6, <2>11, <2>13, <2>14, <2>15 DEF MovingCall
  <2>17. Handed(slice', loop')
    BY <2>13 DEF Handed, GivenTo
  <2> QED
    BY <2>8, <2>16, <2>17 DEF CallInv, Called
<1> QED
  BY <1>1, <1>2, <1>3, <1>4

LEMMA NextCall == RInv /\ [Next]_vars => CallInv'
<1> SUFFICES ASSUME RInv, [Next]_vars PROVE CallInv'
  OBVIOUS
<1>1. IInv /\ CallInv
  BY DEF RInv
<1>2. ASSUME NEW d \in Slice, NEW s \in Slice, Copy(d, s)
      PROVE  CallInv'
  BY <1>2, CopyCalled
<1>3. ASSUME NEW d \in Slice, NEW s \in Slice, NEW n \in 1 .. MaxArgs,
             NEW x \in [0 .. n - 1 -> Value], AppendArgs(d, s, n, x)
      PROVE  CallInv'
  <2>1. PICK mem : mem = [heap EXCEPT ![Args] = [i \in Slot |-> IF i < n THEN x[i] ELSE Nil]]
    OBVIOUS
  <2>2. loop = NoLoop /\ InternalAppend(mem, d, s, Args, 0, n, {})
    BY <1>3, <2>1 DEF AppendArgs
  <2>3. mem \in Memory
    <3>1. \A i \in Slot : i < n => x[i] \in Value
      BY BoundAssumption DEF Slot
    <3>2. [i \in Slot |-> IF i < n THEN x[i] ELSE Nil] \in [Slot -> Value \cup {Nil}]
      BY <3>1
    <3> QED
      BY <1>1, <2>1, <3>2 DEF IInv, TypeOK, Memory
  <2>4. GivenTo(Args, 0, n) /\ n \in Nat
    BY BoundAssumption DEF GivenTo
  <2> QED
    BY <1>1, <2>2, <2>3, <2>4, AppendCalled
<1>4. ASSUME NEW d \in Slice, NEW s \in Slice, NEW t \in Slice, AppendSlice(d, s, t)
      PROVE  CallInv'
  <2>1. PICK mem, h : mem = heap /\ h = slice[t]
    OBVIOUS
  <2>2. loop = NoLoop /\ InternalAppend(mem, d, s, h.array, h.offset, h.length, boxed[t])
    BY <1>4, <2>1 DEF AppendSlice
  <2>3. GivenTo(h.array, h.offset, h.length) /\ h.length \in Nat /\ mem \in Memory
    BY <1>1, <2>1, HeaderFields DEF GivenTo, IInv, TypeOK
  <2> QED
    BY <1>1, <2>2, <2>3, AppendCalled
<1>5. ASSUME NEW d \in Slice, NEW length \in 0 .. MaxCap, NEW capacity \in 0 .. MaxCap,
             Make(d, length, capacity)
      PROVE  CallInv'
  BY <1>5 DEF Make, CallInv
<1>6. ASSUME NEW d \in Slice, NEW s \in Slice, NEW low \in 0 .. MaxCap,
             NEW high \in 0 .. MaxCap \cup {Nil}, NEW max \in 0 .. MaxCap \cup {Nil},
             NEW ints \in SUBSET Field, Reslice(d, s, low, high, max, ints)
      PROVE  CallInv'
  BY <1>6 DEF Reslice, CallInv
<1>7. ASSUME NEW d \in Slice, NEW n \in 1 .. MaxArgs, NEW x \in [0 .. n - 1 -> Value],
             Literal(d, n, x)
      PROVE  CallInv'
  BY <1>7 DEF Literal, CallInv
<1>8. ASSUME NEW s \in Slice, NEW k \in Slot, NEW v \in Value \cup Read, Write(s, k, v)
      PROVE  CallInv'
  BY <1>8 DEF Write, CallInv
<1>9. CASE Return
  BY <1>9 DEF Return, CallInv
<1>10. CASE UNCHANGED vars
  BY <1>1, <1>10 DEF vars, CallInv
<1> QED
  BY <1>2, <1>3, <1>4, <1>5, <1>6, <1>7, <1>8, <1>9, <1>10, CopyElementCall
     DEF Next, Cut, New, Use

-----------------------------------------------------------------------------
\* The cells a loop is to write.
Aimed(lp) == {<<lp.dst, lp.to + k>> : k \in 0 .. lp.n - 1}

\* What the program sees once a call has returned.
LEMMA ReturnSeen ==
    ASSUME IInv, Return, clean
    PROVE  /\ slice \in [Slice -> Header] /\ slice' \in [Slice -> Header]
           /\ slice' = loop.after /\ loop \in Loop /\ loop # NoLoop
           /\ Seen = loop.old
           /\ \A x \in Cells' : Seen'[x[1]][x[2]] = heap[x[1]][x[2]]
           /\ \A k \in 0 .. loop.n - 1 :
                 heap[loop.dst][loop.to + k] = loop.old[loop.src][loop.from + k]
           /\ \A a \in Table, i \in Slot :
                 <<a, i>> \notin Aimed(loop) => heap[a][i] = loop.old[a][i]
<1>1. /\ loop # NoLoop /\ loop \in Loop /\ loop.done = loop.n
      /\ heap \in Memory /\ slice \in [Slice -> Header]
      /\ slice' = loop.after /\ heap' = Collected(heap, slice') /\ loop' = NoLoop
  BY DEF Return, IInv, TypeOK
<1>2. Progress(heap, loop) /\ Footprint(heap, loop)
  BY <1>1 DEF IInv, LoopInv
<1>3. loop.after \in [Slice -> Header] /\ loop.n \in Nat
  BY <1>1 DEF Loop
<1>4. Done(loop) = 0 .. loop.n - 1
  BY <1>1, <1>3 DEF Done
<1>5. \A x \in Cells' : Seen'[x[1]][x[2]] = heap[x[1]][x[2]]
  BY <1>1, <1>3, SeenCollected
<1> QED
  BY <1>1, <1>2, <1>3, <1>4, <1>5 DEF Progress, Footprint, Targets, Aimed, Seen

\* Only the targets of the loop change.
LEMMA ReturnKeeps ==
    ASSUME IInv, Return, clean
    PROVE  \A x \in (Cells \cap Cells') \ Aimed(loop) :
              Seen'[x[1]][x[2]] = Seen[x[1]][x[2]]
<1> SUFFICES ASSUME NEW x \in Cells, x \in Cells', x \notin Aimed(loop)
             PROVE  Seen'[x[1]][x[2]] = Seen[x[1]][x[2]]
  OBVIOUS
<1>1. PICK t \in Slice : x \in Run(slice[t])
  BY DEF Cells, Run
<1>2. /\ slice[t] \in Header /\ slice[t].array \in Table /\ slice[t].offset \in Nat
      /\ slice[t].capacity \in Nat /\ slice[t].offset + slice[t].capacity <= MaxCap
  BY HeaderFields DEF IInv, TypeOK
<1>3. x[1] \in Table /\ x[2] \in Slot /\ x = <<x[1], x[2]>>
  BY <1>1, <1>2, BoundAssumption DEF Run, Slot
<1> QED
  BY <1>3, ReturnSeen

LEMMA GoCopy ==
    ASSUME IInv, Return, clean, NEW d \in Slice, NEW s \in Slice, CopyCall(slice, loop, d, s)
    PROVE  Go!Copy(d, s)
<1>a. PICK hd, hs, n : hd = slice[d] /\ hs = slice[s] /\ n = loop.n
  OBVIOUS
<1>1. /\ slice \in [Slice -> Header] /\ slice' = slice /\ Seen = loop.old
      /\ \A x \in Cells' : Seen'[x[1]][x[2]] = heap[x[1]][x[2]]
      /\ \A k \in 0 .. n - 1 : heap[hd.array][hd.offset + k] = loop.old[hs.array][hs.offset + k]
  BY <1>a, ReturnSeen DEF CopyCall
<1>2. /\ hd \in Header /\ hs \in Header
      /\ hd.length \in Nat /\ hs.length \in Nat /\ hd.length <= hd.capacity /\ hs.length <= hs.capacity
      /\ hd.capacity \in Nat /\ hs.capacity \in Nat
  BY <1>a, <1>1, HeaderFields
<1>3. n = Least(hs.length, hd.length) /\ n \in Nat /\ n <= hs.length /\ n <= hd.length
  BY <1>a, <1>2 DEF CopyCall, Least
<1>4. DOMAIN Go!Elements(d) \cap DOMAIN Go!Elements(s) = 0 .. n - 1
  <2>1. DOMAIN Go!Elements(d) = 0 .. hd.length - 1 /\ DOMAIN Go!Elements(s) = 0 .. hs.length - 1
    BY <1>a, <1>1, GoElements
  <2> QED
    BY <1>2, <1>3, <2>1 DEF Least
<1>5. Cells' = Cells
  BY <1>1 DEF Cells
<1>6. ASSUME NEW k \in 0 .. n - 1
      PROVE  /\ Cell(hd)[k] = <<hd.array, hd.offset + k>> /\ Cell(hs)[k] = <<hs.array, hs.offset + k>>
             /\ Cell(hd)[k] \in Cells /\ Cell(hs)[k] \in Cells
  <2>1. k \in 0 .. hd.capacity - 1 /\ k \in 0 .. hs.capacity - 1
    BY <1>2, <1>3
  <2>2. Cell(hd)[k] = <<hd.array, hd.offset + k>> /\ Cell(hs)[k] = <<hs.array, hs.offset + k>>
    BY <1>2, <2>1, CellFacts
  <2>3. <<hd.array, hd.offset + k>> \in Cells /\ <<hs.array, hs.offset + k>> \in Cells
    BY <1>a, <1>1, <2>1, GoElements
  <2> QED
    BY <2>2, <2>3
<1>7. \A k \in 0 .. n - 1 :
         [x \in Cells' |-> Seen'[x[1]][x[2]]][Cell(hd)[k]] = [x \in Cells |-> Seen[x[1]][x[2]]][Cell(hs)[k]]
  BY <1>1, <1>5, <1>6
<1>8. PICK S : S = {Cell(hd)[k] : k \in 0 .. n - 1}
  OBVIOUS
<1>9. S = Aimed(loop)
  BY <1>a, <1>6, <1>8 DEF Aimed, CopyCall
<1>10. Go!KeepsAllBut(S)
  BY <1>1, <1>9, ReturnKeeps, GoKeeps
<1>11. [u \in Slice |-> Cell(slice[u])][d] = Cell(hd) /\ [u \in Slice |-> Cell(slice[u])][s] = Cell(hs)
  BY <1>a
<1>12. S = {[u \in Slice |-> Cell(slice[u])][d][k] : k \in DOMAIN Go!Elements(d) \cap DOMAIN Go!Elements(s)}
  BY <1>4, <1>8, <1>11
<1>13. Go!KeepsAllBut({[u \in Slice |-> Cell(slice[u])][d][k] : k \in DOMAIN Go!Elements(d) \cap DOMAIN Go!Elements(s)})
  BY <1>10, <1>12 DEF Go!KeepsAllBut
<1>14. \A k \in DOMAIN Go!Elements(d) \cap DOMAIN Go!Elements(s) :
         [x \in Cells' |-> Seen'[x[1]][x[2]]][[u \in Slice |-> Cell(slice[u])][d][k]]
           = [x \in Cells |-> Seen[x[1]][x[2]]][[u \in Slice |-> Cell(slice[u])][s][k]]
  BY <1>4, <1>7, <1>11
<1>15. UNCHANGED <<[u \in Slice |-> Cell(slice[u])], [u \in Slice |-> slice[u].length]>>
  BY <1>1
<1> QED
  BY <1>13, <1>14, <1>15 DEF Go!Copy, Go!KeepsAllBut, Seen

\* The elements appended, whoever gives them.
LEMMA GoAppendInPlace ==
    ASSUME IInv, Return, clean, NEW d \in Slice, NEW s \in Slice, InPlaceCall(slice, loop, d, s),
           NEW n, n = loop.n, NEW x,
           \A k \in 0 .. n - 1 : x[k] = loop.old[loop.src][loop.from + k]
    PROVE  Go!AppendInPlace(d, s, n, x)
<1>a. PICK h : h = slice[s]
  OBVIOUS
<1>b. PICK g : g = [h EXCEPT !.length = h.length + n]
  OBVIOUS
<1>1. /\ slice \in [Slice -> Header] /\ slice' \in [Slice -> Header] /\ n \in Nat
      /\ slice' = [slice EXCEPT ![d] = g]
      /\ loop.dst = h.array /\ loop.to = h.offset + h.length
  BY <1>a, <1>b, ReturnSeen DEF InPlaceCall, Loop
<1>2. /\ h \in Header /\ h.length \in Nat /\ h.capacity \in Nat /\ h.offset \in Nat
      /\ h.length + n <= h.capacity
  BY <1>a, <1>1, HeaderFields DEF InPlaceCall, Fits
<1>3. g.length = h.length + n /\ g.array = h.array /\ g.offset = h.offset /\ g.capacity = h.capacity
  BY <1>b, <1>2 DEF Header
<1>4. Cell(g) = Cell(h)
  BY <1>3 DEF Cell
<1>5. Go!Assign(d, Cell(h), h.length + n)
  <2>1. Go!Assign(d, Cell(g), g.length)
    BY <1>1, GoAssign
  <2> QED
    BY <1>3, <1>4, <2>1 DEF Go!Assign
<1>6. DOMAIN Cell(h) = 0 .. h.capacity - 1 /\ \A k \in 0 .. h.capacity - 1 : Cell(h)[k] = <<h.array, h.offset + k>>
  BY <1>2, CellFacts
<1>7. h.length .. h.length + n - 1 \subseteq DOMAIN Cell(h)
  BY <1>1, <1>2, <1>6
<1>8. ASSUME NEW k \in 0 .. n - 1
      PROVE  /\ Cell(h)[h.length + k] = <<loop.dst, loop.to + k>>
             /\ Cell(h)[h.length + k] \in Cells'
  <2>1. h.length + k \in 0 .. h.capacity - 1 /\ h.offset + (h.length + k) = (h.offset + h.length) + k
    BY <1>1, <1>2
  <2>2. Cell(h)[h.length + k] = <<h.array, h.offset + (h.length + k)>>
    BY <1>6, <2>1
  <2>3. Cell(g)[h.length + k] \in Run(g)
    <3>1. g \in Header
      BY <1>1
    <3> QED
      BY <1>3, <2>1, <3>1, CellFacts
  <2>4. \A y \in Run(slice'[d]) : y \in Cells'
    BY DEF Run, Cells
  <2>5. slice'[d] = g
    BY <1>1
  <2> QED
    BY <1>1, <1>4, <2>1, <2>2, <2>3, <2>4, <2>5
<1>9. \A k \in 0 .. n - 1 : [y \in Cells' |-> Seen'[y[1]][y[2]]][Cell(h)[h.length + k]] = x[k]
  <2> TAKE k \in 0 .. n - 1
  <2>1. Cell(h)[h.length + k] = <<loop.dst, loop.to + k>> /\ Cell(h)[h.length + k] \in Cells'
    BY <1>8
  <2>2. \A y \in Cells' : Seen'[y[1]][y[2]] = heap[y[1]][y[2]]
    BY ReturnSeen
  <2>3. heap[loop.dst][loop.to + k] = loop.old[loop.src][loop.from + k]
    BY ReturnSeen
  <2> QED
    BY <2>1, <2>2, <2>3
<1>10. PICK S : S = {Cell(h)[h.length + k] : k \in 0 .. n - 1}
  OBVIOUS
<1>11. S = Aimed(loop)
  BY <1>8, <1>10 DEF Aimed
<1>12. Go!KeepsAllBut(S)
  BY <1>1, <1>11, ReturnKeeps, GoKeeps
<1>13. [u \in Slice |-> Cell(slice[u])][s] = Cell(h) /\ [u \in Slice |-> slice[u].length][s] = h.length
  BY <1>a
<1>14. [u \in Slice |-> slice[u].length][s] .. [u \in Slice |-> slice[u].length][s] + n - 1
          \subseteq DOMAIN [u \in Slice |-> Cell(slice[u])][s]
  BY <1>7, <1>13
<1>15. Go!Assign(d, [u \in Slice |-> Cell(slice[u])][s], [u \in Slice |-> slice[u].length][s] + n)
  BY <1>5, <1>13 DEF Go!Assign
<1>16. \A k \in 0 .. n - 1 : [y \in Cells' |-> Seen'[y[1]][y[2]]]
          [[u \in Slice |-> Cell(slice[u])][s][[u \in Slice |-> slice[u].length][s] + k]] = x[k]
  BY <1>9, <1>13
<1>17. S = {[u \in Slice |-> Cell(slice[u])][s][[u \in Slice |-> slice[u].length][s] + k] : k \in 0 .. n - 1}
  BY <1>10, <1>13
<1>18. Go!KeepsAllBut({[u \in Slice |-> Cell(slice[u])][s][[u \in Slice |-> slice[u].length][s] + k] :
                          k \in 0 .. n - 1})
  BY <1>12, <1>17 DEF Go!KeepsAllBut
<1> QED
  BY <1>14, <1>15, <1>16, <1>18 DEF Go!AppendInPlace, Go!Assign, Go!KeepsAllBut, Seen

LEMMA GoAppendMoving ==
    ASSUME IInv, Return, clean, NEW d \in Slice, NEW s \in Slice, NEW c \in 0 .. MaxCap,
           MovingCall(slice, loop, d, s, c),
           NEW n, n = loop.n, NEW x,
           \A k \in 0 .. n - 1 : x[k] = loop.old[loop.src][loop.from + k]
    PROVE  Go!AppendMoving(d, s, n, x)
<1>a. PICK h, a, old : h = slice[s] /\ a = loop.dst /\ old = loop.old
  OBVIOUS
<1>b. PICK g : g = [array |-> a, offset |-> 0, length |-> h.length + n, capacity |-> c]
  OBVIOUS
<1>1. /\ slice \in [Slice -> Header] /\ slice' \in [Slice -> Header] /\ n \in Nat
      /\ slice' = [slice EXCEPT ![d] = g] /\ Seen = old
      /\ loop.to = h.length /\ a \in Array /\ \A t \in Slice : slice[t].array # a
      /\ old[a] = Moved(old, h, FALSE, c) /\ ~(h.length + n <= h.capacity)
  BY <1>a, <1>b, ReturnSeen DEF MovingCall, Loop, Fits
<1>2. /\ h \in Header /\ h.length \in Nat /\ h.capacity \in Nat /\ h.offset \in Nat
      /\ h.length <= h.capacity
  BY <1>a, <1>1, HeaderFields
<1>3. slice'[d] = g
  BY <1>1
<1>4. /\ g \in Header /\ g.array = a /\ g.offset = 0 /\ g.length = h.length + n /\ g.capacity = c
  BY <1>b, <1>1, <1>3
<1>5. \A y \in Cells : y[1] # a
  BY <1>1 DEF Cells
<1>6. \A y \in Cells \cap Cells' : Seen'[y[1]][y[2]] = Seen[y[1]][y[2]]
  <2>1. \A y \in Aimed(loop) : y[1] = a
    BY <1>a DEF Aimed
  <2> QED
    BY <1>5, <2>1, ReturnKeeps
<1>7. Go!AssignNew(d, g.length) /\ Go!KeepsAllBut({})
  BY <1>1, <1>4, <1>6, GoAssignNew
<1>8. Go!AssignNew(d, h.length + n)
  BY <1>4, <1>7 DEF Go!AssignNew, Go!Assign
<1>9. DOMAIN Cell(h) = 0 .. h.capacity - 1
  BY <1>2, CellFacts
<1>10. ~(h.length .. h.length + n - 1 \subseteq DOMAIN Cell(h))
  <2>1. h.length + n - 1 \in h.length .. h.length + n - 1 /\ h.length + n - 1 \notin 0 .. h.capacity - 1
    BY <1>1, <1>2
  <2> QED
    BY <1>9, <2>1
<1>11. NextCell[d] = Cell(g) /\ DOMAIN Cell(g) = 0 .. c - 1
  BY <1>3, <1>4, CellFacts DEF NextCell
<1>12. ASSUME NEW k \in 0 .. c - 1
       PROVE  /\ k < h.length => /\ heap[a][k] = old[h.array][h.offset + k]
                                 /\ Cell(h)[k] = <<h.array, h.offset + k>> /\ Cell(h)[k] \in Cells
              /\ k >= h.length + n => heap[a][k] = Zero
              /\ k >= h.length /\ k < h.length + n => heap[a][k] = x[k - h.length]
              /\ Cell(g)[k] = <<a, k>> /\ <<a, k>> \in Cells'
  <2>1. k \in Slot /\ k \in Nat /\ k < c /\ a \in Table
    BY <1>1, BoundAssumption DEF Slot, Table
  <2>2. Cell(g)[k] = <<a, k>> /\ <<a, k>> \in Run(g)
    BY <1>4, CellFacts DEF Run
  <2>3. \A y \in Run(slice'[d]) : y \in Cells'
    BY DEF Run, Cells
  <2>4. old[a][k] = CASE k < h.length -> old[h.array][h.offset + k]
                      [] k >= h.length /\ k < c -> Zero
                      [] OTHER -> Nil
    BY <1>1, <2>1 DEF Moved
  <2>5. <<a, k>> \in Aimed(loop) => k >= h.length /\ k < h.length + n
    BY <1>1, <1>2 DEF Aimed
  <2>6. <<a, k>> \notin Aimed(loop) => heap[a][k] = old[a][k]
    BY <1>a, <2>1, ReturnSeen
  <2>7. ASSUME k < h.length
        PROVE  /\ heap[a][k] = old[h.array][h.offset + k]
               /\ Cell(h)[k] = <<h.array, h.offset + k>> /\ Cell(h)[k] \in Cells
    <3>1. k \in 0 .. h.capacity - 1
      BY <1>2, <2>1, <2>7
    <3>2. Cell(h)[k] = <<h.array, h.offset + k>>
      BY <1>2, <3>1, CellFacts
    <3>3. <<h.array, h.offset + k>> \in Cells
      BY <1>a, <1>1, <3>1, GoElements
    <3>4. heap[a][k] = old[a][k]
      BY <1>2, <2>1, <2>5, <2>6, <2>7
    <3>5. old[a][k] = old[h.array][h.offset + k]
      BY <1>2, <2>1, <2>4, <2>7
    <3> QED
      BY <3>2, <3>3, <3>4, <3>5
  <2>8. ASSUME k >= h.length + n
        PROVE  heap[a][k] = Zero
    <3>1. ~(k < h.length) /\ k >= h.length /\ ~(k < h.length + n)
      BY <1>1, <1>2, <2>1, <2>8
    <3>2. heap[a][k] = old[a][k]
      BY <2>5, <2>6, <3>1
    <3>3. old[a][k] = Zero
      BY <2>1, <2>4, <3>1
    <3> QED
      BY <3>2, <3>3
  <2>9. ASSUME k >= h.length, k < h.length + n
        PROVE  heap[a][k] = x[k - h.length]
    <3>1. k - h.length \in 0 .. n - 1 /\ h.length + (k - h.length) = k
      BY <1>1, <1>2, <2>1, <2>9
    <3>2. heap[loop.dst][loop.to + (k - h.length)] = loop.old[loop.src][loop.from + (k - h.length)]
      BY <3>1, ReturnSeen
    <3> QED
      BY <1>a, <1>1, <3>1, <3>2
  <2> QED
    BY <1>3, <2>2, <2>3, <2>7, <2>8, <2>9
<1> DEFINE mem(y) == [z \in Cells |-> Seen[z[1]][z[2]]][y]
           memNext(y) == [z \in Cells' |-> Seen'[z[1]][z[2]]][y]
<1>13. ASSUME NEW k \in 0 .. c - 1
       PROVE  memNext(Cell(g)[k]) =
                CASE k < h.length     -> mem(Cell(h)[k])
                  [] k >= g.length    -> Zero
                  [] OTHER            -> x[k - h.length]
  <2>1. \A y \in Cells' : Seen'[y[1]][y[2]] = heap[y[1]][y[2]]
    BY ReturnSeen
  <2>2. memNext(Cell(g)[k]) = heap[a][k]
    BY <1>12, <2>1
  <2>3. k < h.length => mem(Cell(h)[k]) = heap[a][k]
    <3> SUFFICES ASSUME k < h.length PROVE mem(Cell(h)[k]) = heap[a][k]
      OBVIOUS
    <3>1. /\ heap[a][k] = old[h.array][h.offset + k]
          /\ Cell(h)[k] = <<h.array, h.offset + k>> /\ Cell(h)[k] \in Cells
      BY <1>12
    <3>2. mem(Cell(h)[k]) = Seen[h.array][h.offset + k]
      BY <3>1
    <3>3. Seen = old
      BY <1>1
    <3> QED
      BY <3>1, <3>2, <3>3
  <2>4. k >= h.length + n => heap[a][k] = Zero
    BY <1>12
  <2>5. k >= h.length /\ k < h.length + n => heap[a][k] = x[k - h.length]
    BY <1>12
  <2> HIDE DEF mem, memNext
  <2>6. k \in Int /\ h.length \in Int /\ n \in Nat /\ g.length = h.length + n
    BY <1>1, <1>2, <1>4
  <2>7. CASE k < h.length
    BY <2>2, <2>3, <2>6, <2>7
  <2>8. CASE k >= h.length + n
    BY <2>2, <2>4, <2>6, <2>8
  <2>9. CASE k >= h.length /\ k < h.length + n
    BY <2>2, <2>5, <2>6, <2>9
  <2> QED
    BY <2>6, <2>7, <2>8, <2>9
<1>14. /\ [u \in Slice |-> Cell(slice[u])][s] = Cell(h) /\ [u \in Slice |-> slice[u].length][s] = h.length
       /\ [u \in Slice |-> Cell(slice'[u])][d] = Cell(g) /\ [u \in Slice |-> slice'[u].length][d] = g.length
  BY <1>a, <1>3
<1>15. ~([u \in Slice |-> slice[u].length][s] .. [u \in Slice |-> slice[u].length][s] + n - 1
          \subseteq DOMAIN [u \in Slice |-> Cell(slice[u])][s])
  BY <1>10, <1>14
<1>16. Go!AssignNew(d, [u \in Slice |-> slice[u].length][s] + n)
  BY <1>8, <1>14 DEF Go!AssignNew, Go!Assign
<1>17. \A k \in DOMAIN [u \in Slice |-> Cell(slice'[u])][d] :
          memNext([u \in Slice |-> Cell(slice'[u])][d][k]) =
             CASE k < [u \in Slice |-> slice[u].length][s] -> mem([u \in Slice |-> Cell(slice[u])][s][k])
               [] k >= [u \in Slice |-> slice'[u].length][d] -> Zero
               [] OTHER -> x[k - [u \in Slice |-> slice[u].length][s]]
  <2> HIDE DEF mem, memNext
  <2> QED
    BY <1>11, <1>13, <1>14
<1> QED
  BY <1>7, <1>15, <1>16, <1>17 DEF Go!AppendMoving, Go!AssignNew, Go!Assign, Go!KeepsAllBut, Seen

\* What is appended: values, or the elements of a slice.
LEMMA GoAppend ==
    ASSUME IInv, Return, clean, NEW d \in Slice, NEW s \in Slice,
           InPlaceCall(slice, loop, d, s) \/ \E c \in 0 .. MaxCap : MovingCall(slice, loop, d, s, c),
           NEW n, n = loop.n, NEW x,
           \A k \in 0 .. n - 1 : x[k] = loop.old[loop.src][loop.from + k]
    PROVE  Go!Append(d, s, n, x)
BY GoAppendInPlace, GoAppendMoving DEF Go!Append

\* append of nothing.
LEMMA GoAppendNothing ==
    ASSUME IInv, NEW d \in Slice, NEW s \in Slice, NEW x, loop = NoLoop, loop' = NoLoop,
           slice' = [slice EXCEPT ![d] = slice[s]], heap' = Collected(heap, slice')
    PROVE  Go!Append(d, s, 0, x)
<1>a. PICK h : h = slice[s]
  OBVIOUS
<1>1. /\ slice \in [Slice -> Header] /\ slice' \in [Slice -> Header] /\ heap \in Memory
      /\ slice' = [slice EXCEPT ![d] = h] /\ h \in Header
  BY <1>a DEF IInv, TypeOK
<1>2. h.length \in Nat /\ h.length + 0 = h.length
  BY <1>1, HeaderFields
<1>3. Go!Assign(d, Cell(h), h.length)
  BY <1>1, GoAssign
<1>4. \A y \in (Cells \cap Cells') \ {} : Seen'[y[1]][y[2]] = Seen[y[1]][y[2]]
  BY <1>1, SeenCollected DEF Seen
<1>5. Go!KeepsAllBut({})
  BY <1>1, <1>4, GoKeeps
<1>6. [u \in Slice |-> Cell(slice[u])][s] = Cell(h) /\ [u \in Slice |-> slice[u].length][s] = h.length
  BY <1>a
<1>7. Go!Assign(d, [u \in Slice |-> Cell(slice[u])][s], [u \in Slice |-> slice[u].length][s] + 0)
  BY <1>2, <1>3, <1>6 DEF Go!Assign
<1>8. [u \in Slice |-> slice[u].length][s] .. [u \in Slice |-> slice[u].length][s] + 0 - 1
          \subseteq DOMAIN [u \in Slice |-> Cell(slice[u])][s]
  BY <1>2, <1>6
<1>9. 0 .. 0 - 1 = {}
  OBVIOUS
<1>10. Go!KeepsAllBut({[u \in Slice |-> Cell(slice[u])][s][[u \in Slice |-> slice[u].length][s] + k] :
                          k \in 0 .. 0 - 1})
  BY <1>5, <1>9 DEF Go!KeepsAllBut
<1>11. Go!AppendInPlace(d, s, 0, x)
  BY <1>7, <1>8, <1>9, <1>10 DEF Go!AppendInPlace, Go!Assign, Go!KeepsAllBut
<1> QED
  BY <1>11 DEF Go!Append

\* The same, as an append of a slice.
GoLen(t) == [u \in Slice |-> slice[u].length][t]

LEMMA InPlaceSame ==
    ASSUME NEW d \in Slice, NEW s \in Slice, NEW t \in Slice, NEW n, NEW x,
           n = GoLen(t), x = Go!Elements(t), Go!AppendInPlace(d, s, n, x)
    PROVE  Go!AppendInPlace(d, s, GoLen(t), Go!Elements(t))
BY DEF Go!AppendInPlace, Go!Assign, Go!KeepsAllBut

LEMMA MovingSame ==
    ASSUME NEW d \in Slice, NEW s \in Slice, NEW t \in Slice, NEW n, NEW x,
           n = GoLen(t), x = Go!Elements(t), Go!AppendMoving(d, s, n, x)
    PROVE  Go!AppendMoving(d, s, GoLen(t), Go!Elements(t))
BY DEF Go!AppendMoving, Go!AssignNew, Go!Assign, Go!KeepsAllBut

LEMMA GoAppendSlice ==
    ASSUME NEW d \in Slice, NEW s \in Slice, NEW t \in Slice, NEW n, NEW x,
           n = slice[t].length, x = Go!Elements(t), Go!Append(d, s, n, x)
    PROVE  Go!AppendSlice(d, s, t)
<1>1. n = GoLen(t)
  BY DEF GoLen
<1>2. Go!AppendInPlace(d, s, n, x) \/ Go!AppendMoving(d, s, n, x)
  BY DEF Go!Append
<1>3. Go!AppendInPlace(d, s, GoLen(t), Go!Elements(t)) \/ Go!AppendMoving(d, s, GoLen(t), Go!Elements(t))
  BY <1>1, <1>2, InPlaceSame, MovingSame
<1> QED
  BY <1>3 DEF Go!AppendSlice, Go!Append, Go!AppendInPlace, Go!AppendMoving, Go!AssignNew,
              Go!Assign, Go!KeepsAllBut, GoLen

\* A call that returns has done what Go promises of it.
LEMMA GoReturn ==
    ASSUME RInv, Return, clean
    PROVE  Go!Next
<1>1. IInv /\ loop # NoLoop /\ Called(slice, loop)
  BY DEF RInv, CallInv, Return
<1>2. PICK n, old : n = loop.n /\ old = loop.old
  OBVIOUS
<1>3. /\ slice \in [Slice -> Header] /\ loop \in Loop /\ Seen = old /\ old \in Memory /\ n \in Nat
      /\ Filled(loop) /\ loop.src \in Table /\ loop.from \in Nat
  BY <1>1, <1>2, ReturnSeen DEF Loop, IInv, LoopInv
<1>4. PICK d \in Slice, s \in Slice :
         \/ CopyCall(slice, loop, d, s)
         \/ Handed(slice, loop) /\ InPlaceCall(slice, loop, d, s)
         \/ Handed(slice, loop) /\ \E c \in 0 .. MaxCap : MovingCall(slice, loop, d, s, c)
  BY <1>1 DEF Called
<1>5. CASE CopyCall(slice, loop, d, s)
  BY <1>1, <1>5, GoCopy DEF Go!Next
<1>6. CASE /\ Handed(slice, loop)
           /\ InPlaceCall(slice, loop, d, s) \/ \E c \in 0 .. MaxCap : MovingCall(slice, loop, d, s, c)
  <2>1. CASE loop.src = Args /\ loop.from = 0 /\ loop.n \in 1 .. MaxArgs
    <3>1. PICK x : x = [k \in 0 .. n - 1 |-> old[Args][k]]
      OBVIOUS
    <3>2. \A k \in 0 .. n - 1 : x[k] = loop.old[loop.src][loop.from + k]
      BY <1>2, <2>1, <3>1
    <3>3. \A k \in 0 .. n - 1 : old[Args][k] \in Value
      <4> TAKE k \in 0 .. n - 1
      <4>1. k \in Slot /\ Args \in Table /\ 0 + k = k
        BY <1>2, <1>3, <2>1, BoundAssumption DEF Slot, Table
      <4>2. old[Args][0 + k] # Nil
        BY <1>2, <1>3, <2>1 DEF Filled
      <4> QED
        BY <1>3, <4>1, <4>2 DEF Memory
    <3>4. x \in [0 .. n - 1 -> Value]
      BY <3>1, <3>3
    <3>5. Go!Append(d, s, n, x)
      BY <1>1, <1>2, <1>6, <3>2, GoAppend
    <3> QED
      BY <1>2, <2>1, <3>4, <3>5 DEF Go!Next
  <2>2. ASSUME NEW t \in Slice, loop.src = slice[t].array, loop.from = slice[t].offset,
               loop.n = slice[t].length
        PROVE  Go!Next
    <3>1. PICK x : x = Go!Elements(t)
      OBVIOUS
    <3>2. \A k \in 0 .. n - 1 : x[k] = loop.old[loop.src][loop.from + k]
      <4>1. Go!Elements(t) = [k \in 0 .. slice[t].length - 1 |-> Seen[slice[t].array][slice[t].offset + k]]
        BY <1>3, GoElements
      <4> QED
        BY <1>2, <1>3, <2>2, <3>1, <4>1
    <3>3. Go!Append(d, s, n, x)
      BY <1>1, <1>2, <1>6, <3>2, GoAppend
    <3>4. Go!AppendSlice(d, s, t)
      BY <1>2, <2>2, <3>1, <3>3, GoAppendSlice
    <3> QED
      BY <3>4 DEF Go!Next
  <2> QED
    BY <1>6, <2>1, <2>2 DEF Handed
<1> QED
  BY <1>4, <1>5, <1>6

\* A call of __copyArray shows the program nothing yet.
LEMMA GoCopyArray ==
    ASSUME IInv, loop = NoLoop, NEW mem, NEW dst, NEW src, NEW to, NEW from, NEW n,
           NEW toBoxed, NEW fromBoxed, NEW after, NEW boxes, loop' \in Loop,
           CopyArray(mem, dst, src, to, from, n, toBoxed, fromBoxed, after, boxes),
           \A t \in Slice : mem[slice[t].array] = heap[slice[t].array]
    PROVE  UNCHANGED Go!vars
<1>1. slice' = slice /\ loop'.old = mem /\ loop' # NoLoop /\ slice \in [Slice -> Header]
  <2>1. loop' # NoLoop
    BY LoopAssumption
  <2> QED
    BY <2>1, CopyArrayCall DEF IInv, TypeOK
<1>2. ASSUME NEW x \in Cells PROVE Seen'[x[1]][x[2]] = Seen[x[1]][x[2]]
  <2>1. PICK t \in Slice : x \in Run(slice[t])
    BY DEF Cells, Run
  <2>2. x[1] = slice[t].array
    BY <2>1 DEF Run
  <2> QED
    BY <1>1, <2>2 DEF Seen
<1> QED
  BY <1>1, <1>2, GoStutter

LEMMA GoInternalAppend ==
    ASSUME IInv, loop = NoLoop, NEW mem \in Memory, NEW d \in Slice, NEW s \in Slice,
           NEW src, NEW from, NEW n, NEW ints, clean',
           InternalAppend(mem, d, s, src, from, n, ints), n # 0, loop' \in Loop,
           \A t \in Slice : mem[slice[t].array] = heap[slice[t].array]
    PROVE  UNCHANGED Go!vars
<1>1. PICK h : h = slice[s]
  OBVIOUS
<1>2. CASE Fits(h, h.length + n)
  <2>1. PICK after : after = [slice EXCEPT ![d] = [h EXCEPT !.length = h.length + n]]
    OBVIOUS
  <2>2. PICK toBoxed, fromBoxed, boxes :
           CopyArray(mem, h.array, src, h.offset + h.length, from, n, toBoxed, fromBoxed,
                     after, boxes)
    BY <1>1, <1>2, <2>1 DEF InternalAppend
  <2> QED
    BY <2>2, GoCopyArray
<1>3. CASE ~Fits(h, h.length + n)
  <2>1. PICK c, b : c = NewCapacity(h.capacity, h.length + n) /\ b = ("offset" \in boxed[s])
    OBVIOUS
  <2>2a. PICK a \in Fresh :
            \E toBoxed, fromBoxed, boxes :
              CopyArray([mem EXCEPT ![a] = Moved(mem, h, b, c)], a, src, h.length, from, n,
                        toBoxed, fromBoxed,
                        [slice EXCEPT ![d] = [array |-> a, offset |-> 0,
                                              length |-> h.length + n, capacity |-> c]], boxes)
    BY <1>1, <1>3, <2>1 DEF InternalAppend
  <2>2. PICK toBoxed, fromBoxed, boxes :
            CopyArray([mem EXCEPT ![a] = Moved(mem, h, b, c)], a, src, h.length, from, n,
                      toBoxed, fromBoxed,
                      [slice EXCEPT ![d] = [array |-> a, offset |-> 0,
                                            length |-> h.length + n, capacity |-> c]], boxes)
    BY <2>2a
  <2>3. PICK new, after : /\ new = [mem EXCEPT ![a] = Moved(mem, h, b, c)]
                          /\ after = [slice EXCEPT ![d] = [array |-> a, offset |-> 0,
                                                           length |-> h.length + n, capacity |-> c]]
    OBVIOUS
  <2>4. CopyArray(new, a, src, h.length, from, n, toBoxed, fromBoxed, after, boxes)
    BY <2>2, <2>3
  <2>5. \A t \in Slice : new[slice[t].array] = heap[slice[t].array]
    <3>1. \A t \in Slice : slice[t].array # a /\ slice[t].array \in Table
      BY HeaderFields DEF Fresh, IInv, TypeOK
    <3> QED
      BY <2>3, <3>1 DEF Memory
  <2> QED
    BY <2>4, <2>5, GoCopyArray
<1> QED
  BY <1>2, <1>3

\* append: a stutter until the call returns, unless there is nothing to append.
LEMMA GoAppendSliceStep ==
    ASSUME IInv, NEW d \in Slice, NEW s \in Slice, NEW t \in Slice, AppendSlice(d, s, t),
           clean'
    PROVE  [Go!Next]_Go!vars
<1>1. PICK h, mem : h = slice[t] /\ mem = heap
  OBVIOUS
<1>2. /\ loop = NoLoop /\ InternalAppend(mem, d, s, h.array, h.offset, h.length, boxed[t])
      /\ h.length # 0 => loop' \in Loop
  BY <1>1, AppendSliceInv DEF AppendSlice
<1>3. CASE h.length = 0
  <2>1. /\ slice' = [slice EXCEPT ![d] = slice[s]] /\ heap' = Collected(heap, slice')
        /\ loop' = NoLoop
    BY <1>2, <1>3 DEF InternalAppend
  <2>2. PICK n, x : n = 0 /\ x = Go!Elements(t)
    OBVIOUS
  <2>3. Go!Append(d, s, n, x)
    BY <1>2, <2>1, <2>2, GoAppendNothing
  <2>4. Go!AppendSlice(d, s, t)
    BY <1>1, <1>3, <2>2, <2>3, GoAppendSlice
  <2> QED
    BY <2>4 DEF Go!Next
<1>4. CASE h.length # 0
  <2>1. mem \in Memory /\ \A u \in Slice : mem[slice[u].array] = heap[slice[u].array]
    BY <1>1 DEF IInv, TypeOK
  <2>2. loop' \in Loop
    BY <1>2, <1>4
  <2>3. UNCHANGED Go!vars
    BY <1>2, <1>4, <2>1, <2>2, GoInternalAppend
  <2> QED
    BY <2>3
<1> QED
  BY <1>3, <1>4

LEMMA GoAppendArgsStep ==
    ASSUME IInv, NEW d \in Slice, NEW s \in Slice, NEW n \in 1 .. MaxArgs,
           NEW x \in [0 .. n - 1 -> Value], AppendArgs(d, s, n, x), clean'
    PROVE  UNCHANGED Go!vars
<1>1. PICK f, mem : f = [i \in Slot |-> IF i < n THEN x[i] ELSE Nil] /\ mem = [heap EXCEPT ![Args] = f]
  OBVIOUS
<1>2. loop = NoLoop /\ InternalAppend(mem, d, s, Args, 0, n, {}) /\ loop' \in Loop
  BY <1>1, AppendArgsInv DEF AppendArgs
<1>3. f \in [Slot -> Value \cup {Nil}]
  <2>1. \A i \in Slot : i < n => x[i] \in Value
    BY BoundAssumption DEF Slot
  <2> QED
    BY <1>1, <2>1
<1>4. mem \in Memory
  BY <1>1, <1>3 DEF IInv, TypeOK, Memory
<1>5. ASSUME NEW t \in Slice PROVE mem[slice[t].array] = heap[slice[t].array]
  <2>1. slice[t].array \in Table /\ slice[t].array # Args
    BY HeaderFields DEF IInv, TypeOK
  <2> QED
    BY <1>1, <2>1 DEF IInv, TypeOK, Memory
<1>6. n # 0
  OBVIOUS
<1> QED
  BY <1>2, <1>4, <1>5, <1>6, GoInternalAppend

LEMMA GoCopyStep ==
    ASSUME IInv, NEW d \in Slice, NEW s \in Slice, Copy(d, s)
    PROVE  UNCHANGED Go!vars
<1>1. PICK mem, dst, src, to, from, n, toBoxed, fromBoxed, after, boxes :
         /\ toBoxed = ("offset" \in boxed[d]) /\ fromBoxed = ("offset" \in boxed[s])
         /\ boxes = boxed /\ mem = heap /\ dst = slice[d].array /\ src = slice[s].array
         /\ to = slice[d].offset /\ from = slice[s].offset
         /\ n = Least(slice[s].length, slice[d].length) /\ after = slice
  OBVIOUS
<1>2. /\ CopyArray(mem, dst, src, to, from, n, toBoxed, fromBoxed, after, boxes)
      /\ loop = NoLoop /\ loop' \in Loop
  BY <1>1, CopyInv DEF Copy
<1> QED
  BY <1>1, <1>2, GoCopyArray

LEMMA GoCopyElement ==
    ASSUME IInv, CopyElement
    PROVE  UNCHANGED Go!vars
<1>1. /\ loop \in Loop /\ slice' = slice /\ slice \in [Slice -> Header]
      /\ loop' = [loop EXCEPT !.done = @ + 1] /\ loop # NoLoop
  BY DEF CopyElement, IInv, TypeOK
<1>2. loop'.old = loop.old /\ loop' \in Loop
  BY <1>1 DEF Loop
<1>3. Seen' = loop.old /\ Seen = loop.old
  BY <1>1, <1>2, LoopAssumption DEF Seen
<1> QED
  BY <1>1, <1>3, GoStutter

-----------------------------------------------------------------------------
LEMMA GoInit == Init => Go!Init
<1> SUFFICES ASSUME Init PROVE Go!Init
  OBVIOUS
<1>1. slice = [s \in Slice |-> NilSlice] /\ loop = NoLoop
  BY DEF Init
<1>2. Cell(NilSlice) = [k \in {} |-> k]
  <2>1. NilSlice.capacity = 0 /\ 0 .. 0 - 1 = {}
    BY DEF NilSlice
  <2> QED
    BY <2>1 DEF Cell
<1>3. [s \in Slice |-> Cell(slice[s])] = [s \in Slice |-> [k \in {} |-> k]]
  BY <1>1, <1>2
<1>4. [s \in Slice |-> slice[s].length] = [s \in Slice |-> 0]
  BY <1>1 DEF NilSlice
<1>5. Cells = {}
  <2>1. NilSlice.offset = 0 /\ NilSlice.capacity = 0
    BY DEF NilSlice
  <2>2. \A s \in Slice : slice[s] = NilSlice
    BY <1>1
  <2>3. \A s \in Slice : slice[s].offset .. slice[s].offset + slice[s].capacity - 1 = {}
    <3>1. 0 .. 0 + 0 - 1 = {}
      OBVIOUS
    <3> QED
      BY <2>1, <2>2, <3>1
  <2> QED
    BY <2>3 DEF Cells
<1>6. [x \in Cells |-> (IF loop = NoLoop THEN heap ELSE loop.old)[x[1]][x[2]]] = [x \in {} |-> Zero]
  BY <1>5
<1> QED
  BY <1>3, <1>4, <1>6 DEF Go!Init

LEMMA GoNext == RInv /\ [Next]_vars => [clean' => Go!Next]_Go!vars
<1> SUFFICES ASSUME RInv, [Next]_vars, clean' PROVE [Go!Next]_Go!vars
  OBVIOUS
<1>1. IInv
  BY DEF RInv
<1>2. ASSUME NEW d \in Slice, NEW length \in 0 .. MaxCap, NEW capacity \in 0 .. MaxCap,
             Make(d, length, capacity)
      PROVE  Go!Next
  BY <1>1, <1>2, GoMake DEF Go!Next
<1>3. ASSUME NEW d \in Slice, NEW s \in Slice, NEW low \in 0 .. MaxCap,
             NEW high \in 0 .. MaxCap \cup {Nil}, NEW max \in 0 .. MaxCap \cup {Nil},
             NEW ints \in SUBSET Field, Reslice(d, s, low, high, max, ints)
      PROVE  Go!Next
  BY <1>1, <1>3, GoReslice DEF Go!Next
<1>4. ASSUME NEW d \in Slice, NEW s \in Slice, Copy(d, s)
      PROVE  [Go!Next]_Go!vars
  BY <1>1, <1>4, GoCopyStep
<1>5. ASSUME NEW d \in Slice, NEW n \in 1 .. MaxArgs, NEW x \in [0 .. n - 1 -> Value],
             Literal(d, n, x)
      PROVE  Go!Next
  BY <1>1, <1>5, GoLiteral DEF Go!Next
<1>6. ASSUME NEW d \in Slice, NEW s \in Slice, NEW n \in 1 .. MaxArgs,
             NEW x \in [0 .. n - 1 -> Value], AppendArgs(d, s, n, x)
      PROVE  [Go!Next]_Go!vars
  BY <1>1, <1>6, GoAppendArgsStep
<1>7. ASSUME NEW d \in Slice, NEW s \in Slice, NEW t \in Slice, AppendSlice(d, s, t)
      PROVE  [Go!Next]_Go!vars
  BY <1>1, <1>7, GoAppendSliceStep
<1>8. ASSUME NEW s \in Slice, NEW k \in Slot, NEW v \in Value \cup Read, Write(s, k, v)
      PROVE  Go!Next
  <2>1. v \in Value
    BY <1>1, <1>8, ReadValues DEF IInv, Write
  <2>2. k \in DOMAIN Go!Elements(s) /\ Go!Write(s, k, v)
    BY <1>1, <1>8, <2>1, GoWrite
  <2> QED
    BY <2>1, <2>2 DEF Go!Next
<1>9. CASE CopyElement
  BY <1>1, <1>9, GoCopyElement
<1>10. CASE Return
  <2>1. clean
    BY <1>10 DEF Return
  <2> QED
    BY <1>10, <2>1, GoReturn
<1>11. CASE UNCHANGED vars
  <2>1. slice' = slice /\ heap' = heap /\ loop' = loop
    BY <1>11 DEF vars
  <2>2. Seen' = Seen /\ slice \in [Slice -> Header]
    BY <1>1, <2>1 DEF Seen, IInv, TypeOK
  <2>3. UNCHANGED Go!vars
    BY <2>1, <2>2, GoStutter
  <2> QED
    BY <2>3
<1> QED
  BY <1>2, <1>3, <1>4, <1>5, <1>6, <1>7, <1>8, <1>9, <1>10, <1>11
     DEF Next, Cut, New, Use

\* Make, literals, slicing, element writes, copy and append of the runtime do
\* what GoSlices promises, however slices share arrays: elements written
\* through one slice show in the others, append writes in place exactly when
\* the capacity suffices and moves to an array of its own otherwise. Numbers
\* of a slice may be int64 objects, up to the first element lost to one
\* (tsys.lua:705, 758, 764, 877, 1098).
THEOREM SlicesRefineGo == Spec => RefinesGoSlices
<1>1. Init => RInv
  BY InitInv, InitCall DEF RInv
<1>2. RInv /\ [Next]_vars => RInv'
  BY NextInv, NextCall DEF RInv
<1> QED
  BY <1>1, <1>2, GoInit, GoNext, PTL DEF Spec, RefinesGoSlices
=============================================================================
