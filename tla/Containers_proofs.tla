-------------------------- MODULE Containers_proofs --------------------------
(***************************************************************************)
(* The two containers of a channel. The CircularBuffer is a bounded FIFO   *)
(* queue for every capacity and every set of values: no pushed value is    *)
(* overwritten, lost or seen twice. The Set of prelude/chan.lua holds what *)
(* its user put into it, for any number of alts and any order of additions *)
(* and removals in which no alt is added twice.                            *)
(***************************************************************************)
EXTENDS Containers, SequenceTheorems, TLAPS

Inv == TypeOK /\ LiveSlotsSet

\* The remainder of a number that is less than one turn away from 0 .. N - 1.
LEMMA ModWrap ==
    ASSUME NEW N \in Nat \ {0}, NEW i \in Int, -N <= i, i < 2 * N
    PROVE  i % N = IF i < 0 THEN i + N ELSE IF i < N THEN i ELSE i - N
<1> QED BY SMTT(30)

\* How many slots lie between two indices, and which.
LEMMA Wrap ==
    /\ Slots \in Nat \ {0} /\ Slot = 0 .. Slots - 1
    /\ \A i \in Slot, k \in 0 .. Slots :
          At(i, k) = IF i + k < Slots THEN i + k ELSE i + k - Slots
    /\ \A i, j \in Slot :
          (j - i) % Slots = IF i <= j THEN j - i ELSE j - i + Slots
    /\ \A i \in Slot : Succ(i) = IF i = Size THEN 0 ELSE i + 1
<1>1. Slots \in Nat \ {0} /\ Slot = 0 .. Slots - 1
  BY SizeAssumption DEF Slots, Slot
<1>2. ASSUME NEW i \in Slot, NEW k \in 0 .. Slots
      PROVE  At(i, k) = IF i + k < Slots THEN i + k ELSE i + k - Slots
  <2> DEFINE x == i + k
  <2>1. x \in Int /\ -Slots <= x /\ x < 2 * Slots /\ ~(x < 0)
    BY <1>1
  <2>2. At(i, k) = x % Slots
    BY DEF At
  <2> HIDE DEF x
  <2>3. x % Slots = IF x < Slots THEN x ELSE x - Slots
    BY <1>1, <2>1, ModWrap
  <2> QED BY <1>1, <2>2, <2>3 DEF x
<1>3. ASSUME NEW i \in Slot, NEW j \in Slot
      PROVE  (j - i) % Slots = IF i <= j THEN j - i ELSE j - i + Slots
  <2>1. j - i \in Int /\ -Slots <= j - i /\ j - i < 2 * Slots /\ j - i < Slots
        /\ (j - i < 0) = ~(i <= j)
    BY <1>1
  <2> QED BY <1>1, <2>1, ModWrap
<1>4. ASSUME NEW i \in Slot
      PROVE  Succ(i) = IF i = Size THEN 0 ELSE i + 1
  <2> DEFINE x == i + 1
  <2>1. x \in Int /\ -Slots <= x /\ x < 2 * Slots /\ ~(x < 0)
    BY <1>1
  <2>2. Succ(i) = x % Slots
    BY DEF Succ
  <2> HIDE DEF x
  <2>3. x % Slots = IF x < Slots THEN x ELSE x - Slots
    BY <1>1, <2>1, ModWrap
  <2> QED BY <2>2, <2>3, <1>1, SizeAssumption DEF x, Slots
<1> QED BY <1>1, <1>2, <1>3, <1>4

LEMMA FunctionIsSeq ==
    ASSUME NEW S, NEW n \in Nat, NEW f \in [1 .. n -> S]
    PROVE  f \in Seq(S) /\ Len(f) = n
<1>1. f \in Seq(S)
  BY SeqDef
<1>2. 1 .. Len(f) = 1 .. n /\ Len(f) \in Nat
  BY <1>1, LenProperties
<1> QED BY <1>1, <1>2

\* The n values from slot ll on, as a sequence.
Held(bb, ll, n) == [i \in 1 .. n |-> bb[At(ll, i - 1)]]

LEMMA HeldIsSeq ==
    ASSUME NEW bb \in [Slot -> Value \cup {Nil}], NEW ll \in Slot,
           NEW n \in 0 .. Size, \A i \in 1 .. n : bb[At(ll, i - 1)] # Nil
    PROVE  /\ Held(bb, ll, n) \in Seq(Value)
           /\ Len(Held(bb, ll, n)) = n
           /\ \A i \in 1 .. n : Held(bb, ll, n)[i] = bb[At(ll, i - 1)]
<1>1. ASSUME NEW i \in 1 .. n
      PROVE  At(ll, i - 1) \in Slot
  <2>1. i - 1 \in 0 .. Slots
    BY SizeAssumption DEF Slots
  <2>2. At(ll, i - 1) = IF ll + (i - 1) < Slots THEN ll + (i - 1)
                        ELSE ll + (i - 1) - Slots
    BY <2>1, Wrap
  <2> QED BY <2>1, <2>2, SizeAssumption DEF Slot, Slots
<1>2. \A i \in 1 .. n : Held(bb, ll, n)[i] = bb[At(ll, i - 1)]
  BY DEF Held
<1>3. Held(bb, ll, n) \in [1 .. n -> Value]
  <2>1. \A i \in 1 .. n : bb[At(ll, i - 1)] \in Value
    BY <1>1
  <2> QED BY <2>1 DEF Held
<1>4. n \in Nat
  BY SizeAssumption
<1> QED BY <1>2, <1>3, <1>4, FunctionIsSeq

\* What the mapping to the queue says in every reachable state.
LEMMA ContentsFacts ==
    ASSUME Inv
    PROVE  /\ len \in 0 .. Size
           /\ len = IF l <= r THEN r - l ELSE r - l + Slots
           /\ Contents \in Seq(Value)
           /\ Len(Contents) = len
           /\ \A i \in 1 .. len : Contents[i] = b[At(l, i - 1)]
           /\ \A i \in 1 .. len : At(l, i - 1) \in Slot \ {r}
           /\ At(l, len) = r
<1>1. l \in Slot /\ r \in Slot /\ b \in [Slot -> Value \cup {Nil}]
  BY DEF Inv, TypeOK
<1>2. len = IF l <= r THEN r - l ELSE r - l + Slots
  BY <1>1, Wrap DEF len
<1>3. len \in 0 .. Size
  BY <1>1, <1>2, SizeAssumption DEF Slot, Slots
<1>4. ASSUME NEW i \in 1 .. len
      PROVE  At(l, i - 1) \in Slot \ {r}
  <2>1. i - 1 \in 0 .. Slots
    BY <1>3, SizeAssumption DEF Slots
  <2>2. At(l, i - 1) = IF l + (i - 1) < Slots THEN l + (i - 1)
                       ELSE l + (i - 1) - Slots
    BY <1>1, <2>1, Wrap
  <2> QED BY <1>1, <1>2, <1>3, <2>1, <2>2, SizeAssumption DEF Slot, Slots
<1>5. At(l, len) = r
  <2>1. len \in 0 .. Slots
    BY <1>3, SizeAssumption DEF Slots
  <2>2. At(l, len) = IF l + len < Slots THEN l + len ELSE l + len - Slots
    BY <1>1, <2>1, Wrap
  <2>3. l + len < Slots => l + len = r
    BY <1>1, <1>2, SizeAssumption DEF Slot, Slots
  <2>4. ~(l + len < Slots) => l + len - Slots = r
    BY <1>1, <1>2, SizeAssumption DEF Slot, Slots
  <2> QED BY <2>2, <2>3, <2>4
<1>6. \A i \in 1 .. len : b[At(l, i - 1)] # Nil
  BY DEF Inv, LiveSlotsSet, Contents
<1>7. Contents = Held(b, l, len)
  BY DEF Contents, Held
<1>8. \A i \in 1 .. len : At(l, i - 1) \in Slot \ {r}
  BY <1>4
<1>9. /\ Held(b, l, len) \in Seq(Value)
      /\ Len(Held(b, l, len)) = len
      /\ \A i \in 1 .. len : Held(b, l, len)[i] = b[At(l, i - 1)]
  BY <1>1, <1>3, <1>6, <1>8, HeldIsSeq
<1> QED BY <1>2, <1>3, <1>5, <1>7, <1>8, <1>9

\* How the distance between the two indices changes when they move.
LEMMA Distances ==
    ASSUME NEW i \in Slot, NEW j \in Slot,
           NEW d \in 0 .. Size, d = IF i <= j THEN j - i ELSE j - i + Slots
    PROVE  /\ d < Size => (Succ(j) - i) % Slots = d + 1
           /\ d > 0 => (j - Succ(i)) % Slots = d - 1
           /\ (Succ(j) - Succ(i)) % Slots = d
           /\ Succ(i) \in Slot /\ Succ(j) \in Slot
           /\ \A k \in 1 .. d : At(Succ(i), k - 1) = At(i, k)
<1>1. /\ Succ(i) = IF i = Size THEN 0 ELSE i + 1
      /\ Succ(j) = IF j = Size THEN 0 ELSE j + 1
  BY Wrap
<1>2. Succ(i) \in Slot /\ Succ(j) \in Slot
  BY <1>1, SizeAssumption DEF Slot
<1>3. d < Size => (Succ(j) - i) % Slots = d + 1
  <2>1. (Succ(j) - i) % Slots
            = IF i <= Succ(j) THEN Succ(j) - i ELSE Succ(j) - i + Slots
    BY <1>2, Wrap
  <2> QED BY <1>1, <2>1, SizeAssumption DEF Slot, Slots
<1>4. d > 0 => (j - Succ(i)) % Slots = d - 1
  <2>1. (j - Succ(i)) % Slots
            = IF Succ(i) <= j THEN j - Succ(i) ELSE j - Succ(i) + Slots
    BY <1>2, Wrap
  <2> QED BY <1>1, <2>1, SizeAssumption DEF Slot, Slots
<1>5. (Succ(j) - Succ(i)) % Slots = d
  <2>1. (Succ(j) - Succ(i)) % Slots
            = IF Succ(i) <= Succ(j) THEN Succ(j) - Succ(i)
              ELSE Succ(j) - Succ(i) + Slots
    BY <1>2, Wrap
  <2> QED BY <1>1, <2>1, SizeAssumption DEF Slot, Slots
<1>6. ASSUME NEW k \in 1 .. d
      PROVE  At(Succ(i), k - 1) = At(i, k)
  <2>1. k \in 0 .. Slots /\ k - 1 \in 0 .. Slots
    BY SizeAssumption DEF Slots
  <2>2. At(i, k) = IF i + k < Slots THEN i + k ELSE i + k - Slots
    BY <2>1, Wrap
  <2>3. At(Succ(i), k - 1) = IF Succ(i) + (k - 1) < Slots THEN Succ(i) + (k - 1)
                             ELSE Succ(i) + (k - 1) - Slots
    BY <1>2, <2>1, Wrap
  <2> QED BY <1>1, <2>1, <2>2, <2>3, SizeAssumption DEF Slot, Slots
<1> QED BY <1>2, <1>3, <1>4, <1>5, <1>6

-----------------------------------------------------------------------------
\* Pushing puts the value behind the others.
LEMMA PushStep ==
    ASSUME Inv, NEW v \in Value, Push(v)
    PROVE  Inv' /\ Fifo!Enqueue(v)
<1>1. /\ l \in Slot /\ r \in Slot /\ b \in [Slot -> Value \cup {Nil}]
      /\ len < Size
      /\ b' = [b EXCEPT ![r] = v]
      /\ r' = Succ(r) /\ l' = l /\ out' = Nil
  BY DEF Inv, TypeOK, Push
<1>2. /\ len \in 0 .. Size
      /\ len = IF l <= r THEN r - l ELSE r - l + Slots
      /\ Contents \in Seq(Value) /\ Len(Contents) = len
      /\ \A i \in 1 .. len : Contents[i] = b[At(l, i - 1)]
      /\ \A i \in 1 .. len : At(l, i - 1) \in Slot \ {r}
      /\ At(l, len) = r
  BY ContentsFacts
<1>3. len' = len + 1 /\ r' \in Slot
  <2>1. (Succ(r) - l) % Slots = len + 1 /\ Succ(r) \in Slot
    <3>1. l \in Slot /\ r \in Slot /\ len \in 0 .. Size
      BY <1>1, <1>2
    <3>2. len = IF l <= r THEN r - l ELSE r - l + Slots
      BY <1>2
    <3>3. Succ(r) \in Slot
      BY <3>1, <3>2, Distances
    <3>4. (Succ(r) - l) % Slots = len + 1
      BY <3>1, <3>2, <1>1, Distances
    <3> QED BY <3>3, <3>4
  <2>2. len' = (Succ(r) - l) % Slots
    BY <1>1 DEF len
  <2> QED BY <2>1, <2>2, <1>1
<1>4. Contents' = Held(b', l, len + 1)
  BY <1>1, <1>3 DEF Contents, Held
<1>5. /\ b' \in [Slot -> Value \cup {Nil}]
      /\ \A i \in 1 .. len : b'[At(l, i - 1)] = Contents[i]
      /\ b'[At(l, len)] = v
  BY <1>1, <1>2
<1> DEFINE n == len
<1>6. n \in 0 .. Size /\ n + 1 \in 0 .. Size
  BY <1>1, <1>2, SizeAssumption
<1>7. \A i \in 1 .. n : Contents[i] \in Value
  BY <1>2, ElementOfSeq
<1>8. \A i \in 1 .. n + 1 : b'[At(l, i - 1)] = IF i = n + 1 THEN v ELSE Contents[i]
  <2>1. \A i \in 1 .. n + 1 : i = n + 1 \/ i \in 1 .. n
    <3> HIDE DEF n
    <3> QED BY <1>6
  <2>2. (n + 1) - 1 = n
    BY <1>6
  <2> QED BY <2>1, <2>2, <1>5
<1>9. \A i \in 1 .. n + 1 : b'[At(l, i - 1)] # Nil
  <2>1. \A i \in 1 .. n + 1 : i = n + 1 \/ i \in 1 .. n
    <3> HIDE DEF n
    <3> QED BY <1>6
  <2> QED BY <2>1, <1>7, <1>8, NilAssumption
<1>10. /\ Contents' \in Seq(Value) /\ Len(Contents') = n + 1
       /\ \A i \in 1 .. n + 1 : Contents'[i] = b'[At(l, i - 1)]
  <2> DEFINE m == n + 1
  <2>1. Contents' = Held(b', l, m) /\ m \in 0 .. Size
        /\ (\A i \in 1 .. m : b'[At(l, i - 1)] # Nil)
    BY <1>4, <1>6, <1>9
  <2> HIDE DEF m, n
  <2>2. /\ Held(b', l, m) \in Seq(Value) /\ Len(Held(b', l, m)) = m
        /\ \A i \in 1 .. m : Held(b', l, m)[i] = b'[At(l, i - 1)]
    <3>1. b' \in [Slot -> Value \cup {Nil}] /\ l \in Slot
      BY <1>1, <1>5
    <3>2. m \in 0 .. Size /\ \A i \in 1 .. m : b'[At(l, i - 1)] # Nil
      BY <2>1
    <3> QED BY <3>1, <3>2, HeldIsSeq
  <2> QED BY <2>1, <2>2 DEF m
<1>11. Contents' = Append(Contents, v)
  <2>1. /\ Append(Contents, v) \in Seq(Value)
        /\ Len(Append(Contents, v)) = n + 1
        /\ \A i \in 1 .. n + 1 :
              Append(Contents, v)[i] = IF i = n + 1 THEN v ELSE Contents[i]
    BY <1>2
  <2>2. \A i \in 1 .. n + 1 : Contents'[i] = Append(Contents, v)[i]
    BY <2>1, <1>8, <1>10
  <2> HIDE DEF n
  <2> QED BY <2>1, <2>2, <1>10, SeqEqual
<1>12. TypeOK'
  BY <1>1, <1>3, <1>5 DEF TypeOK
<1>13. LiveSlotsSet'
  BY <1>3, <1>9, <1>10 DEF LiveSlotsSet
<1> QED BY <1>1, <1>2, <1>11, <1>12, <1>13 DEF Inv, Fifo!Enqueue

\* The oldest value, and where the others are once the left index has moved.
LEMMA FrontFacts ==
    ASSUME Inv, len > 0
    PROVE  /\ Contents # <<>> /\ Head(Contents) = b[l]
           /\ b[l] \in Value
           /\ Tail(Contents) \in Seq(Value)
           /\ Len(Tail(Contents)) = len - 1
           /\ \A i \in 1 .. len - 1 :
                 /\ Tail(Contents)[i] = b[At(Succ(l), i - 1)]
                 /\ At(Succ(l), i - 1) \in Slot \ {r}
           /\ At(Succ(l), len - 1) = r
           /\ Succ(l) \in Slot
<1> DEFINE n == len
<1>1. l \in Slot /\ r \in Slot
  BY DEF Inv, TypeOK
<1>2. /\ n \in 0 .. Size
      /\ n = IF l <= r THEN r - l ELSE r - l + Slots
      /\ Contents \in Seq(Value) /\ Len(Contents) = n
      /\ \A i \in 1 .. n : Contents[i] = b[At(l, i - 1)]
      /\ \A i \in 1 .. n : At(l, i - 1) \in Slot \ {r}
      /\ At(l, n) = r
  BY ContentsFacts
<1>3. n \in Nat /\ n > 0
  BY <1>2, SizeAssumption
<1> HIDE DEF n
<1>4. /\ Succ(l) \in Slot
      /\ \A k \in 1 .. n : At(Succ(l), k - 1) = At(l, k)
  BY <1>1, <1>2, Distances
<1>5. At(l, 0) = l
  <2>1. 0 \in 0 .. Slots
    BY SizeAssumption DEF Slots
  <2>2. At(l, 0) = IF l + 0 < Slots THEN l + 0 ELSE l + 0 - Slots
    BY <1>1, <2>1, Wrap
  <2> QED BY <1>1, <2>2, SizeAssumption DEF Slot, Slots
<1>6. 1 \in 1 .. n /\ 1 - 1 = 0 /\ n \in 1 .. n
  BY <1>3
<1>7. Contents[1] = b[l]
  BY <1>2, <1>5, <1>6
<1>8. Contents # <<>>
  BY <1>2, <1>3
<1>9. /\ Head(Contents) = Contents[1]
      /\ Head(Contents) \in Value
      /\ Tail(Contents) \in Seq(Value)
      /\ Len(Tail(Contents)) = n - 1
      /\ \A i \in 1 .. n - 1 : Tail(Contents)[i] = Contents[i + 1]
  BY <1>2, <1>8, HeadTailProperties
<1>10. ASSUME NEW i \in 1 .. n - 1
       PROVE  /\ Tail(Contents)[i] = b[At(Succ(l), i - 1)]
              /\ At(Succ(l), i - 1) \in Slot \ {r}
  <2>1. i \in 1 .. n /\ i + 1 \in 1 .. n /\ (i + 1) - 1 = i
    BY <1>3
  <2>2. At(Succ(l), i - 1) = At(l, i)
    BY <2>1, <1>4
  <2>3. Contents[i + 1] = b[At(l, i)] /\ At(l, i) \in Slot \ {r}
    BY <2>1, <1>2
  <2> QED BY <2>2, <2>3, <1>9
<1>11. At(Succ(l), n - 1) = r
  BY <1>2, <1>4, <1>6
<1> QED BY <1>4, <1>7, <1>8, <1>9, <1>10, <1>11 DEF n

\* Popping takes the oldest value away.
LEMMA PopStep ==
    ASSUME Inv, Pop
    PROVE  Inv' /\ Fifo!Dequeue
<1> DEFINE n == len
<1>1. /\ l \in Slot /\ r \in Slot /\ b \in [Slot -> Value \cup {Nil}]
      /\ n > 0
      /\ b' = b /\ r' = r /\ l' = Succ(l) /\ out' = b[l]
  BY DEF Inv, TypeOK, Pop
<1>2. /\ n \in 0 .. Size
      /\ n = IF l <= r THEN r - l ELSE r - l + Slots
  BY ContentsFacts
<1>3. /\ Contents # <<>> /\ Head(Contents) = b[l]
      /\ b[l] \in Value
      /\ Tail(Contents) \in Seq(Value)
      /\ Len(Tail(Contents)) = n - 1
      /\ \A i \in 1 .. n - 1 : Tail(Contents)[i] = b[At(Succ(l), i - 1)]
      /\ Succ(l) \in Slot
  BY <1>1, FrontFacts
<1>4. len' = n - 1
  <2>1. len' = (r - Succ(l)) % Slots
    BY <1>1 DEF len
  <2> HIDE DEF n
  <2>2. (r - Succ(l)) % Slots = n - 1
    BY <1>1, <1>2, Distances
  <2> QED BY <2>1, <2>2
<1> DEFINE m == n - 1
<1>5. m \in 0 .. Size
  BY <1>1, <1>2, SizeAssumption
<1>6. Contents' = Held(b, Succ(l), m)
  BY <1>1, <1>4 DEF Contents, Held
<1> HIDE DEF n, m
<1>7. \A i \in 1 .. m : Tail(Contents)[i] \in Value
  BY <1>3, ElementOfSeq DEF m
<1>8. \A i \in 1 .. m : b[At(Succ(l), i - 1)] = Tail(Contents)[i]
  BY <1>3 DEF m
<1>9. \A i \in 1 .. m : b[At(Succ(l), i - 1)] # Nil
  BY <1>7, <1>8, NilAssumption
<1>10. /\ Contents' \in Seq(Value) /\ Len(Contents') = m
       /\ \A i \in 1 .. m : Contents'[i] = b[At(Succ(l), i - 1)]
  <2>1. b \in [Slot -> Value \cup {Nil}] /\ Succ(l) \in Slot
    BY <1>1, <1>3
  <2> QED BY <2>1, <1>5, <1>6, <1>9, HeldIsSeq
<1>11. Contents' = Tail(Contents)
  <2>1. Len(Tail(Contents)) = m
    BY <1>3 DEF m
  <2> QED BY <2>1, <1>3, <1>8, <1>10, SeqEqual
<1>12. TypeOK'
  BY <1>1, <1>3 DEF TypeOK
<1>13. LiveSlotsSet'
  BY <1>4, <1>9, <1>10 DEF LiveSlotsSet, m
<1> QED BY <1>1, <1>3, <1>11, <1>12, <1>13 DEF Inv, Fifo!Dequeue

\* A pop followed by a push takes the oldest value away and puts the new one
\* behind the others.
LEMMA PopPushStep ==
    ASSUME Inv, NEW v \in Value, PopPush(v)
    PROVE  Inv' /\ Fifo!Exchange(v)
<1> DEFINE n == len
<1>1. /\ l \in Slot /\ r \in Slot /\ b \in [Slot -> Value \cup {Nil}]
      /\ n = Size /\ n > 0
      /\ b' = [b EXCEPT ![r] = v] /\ r' = Succ(r) /\ l' = Succ(l)
      /\ out' = b[l]
  BY DEF Inv, TypeOK, PopPush
<1>2. /\ n \in 0 .. Size
      /\ n = IF l <= r THEN r - l ELSE r - l + Slots
      /\ Len(Contents) = n
  BY ContentsFacts
<1>3. /\ Contents # <<>> /\ Head(Contents) = b[l]
      /\ b[l] \in Value
      /\ Tail(Contents) \in Seq(Value)
      /\ Len(Tail(Contents)) = n - 1
      /\ \A i \in 1 .. n - 1 : /\ Tail(Contents)[i] = b[At(Succ(l), i - 1)]
                               /\ At(Succ(l), i - 1) \in Slot \ {r}
      /\ At(Succ(l), n - 1) = r
      /\ Succ(l) \in Slot
  BY <1>1, FrontFacts
<1>4. len' = n /\ Succ(r) \in Slot
  <2>1. len' = (Succ(r) - Succ(l)) % Slots
    BY <1>1 DEF len
  <2> HIDE DEF n
  <2>2. (Succ(r) - Succ(l)) % Slots = n
    BY <1>1, <1>2, Distances
  <2>3. Succ(r) \in Slot
    BY <1>1, <1>2, Distances
  <2> QED BY <2>1, <2>2, <2>3
<1>5. Contents' = Held(b', Succ(l), n)
  BY <1>1, <1>4 DEF Contents, Held
<1>6. b' \in [Slot -> Value \cup {Nil}]
  BY <1>1
<1> HIDE DEF n
<1>7. n \in Nat
  BY <1>2, SizeAssumption
<1>8. \A i \in 1 .. n : i = n \/ i \in 1 .. n - 1
  BY <1>7
<1>9. \A i \in 1 .. n : b'[At(Succ(l), i - 1)] = IF i = n THEN v ELSE Tail(Contents)[i]
  BY <1>1, <1>3, <1>8
<1>10. \A i \in 1 .. n - 1 : Tail(Contents)[i] \in Value
  BY <1>3, ElementOfSeq
<1>11. \A i \in 1 .. n : b'[At(Succ(l), i - 1)] # Nil
  BY <1>8, <1>9, <1>10, NilAssumption
<1>12. /\ Contents' \in Seq(Value) /\ Len(Contents') = n
       /\ \A i \in 1 .. n : Contents'[i] = b'[At(Succ(l), i - 1)]
  <2>1. Succ(l) \in Slot
    BY <1>3
  <2> QED BY <2>1, <1>2, <1>5, <1>6, <1>11, HeldIsSeq
<1>13. Contents' = Append(Tail(Contents), v)
  <2> DEFINE t == Append(Tail(Contents), v)
  <2>1. /\ t \in Seq(Value) /\ Len(t) = n
        /\ \A i \in 1 .. n : t[i] = IF i = n THEN v ELSE Tail(Contents)[i]
    BY <1>3, <1>7, <1>8
  <2>2. \A i \in 1 .. n : Contents'[i] = t[i]
    BY <2>1, <1>9, <1>12
  <2> HIDE DEF t
  <2>3. Contents' = t
    BY <2>1, <2>2, <1>12, SeqEqual
  <2> QED BY <2>3 DEF t
<1>14. TypeOK'
  BY <1>1, <1>3, <1>4, <1>6 DEF TypeOK
<1>15. LiveSlotsSet'
  BY <1>4, <1>11, <1>12 DEF LiveSlotsSet
<1> QED BY <1>1, <1>2, <1>3, <1>13, <1>14, <1>15 DEF Inv, Fifo!Exchange, n

\* An empty table is an empty queue.
LEMMA InitStep == Init => Inv /\ Fifo!FifoInit
<1> SUFFICES ASSUME Init
             PROVE  Inv /\ Fifo!FifoInit
  OBVIOUS
<1>1. TypeOK
  BY SizeAssumption DEF Init, TypeOK, Slot
<1>2. len = 0
  <2>1. 0 \in Slot
    BY SizeAssumption DEF Slot
  <2> QED BY <2>1, Wrap DEF Init, len
<1>3. 1 .. len = {}
  BY <1>2
<1>4. Inv
  BY <1>1, <1>3 DEF Inv, LiveSlotsSet
<1>5. Contents \in Seq(Value) /\ Len(Contents) = 0
  BY <1>2, <1>4, ContentsFacts
<1>6. Contents = <<>>
  BY <1>5, EmptySeq
<1> QED BY <1>4, <1>6 DEF Init, Fifo!FifoInit

LEMMA NextStep == Inv /\ [Next]_vars => Inv' /\ [Fifo!FifoNext]_Fifo!fifoVars
<1> SUFFICES ASSUME Inv, [Next]_vars
             PROVE  Inv' /\ [Fifo!FifoNext]_Fifo!fifoVars
  OBVIOUS
<1>1. ASSUME NEW v \in Value, Push(v)
      PROVE  Inv' /\ Fifo!FifoNext
  BY <1>1, PushStep DEF Fifo!FifoNext
<1>2. ASSUME NEW v \in Value, PopPush(v)
      PROVE  Inv' /\ Fifo!FifoNext
  BY <1>2, PopPushStep DEF Fifo!FifoNext
<1>3. ASSUME Pop
      PROVE  Inv' /\ Fifo!FifoNext
  BY <1>3, PopStep DEF Fifo!FifoNext
<1>4. ASSUME UNCHANGED vars
      PROVE  Inv' /\ UNCHANGED Fifo!fifoVars
  BY <1>4 DEF vars, Inv, TypeOK, LiveSlotsSet, Contents, len, Fifo!fifoVars
<1> QED BY <1>1, <1>2, <1>3, <1>4 DEF Next

-----------------------------------------------------------------------------
\* For every capacity the indices stay inside the table.
THEOREM Typing == Spec => []TypeOK
<1>1. Inv => TypeOK
  BY DEF Inv
<1> QED BY <1>1, InitStep, NextStep, PTL DEF Spec

\* For every capacity a pop returns a value that was pushed.
THEOREM LiveSlots == Spec => []LiveSlotsSet
<1>1. Inv => LiveSlotsSet
  BY DEF Inv
<1> QED BY <1>1, InitStep, NextStep, PTL DEF Spec

\* For every capacity the CircularBuffer of chan.lua is a bounded
\* first-in first-out queue.
THEOREM Refinement == Spec => RefinesFIFO
<1> QED BY InitStep, NextStep, PTL DEF Spec, RefinesFIFO, Fifo!FifoSpec
-----------------------------------------------------------------------------
SetInv == SetTypeOK /\ HoldsMembers

\* The list after a removal, as a function of its place k.
LEMMA ShortenedList ==
    ASSUME NEW s \in Seq(Elem), Len(s) > 0, NEW p \in Nat
    PROVE  LET t == [k \in 1 .. Len(s) - 1 |-> IF k = p THEN s[Len(s)] ELSE s[k]]
           IN  /\ t \in Seq(Elem)
               /\ Len(t) = Len(s) - 1
<1> DEFINE t == [k \in 1 .. Len(s) - 1 |-> IF k = p THEN s[Len(s)] ELSE s[k]]
<1>1. Len(s) \in Nat /\ s \in [1 .. Len(s) -> Elem]
  BY LenProperties
<1>2. t \in [1 .. Len(s) - 1 -> Elem]
  BY <1>1
<1>3. Len(s) - 1 \in Nat
  BY <1>1
<1>4. t \in Seq(Elem)
  <2> HIDE DEF t
  <2> QED BY <1>2, <1>3, SeqDef
<1>5. 1 .. Len(t) = 1 .. Len(s) - 1
  <2>1. DOMAIN t = 1 .. Len(s) - 1
    OBVIOUS
  <2> HIDE DEF t
  <2> QED BY <1>4, <2>1, LenProperties
<1>6. Len(t) \in Nat
  <2> HIDE DEF t
  <2> QED BY <1>4, LenProperties
<1>7. Len(t) = Len(s) - 1
  <2> HIDE DEF t
  <2> QED BY <1>3, <1>5, <1>6
<1> QED BY <1>4, <1>7

\* Adding a fresh alt keeps the Set in order.
LEMMA AddKeepsInv ==
    ASSUME SetInv, NEW v \in Elem, Add(v)
    PROVE  SetInv'
<1> USE DEF SetInv, SetTypeOK, HoldsMembers, Indexed
<1>1. /\ v \notin used
      /\ a[v] = 0
      /\ list' = Append(list, v)
      /\ a' = [a EXCEPT ![v] = Len(list) + 1]
      /\ members' = members \cup {v}
      /\ used' = used \cup {v}
  BY DEF Add
<1>2. Len(list) \in Nat /\ list \in [1 .. Len(list) -> Elem]
  BY LenProperties
<1>3. /\ list' \in Seq(Elem)
      /\ Len(list') = Len(list) + 1
      /\ \A k \in 1 .. Len(list) : list'[k] = list[k]
      /\ list'[Len(list) + 1] = v
  BY <1>1, <1>2
<1>4. SetTypeOK'
  BY <1>1, <1>2, <1>3
<1>5. {list'[k] : k \in 1 .. Len(list')} = members'
  <2>1. 1 .. Len(list') = 1 .. Len(list) \cup {Len(list) + 1}
    BY <1>2, <1>3
  <2> QED BY <2>1, <1>1, <1>3
<1>6. \A k \in 1 .. Len(list') : a'[list'[k]] = k
  <2> SUFFICES ASSUME NEW k \in 1 .. Len(list')
               PROVE  a'[list'[k]] = k
    OBVIOUS
  <2>1. CASE k = Len(list) + 1
    BY <2>1, <1>1, <1>3
  <2>2. CASE k \in 1 .. Len(list)
    <3>1. list[k] # v /\ list[k] \in Elem
      BY <2>2, <1>1, <1>2
    <3> QED BY <3>1, <2>2, <1>1, <1>3
  <2> QED BY <2>1, <2>2, <1>2, <1>3
<1>7. \A w \in Elem \ used' : a'[w] = 0
  BY <1>1
<1> QED BY <1>4, <1>5, <1>6, <1>7

\* Removing a member keeps the Set in order, although its entry in the table
\* stays behind.
LEMMA RemoveKeepsInv ==
    ASSUME SetInv, NEW v \in Elem, Remove(v)
    PROVE  SetInv'
<1> DEFINE n == Len(list)
           p == a[v]
           last == list[Len(list)]
<1>0. /\ list \in Seq(Elem)
      /\ a \in [Elem -> Nat]
      /\ members \subseteq used /\ used \subseteq Elem
      /\ {list[k] : k \in 1 .. n} = members
      /\ \A k \in 1 .. n : a[list[k]] = k
      /\ \A w \in Elem \ used : a[w] = 0
  BY DEF SetInv, SetTypeOK, HoldsMembers, Indexed
<1>1. /\ v \in members
      /\ members' = members \ {v}
      /\ a' = [a EXCEPT ![last] = p]
      /\ list' = [k \in 1 .. n - 1 |-> IF k = p THEN last ELSE list[k]]
      /\ used' = used
  BY DEF Remove
<1>2. n \in Nat /\ list \in [1 .. n -> Elem]
  BY <1>0, LenProperties
<1>3. PICK q \in 1 .. n : list[q] = v
  BY <1>0, <1>1
<1>4. /\ p \in 1 .. n
      /\ list[p] = v
  <2>1. p = q
    BY <1>0, <1>3
  <2> QED BY <2>1, <1>3
<1>5. n > 0 /\ n \in 1 .. n /\ last \in Elem
  BY <1>2, <1>3
<1>6. list' \in Seq(Elem) /\ Len(list') = n - 1
  BY <1>0, <1>1, <1>4, <1>5, ShortenedList
<1>7. \A j, k \in 1 .. n : list[j] = list[k] => j = k
  BY <1>0
<1>8. last = list[n]
  OBVIOUS
<1>9. \A k \in 1 .. n - 1 : list'[k] = IF k = p THEN last ELSE list[k]
  BY <1>1
<1> HIDE DEF n, p, last
<1>10. \A k \in 1 .. n - 1 : k \in 1 .. n /\ k # n
  BY <1>2
<1>11. 1 .. Len(list') = 1 .. n - 1
  BY <1>6
<1>12. SetTypeOK'
  <2>1. a' \in [Elem -> Nat]
    BY <1>0, <1>1, <1>4, <1>5
  <2> QED BY <2>1, <1>0, <1>1, <1>6 DEF SetTypeOK
<1>13. {list'[k] : k \in 1 .. n - 1} = members'
  <2>1. ASSUME NEW k \in 1 .. n - 1
        PROVE  list'[k] \in members'
    <3>1. CASE k = p
      <4>1. last # v
        BY <3>1, <1>4, <1>5, <1>7, <1>8, <1>10
      <4>2. last \in members
        BY <1>0, <1>5, <1>8
      <4> QED BY <4>1, <4>2, <3>1, <1>1, <1>9
    <3>2. CASE k # p
      <4>1. list[k] # v
        BY <3>2, <1>4, <1>7, <1>10
      <4>2. list[k] \in members
        BY <1>0, <1>10
      <4> QED BY <4>1, <4>2, <3>2, <1>1, <1>9
    <3> QED BY <3>1, <3>2
  <2>2. ASSUME NEW w \in members'
        PROVE  \E k \in 1 .. n - 1 : list'[k] = w
    <3>1. w \in members /\ w # v
      BY <1>1
    <3>2. PICK j \in 1 .. n : list[j] = w
      BY <3>1, <1>0
    <3>3. CASE j = n
      <4>1. p # n
        BY <3>1, <3>2, <3>3, <1>4
      <4>2. p \in 1 .. n - 1
        BY <4>1, <1>2, <1>4
      <4>3. list'[p] = w
        BY <4>2, <3>2, <3>3, <1>8, <1>9
      <4> QED BY <4>2, <4>3
    <3>4. CASE j # n
      <4>1. j \in 1 .. n - 1 /\ j # p
        BY <3>1, <3>2, <3>4, <1>2, <1>4
      <4>2. list'[j] = w
        BY <4>1, <3>2, <1>9
      <4> QED BY <4>1, <4>2
    <3> QED BY <3>3, <3>4
  <2> QED BY <2>1, <2>2
<1>14. \A k \in 1 .. n - 1 : a'[list'[k]] = k
  <2> SUFFICES ASSUME NEW k \in 1 .. n - 1
               PROVE  a'[list'[k]] = k
    OBVIOUS
  <2>1. CASE k = p
    BY <2>1, <1>0, <1>1, <1>5, <1>9
  <2>2. CASE k # p
    <3>1. list'[k] = list[k] /\ list[k] \in Elem /\ a[list[k]] = k
      BY <2>2, <1>0, <1>2, <1>10, <1>9
    <3>2. list[k] # last
      BY <1>5, <1>7, <1>8, <1>10
    <3> QED BY <3>1, <3>2, <1>0, <1>1
  <2> QED BY <2>1, <2>2
<1>15. \A w \in Elem \ used' : a'[w] = 0
  <2>1. last \in used
    BY <1>0, <1>5, <1>8
  <2> QED BY <2>1, <1>0, <1>1
<1> QED BY <1>11, <1>12, <1>13, <1>14, <1>15 DEF SetInv, HoldsMembers, Indexed

\* The Set holds exactly the alts that were added and not removed, once each,
\* whatever was removed in between.
THEOREM SetHoldsMembers == SetSpec => []HoldsMembers
<1>1. SetInit => SetInv
  BY EmptySeq DEF SetInit, SetInv, SetTypeOK, HoldsMembers, Indexed
<1>2. SetInv /\ [SetNext]_setVars => SetInv'
  <2> SUFFICES ASSUME SetInv, [SetNext]_setVars
               PROVE  SetInv'
    OBVIOUS
  <2>1. CASE SetNext
    BY <2>1, AddKeepsInv, RemoveKeepsInv DEF SetNext
  <2>2. CASE UNCHANGED setVars
    BY <2>2 DEF setVars, SetInv, SetTypeOK, HoldsMembers, Indexed
  <2> QED BY <2>1, <2>2
<1>3. SetInv => HoldsMembers
  BY DEF SetInv
<1> QED BY <1>1, <1>2, <1>3, PTL DEF SetSpec
=============================================================================
