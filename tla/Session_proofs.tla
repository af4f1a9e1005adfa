--------------------------- MODULE Session_proofs ---------------------------
(***************************************************************************)
(* Proofs about Session, for all names, items and lengths of commands and  *)
(* of sessions.                                                            *)
(***************************************************************************)
EXTENDS Session, SequenceTheorems, FiniteSetTheorems, TLAPS

-----------------------------------------------------------------------------
\* Objects and what refers to them.
WellFormed ==
    /\ \A o \in Ids : objs[o].typ = "nil" => o \in ObjMap
    /\ \A n \in Symbol : scope[n] # NoObj => objs[scope[n]].item.name = n
    /\ \A n \in Method : scope[n] # NoObj => objs[scope[n]].typ # "nil"
    /\ \A i \in 1 .. Len(busy) : IsVar(busy[i]) /\ objs[busy[i]].visited
    /\ \A i \in 1 .. Len(funcs) : ~IsVar(funcs[i])

\* What each phase has done.
Phases ==
    /\ phase = "stmt" => Len(cmd) > 0 /\ Top(cmd).item.kind \in {"short", "expr"}
    /\ phase \notin {"stmt", "resolve"} => busy = <<>>
    /\ phase \in {"bodies", "order", "run"} => \A o \in Ids : objs[o].typ # "nil"
    /\ phase \in {"order", "run"} => funcs = <<>>
    /\ phase \notin {"methods", "run", "ready"} => at = 1

\* The objects of the command.
Entries ==
    /\ \A i \in 1 .. Len(cmd) :
          /\ cmd[i].obj # NoObj => objs[cmd[i].obj].item = cmd[i].item
          /\ cmd[i].item.kind = "method" => cmd[i].obj # NoObj
    /\ \A i, j \in 1 .. Len(cmd) : cmd[i].obj = cmd[j].obj /\ cmd[i].obj # NoObj => i = j

\* Methods have no type before addMethodDecls comes to them.
Pending ==
    \A i \in 1 .. Len(cmd) :
       /\ cmd[i].item.kind = "method"
       /\ phase \in {"collect", "stmt"} \/ (phase = "methods" /\ i >= at)
       => objs[cmd[i].obj].typ = "nil"

\* An object whose declaration was reported is not declared again.
Blames ==
    \A o \in blamed :
       \/ /\ IsVar(o) /\ (objs[o].visited \/ objs[o].typ # "nil")
          /\ \A i \in 1 .. Len(busy) : busy[i] # o
       \/ /\ ~IsVar(o) /\ objs[o].typ # "nil"
          /\ phase # "ready" => \A i \in 1 .. Len(funcs) : funcs[i] # o

\* The i-th item of the command is in scope.
InScope(i) ==
    IF cmd[i].item.kind = "method"
    THEN phase \in {"resolve", "bodies", "order", "run"} \/ (phase = "methods" /\ i < at)
    ELSE Declares(cmd[i].item) /\ (phase = "stmt" => i < Len(cmd))

\* A name in scope stands for the last item of the command that declares it.
Latest ==
    phase # "ready" =>
       \A i \in 1 .. Len(cmd) :
          /\ InScope(i)
          /\ \A j \in i + 1 .. Len(cmd) : InScope(j) => cmd[j].item.name # cmd[i].item.name
          => scope[cmd[i].item.name] = cmd[i].obj

\* Agreement while a command is under way.
Agrees ==
    \A n \in Symbol :
       \/ scope[n] = lua[n]
       \/ phase = "ready" /\ n \in doubtful
       \/ phase \notin {"ready", "run"} /\ n \in doubtful \cup Names(1, Len(cmd))
       \/ phase = "run" /\ n \in Names(at, Len(cmd)) \cup (doubtful \ Names(1, at - 1))

IInv == TypeOK /\ WellFormed /\ Phases /\ Entries /\ Pending /\ Blames /\ Latest /\ Agrees

-----------------------------------------------------------------------------
\* Sequences.
LEMMA AppendTo ==
    ASSUME NEW S, NEW s \in Seq(S), NEW x \in S, NEW t, t = Append(s, x)
    PROVE  /\ t \in Seq(S) /\ Len(t) = Len(s) + 1 /\ t[Len(s) + 1] = x
           /\ \A i \in 1 .. Len(s) : t[i] = s[i]
BY AppendProperties

\* s with its i-th element replaced.
With(s, i, x) == [s EXCEPT ![i] = x]

LEMMA UpdateOf ==
    ASSUME NEW S, NEW s \in Seq(S), NEW i \in 1 .. Len(s), NEW x \in S
    PROVE  /\ With(s, i, x) \in Seq(S) /\ Len(With(s, i, x)) = Len(s) /\ With(s, i, x)[i] = x
           /\ \A j \in 1 .. Len(s) : j # i => With(s, i, x)[j] = s[j]
BY DEF With

LEMMA PopOf ==
    ASSUME NEW S, NEW s \in Seq(S), s # <<>>
    PROVE  /\ Pop(s) \in Seq(S) /\ Len(Pop(s)) = Len(s) - 1
           /\ \A i \in 1 .. Len(s) - 1 : Pop(s)[i] = s[i]
           /\ Len(s) \in 1 .. Len(s) /\ Top(s) = s[Len(s)] /\ Top(s) \in S
<1>1. Len(s) \in Nat /\ Len(s) # 0
  BY LenProperties, EmptySeq
<1>2. Len(s) \in 1 .. Len(s) /\ Top(s) = s[Len(s)] /\ Top(s) \in S
  BY <1>1, ElementOfSeq DEF Top
<1> DEFINE n == Len(s) - 1
<1>3. n \in Nat /\ \A i \in 1 .. n : s[i] \in S
  BY <1>1, ElementOfSeq
<1>4. Pop(s) = SubSeq(s, 1, n)
  BY DEF Pop
<1>5. /\ SubSeq(s, 1, n) \in Seq(S) /\ Len(SubSeq(s, 1, n)) = n
      /\ \A i \in 1 .. n : SubSeq(s, 1, n)[i] = s[i]
  <2> HIDE DEF n
  <2> QED
    BY <1>3, SubSeqProperties
<1> QED
  BY <1>2, <1>4, <1>5

LEMMA TailOf ==
    ASSUME NEW S, NEW s \in Seq(S), s # <<>>
    PROVE  /\ Tail(s) \in Seq(S) /\ Len(Tail(s)) = Len(s) - 1
           /\ \A i \in 1 .. Len(s) - 1 : Tail(s)[i] = s[i + 1]
           /\ Head(s) = s[1] /\ Head(s) \in S /\ 1 \in 1 .. Len(s)
<1>1. Len(s) \in Nat /\ Len(s) # 0
  BY LenProperties, EmptySeq
<1> QED
  BY <1>1, HeadTailProperties, ElementOfSeq

\* A sequence over a set is one over a larger set.
LEMMA WiderSeq ==
    ASSUME NEW S, NEW T, S \subseteq T, NEW s \in Seq(S)
    PROVE  s \in Seq(T)
BY ElementOfSeq, LenProperties, SeqDef
-----------------------------------------------------------------------------
\* The parts of items, objects and entries.
Entry == [item : Item, obj : Ids \cup {NoObj}]

LEMMA Items ==
    ASSUME NEW it \in Item
    PROVE  /\ it.kind \in {"var", "func", "method", "short", "expr"}
           /\ it.name \in Symbol /\ it.ref \in Symbol \cup {Good, Bad}
           /\ it.typed \in BOOLEAN
           /\ it.kind \in {"var", "func", "short"} => it.name \in Name \ Method
           /\ it.kind = "method" => it.name \in Method
BY NameAssumption, ItemAssumption DEF Symbol

LEMMA Objects ==
    ASSUME NEW x \in Object
    PROVE  /\ x.item \in Item /\ x.typ \in {"nil", "ok", "invalid"}
           /\ x.visited \in BOOLEAN /\ x.dep \in Nat /\ x.order \in Nat
BY DEF Object

LEMMA Elements ==
    ASSUME TypeOK
    PROVE  /\ Len(objs) \in Nat /\ Len(cmd) \in Nat /\ Len(busy) \in Nat /\ Len(funcs) \in Nat
           /\ \A o \in Ids : objs[o] \in Object
           /\ \A i \in 1 .. Len(cmd) :
                 cmd[i] \in Entry /\ cmd[i].item \in Item /\ cmd[i].obj \in Ids \cup {NoObj}
           /\ \A i \in 1 .. Len(busy) : busy[i] \in ObjMap /\ busy[i] \in Ids
           /\ \A i \in 1 .. Len(funcs) : funcs[i] \in Ids
           /\ \A n \in Symbol : scope[n] \in Ids \cup {NoObj} /\ lua[n] \in Ids \cup {NoObj}
<1>1. /\ Len(objs) \in Nat /\ Len(cmd) \in Nat /\ Len(busy) \in Nat /\ Len(funcs) \in Nat
  BY LenProperties DEF TypeOK
<1>2. \A o \in Ids : objs[o] \in Object
  BY ElementOfSeq DEF TypeOK, Ids
<1>3. \A i \in 1 .. Len(cmd) : cmd[i] \in Entry
  BY ElementOfSeq DEF TypeOK, Entry
<1>4. \A i \in 1 .. Len(cmd) : cmd[i].item \in Item /\ cmd[i].obj \in Ids \cup {NoObj}
  BY <1>3 DEF Entry
<1>5. \A i \in 1 .. Len(busy) : busy[i] \in ObjMap /\ busy[i] \in Ids
  BY ElementOfSeq DEF TypeOK
<1>6. \A i \in 1 .. Len(funcs) : funcs[i] \in Ids
  BY ElementOfSeq DEF TypeOK
<1>7. \A n \in Symbol : scope[n] \in Ids \cup {NoObj} /\ lua[n] \in Ids \cup {NoObj}
  BY DEF TypeOK
<1> QED
  BY <1>1, <1>2, <1>3, <1>4, <1>5, <1>6, <1>7

-----------------------------------------------------------------------------
\* What every step does to the objects: none is lost, and none is made into
\* one that is less resolved.
Kept ==
    /\ Len(objs') \in Nat /\ Len(objs) <= Len(objs')
    /\ \A o \in Ids :
          /\ objs'[o].item = objs[o].item
          /\ objs[o].typ # "nil" => objs'[o].typ # "nil"
          /\ objs[o].visited => objs'[o].visited

ObjsTyped ==
    /\ objs \in Seq(Object)
    /\ \A o \in Ids : objs[o].dep \in Ids \cup {NoObj}

LEMMA NewObjTyped ==
    ASSUME TypeOK, NEW it \in Item, NEW t \in {"nil", "ok", "invalid"}
    PROVE  /\ NewObj(it, t) \in Object
           /\ NewObj(it, t).item = it /\ NewObj(it, t).typ = t
           /\ NewObj(it, t).dep = NoObj /\ NewObj(it, t).visited = FALSE
<1>1. Cardinality(ObjMap) \in Nat
  <2>1. IsFiniteSet(Ids)
    BY Elements, FS_Interval DEF Ids
  <2> QED
    BY <2>1, FS_Subset, FS_CardinalityType DEF TypeOK
<1> QED
  BY <1>1 DEF NewObj, Object, NoObj

\* A new object.
LEMMA Added ==
    ASSUME TypeOK, NEW it \in Item, NEW t \in {"nil", "ok", "invalid"},
           objs' = Append(objs, NewObj(it, t))
    PROVE  /\ ObjsTyped' /\ Kept /\ Len(objs') = Len(objs) + 1
           /\ objs'[Len(objs) + 1] = NewObj(it, t)
           /\ \A o \in Ids : objs'[o] = objs[o]
           /\ Ids' = Ids \cup {Len(objs) + 1} /\ Len(objs) + 1 \notin Ids
<1>1. NewObj(it, t) \in Object /\ NewObj(it, t).dep = NoObj
  BY NewObjTyped
<1>2. objs \in Seq(Object) /\ Len(objs) \in Nat
  BY Elements DEF TypeOK
<1>3. /\ objs' \in Seq(Object) /\ Len(objs') = Len(objs) + 1
      /\ objs'[Len(objs) + 1] = NewObj(it, t)
      /\ \A o \in 1 .. Len(objs) : objs'[o] = objs[o]
  BY <1>1, <1>2, AppendTo
<1>4. Ids' = Ids \cup {Len(objs) + 1} /\ Len(objs) + 1 \notin Ids
  BY <1>2, <1>3 DEF Ids
<1>5. \A o \in Ids' : objs'[o].dep \in Ids' \cup {NoObj}
  BY <1>1, <1>3, <1>4 DEF TypeOK, Ids
<1> QED
  BY <1>2, <1>3, <1>4, <1>5 DEF ObjsTyped, Kept, Ids

LEMMA UpdateObjs ==
    ASSUME objs \in Seq(Object), NEW o \in 1 .. Len(objs), NEW x \in Object
    PROVE  /\ With(objs, o, x) \in Seq(Object) /\ Len(With(objs, o, x)) = Len(objs)
           /\ With(objs, o, x)[o] = x
           /\ \A p \in 1 .. Len(objs) : p # o => With(objs, o, x)[p] = objs[p]
<1>1. With(objs, o, x) \in Seq(Object)
  BY UpdateOf
<1>2. Len(With(objs, o, x)) = Len(objs)
  BY UpdateOf
<1>3. With(objs, o, x)[o] = x
  BY UpdateOf
<1>4. \A p \in 1 .. Len(objs) : p # o => With(objs, o, x)[p] = objs[p]
  BY UpdateOf
<1> QED
  BY <1>1, <1>2, <1>3, <1>4

\* One object is replaced by another one for the same item.
LEMMA Replaced ==
    ASSUME TypeOK, NEW o \in Ids, NEW x \in Object, objs' = With(objs, o, x),
           x.item = objs[o].item, x.dep \in Ids \cup {NoObj},
           objs[o].typ # "nil" => x.typ # "nil", objs[o].visited => x.visited
    PROVE  /\ ObjsTyped' /\ Kept /\ Len(objs') = Len(objs) /\ Ids' = Ids
           /\ objs'[o] = x
           /\ \A p \in Ids \ {o} : objs'[p] = objs[p]
<1>1. objs \in Seq(Object) /\ Len(objs) \in Nat /\ o \in 1 .. Len(objs)
  BY Elements DEF TypeOK, Ids
<1>2. /\ objs' \in Seq(Object) /\ Len(objs') = Len(objs) /\ objs'[o] = x
      /\ \A p \in 1 .. Len(objs) : p # o => objs'[p] = objs[p]
  BY <1>1, UpdateObjs
<1>3. Ids' = Ids
  BY <1>2 DEF Ids
<1>4. \A p \in Ids \ {o} : objs'[p] = objs[p]
  BY <1>2 DEF Ids
<1>5. \A p \in Ids' : objs'[p].dep \in Ids' \cup {NoObj}
  BY <1>2, <1>3, <1>4 DEF TypeOK
<1>6. Kept
  BY <1>1, <1>2, <1>4 DEF Kept
<1> QED
  BY <1>2, <1>3, <1>4, <1>5, <1>6 DEF ObjsTyped

LEMMA Unchanged ==
    ASSUME TypeOK, objs' = objs
    PROVE  ObjsTyped' /\ Kept /\ Ids' = Ids /\ \A o \in Ids : objs'[o] = objs[o]
<1>1. Len(objs) \in Nat
  BY Elements
<1> QED
  BY <1>1 DEF TypeOK, ObjsTyped, Kept, Ids

\* objDecl of an object that has no type.
LEMMA Declared ==
    ASSUME TypeOK, WellFormed, NEW o \in Ids, objs[o].typ = "nil", ObjDecl(o)
    PROVE  /\ ObjsTyped' /\ Kept /\ Ids' = Ids /\ o \in ObjMap
           /\ \A p \in Ids \ {o} : objs'[p] = objs[p]
           /\ \/ /\ ~IsVar(o) /\ funcs' = Append(funcs, o) /\ busy' = busy
                 /\ objs'[o].typ # "nil"
              \/ IsVar(o) /\ objs[o].visited /\ funcs' = funcs /\ busy' = busy
              \/ /\ IsVar(o) /\ ~objs[o].visited /\ funcs' = funcs
                 /\ busy' = Append(busy, o) /\ objs'[o].visited
<1> DEFINE a == [objs[o] EXCEPT !.typ = "ok"]
           b == [objs[o] EXCEPT !.typ = "invalid"]
           c == [objs[o] EXCEPT !.visited = TRUE,
                                !.typ = IF objs[o].item.typed THEN "ok" ELSE "nil"]
<1>1. objs[o] \in Object /\ objs[o].dep \in Ids \cup {NoObj}
  BY Elements DEF TypeOK
<1>2. /\ a \in Object /\ a.item = objs[o].item /\ a.dep = objs[o].dep
      /\ a.typ # "nil" /\ a.visited = objs[o].visited
  BY <1>1 DEF Object
<1>3. /\ b \in Object /\ b.item = objs[o].item /\ b.dep = objs[o].dep
      /\ b.typ # "nil" /\ b.visited = objs[o].visited
  BY <1>1 DEF Object
<1>4. /\ c \in Object /\ c.item = objs[o].item /\ c.dep = objs[o].dep /\ c.visited
  BY <1>1 DEF Object
<1>5. o \in ObjMap
  BY DEF WellFormed
<1>6. CASE ~IsVar(o)
  <2>1. objs' = With(objs, o, a) /\ funcs' = Append(funcs, o) /\ busy' = busy
    BY <1>6 DEF ObjDecl, With
  <2> HIDE DEF a
  <2> QED
    BY <1>1, <1>2, <1>5, <1>6, <2>1, Replaced
<1>7. CASE IsVar(o) /\ objs[o].visited
  <2>1. objs' = With(objs, o, b) /\ funcs' = funcs /\ busy' = busy
    BY <1>7 DEF ObjDecl, With, Visited
  <2> HIDE DEF b
  <2> QED
    BY <1>1, <1>3, <1>5, <1>7, <2>1, Replaced
<1>8. CASE IsVar(o) /\ ~objs[o].visited
  <2>1. objs' = With(objs, o, c) /\ funcs' = funcs /\ busy' = Append(busy, o)
    BY <1>8 DEF ObjDecl, With, Visited
  <2> HIDE DEF c
  <2> QED
    BY <1>1, <1>4, <1>5, <1>8, <2>1, Replaced
<1> QED
  BY <1>6, <1>7, <1>8

\* The expression that is checked, and the object that it refers to.
LEMMA Checks ==
    ASSUME TypeOK, Phases, Checking
    PROVE  /\ Ref \in Symbol \cup {Good, Bad} /\ Used \in Ids \cup {NoObj}
           /\ busy # <<>> => Decl = Top(busy) /\ Decl \in ObjMap /\ Decl \in Ids
           /\ busy = <<>> /\ phase = "bodies" =>
                 funcs # <<>> /\ Decl = Head(funcs) /\ Decl \in Ids
           /\ phase = "stmt" => Len(cmd) \in 1 .. Len(cmd) /\ Top(cmd) = cmd[Len(cmd)]
           /\ busy = <<>> /\ phase = "stmt" => Decl = NoObj
           /\ Decl # NoObj => Decl \in Ids /\ NewDep \in Ids \cup {NoObj}
<1>1. busy # <<>> => Decl = Top(busy) /\ Decl \in ObjMap /\ Decl \in Ids
  BY PopOf DEF TypeOK, Decl
<1>2. busy = <<>> /\ phase = "bodies" => funcs # <<>> /\ Decl = Head(funcs) /\ Decl \in Ids
  BY TailOf DEF TypeOK, Checking, Decl
<1>3. phase = "stmt" => Len(cmd) \in 1 .. Len(cmd) /\ Top(cmd) = cmd[Len(cmd)]
  BY Elements DEF Phases, Top
<1>4. busy = <<>> /\ phase = "stmt" => Decl = NoObj
  BY DEF Decl
<1>5. Decl # NoObj => Decl \in Ids
  BY <1>1, <1>2, <1>4 DEF Checking
<1>6. Ref \in Symbol \cup {Good, Bad}
  <2>1. CASE Decl # NoObj
    BY <1>5, <2>1, Elements, Objects, Items DEF Ref
  <2>2. CASE Decl = NoObj
    <3>1. phase = "stmt"
      BY <1>1, <1>2, <2>2, Elements DEF Checking, Ids, NoObj
    <3> QED
      BY <1>3, <2>2, <3>1, Elements, Items DEF Ref
  <2> QED
    BY <2>1, <2>2
<1>7. Used \in Ids \cup {NoObj}
  BY Elements DEF Used
<1>8. Decl # NoObj => NewDep \in Ids \cup {NoObj}
  BY <1>5, <1>7 DEF NewDep, TypeOK
<1> QED
  BY <1>1, <1>2, <1>3, <1>4, <1>5, <1>6, <1>7, <1>8

LEMMA VarDone ==
    ASSUME TypeOK, WellFormed, Phases, VarChecked
    PROVE  /\ ObjsTyped' /\ Kept /\ Ids' = Ids /\ Decl \in ObjMap /\ Decl \in Ids
           /\ Decl = Top(busy) /\ busy # <<>> /\ busy' = Pop(busy)
           /\ \A p \in Ids \ {Decl} : objs'[p] = objs[p]
<1> DEFINE d == objs[Decl]
           x == [d EXCEPT !.dep = NewDep, !.typ = IF d.item.typed THEN d.typ ELSE Result]
<1>1. /\ busy # <<>> /\ Decl = Top(busy) /\ Decl \in ObjMap /\ Decl \in Ids
      /\ NewDep \in Ids \cup {NoObj} /\ NewDep \in Nat
  BY Checks, Elements DEF VarChecked, Right, Ids, NoObj
<1>2. d \in Object /\ objs' = With(objs, Decl, x) /\ busy' = Pop(busy)
  BY <1>1, Elements DEF VarChecked, With
<1>3. /\ x \in Object /\ x.item = d.item /\ x.dep = NewDep /\ x.visited = d.visited
      /\ d.typ # "nil" => x.typ # "nil"
  BY <1>1, <1>2 DEF Object, Result
<1> HIDE DEF x
<1> QED
  BY <1>1, <1>2, <1>3, Replaced

LEMMA BodyDone ==
    ASSUME TypeOK, WellFormed, Phases, BodyChecked
    PROVE  /\ ObjsTyped' /\ Kept /\ Ids' = Ids /\ busy' = busy
           /\ Decl = Head(funcs) /\ funcs # <<>> /\ funcs' = Tail(funcs)
<1> DEFINE x == [objs[Decl] EXCEPT !.dep = NewDep]
<1>0. busy = <<>> /\ phase = "bodies" /\ Checking
  BY DEF BodyChecked, Phases, Right
<1>1. funcs # <<>> /\ Decl = Head(funcs) /\ Decl \in Ids
  BY <1>0, Checks
<1>2. NewDep \in Ids \cup {NoObj} /\ NewDep \in Nat
  BY <1>0, <1>1, Checks, Elements DEF Ids, NoObj
<1>3. /\ objs[Decl] \in Object /\ objs' = With(objs, Decl, x)
      /\ funcs' = Tail(funcs) /\ busy' = busy
  BY <1>1, Elements DEF BodyChecked, With
<1>4. /\ x \in Object /\ x.item = objs[Decl].item /\ x.dep = NewDep
      /\ x.visited = objs[Decl].visited /\ x.typ = objs[Decl].typ
  BY <1>2, <1>3 DEF Object
<1> HIDE DEF x
<1> QED
  BY <1>1, <1>2, <1>3, <1>4, Replaced

LEMMA MethodDone ==
    ASSUME TypeOK, Entries, AddMethodDecl, cmd[at].item.kind = "method"
    PROVE  /\ ObjsTyped' /\ Kept /\ Ids' = Ids /\ at \in 1 .. Len(cmd)
           /\ cmd[at].obj \in Ids /\ objs[cmd[at].obj].item = cmd[at].item
           /\ cmd[at].item.name \in Method
           /\ objs'[cmd[at].obj].typ # "nil"
           /\ \A p \in Ids \ {cmd[at].obj} : objs'[p] = objs[p]
<1> DEFINE o == cmd[at].obj
           x == [objs[o] EXCEPT !.typ = "ok"]
<1>1. at \in 1 .. Len(cmd)
  BY Elements DEF AddMethodDecl, TypeOK
<1>2. o \in Ids /\ objs[o].item = cmd[at].item /\ cmd[at].item.name \in Method
  BY <1>1, Elements, Items DEF Entries
<1>3. objs[o] \in Object /\ objs' = With(objs, o, x) /\ objs[o].dep \in Ids \cup {NoObj}
  BY <1>2, Elements DEF AddMethodDecl, With, TypeOK
<1>4. /\ x \in Object /\ x.item = objs[o].item /\ x.dep = objs[o].dep
      /\ x.visited = objs[o].visited /\ x.typ = "ok"
  BY <1>3 DEF Object
<1> HIDE DEF x
<1> QED
  BY <1>1, <1>2, <1>3, <1>4, Replaced

-----------------------------------------------------------------------------
\* Type correctness.
LEMMA Wider ==
    ASSUME TypeOK, Kept
    PROVE  /\ Ids \subseteq Ids'
           /\ scope \in [Symbol -> Ids' \cup {NoObj}] /\ lua \in [Symbol -> Ids' \cup {NoObj}]
           /\ ObjMap \subseteq Ids' /\ blamed \subseteq Ids' /\ checked \subseteq Ids'
           /\ cmd \in Seq(Entry') /\ funcs \in Seq(Ids')
<1>1. Ids \subseteq Ids'
  BY Elements DEF Kept, Ids
<1>2. Entry \subseteq Entry'
  BY <1>1 DEF Entry
<1>3. cmd \in Seq(Entry) /\ funcs \in Seq(Ids)
  BY DEF TypeOK, Entry
<1>4. cmd \in Seq(Entry') /\ funcs \in Seq(Ids')
  BY <1>1, <1>2, <1>3, WiderSeq
<1> QED
  BY <1>1, <1>4 DEF TypeOK

\* The rest of TypeOK, with the primes where they are needed.
TypedNext ==
    /\ scope' \in [Symbol -> Ids' \cup {NoObj}]
    /\ ObjMap' \subseteq Ids'
    /\ phase' \in {"ready", "collect", "stmt", "methods", "resolve", "bodies", "order", "run"}
    /\ cmd' \in Seq(Entry')
    /\ at' \in 1 .. Len(cmd') + 1
    /\ busy' \in Seq(ObjMap')
    /\ \A i, j \in 1 .. Len(busy') : busy'[i] = busy'[j] => i = j
    /\ funcs' \in Seq(Ids')
    /\ lua' \in [Symbol -> Ids' \cup {NoObj}]
    /\ doubtful' \subseteq Symbol
    /\ blamed' \subseteq Ids'
    /\ checked' \subseteq Ids'

LEMMA TypedNextOK ==
    ASSUME ObjsTyped', TypedNext
    PROVE  TypeOK'
BY DEF ObjsTyped, TypedNext, TypeOK, Entry

\* Names of the items of the command.
LEMMA NamesOf ==
    ASSUME TypeOK, NEW i \in 1 .. Len(cmd) + 1, NEW j \in 0 .. Len(cmd)
    PROVE  Names(i, j) \subseteq Symbol
BY Elements, Items DEF Names

\* Steps that leave the objects alone.
LEMMA QuietTypes ==
    ASSUME TypeOK, Phases,
           \/ Begin \/ EndCollect \/ EndMethods \/ EndResolve \/ EndBodies \/ InitOrder
           \/ UNCHANGED vars
    PROVE  TypedNext
<1>1. objs' = objs
  BY DEF Begin, EndCollect, EndMethods, EndResolve, EndBodies, InitOrder, vars
<1>2. Kept /\ Ids' = Ids
  BY <1>1, Unchanged
<1>3. CASE Begin
  <2>1. cmd' \in Seq(Entry') /\ funcs' \in Seq(Ids') /\ at' \in 1 .. Len(cmd') + 1
    BY <1>3 DEF Begin
  <2> QED
    BY <1>2, <1>3, <2>1, Wider DEF TypedNext, Begin, TypeOK
<1>4. CASE EndCollect \/ EndMethods \/ EndResolve \/ EndBodies \/ InitOrder \/ UNCHANGED vars
  <2>1. /\ UNCHANGED <<scope, ObjMap, cmd, busy, funcs, lua, doubtful, blamed, checked>>
        /\ at' = at \/ at' = 1
        /\ phase' \in {"methods", "resolve", "bodies", "order", "run", phase}
    BY <1>4 DEF EndCollect, EndMethods, EndResolve, EndBodies, InitOrder, vars
  <2>2. at' \in 1 .. Len(cmd') + 1
    BY <2>1, Elements DEF TypeOK
  <2> QED
    BY <1>2, <2>1, <2>2, Wider DEF TypedNext, TypeOK
<1> QED
  BY <1>3, <1>4

LEMMA EndTypes ==
    ASSUME TypeOK, Phases, Error \/ InitOrderFails \/ EndRun
    PROVE  TypedNext
<1>1. objs' = objs
  BY DEF Error, InitOrderFails, EndRun
<1>2. Kept /\ Ids' = Ids
  BY <1>1, Unchanged
<1>3. /\ UNCHANGED <<scope, ObjMap, cmd, at, funcs, lua, checked>> /\ phase' = "ready"
  BY DEF Error, InitOrderFails, EndRun, Reject
<1>4. busy' \in Seq(ObjMap') /\ \A i, j \in 1 .. Len(busy') : busy'[i] = busy'[j] => i = j
  <2>1. busy' = <<>> \/ busy' = busy
    BY DEF Error, InitOrderFails, EndRun, Reject
  <2>2. CASE busy' = <<>>
    <3>1. Len(busy') = 0
      BY <2>2
    <3> QED
      BY <2>2, <3>1
  <2> QED
    BY <1>3, <2>1, <2>2 DEF TypeOK
<1>5. Names(1, Len(cmd)) \subseteq Symbol /\ Names(at, Len(cmd)) \subseteq Symbol
  <2>1. 1 \in 1 .. Len(cmd) + 1 /\ Len(cmd) \in 0 .. Len(cmd) /\ at \in 1 .. Len(cmd) + 1
    BY Elements DEF TypeOK
  <2> QED
    BY <2>1, NamesOf
<1>6. doubtful' \subseteq Symbol
  BY <1>5 DEF Error, InitOrderFails, EndRun, Reject, TypeOK
<1>7. blamed' \subseteq Ids'
  <2>1. CASE Error
    <3>1. Decl # NoObj => Decl \in Ids
      BY <2>1, Checks DEF Error
    <3>2. blamed' = blamed \cup (IF Decl = NoObj THEN {} ELSE {Decl})
      BY <2>1 DEF Error
    <3> QED
      BY <1>2, <3>1, <3>2 DEF TypeOK
  <2>2. CASE InitOrderFails
    <3>1. \A S \in InitCycles : S \subseteq Ids
      BY DEF InitCycles, TypeOK
    <3>2. blamed' = blamed \/ \E S \in InitCycles : blamed' = blamed \cup S
      BY <2>2 DEF InitOrderFails
    <3> QED
      BY <1>2, <3>1, <3>2 DEF TypeOK
  <2>3. CASE EndRun
    BY <1>2, <2>3 DEF EndRun, TypeOK
  <2> QED
    BY <2>1, <2>2, <2>3
<1> QED
  BY <1>2, <1>3, <1>4, <1>6, <1>7, Wider DEF TypedNext, TypeOK

LEMMA CollectTypes ==
    ASSUME TypeOK, Phases, NEW it \in Item, CollectDecl(it)
    PROVE  ObjsTyped' /\ Kept /\ TypedNext
<1> DEFINE o == Len(objs) + 1
           e == [item |-> it, obj |-> o]
<1>1. /\ ObjsTyped' /\ Kept /\ Ids' = Ids \cup {o}
  BY Added DEF CollectDecl
<1>2. /\ ObjMap' = ObjMap \cup {o} /\ cmd' = Append(cmd, e)
      /\ scope' = (IF it.kind = "method" THEN scope ELSE [scope EXCEPT ![it.name] = o])
      /\ UNCHANGED <<phase, at, busy, funcs, lua, doubtful, blamed, checked>>
  BY DEF CollectDecl, Replace
<1>3. e \in Entry'
  BY <1>1 DEF Entry
<1>4. cmd' \in Seq(Entry') /\ Len(cmd') = Len(cmd) + 1
  <2> HIDE DEF e
  <2> QED
    BY <1>1, <1>2, <1>3, Wider, AppendTo
<1>5. at' \in 1 .. Len(cmd') + 1
  BY <1>2, <1>4, Elements DEF TypeOK
<1>6. busy' \in Seq(ObjMap') /\ \A i, j \in 1 .. Len(busy') : busy'[i] = busy'[j] => i = j
  BY <1>2, WiderSeq DEF TypeOK
<1>7. scope' \in [Symbol -> Ids' \cup {NoObj}]
  <2> HIDE DEF o
  <2> QED
    BY <1>1, <1>2, Wider
<1> QED
  BY <1>1, <1>2, <1>4, <1>5, <1>6, <1>7, Wider DEF TypedNext, TypeOK

LEMMA CollectStmtTypes ==
    ASSUME TypeOK, Phases, NEW it \in Item, CollectStmt(it)
    PROVE  ObjsTyped' /\ Kept /\ TypedNext
<1> DEFINE e == [item |-> it, obj |-> NoObj]
<1>1. ObjsTyped' /\ Kept /\ Ids' = Ids
  BY Unchanged DEF CollectStmt
<1>2. /\ cmd' = Append(cmd, e) /\ phase' = "stmt"
      /\ UNCHANGED <<scope, ObjMap, at, busy, funcs, lua, doubtful, blamed, checked>>
  BY DEF CollectStmt
<1>3. e \in Entry'
  BY <1>1 DEF Entry
<1>4. cmd' \in Seq(Entry') /\ Len(cmd') = Len(cmd) + 1
  <2> HIDE DEF e
  <2> QED
    BY <1>1, <1>2, <1>3, Wider, AppendTo
<1>5. at' \in 1 .. Len(cmd') + 1
  BY <1>2, <1>4, Elements DEF TypeOK
<1> QED
  BY <1>1, <1>2, <1>4, <1>5, Wider DEF TypedNext, TypeOK

\* A statement is checked: its effect.
LEMMA StmtDone ==
    ASSUME TypeOK, Phases, StmtChecked
    PROVE  /\ ObjsTyped' /\ Kept /\ \A o \in Ids : objs'[o] = objs[o]
           /\ Len(cmd) \in 1 .. Len(cmd) /\ Top(cmd) = cmd[Len(cmd)]
           /\ Top(cmd).item \in Item /\ Top(cmd).item.kind \in {"short", "expr"}
           /\ Declares(Top(cmd).item) =>
                 /\ Top(cmd).item.name \in Name
                 /\ Len(objs) + 1 \in Ids' \ Ids
                 /\ objs'[Len(objs) + 1].item = Top(cmd).item
                 /\ objs'[Len(objs) + 1].typ # "nil"
                 /\ scope' = [scope EXCEPT ![Top(cmd).item.name] = Len(objs) + 1]
                 /\ cmd' = With(cmd, Len(cmd), [item |-> Top(cmd).item, obj |-> Len(objs) + 1])
                 /\ Ids' = Ids \cup {Len(objs) + 1}
           /\ ~Declares(Top(cmd).item) => UNCHANGED <<objs, scope, cmd>>
<1> DEFINE it == Top(cmd).item
<1>1. /\ Len(cmd) \in 1 .. Len(cmd) /\ Top(cmd) = cmd[Len(cmd)]
      /\ it \in Item /\ it.kind \in {"short", "expr"} /\ Top(cmd) \in Entry
  BY Checks, Elements DEF StmtChecked, Right, Phases
<1>2. Result \in {"ok", "invalid"}
  BY DEF Result
<1>3. CASE Declares(it)
  <2>1. it.name \in Name
    BY <1>1, <1>3, Items DEF Declares
  <2>2. /\ objs' = Append(objs, NewObj(it, Result))
        /\ scope' = [scope EXCEPT ![it.name] = Len(objs) + 1]
        /\ cmd' = [cmd EXCEPT ![Len(cmd)].obj = Len(objs) + 1]
    BY <1>3 DEF StmtChecked, Replace
  <2>3. NewObj(it, Result).item = it /\ NewObj(it, Result).typ = Result
    BY <1>1, <1>2, NewObjTyped
  <2>4. /\ ObjsTyped' /\ Kept /\ \A o \in Ids : objs'[o] = objs[o]
        /\ objs'[Len(objs) + 1] = NewObj(it, Result)
        /\ Ids' = Ids \cup {Len(objs) + 1} /\ Len(objs) + 1 \notin Ids
    BY <1>1, <1>2, <2>2, Added
  <2>5. cmd' = With(cmd, Len(cmd), [item |-> it, obj |-> Len(objs) + 1])
    <3>1. ASSUME NEW x \in Entry, NEW v
          PROVE  [x EXCEPT !.obj = v] = [item |-> x.item, obj |-> v]
      BY DEF Entry
    <3>2. cmd' = With(cmd, Len(cmd), [Top(cmd) EXCEPT !.obj = Len(objs) + 1])
      BY <1>1, <2>2 DEF With
    <3> QED
      BY <1>1, <3>1, <3>2
  <2> QED
    BY <1>1, <1>2, <1>3, <2>1, <2>2, <2>3, <2>4, <2>5
<1>4. CASE ~Declares(it)
  <2>1. UNCHANGED <<objs, scope, cmd>>
    BY <1>4 DEF StmtChecked
  <2> QED
    BY <1>1, <1>4, <2>1, Unchanged
<1> QED
  BY <1>3, <1>4

LEMMA StmtTypes ==
    ASSUME TypeOK, Phases, StmtChecked
    PROVE  TypedNext
<1>1. /\ UNCHANGED <<ObjMap, at, busy, funcs, lua, doubtful, blamed>> /\ phase' = "collect"
  BY DEF StmtChecked
<1>2. CASE Declares(Top(cmd).item)
  <2> DEFINE e == [item |-> Top(cmd).item, obj |-> Len(objs) + 1]
  <2>1. /\ Kept /\ Len(cmd) \in 1 .. Len(cmd) /\ e \in Entry' /\ cmd' = With(cmd, Len(cmd), e)
    BY <1>2, StmtDone DEF Entry
  <2>2. cmd' \in Seq(Entry') /\ Len(cmd') = Len(cmd)
    <3> HIDE DEF e
    <3>1. cmd \in Seq(Entry')
      BY <2>1, Wider
    <3>2. /\ cmd \in Seq(Entry') /\ Len(cmd) \in 1 .. Len(cmd) /\ e \in Entry'
      BY <2>1, <3>1
    <3>3. With(cmd, Len(cmd), e) \in Seq(Entry')
      BY ONLY <3>2, UpdateOf
    <3>4. Len(With(cmd, Len(cmd), e)) = Len(cmd)
      BY ONLY <3>2 DEF With
    <3> QED
      BY <2>1, <3>3, <3>4
  <2>3. scope' \in [Symbol -> Ids' \cup {NoObj}]
    BY <1>2, <2>1, StmtDone, Wider DEF Symbol
  <2>4. checked' \subseteq Ids'
    <3>1. checked' = checked \cup {Len(objs) + 1}
      BY <1>2 DEF StmtChecked
    <3> QED
      BY <1>2, <2>1, <3>1, StmtDone, Wider
  <2> QED
    BY <1>1, <2>1, <2>2, <2>3, <2>4, Wider DEF TypedNext, TypeOK
<1>3. CASE ~Declares(Top(cmd).item)
  <2>1. UNCHANGED <<objs, scope, cmd, checked>>
    BY <1>3 DEF StmtChecked
  <2> QED
    BY <1>1, <2>1, StmtDone, Wider DEF TypedNext, TypeOK
<1> QED
  BY <1>2, <1>3

LEMMA MethodTypes ==
    ASSUME TypeOK, Phases, Entries, AddMethodDecl
    PROVE  ObjsTyped' /\ Kept /\ TypedNext
<1>1. /\ UNCHANGED <<phase, cmd, busy, lua, doubtful, blamed, checked>> /\ busy = <<>>
      /\ at' = at + 1 /\ at \in 1 .. Len(cmd)
  BY Elements DEF AddMethodDecl, Phases, TypeOK
<1>2. at' \in 1 .. Len(cmd') + 1
  BY <1>1, Elements
<1>3. busy' \in Seq(ObjMap') /\ \A i, j \in 1 .. Len(busy') : busy'[i] = busy'[j] => i = j
  <2>1. Len(busy') = 0
    BY <1>1
  <2> QED
    BY <1>1, <2>1
<1>4. CASE cmd[at].item.kind = "method"
  <2>1. /\ ObjsTyped' /\ Kept /\ Ids' = Ids /\ cmd[at].obj \in Ids
        /\ cmd[at].item.name \in Symbol
    BY <1>4, MethodDone DEF Symbol
  <2>2. /\ ObjMap' = ObjMap \ {scope[cmd[at].item.name]}
        /\ scope' = [scope EXCEPT ![cmd[at].item.name] = cmd[at].obj]
        /\ funcs' = Append(funcs, cmd[at].obj)
    BY <1>4 DEF AddMethodDecl, Replace
  <2>3. funcs' \in Seq(Ids')
    BY <2>1, <2>2, Wider, AppendTo
  <2>4. scope' \in [Symbol -> Ids' \cup {NoObj}]
    BY <2>1, <2>2, Wider
  <2> QED
    BY <1>1, <1>2, <1>3, <2>1, <2>2, <2>3, <2>4, Wider DEF TypedNext, TypeOK
<1>5. CASE cmd[at].item.kind # "method"
  <2>1. UNCHANGED <<objs, scope, ObjMap, funcs>>
    BY <1>5 DEF AddMethodDecl
  <2>2. ObjsTyped' /\ Kept
    BY <2>1, Unchanged
  <2> QED
    BY <1>1, <1>2, <1>3, <2>1, <2>2, Wider DEF TypedNext, TypeOK
<1> QED
  BY <1>4, <1>5

LEMMA DeclTypes ==
    ASSUME TypeOK, WellFormed, NEW o \in Ids, objs[o].typ = "nil", ObjDecl(o)
    PROVE  TypedNext
<1>1. /\ UNCHANGED <<scope, ObjMap, phase, cmd, at, lua, doubtful, blamed, checked>>
      /\ Kept /\ Ids' = Ids /\ o \in ObjMap
  BY Declared DEF ObjDecl
<1>2. funcs' = funcs \/ funcs' = Append(funcs, o)
  BY Declared
<1>3. funcs' \in Seq(Ids')
  BY <1>1, <1>2, Wider, AppendTo
<1>4. busy' = busy \/ (busy' = Append(busy, o) /\ IsVar(o) /\ ~objs[o].visited)
  BY Declared
<1>5. busy' \in Seq(ObjMap') /\ \A i, j \in 1 .. Len(busy') : busy'[i] = busy'[j] => i = j
  <2>1. CASE busy' = busy
    BY <1>1, <2>1 DEF TypeOK
  <2>2. CASE busy' = Append(busy, o) /\ ~objs[o].visited
    <3>1. busy \in Seq(ObjMap) /\ Len(busy) \in Nat
      BY Elements DEF TypeOK
    <3>2. /\ busy' \in Seq(ObjMap) /\ Len(busy') = Len(busy) + 1
          /\ busy'[Len(busy) + 1] = o /\ \A i \in 1 .. Len(busy) : busy'[i] = busy[i]
      BY <1>1, <2>2, <3>1, AppendTo
    <3>3. \A i \in 1 .. Len(busy) : busy[i] # o
      BY <2>2 DEF WellFormed
    <3> QED
      BY <1>1, <3>1, <3>2, <3>3 DEF TypeOK
  <2> QED
    BY <1>4, <2>1, <2>2
<1> QED
  BY <1>1, <1>3, <1>5, Wider DEF TypedNext, TypeOK

LEMMA DoneTypes ==
    ASSUME TypeOK, WellFormed, Phases, VarChecked \/ BodyChecked
    PROVE  ObjsTyped' /\ Kept /\ TypedNext
<1>1. UNCHANGED <<scope, ObjMap, phase, cmd, at, lua, doubtful, blamed>>
  BY DEF VarChecked, BodyChecked
<1>2. CASE VarChecked
  <2>1. /\ ObjsTyped' /\ Kept /\ busy # <<>> /\ busy' = Pop(busy) /\ funcs' = funcs
        /\ checked' \subseteq Ids'
    BY <1>2, VarDone, Wider DEF VarChecked
  <2>2. busy \in Seq(ObjMap) /\ Len(busy) \in Nat
    BY Elements DEF TypeOK
  <2>3. /\ busy' \in Seq(ObjMap) /\ Len(busy') = Len(busy) - 1
        /\ \A i \in 1 .. Len(busy) - 1 : busy'[i] = busy[i]
    BY <2>1, <2>2, PopOf
  <2>4. \A i, j \in 1 .. Len(busy') : busy'[i] = busy'[j] => i = j
    <3>1. \A i, j \in 1 .. Len(busy) : busy[i] = busy[j] => i = j
      BY DEF TypeOK
    <3> QED
      BY <2>2, <2>3, <3>1
  <2> QED
    BY <1>1, <2>1, <2>3, <2>4, Wider DEF TypedNext, TypeOK
<1>3. CASE BodyChecked
  <2>1. /\ ObjsTyped' /\ Kept /\ busy' = busy /\ funcs # <<>> /\ funcs' = Tail(funcs)
        /\ checked' \subseteq Ids'
    <3>1. Decl \in Ids
      BY <1>3, BodyDone, TailOf DEF TypeOK
    <3> QED
      BY <1>3, <3>1, BodyDone, Wider DEF BodyChecked
  <2>2. funcs' \in Seq(Ids')
    BY <2>1, Wider, TailOf
  <2> QED
    BY <1>1, <2>1, <2>2, Wider DEF TypedNext, TypeOK
<1> QED
  BY <1>2, <1>3

LEMMA RunTypes ==
    ASSUME TypeOK, RunItem
    PROVE  ObjsTyped' /\ Kept /\ TypedNext
<1>1. UNCHANGED <<objs, scope, ObjMap, phase, cmd, busy, funcs, doubtful, blamed, checked>>
  BY DEF RunItem
<1>2. ObjsTyped' /\ Kept /\ Ids' = Ids
  BY <1>1, Unchanged
<1>3. at \in 1 .. Len(cmd) /\ at' = at + 1
  BY Elements DEF RunItem, TypeOK
<1>4. cmd[at].obj \in Ids \cup {NoObj} /\ cmd[at].item.name \in Symbol
  BY <1>3, Elements, Items
<1>5. lua' \in [Symbol -> Ids' \cup {NoObj}]
  BY <1>2, <1>4, Wider DEF RunItem
<1>6. at' \in 1 .. Len(cmd') + 1
  BY <1>1, <1>3, Elements
<1> QED
  BY <1>1, <1>2, <1>5, <1>6, Wider DEF TypedNext, TypeOK

\* The object that objDecl is called for has no type.
LEMMA DeclareOne ==
    ASSUME TypeOK, WellFormed, Phases, ResolveNext \/ DeclareUsed
    PROVE  /\ \E o \in Ids : objs[o].typ = "nil" /\ ObjDecl(o)
                              /\ (phase = "stmt" => o = Used)
           /\ phase \in {"stmt", "resolve"}
<1>1. CASE ResolveNext
  BY <1>1 DEF ResolveNext, Unresolved, TypeOK
<1>2. CASE DeclareUsed
  <2>1. Used \in Ids /\ objs[Used].typ = "nil" /\ ObjDecl(Used)
    BY <1>2, Checks DEF DeclareUsed
  <2>2. phase \notin {"bodies", "order", "run"}
    BY <2>1 DEF Phases
  <2>3. phase \in {"stmt", "resolve"}
    BY <1>2, <2>2 DEF DeclareUsed, Checking, Phases, TypeOK
  <2> QED
    BY <2>1, <2>3
<1> QED
  BY <1>1, <1>2

LEMMA TypeStep ==
    ASSUME IInv, [Next]_vars
    PROVE  TypeOK' /\ Kept
<1> USE DEF IInv
<1>1. CASE \/ Begin \/ EndCollect \/ EndMethods \/ EndResolve \/ EndBodies \/ InitOrder
           \/ UNCHANGED vars
  <2>1. objs' = objs
    BY <1>1 DEF Begin, EndCollect, EndMethods, EndResolve, EndBodies, InitOrder, vars
  <2> QED
    BY <1>1, <2>1, Unchanged, QuietTypes, TypedNextOK
<1>2. CASE Error \/ InitOrderFails \/ EndRun
  <2>1. objs' = objs
    BY <1>2 DEF Error, InitOrderFails, EndRun
  <2> QED
    BY <1>2, <2>1, Unchanged, EndTypes, TypedNextOK
<1>3. CASE \E it \in Item : CollectDecl(it) \/ CollectStmt(it)
  BY <1>3, CollectTypes, CollectStmtTypes, TypedNextOK
<1>4. CASE AddMethodDecl
  BY <1>4, MethodTypes, TypedNextOK
<1>5. CASE ResolveNext \/ DeclareUsed
  BY <1>5, DeclareOne, Declared, DeclTypes, TypedNextOK
<1>6. CASE VarChecked \/ BodyChecked
  BY <1>6, DoneTypes, TypedNextOK
<1>7. CASE StmtChecked
  BY <1>7, StmtTypes, StmtDone, TypedNextOK
<1>8. CASE RunItem
  BY <1>8, RunTypes, TypedNextOK
<1> QED
  BY <1>1, <1>2, <1>3, <1>4, <1>5, <1>6, <1>7, <1>8 DEF Next

-----------------------------------------------------------------------------
\* Which actions change what.
Collects == \E it \in Item : CollectDecl(it)

LEMMA Changes ==
    ASSUME [Next]_vars
    PROVE  /\ scope' = scope \/ Collects \/ StmtChecked \/ AddMethodDecl
           /\ ObjMap' = ObjMap \/ Collects \/ AddMethodDecl
           /\ \/ objs' = objs \/ Collects \/ StmtChecked \/ AddMethodDecl \/ ResolveNext
              \/ DeclareUsed \/ VarChecked \/ BodyChecked
           /\ busy' = busy \/ busy' = <<>> \/ ResolveNext \/ DeclareUsed \/ VarChecked
           /\ funcs' = funcs \/ Begin \/ AddMethodDecl \/ ResolveNext \/ DeclareUsed \/ BodyChecked
           /\ \/ cmd' = cmd \/ Begin \/ Collects \/ StmtChecked
              \/ \E it \in Item : CollectStmt(it)
           /\ lua' = lua \/ RunItem
           /\ doubtful' = doubtful \/ Error \/ InitOrderFails \/ EndRun
           /\ blamed' = blamed \/ Error \/ InitOrderFails
           /\ checked' = checked \/ VarChecked \/ BodyChecked \/ StmtChecked
           /\ \/ phase' = phase \/ Begin \/ EndCollect \/ EndMethods \/ EndResolve \/ EndBodies
              \/ InitOrder \/ Error \/ InitOrderFails \/ EndRun \/ StmtChecked
              \/ \E it \in Item : CollectStmt(it)
           /\ at' = at \/ Begin \/ EndMethods \/ AddMethodDecl \/ RunItem
<1>1. CASE Begin
  BY <1>1 DEF Begin
<1>2. CASE EndCollect
  BY <1>2 DEF EndCollect
<1>3. CASE EndMethods
  BY <1>3 DEF EndMethods
<1>4. CASE EndResolve
  BY <1>4 DEF EndResolve
<1>5. CASE EndBodies
  BY <1>5 DEF EndBodies
<1>6. CASE InitOrder
  BY <1>6 DEF InitOrder
<1>7. CASE UNCHANGED vars
  BY <1>7 DEF vars
<1>8. CASE Error
  BY <1>8 DEF Error, Reject
<1>9. CASE InitOrderFails
  BY <1>9 DEF InitOrderFails, Reject
<1>10. CASE EndRun
  BY <1>10 DEF EndRun
<1>11. CASE \E it \in Item : CollectDecl(it)
  BY <1>11 DEF CollectDecl, Collects
<1>12. CASE \E it \in Item : CollectStmt(it)
  BY <1>12 DEF CollectStmt
<1>13. CASE AddMethodDecl
  BY <1>13 DEF AddMethodDecl
<1>14. CASE ResolveNext
  BY <1>14 DEF ResolveNext, ObjDecl
<1>15. CASE DeclareUsed
  BY <1>15 DEF DeclareUsed, ObjDecl
<1>16. CASE VarChecked
  BY <1>16 DEF VarChecked
<1>17. CASE BodyChecked
  BY <1>17 DEF BodyChecked
<1>18. CASE StmtChecked
  BY <1>18 DEF StmtChecked
<1>19. CASE RunItem
  BY <1>19 DEF RunItem
<1> QED
  BY <1>1, <1>2, <1>3, <1>4, <1>5, <1>6, <1>7, <1>8, <1>9, <1>10, <1>11, <1>12, <1>13, <1>14, <1>15, <1>16, <1>17, <1>18, <1>19 DEF Next

\* The phases in which an action is taken, and the phase that it leads to.
LEMMA Steps ==
    ASSUME TypeOK, WellFormed, Phases
    PROVE  /\ Begin => phase = "ready" /\ phase' = "collect" /\ at' = 1
                       /\ cmd' = <<>> /\ funcs' = <<>> /\ busy' = busy
           /\ EndCollect => phase = "collect" /\ phase' = "methods"
           /\ EndMethods => phase = "methods" /\ phase' = "resolve" /\ at' = 1 /\ at > Len(cmd)
           /\ EndResolve => phase = "resolve" /\ phase' = "bodies" /\ busy = <<>> /\ Unresolved = {}
           /\ EndBodies => phase = "bodies" /\ phase' = "order" /\ funcs = <<>>
           /\ InitOrder => phase = "order" /\ phase' = "run"
           /\ Error => phase \in {"stmt", "resolve", "bodies"} /\ phase' = "ready"
                       /\ busy' = <<>> /\ funcs' = funcs /\ cmd' = cmd
           /\ InitOrderFails => phase = "order" /\ phase' = "ready" /\ busy' = <<>>
           /\ EndRun => phase = "run" /\ phase' = "ready"
           /\ Collects => phase = "collect" /\ phase' = "collect"
           /\ (\E it \in Item : CollectStmt(it)) => phase = "collect" /\ phase' = "stmt"
           /\ StmtChecked => phase = "stmt" /\ phase' = "collect" /\ busy = <<>>
           /\ AddMethodDecl => phase = "methods" /\ phase' = "methods"
           /\ (ResolveNext \/ DeclareUsed) => phase \in {"stmt", "resolve"} /\ phase' = phase
           /\ VarChecked => phase \in {"stmt", "resolve"} /\ phase' = phase
           /\ BodyChecked => phase = "bodies" /\ phase' = phase /\ busy = <<>>
           /\ RunItem => phase = "run" /\ phase' = phase
<1>1. (ResolveNext \/ DeclareUsed) => phase \in {"stmt", "resolve"} /\ phase' = phase
  BY DeclareOne DEF ResolveNext, DeclareUsed, ObjDecl
<1>2. /\ VarChecked => phase \in {"stmt", "resolve"} /\ phase' = phase
      /\ BodyChecked => phase = "bodies" /\ phase' = phase /\ busy = <<>>
  BY DEF VarChecked, BodyChecked, Phases
<1>3. Error => phase \in {"stmt", "resolve", "bodies"} /\ phase' = "ready"
               /\ busy' = <<>> /\ funcs' = funcs /\ cmd' = cmd
  BY DEF Error, Reject, Checking, Phases
<1>4. /\ Collects => phase = "collect" /\ phase' = "collect"
      /\ (\E it \in Item : CollectStmt(it)) => phase = "collect" /\ phase' = "stmt"
  BY DEF Collects, CollectDecl, CollectStmt
<1>5. /\ StmtChecked => phase = "stmt" /\ phase' = "collect" /\ busy = <<>>
      /\ AddMethodDecl => phase = "methods" /\ phase' = "methods"
      /\ RunItem => phase = "run" /\ phase' = phase
  BY DEF StmtChecked, AddMethodDecl, RunItem
<1>6. /\ InitOrderFails => phase = "order" /\ phase' = "ready" /\ busy' = <<>>
      /\ EndRun => phase = "run" /\ phase' = "ready"
      /\ InitOrder => phase = "order" /\ phase' = "run"
  BY DEF InitOrderFails, Reject, EndRun, InitOrder
<1>7. /\ Begin => phase = "ready" /\ phase' = "collect" /\ at' = 1
                  /\ cmd' = <<>> /\ funcs' = <<>> /\ busy' = busy
      /\ EndCollect => phase = "collect" /\ phase' = "methods"
      /\ EndMethods => phase = "methods" /\ phase' = "resolve" /\ at' = 1 /\ at > Len(cmd)
      /\ EndResolve => phase = "resolve" /\ phase' = "bodies" /\ busy = <<>> /\ Unresolved = {}
      /\ EndBodies => phase = "bodies" /\ phase' = "order" /\ funcs = <<>>
  BY DEF Begin, EndCollect, EndMethods, EndResolve, EndBodies
<1> QED
  BY <1>1, <1>2, <1>3, <1>4, <1>5, <1>6, <1>7

\* The objects that a step adds.
LEMMA Grows ==
    ASSUME IInv, [Next]_vars
    PROVE  /\ Ids' = Ids \/ Collects \/ StmtChecked
           /\ Collects => /\ Ids' = Ids \cup {Len(objs) + 1}
                          /\ Len(objs) + 1 \in ObjMap' /\ ObjMap \subseteq ObjMap'
           /\ StmtChecked => \A o \in Ids' \ Ids : objs'[o].typ # "nil"
<1> USE DEF IInv
<1>1. Ids' = Ids \/ Collects \/ StmtChecked
  <2>1. objs' = objs => Ids' = Ids
    BY Unchanged
  <2>2. AddMethodDecl => Ids' = Ids
    <3>1. CASE AddMethodDecl /\ cmd[at].item.kind = "method"
      BY <3>1, MethodDone
    <3>2. CASE AddMethodDecl /\ cmd[at].item.kind # "method"
      BY <2>1, <3>2 DEF AddMethodDecl
    <3> QED
      BY <3>1, <3>2
  <2>3. ResolveNext \/ DeclareUsed => Ids' = Ids
    BY DeclareOne, Declared
  <2>4. VarChecked \/ BodyChecked => Ids' = Ids
    BY VarDone, BodyDone
  <2> QED
    BY <2>1, <2>2, <2>3, <2>4, Changes
<1>2. Collects => /\ Ids' = Ids \cup {Len(objs) + 1}
                  /\ Len(objs) + 1 \in ObjMap' /\ ObjMap \subseteq ObjMap'
  <2>1. ASSUME NEW it \in Item, CollectDecl(it)
        PROVE  Ids' = Ids \cup {Len(objs) + 1}
    BY <2>1, Added DEF CollectDecl
  <2> QED
    BY <2>1 DEF Collects, CollectDecl
<1>3. StmtChecked => \A o \in Ids' \ Ids : objs'[o].typ # "nil"
  <2>1. CASE StmtChecked /\ Declares(Top(cmd).item)
    BY <2>1, StmtDone
  <2>2. CASE StmtChecked /\ ~Declares(Top(cmd).item)
    BY <2>2, StmtDone, Unchanged
  <2> QED
    BY <2>1, <2>2
<1> QED
  BY <1>1, <1>2, <1>3

-----------------------------------------------------------------------------
\* Phases is preserved.
LEMMA PhasesStep ==
    ASSUME IInv, [Next]_vars
    PROVE  Phases'
<1> USE DEF IInv
<1>1. ASSUME phase' = "stmt"
      PROVE  Len(cmd') > 0 /\ Top(cmd').item.kind \in {"short", "expr"}
  <2>1. CASE \E it \in Item : CollectStmt(it)
    <3>1. PICK it \in Item : CollectStmt(it)
      BY <2>1
    <3>2. cmd' = Append(cmd, [item |-> it, obj |-> NoObj]) /\ it.kind \in {"short", "expr"}
      BY <3>1 DEF CollectStmt
    <3>3. [item |-> it, obj |-> NoObj] \in Entry /\ cmd \in Seq(Entry) /\ Len(cmd) \in Nat
      BY Elements DEF Entry, TypeOK
    <3>4. Len(cmd') = Len(cmd) + 1 /\ cmd'[Len(cmd) + 1] = [item |-> it, obj |-> NoObj]
      BY <3>2, <3>3, AppendTo
    <3> QED
      BY <3>2, <3>3, <3>4 DEF Top
  <2>2. CASE ~\E it \in Item : CollectStmt(it)
    <3>1. phase = "stmt" /\ cmd' = cmd
      BY <1>1, <2>2, Changes, Steps
    <3> QED
      BY <3>1 DEF Phases, Top
  <2> QED
    BY <2>1, <2>2
<1>2. phase' \notin {"stmt", "resolve"} => busy' = <<>>
  BY Changes, Steps DEF Phases
<1>3. phase' \in {"bodies", "order", "run"} => \A o \in Ids' : objs'[o].typ # "nil"
  <2>1. phase' \in {"bodies", "order", "run"} =>
           (phase \in {"bodies", "order", "run"} \/ Unresolved = {}) /\ Ids' = Ids
    BY Changes, Steps, Grows
  <2>2. Unresolved = {} => \A o \in Ids : objs[o].typ # "nil"
    BY DEF Unresolved, WellFormed
  <2> QED
    BY <2>1, <2>2, TypeStep DEF Phases, Kept
<1>4. phase' \in {"order", "run"} => funcs' = <<>>
  BY Changes, Steps DEF Phases
<1>5. phase' \notin {"methods", "run", "ready"} => at' = 1
  BY Changes, Steps DEF Phases
<1> QED
  BY <1>1, <1>2, <1>3, <1>4, <1>5 DEF Phases

-----------------------------------------------------------------------------
\* WellFormed is preserved.
IsVarNext(o) == objs'[o].item.kind \in {"var", "short"}

LEMMA Vars ==
    ASSUME Kept, NEW o \in Ids
    PROVE  IsVarNext(o) <=> IsVar(o)
BY DEF Kept, IsVar, IsVarNext

\* What addMethodDecls removes from ObjMap has a type.
LEMMA UntypedStay ==
    ASSUME IInv, [Next]_vars
    PROVE  \A o \in Ids' : objs'[o].typ = "nil" => o \in ObjMap'
<1> USE DEF IInv
<1>1. \A o \in Ids : objs'[o].typ = "nil" => objs[o].typ = "nil" /\ o \in ObjMap
  BY TypeStep DEF Kept, WellFormed
<1>2. CASE AddMethodDecl
  <2>1. CASE cmd[at].item.kind = "method"
    <3>1. /\ cmd[at].item.name \in Method /\ Ids' = Ids
          /\ ObjMap' = ObjMap \ {scope[cmd[at].item.name]}
      BY <1>2, <2>1, MethodDone DEF AddMethodDecl
    <3>2. \A o \in Ids : objs[o].typ = "nil" => o # scope[cmd[at].item.name]
      <4>1. NoObj \notin Ids
        BY Elements DEF Ids, NoObj
      <4>2. scope[cmd[at].item.name] # NoObj => objs[scope[cmd[at].item.name]].typ # "nil"
        BY <3>1 DEF WellFormed
      <4> QED
        BY <4>1, <4>2
    <3> QED
      BY <1>1, <3>1, <3>2
  <2>2. CASE cmd[at].item.kind # "method"
    <3>1. UNCHANGED <<objs, ObjMap>>
      BY <1>2, <2>2 DEF AddMethodDecl
    <3> QED
      BY <1>1, <3>1 DEF Ids
  <2> QED
    BY <2>1, <2>2
<1>3. CASE ~AddMethodDecl
  <2>1. ObjMap' = ObjMap \/ Collects
    BY <1>3, Changes
  <2>2. CASE Collects
    BY <1>1, <2>2, Grows
  <2>3. CASE ~Collects
    BY <1>1, <2>1, <2>3, Grows
  <2> QED
    BY <2>2, <2>3
<1> QED
  BY <1>2, <1>3

\* What a name or method stands for.
LEMMA ScopeStep ==
    ASSUME IInv, [Next]_vars
    PROVE  /\ \A n \in Symbol : scope'[n] # NoObj => objs'[scope'[n]].item.name = n
           /\ \A n \in Method : scope'[n] # NoObj => objs'[scope'[n]].typ # "nil"
<1> USE DEF IInv
<1>1. /\ \A n \in Symbol : scope[n] # NoObj => objs'[scope[n]].item.name = n
      /\ \A n \in Method : scope[n] # NoObj => objs'[scope[n]].typ # "nil"
  <2>1. \A n \in Symbol : scope[n] # NoObj => scope[n] \in Ids
    BY Elements
  <2> QED
    BY <2>1, TypeStep DEF Kept, WellFormed, Symbol
<1>2. ASSUME NEW n \in Symbol, NEW o \in Ids', scope' = [scope EXCEPT ![n] = o],
             objs'[o].item.name = n, n \in Method => objs'[o].typ # "nil"
      PROVE  /\ \A k \in Symbol : scope'[k] # NoObj => objs'[scope'[k]].item.name = k
             /\ \A k \in Method : scope'[k] # NoObj => objs'[scope'[k]].typ # "nil"
  BY <1>1, <1>2 DEF TypeOK, Symbol
<1>3. CASE Collects
  <2>1. PICK it \in Item : CollectDecl(it)
    BY <1>3 DEF Collects
  <2>2. CASE it.kind = "method"
    BY <1>1, <2>1, <2>2 DEF CollectDecl
  <2>3. CASE it.kind # "method"
    <3>1. /\ scope' = [scope EXCEPT ![it.name] = Len(objs) + 1] /\ it.kind \in {"var", "func"}
          /\ objs' = Append(objs, NewObj(it, "nil"))
      BY <2>1, <2>3 DEF CollectDecl, Replace
    <3>2. it.name \in Symbol /\ it.name \notin Method
      BY <3>1, Items, NameAssumption
    <3>3. Len(objs) + 1 \in Ids' /\ objs'[Len(objs) + 1].item = it
      BY <3>1, Added, NewObjTyped
    <3> QED
      BY <1>2, <3>1, <3>2, <3>3
  <2> QED
    BY <2>2, <2>3
<1>4. CASE StmtChecked
  <2>1. CASE Declares(Top(cmd).item)
    <3>1. /\ Top(cmd).item.name \in Name /\ Len(objs) + 1 \in Ids'
          /\ objs'[Len(objs) + 1].item = Top(cmd).item
          /\ scope' = [scope EXCEPT ![Top(cmd).item.name] = Len(objs) + 1]
      BY <1>4, <2>1, StmtDone
    <3> QED
      BY <1>2, <3>1, NameAssumption DEF Symbol
  <2>2. CASE ~Declares(Top(cmd).item)
    <3>1. scope' = scope
      BY <1>4, <2>2, StmtDone
    <3> QED
      BY <1>1, <3>1
  <2> QED
    BY <2>1, <2>2
<1>5. CASE AddMethodDecl
  <2>1. CASE cmd[at].item.kind = "method"
    <3>1. /\ cmd[at].item.name \in Symbol /\ cmd[at].obj \in Ids'
          /\ objs'[cmd[at].obj].item.name = cmd[at].item.name
          /\ objs'[cmd[at].obj].typ # "nil"
      BY <1>5, <2>1, MethodDone DEF Kept, Symbol
    <3>2. scope' = [scope EXCEPT ![cmd[at].item.name] = cmd[at].obj]
      BY <1>5, <2>1 DEF AddMethodDecl, Replace
    <3> QED
      BY <1>2, <3>1, <3>2
  <2>2. CASE cmd[at].item.kind # "method"
    <3>1. scope' = scope
      BY <1>5, <2>2 DEF AddMethodDecl
    <3> QED
      BY <1>1, <3>1
  <2> QED
    BY <2>1, <2>2
<1>6. CASE scope' = scope
  BY <1>1, <1>6
<1> QED
  BY <1>3, <1>4, <1>5, <1>6, Changes

LEMMA BusyStep ==
    ASSUME IInv, [Next]_vars
    PROVE  \A i \in 1 .. Len(busy') : IsVarNext(busy'[i]) /\ objs'[busy'[i]].visited
<1> USE DEF IInv
<1>1. \A i \in 1 .. Len(busy) : IsVarNext(busy[i]) /\ objs'[busy[i]].visited
  BY Vars, TypeStep, Elements DEF Kept, WellFormed
<1>2. CASE busy' = busy
  BY <1>1, <1>2
<1>3. CASE busy' = <<>>
  <2>1. Len(busy') = 0
    BY <1>3
  <2> QED
    BY <2>1
<1>4. CASE ResolveNext \/ DeclareUsed
  <2>1. PICK o \in Ids : objs[o].typ = "nil" /\ ObjDecl(o)
    BY <1>4, DeclareOne
  <2>2. busy' = busy \/ (busy' = Append(busy, o) /\ IsVar(o) /\ objs'[o].visited)
    BY <2>1, Declared
  <2>3. CASE busy' = Append(busy, o) /\ IsVar(o) /\ objs'[o].visited
    <3>1. busy \in Seq(ObjMap) /\ Len(busy) \in Nat /\ o \in ObjMap
      BY <2>1, Elements DEF TypeOK, WellFormed
    <3>2. /\ Len(busy') = Len(busy) + 1 /\ busy'[Len(busy) + 1] = o
          /\ \A i \in 1 .. Len(busy) : busy'[i] = busy[i]
      BY <2>3, <3>1, AppendTo
    <3>3. IsVarNext(o)
      BY <2>3, Vars, TypeStep
    <3> QED
      BY <1>1, <2>3, <3>1, <3>2, <3>3
  <2> QED
    BY <1>2, <2>2, <2>3
<1>5. CASE VarChecked
  <2>1. busy \in Seq(ObjMap) /\ Len(busy) \in Nat /\ busy # <<>> /\ busy' = Pop(busy)
    BY <1>5, Elements, VarDone DEF TypeOK
  <2>2. /\ Len(busy') = Len(busy) - 1
        /\ \A i \in 1 .. Len(busy) - 1 : busy'[i] = busy[i]
    BY <2>1, PopOf
  <2> QED
    BY <1>1, <2>1, <2>2
<1> QED
  BY <1>2, <1>3, <1>4, <1>5, Changes

\* What functionBodies checks next: nothing else than functions and methods.
LEMMA FuncsStep ==
    ASSUME IInv, [Next]_vars
    PROVE  \A i \in 1 .. Len(funcs') : ~IsVarNext(funcs'[i])
<1> USE DEF IInv
<1>1. \A i \in 1 .. Len(funcs) : ~IsVarNext(funcs[i])
  BY Vars, TypeStep, Elements DEF WellFormed
<1>2. ASSUME NEW o \in Ids, ~IsVar(o), funcs' = Append(funcs, o)
      PROVE  \A i \in 1 .. Len(funcs') : ~IsVarNext(funcs'[i])
  <2>1. funcs \in Seq(Ids) /\ Len(funcs) \in Nat
    BY Elements DEF TypeOK
  <2>2. /\ Len(funcs') = Len(funcs) + 1 /\ funcs'[Len(funcs) + 1] = o
        /\ \A i \in 1 .. Len(funcs) : funcs'[i] = funcs[i]
    BY <1>2, <2>1, AppendTo
  <2>3. ~IsVarNext(o)
    BY <1>2, Vars, TypeStep
  <2> QED
    BY <1>1, <2>1, <2>2, <2>3
<1>3. CASE funcs' = funcs
  BY <1>1, <1>3
<1>4. CASE Begin
  <2>1. Len(funcs') = 0
    BY <1>4, Steps
  <2> QED
    BY <2>1
<1>5. CASE AddMethodDecl
  <2>1. CASE cmd[at].item.kind = "method"
    <3>1. /\ cmd[at].obj \in Ids /\ objs[cmd[at].obj].item.kind = "method"
          /\ funcs' = Append(funcs, cmd[at].obj)
      BY <1>5, <2>1, MethodDone DEF AddMethodDecl
    <3> QED
      BY <1>2, <3>1 DEF IsVar
  <2>2. CASE cmd[at].item.kind # "method"
    <3>1. funcs' = funcs
      BY <1>5, <2>2 DEF AddMethodDecl
    <3> QED
      BY <1>3, <3>1
  <2> QED
    BY <2>1, <2>2
<1>6. CASE ResolveNext \/ DeclareUsed
  <2>1. PICK o \in Ids : objs[o].typ = "nil" /\ ObjDecl(o)
    BY <1>6, DeclareOne
  <2> QED
    BY <1>2, <1>3, <2>1, Declared
<1>7. CASE BodyChecked
  <2>1. funcs \in Seq(Ids) /\ Len(funcs) \in Nat /\ funcs # <<>> /\ funcs' = Tail(funcs)
    BY <1>7, Elements, BodyDone DEF TypeOK
  <2>2. /\ Len(funcs') = Len(funcs) - 1
        /\ \A i \in 1 .. Len(funcs) - 1 : funcs'[i] = funcs[i + 1]
    BY <2>1, TailOf
  <2> QED
    BY <1>1, <2>1, <2>2
<1> QED
  BY <1>3, <1>4, <1>5, <1>6, <1>7, Changes

LEMMA FormStep ==
    ASSUME IInv, [Next]_vars
    PROVE  WellFormed'
BY UntypedStay, ScopeStep, BusyStep, FuncsStep DEF WellFormed, IsVar, IsVarNext

-----------------------------------------------------------------------------
\* Entries, Pending and Blames are preserved.
LEMMA EntriesStep ==
    ASSUME IInv, [Next]_vars
    PROVE  Entries'
<1> USE DEF IInv
<1> DEFINE Ok(e) == /\ e.obj # NoObj => e.obj \in Ids' /\ objs'[e.obj].item = e.item
                    /\ e.item.kind = "method" => e.obj # NoObj
<1>1. \A i \in 1 .. Len(cmd) : Ok(cmd[i])
  <2>1. \A i \in 1 .. Len(cmd) : cmd[i].obj # NoObj => cmd[i].obj \in Ids /\ cmd[i].obj \in Ids'
    BY Elements, Wider, TypeStep
  <2> QED
    BY <2>1, TypeStep DEF Entries, Kept
<1>2. \A i \in 1 .. Len(cmd) : cmd[i].obj \in Ids \cup {NoObj}
  BY Elements
<1>3. cmd \in Seq(Entry) /\ Len(cmd) \in Nat
  BY Elements DEF TypeOK, Entry
<1>4. CASE cmd' = cmd
  BY <1>1, <1>4 DEF Entries
<1>5. CASE Begin
  <2>1. Len(cmd') = 0
    BY <1>5, Steps
  <2> QED
    BY <2>1 DEF Entries
<1>6. CASE Collects
  <2>1. PICK it \in Item : CollectDecl(it)
    BY <1>6 DEF Collects
  <2> DEFINE o == Len(objs) + 1
             e == [item |-> it, obj |-> o]
  <2>2. cmd' = Append(cmd, e) /\ objs' = Append(objs, NewObj(it, "nil"))
    BY <2>1 DEF CollectDecl
  <2>3. o \in Ids' /\ o \notin Ids /\ objs'[o].item = it /\ o # NoObj
    <3>1. o # NoObj
      BY Elements DEF NoObj
    <3>2. o \in Ids' /\ o \notin Ids /\ objs'[o] = NewObj(it, "nil")
      BY <2>2, Added
    <3>3. NewObj(it, "nil").item = it
      BY NewObjTyped
    <3> QED
      BY <3>1, <3>2, <3>3
  <2>4. cmd \in Seq(Entry') /\ e \in Entry' /\ e.obj = o /\ e.item = it
    BY <2>3, TypeStep, Wider DEF Entry
  <2>5. /\ Len(cmd') = Len(cmd) + 1 /\ cmd'[Len(cmd) + 1] = e
        /\ \A i \in 1 .. Len(cmd) : cmd'[i] = cmd[i]
    <3> HIDE DEF e
    <3> QED
      BY <2>2, <2>4, AppendTo
  <2>6. Ok(e)
    BY <2>3, <2>4
  <2>7. \A i \in 1 .. Len(cmd) : cmd[i].obj # e.obj
    BY <1>2, <2>3, <2>4
  <2> HIDE DEF e, o
  <2> QED
    BY <1>1, <1>3, <2>5, <2>6, <2>7 DEF Entries
<1>7. CASE \E it \in Item : CollectStmt(it)
  <2>1. PICK it \in Item : CollectStmt(it)
    BY <1>7
  <2> DEFINE e == [item |-> it, obj |-> NoObj]
  <2>2. cmd' = Append(cmd, e) /\ it.kind # "method"
    BY <2>1 DEF CollectStmt
  <2>3. e \in Entry /\ e.obj = NoObj /\ e.item = it
    BY DEF Entry
  <2> HIDE DEF e
  <2>4. /\ Len(cmd') = Len(cmd) + 1 /\ cmd'[Len(cmd) + 1] = e
        /\ \A i \in 1 .. Len(cmd) : cmd'[i] = cmd[i]
    BY <1>3, <2>2, <2>3, AppendTo
  <2> QED
    BY <1>1, <1>3, <2>2, <2>3, <2>4 DEF Entries
<1>8. CASE StmtChecked
  <2>1. CASE ~Declares(Top(cmd).item)
    <3>1. cmd' = cmd
      BY <1>8, <2>1, StmtDone
    <3> QED
      BY <1>4, <3>1
  <2>2. CASE Declares(Top(cmd).item)
    <3> DEFINE o == Len(objs) + 1
               e == [item |-> Top(cmd).item, obj |-> o]
               k == Len(cmd)
    <3>1. /\ o \in Ids' \ Ids /\ objs'[o].item = Top(cmd).item /\ cmd' = With(cmd, k, e)
          /\ k \in 1 .. Len(cmd) /\ Top(cmd).item \in Item
      BY <1>8, <2>2, StmtDone
    <3>2. e \in Entry' /\ cmd \in Seq(Entry') /\ e.obj = o /\ e.item = Top(cmd).item /\ o # NoObj
      <4>1. o # NoObj
        BY Elements DEF NoObj
      <4>2. e \in Entry' /\ e.obj = o /\ e.item = Top(cmd).item
        BY <3>1 DEF Entry
      <4> QED
        BY <4>1, <4>2, TypeStep, Wider
    <3> HIDE DEF e, k, o
    <3>3. /\ Len(With(cmd, k, e)) = Len(cmd) /\ With(cmd, k, e)[k] = e
          /\ \A j \in 1 .. Len(cmd) : j # k => With(cmd, k, e)[j] = cmd[j]
      BY ONLY <3>1, <3>2 DEF With
    <3>4. Ok(e)
      BY <3>1, <3>2
    <3>5. \A i \in 1 .. Len(cmd) : cmd[i].obj # e.obj
      BY <1>2, <3>1, <3>2
    <3> QED
      BY <1>1, <1>3, <3>1, <3>3, <3>4, <3>5 DEF Entries
  <2> QED
    BY <2>1, <2>2
<1> QED
  BY <1>4, <1>5, <1>6, <1>7, <1>8, Changes

\* A method that waits for addMethodDecls gets no type in another way: nothing
\* refers to it.
LEMMA Untouched ==
    ASSUME IInv, [Next]_vars, NEW o \in Ids, objs[o].item.kind = "method", objs[o].typ = "nil",
           phase \in {"collect", "stmt", "methods"}, AddMethodDecl => o # cmd[at].obj
    PROVE  objs'[o].typ = "nil"
<1> USE DEF IInv
<1>1. CASE Collects \/ StmtChecked
  <2>1. \A p \in Ids : objs'[p] = objs[p]
    <3>1. ASSUME NEW it \in Item, CollectDecl(it)
          PROVE  \A p \in Ids : objs'[p] = objs[p]
      BY <3>1, Added DEF CollectDecl
    <3> QED
      BY <1>1, <3>1, StmtDone DEF Collects
  <2> QED
    BY <2>1
<1>2. CASE AddMethodDecl
  <2>1. CASE cmd[at].item.kind = "method"
    BY <1>2, <2>1, MethodDone
  <2>2. CASE cmd[at].item.kind # "method"
    BY <1>2, <2>2 DEF AddMethodDecl
  <2> QED
    BY <2>1, <2>2
<1>3. CASE ResolveNext \/ DeclareUsed
  <2>1. PICK p \in Ids : objs[p].typ = "nil" /\ ObjDecl(p) /\ (phase = "stmt" => p = Used)
    BY <1>3, DeclareOne
  <2>2. p = Used
    BY <1>3, <2>1, Steps
  <2>3. Used # NoObj
    BY <2>2, Elements DEF Ids, NoObj
  <2>4. Ref \in Symbol /\ Used = scope[Ref]
    BY <2>3 DEF Used
  <2>5. Ref \notin Method /\ objs[p].item.name = Ref
    BY <2>1, <2>2, <2>3, <2>4 DEF WellFormed
  <2>6. objs[o].item.name \in Method
    BY Elements, Objects, Items
  <2> QED
    BY <2>1, <2>5, <2>6, Declared
<1>4. CASE VarChecked
  <2>1. Decl = Top(busy) /\ busy # <<>> /\ \A p \in Ids \ {Decl} : objs'[p] = objs[p]
    BY <1>4, VarDone
  <2>2. Len(busy) \in 1 .. Len(busy) /\ Decl = busy[Len(busy)]
    BY <2>1, PopOf DEF TypeOK
  <2>3. IsVar(Decl)
    BY <2>2 DEF WellFormed
  <2> QED
    BY <2>1, <2>3 DEF IsVar
<1>5. CASE objs' = objs
  BY <1>5
<1>6. ~BodyChecked
  BY Steps
<1> QED
  BY <1>1, <1>2, <1>3, <1>4, <1>5, <1>6, Changes

LEMMA PendingStep ==
    ASSUME IInv, [Next]_vars
    PROVE  Pending'
<1> USE DEF IInv
<1> DEFINE Waits(i) == phase \in {"collect", "stmt"} \/ (phase = "methods" /\ i >= at)
           WaitsNext(i) == phase' \in {"collect", "stmt"} \/ (phase' = "methods" /\ i >= at')
<1>1. CASE cmd' = cmd
  <2>1. SUFFICES ASSUME NEW i \in 1 .. Len(cmd), cmd[i].item.kind = "method", WaitsNext(i)
                 PROVE  objs'[cmd[i].obj].typ = "nil"
    BY <1>1 DEF Pending
  <2>2. /\ phase \in {"collect", "stmt", "methods"} /\ Waits(i)
        /\ AddMethodDecl => phase = "methods" /\ i # at
    <3>1. AddMethodDecl => phase = "methods" /\ at' = at + 1
      BY Steps DEF AddMethodDecl
    <3>2. Begin => cmd = <<>>
      BY <1>1, Steps
    <3>3. ~Begin
      BY <2>1, <3>2
    <3>4. phase' = "methods" => phase = "methods" \/ EndCollect
      BY <3>3, Changes, Steps
    <3>5. phase' \in {"collect", "stmt"} => phase \in {"collect", "stmt"}
      BY <3>3, Changes, Steps
    <3>6. phase' = "methods" /\ phase = "methods" => at' = at \/ AddMethodDecl
      BY <3>3, Changes, Steps
    <3>7. at \in Nat /\ i \in Nat
      BY Elements DEF TypeOK
    <3>8. EndCollect => phase = "collect"
      BY Steps
    <3> QED
      BY <2>1, <3>1, <3>4, <3>5, <3>6, <3>7, <3>8
  <2>3. objs[cmd[i].obj].typ = "nil"
    BY <2>1, <2>2 DEF Pending
  <2>4. cmd[i].obj \in Ids /\ objs[cmd[i].obj].item.kind = "method"
    BY <2>1, Elements DEF Entries
  <2>5. AddMethodDecl => cmd[i].obj # cmd[at].obj
    <3>1. AddMethodDecl => at \in 1 .. Len(cmd)
      BY Elements DEF AddMethodDecl, TypeOK
    <3> QED
      BY <2>1, <2>2, <3>1 DEF Entries
  <2> QED
    BY <2>2, <2>3, <2>4, <2>5, Untouched
<1>2. CASE Begin
  <2>1. Len(cmd') = 0
    BY <1>2, Steps
  <2> QED
    BY <2>1 DEF Pending
<1>3. CASE Collects \/ StmtChecked \/ \E it \in Item : CollectStmt(it)
  <2>1. phase \in {"collect", "stmt"} /\ ~AddMethodDecl
    BY <1>3, Steps
  <2>2. ASSUME NEW i \in 1 .. Len(cmd), cmd[i].item.kind = "method"
        PROVE  objs'[cmd[i].obj].typ = "nil"
    <3>1. cmd[i].obj \in Ids /\ objs[cmd[i].obj].item.kind = "method"
      BY <2>2, Elements DEF Entries
    <3>2. objs[cmd[i].obj].typ = "nil"
      BY <2>1, <2>2 DEF Pending
    <3> QED
      BY <2>1, <3>1, <3>2, Untouched
  <2>3. ASSUME NEW i \in 1 .. Len(cmd'), cmd'[i].item.kind = "method"
        PROVE  \/ i \in 1 .. Len(cmd) /\ cmd'[i] = cmd[i]
               \/ objs'[cmd'[i].obj].typ = "nil"
    <3>0. cmd \in Seq(Entry) /\ Len(cmd) \in Nat
      BY Elements DEF TypeOK, Entry
    <3>1. ASSUME NEW it \in Item, CollectDecl(it)
          PROVE  \/ i \in 1 .. Len(cmd) /\ cmd'[i] = cmd[i]
                 \/ objs'[cmd'[i].obj].typ = "nil"
      <4> DEFINE e == [item |-> it, obj |-> Len(objs) + 1]
      <4>1. cmd' = Append(cmd, e) /\ objs' = Append(objs, NewObj(it, "nil"))
        BY <3>1 DEF CollectDecl
      <4>2. objs'[e.obj].typ = "nil" /\ e.obj \in Ids'
        BY <4>1, Added, NewObjTyped
      <4>3. cmd \in Seq(Entry') /\ e \in Entry'
        BY <4>2, TypeStep, Wider DEF Entry
      <4> HIDE DEF e
      <4>4. /\ Len(cmd') = Len(cmd) + 1 /\ cmd'[Len(cmd) + 1] = e
            /\ \A k \in 1 .. Len(cmd) : cmd'[k] = cmd[k]
        BY <4>1, <4>3, AppendTo
      <4> QED
        BY <3>0, <4>2, <4>4
    <3>2. ASSUME NEW it \in Item, CollectStmt(it)
          PROVE  i \in 1 .. Len(cmd) /\ cmd'[i] = cmd[i]
      <4> DEFINE e == [item |-> it, obj |-> NoObj]
      <4>1. cmd' = Append(cmd, e) /\ e.item.kind # "method" /\ e \in Entry
        BY <3>2 DEF CollectStmt, Entry
      <4> HIDE DEF e
      <4>2. /\ Len(cmd') = Len(cmd) + 1 /\ cmd'[Len(cmd) + 1] = e
            /\ \A k \in 1 .. Len(cmd) : cmd'[k] = cmd[k]
        BY <3>0, <4>1, AppendTo
      <4> QED
        BY <2>3, <3>0, <4>1, <4>2
    <3>3. ASSUME StmtChecked
          PROVE  i \in 1 .. Len(cmd) /\ cmd'[i] = cmd[i]
      <4> DEFINE e == [item |-> Top(cmd).item, obj |-> Len(objs) + 1]
                 k == Len(cmd)
      <4>1. /\ Top(cmd).item.kind # "method" /\ e.item = Top(cmd).item
            /\ cmd' = cmd \/ cmd' = With(cmd, k, e)
        BY <3>3, StmtDone
      <4> HIDE DEF e, k
      <4>2. /\ Len(With(cmd, k, e)) = Len(cmd)
            /\ k \in 1 .. Len(cmd) => With(cmd, k, e)[k] = e
            /\ \A j \in 1 .. Len(cmd) : j # k => With(cmd, k, e)[j] = cmd[j]
        BY ONLY <3>0 DEF With
      <4> QED
        BY <2>3, <4>1, <4>2
    <3> QED
      BY <1>3, <3>1, <3>2, <3>3 DEF Collects
  <2> QED
    BY <2>2, <2>3 DEF Pending
<1> QED
  BY <1>1, <1>2, <1>3, Changes

LEMMA BlamesStep ==
    ASSUME IInv, [Next]_vars
    PROVE  Blames'
<1> USE DEF IInv
<1> DEFINE Var(o) == /\ IsVar(o) /\ (objs[o].visited \/ objs[o].typ # "nil")
                     /\ \A i \in 1 .. Len(busy) : busy[i] # o
           Func(o) == /\ ~IsVar(o) /\ objs[o].typ # "nil"
                      /\ phase # "ready" => \A i \in 1 .. Len(funcs) : funcs[i] # o
           NoBusy(o) == \A i \in 1 .. Len(busy') : busy'[i] # o
           NoFunc(o) == phase' # "ready" => \A i \in 1 .. Len(funcs') : funcs'[i] # o
<1>1. \A o \in blamed : o \in Ids /\ (Var(o) \/ Func(o))
  BY DEF Blames, TypeOK
<1>2. ASSUME NEW o \in Ids, Var(o)
      PROVE  NoBusy(o)
  <2>0. busy \in Seq(ObjMap) /\ Len(busy) \in Nat
    BY Elements DEF TypeOK
  <2>1. CASE busy' = busy
    BY <1>2, <2>1
  <2>2. CASE busy' = <<>>
    <3>1. Len(busy') = 0
      BY <2>2
    <3> QED
      BY <3>1
  <2>3. CASE ResolveNext \/ DeclareUsed
    <3>1. PICK p \in Ids : objs[p].typ = "nil" /\ ObjDecl(p)
      BY <2>3, DeclareOne
    <3>2. p \in ObjMap /\ (busy' = busy \/ (busy' = Append(busy, p) /\ p # o))
      BY <1>2, <3>1, Declared
    <3>3. busy' = Append(busy, p) => /\ Len(busy') = Len(busy) + 1 /\ busy'[Len(busy) + 1] = p
                                     /\ \A i \in 1 .. Len(busy) : busy'[i] = busy[i]
      BY <2>0, <3>2, AppendTo
    <3> QED
      BY <1>2, <2>0, <3>2, <3>3
  <2>4. CASE VarChecked
    <3>1. busy # <<>> /\ busy' = Pop(busy)
      BY <2>4, VarDone
    <3>2. /\ Len(busy') = Len(busy) - 1
          /\ \A i \in 1 .. Len(busy) - 1 : busy'[i] = busy[i]
      BY <2>0, <3>1, PopOf
    <3> QED
      BY <1>2, <2>0, <3>2
  <2> QED
    BY <2>1, <2>2, <2>3, <2>4, Changes
<1>3. ASSUME NEW o \in Ids, Func(o)
      PROVE  NoFunc(o)
  <2>0. funcs \in Seq(Ids) /\ Len(funcs) \in Nat
    BY Elements DEF TypeOK
  <2>1. phase' # "ready" => phase # "ready" \/ Begin
    BY Changes, Steps
  <2>2. CASE Begin
    <3>1. Len(funcs') = 0
      BY <2>2, Steps
    <3> QED
      BY <3>1
  <2>3. CASE funcs' = funcs
    BY <1>3, <2>1, <2>2, <2>3
  <2>4. ASSUME NEW p \in Ids, objs[p].typ = "nil", funcs' = Append(funcs, p)
        PROVE  NoFunc(o)
    <3>1. /\ Len(funcs') = Len(funcs) + 1 /\ funcs'[Len(funcs) + 1] = p
          /\ \A i \in 1 .. Len(funcs) : funcs'[i] = funcs[i]
      BY <2>0, <2>4, AppendTo
    <3>2. p # o
      BY <1>3, <2>4
    <3> QED
      BY <1>3, <2>0, <2>1, <2>2, <3>1, <3>2
  <2>5. CASE AddMethodDecl
    <3>1. CASE cmd[at].item.kind = "method"
      <4>1. /\ cmd[at].obj \in Ids /\ at \in 1 .. Len(cmd) /\ at >= at /\ phase = "methods"
            /\ funcs' = Append(funcs, cmd[at].obj)
        BY <2>5, <3>1, MethodDone DEF AddMethodDecl
      <4>2. objs[cmd[at].obj].typ = "nil"
        BY <3>1, <4>1 DEF Pending
      <4> QED
        BY <2>4, <4>1, <4>2
    <3>2. CASE cmd[at].item.kind # "method"
      BY <2>3, <2>5, <3>2 DEF AddMethodDecl
    <3> QED
      BY <3>1, <3>2
  <2>6. CASE ResolveNext \/ DeclareUsed
    <3>1. PICK p \in Ids : objs[p].typ = "nil" /\ ObjDecl(p)
      BY <2>6, DeclareOne
    <3> QED
      BY <2>3, <2>4, <3>1, Declared
  <2>7. CASE BodyChecked
    <3>1. funcs # <<>> /\ funcs' = Tail(funcs) /\ phase # "ready"
      BY <2>7, BodyDone, Steps
    <3>2. /\ Len(funcs') = Len(funcs) - 1
          /\ \A i \in 1 .. Len(funcs) - 1 : funcs'[i] = funcs[i + 1]
      BY <2>0, <3>1, TailOf
    <3> QED
      BY <1>3, <2>0, <3>1, <3>2
  <2> QED
    BY <2>2, <2>3, <2>5, <2>6, <2>7, Changes
<1>4. ASSUME NEW o \in Ids, Var(o) \/ Func(o)
      PROVE  \/ IsVarNext(o) /\ (objs'[o].visited \/ objs'[o].typ # "nil") /\ NoBusy(o)
             \/ ~IsVarNext(o) /\ objs'[o].typ # "nil" /\ NoFunc(o)
  BY <1>2, <1>3, <1>4, TypeStep, Vars DEF Kept
<1>5. ASSUME Error, Decl # NoObj
      PROVE  \/ IsVarNext(Decl) /\ objs'[Decl].visited /\ NoBusy(Decl)
             \/ ~IsVarNext(Decl) /\ objs'[Decl].typ # "nil" /\ NoFunc(Decl)
  <2>1. Decl \in Ids /\ Checking /\ phase' = "ready" /\ busy' = <<>> /\ objs' = objs
    BY <1>5, Checks, Steps DEF Error
  <2>2. NoBusy(Decl) /\ NoFunc(Decl)
    <3>1. Len(busy') = 0
      BY <2>1
    <3> QED
      BY <2>1, <3>1
  <2>3. CASE busy # <<>>
    <3>1. Len(busy) \in 1 .. Len(busy) /\ Decl = busy[Len(busy)]
      BY <2>1, <2>3, Checks, PopOf DEF TypeOK
    <3>2. IsVar(Decl) /\ objs[Decl].visited
      BY <3>1 DEF WellFormed
    <3> QED
      BY <2>1, <2>2, <3>2, TypeStep, Vars
  <2>4. CASE busy = <<>>
    <3>1. phase = "bodies"
      BY <1>5, <2>1, <2>4, Checks DEF Checking
    <3>2. Decl = funcs[1] /\ 1 \in 1 .. Len(funcs)
      BY <2>1, <2>4, <3>1, Checks, TailOf DEF TypeOK
    <3>3. ~IsVar(Decl) /\ objs[Decl].typ # "nil"
      BY <2>1, <3>1, <3>2 DEF WellFormed, Phases
    <3> QED
      BY <2>1, <2>2, <3>3, TypeStep, Vars
  <2> QED
    BY <2>3, <2>4
<1>6. ASSUME InitOrderFails, NEW o \in Ids
      PROVE  NoBusy(o) /\ NoFunc(o) /\ objs'[o].typ # "nil"
  <2>1. phase = "order" /\ phase' = "ready" /\ busy' = <<>> /\ objs' = objs
    BY <1>6, Steps DEF InitOrderFails
  <2>2. Len(busy') = 0
    BY <2>1
  <2> QED
    BY <2>1, <2>2 DEF Phases
<1>7. \A o \in blamed' : \/ o \in blamed
                         \/ Error /\ Decl # NoObj /\ o = Decl
                         \/ InitOrderFails /\ o \in Ids
  <2>1. Error => blamed' = blamed \cup (IF Decl = NoObj THEN {} ELSE {Decl})
    BY DEF Error
  <2>2. InitOrderFails => \A o \in blamed' : o \in blamed \/ o \in Ids
    BY DEF InitOrderFails, InitCycles, TypeOK
  <2> QED
    BY <2>1, <2>2, Changes
<1>8. \A o \in Ids : IsVarNext(o) <=> IsVar(o)
  BY TypeStep, Vars
<1> QED
  BY <1>1, <1>4, <1>5, <1>6, <1>7, <1>8 DEF Blames, IsVar, IsVarNext

-----------------------------------------------------------------------------
\* Latest and Agrees are preserved.

\* Entries of the next command: the same items, and at most one more.
LEMMA Collected ==
    ASSUME IInv, NEW it \in Item, CollectDecl(it)
    PROVE  /\ Len(cmd') = Len(cmd) + 1
           /\ cmd'[Len(cmd) + 1].item = it /\ cmd'[Len(cmd) + 1].obj = Len(objs) + 1
           /\ \A i \in 1 .. Len(cmd) : cmd'[i] = cmd[i]
<1> DEFINE e == [item |-> it, obj |-> Len(objs) + 1]
<1>1. cmd' = Append(cmd, e) /\ objs' = Append(objs, NewObj(it, "nil")) /\ TypeOK
  BY DEF CollectDecl, IInv
<1>2. Kept /\ Len(objs) + 1 \in Ids'
  BY <1>1, Added
<1>3. cmd \in Seq(Entry') /\ e \in Entry' /\ e.item = it /\ e.obj = Len(objs) + 1
  BY <1>1, <1>2, Wider DEF Entry
<1> HIDE DEF e
<1> QED
  BY <1>1, <1>3, AppendTo

LEMMA CollectedStmt ==
    ASSUME IInv, NEW it \in Item, CollectStmt(it)
    PROVE  /\ Len(cmd') = Len(cmd) + 1
           /\ cmd'[Len(cmd) + 1].item = it
           /\ \A i \in 1 .. Len(cmd) : cmd'[i] = cmd[i]
<1> DEFINE e == [item |-> it, obj |-> NoObj]
<1>1. cmd' = Append(cmd, e) /\ cmd \in Seq(Entry)
  BY DEF CollectStmt, IInv, TypeOK, Entry
<1>2. e \in Entry /\ e.item = it
  BY DEF Entry
<1> HIDE DEF e
<1> QED
  BY <1>1, <1>2, AppendTo

LEMMA StmtCollected ==
    ASSUME IInv, StmtChecked
    PROVE  /\ Len(cmd') = Len(cmd)
           /\ Len(cmd) \in 1 .. Len(cmd) /\ Top(cmd) = cmd[Len(cmd)]
           /\ cmd'[Len(cmd)].item = Top(cmd).item
           /\ Declares(Top(cmd).item) => cmd'[Len(cmd)].obj = Len(objs) + 1
           /\ \A i \in 1 .. Len(cmd) : i # Len(cmd) => cmd'[i] = cmd[i]
<1> DEFINE e == [item |-> Top(cmd).item, obj |-> Len(objs) + 1]
           k == Len(cmd)
<1>1. /\ k \in 1 .. Len(cmd) /\ Top(cmd) = cmd[k] /\ e.item = Top(cmd).item
      /\ e.obj = Len(objs) + 1 /\ cmd \in Seq(Entry)
      /\ IF Declares(Top(cmd).item) THEN cmd' = With(cmd, k, e) ELSE cmd' = cmd
  BY StmtDone DEF IInv, TypeOK, Entry
<1> HIDE DEF e
<1>2. k \in Nat
  BY Elements DEF IInv
<1>3. CASE Declares(Top(cmd).item)
  <2> HIDE DEF k
  <2>1. /\ Len(With(cmd, k, e)) = Len(cmd) /\ With(cmd, k, e)[k] = e
        /\ \A j \in 1 .. Len(cmd) : j # k => With(cmd, k, e)[j] = cmd[j]
    BY ONLY <1>1 DEF With
  <2> QED
    BY <1>1, <1>3, <2>1 DEF k
<1>4. CASE ~Declares(Top(cmd).item)
  BY <1>1, <1>4
<1> QED
  BY <1>3, <1>4

InScopeNext(i) ==
    IF cmd'[i].item.kind = "method"
    THEN phase' \in {"resolve", "bodies", "order", "run"} \/ (phase' = "methods" /\ i < at')
    ELSE Declares(cmd'[i].item) /\ (phase' = "stmt" => i < Len(cmd'))

LatestNext ==
    phase' # "ready" =>
       \A i \in 1 .. Len(cmd') :
          /\ InScopeNext(i)
          /\ \A j \in i + 1 .. Len(cmd') : InScopeNext(j) => cmd'[j].item.name # cmd'[i].item.name
          => scope'[cmd'[i].item.name] = cmd'[i].obj

\* A step that brings item k into scope, and no other one.
LEMMA NewInScope ==
    ASSUME IInv, phase # "ready", NEW k \in 1 .. Len(cmd'), NEW o, NEW n \in Symbol,
           Len(cmd') \in Nat, Len(cmd) <= Len(cmd'),
           cmd'[k].item.name = n, cmd'[k].obj = o, InScopeNext(k),
           scope' = [scope EXCEPT ![n] = o],
           \A i \in 1 .. Len(cmd') : i # k /\ InScopeNext(i) =>
              i \in 1 .. Len(cmd) /\ InScope(i) /\ cmd'[i] = cmd[i],
           \A i \in 1 .. Len(cmd) : i # k /\ InScope(i) => InScopeNext(i) /\ cmd'[i] = cmd[i],
           InScope(k) /\ k \in 1 .. Len(cmd) => cmd[k].item.name = n,
           \A i \in 1 .. Len(cmd') : i > k /\ InScopeNext(i) => cmd'[i].item.name # n
    PROVE  LatestNext
<1>1. SUFFICES ASSUME NEW i \in 1 .. Len(cmd'), InScopeNext(i),
                      \A j \in i + 1 .. Len(cmd') :
                         InScopeNext(j) => cmd'[j].item.name # cmd'[i].item.name
               PROVE  scope'[cmd'[i].item.name] = cmd'[i].obj
  BY DEF LatestNext
<1>2. scope \in [Symbol -> Ids \cup {NoObj}] /\ Len(cmd) \in Nat
  BY Elements DEF IInv, TypeOK
<1>3. CASE i = k
  BY <1>2, <1>3
<1>4. CASE i # k
  <2>1. i \in 1 .. Len(cmd) /\ InScope(i) /\ cmd'[i] = cmd[i]
    BY <1>1, <1>4
  <2>2. cmd[i].item.name # n
    <3>1. CASE i < k
      BY <1>1, <2>1, <3>1
    <3>2. CASE i > k
      BY <1>1, <2>1, <3>2
    <3> QED
      BY <1>4, <3>1, <3>2
  <2>3. ASSUME NEW j \in i + 1 .. Len(cmd), InScope(j)
        PROVE  cmd[j].item.name # cmd[i].item.name
    <3>1. CASE j = k
      BY <1>2, <2>1, <2>2, <2>3, <3>1
    <3>2. CASE j # k
      <4>1. j \in 1 .. Len(cmd)
        BY <1>2
      <4> QED
        BY <1>1, <1>2, <2>1, <2>3, <3>2, <4>1
    <3> QED
      BY <3>1, <3>2
  <2>4. scope[cmd[i].item.name] = cmd[i].obj
    BY <2>1, <2>3 DEF IInv, Latest
  <2> QED
    BY <1>2, <2>1, <2>2, <2>4
<1> QED
  BY <1>3, <1>4

\* A step that brings no item into scope.
LEMMA SameInScope ==
    ASSUME IInv, phase # "ready", scope' = scope, Len(cmd') \in Nat, Len(cmd) <= Len(cmd'),
           \A i \in 1 .. Len(cmd') : InScopeNext(i) =>
              i \in 1 .. Len(cmd) /\ InScope(i) /\ cmd'[i] = cmd[i],
           \A i \in 1 .. Len(cmd) : InScope(i) => InScopeNext(i) /\ cmd'[i] = cmd[i]
    PROVE  LatestNext
<1>1. SUFFICES ASSUME NEW i \in 1 .. Len(cmd'), InScopeNext(i),
                      \A j \in i + 1 .. Len(cmd') :
                         InScopeNext(j) => cmd'[j].item.name # cmd'[i].item.name
               PROVE  scope'[cmd'[i].item.name] = cmd'[i].obj
  BY DEF LatestNext
<1>2. i \in 1 .. Len(cmd) /\ InScope(i) /\ cmd'[i] = cmd[i] /\ Len(cmd) \in Nat
  BY <1>1, Elements DEF IInv
<1>3. ASSUME NEW j \in i + 1 .. Len(cmd), InScope(j)
      PROVE  cmd[j].item.name # cmd[i].item.name
  <2>1. j \in 1 .. Len(cmd) /\ j \in i + 1 .. Len(cmd')
    BY <1>2
  <2> QED
    BY <1>1, <1>2, <1>3, <2>1
<1> QED
  BY <1>2, <1>3 DEF IInv, Latest

LEMMA LatestStep ==
    ASSUME IInv, [Next]_vars
    PROVE  LatestNext
<1> USE DEF IInv
<1>1. Len(cmd) \in Nat /\ Len(cmd') \in Nat
  BY Elements, TypeStep DEF TypeOK
<1>2. CASE Collects
  <2>1. PICK it \in Item : CollectDecl(it)
    BY <1>2 DEF Collects
  <2>2. /\ Len(cmd') = Len(cmd) + 1
        /\ cmd'[Len(cmd) + 1].item = it /\ cmd'[Len(cmd) + 1].obj = Len(objs) + 1
        /\ \A i \in 1 .. Len(cmd) : cmd'[i] = cmd[i]
    BY <2>1, Collected
  <2>3. phase = "collect" /\ phase' = "collect" /\ at' = at
    BY <2>1 DEF CollectDecl
  <2>4. \A i \in 1 .. Len(cmd) : InScope(i) <=> InScopeNext(i)
    BY <1>1, <2>2, <2>3 DEF InScope, InScopeNext
  <2>5. CASE it.kind = "method"
    <3>1. scope' = scope /\ ~InScopeNext(Len(cmd) + 1)
      BY <2>1, <2>2, <2>3, <2>5 DEF CollectDecl, InScopeNext
    <3> QED
      BY <1>1, <2>2, <2>3, <2>4, <3>1, SameInScope
  <2>6. CASE it.kind # "method"
    <3>1. /\ scope' = [scope EXCEPT ![it.name] = Len(objs) + 1]
          /\ it.kind \in {"var", "func"} /\ it.name \in Symbol
      BY <2>1, <2>6, Items DEF CollectDecl, Replace
    <3>2. InScopeNext(Len(cmd) + 1)
      BY <2>2, <2>3, <3>1 DEF InScopeNext, Declares
    <3> DEFINE k == Len(cmd) + 1
    <3>3. /\ k \in 1 .. Len(cmd') /\ Len(cmd) <= Len(cmd') /\ k \notin 1 .. Len(cmd)
          /\ \A i \in 1 .. Len(cmd') : i # k => i \in 1 .. Len(cmd) /\ ~(i > k)
      BY <1>1, <2>2
    <3>4. cmd'[k].item.name = it.name /\ cmd'[k].obj = Len(objs) + 1 /\ InScopeNext(k)
      BY <2>2, <3>2
    <3>5. \A i \in 1 .. Len(cmd') : ~(i > k)
      BY <1>1, <2>2
    <3> HIDE DEF k
    <3> QED
      BY <1>1, <2>2, <2>3, <2>4, <3>1, <3>3, <3>4, <3>5, NewInScope
  <2> QED
    BY <2>5, <2>6
<1>3. CASE \E it \in Item : CollectStmt(it)
  <2>1. PICK it \in Item : CollectStmt(it)
    BY <1>3
  <2>2. /\ Len(cmd') = Len(cmd) + 1 /\ cmd'[Len(cmd) + 1].item = it
        /\ \A i \in 1 .. Len(cmd) : cmd'[i] = cmd[i]
    BY <2>1, CollectedStmt
  <2>3. /\ phase = "collect" /\ phase' = "stmt" /\ at' = at /\ scope' = scope
        /\ it.kind # "method"
    BY <2>1 DEF CollectStmt
  <2>4. \A i \in 1 .. Len(cmd) : InScope(i) <=> InScopeNext(i)
    BY <1>1, <2>2, <2>3 DEF InScope, InScopeNext
  <2>5. ~InScopeNext(Len(cmd) + 1)
    BY <1>1, <2>2, <2>3 DEF InScopeNext
  <2> QED
    BY <1>1, <2>2, <2>3, <2>4, <2>5, SameInScope
<1>4. CASE StmtChecked
  <2>1. /\ Len(cmd') = Len(cmd) /\ Len(cmd) \in 1 .. Len(cmd) /\ Top(cmd) = cmd[Len(cmd)]
        /\ cmd'[Len(cmd)].item = Top(cmd).item
        /\ Declares(Top(cmd).item) => cmd'[Len(cmd)].obj = Len(objs) + 1
        /\ \A i \in 1 .. Len(cmd) : i # Len(cmd) => cmd'[i] = cmd[i]
    BY <1>4, StmtCollected
  <2>2. /\ phase = "stmt" /\ phase' = "collect" /\ at' = at
        /\ Top(cmd).item \in Item /\ Top(cmd).item.kind \in {"short", "expr"}
    BY <1>4, StmtDone DEF StmtChecked
  <2>3. \A i \in 1 .. Len(cmd) : i # Len(cmd) => (InScope(i) <=> InScopeNext(i))
    BY <1>1, <2>1, <2>2 DEF InScope, InScopeNext
  <2>4. ~InScope(Len(cmd))
    BY <2>1, <2>2 DEF InScope
  <2>5. InScopeNext(Len(cmd)) <=> Declares(Top(cmd).item)
    BY <2>1, <2>2 DEF InScopeNext
  <2>6. CASE Declares(Top(cmd).item)
    <3>1. /\ scope' = [scope EXCEPT ![Top(cmd).item.name] = Len(objs) + 1]
          /\ Top(cmd).item.name \in Symbol
      BY <1>4, <2>2, <2>6, StmtDone, Items
    <3> DEFINE k == Len(cmd)
    <3>2. \A i \in 1 .. Len(cmd') : ~(i > k)
      BY <1>1, <2>1
    <3>3. /\ k \in 1 .. Len(cmd') /\ cmd'[k].item.name = Top(cmd).item.name
          /\ cmd'[k].obj = Len(objs) + 1 /\ InScopeNext(k) /\ ~InScope(k)
          /\ Len(cmd) <= Len(cmd')
      BY <1>1, <2>1, <2>4, <2>5, <2>6
    <3>4. /\ \A i \in 1 .. Len(cmd') : i # k /\ InScopeNext(i) =>
                i \in 1 .. Len(cmd) /\ InScope(i) /\ cmd'[i] = cmd[i]
          /\ \A i \in 1 .. Len(cmd) : i # k /\ InScope(i) => InScopeNext(i) /\ cmd'[i] = cmd[i]
      BY <2>1, <2>3
    <3> HIDE DEF k
    <3> QED
      BY <1>1, <2>2, <3>1, <3>2, <3>3, <3>4, NewInScope
  <2>7. CASE ~Declares(Top(cmd).item)
    <3>1. scope' = scope
      BY <1>4, <2>7, StmtDone
    <3>2. /\ \A i \in 1 .. Len(cmd') : InScopeNext(i) =>
                i \in 1 .. Len(cmd) /\ InScope(i) /\ cmd'[i] = cmd[i]
          /\ \A i \in 1 .. Len(cmd) : InScope(i) => InScopeNext(i) /\ cmd'[i] = cmd[i]
      BY <2>1, <2>3, <2>4, <2>5, <2>7
    <3> QED
      BY <1>1, <2>1, <2>2, <3>1, <3>2, SameInScope
  <2> QED
    BY <2>6, <2>7
<1>5. CASE AddMethodDecl
  <2>1. cmd' = cmd /\ phase = "methods" /\ phase' = "methods" /\ at' = at + 1 /\ at \in 1 .. Len(cmd)
    BY Elements, <1>5 DEF AddMethodDecl, TypeOK
  <2>2. \A i \in 1 .. Len(cmd) : i # at => (InScope(i) <=> InScopeNext(i))
    BY <1>1, <2>1 DEF InScope, InScopeNext
  <2>3. CASE cmd[at].item.kind = "method"
    <3>1. cmd[at].item.name \in Method /\ cmd[at].item.name \in Symbol
      BY <1>5, <2>3, MethodDone DEF Symbol
    <3>2. scope' = [scope EXCEPT ![cmd[at].item.name] = cmd[at].obj]
      BY <1>5, <2>3 DEF AddMethodDecl, Replace
    <3>3. InScopeNext(at)
      BY <1>1, <2>1, <2>3 DEF InScopeNext
    <3>4. ASSUME NEW i \in 1 .. Len(cmd), i > at, InScopeNext(i)
          PROVE  cmd[i].item.name # cmd[at].item.name
      <4>1. cmd[i].item.kind # "method" /\ Declares(cmd[i].item)
        BY <1>1, <2>1, <3>4 DEF InScopeNext
      <4>2. cmd[i].item \in Item
        BY Elements
      <4> QED
        BY <3>1, <4>1, <4>2, Items DEF Declares
    <3> DEFINE n == cmd[at].item.name
               o == cmd[at].obj
    <3>5. /\ at \in 1 .. Len(cmd') /\ Len(cmd) <= Len(cmd') /\ Len(cmd') \in Nat
          /\ cmd'[at].item.name = n /\ cmd'[at].obj = o /\ phase # "ready"
          /\ cmd[at].item.name = n /\ n \in Symbol
      BY <1>1, <2>1, <3>1
    <3>6. /\ \A i \in 1 .. Len(cmd') : i # at /\ InScopeNext(i) =>
                i \in 1 .. Len(cmd) /\ InScope(i) /\ cmd'[i] = cmd[i]
          /\ \A i \in 1 .. Len(cmd) : i # at /\ InScope(i) => InScopeNext(i) /\ cmd'[i] = cmd[i]
      BY <2>1, <2>2
    <3>7. \A i \in 1 .. Len(cmd') : i > at /\ InScopeNext(i) => cmd'[i].item.name # n
      BY <2>1, <3>4
    <3>8. scope' = [scope EXCEPT ![n] = o]
      BY <3>2
    <3> HIDE DEF n, o
    <3> QED
      BY <3>3, <3>5, <3>6, <3>7, <3>8, NewInScope
  <2>4. CASE cmd[at].item.kind # "method"
    <3>1. scope' = scope
      BY <1>5, <2>4 DEF AddMethodDecl
    <3>2. InScope(at) <=> InScopeNext(at)
      BY <2>1, <2>4 DEF InScope, InScopeNext
    <3> QED
      BY <1>1, <2>1, <2>2, <3>1, <3>2, SameInScope
  <2> QED
    BY <2>3, <2>4
<1>6. CASE Begin
  <2>1. Len(cmd') = 0
    BY <1>6, Steps
  <2> QED
    BY <2>1 DEF LatestNext
<1>7. CASE phase' = "ready"
  BY <1>7 DEF LatestNext
<1>8. CASE /\ ~Begin /\ ~AddMethodDecl /\ ~Collects /\ ~StmtChecked /\ phase' # "ready"
           /\ ~\E it \in Item : CollectStmt(it)
  <2>1. scope' = scope /\ cmd' = cmd /\ phase # "ready"
    BY <1>8, Changes, Steps
  <2>2. \/ EndCollect /\ phase = "collect" /\ phase' = "methods" /\ at = 1 /\ at' = at
        \/ EndMethods /\ phase = "methods" /\ phase' = "resolve" /\ at > Len(cmd)
        \/ phase \in {"resolve", "bodies", "order", "run"} /\ phase' \in {"resolve", "bodies", "order", "run"}
        \/ phase' = phase /\ at' = at
    <3>1. EndCollect => /\ at' = at /\ phase = "collect" /\ phase' = "methods" /\ at = 1
      BY Steps DEF EndCollect, Phases
    <3>2. CASE phase' = phase
      BY <1>8, <3>2, Changes, Steps
    <3>3. CASE phase' # phase
      <4>1. EndCollect \/ EndMethods \/ EndResolve \/ EndBodies \/ InitOrder
        BY <1>8, <3>3, Changes, Steps
      <4> QED
        BY <3>1, <4>1, Steps
    <3> QED
      BY <3>2, <3>3
  <2>3. \A i \in 1 .. Len(cmd) : InScope(i) <=> InScopeNext(i)
    <3>1. at \in Nat
      BY Elements DEF TypeOK
    <3> QED
      BY <1>1, <2>1, <2>2, <3>1 DEF InScope, InScopeNext
  <2> QED
    BY <1>1, <2>1, <2>3, SameInScope
<1> QED
  BY <1>2, <1>3, <1>4, <1>5, <1>6, <1>7, <1>8

AgreesNext ==
    \A n \in Symbol :
       \/ scope'[n] = lua'[n]
       \/ phase' = "ready" /\ n \in doubtful'
       \/ phase' \notin {"ready", "run"} /\ n \in doubtful' \cup Names(1, Len(cmd))'
       \/ phase' = "run" /\ n \in Names(at, Len(cmd))' \cup (doubtful' \ Names(1, at - 1)')

\* The names that part of the command declares.
LEMMA InNames ==
    ASSUME NEW i, NEW j, NEW n
    PROVE  n \in Names(i, j) <=> \E k \in i .. j : Declares(cmd[k].item) /\ cmd[k].item.name = n
BY DEF Names

LEMMA AgreesStep ==
    ASSUME IInv, [Next]_vars
    PROVE  AgreesNext
<1> USE DEF IInv
<1>1. Len(cmd) \in Nat /\ Len(cmd') \in Nat /\ at \in 1 .. Len(cmd) + 1
  BY Elements, TypeStep DEF TypeOK
<1> DEFINE All == Names(1, Len(cmd))
           AllNext == Names(1, Len(cmd))'
<1>2. CASE Begin
  BY <1>2 DEF Begin, Agrees, AgreesNext
<1>3. CASE Error \/ InitOrderFails
  <2>1. /\ doubtful' = doubtful \cup All /\ UNCHANGED <<scope, lua>> /\ phase' = "ready"
        /\ phase \notin {"ready", "run"}
    BY <1>3, Steps DEF Error, InitOrderFails, Reject
  <2> HIDE DEF All
  <2>2. \A n \in Symbol : scope[n] = lua[n] \/ n \in doubtful \cup All
    BY <2>1 DEF Agrees, All
  <2> QED
    BY <2>1, <2>2 DEF AgreesNext
<1>4. CASE EndRun
  BY <1>4 DEF EndRun, Agrees, AgreesNext
<1>5. CASE InitOrder
  <2>1. /\ UNCHANGED <<scope, lua, cmd, at, doubtful>> /\ phase = "order" /\ phase' = "run" /\ at = 1
    BY <1>5 DEF InitOrder, Phases
  <2>2. Names(at, Len(cmd))' = All /\ Names(1, at - 1)' = {}
    BY <2>1 DEF Names
  <2> HIDE DEF All
  <2>3. \A n \in Symbol : scope[n] = lua[n] \/ n \in doubtful \cup All
    BY <2>1 DEF Agrees, All
  <2> QED
    BY <2>1, <2>2, <2>3 DEF AgreesNext
<1>6. CASE Collects \/ StmtChecked \/ AddMethodDecl
  <2>1. /\ phase \notin {"ready", "run"} /\ phase' \notin {"ready", "run"}
        /\ lua' = lua /\ doubtful' = doubtful
    BY <1>6, Steps DEF Collects, CollectDecl, StmtChecked, AddMethodDecl
  <2>2. All \subseteq AllNext
    <3>1. /\ Len(cmd) <= Len(cmd')
          /\ \A i \in 1 .. Len(cmd) : cmd'[i].item = cmd[i].item
      <4>1. Collects => /\ Len(cmd') = Len(cmd) + 1
                        /\ \A i \in 1 .. Len(cmd) : cmd'[i] = cmd[i]
        BY Collected DEF Collects
      <4>2. StmtChecked => /\ Len(cmd') = Len(cmd)
                           /\ \A i \in 1 .. Len(cmd) : cmd'[i].item = cmd[i].item
        BY StmtCollected
      <4>3. AddMethodDecl => cmd' = cmd
        BY DEF AddMethodDecl
      <4> QED
        BY <1>1, <1>6, <4>1, <4>2, <4>3
    <3> QED
      BY <1>1, <3>1 DEF Names
  <2>3. \A n \in Symbol : scope'[n] = scope[n] \/ n \in AllNext
    <3>1. ASSUME NEW it \in Item, CollectDecl(it)
          PROVE  \A n \in Symbol : scope'[n] = scope[n] \/ n \in AllNext
      <4>1. CASE it.kind = "method"
        BY <3>1, <4>1 DEF CollectDecl
      <4>2. CASE it.kind # "method"
        <5>1. scope' = [scope EXCEPT ![it.name] = Len(objs) + 1] /\ Declares(it)
          BY <3>1, <4>2 DEF CollectDecl, Replace, Declares
        <5>2. Len(cmd) + 1 \in 1 .. Len(cmd') /\ cmd'[Len(cmd) + 1].item = it
          BY <1>1, <3>1, Collected
        <5>3. it.name \in AllNext
          BY <5>1, <5>2 DEF Names
        <5> QED
          BY <5>1, <5>3 DEF TypeOK
      <4> QED
        BY <4>1, <4>2
    <3>2. CASE StmtChecked
      <4>1. CASE Declares(Top(cmd).item)
        <5>1. scope' = [scope EXCEPT ![Top(cmd).item.name] = Len(objs) + 1]
          BY <3>2, <4>1, StmtDone
        <5>2. Len(cmd) \in 1 .. Len(cmd') /\ cmd'[Len(cmd)].item = Top(cmd).item
          BY <3>2, StmtCollected
        <5>3. Top(cmd).item.name \in AllNext
          BY <4>1, <5>2 DEF Names
        <5> QED
          BY <5>1, <5>3 DEF TypeOK
      <4>2. CASE ~Declares(Top(cmd).item)
        BY <3>2, <4>2, StmtDone
      <4> QED
        BY <4>1, <4>2
    <3>3. CASE AddMethodDecl
      <4>1. CASE cmd[at].item.kind = "method"
        <5>1. scope' = [scope EXCEPT ![cmd[at].item.name] = cmd[at].obj] /\ cmd' = cmd
          BY <3>3, <4>1 DEF AddMethodDecl, Replace
        <5>2. at \in 1 .. Len(cmd) /\ Declares(cmd[at].item)
          BY <3>3, <4>1, MethodDone DEF Declares
        <5>3. cmd[at].item.name \in AllNext
          BY <5>1, <5>2 DEF Names
        <5> QED
          BY <5>1, <5>3 DEF TypeOK
      <4>2. CASE cmd[at].item.kind # "method"
        BY <3>3, <4>2 DEF AddMethodDecl
      <4> QED
        BY <4>1, <4>2
    <3> QED
      BY <1>6, <3>1, <3>2, <3>3 DEF Collects
  <2> HIDE DEF All, AllNext
  <2>4. \A n \in Symbol : scope[n] = lua[n] \/ n \in doubtful \cup All
    BY <2>1 DEF Agrees, All
  <2>5. \A n \in Symbol : scope'[n] = lua'[n] \/ n \in doubtful' \cup AllNext
    BY <2>1, <2>2, <2>3, <2>4
  <2> QED
    BY <2>1, <2>5 DEF AgreesNext, AllNext
<1>7. CASE RunItem
  <2> DEFINE c == cmd[at]
             Rest == Names(at, Len(cmd))
             RestNext == Names(at, Len(cmd))'
             Done == Names(1, at - 1)
             DoneNext == Names(1, at - 1)'
  <2>1. /\ phase = "run" /\ phase' = "run" /\ UNCHANGED <<scope, cmd, doubtful>>
        /\ at \in 1 .. Len(cmd) /\ at' = at + 1
        /\ lua' = IF Declares(c.item) THEN [lua EXCEPT ![c.item.name] = c.obj] ELSE lua
    BY <1>1, <1>7 DEF RunItem
  <2>2. \A n : n \in Rest => n \in RestNext \/ (Declares(c.item) /\ n = c.item.name)
    BY <1>1, <2>1 DEF Names
  <2>3. \A n : n \in DoneNext => n \in Done \/ (Declares(c.item) /\ n = c.item.name)
    BY <1>1, <2>1 DEF Names
  <2>4. Declares(c.item) => c.item.name \in RestNext \/ scope[c.item.name] = c.obj
    <3>1. \A j \in at + 1 .. Len(cmd) : Declares(cmd[j].item) => cmd[j].item.name \in RestNext
      BY <2>1 DEF Names
    <3>2. \A j \in 1 .. Len(cmd) : InScope(j) => Declares(cmd[j].item)
      BY DEF InScope, Declares
    <3>3. Declares(c.item) => InScope(at)
      BY <2>1 DEF InScope
    <3>4. \A j \in at + 1 .. Len(cmd) : j \in 1 .. Len(cmd)
      BY <1>1
    <3> QED
      BY <2>1, <3>1, <3>2, <3>3, <3>4 DEF Latest
  <2>5. \A n \in Symbol : scope[n] = lua[n] \/ n \in Rest \/ (n \in doubtful /\ n \notin Done)
    BY <2>1 DEF Agrees
  <2>6. \A n \in Symbol : lua'[n] = IF Declares(c.item) /\ n = c.item.name THEN c.obj ELSE lua[n]
    BY <2>1 DEF TypeOK
  <2> HIDE DEF c, Rest, RestNext, Done, DoneNext
  <2>7. \A n \in Symbol : \/ scope[n] = lua'[n] \/ n \in RestNext
                          \/ (n \in doubtful /\ n \notin DoneNext)
    BY <2>2, <2>3, <2>4, <2>5, <2>6
  <2> QED
    BY <2>1, <2>7 DEF AgreesNext, RestNext, DoneNext
<1>8. CASE /\ ~Begin /\ ~Error /\ ~InitOrderFails /\ ~EndRun /\ ~InitOrder /\ ~Collects
           /\ ~StmtChecked /\ ~AddMethodDecl /\ ~RunItem
  <2>1. UNCHANGED <<scope, lua, doubtful>>
    BY <1>8, Changes
  <2>2. \/ phase \notin {"ready", "run"} /\ phase' \notin {"ready", "run"}
        \/ phase \in {"ready", "run"} /\ phase' = phase /\ at' = at /\ cmd' = cmd
    BY <1>8, Changes, Steps
  <2>3. All \subseteq AllNext
    <3>1. CASE \E it \in Item : CollectStmt(it)
      <4>1. Len(cmd') = Len(cmd) + 1 /\ \A i \in 1 .. Len(cmd) : cmd'[i] = cmd[i]
        BY <3>1, CollectedStmt
      <4> QED
        BY <1>1, <4>1 DEF Names
    <3>2. CASE ~\E it \in Item : CollectStmt(it)
      <4>1. cmd' = cmd
        BY <1>8, <3>2, Changes
      <4> QED
        BY <4>1 DEF Names
    <3> QED
      BY <3>1, <3>2
  <2>4. CASE phase \notin {"ready", "run"} /\ phase' \notin {"ready", "run"}
    <3> HIDE DEF All, AllNext
    <3>1. \A n \in Symbol : scope[n] = lua[n] \/ n \in doubtful \cup All
      BY <2>4 DEF Agrees, All
    <3> QED
      BY <2>1, <2>3, <2>4, <3>1 DEF AgreesNext, AllNext
  <2>5. CASE phase \in {"ready", "run"} /\ phase' = phase /\ at' = at /\ cmd' = cmd
    <3>1. Names(at, Len(cmd))' = Names(at, Len(cmd)) /\ Names(1, at - 1)' = Names(1, at - 1)
      BY <2>5 DEF Names
    <3> QED
      BY <2>1, <2>5, <3>1 DEF AgreesNext, Agrees
  <2> QED
    BY <2>2, <2>4, <2>5
<1> QED
  BY <1>2, <1>3, <1>4, <1>5, <1>6, <1>7, <1>8

-----------------------------------------------------------------------------
LEMMA IInvInit ==
    ASSUME Init
    PROVE  IInv
<1>1. Len(objs) = 0 /\ Len(cmd) = 0 /\ Len(busy) = 0 /\ Len(funcs) = 0 /\ Ids = {}
  BY DEF Init, Ids
<1>2. TypeOK
  BY <1>1 DEF Init, TypeOK, NoObj
<1>3. WellFormed /\ Phases
  BY <1>1 DEF Init, WellFormed, Phases, NoObj, Symbol
<1>4. Entries /\ Pending /\ Blames /\ Latest
  BY <1>1 DEF Init, Entries, Pending, Blames, Latest
<1>5. Agrees
  BY DEF Init, Agrees
<1> QED
  BY <1>2, <1>3, <1>4, <1>5 DEF IInv

LEMMA IInvStep ==
    ASSUME IInv, [Next]_vars
    PROVE  IInv'
<1>1. Latest'
  BY LatestStep DEF LatestNext, Latest, InScopeNext, InScope
<1>2. Agrees'
  BY AgreesStep DEF AgreesNext, Agrees
<1> QED
  BY <1>1, <1>2, TypeStep, FormStep, PhasesStep, EntriesStep, PendingStep, BlamesStep DEF IInv

LEMMA Inductive == Spec => []IInv
BY IInvInit, IInvStep, PTL DEF Spec

\* The variables of the session keep their types: every object that is
\* referred to was made, and varDecl is not called for a variable while its
\* declaration is being checked (decl.go:98-310).
THEOREM SessionTypeOK == Spec => []TypeOK
<1>1. IInv => TypeOK
  BY DEF IInv
<1> QED
  BY <1>1, Inductive, PTL

\* Between commands the checker and Lua agree on what a name stands for,
\* except for names whose last definition failed (incr.go:42-640).
THEOREM SessionAgreement == Spec => []Agreement
<1>1. IInv => Agreement
  BY DEF IInv, Agrees, Agreement
<1> QED
  BY <1>1, Inductive, PTL

\* No declaration that was reported, as an error or as part of a cycle of
\* initializations, is found wrong by a check of declarations or bodies again:
\* commands after the rejected one do not fail on it (decl.go:257-270). A cycle
\* as such comes again with each of them (initorder.go:74-86).
THEOREM ReportedOnce == Spec => CheckedOnce
<1>1. ASSUME IInv, Error
      PROVE  Decl \notin blamed
  <2> USE DEF IInv
  <2>1. Checking
    BY <1>1 DEF Error
  <2>2. CASE busy # <<>>
    <3>1. Len(busy) \in 1 .. Len(busy) /\ Decl = busy[Len(busy)]
      BY <1>1, <2>1, <2>2, Checks, PopOf DEF TypeOK
    <3>2. IsVar(Decl)
      BY <1>1, <3>1 DEF WellFormed
    <3> QED
      BY <1>1, <3>1, <3>2 DEF Blames
  <2>3. CASE busy = <<>> /\ phase = "bodies"
    <3>1. Decl = funcs[1] /\ 1 \in 1 .. Len(funcs)
      BY <1>1, <2>1, <2>3, Checks, TailOf DEF TypeOK
    <3>2. ~IsVar(Decl)
      BY <1>1, <3>1 DEF WellFormed
    <3> QED
      BY <1>1, <2>3, <3>1, <3>2 DEF Blames
  <2>4. CASE busy = <<>> /\ phase = "stmt"
    <3>1. Decl = NoObj
      BY <1>1, <2>1, <2>4, Checks
    <3>2. NoObj \notin blamed
      BY <1>1, Elements DEF TypeOK, Ids, NoObj
    <3> QED
      BY <3>1, <3>2
  <2> QED
    BY <2>1, <2>2, <2>3, <2>4 DEF Checking
<1>2. IInv /\ [Next]_vars => [Error => Decl \notin blamed]_vars
  BY <1>1
<1> QED
  BY <1>2, Inductive, PTL DEF Spec, CheckedOnce

-----------------------------------------------------------------------------
\* What the items of the command refer to.
Sees(it) == it.ref \in Symbol => scope[it.ref] # NoObj
InBusy(o) == \E j \in 1 .. Len(busy) : busy[j] = o

\* A statement that was checked refers to something that is in scope. So does a
\* variable of the command, unless its declaration was not begun, or is under
\* way: its own command is the one that checks it, whoever uses it first.
Looked(i) ==
    LET it == cmd[i].item
        o  == cmd[i].obj IN
    /\ it.kind \in {"short", "expr"} => (phase = "stmt" /\ i = Len(cmd)) \/ Sees(it)
    /\ it.kind = "var" =>
          /\ o # NoObj
          /\ (objs[o].typ = "nil" /\ ~objs[o].visited) \/ InBusy(o) \/ Sees(it)

Reads == phase # "ready" => \A i \in 1 .. Len(cmd) : Looked(i)

\* What was found right refers to nothing, or to something in scope.
LEMMA RightSees ==
    ASSUME TypeOK, Phases, Right
    PROVE  /\ Decl # NoObj => Sees(objs[Decl].item)
           /\ Decl = NoObj => Sees(Top(cmd).item)
<1>1. Ref \in Symbol => Used = scope[Ref]
  BY DEF Used
<1>2. Ref \in Symbol => Ref # Good
  BY NameAssumption DEF Symbol
<1>3. Ref \in Symbol => scope[Ref] # NoObj
  BY <1>1, <1>2 DEF Right
<1> QED BY <1>3 DEF Sees, Ref

\* Nothing leaves the scope.
LEMMA ScopeGrows ==
    ASSUME IInv, [Next]_vars
    PROVE  \A n \in Symbol : scope[n] # NoObj => scope'[n] # NoObj
<1> USE DEF IInv
<1>1. ASSUME NEW n, NEW o, o # NoObj, scope' = [scope EXCEPT ![n] = o]
      PROVE  \A k \in Symbol : scope[k] # NoObj => scope'[k] # NoObj
  BY <1>1 DEF TypeOK
<1>2. CASE Collects
  <2>1. PICK it \in Item : CollectDecl(it)
    BY <1>2 DEF Collects
  <2>2. Len(objs) + 1 # NoObj
    BY Elements DEF NoObj
  <2> QED BY <1>1, <2>1, <2>2 DEF CollectDecl, Replace
<1>3. CASE StmtChecked
  <2>1. Len(objs) + 1 # NoObj
    BY Elements DEF NoObj
  <2> QED BY <1>1, <1>3, <2>1, StmtDone
<1>4. CASE AddMethodDecl
  <2>1. CASE cmd[at].item.kind = "method"
    <3>1. cmd[at].obj # NoObj
      BY <1>4, <2>1, MethodDone, Elements DEF Ids, NoObj
    <3> QED BY <1>1, <1>4, <2>1, <3>1 DEF AddMethodDecl, Replace
  <2>2. CASE cmd[at].item.kind # "method"
    BY <1>4, <2>2 DEF AddMethodDecl
  <2> QED BY <2>1, <2>2
<1> QED BY <1>2, <1>3, <1>4, Changes

SeesNext(it) == it.ref \in Symbol => scope'[it.ref] # NoObj
InBusyNext(o) == \E j \in 1 .. Len(busy') : busy'[j] = o

\* What other steps do to the calls of varDecl and to variables.
LEMMA OtherBusy ==
    ASSUME [Next]_vars, phase' # "ready", ~ResolveNext, ~DeclareUsed, ~VarChecked
    PROVE  busy' = busy
<1>1. ~Error /\ ~InitOrderFails /\ ~EndRun
  BY DEF Error, InitOrderFails, Reject, EndRun
<1> QED
  BY <1>1 DEF Next, vars, Begin, CollectDecl, CollectStmt, EndCollect, AddMethodDecl, EndMethods,
     EndResolve, BodyChecked, StmtChecked, EndBodies, InitOrder, RunItem

LEMMA OtherObjs ==
    ASSUME IInv, [Next]_vars, NEW o \in Ids, IsVar(o), ~ResolveNext, ~DeclareUsed, ~VarChecked
    PROVE  objs'[o] = objs[o]
<1> USE DEF IInv
<1>1. CASE Collects
  <2>1. PICK it \in Item : CollectDecl(it)
    BY <1>1 DEF Collects
  <2> QED BY <2>1, Added DEF CollectDecl
<1>2. CASE StmtChecked
  BY <1>2, StmtDone
<1>3. CASE AddMethodDecl
  <2>1. CASE cmd[at].item.kind = "method"
    BY <1>3, <2>1, MethodDone DEF IsVar
  <2>2. CASE cmd[at].item.kind # "method"
    BY <1>3, <2>2 DEF AddMethodDecl
  <2> QED BY <2>1, <2>2
<1>4. CASE BodyChecked
  <2>1. Decl = Head(funcs) /\ funcs # <<>>
    BY <1>4, BodyDone
  <2>2. Decl = funcs[1] /\ 1 \in 1 .. Len(funcs)
    BY <2>1, TailOf DEF TypeOK
  <2>3. Decl # o
    BY <2>2 DEF WellFormed
  <2>4. objs' = [objs EXCEPT ![Decl].dep = NewDep]
    BY <1>4 DEF BodyChecked
  <2>5. objs \in [Ids -> Object]
    BY Elements, LenProperties DEF TypeOK, Ids
  <2> QED BY <2>3, <2>4, <2>5
<1> QED BY <1>1, <1>2, <1>3, <1>4, Changes

\* A variable of the command leaves one of the three states only for the next.
LEMMA VarStep ==
    ASSUME IInv, [Next]_vars, phase' # "ready", NEW i \in 1 .. Len(cmd),
           cmd[i].item.kind = "var", phase # "ready", Looked(i)
    PROVE  LET o == cmd[i].obj IN
           \/ objs'[o].typ = "nil" /\ ~objs'[o].visited
           \/ InBusyNext(o) \/ SeesNext(cmd[i].item)
<1> USE DEF IInv
<1> DEFINE it == cmd[i].item
           o == cmd[i].obj
           Goal  == \/ objs'[o].typ = "nil" /\ ~objs'[o].visited
                    \/ InBusyNext(o) \/ SeesNext(it)
<1>1. /\ it \in Item /\ o \in Ids /\ objs[o].item = it
      /\ (objs[o].typ = "nil" /\ ~objs[o].visited) \/ InBusy(o) \/ Sees(it)
  BY Elements DEF Looked, Entries
<1>2. Sees(it) => SeesNext(it)
  BY ScopeGrows DEF Sees, SeesNext
<1> SUFFICES Goal
  OBVIOUS
<1>3. IsVar(o)
  BY <1>1 DEF IsVar
<1>4. Len(busy) \in Nat
  BY Elements
<1> HIDE DEF it, o
<1>5. CASE ResolveNext \/ DeclareUsed
  <2>1. PICK p \in Ids : objs[p].typ = "nil" /\ ObjDecl(p)
    BY <1>5, DeclareOne
  <2>2. /\ \A q \in Ids \ {p} : objs'[q] = objs[q]
        /\ \/ ~IsVar(p) /\ busy' = busy
           \/ IsVar(p) /\ objs[p].visited /\ busy' = busy
           \/ busy' = Append(busy, p)
        /\ p \in ObjMap
    BY <2>1, Declared
  <2>3. CASE busy' = busy
    <3>1. InBusy(o) => InBusyNext(o)
      BY <2>3 DEF InBusy, InBusyNext
    <3>2. CASE p = o
      <4>1. busy' # Append(busy, p)
        BY <2>3, <2>2, AppendTo DEF TypeOK
      <4> QED BY <1>1, <1>2, <1>3, <2>2, <3>1, <3>2, <4>1
    <3> QED BY <1>1, <1>2, <2>2, <3>1, <3>2
  <2>4. CASE busy' = Append(busy, p)
    <3>1. /\ Len(busy') = Len(busy) + 1 /\ busy'[Len(busy) + 1] = p
          /\ \A j \in 1 .. Len(busy) : busy'[j] = busy[j]
      BY <2>2, <2>4, AppendTo DEF TypeOK
    <3>2. InBusy(o) => InBusyNext(o)
      BY <1>4, <3>1 DEF InBusy, InBusyNext
    <3>3. InBusyNext(p)
      BY <1>4, <3>1 DEF InBusyNext
    <3> QED BY <1>1, <1>2, <2>2, <3>2, <3>3
  <2> QED BY <2>2, <2>3, <2>4
<1>6. CASE VarChecked
  <2>1. /\ Decl = Top(busy) /\ busy # <<>> /\ busy' = Pop(busy) /\ Decl \in Ids
        /\ \A q \in Ids \ {Decl} : objs'[q] = objs[q]
    BY <1>6, VarDone
  <2>2. /\ Len(Pop(busy)) = Len(busy) - 1
        /\ \A j \in 1 .. Len(busy) - 1 : Pop(busy)[j] = busy[j]
        /\ Top(busy) = busy[Len(busy)]
    BY <2>1, PopOf DEF TypeOK
  <2>3. CASE o = Decl
    <3>1. Decl # NoObj
      BY <2>1, Elements DEF Ids, NoObj
    <3>2. Sees(it)
      BY <1>1, <1>6, <2>3, <3>1, RightSees DEF VarChecked
    <3> QED BY <1>2, <3>2
  <2>4. CASE o # Decl
    <3>1. InBusy(o) => InBusyNext(o)
      <4> SUFFICES ASSUME NEW j \in 1 .. Len(busy), busy[j] = o
                   PROVE  InBusyNext(o)
        BY DEF InBusy
      <4>1. j \in 1 .. Len(busy) - 1
        BY <1>4, <2>1, <2>2, <2>4
      <4> QED BY <2>1, <2>2, <4>1 DEF InBusyNext
    <3> QED BY <1>1, <1>2, <2>1, <2>4, <3>1
  <2> QED BY <2>3, <2>4
<1>7. CASE ~(ResolveNext \/ DeclareUsed \/ VarChecked)
  <2>1. InBusy(o) => InBusyNext(o)
    <3>1. busy' = busy \/ busy' = <<>>
      BY <1>7, Changes
    <3>2. busy' = <<>> => busy' = busy \/ busy = <<>>
      BY <1>7, OtherBusy
    <3>3. busy = <<>> => ~InBusy(o)
      BY EmptySeq DEF InBusy
    <3> QED BY <3>1, <3>2, <3>3 DEF InBusy, InBusyNext
  <2>2. objs'[o] = objs[o]
    BY <1>1, <1>3, <1>7, OtherObjs
  <2> QED BY <1>1, <1>2, <2>1, <2>2
<1> QED BY <1>5, <1>6, <1>7

LEMMA ReadsStep ==
    ASSUME IInv, Reads, [Next]_vars
    PROVE  Reads'
<1> USE DEF IInv
<1> DEFINE LookedNext(i) == Looked(i)'
<1>1. /\ Len(cmd) \in Nat /\ cmd \in Seq(Entry)
      /\ \A i \in 1 .. Len(cmd) : cmd[i].item \in Item /\ cmd[i] \in Entry
  BY Elements DEF TypeOK, Entry
<1>2. \A it : Sees(it) => SeesNext(it)
  BY ScopeGrows DEF Sees, SeesNext
<1> SUFFICES ASSUME phase' # "ready", NEW i \in 1 .. Len(cmd')
             PROVE  LookedNext(i)
  BY DEF Reads
\* The entry stays as it is.
<1>3. ASSUME i \in 1 .. Len(cmd), phase # "ready", cmd'[i] = cmd[i],
             phase = "stmt" /\ i = Len(cmd) =>
                \/ cmd[i].item.kind = "expr" /\ Sees(cmd[i].item)
                \/ phase' = "stmt" /\ Len(cmd') = Len(cmd)
      PROVE  LookedNext(i)
  <2>1. Looked(i)
    BY <1>3 DEF Reads
  <2>2. cmd[i].item.kind \in {"short", "expr"} =>
           (phase' = "stmt" /\ i = Len(cmd')) \/ SeesNext(cmd[i].item)
    BY <1>2, <1>3, <2>1 DEF Looked
  <2>3. cmd[i].item.kind = "var" =>
           /\ cmd[i].obj # NoObj
           /\ \/ objs'[cmd[i].obj].typ = "nil" /\ ~objs'[cmd[i].obj].visited
              \/ InBusyNext(cmd[i].obj) \/ SeesNext(cmd[i].item)
    BY <1>3, <2>1, VarStep DEF Looked
  <2> QED BY <1>3, <2>2, <2>3 DEF Looked, Sees, SeesNext, InBusy, InBusyNext
<1>4. CASE Begin
  <2>1. Len(cmd') = 0
    BY <1>4, Steps
  <2> QED BY <2>1
<1>5. CASE Collects
  <2>1. PICK it \in Item : CollectDecl(it)
    BY <1>5 DEF Collects
  <2> DEFINE e == [item |-> it, obj |-> Len(objs) + 1]
  <2>2. /\ cmd' = Append(cmd, e) /\ objs' = Append(objs, NewObj(it, "nil"))
        /\ phase = "collect"
        /\ it.kind \in {"var", "func", "method"}
    BY <2>1 DEF CollectDecl
  <2>3. e.obj # NoObj /\ objs'[e.obj].typ = "nil" /\ ~objs'[e.obj].visited /\ e.obj \in Ids'
    <3>1. /\ objs'[Len(objs) + 1] = NewObj(it, "nil") /\ Len(objs) + 1 \in Ids'
          /\ NewObj(it, "nil").typ = "nil" /\ NewObj(it, "nil").visited = FALSE
      BY <2>2, Added, NewObjTyped
    <3>2. Len(objs) + 1 # NoObj
      BY Elements DEF NoObj
    <3> QED BY <3>1, <3>2
  <2>4. cmd \in Seq(Entry') /\ e \in Entry' /\ e.item = it
    BY <2>3, TypeStep, Wider DEF Entry
  <2> HIDE DEF e
  <2>5. /\ Len(cmd') = Len(cmd) + 1 /\ cmd'[Len(cmd) + 1] = e
        /\ \A k \in 1 .. Len(cmd) : cmd'[k] = cmd[k]
    BY <2>2, <2>4, AppendTo
  <2>6. CASE i \in 1 .. Len(cmd)
    BY <1>3, <2>2, <2>5, <2>6
  <2>7. CASE i = Len(cmd) + 1
    BY <2>2, <2>3, <2>4, <2>5, <2>7 DEF Looked
  <2> QED BY <1>1, <2>5, <2>6, <2>7
<1>6. CASE \E it \in Item : CollectStmt(it)
  <2>1. PICK it \in Item : CollectStmt(it)
    BY <1>6
  <2> DEFINE e == [item |-> it, obj |-> NoObj]
  <2>2. /\ cmd' = Append(cmd, e) /\ phase = "collect" /\ phase' = "stmt"
        /\ it.kind \in {"short", "expr"}
    BY <2>1 DEF CollectStmt
  <2>3. e \in Entry /\ e.item = it
    BY DEF Entry
  <2> HIDE DEF e
  <2>4. /\ Len(cmd') = Len(cmd) + 1 /\ cmd'[Len(cmd) + 1] = e
        /\ \A k \in 1 .. Len(cmd) : cmd'[k] = cmd[k]
    BY <1>1, <2>2, <2>3, AppendTo
  <2>5. CASE i \in 1 .. Len(cmd)
    BY <1>3, <2>2, <2>4, <2>5
  <2>6. CASE i = Len(cmd) + 1
    BY <2>2, <2>3, <2>4, <2>6 DEF Looked
  <2> QED BY <1>1, <2>4, <2>5, <2>6
<1>7. CASE StmtChecked
  <2> DEFINE k == Len(cmd)
             e == [item |-> Top(cmd).item, obj |-> Len(objs) + 1]
  <2>1. /\ k \in 1 .. Len(cmd) /\ Top(cmd) = cmd[k] /\ phase = "stmt" /\ phase' = "collect"
        /\ cmd[k].item.kind \in {"short", "expr"}
    BY <1>7, StmtDone DEF StmtChecked
  <2>2. Sees(cmd[k].item)
    <3>1. Right /\ Decl = NoObj
      BY <1>7, Checks DEF StmtChecked, Right
    <3> QED BY <2>1, <3>1, RightSees
  <2>3. CASE ~Declares(Top(cmd).item)
    <3>1. cmd' = cmd /\ cmd[k].item.kind = "expr"
      BY <1>7, <2>1, <2>3, StmtDone DEF Declares
    <3> QED BY <1>3, <2>1, <2>2, <3>1
  <2>4. CASE Declares(Top(cmd).item)
    <3>1. cmd' = With(cmd, k, e) /\ e.item = cmd[k].item
      BY <1>7, <2>1, <2>4, StmtDone
    <3> HIDE DEF e
    <3>2. /\ Len(cmd') = Len(cmd) /\ cmd'[k] = e
          /\ \A j \in 1 .. Len(cmd) : j # k => cmd'[j] = cmd[j]
      BY <1>1, <2>1, <3>1 DEF With
    <3>3. CASE i = k
      BY <1>2, <2>1, <2>2, <3>1, <3>2, <3>3 DEF Looked, Sees, SeesNext
    <3>4. CASE i # k
      <4>1. i \in 1 .. Len(cmd) /\ cmd'[i] = cmd[i]
        BY <3>2, <3>4
      <4> QED BY <1>3, <2>1, <3>4, <4>1
    <3> QED BY <3>3, <3>4
  <2> QED BY <2>3, <2>4
<1>8. CASE ~Begin /\ ~Collects /\ ~StmtChecked /\ ~\E it \in Item : CollectStmt(it)
  <2>1. cmd' = cmd
    BY <1>8, Changes
  <2>2. phase # "ready"
    BY <1>8, Changes, Steps
  <2>3. phase = "stmt" => phase' = "stmt"
    BY <1>8, Changes, Steps
  <2> QED BY <1>3, <2>1, <2>2, <2>3
<1> QED BY <1>4, <1>5, <1>6, <1>7, <1>8

\* A command that Lua runs reads only what Lua has, what an earlier command
\* failed to define, and what it defines itself further down: the checker looked
\* up every name, and Lua agrees on those (incr.go:300-600).
THEOREM DefinedBeforeRead == Spec => []ReadsDefined
<1>1. Init => Reads
  BY DEF Init, Reads
<1>2. IInv /\ Reads => ReadsDefined
  <2> SUFFICES ASSUME IInv, Reads, phase = "run", at <= Len(cmd),
                      cmd[at].item.kind \in {"var", "short", "expr"},
                      cmd[at].item.ref \in Symbol
               PROVE  \/ lua[cmd[at].item.ref] # NoObj
                      \/ cmd[at].item.ref \in doubtful \cup Names(at, Len(cmd))
    BY DEF ReadsDefined
  <2> USE DEF IInv
  <2>1. at \in 1 .. Len(cmd) /\ Looked(at)
    BY Elements DEF TypeOK, Reads
  <2>2. Sees(cmd[at].item)
    <3>1. CASE cmd[at].item.kind = "var"
      <4>1. cmd[at].obj \in Ids
        BY <2>1, <3>1, Elements DEF Looked
      <4>2. objs[cmd[at].obj].typ # "nil" /\ busy = <<>>
        BY <4>1 DEF Phases
      <4>3. ~InBusy(cmd[at].obj)
        BY <4>2, EmptySeq DEF InBusy
      <4> QED BY <2>1, <3>1, <4>2, <4>3 DEF Looked
    <3>2. CASE cmd[at].item.kind # "var"
      BY <2>1, <3>2 DEF Looked
    <3> QED BY <3>1, <3>2
  <2> QED BY <2>2 DEF Sees, Agrees
<1> QED BY <1>1, <1>2, ReadsStep, Inductive, PTL DEF Spec

-----------------------------------------------------------------------------
\* What declares an object is checked, is being checked, or waits for it.
InFuncs(o) == \E j \in 1 .. Len(funcs) : funcs[j] = o

Tracked(o) ==
    \/ objs[o].typ = "nil" /\ ~objs[o].visited
    \/ InBusy(o) \/ InFuncs(o) \/ o \in checked

Watched(i) ==
    /\ Declares(cmd[i].item) /\ ~(phase = "stmt" /\ i = Len(cmd)) => cmd[i].obj # NoObj
    /\ cmd[i].obj # NoObj => Tracked(cmd[i].obj)

Tracks == (phase # "ready" => \A i \in 1 .. Len(cmd) : Watched(i)) /\ OnlyCheckedRuns

InFuncsNext(o) == \E j \in 1 .. Len(funcs') : funcs'[j] = o

TrackedNext(o) ==
    \/ objs'[o].typ = "nil" /\ ~objs'[o].visited
    \/ InBusyNext(o) \/ InFuncsNext(o) \/ o \in checked'

\* What was checked stays so.
LEMMA CheckedGrows ==
    ASSUME [Next]_vars
    PROVE  /\ checked \subseteq checked'
           /\ VarChecked \/ BodyChecked => Decl \in checked'
           /\ StmtChecked /\ Declares(Top(cmd).item) => Len(objs) + 1 \in checked'
<1>1. VarChecked \/ BodyChecked => checked' = checked \cup {Decl}
  BY DEF VarChecked, BodyChecked
<1>2. StmtChecked => IF Declares(Top(cmd).item) THEN checked' = checked \cup {Len(objs) + 1}
                     ELSE checked' = checked
  BY DEF StmtChecked
<1> QED BY <1>1, <1>2, Changes

\* A call of varDecl that is under way comes to its end.
LEMMA BusyKept ==
    ASSUME IInv, [Next]_vars, phase' # "ready", NEW o, InBusy(o)
    PROVE  InBusyNext(o) \/ o \in checked'
<1> USE DEF IInv
<1>1. PICK j \in 1 .. Len(busy) : busy[j] = o
  BY DEF InBusy
<1>2. busy \in Seq(ObjMap) /\ Len(busy) \in Nat
  BY Elements DEF TypeOK
<1>3. CASE busy' = busy
  BY <1>1, <1>3 DEF InBusyNext
<1>4. CASE ResolveNext \/ DeclareUsed
  <2>1. PICK p \in Ids : objs[p].typ = "nil" /\ ObjDecl(p)
    BY <1>4, DeclareOne
  <2>2. p \in ObjMap /\ (busy' = busy \/ busy' = Append(busy, p))
    BY <2>1, Declared
  <2>3. CASE busy' = Append(busy, p)
    <3>1. Len(busy') = Len(busy) + 1 /\ \A k \in 1 .. Len(busy) : busy'[k] = busy[k]
      BY <1>2, <2>2, <2>3, AppendTo
    <3> QED BY <1>1, <1>2, <3>1 DEF InBusyNext
  <2> QED BY <1>3, <2>2, <2>3
<1>5. CASE VarChecked
  <2>1. Decl = Top(busy) /\ busy # <<>> /\ busy' = Pop(busy)
    BY <1>5, VarDone
  <2>2. /\ Len(busy') = Len(busy) - 1
        /\ \A k \in 1 .. Len(busy) - 1 : busy'[k] = busy[k]
        /\ Decl = busy[Len(busy)]
    BY <1>2, <2>1, PopOf
  <2>3. CASE j = Len(busy)
    BY <1>1, <1>5, <2>2, <2>3, CheckedGrows
  <2>4. CASE j # Len(busy)
    BY <1>1, <1>2, <2>2, <2>4 DEF InBusyNext
  <2> QED BY <2>3, <2>4
<1>6. CASE ~ResolveNext /\ ~DeclareUsed /\ ~VarChecked
  BY <1>3, <1>6, OtherBusy
<1> QED BY <1>4, <1>5, <1>6

\* A body that waits is checked, unless the command is rejected.
LEMMA FuncsKept ==
    ASSUME IInv, [Next]_vars, phase # "ready", NEW o, InFuncs(o)
    PROVE  InFuncsNext(o) \/ o \in checked'
<1> USE DEF IInv
<1>1. PICK j \in 1 .. Len(funcs) : funcs[j] = o
  BY DEF InFuncs
<1>2. funcs \in Seq(Ids) /\ Len(funcs) \in Nat
  BY Elements DEF TypeOK
<1>3. CASE funcs' = funcs
  BY <1>1, <1>3 DEF InFuncsNext
<1>4. ASSUME NEW p \in Ids, funcs' = Append(funcs, p)
      PROVE  InFuncsNext(o)
  <2>1. Len(funcs') = Len(funcs) + 1 /\ \A k \in 1 .. Len(funcs) : funcs'[k] = funcs[k]
    BY <1>2, <1>4, AppendTo
  <2> QED BY <1>1, <1>2, <2>1 DEF InFuncsNext
<1>5. CASE AddMethodDecl
  <2>1. CASE cmd[at].item.kind = "method"
    BY <1>4, <1>5, <2>1, MethodDone DEF AddMethodDecl
  <2>2. CASE cmd[at].item.kind # "method"
    BY <1>3, <1>5, <2>2 DEF AddMethodDecl
  <2> QED BY <2>1, <2>2
<1>6. CASE ResolveNext \/ DeclareUsed
  BY <1>3, <1>4, <1>6, DeclareOne, Declared
<1>7. CASE BodyChecked
  <2>1. funcs # <<>> /\ funcs' = Tail(funcs) /\ Decl = Head(funcs)
    BY <1>7, BodyDone
  <2>2. /\ Len(funcs') = Len(funcs) - 1 /\ Decl = funcs[1]
        /\ \A k \in 1 .. Len(funcs) - 1 : funcs'[k] = funcs[k + 1]
    BY <1>2, <2>1, TailOf
  <2>3. CASE j = 1
    BY <1>1, <1>7, <2>2, <2>3, CheckedGrows
  <2>4. CASE j # 1
    <3>1. j - 1 \in 1 .. Len(funcs') /\ funcs'[j - 1] = funcs[(j - 1) + 1]
      BY <1>1, <1>2, <2>2, <2>4
    <3> QED BY <1>1, <1>2, <3>1 DEF InFuncsNext
  <2> QED BY <2>3, <2>4
<1>8. ~Begin
  BY Steps
<1> QED BY <1>3, <1>5, <1>6, <1>7, <1>8, Changes

\* An object that nothing was done with is left alone, or declared.
LEMMA NewKept ==
    ASSUME IInv, [Next]_vars, NEW o \in Ids, objs[o].typ = "nil", ~objs[o].visited
    PROVE  TrackedNext(o)
<1> USE DEF IInv
<1>1. funcs \in Seq(Ids) /\ Len(funcs) \in Nat /\ busy \in Seq(ObjMap) /\ Len(busy) \in Nat
  BY Elements DEF TypeOK
<1>2. CASE objs'[o] = objs[o]
  BY <1>2 DEF TrackedNext
<1>3. CASE funcs' = Append(funcs, o)
  <2>1. Len(funcs') = Len(funcs) + 1 /\ funcs'[Len(funcs) + 1] = o
    BY <1>1, <1>3, AppendTo
  <2> QED BY <1>1, <2>1 DEF TrackedNext, InFuncsNext
<1>4. CASE busy' = Append(busy, o) /\ o \in ObjMap
  <2>1. Len(busy') = Len(busy) + 1 /\ busy'[Len(busy) + 1] = o
    BY <1>1, <1>4, AppendTo
  <2> QED BY <1>1, <2>1 DEF TrackedNext, InBusyNext
<1>5. CASE Collects
  BY <1>2, <1>5, Added DEF Collects, CollectDecl
<1>6. CASE StmtChecked
  BY <1>2, <1>6, StmtDone
<1>7. CASE AddMethodDecl
  <2>1. CASE cmd[at].item.kind = "method"
    BY <1>2, <1>3, <1>7, <2>1, MethodDone DEF AddMethodDecl
  <2>2. CASE cmd[at].item.kind # "method"
    BY <1>2, <1>7, <2>2 DEF AddMethodDecl
  <2> QED BY <2>1, <2>2
<1>8. CASE ResolveNext \/ DeclareUsed
  <2>1. PICK p \in Ids : objs[p].typ = "nil" /\ ObjDecl(p)
    BY <1>8, DeclareOne
  <2>2. CASE p = o
    BY <1>3, <1>4, <2>1, <2>2, Declared
  <2>3. CASE p # o
    BY <1>2, <2>1, <2>3, Declared
  <2> QED BY <2>2, <2>3
<1>9. CASE VarChecked
  <2>1. CASE o = Decl
    BY <1>9, <2>1, CheckedGrows DEF TrackedNext
  <2>2. CASE o # Decl
    BY <1>2, <1>9, <2>2, VarDone
  <2> QED BY <2>1, <2>2
<1>10. ~BodyChecked
  <2>1. objs[o].typ = "nil" => phase \notin {"bodies", "order", "run"}
    BY DEF Phases
  <2> QED BY <2>1, Steps
<1> QED BY <1>2, <1>5, <1>6, <1>7, <1>8, <1>9, <1>10, Changes

LEMMA TrackStep ==
    ASSUME IInv, [Next]_vars, phase # "ready", phase' # "ready", NEW o \in Ids, Tracked(o)
    PROVE  TrackedNext(o)
<1>1. CASE objs[o].typ = "nil" /\ ~objs[o].visited
  BY <1>1, NewKept
<1>2. CASE InBusy(o) \/ InFuncs(o)
  BY <1>2, BusyKept, FuncsKept DEF TrackedNext
<1>3. CASE o \in checked
  BY <1>3, CheckedGrows DEF TrackedNext
<1> QED BY <1>1, <1>2, <1>3 DEF Tracked

LEMMA WatchStep ==
    ASSUME IInv, Tracks, [Next]_vars, phase' # "ready", NEW i \in 1 .. Len(cmd')
    PROVE  /\ Declares(cmd'[i].item) /\ ~(phase' = "stmt" /\ i = Len(cmd')) => cmd'[i].obj # NoObj
           /\ cmd'[i].obj # NoObj => TrackedNext(cmd'[i].obj)
<1> USE DEF IInv
<1>1. Len(cmd) \in Nat /\ \A j \in 1 .. Len(cmd) : cmd[j].obj \in Ids \cup {NoObj}
  BY Elements
<1>2. ASSUME i \in 1 .. Len(cmd), phase # "ready", cmd'[i] = cmd[i],
             phase = "stmt" /\ i = Len(cmd) =>
                ~Declares(cmd[i].item) \/ (phase' = "stmt" /\ Len(cmd') = Len(cmd))
      PROVE  /\ Declares(cmd'[i].item) /\ ~(phase' = "stmt" /\ i = Len(cmd'))
                   => cmd'[i].obj # NoObj
             /\ cmd'[i].obj # NoObj => TrackedNext(cmd'[i].obj)
  <2>1. Watched(i)
    BY <1>2 DEF Tracks
  <2> QED BY <1>1, <1>2, <2>1, TrackStep DEF Watched
<1>3. CASE Begin
  <2>1. Len(cmd') = 0
    BY <1>3, Steps
  <2> QED BY <2>1
<1>4. CASE Collects
  <2>1. PICK it \in Item : CollectDecl(it)
    BY <1>4 DEF Collects
  <2>2. /\ Len(cmd') = Len(cmd) + 1 /\ cmd'[Len(cmd) + 1].obj = Len(objs) + 1
        /\ \A k \in 1 .. Len(cmd) : cmd'[k] = cmd[k]
    BY <2>1, Collected
  <2>3. phase = "collect"
    BY <1>4, Steps
  <2>4. Len(objs) + 1 # NoObj /\ TrackedNext(Len(objs) + 1)
    <3>1. objs' = Append(objs, NewObj(it, "nil"))
      BY <2>1 DEF CollectDecl
    <3>2. /\ objs'[Len(objs) + 1] = NewObj(it, "nil")
          /\ NewObj(it, "nil").typ = "nil" /\ NewObj(it, "nil").visited = FALSE
      BY <3>1, Added, NewObjTyped
    <3>3. Len(objs) + 1 # NoObj
      BY Elements DEF NoObj
    <3> QED BY <3>2, <3>3 DEF TrackedNext
  <2>5. CASE i = Len(cmd) + 1
    BY <2>2, <2>4, <2>5
  <2>6. CASE i \in 1 .. Len(cmd)
    BY <1>2, <2>2, <2>3, <2>6
  <2> QED BY <1>1, <2>2, <2>5, <2>6
<1>5. CASE \E it \in Item : CollectStmt(it)
  <2>1. PICK it \in Item : CollectStmt(it)
    BY <1>5
  <2> DEFINE e == [item |-> it, obj |-> NoObj]
  <2>2. /\ cmd' = Append(cmd, e) /\ phase = "collect" /\ phase' = "stmt"
    BY <2>1 DEF CollectStmt
  <2>3. e \in Entry /\ e.obj = NoObj /\ cmd \in Seq(Entry)
    BY DEF Entry, TypeOK
  <2> HIDE DEF e
  <2>4. /\ Len(cmd') = Len(cmd) + 1 /\ cmd'[Len(cmd) + 1] = e
        /\ \A k \in 1 .. Len(cmd) : cmd'[k] = cmd[k]
    BY <2>2, <2>3, AppendTo
  <2>5. CASE i = Len(cmd) + 1
    BY <2>2, <2>3, <2>4, <2>5
  <2>6. CASE i \in 1 .. Len(cmd)
    BY <1>2, <2>2, <2>4, <2>6
  <2> QED BY <1>1, <2>4, <2>5, <2>6
<1>6. CASE StmtChecked
  <2>1. /\ Len(cmd') = Len(cmd) /\ Top(cmd) = cmd[Len(cmd)]
        /\ Declares(Top(cmd).item) => cmd'[Len(cmd)].obj = Len(objs) + 1
        /\ \A k \in 1 .. Len(cmd) : k # Len(cmd) => cmd'[k] = cmd[k]
    BY <1>6, StmtCollected
  <2>2. phase = "stmt" /\ phase' = "collect"
    BY <1>6, Steps
  <2>3. CASE i = Len(cmd) /\ Declares(Top(cmd).item)
    <3>1. Len(objs) + 1 # NoObj /\ Len(objs) + 1 \in checked'
      BY <1>6, <2>3, CheckedGrows, Elements DEF NoObj
    <3> QED BY <2>1, <2>3, <3>1 DEF TrackedNext
  <2>4. CASE i = Len(cmd) /\ ~Declares(Top(cmd).item)
    <3>1. cmd' = cmd
      BY <1>6, <2>4, StmtDone
    <3> QED BY <1>2, <2>1, <2>2, <2>4, <3>1
  <2>5. CASE i # Len(cmd)
    BY <1>2, <2>1, <2>2, <2>5
  <2> QED BY <2>3, <2>4, <2>5
<1>7. CASE ~Begin /\ ~Collects /\ ~StmtChecked /\ ~\E it \in Item : CollectStmt(it)
  <2>1. cmd' = cmd
    BY <1>7, Changes
  <2>2. phase # "ready" /\ (phase = "stmt" => phase' = "stmt")
    BY <1>7, Changes, Steps
  <2> QED BY <1>2, <2>1, <2>2
<1> QED BY <1>3, <1>4, <1>5, <1>6, <1>7

\* Lua gets an object from a command that was checked to its end.
LEMMA LuaStep ==
    ASSUME IInv, Tracks, [Next]_vars
    PROVE  \A n \in Symbol : lua'[n] # NoObj => lua'[n] \in checked'
<1> USE DEF IInv
<1>1. \A n \in Symbol : lua[n] # NoObj => lua[n] \in checked'
  BY CheckedGrows DEF Tracks, OnlyCheckedRuns
<1>2. CASE RunItem /\ Declares(cmd[at].item)
  <2>1. /\ phase = "run" /\ lua' = [lua EXCEPT ![cmd[at].item.name] = cmd[at].obj]
        /\ at \in 1 .. Len(cmd)
    BY <1>2, Elements DEF RunItem, TypeOK
  <2>2. cmd[at].obj # NoObj /\ Tracked(cmd[at].obj) /\ cmd[at].obj \in Ids
    BY <1>2, <2>1, Elements DEF Tracks, Watched
  <2>3. objs[cmd[at].obj].typ # "nil" /\ busy = <<>> /\ funcs = <<>>
    BY <2>1, <2>2 DEF Phases
  <2>4. ~InBusy(cmd[at].obj) /\ ~InFuncs(cmd[at].obj)
    BY <2>3, EmptySeq DEF InBusy, InFuncs
  <2>5. cmd[at].obj \in checked'
    BY <2>2, <2>3, <2>4, CheckedGrows DEF Tracked
  <2> QED BY <1>1, <2>1, <2>5 DEF TypeOK
<1>3. CASE ~(RunItem /\ Declares(cmd[at].item))
  <2>1. lua' = lua
    BY <1>3, Changes DEF RunItem
  <2> QED BY <1>1, <2>1
<1> QED BY <1>2, <1>3

\* Lua never has a variable whose initialization, or a function or method whose
\* body has not been checked, whatever rejected commands left behind
\* unchecked (check.go:190, 250-277).
THEOREM CheckedBeforeRun == Spec => []OnlyCheckedRuns
<1>1. Init => Tracks
  BY DEF Init, Tracks, OnlyCheckedRuns
<1>2. ASSUME IInv, Tracks, [Next]_vars
      PROVE  Tracks'
  <2>1. phase' # "ready" => \A i \in 1 .. Len(cmd') : Watched(i)'
    BY <1>2, WatchStep DEF Watched, Tracked, TrackedNext, InBusy, InBusyNext, InFuncs, InFuncsNext
  <2>2. OnlyCheckedRuns'
    BY <1>2, LuaStep DEF OnlyCheckedRuns
  <2> QED BY <2>1, <2>2 DEF Tracks
<1>3. Tracks => OnlyCheckedRuns
  BY DEF Tracks
<1> QED BY <1>1, <1>2, <1>3, Inductive, PTL DEF Spec
=============================================================================
