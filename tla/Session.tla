------------------------------- MODULE Session -------------------------------
(***************************************************************************)
(* A session of the REPL: what the type checker believes to be declared    *)
(* and what Lua has, command after command (compiler/incr.go, types/). The *)
(* checker lives as long as the session. A command is collected, resolved, *)
(* checked and ordered; if that succeeds its code is generated and run, in *)
(* the order of the source. An error of the checker panics through         *)
(* conf.Error at once, and nothing of what it did so far is undone.        *)
(*                                                                         *)
(* Packages, constants, types and all details of expressions are left out: *)
(* an expression is right by itself, wrong by itself, or refers to one     *)
(* name or method. Methods are those of one type, which the first command  *)
(* declared.                                                               *)
(***************************************************************************)
EXTENDS Integers, Sequences, FiniteSets

CONSTANTS Name,      \* the names of package level variables and functions
          Method,    \* the names of methods
          Good, Bad, \* expressions that refer to nothing
          Item,      \* the declarations and statements that are typed
          MaxItems,  \* bound: items of a command
          MaxObjs    \* bound: objects declared in a session

ASSUME NameAssumption == Name \cap Method = {} /\ {Good, Bad} \cap (Name \cup Method) = {}
ASSUME GoodAssumption == Good # Bad
\* var (typed: with its type given), func, method, short (x := e), and expr,
\* whose name is not used.
ASSUME ItemAssumption ==
    /\ Item \subseteq [kind : {"var", "func", "method", "short", "expr"},
                       name : Name \cup Method,
                       ref : Name \cup Method \cup {Good, Bad},
                       typed : BOOLEAN]
    /\ \A it \in Item : it.name \in Method <=> it.kind \in {"method", "expr"}
ASSUME BoundAssumption == MaxItems \in Nat /\ MaxObjs \in Nat

VARIABLES objs,     \* all types.Objects made so far; the other variables hold
                    \* indices of it, 0 for none
          scope,    \* package scope, and the methods of the type
          ObjMap,   \* the set of the objects that have a DeclInfo
          phase,    \* of the command: where Checker.checkFiles is
          cmd,      \* the items of the command, with their objects
          at,       \* in the phases "methods" and "run": the next item
          busy,     \* calls of varDecl under way, the last one on top
          funcs,    \* bodies to be checked by functionBodies
          lua,      \* the globals of the Lua VM
          doubtful, \* history: names that a command declared but did not define
          blamed,   \* history: objects whose declaration was reported
          checked   \* history: objects whose initialization or body was checked

vars == <<objs, scope, ObjMap, phase, cmd, at, busy, funcs, lua, doubtful, blamed, checked>>

Symbol == Name \cup Method
NoObj  == 0
Ids    == 1 .. Len(objs)
Object == [item : Item, typ : {"nil", "ok", "invalid"}, visited : BOOLEAN, dep : Nat, order : Nat]

TypeOK ==
    /\ objs \in Seq(Object)
    /\ \A o \in Ids : objs[o].dep \in Ids \cup {NoObj}
    /\ scope \in [Symbol -> Ids \cup {NoObj}]
    /\ ObjMap \subseteq Ids
    /\ phase \in {"ready", "collect", "stmt", "methods", "resolve", "bodies", "order", "run"}
    /\ cmd \in Seq([item : Item, obj : Ids \cup {NoObj}])
    /\ at \in 1 .. Len(cmd) + 1
    /\ busy \in Seq(ObjMap)
    /\ \A i, j \in 1 .. Len(busy) : busy[i] = busy[j] => i = j
    /\ funcs \in Seq(Ids)
    /\ lua \in [Symbol -> Ids \cup {NoObj}]
    /\ doubtful \subseteq Symbol
    /\ blamed \subseteq Ids
    /\ checked \subseteq Ids

Init ==
    /\ objs = <<>>
    /\ scope = [n \in Symbol |-> NoObj]
    /\ ObjMap = {}
    /\ phase = "ready"
    /\ cmd = <<>>
    /\ at = 1
    /\ busy = <<>>
    /\ funcs = <<>>
    /\ lua = [n \in Symbol |-> NoObj]
    /\ doubtful = {}
    /\ blamed = {}
    /\ checked = {}

-----------------------------------------------------------------------------
Top(s) == s[Len(s)]
Pop(s) == SubSeq(s, 1, Len(s) - 1)
IsVar(o) == objs[o].item.kind \in {"var", "short"}
Declares(it) == it.kind # "expr"

\* The names that items i to j of the command declare.
Names(i, j) == {cmd[k].item.name : k \in {k \in i .. j : Declares(cmd[k].item)}}

\* What is being checked: an initialization, a statement or a body.
Checking ==
    \/ busy # <<>>
    \/ phase = "stmt"
    \/ phase = "bodies" /\ funcs # <<>>

\* check.decl: the object that is being declared, if one is.
Decl == IF busy # <<>> THEN Top(busy)
        ELSE IF phase = "bodies" THEN Head(funcs) ELSE NoObj

Ref == IF Decl # NoObj THEN objs[Decl].item.ref ELSE Top(cmd).item.ref

\* The object that the expression refers to. addDeclDep notes it if it is
\* one of ObjMap.
Used   == IF Ref \in Symbol THEN scope[Ref] ELSE NoObj
NewDep == IF Used \in ObjMap THEN Used ELSE objs[Decl].dep

NewObj(it, typ) ==
    [item |-> it, typ |-> typ, visited |-> FALSE, dep |-> NoObj,
     order |-> IF typ = "nil" THEN Cardinality(ObjMap) + 1 ELSE 0]

\* TrWithPrepend recovers the panic of the checker or of the generator.
Reject ==
    /\ phase' = "ready"
    /\ busy' = <<>>
    /\ doubtful' = doubtful \cup Names(1, Len(cmd))

-----------------------------------------------------------------------------
\* IncrementallyCompile is called; initFiles.
Begin ==
    /\ phase = "ready"
    /\ phase' = "collect"
    /\ cmd' = <<>>
    /\ at' = 1
    /\ funcs' = <<>>
    /\ UNCHANGED <<objs, scope, ObjMap, busy, lua, doubtful, blamed, checked>>

\* Defect: the object in scope stays, as with Scope.Insert.
Replace_Insert(n, o) == [scope EXCEPT ![n] = IF @ = NoObj THEN o ELSE @]

\* Scope.Replace: a name can be declared again at the REPL.
Replace(n, o) == [scope EXCEPT ![n] = o]

\* The next declaration of the command. Methods wait for packageObjects.
CollectDecl(it) ==
    LET o == Len(objs) + 1 IN
    /\ phase = "collect"
    /\ Len(cmd) < MaxItems
    /\ o <= MaxObjs
    /\ it.kind \in {"var", "func", "method"}
    /\ objs' = Append(objs, NewObj(it, "nil"))
    /\ ObjMap' = ObjMap \cup {o}
    /\ scope' = IF it.kind = "method" THEN scope ELSE Replace(it.name, o)
    /\ cmd' = Append(cmd, [item |-> it, obj |-> o])
    /\ UNCHANGED <<phase, at, busy, funcs, lua, doubtful, blamed, checked>>

\* The next statement of the command: it is checked at once.
CollectStmt(it) ==
    /\ phase = "collect"
    /\ Len(cmd) < MaxItems
    /\ it.kind \in {"short", "expr"}
    /\ Declares(it) => Len(objs) < MaxObjs
    /\ cmd' = Append(cmd, [item |-> it, obj |-> NoObj])
    /\ phase' = "stmt"
    /\ UNCHANGED <<objs, scope, ObjMap, at, busy, funcs, lua, doubtful, blamed, checked>>

\* Defect: the bodies to be checked are cleared after the statements.
EndCollect_Clears ==
    /\ phase = "collect"
    /\ cmd # <<>>
    /\ phase' = "methods"
    /\ funcs' = <<>>
    /\ UNCHANGED <<objs, scope, ObjMap, cmd, at, busy, lua, doubtful, blamed, checked>>

EndCollect ==
    /\ phase = "collect"
    /\ cmd # <<>>
    /\ phase' = "methods"
    /\ UNCHANGED <<objs, scope, ObjMap, cmd, at, busy, funcs, lua, doubtful, blamed, checked>>

\* addMethodDecls: the type gets the method, in place of one of that name,
\* which leaves ObjMap.
AddMethodDecl ==
    LET c == cmd[at] IN
    /\ phase = "methods"
    /\ at <= Len(cmd)
    /\ at' = at + 1
    /\ IF c.item.kind = "method"
       THEN /\ ObjMap' = ObjMap \ {scope[c.item.name]}
            /\ scope' = Replace(c.item.name, c.obj)
            /\ objs' = [objs EXCEPT ![c.obj].typ = "ok"]
            /\ funcs' = Append(funcs, c.obj)
       ELSE UNCHANGED <<objs, scope, ObjMap, funcs>>
    /\ UNCHANGED <<phase, cmd, busy, lua, doubtful, blamed, checked>>

EndMethods ==
    /\ phase = "methods"
    /\ at > Len(cmd)
    /\ phase' = "resolve"
    /\ at' = 1
    /\ UNCHANGED <<objs, scope, ObjMap, cmd, busy, funcs, lua, doubtful, blamed, checked>>

\* Defect: a variable counts as visited once its declaration was checked.
Visited_Late(o) == FALSE

\* varDecl was called for this object before.
Visited(o) == objs[o].visited

\* objDecl of an object without a type. A function has its type at once;
\* a variable that is visited twice is part of a cycle, or its declaration
\* was reported in an earlier command, and becomes invalid.
ObjDecl(o) ==
    /\ UNCHANGED <<scope, ObjMap, phase, cmd, at, lua, doubtful, blamed, checked>>
    /\ IF ~IsVar(o)
       THEN /\ objs' = [objs EXCEPT ![o].typ = "ok"]
            /\ funcs' = Append(funcs, o)
            /\ UNCHANGED busy
       ELSE IF Visited(o)
       THEN /\ objs' = [objs EXCEPT ![o].typ = "invalid"]
            /\ UNCHANGED <<busy, funcs>>
       ELSE /\ objs' = [objs EXCEPT ![o] =
                          [@ EXCEPT !.visited = TRUE, !.typ = IF objs[o].item.typed THEN "ok" ELSE "nil"]]
            /\ busy' = Append(busy, o)
            /\ UNCHANGED funcs

Unresolved == {o \in ObjMap : objs[o].typ = "nil"}

\* packageObjects: all objects of ObjMap, in source order, whatever command
\* they come from.
ResolveNext ==
    /\ phase = "resolve"
    /\ busy = <<>>
    /\ \E o \in Unresolved :
          /\ \A p \in Unresolved : objs[o].order <= objs[p].order
          /\ ObjDecl(o)

EndResolve ==
    /\ phase = "resolve"
    /\ busy = <<>>
    /\ Unresolved = {}
    /\ phase' = "bodies"
    /\ UNCHANGED <<objs, scope, ObjMap, cmd, at, busy, funcs, lua, doubtful, blamed, checked>>

\* An identifier is met whose object is not resolved yet.
DeclareUsed ==
    /\ Checking
    /\ Used # NoObj
    /\ objs[Used].typ = "nil"
    /\ ObjDecl(Used)

\* An error in what is being checked.
Error ==
    /\ Checking
    /\ Ref = Bad \/ (Ref \in Symbol /\ scope[Ref] = NoObj)
    /\ Reject
    /\ blamed' = blamed \cup (IF Decl = NoObj THEN {} ELSE {Decl})
    /\ UNCHANGED <<objs, scope, ObjMap, cmd, at, funcs, lua, checked>>

\* What is being checked has no error: its variable gets its type. If what
\* it refers to is invalid so is the variable, and nothing is reported.
Result == IF Used # NoObj /\ objs[Used].typ = "invalid" THEN "invalid" ELSE "ok"

Right == Checking /\ (Ref = Good \/ (Used # NoObj /\ objs[Used].typ # "nil"))

VarChecked ==
    LET d == objs[Decl] IN
    /\ Right
    /\ busy # <<>>
    /\ objs' = [objs EXCEPT ![Decl] =
                   [d EXCEPT !.dep = NewDep, !.typ = IF d.item.typed THEN d.typ ELSE Result]]
    /\ busy' = Pop(busy)
    /\ checked' = checked \cup {Decl}
    /\ UNCHANGED <<scope, ObjMap, phase, cmd, at, funcs, lua, doubtful, blamed>>
BodyChecked ==
    /\ Right
    /\ phase = "bodies"
    /\ objs' = [objs EXCEPT ![Decl].dep = NewDep]
    /\ funcs' = Tail(funcs)
    /\ checked' = checked \cup {Decl}
    /\ UNCHANGED <<scope, ObjMap, phase, cmd, at, busy, lua, doubtful, blamed>>
StmtChecked ==
    LET it == Top(cmd).item
        o  == Len(objs) + 1 IN
    /\ Right
    /\ phase = "stmt"
    /\ busy = <<>>
    /\ phase' = "collect"
    /\ IF Declares(it)
       THEN /\ objs' = Append(objs, NewObj(it, Result))
            /\ scope' = Replace(it.name, o)
            /\ cmd' = [cmd EXCEPT ![Len(cmd)].obj = o]
            /\ checked' = checked \cup {o}
       ELSE UNCHANGED <<objs, scope, cmd, checked>>
    /\ UNCHANGED <<ObjMap, at, busy, funcs, lua, doubtful, blamed>>

EndBodies ==
    /\ phase = "bodies"
    /\ funcs = <<>>
    /\ phase' = "order"
    /\ UNCHANGED <<objs, scope, ObjMap, cmd, at, busy, funcs, lua, doubtful, blamed, checked>>

\* dependencyGraph dereferences the node of every dependency.
DanglingDep == \E o \in ObjMap : objs[o].dep \notin ObjMap \cup {NoObj}

\* A cycle of the graph, and no more than that: each object has one dependency
\* at most.
Closed(S)  == \A o \in S : objs[o].dep \in S /\ \E p \in S : objs[p].dep = o
IsCycle(S) == S # {} /\ Closed(S) /\ \A T \in SUBSET S : T # {} /\ Closed(T) => T = S

\* The cycles with a variable, whose initialization depends on itself.
InitCycles == {S \in SUBSET ObjMap : IsCycle(S) /\ \E o \in S : IsVar(o)}

\* The generator may or may not fail on what has no valid type.
HasInvalid ==
    \E i \in 1 .. Len(cmd), o \in Ids :
       /\ objs[o].typ = "invalid"
       /\ o = cmd[i].obj \/ (cmd[i].item.ref \in Symbol /\ o = scope[cmd[i].item.ref])

\* initOrder and the code generator; the code is handed to Lua. A cycle is
\* reported by initOrder, with this command and all that follow.
InitOrderFails ==
    /\ phase = "order"
    /\ \/ DanglingDep /\ UNCHANGED blamed
       \/ ~DanglingDep /\ \E S \in InitCycles : blamed' = blamed \cup S
       \/ ~DanglingDep /\ InitCycles = {} /\ HasInvalid /\ UNCHANGED blamed
    /\ Reject
    /\ UNCHANGED <<objs, scope, ObjMap, cmd, at, funcs, lua, checked>>
InitOrder ==
    /\ phase = "order"
    /\ ~DanglingDep
    /\ InitCycles = {}
    /\ phase' = "run"
    /\ UNCHANGED <<objs, scope, ObjMap, cmd, at, busy, funcs, lua, doubtful, blamed, checked>>

-----------------------------------------------------------------------------
\* Defect: x := e at the top level makes a local variable, as in a function.
RunItem_Local ==
    LET c == cmd[at] IN
    /\ phase = "run"
    /\ at <= Len(cmd)
    /\ at' = at + 1
    /\ lua' = IF c.item.kind = "expr" \/ c.item.kind = "short" THEN lua
              ELSE [lua EXCEPT ![c.item.name] = c.obj]
    /\ UNCHANGED <<objs, scope, ObjMap, phase, cmd, busy, funcs, doubtful, blamed, checked>>

\* Lua runs the next item.
RunItem ==
    LET c == cmd[at] IN
    /\ phase = "run"
    /\ at <= Len(cmd)
    /\ at' = at + 1
    /\ lua' = IF Declares(c.item) THEN [lua EXCEPT ![c.item.name] = c.obj] ELSE lua
    /\ UNCHANGED <<objs, scope, ObjMap, phase, cmd, busy, funcs, doubtful, blamed, checked>>

\* The code has come to its end, or an error in the next item ends it.
EndRun ==
    /\ phase = "run"
    /\ at <= Len(cmd) => cmd[at].item.kind \in {"var", "short", "expr"}
    /\ phase' = "ready"
    /\ doubtful' = (doubtful \ Names(1, at - 1)) \cup Names(at, Len(cmd))
    /\ UNCHANGED <<objs, scope, ObjMap, cmd, at, busy, funcs, lua, blamed, checked>>

Next ==
    \/ Begin
    \/ \E it \in Item : CollectDecl(it) \/ CollectStmt(it)
    \/ EndCollect \/ AddMethodDecl \/ EndMethods
    \/ ResolveNext \/ EndResolve \/ DeclareUsed \/ Error
    \/ VarChecked \/ BodyChecked \/ StmtChecked \/ EndBodies \/ InitOrderFails \/ InitOrder
    \/ RunItem \/ EndRun

Spec == Init /\ [][Next]_vars

-----------------------------------------------------------------------------
\* Between commands the checker and Lua agree on every name, unless the last
\* command that declared it was rejected or ended before its definition ran
\* (resolver.go:236-500, incr.go:300-600).
Agreement ==
    phase = "ready" => \A n \in Symbol : n \in doubtful \/ scope[n] = lua[n]

\* Checking reports no declaration that was reported before, as an error or in
\* a cycle: a variable or function of a rejected command does not have the
\* commands after it rejected (decl.go:264, check.go:190). Nothing of the kind
\* holds of initOrder, which reports a cycle with every later command.
CheckedOnce == [][Error => Decl \notin blamed]_vars

\* Whatever Lua has, its initialization or body was checked. A rejected command
\* leaves bodies in scope that are never checked (check.go:190), and later
\* commands may call them, but Lua gets none of them (check.go:250-277).
OnlyCheckedRuns ==
    \A n \in Symbol : lua[n] # NoObj => lua[n] \in checked

\* A command that Lua runs reads only names that Lua has, except those that
\* an earlier command failed to define and those that the command itself
\* defines further down (incr.go:300-600).
ReadsDefined ==
    phase = "run" /\ at <= Len(cmd) =>
       LET it == cmd[at].item IN
       it.kind \in {"var", "short", "expr"} /\ it.ref \in Symbol =>
          \/ lua[it.ref] # NoObj
          \/ it.ref \in doubtful \cup Names(at, Len(cmd))

\* "Functions and methods can now be re-defined at the REPL" (README.md:1202).
\* In a session without errors, a correct definition of a function or method
\* is not rejected.
RedefinitionAllowed ==
    [][phase # "run" /\ phase' = "ready" /\ doubtful = {} /\ Len(cmd) = 1
       => ~(cmd[1].item.kind \in {"func", "method"} /\ cmd[1].item.ref = Good)]_vars
=============================================================================
