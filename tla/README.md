# gijit: goroutines, channels and select in Lua, specified

gijit is a Go interpreter. A REPL reads Go, an incremental compiler written in
Go type-checks it and translates it to Lua, and LuaJIT runs the Lua on top of a
runtime written in Lua, the *prelude*. These modules specify the parts of it in
which things happen concurrently or in an order nobody chose: the prelude's
goroutine scheduler and its channels first of all; the graph of types that
decides in which order their code is generated, which users extend in any
order; the REPL's session, in which the type checker outlives the commands it
rejects; and its command history, which has to survive removals, kills and a
second session. With them go the parts of the runtime whose state is shared
behind the program's back: slices that have an array in common, and the one
variable through which every panic passes; and the goroutines of Go that share
one Lua VM.

## The system and its parts

| Part | Where | State | Operations | Talks to |
|---|---|---|---|---|
| Scheduler, goroutines, channels, select | `pkg/compiler/prelude/chan.lua`, `__eval` in `prelude/tsys.lua` | `tasks_runnable`, `tasks_to`, the status of every coroutine; per channel a buffer and two Sets of waiting alts; per blocked select its `alt_array` | `__eval`, `spawn`, `send`, `recv`, `recv(to)`, `nbsend`, `nbrecv`, `select`, `close`, `scheduler`, `__task_ready`, `task_park` | called by compiled Go code and by the REPL |
| CircularBuffer | `chan.lua:195` | `b`, `l`, `r` | `push`, `pop`, `len` | a buffered channel |
| Set of alts | `chan.lua:150` | `l`, `a` | `add`, `remove`, `random`, `len` | both sides of a channel |
| Coroutine registry | `chan.lua:85-121` | `__all_coro`, `__coro2notes` | insert, `__cleanupDeadCoro` | displays only |
| Goro | `goro.go`, `luaUtil.go` | ticket channel, halter, `started`, the Lua VM | `Start`, `Do`, `handleTicket`, `privateRun`, close | REPL, incremental compiler, imports |
| Main thread queue | `repl_luajit.go:30-95` | `mainQ`, `mainShutdown` | `doMainWait`, `doMainAsync`, `MainCThread` | Goro when the main thread is reserved |
| REPL and history | `repl_luajit.go`, `repl_util.go` | history in memory, history file, session marker, mode | `Read`, `Eval`, `:rm`, `:clear`, `:n`, `:n-m` | Goro, history file |
| Type dependency graph | `depend.go`, `prelude/dfs.lua` | nodes, children, visited, made, order, stale | `newDfsNode`, `addChild`, `hasCycle`, `doDFS`, `genCode` | compiler, type system |
| defer, panic, recover | `prelude/defer.lua` | deferred calls, `__recoverVal` | `__actuallyCall`, `__panicHandler`, `__processDefers`, `panic`, `recover` | compiled functions, goroutines |
| Slices | `prelude/tsys.lua:690-900` | slice headers, arrays they share | `__makeSlice`, `__subslice`, `__append`, `__copySlice`, writes | compiled code |
| sync natives | `natives/src/sync/*.go` | counters, wait lists, channels | `WaitGroup`, `Cond`, semaphores, `Pool` | channels |
| Other runtime data | `prelude/tsys.lua`, `int64.lua` | maps, structs, types | map access, conversions | compiled code |
| Incremental compiler | `incr.go`, `build.go`, `package.go`, `translate.go`, `statements.go`, `expressions.go` | the archive with the checker of the session | `Tr`, `IncrementallyCompile` | type checker, Goro |
| Type checker | `pkg/types` | package scope, `ObjMap`, types of objects, bodies still to be checked | `checkFiles`: collect, resolve, check bodies, initialization order | incremental compiler |
| Front end | `pkg/ast`, `pkg/parser` and others | syntax trees | forks of the Go standard library | compiler |
| Vendored and inherited code | `src/vendor`, most of `natives/src` | | | |

How they interact: the REPL hands every input to the compiler and the resulting
Lua text to the Goro, whose `privateRun` calls `__eval` in Lua. `__eval` puts
the code on a coroutine of its own, makes it runnable and resumes the
scheduler's coroutine. The scheduler resumes runnable coroutines in random
order until there are none, looks for timeouts that have expired, and yields
back to `__eval`, which returns to the REPL. Goroutines that wait for a channel
stay behind, in the queues of their channels, until a later evaluation brings a
partner.

### What is hard about it

* A blocked select is in the queues of several channels at once. Whoever finds
  it through one of them must complete exactly one case, take the others away,
  and make it runnable once.
* Whether a case can proceed is asked before the alts are queued. Nothing may
  become possible in between, or it would be waited for although it is there.
* A buffered channel that is full has waiting senders behind its buffer: a
  receive takes the oldest value and moves a sender up.
* Timeouts are looked at only when nothing is runnable, and race with partners
  that come first.
* `close` and panics happen in the middle of all this.
* Several coroutines, and one place in which control can be: the scheduler may
  die, and with it everything that is still to be run.
* The type graph grows between two generations of code, and an edge that closes
  a cycle is backed out in the middle of the search that found it. Three
  searches share flags that outlive them.
* The checker reports an error by a panic out of the middle of its work, and is
  used again for the next command with all that it had noted by then.
* `copy` and `append` work within one array that other slices see, element by
  element, in the right direction or not.
* A Go `int` is a boxed int64 in LuaJIT: equal to a number, but not the same
  key of a table. Some places of the runtime convert it and some do not.
* All goroutines unwind through one variable, `__recoverVal`, inside error
  handlers that LuaJIT does not call while another one runs.
* A Lua VM takes one thread at a time, but is used by the REPL, by the owner
  that closes it, and by imports from inside its own code, without a lock.
* The history is in memory, in a file and, as a marker, in a count of lines; the
  file is removed and written anew while it may be open elsewhere, and a kill
  can come between any two of the system calls.

### What makes each part correct

| Part | Properties |
|---|---|
| Scheduler and channels | nobody waits for what is there; a select completes one case and leaves nothing behind; every wake-up is delivered; an evaluation returns |
| CircularBuffer, Set of alts | first in, first out, at every wrap-around; the list and the table hold just the members |
| Type dependency graph | no cycles, and none but cycles refused; code once, complete and dependencies first, over any number of generations |
| History | marker, memory and file agree; nothing removed comes back; nothing entered is lost |
| Goro, main thread queue | one user of the VM at a time; every call returns; closing ends, and no VM is left open |
| Session: compiler and checker | checker and Lua agree on what is declared; nothing runs unchecked; an error that a check has found does not come back with later commands |
| Slices | who shares with whom, and what a copy reads, is as in Go, and no slot in reach is unset: until an element is lost to an int64 |
| defer, panic, recover | a deferred call sees the panic of its own call; a panic goes on exactly when it was not recovered: until something happens that the code is known to get wrong |
| sync natives | the counter never negative; waiters released once, all of them |
| Maps | keys and nil survive the encoding |
| Translation, front end | the Lua text means what the Go text means (not a property of states) |

`PROJECT.json` lists these hazards at their lines, with the properties that
watch them.

## The modules

| Module | Models | Corresponds to |
|---|---|---|
| `Task` | scheduler, goroutines, channels, select, close, timeouts, evaluation | `chan.lua`, `__eval`, `__gijitMainEval` |
| `GoSelect` | the abstract promise: goroutines that wait on sets of offers, one communication completes one case of each party | what Go says of select, before close |
| `CircularBuffer` | the ring buffer with the guards of its callers | `chan.lua:195-218` |
| `BoundedFIFO` | the abstract promise of the ring buffer | |
| `AltSet` | the list and table of waiting alts | `chan.lua:150-190` |
| `TypeGraph` | the graph of types: nodes, edges with the check for cycles, the order, the code written | `depend.go` |
| `History` | sessions of the REPL with their history, its marker and the file they share | `repl_luajit.go`, `repl_util.go` |
| `Session` | the session of the REPL as the checker and as Lua see it, command after command | `pkg/types`, `incr.go`, `translate.go` |
| `Slices` | slice headers and arrays, the copying loop step by step | `tsys.lua:690-900`, `2750` |
| `GoSlices` | the abstract promise: slices as sequences of shared cells, each operation at once | what Go says of slices |
| `Defer` | calls with deferred calls, of several goroutines | `defer.lua` |
| `Goro` | who runs on the Lua VM: the REPL, the owner, the main thread, from creating to closing | `goro.go`, `luaUtil.go:45-110`, `repl_luajit.go:29-93`, `import.go:162-314` |
| `Containers` | runs one of the two containers, or the other, so that one run checks both | |
| `MCTask`, `MCTypeGraph`, `MCSlices`, `MCSession` | statements, inputs, bounds and symmetry for TLC | |
| `Task_proofs`, `Containers_proofs`, `TypeGraph_proofs`, `History_proofs`, `Slices_proofs`, `Defer_proofs`, `Session_proofs`, `Goro_proofs` | theorems | |

`Task` composes what it is made of by their promises: it uses a sequence where
the code has a `CircularBuffer`, which implements `BoundedFIFO`, and a set where
the code has a Set of alts; and it implements `GoSelect`. The other modules share no state with it or with
each other. In particular the panics of `Task` are those that leave a goroutine:
what happens to them before is the business of `Defer`.

### Task

One step is what a coroutine does between two points at which control changes
hands or the rest of the system can be observed; Lua coroutines are not
preempted, so that is exact. `sched` is the status of the scheduler's
coroutine: *suspended* when the REPL has control, *running*, *normal* while it
has resumed Go code, and *dead*. `status` is the same for each coroutine.
`ready` counts occurrences in `tasks_runnable` (its order never matters: the
scheduler draws at random). `timer` holds the keys of `tasks_to`. An alt is a
record of its `alt_array`, named by the coroutine and the number of its select
statement, its place and its channel; `queued` is the union of all Sets of
alts. `sel` is the `alt_array` a coroutine is blocked in, with `resolved` and
`value`. `got` is what its latest select returned to the Go code.

| Action | Code |
|---|---|
| `Eval` | `__eval`: new coroutine, `__task_ready`, `__resume_scheduler` |
| `Resume`, `ResumeParked`, `ResumeUnresolved`, `ResumeDead` | one turn of the scheduler's loop, by what the resumed coroutine does first |
| `SchedulerYield` | the loop ends, expired timeouts are executed, `background_scheduler` yields |
| `Spawn`, `Return`, `Panic` | `spawn`, the end of a coroutine, an error in one |
| `SelectReady` | `select_inner` finds cases that can be executed and picks one: `altexec`, `altcopy`, `altalldequeue` |
| `SelectDefault`, `SelectBlock`, `SelectForever` | its three other ends |
| `Close` | `Channel.close` |

What Go code does between these steps is arbitrary: any statement of `Stmt` at
any time. A value sent is named by who sent it, in which statement and case, so
that losing, duplicating or mixing up values shows. Random choices are
nondeterministic; time is the choice of which timeouts have expired.

### TypeGraph

`children` is an edge list per node, in the order of `addChild`; `order`,
`stale`, `visited` and `made` are the code's own; `out` is the code written so
far, by node. The three recursive functions `hasCycleHelper`, `dfsHelper` and
`makeRequiredTypes` are one depth-first search, with `stack` for the calls that
are active (a node and the place among its children), `roots` for the
loop outside and `mode` for which of the three it is: *cycle*, *order* or
*gen*. A step enters a root (`NextRoot`) or a child (`NextChild`), returns from
a call (`Finish`) or from the whole search (`Done`).

| Action | Code |
|---|---|
| `NewNode`, `AddChild` | `newDfsNode`; `addChild` up to `hasCycle` |
| `CycleFound` | an ancestor is met: the edge is taken out again, and `addChild` panics |
| `GenCode` | `genCode`, through `doDFS` if the order is stale |
| `NextRoot`, `NextChild`, `Finish`, `Done` | the searches |
| `Reset` | `reset` |

The map of ancestors that all calls of `hasCycleHelper` share is `Ancestors`,
computed from the stack: each call adds its node and removes it again.

### History

A session is a process that may be started again, up to `MaxStarts` times in
all, and stopped or killed at any step. It has what `Repl` has: the history,
the marker `sessionStartAfter`, an open file, the raw mode, and the lines of an
incomplete statement. The disk has files and one name: `:rm` takes the name
away from a file that other sessions may have open, so that there can be files
without a name. A file is the sequence of its lines; a handle has O_APPEND or
an offset, in lines. Each line carries, for the properties only, which session
entered it.

| Action | Code |
|---|---|
| `Start`, `Open` | `NewRepl`: read the history, set the marker, open for append |
| `Stop` | the end of `Loop`, or a kill |
| `TypeLine`, `SourceFile`, `Replay`, `Command`, `RawMode` | what `Read` returns to `Eval` |
| `RemoveLines`, `Create`, `Rewrite` | `:rm`, a step for each system call |
| `Clear` | `:clear` |
| `Incomplete`, `Refuse`, `Accept`, `Write` | `Eval`: wait for more, drop, add to memory, write line by line |

Whether lines are a complete statement, and whether the compiler takes them, is
a nondeterministic choice. A command that is done returns an empty source to
`Eval`, as the code does: in raw mode that is a blank line in the history.

### Session

`objs` are the objects of the checker, in the order in which they were made, each
with what was typed for it, its type (not yet known, known, or invalid), its
flag `visited` and the object it depends on. `scope` and `ObjMap` are the
checker's, `lua` is the same for the VM: which object's definition a global
holds. A command is entered item by item: a variable, function, method, short
variable declaration or expression, each right or wrong by itself or referring
to one name or method.

| Action | Code |
|---|---|
| `Begin`, `CollectDecl`, `CollectStmt`, `EndCollect` | `initFiles`, `collectObjects`: declarations enter scope and `ObjMap` at once, statements are checked on the way |
| `AddMethodDecl`, `EndMethods` | `packageObjects`, `addMethodDecls`: a method replaces one of its name, which leaves `ObjMap` |
| `ResolveNext`, `DeclareUsed`, `VarChecked`, `EndResolve` | `objDecl`, called for every object in turn and for every identifier that is met; `busy` has the calls of `varDecl` under way |
| `BodyChecked`, `EndBodies` | `functionBodies` |
| `StmtChecked` | `shortVarDecl`, `rawExpr` |
| `Error` | `conf.Error` panics, `TrWithPrepend` recovers: the command is over, and scope, `ObjMap`, types and flags stay as they are |
| `InitOrder`, `InitOrderFails` | `initOrder`, which reports a cycle each time, and the generator |
| `RunItem`, `EndRun` | the Lua text runs, item after item, to its end or to an error |

`doubtful` is history: the names that a command declared without having defined
them. A rejected command makes names doubtful, a command that runs past their
definition makes them certain again. `blamed` and `checked` are history as well: the
objects that an error or a cycle was reported for, and those whose initialization
or body was checked to its end. A body that a rejected command left behind is in
scope without being in `checked`. The REPL translates a rejected command a second
time (`repl_util.go:30-36`); in the model that is one more command with the same
items.

### Slices

`slice` has the header of each slice variable, `heap` the slots of each array and
of the table of arguments, `loop` the call of `__copyArray` under way. `Make`,
`Literal`, `Reslice`, `Write` are `__makeSlice`, a literal, `__subslice` and
`__newindex`; `Copy`, `AppendArgs`, `AppendSlice` begin a loop, `CopyElement`
is one turn of it and `Return` its end. An array that no slice has any more is
garbage and can be used again. Two checks that the runtime lacks are
preconditions: `s[low:]` with `low` past the length, and an index between length
and capacity. Arrays are Lua tables, as `make`, literals and `append` create them;
slices of Go arrays (`a[:]`) are left out.

`boxed` says which numbers of a header are int64 objects. A bound that is an int
and not a constant (`expressions.go:731-742`) is one, and `__subslice` computes
with it as it is. Length and capacity inherit from `low`, and all three from the
slice that is cut (`Reslice`). Where the code converts and where it does not is
kept apart:

| | Code | Model |
|---|---|---|
| converted | the index and the offset of a write (1063), the count of a copy (733), the sizes of `make` (2755-2761) | `Write`, `CopyArray`, `Make` |
| not converted | the offset of a read (1090, 1098), which gives nil | `Element` |
| | the offsets of a copy (758, 764): the source reads nil, the target is lost | `Stored` |
| | the elements that growth moves (879), which read nil | `Moved` |
| | the limits of the loops of growth (877): an error | `GrowthFails` |

`clean`, history, is true until the first element is lost in one of these ways or
by storing the nil that such a read returned. Slices with int64 numbers take part
in everything up to then, and what they cannot do any harm to (a length, a
write, a copy of nothing) does not end it.

### Defer

A goroutine has a stack of frames: calls of functions with deferred calls, in
their body, in `__panicHandler` or in `__processDefers`, and the deferred calls
that these run. `panic`, in a frame, is history: the panic that the call is
unwinding with according to Go. `recoverVal` is `__recoverVal`.

| Action | Code |
|---|---|
| `Call`, `Defer`, `Return` | `__actuallyCall`, `__defers[1+#__defers] = ...`, the body returns |
| `Panic`, `RuntimeError` | `panic`, which notes its value itself, and an error of the runtime, which only a handler notes; both `Throw`: `__panicHandler` or `__handler2` is called, or skipped |
| `BeginDeferred`, `EndDeferred` | `xpcall(defers[__i], __handler2)` |
| `Recover` | `recover` where `__isDirectDefer` says so |
| `Finish` | the end of `__processDefers`, which throws again what was not recovered |
| `Switch` | a goroutine yields; none can inside an error handler |

`errerr` is LuaJIT's status `LUA_ERRERR`, for each goroutine: an error handler runs
and nothing was thrown since it was called. What is thrown then goes to the
nearest `xpcall` without its handler (`src/vendor/github.com/LuaJIT/LuaJIT/src/lj_err.c:612-614`). The deferred
calls of a call that panicked run in a handler; a call made by one of them that
panics itself therefore ends without its own deferred calls.

`clean` is history, too: it becomes false when something happens that the code
handles in a way that differs from Go, and the properties are about what comes
before. There are five such things (`Mishandled`, `RuntimeError`, `Call`):

* a panic that nobody recovers leaves `__recoverVal` set;
* a deferred call that panics after a normal return is dropped;
* a call from a deferred call of a call that panicked finds that panic;
* a call with deferred calls that panics while no handler is called loses them,
  so that none of them can recover it;
* an error of the runtime while no handler is called is not noted in
  `__recoverVal`: after a `recover` it is lost, and before one the old panic goes
  on in its place.

### Goro

Three threads of control, one step at a time each: the REPL (`pc`, and `cur`, the
VM it created last), the owner of each VM (`owner`, the place in `Goro.Start`) and
the main thread (`main`), which is the REPL itself in a build without
`reserveMainThread` and the loop of `MainCThread` in one with. `reserve` is that
constant: both builds are initial states. `depth` counts the tickets that are
open, `imports` bounds what the code of one imports. `stopping` and `finished`
are the two channels of the halter, `freed` the VMs that were closed.

| Action | Code |
|---|---|
| `Create`, `TakeOwner`, `Start` | `NewLuaVmWithPrelude`: `doMainAsync` and `MainCThread`, or `go`; `Goro.Start` |
| `Do`, `TakeTicket`, `EndTicketByOwner`, `Answer` | `do` with a reserved main thread: `r.doticket <- t`, `handleTicket`, `<-t.done` |
| `Do`, `EndTicket` | `do` without: `handleTicket` at once |
| `Import`, `ImportByOwner` | Lua code imports a package: `RunTimeGiImportFunc` runs a ticket within the ticket |
| `UseDirectly`, `EndDirectly` | `EnableImportsFromLua`, `LuaIsNil`: the VM without a ticket |
| `RequestStop`, `Stop`, `CloseVm`, `MarkDone`, `Closed` | `LuaVm.Close` and the end of `Start` |
| `Finish`, `MainEnds` | the end of `LuajitMain` |

## The runs

| Run | What it shows |
|---|---|
| `containers` | the ring buffer implements a bounded FIFO (`RefinesFIFO`) and never returns an unset slot (`LiveSlotsSet`); list and table of the Set of alts agree with the members after any additions and removals (`HoldsMembers`) |
| `task_core` | evaluated code and two goroutines, an unbuffered and a buffered channel, eight statements: nobody waits for what is there (`NoMissedRendezvous`), a resolved select stays as it is (`ResolvedOnce`); `Task` implements `GoSelect` (`RefinesGoSelect`), with the refinement mapping that reads the waiting offers off the blocked selects and not off the queues |
| `task_live` | timed receives, selects over both channels, `close` and a panic over two evaluations: a waiting select is queued as a whole (`AllAltsQueued`) with its timeout armed (`TimerArmed`), no wake-up is lost (`NoLostWakeup`); until the first close nothing stale stays queued and a coroutine is runnable exactly when it should be, whatever panics (`IntactUntilClosed`); evaluated code has run when the REPL is back (`EvalHasRun`); woken goroutines run (`WokenRuns`), and every evaluation returns (`EvalReturns`) |
| `type_graph` | every order of adding nodes and edges and of generating code, over four types: no cycle outside `addChild` (`Acyclic`), an edge is refused only if it closes one (`RefusesOnlyCycles`), an order that is not stale is topological and complete (`OrderIsTopological`), code is written completely (`AllWritten`), once (`TypeOK`) and dependencies first (`DependenciesFirst`) |
| `history` | three starts of one session: the marker separates (`MarkerSeparates`), memory and file agree at the prompt, and at any other time the file is a beginning of the history (`FileIsHistory`) |
| `slices` | as long as no element was lost to an int64, the slices of the runtime implement Go's (`RefinesGoSlices`) and no slot in reach is unset (`SlotsSet`); a copy within one array reads before it writes, and writes nowhere else (`CopyIsSimultaneous`) |
| `defer` | until one of the five things above happens, `recover` returns the panic of the call that deferred it (`RecoverSeesOwn`), and a call throws exactly when its panic was not recovered (`PanicsPropagate`) |
| `session` | checker and Lua agree but for what rejected commands left (`Agreement`); what Lua has was checked, although a rejected command leaves unchecked bodies in scope (`OnlyCheckedRuns`), and what runs reads what Lua has (`ReadsDefined`); no check fails on a declaration that was reported before (`CheckedOnce`), which says nothing of cycles that `initOrder` finds |
| `goro` | one goroutine at a time is in a call of a VM, and none in one of a closed VM (`OneAtATime`); `LuaVm.Close` returns when the VM is closed and not before (`ClosedOnReturn`); every call returns and the main thread ends, but for an import that the owner runs (`CallsReturn`) |
| `close_wakes_twice`, `nil_recover`, `redefinition` | what is violated, see below |

**Bounds.** Three coroutines are the least with a select between two partners;
two evaluations show what one leaves behind for the next. `MaxOps`, one or two
statements per coroutine, lets a coroutine come back after it was woken. An
unbuffered channel and one of capacity 1 give every path of `altcanexec` and
`altcopy`: capacity 1 is at once the least full and the least non-empty
buffer, and longer wrap-arounds are the business of `CircularBuffer`, at
capacity 3. Goroutines of one kind are symmetric; the symmetry set is used only
for safety. Deadlock is not checked in the `Task` runs: when the user evaluates
nothing more, and when the bound on statements is reached, the system rests.

Four types are the least with two paths to one type and a type besides them;
they are symmetric, and 982,738 states are all there are, since edges are finite
in number and code is written once. In `history` two different texts and up to
three lines give removals before, behind and across the marker with lines left
on either side; three starts give lines of two earlier sessions, or of one that
was killed while it wrote; `MaxPending`, two lines of an incomplete statement,
gives statements that are longer than what is read at a time. Deadlock is not
checked there: all sessions may have been stopped for good.

`slices` has two slice variables, the least that can share an array, over three
arrays: one each and one to move to. Four slots and a `Large` of 4 reach both
rules of growth, and hold overlaps by one and by two in either direction; four
calls (`MaxCalls`) are make, cut, copy or append, and a look at the result. Two of
them may cut (`MaxCuts`), the least for a slice that inherits an int64 from one
that was cut with it. Deadlock is not checked: the bound on the calls ends it. `defer` needs four frames for a call
made by a deferred call of a call, two deferred calls for one that recovers and
one that comes after, two values to tell panics apart, and two goroutines; four
frames also hold a call that panics in a deferred call of a call that panicked. It
is never without a next step. In `session` two names and a method refer to each
other in all ways, three objects are a declaration, one that replaces it and one
that uses either, and two items make a command whose first half is right; the
number of commands is not bounded. In `goro` three VMs give one before, one
between and one after two closes, in both builds, and `MaxImports`, 3, nests
tickets four deep. Deadlock is not checked there: the process ends, and an import
by the owner is stuck.

**Fairness.** `FairSpec` has weak fairness on the scheduler and on each
coroutine's own steps. Lua has one thread, which always executes the coroutine
in control: the scheduler's loop goes on and a coroutine that has control takes
its next step. The model has no step that Go code may take forever (statements
are bounded by `MaxOps`, an endless loop in user code is not modelled), so
nothing stronger is needed. `Eval` has no fairness: the user may stop.
`Goro` has weak fairness on `Step`, the steps that nobody decides upon: a
goroutine of Go, or the main thread, that can go on does, and Lua code ends (the
model has none that runs forever). No strong fairness is needed: at any time one
of the three can go on and the others wait for it. Creating, running, importing
and closing have none: they are the user's.
The other modules have safety only, and assume no fairness.

**What is violated.** Three runs check what a comment, an assertion or the README
of gijit says, and the code does otherwise:

* `close_wakes_twice`: `close` leaves the receivers it wakes in the queues. The
  next send completes against a receive that has ended and makes its goroutine
  runnable once more, which fails an assertion (`chan.lua:596`).
* `nil_recover`: after a panic that nobody recovered, a call that returns
  normally runs its deferred calls with the old panic in `__recoverVal`. The
  assertion against it (`defer.lua:132`) names a global that does not exist.
* `redefinition`: a method is defined again after a function that calls it. The
  old method is no longer in `ObjMap` but still a dependency of the function, and
  `dependencyGraph` dereferences a node that is not there, with this command and
  with all that follow.

Several more differences need no run to see, and the models have them as the code
has. A receive that ended because of `close` reports that there is more: the
flag is set on the alt and read from the `alt_array`. A channel does not remember
that it was closed, so that a receive that begins afterwards waits. An uncaught
panic in a goroutine ends the scheduler, and code evaluated afterwards silently
does not run. `select` drops its second parameter, so that `nbsend` and `nbrecv`
wait like `send` and `recv`; and `recv(to)` returns TIMEOUT at once where a value
is available, although `chan_test.lua:317` expects the value. `:rm` of one
session removes the file that another one has open. A function whose callers were
checked against its old signature can be given another one. A forward reference
within one command passes the checker, which orders initializations, and reads
nil in Lua, where the code runs in the order of the source (`incr.go:644`);
`ReadsDefined` leaves it out for that reason. An initialization cycle is reported
again with every command that follows. A slice cut with bounds that are not
constants has int64 numbers: its elements read as nil, `copy` loses them, and
`append` may raise an error (`tsys.lua:877, 1098`), although the comments of
`tsys.lua:1085-1088` and `int64.lua:46` know that such an index has to be converted. A
panic in a call that a deferred call makes while its caller panics skips the
call's own deferred calls, and an error of the runtime there may be lost. The comments of `repl_luajit.go:21-23` want
LuaJIT on the one main thread; as shipped, with `reserveMainThread` false
(`luaUtil.go:28`), the VM is closed by the goroutine of `Goro.Start` while
everything else runs on the main one. With it true, an import from Lua code waits
for a ticket that only the goroutine which waits could run
(`ImportByOwner`).

## What is proved

All theorems hold for any number of coroutines, channels, capacities, statements
and repetitions; their assumptions are the named ASSUMEs of the modules, which
TLC evaluates on every run.

* `Task_proofs`, from five inductive invariants, each over some of those before it.
  `Typing` (one coroutine in control, no buffer above its capacity) and
  `Rendezvous` (nobody waits for what is there): `Inv` is `TypeOK`, the finiteness
  of the queues and `NoMissedRendezvous`. The parts need each other: that a buffer
  is never overfull when a sender is moved up follows from senders waiting only on
  full buffers; that a direct hand-over loses nothing follows from receivers
  waiting only on empty ones; that a waiting sender is not passed over follows
  from `altexec` finding it whenever there is one. `CopyFacts` collects the cases
  of `altcopy`.
  `WaitersQueued`, `WakeupsKept`, `TimersArmed` and `Intact`: `WakeInv` adds the
  shape of a blocked select and of the alts that are queued (`SelShape`) to the four
  properties. `close` disturbs each of them, and
  `Intact` speaks of the time before it, so that the parts which hold throughout
  must not rest on the ones that end with it; with `Closing = {}` they give
  `QueuesFresh`, `RunnableOnce` (the assertion of `chan.lua:596` never fails) and
  `AnsweredOnce`, an action property.
  `EvaluationsRun`: `NewIsReady`, a coroutine that has not run yet is on the list
  of runnable ones, is kept by everybody who wakes
  others, `close` included; the loop of the scheduler ends on an empty list.
  `SelectRefinesGo`: where nothing is closed and no timeout is used (`Plain`),
  `Task` implements `GoSelect`, step by step: a select that executes a case with a
  partner, or with the buffer, is one communication of `GoSelect`, a select that
  blocks is one that starts to wait, and everything else is a stutter
  (`ReadySelects`, `BlockSelects`, `ControlStutters`, `ResumeStutters`). Who waits is
  read off the blocked selects in `GoSelect` and off the queues in the code; that
  these are the same is `NoStaleAlts` in one direction and `AllAltsQueued` in the
  other (`QueuedWaits`, `WaitingQueued`), and that a direct hand-over passes no
  buffered value is `NoMissedRendezvous`. `PlainInv` adds that a queued alt is the
  case of the statement its number says, that a select has no value before it is
  answered, and that an answer is a case of the statement.
  `ValuesHeldOnce` and `ValuesDeliveredOnce` hold with closes, timeouts and panics as
  well, where `GoSelect` promises nothing: a value is in one buffer, one answered
  select or one goroutine's hands, and once there; it is never sent again, and
  once Go code has it, it goes nowhere else. `HInv` needs besides that what is
  somewhere is not still to be sent (`HeldIsSent`). Every step is shown to be a
  `Flow`, which moves one value at most and sends one at most, and `FlowKeeps` says
  that a flow keeps the invariant. That a value may be lost, overwritten in a
  select that `close` answers again, is not excluded.
* `Containers_proofs`: `Refinement` of the ring buffer, step by step (`PushStep`,
  `PopStep`, `PopPushStep`), from `TypeOK` and `LiveSlotsSet`; the arithmetic of
  the ring is in `Wrap`, `Distances` and `FrontFacts`. For the Set of alts,
  `SetHoldsMembers`: the invariant says that the list has each
  member once, at the place the table names, and that an element that was never
  added has no place. The stale entries that `remove` leaves behind
  (`a[i], l[#l] = nil, nil` clears `a[i]` where `a[v]` was meant) are harmless
  because no alt is added twice.
* `TypeGraph_proofs`: `Typing`, `NoCycles`, `OnlyCyclesRefused`, `Topological`,
  `Written` and `DependenciesWrittenFirst`, for any set of types. The inductive
  invariant `Inv` says what a depth-first search knows while it runs. `StackInv`:
  the stack is a path in the graph, of marked nodes, each with some of its
  children still to be looked at and the others marked. `CycleInv`: but for the
  edge being added there is no cycle, and marked nodes that are not on the stack
  are closed under children and on no cycle. `OrderInv`: the order has just these
  finished nodes, children first. `OutInv`: the code written is that of the
  finished nodes, and all of the order is made or still a root. None of the
  properties is inductive without the stack: that a child which is marked
  already is finished, and so behind its parent in the order, follows from the
  path on the stack, along which an edge back would close a cycle. The lemmas
  `Push`, `Skip`, `Pop` and `BackEdge` say what the steps of a search do to any
  stack, and are used by all three searches. `NoCycle` is stated by sets of nodes,
  each of which has a member without children in it, and not by paths, so that
  no induction over paths is needed.

* `Slices_proofs`: `SlicesTypeOK`, `SlotsAreSet` and `CopyAtOnce`, for any number
  of slices and arrays, any capacities and any bounds, int64 or not. What the
  theorems say ends with the first element that is lost (`clean`), but for
  `CopyAtOnce`, whose second half, that a copy changes nothing outside its target,
  holds throughout. The inductive invariant adds to
  `TypeOK` and `SlotsSet` what the copying loop knows (`LoopInv`): the slots
  before the place it has come to have the old values of their sources, all
  other slots are as they were, and so are the sources still to be read. The
  last part is where the direction of the loop matters.
  `SlicesRefineGo`: `Slices` implements `GoSlices`, in which a copy is one step:
  the steps of the loop are stutters but for the last, as long as they leave
  `clean` true. `CallInv` remembers what the
  loop was called for (`copy`, or an `append` with or without a new array), so that
  the last step is the operation of `GoSlices` that was asked for.
* `Defer_proofs`: `DeferTypeOK`, `RecoverOwn` and `Propagation`. The invariant is
  that as long as nothing went wrong (`clean`) at most one call of one goroutine
  is unwinding, that it is the innermost call of the goroutine that runs, and
  that `__recoverVal` has its panic (`OneUnwinds`). That no goroutine can yield
  inside an error handler is what makes one variable enough. Nothing has to be
  known of `errerr` for that: whether a handler is called matters only where
  `clean` ends.
* `Session_proofs`: `SessionTypeOK`, `SessionAgreement`, `CheckedBeforeRun`,
  `ReportedOnce` and `DefinedBeforeRead`, for any names, methods, items and lengths. Agreement between
  commands needs to be known in the middle of them: `Latest` says which item of
  the command, if any, the scope has for a name, and `Agrees` that Lua has the
  scope's object for every name that is neither doubtful nor still to be run.
  `Pending` says which methods have no type yet; `Tracks`, for
  `CheckedBeforeRun`, that each object of the command is still to be looked at, is
  being checked, waits in `funcs` or is in `checked`, so that it is in `checked` once
  there is nothing left to check; `Blames` that a variable which was
  reported, by a check or in a cycle, is visited and not being declared, so that it
  becomes invalid the next time instead of failing a check again. `Reads` says, from the moment the checker
  has looked at an item on, that what the item refers to is in scope; with
  `Agrees` it is then in Lua when the item runs.
* `Goro_proofs`: `GoroTypeOK`, `Exclusion` and `ReturnsClosed`, for any number of
  VMs and imports. The properties are not inductive, as they do not say where the
  owner is while the REPL is elsewhere: `InStep` does, place by place, and that a
  reserved main thread runs no owner but the last one; `Ordered` says that all
  earlier owners have ended, and that closing, being closed and being marked done
  come in this order.
* `History_proofs`: `HistoryTypeOK`, `Separation` and `FileKeepsHistory`, for any
  finite set of sessions, any number of starts and any texts, while the run has
  one session (two are too many states for it). `AllDated`: no line, in memory or
  in any file, is of a session that was not started yet; so a starting session
  finds no line of its own, whatever others have written, removed or overwritten.
  `AllInFile` is about a session that was never beside another: which part of its
  history the file has at each place of its loop, and that the next line goes to
  the end of it, also through the handle without O_APPEND that `:clear` leaves
  behind. `FreeFileExists`: there is always a file to create, by counting the
  handles.

Every safety property that a passing run checks is stated by one of these theorems.
Only model-checked is what is about liveness (`WokenRuns`, `EvalReturns`,
`CallsReturn`), which is out of the prover's reach (it has neither ENABLED nor
fairness). What is assumed of the markers among the constants is that they tell
apart what the code tells apart: Nil, TIMEOUT and the others are neither messages
nor results nor alts, `NoLoop` is no loop, and so on.

## Plan

What would come next, in this order:

1. The Lua port of the type graph (`dfs.lua`), which has no check for cycles and
   adds a child as often as it is told.
2. Maps: the encoding of keys and of nil (`tsys.lua:2394-2680`).
3. `Sync`: `WaitGroup`, `Cond` and semaphores over channels.

## Not modelled, and why

The translation of programs is a sequential function on syntax trees: its
correctness is about languages and not about states that TLC could enumerate. Of
the type checker, `Session` has what outlives a command; types, constants,
packages and the rules for expressions are left out. The Lua bridge converts
data. The coroutine registry serves displays. Of the REPL, only what touches the
history or the session is modelled. Of the Goro, the heartbeats are commented out
in the code, and a second call of `Start`, `doMainWait` and `IncrState.Close` are
called by nothing; what a ticket registers and fetches is data. Maps are
functions without steps that interleave; two of their conversions are
suspicious (a map literal stores `false` as nil, `tsys.lua:1627`, and an assignment
to an element puts quotes around the text of a key that is not a string, a variable
included, `statements.go:991-998`). Vendored code and the overlays of the standard
library are not the program's own logic. The commands parse flags.
