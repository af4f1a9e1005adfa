-------------------------------- MODULE Goro --------------------------------
(***************************************************************************)
(* Who runs on the Lua VM, and when it is closed (pkg/compiler/goro.go,    *)
(* luaUtil.go, repl_luajit.go). The REPL creates a VM, runs Lua code on it *)
(* through tickets and closes it. Each VM has an owner, Goro.Start. In a   *)
(* build with reserveMainThread the owner runs on the main thread, which   *)
(* gets it through mainQ, and runs the tickets; in a build without, it is  *)
(* a goroutine that only waits for the halter, and the REPL runs its       *)
(* tickets itself. A process creates one VM after the other, as the tests  *)
(* do; the REPL itself is a process that creates one.                      *)
(*                                                                         *)
(* Lua code of a ticket ends. While it runs it can import a package, which *)
(* is a ticket within the ticket (import.go). A channel of Go that is not  *)
(* buffered is a rendezvous: sending on it and receiving are one action.   *)
(***************************************************************************)
EXTENDS Naturals

CONSTANTS Vm,       \* the VMs that a process creates
          NoVm,     \* none was created yet
          Repl,     \* the goroutine that calls NewLuaVmWithPrelude
          Owner,    \* Goro.Start of a VM
          MaxImports \* bound: packages that the Lua code of a ticket imports

ASSUME DistinctAssumption == NoVm \notin Vm /\ Repl # Owner
ASSUME NamesAssumption == Vm \cap {"repl", "loop", "end"} = {}
ASSUME BoundAssumption == MaxImports \in Nat

VARIABLES
    reserve,   \* the constant reserveMainThread; never changed
    pc,        \* where the REPL is
    cur,       \* the VM it created last
    main,      \* what the main thread does: the REPL itself ("repl"), the
               \* loop of MainCThread, Start of a VM, or nothing more
    owner,     \* [Vm -> where its Goro.Start is]
    depth,     \* tickets that have begun and not ended
    imports,   \* the packages that the ticket under way has imported
    stopping,  \* the VMs whose halt.ReqStop was closed
    finished,  \* the VMs whose halt.Done was closed
    freed      \* the VMs that lua_close was called for

vars == <<reserve, pc, cur, main, owner, depth, imports, stopping, finished, freed>>

Place == {"none", "new", "select", "ticket", "stuck", "closing", "closed", "done"}

Init ==
    /\ reserve \in BOOLEAN
    /\ pc = "none"
    /\ cur = NoVm
    /\ main = IF reserve THEN "loop" ELSE "repl"
    /\ owner = [v \in Vm |-> "none"]
    /\ depth = 0 /\ imports = 0
    /\ stopping = {} /\ finished = {} /\ freed = {}

OwnerGoes(v, from, to) ==
    /\ owner[v] = from
    /\ owner' = [owner EXCEPT ![v] = to]

ReplGoes(from, to) == pc = from /\ pc' = to

(* ----------------------------- creating -------------------------------- *)

\* NewLuaVmWithPrelude: luar.Init, NewGoro, then Start in a goroutine of its
\* own, or for the main thread by doMainAsync, which waits for it to take it.
Create(v) ==
    /\ ReplGoes("none", IF reserve THEN "post" ELSE "open")
    /\ OwnerGoes(v, "none", "new")
    /\ cur' = v
    /\ UNCHANGED <<reserve, main, depth, imports, stopping, finished, freed>>

\* MainCThread takes the function off mainQ.
TakeOwner ==
    /\ main = "loop"
    /\ ReplGoes("post", "open")
    /\ main' = cur
    /\ UNCHANGED <<reserve, cur, owner, depth, imports, stopping, finished, freed>>

\* Start begins, and waits for a ticket or a request to stop.
Start(v) ==
    /\ reserve => main = v
    /\ OwnerGoes(v, "new", "select")
    /\ UNCHANGED <<reserve, pc, cur, main, depth, imports, stopping, finished, freed>>

(* ------------------------------ tickets -------------------------------- *)

\* Functions that use the VM without a ticket: EnableImportsFromLua registers
\* functions with it, LuaIsNil reads a variable.
UseDirectly ==
    /\ ReplGoes("open", "direct")
    /\ UNCHANGED <<reserve, cur, main, owner, depth, imports, stopping, finished, freed>>

EndDirectly ==
    /\ ReplGoes("direct", "open")
    /\ UNCHANGED <<reserve, cur, main, owner, depth, imports, stopping, finished, freed>>

\* do: the ticket is sent to the owner, or handled at once.
Do ==
    /\ ReplGoes("open", IF reserve THEN "send" ELSE "ticket")
    /\ depth' = IF reserve THEN depth ELSE 1
    /\ imports' = 0
    /\ UNCHANGED <<reserve, cur, main, owner, stopping, finished, freed>>

\* Defect: do does not wait for the ticket to be done.
TakeTicket_NoWait(v) ==
    /\ cur = v
    /\ ReplGoes("send", "open")
    /\ OwnerGoes(v, "select", "ticket")
    /\ depth' = 1
    /\ UNCHANGED <<reserve, cur, main, imports, stopping, finished, freed>>

\* The owner receives from doticket, and do goes on to wait for t.done.
TakeTicket(v) ==
    /\ cur = v
    /\ ReplGoes("send", "wait")
    /\ OwnerGoes(v, "select", "ticket")
    /\ depth' = 1
    /\ UNCHANGED <<reserve, cur, main, imports, stopping, finished, freed>>

\* The Lua code of a ticket imports a package: RunTimeGiImportFunc calls Do
\* on the goroutine that runs the code, which handles the ticket at once.
Import ==
    /\ ReplGoes("ticket", "ticket")
    /\ imports < MaxImports
    /\ imports' = imports + 1
    /\ depth' = depth + 1
    /\ UNCHANGED <<reserve, cur, main, owner, stopping, finished, freed>>

\* Run by the owner it sends the ticket to the goroutine that sends it.
ImportByOwner(v) ==
    /\ OwnerGoes(v, "ticket", "stuck")
    /\ UNCHANGED <<reserve, pc, cur, main, depth, imports, stopping, finished, freed>>

\* Defect: a ticket within a ticket ends both.
EndTicket_All ==
    /\ ReplGoes("ticket", "open")
    /\ depth' = depth - 1
    /\ UNCHANGED <<reserve, cur, main, owner, imports, stopping, finished, freed>>

\* The end of handleTicket, and of do, for a ticket that the REPL runs.
EndTicket ==
    /\ ReplGoes("ticket", IF depth > 1 THEN "ticket" ELSE "open")
    /\ depth' = depth - 1
    /\ UNCHANGED <<reserve, cur, main, owner, imports, stopping, finished, freed>>

\* The end of handleTicket in the owner: close(t.done).
EndTicketByOwner(v) ==
    /\ OwnerGoes(v, "ticket", "select")
    /\ ReplGoes("wait", "answered")
    /\ depth' = depth - 1
    /\ UNCHANGED <<reserve, cur, main, imports, stopping, finished, freed>>

\* do sees that t.done was closed.
Answer ==
    /\ ReplGoes("answered", "open")
    /\ UNCHANGED <<reserve, cur, main, owner, depth, imports, stopping, finished, freed>>

(* ------------------------------ closing -------------------------------- *)

\* Defect: nobody tells the owner.
RequestStop_Forgotten ==
    /\ ReplGoes("open", "close")
    /\ UNCHANGED <<reserve, cur, main, owner, depth, imports, stopping, finished, freed>>

\* LuaVm.Close: halt.RequestStop, then wait for halt.Done.
RequestStop ==
    /\ ReplGoes("open", "close")
    /\ stopping' = stopping \cup {cur}
    /\ UNCHANGED <<reserve, cur, main, owner, depth, imports, finished, freed>>

\* Defect: Done is marked before the VM is closed.
Stop_DoneFirst(v) ==
    /\ v \in stopping
    /\ OwnerGoes(v, "select", "closing")
    /\ finished' = finished \cup {v}
    /\ UNCHANGED <<reserve, pc, cur, main, depth, imports, stopping, freed>>

\* The loop of Start ends.
Stop(v) ==
    /\ v \in stopping
    /\ OwnerGoes(v, "select", "closing")
    /\ UNCHANGED <<reserve, pc, cur, main, depth, imports, stopping, finished, freed>>

\* The deferred function of Start: lua_close, then halt.MarkDone.
CloseVm(v) ==
    /\ OwnerGoes(v, "closing", "closed")
    /\ freed' = freed \cup {v}
    /\ UNCHANGED <<reserve, pc, cur, main, depth, imports, stopping, finished>>

\* A reserved main thread goes back to the loop of MainCThread.
MarkDone(v) ==
    /\ OwnerGoes(v, "closed", "done")
    /\ finished' = finished \cup {v}
    /\ main' = IF reserve THEN "loop" ELSE main
    /\ UNCHANGED <<reserve, pc, cur, depth, imports, stopping, freed>>

\* LuaVm.Close returns.
Closed ==
    /\ cur \in finished
    /\ ReplGoes("close", "none")
    /\ UNCHANGED <<reserve, cur, main, owner, depth, imports, stopping, finished, freed>>

\* The end of LuajitMain: close(mainShutdown).
Finish ==
    /\ cur # NoVm
    /\ ReplGoes("none", "end")
    /\ UNCHANGED <<reserve, cur, main, owner, depth, imports, stopping, finished, freed>>

\* MainCThread returns, and the process ends.
MainEnds ==
    /\ pc = "end"
    /\ main = "loop" /\ main' = "end"
    /\ UNCHANGED <<reserve, pc, cur, owner, depth, imports, stopping, finished, freed>>

\* What happens without anybody's choice.
Step ==
    \/ TakeOwner \/ EndDirectly \/ EndTicket \/ Answer \/ Closed \/ MainEnds
    \/ \E v \in Vm : \/ Start(v) \/ TakeTicket(v) \/ EndTicketByOwner(v)
                     \/ Stop(v) \/ CloseVm(v) \/ MarkDone(v)

Next ==
    \/ Step
    \/ UseDirectly \/ Do \/ Import \/ RequestStop \/ Finish
    \/ \E v \in Vm : Create(v) \/ ImportByOwner(v)

Spec == Init /\ [][Next]_vars

\* Somebody who can go on does: a goroutine, the main thread, or Lua code,
\* which ends. Nothing makes the user run, import or close.
FairSpec == Spec /\ WF_vars(Step)
-----------------------------------------------------------------------------
\* The shape of the state: a ticket is open exactly while somebody runs it.
TypeOK ==
    /\ reserve \in BOOLEAN
    /\ pc \in {"none", "post", "open", "direct", "send", "wait", "ticket",
               "answered", "close", "end"}
    /\ cur \in Vm \cup {NoVm}
    /\ main \in Vm \cup {"repl", "loop", "end"}
    /\ owner \in [Vm -> Place]
    /\ imports \in 0 .. MaxImports /\ depth \in 0 .. imports + 1
    /\ stopping \subseteq Vm /\ finished \subseteq Vm /\ freed \subseteq Vm
    /\ depth > 0 <=> pc \in {"ticket", "wait"}

\* The goroutines that are in a call of the VM.
Users(v) ==
    {p \in {Repl, Owner} :
        \/ p = Repl /\ cur = v /\ pc \in {"direct", "ticket"}
        \/ p = Owner /\ owner[v] \in {"ticket", "stuck", "closing"}}

\* Only one goroutine at a time is in a call of a VM, and none in one of a VM
\* that was closed ("we must only have one thread at a time ... calling the
\* LuaJIT vm", goro.go:270), although neither the functions that use it
\* without a ticket nor the owner that closes it take a lock.
OneAtATime ==
    \A v \in Vm : /\ \A p, q \in Users(v) : p = q
                  /\ v \in freed => Users(v) = {}

\* LuaVm.Close returns when the VM is closed and not before: between two VMs,
\* and when the process ends, none is left open (luaUtil.go:45, goro.go:161).
ClosedOnReturn ==
    pc \in {"none", "end"} => \A v \in Vm : owner[v] # "none" => v \in freed

\* Every call of the REPL returns (creating, running a ticket, closing), and
\* the main thread ends after it; but for an import by a ticket that the owner
\* runs, which waits for the owner, for good.
CallsReturn ==
    /\ (pc \notin {"open", "none", "end"})
          ~> (pc \in {"open", "none"} \/ \E v \in Vm : owner[v] = "stuck")
    /\ (pc = "end") ~> (main \in {"repl", "end"})
=============================================================================
