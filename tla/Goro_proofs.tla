----------------------------- MODULE Goro_proofs -----------------------------
(***************************************************************************)
(* For any number of VMs that a process creates, in a build of either      *)
(* kind: one goroutine at a time is in a call of a VM, none after it was   *)
(* closed, and Close returns when the VM is closed.                        *)
(***************************************************************************)
EXTENDS Goro, TLAPS

\* Where the owner of the VM that the REPL uses can be, given where the REPL
\* is, and that a reserved main thread runs no other owner. Nothing but this
\* keeps the two from using the VM at the same time.
InStep ==
    /\ pc # "none" => cur \in Vm
    /\ pc \in {"none", "end"} /\ cur \in Vm => owner[cur] = "done"
    /\ pc = "post" => owner[cur] = "new"
    /\ pc \in {"open", "direct", "send", "ticket"} => owner[cur] \in {"new", "select"}
    /\ pc = "wait" => owner[cur] \in {"ticket", "stuck"} /\ depth = 1
    /\ pc = "answered" => owner[cur] = "select"
    /\ pc = "close" => owner[cur] \in {"new", "select", "closing", "closed", "done"}
    /\ pc \in {"post", "open", "direct", "send", "ticket", "wait", "answered"} =>
          cur \notin stopping
    /\ pc = "post" => reserve
    /\ main \in Vm => main = cur /\ pc # "post" /\ owner[main] # "done"
    /\ ~reserve => main = "repl"

\* Only the VM created last has an owner that is still at work, and an owner
\* goes through its places in order.
Ordered ==
    \A v \in Vm :
        /\ v # cur => owner[v] \in {"none", "done"}
        /\ v \in freed <=> owner[v] \in {"closed", "done"}
        /\ v \in finished <=> owner[v] = "done"
        /\ v \in stopping => owner[v] # "none"
        /\ owner[v] \in {"closing", "closed", "done"} => v \in stopping

\* The inductive invariant.
Inv ==
    /\ TypeOK
    /\ InStep
    /\ Ordered
-----------------------------------------------------------------------------
LEMMA InvInit == Init => Inv
BY DistinctAssumption, NamesAssumption, BoundAssumption
DEF Init, Inv, TypeOK, InStep, Ordered, Place

\* Every step keeps the shape of the state.
LEMMA TypeOKKept ==
    ASSUME Inv, [Next]_vars
    PROVE  TypeOK'
<1> USE DistinctAssumption, NamesAssumption, BoundAssumption
         DEF ReplGoes, OwnerGoes, Inv, TypeOK, InStep, Place
<1>1. CASE UNCHANGED vars
  BY <1>1 DEF vars
<1>2. ASSUME NEW v \in Vm, Create(v) PROVE TypeOK'
  BY <1>2 DEF Create
<1>3. CASE UseDirectly
  BY <1>3 DEF UseDirectly
<1>4. CASE EndDirectly
  BY <1>4 DEF EndDirectly
<1>5. CASE Do
  BY <1>5 DEF Do
<1>6. CASE Import
  BY <1>6 DEF Import
<1>7. CASE EndTicket
  BY <1>7 DEF EndTicket
<1>8. CASE Answer
  BY <1>8 DEF Answer
<1>9. CASE RequestStop
  BY <1>9 DEF RequestStop
<1>10. CASE Closed
  BY <1>10 DEF Closed
<1>11. CASE Finish
  BY <1>11 DEF Finish
<1>12. CASE TakeOwner
  BY <1>12 DEF TakeOwner
<1>13. CASE MainEnds
  BY <1>13 DEF MainEnds
<1>14. ASSUME NEW v \in Vm, Start(v) PROVE TypeOK'
  BY <1>14 DEF Start
<1>15. ASSUME NEW v \in Vm, TakeTicket(v) PROVE TypeOK'
  BY <1>15 DEF TakeTicket
<1>16. ASSUME NEW v \in Vm, ImportByOwner(v) PROVE TypeOK'
  BY <1>16 DEF ImportByOwner
<1>17. ASSUME NEW v \in Vm, EndTicketByOwner(v) PROVE TypeOK'
  BY <1>17 DEF EndTicketByOwner
<1>18. ASSUME NEW v \in Vm, Stop(v) PROVE TypeOK'
  BY <1>18 DEF Stop
<1>19. ASSUME NEW v \in Vm, CloseVm(v) PROVE TypeOK'
  BY <1>19 DEF CloseVm
<1>20. ASSUME NEW v \in Vm, MarkDone(v) PROVE TypeOK'
  BY <1>20 DEF MarkDone
<1> QED
  BY <1>1, <1>2, <1>3, <1>4, <1>5, <1>6, <1>7, <1>8, <1>9, <1>10,
          <1>11, <1>12, <1>13, <1>14, <1>15, <1>16, <1>17, <1>18, <1>19, <1>20
  DEF Next, Step

\* Every step of the REPL or of the owner keeps the two in step.
LEMMA InStepKept ==
    ASSUME Inv, [Next]_vars
    PROVE  InStep'
<1> USE DistinctAssumption, NamesAssumption, BoundAssumption
         DEF ReplGoes, OwnerGoes, Inv, TypeOK, InStep, Ordered
<1>1. CASE UNCHANGED vars
  BY <1>1 DEF vars
<1>2. ASSUME NEW v \in Vm, Create(v) PROVE InStep'
  BY <1>2 DEF Create
<1>3. CASE UseDirectly
  BY <1>3 DEF UseDirectly
<1>4. CASE EndDirectly
  BY <1>4 DEF EndDirectly
<1>5. CASE Do
  BY <1>5 DEF Do
<1>6. CASE Import
  BY <1>6 DEF Import
<1>7. CASE EndTicket
  BY <1>7 DEF EndTicket
<1>8. CASE Answer
  BY <1>8 DEF Answer
<1>9. CASE RequestStop
  BY <1>9 DEF RequestStop
<1>10. CASE Closed
  BY <1>10 DEF Closed
<1>11. CASE Finish
  BY <1>11 DEF Finish
<1>12. CASE TakeOwner
  BY <1>12 DEF TakeOwner
<1>13. CASE MainEnds
  BY <1>13 DEF MainEnds
<1>14. ASSUME NEW v \in Vm, Start(v) PROVE InStep'
  BY <1>14 DEF Start
<1>15. ASSUME NEW v \in Vm, TakeTicket(v) PROVE InStep'
  BY <1>15 DEF TakeTicket
<1>16. ASSUME NEW v \in Vm, ImportByOwner(v) PROVE InStep'
  BY <1>16 DEF ImportByOwner
<1>17. ASSUME NEW v \in Vm, EndTicketByOwner(v) PROVE InStep'
  BY <1>17 DEF EndTicketByOwner
<1>18. ASSUME NEW v \in Vm, Stop(v) PROVE InStep'
  BY <1>18 DEF Stop
<1>19. ASSUME NEW v \in Vm, CloseVm(v) PROVE InStep'
  BY <1>19 DEF CloseVm
<1>20. ASSUME NEW v \in Vm, MarkDone(v) PROVE InStep'
  BY <1>20 DEF MarkDone
<1> QED
  BY <1>1, <1>2, <1>3, <1>4, <1>5, <1>6, <1>7, <1>8, <1>9, <1>10,
          <1>11, <1>12, <1>13, <1>14, <1>15, <1>16, <1>17, <1>18, <1>19, <1>20
  DEF Next, Step

\* Every step keeps the order in which an owner goes through its places; a
\* new VM is created when the owners of all earlier ones have ended.
LEMMA OrderedKept ==
    ASSUME Inv, [Next]_vars
    PROVE  Ordered'
<1> USE DistinctAssumption, NamesAssumption, BoundAssumption
         DEF ReplGoes, OwnerGoes, Inv, TypeOK, InStep, Ordered
<1>1. CASE UNCHANGED vars
  BY <1>1 DEF vars
<1>2. ASSUME NEW v \in Vm, Create(v) PROVE Ordered'
  BY <1>2 DEF Create
<1>3. CASE UseDirectly
  BY <1>3 DEF UseDirectly
<1>4. CASE EndDirectly
  BY <1>4 DEF EndDirectly
<1>5. CASE Do
  BY <1>5 DEF Do
<1>6. CASE Import
  BY <1>6 DEF Import
<1>7. CASE EndTicket
  BY <1>7 DEF EndTicket
<1>8. CASE Answer
  BY <1>8 DEF Answer
<1>9. CASE RequestStop
  BY <1>9 DEF RequestStop
<1>10. CASE Closed
  BY <1>10 DEF Closed
<1>11. CASE Finish
  BY <1>11 DEF Finish
<1>12. CASE TakeOwner
  BY <1>12 DEF TakeOwner
<1>13. CASE MainEnds
  BY <1>13 DEF MainEnds
<1>14. ASSUME NEW v \in Vm, Start(v) PROVE Ordered'
  BY <1>14 DEF Start
<1>15. ASSUME NEW v \in Vm, TakeTicket(v) PROVE Ordered'
  BY <1>15 DEF TakeTicket
<1>16. ASSUME NEW v \in Vm, ImportByOwner(v) PROVE Ordered'
  BY <1>16 DEF ImportByOwner
<1>17. ASSUME NEW v \in Vm, EndTicketByOwner(v) PROVE Ordered'
  BY <1>17 DEF EndTicketByOwner
<1>18. ASSUME NEW v \in Vm, Stop(v) PROVE Ordered'
  BY <1>18 DEF Stop
<1>19. ASSUME NEW v \in Vm, CloseVm(v) PROVE Ordered'
  BY <1>19 DEF CloseVm
<1>20. ASSUME NEW v \in Vm, MarkDone(v) PROVE Ordered'
  BY <1>20 DEF MarkDone
<1> QED
  BY <1>1, <1>2, <1>3, <1>4, <1>5, <1>6, <1>7, <1>8, <1>9, <1>10,
          <1>11, <1>12, <1>13, <1>14, <1>15, <1>16, <1>17, <1>18, <1>19, <1>20
  DEF Next, Step

LEMMA InvNext == Inv /\ [Next]_vars => Inv'
BY TypeOKKept, InStepKept, OrderedKept DEF Inv

\* A ticket is open exactly while somebody runs it.
THEOREM GoroTypeOK == Spec => []TypeOK
<1>1. Inv => TypeOK
  BY DEF Inv
<1> QED BY <1>1, InvInit, InvNext, PTL DEF Spec

\* No two goroutines are in calls of one VM, and none in a call of a closed
\* one, without any lock.
THEOREM Exclusion == Spec => []OneAtATime
<1>1. Inv => OneAtATime
  <2> SUFFICES ASSUME Inv, NEW v \in Vm
               PROVE  /\ \A p, q \in Users(v) : p = q
                      /\ v \in freed => Users(v) = {}
    BY DEF OneAtATime
  <2>1. CASE owner[v] \in {"ticket", "stuck", "closing"}
    <3>1. v = cur /\ pc \in {"wait", "close"} /\ v \notin freed
      BY <2>1, DistinctAssumption DEF Inv, InStep, Ordered, TypeOK
    <3> QED BY <3>1 DEF Users
  <2>2. CASE owner[v] \notin {"ticket", "stuck", "closing"}
    <3>1. Users(v) \subseteq {Repl}
      BY <2>2 DEF Users
    <3>2. v \in freed => ~(cur = v /\ pc \in {"direct", "ticket"})
      BY DistinctAssumption DEF Inv, InStep, Ordered, TypeOK
    <3> QED BY <3>1, <3>2, <2>2 DEF Users
  <2> QED BY <2>1, <2>2
<1> QED BY <1>1, InvInit, InvNext, PTL DEF Spec

\* When LuaVm.Close returns the VM is closed, and so were all before it.
THEOREM ReturnsClosed == Spec => []ClosedOnReturn
<1>1. Inv => ClosedOnReturn
  BY DistinctAssumption DEF Inv, InStep, Ordered, TypeOK, ClosedOnReturn
<1> QED BY <1>1, InvInit, InvNext, PTL DEF Spec
=============================================================================
