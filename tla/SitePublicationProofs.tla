------------------------ MODULE SitePublicationProofs ------------------------
(***************************************************************************)
(* Theorems about SitePublication, for any number of processes, catalogue  *)
(* versions, failures and crashes; and, from the same invariant, about     *)
(* Health, which superposes status.json and process ids on it: what the    *)
(* health check concludes from the file is true.                           *)
(***************************************************************************)
EXTENDS Health, TLAPS

-----------------------------------------------------------------------------
(* The inductive invariant.                                                *)

\* What a process knows at each point of its cycle.  The lock makes it true:
\* nobody else changes the catalogue or the trees meanwhile.
Rendering(p) ==
    /\ pc[p] \in {"renderIndex", "renderTitles", "validate", "dropPrevious",
                  "moveOut", "moveIn", "rollback"} => catalogue > 0
    /\ pc[p] = "renderTitles" => staging[p].index = catalogue
    /\ pc[p] \in {"validate", "dropPrevious", "moveOut", "moveIn", "rollback"} =>
         staging[p] = [index |-> catalogue, titles |-> catalogue]

Swapping(p) ==
    /\ pc[p] = "moveOut" => previous = NoTree
    /\ pc[p] \in {"moveIn", "rollback"} => site = NoTree
    /\ pc[p] \in {"moveIn", "rollback"} /\ Present(previous) => previous.index = published
    /\ pc[p] = "rollback" => Present(previous)
    /\ pc[p] = "moveIn" /\ Present(previous) => had_site[p]

OnDisk ==
    /\ published <= catalogue
    /\ Present(site) => Whole(site) /\ site.index = published
    /\ Present(previous) => Whole(previous) /\ published > 0

CoreInv ==
    /\ TypeOK
    /\ LockExcludes
    /\ OnDisk
    /\ \A p \in Processes : Rendering(p) /\ Swapping(p)

\* The last good site is out of its place only when somebody is about to put
\* one back, or when it is exposed.
Exposure ==
    /\ exposed => ~Present(site)
    /\ \A p \in Processes : MidSwap(p) => ~exposed
    /\ published > 0 /\ ~exposed => Present(site) \/ \E p \in Processes : MidSwap(p)

IInv == CoreInv /\ Exposure

-----------------------------------------------------------------------------
(* Types.                                                                  *)

LEMMA TreeTypes ==
    /\ NoTree \in Tree
    /\ \A t \in Tree, v \in 0..MaxVersion :
         [t EXCEPT !.index = v] \in Tree /\ [t EXCEPT !.titles = v] \in Tree
  BY BoundsAssumption DEF NoTree, Tree

LEMMA AfterCycleType == \A p \in Processes : AfterCycle(p) \in {"locked", "leaving"}
  BY DEF AfterCycle

LEMMA TypeInit == Init => TypeOK
  <1> SUFFICES ASSUME Init PROVE TypeOK
    OBVIOUS
  <1>1. had_site \in [Processes -> BOOLEAN]
    BY Zenon DEF Init
  <1>2. staging \in [Processes -> Tree] /\ site \in Tree /\ previous \in Tree
    BY TreeTypes DEF Init
  <1>3. pc \in [Processes -> Labels] /\ lock \in Processes \cup {NoProcess}
    BY DEF Init, Labels
  <1>4. exposed \in BOOLEAN
    BY Zenon DEF Init
  <1>5. StateType
    BY <1>1, <1>2, <1>3, BoundsAssumption DEF Init, StateType
  <1> QED
    BY <1>4, <1>5 DEF TypeOK

LEMMA StateTypeStep == TypeOK /\ [Next]_vars => StateType'
  <1> SUFFICES ASSUME TypeOK, [Next]_vars PROVE StateType'
    OBVIOUS
  <1> USE DEF TypeOK, StateType, Step, Fault, Labels, disk, counters
  <1>1. CASE UNCHANGED vars
    BY <1>1 DEF vars
  <1>2. ASSUME NEW p \in Processes, EnterLock(p) PROVE StateType'
    BY <1>2 DEF EnterLock
  <1>3. ASSUME NEW p \in Processes, LeaveLock(p) PROVE StateType'
    BY <1>3 DEF LeaveLock
  <1>4. ASSUME NEW p \in Processes, Edit(p) PROVE StateType'
    BY <1>4 DEF Edit
  <1>5. ASSUME NEW p \in Processes, BeginScan(p) PROVE StateType'
    BY <1>5 DEF BeginScan
  <1>6. ASSUME NEW p \in Processes, Commit(p) PROVE StateType'
    BY <1>6, BoundsAssumption DEF Commit
  <1>7. ASSUME NEW p \in Processes, EndScan(p) PROVE StateType'
    BY <1>7, AfterCycleType, BoundsAssumption DEF EndScan
  <1>8. ASSUME NEW p \in Processes, RenderIndex(p) PROVE StateType'
    <2>1. [staging[p] EXCEPT !.index = catalogue] \in Tree
      BY TreeTypes
    <2>2. staging' = [staging EXCEPT ![p] = [staging[p] EXCEPT !.index = catalogue]]
            \/ staging' = staging
      BY <1>8, Zenon DEF RenderIndex
    <2>3. staging' \in [Processes -> Tree]
      BY <2>1, <2>2
    <2> QED
      BY <1>8, <2>3, BoundsAssumption DEF RenderIndex
  <1>9. ASSUME NEW p \in Processes, RenderTitles(p) PROVE StateType'
    <2>1. [staging[p] EXCEPT !.titles = catalogue] \in Tree
      BY TreeTypes
    <2>2. staging' = [staging EXCEPT ![p] = [staging[p] EXCEPT !.titles = catalogue]]
            \/ staging' = staging
      BY <1>9, Zenon DEF RenderTitles
    <2>3. staging' \in [Processes -> Tree]
      BY <2>1, <2>2
    <2> QED
      BY <1>9, <2>3, BoundsAssumption DEF RenderTitles
  <1>10. ASSUME NEW p \in Processes, Validate(p) PROVE StateType'
    BY <1>10, BoundsAssumption DEF Validate
  <1>11. ASSUME NEW p \in Processes, DropPrevious(p) PROVE StateType'
    BY <1>11, TreeTypes, BoundsAssumption DEF DropPrevious
  <1>12. ASSUME NEW p \in Processes, MoveOut(p) PROVE StateType'
    <2>1. had_site' \in [Processes -> BOOLEAN]
      BY <1>12, Zenon DEF MoveOut, Present
    <2>2. /\ pc' \in [Processes -> Labels]
          /\ faults' \in 0..MaxFaults /\ crashes' \in 0..MaxCrashes
      BY <1>12, BoundsAssumption DEF MoveOut
    <2>3. site' \in Tree /\ previous' \in Tree
      BY <1>12, TreeTypes, Zenon DEF MoveOut
    <2>4. /\ lock' \in Processes \cup {NoProcess} /\ catalogue' \in 0..MaxVersion
          /\ staging' \in [Processes -> Tree] /\ published' \in 0..MaxVersion
      BY <1>12 DEF MoveOut
    <2> QED
      BY <2>1, <2>2, <2>3, <2>4, Zenon
  <1>13. ASSUME NEW p \in Processes, MoveIn(p) PROVE StateType'
    <2>1. staging[p] \in Tree /\ staging[p].index \in 0..MaxVersion
      BY DEF Tree
    <2>2. /\ published' \in 0..MaxVersion /\ site' \in Tree /\ previous' \in Tree
          /\ staging' \in [Processes -> Tree]
      BY <1>13, <2>1, TreeTypes, BoundsAssumption DEF MoveIn, Newer
    <2>3. CASE Step(p, "moveIn", AfterCycle(p)) /\ UNCHANGED <<faults, crashes>>
      BY <1>13, <2>2, <2>3, AfterCycleType DEF MoveIn
    <2>4. CASE Fault(p, "moveIn", "rollback") \/ Fault(p, "moveIn", "cleanup")
      BY <1>13, <2>2, <2>4, BoundsAssumption DEF MoveIn
    <2> QED
      BY <1>13, <2>3, <2>4, Zenon DEF MoveIn
  <1>14. ASSUME NEW p \in Processes, Rollback(p) PROVE StateType'
    BY <1>14, TreeTypes, BoundsAssumption DEF Rollback
  <1>15. ASSUME NEW p \in Processes, Cleanup(p) PROVE StateType'
    BY <1>15, TreeTypes, AfterCycleType DEF Cleanup
  <1>16. ASSUME NEW p \in Processes, Crash(p) PROVE StateType'
    BY <1>16, TreeTypes, BoundsAssumption DEF Crash
  <1> QED
    BY <1>1, <1>2, <1>3, <1>4, <1>5, <1>6, <1>7, <1>8, <1>9, <1>10, <1>11, <1>12,
       <1>13, <1>14, <1>15, <1>16, Zenon DEF Next

LEMMA ExposedType == exposed \in BOOLEAN /\ [Next]_vars => exposed' \in BOOLEAN
  <1> SUFFICES ASSUME exposed \in BOOLEAN, [Next]_vars PROVE exposed' \in BOOLEAN
    OBVIOUS
  <1>1. CASE exposed' = exposed
    BY <1>1
  <1>2. CASE exposed' = TRUE \/ exposed' = FALSE
    BY <1>2
  <1>3. ASSUME NEW p \in Processes, Crash(p) PROVE exposed' \in BOOLEAN
    BY <1>3, Zenon DEF Crash
  <1>4. ASSUME NEW p \in Processes, EnterLock(p) \/ LeaveLock(p) \/ Edit(p) \/ BeginScan(p)
                                    \/ Commit(p) \/ EndScan(p)
        PROVE exposed' = exposed
    BY <1>4, Zenon DEF EnterLock, LeaveLock, Edit, BeginScan, Commit, EndScan, Fault, counters
  <1>5. ASSUME NEW p \in Processes, RenderIndex(p) \/ RenderTitles(p) \/ Validate(p)
                                    \/ DropPrevious(p) \/ MoveOut(p) \/ Cleanup(p)
        PROVE exposed' = exposed
    BY <1>5, Zenon DEF RenderIndex, RenderTitles, Validate, DropPrevious, MoveOut, Cleanup,
                       Fault, counters
  <1>6. ASSUME NEW p \in Processes, MoveIn(p) \/ Rollback(p)
        PROVE exposed' = exposed \/ exposed' = TRUE \/ exposed' = FALSE
    BY <1>6, Zenon DEF MoveIn, Rollback, Fault, counters
  <1>7. UNCHANGED vars => exposed' = exposed
    BY DEF vars, counters
  <1> QED
    BY <1>1, <1>2, <1>3, <1>4, <1>5, <1>6, <1>7, Zenon DEF Next

LEMMA TypeStep == TypeOK /\ [Next]_vars => TypeOK'
  BY StateTypeStep, ExposedType DEF TypeOK

\* Every variable of the publication stays in its type.
THEOREM TypeCorrect == Spec => []TypeOK
  BY TypeInit, TypeStep, PTL DEF Spec

-----------------------------------------------------------------------------
(* The invariant is inductive.                                             *)

LEMMA CoreInit == Init => CoreInv
  <1> SUFFICES ASSUME Init PROVE CoreInv
    OBVIOUS
  <1>1. LockExcludes /\ OnDisk
    BY DEF Init, LockExcludes, OnDisk, Present
  <1>2. ASSUME NEW p \in Processes PROVE Rendering(p) /\ Swapping(p)
    BY DEF Init, Rendering, Swapping
  <1> QED
    BY TypeInit, <1>1, <1>2 DEF CoreInv

\* While one process is inside the lock, every other is outside.
LEMMA AloneInside ==
    ASSUME CoreInv, NEW p \in Processes, pc[p] # "idle"
    PROVE  lock = p /\ \A q \in Processes \ {p} : pc[q] = "idle"
  BY DEF CoreInv, LockExcludes

LEMMA StepAlone ==
    ASSUME CoreInv, NEW p \in Processes, NEW from, NEW to, from # "idle", Step(p, from, to)
    PROVE  /\ lock = p /\ pc[p] = from /\ pc'[p] = to
           /\ \A q \in Processes \ {p} : pc[q] = "idle" /\ pc'[q] = "idle"
  BY AloneInside DEF CoreInv, TypeOK, StateType, Step

\* So what a process does to the invariant is what it does to its own part.
LEMMA OwnPart ==
    ASSUME TypeOK', NEW p \in Processes,
           \A q \in Processes \ {p} : pc'[q] = "idle",
           pc'[p] = "idle" \/ lock' = p,
           OnDisk', Rendering(p)', Swapping(p)'
    PROVE  CoreInv'
  <1>1. LockExcludes'
    BY DEF LockExcludes
  <1>2. ASSUME NEW q \in Processes PROVE Rendering(q)' /\ Swapping(q)'
    BY <1>2 DEF Rendering, Swapping
  <1> QED
    BY <1>1, <1>2 DEF CoreInv

LEMMA LockStep ==
    ASSUME CoreInv, TypeOK', NEW p \in Processes, EnterLock(p) \/ LeaveLock(p) \/ Crash(p)
    PROVE  CoreInv'
  <1>1. OnDisk'
    BY DEF EnterLock, LeaveLock, Crash, disk, CoreInv, OnDisk
  <1>2. /\ \A q \in Processes \ {p} : pc'[q] = "idle"
        /\ pc'[p] = "idle" \/ (pc'[p] = "locked" /\ lock' = p)
    <2>1. \A q \in Processes \ {p} : pc[q] = "idle"
      <3>1. CASE EnterLock(p)
        BY <3>1, ProcessAssumption DEF EnterLock, CoreInv, LockExcludes
      <3>2. CASE LeaveLock(p) \/ Crash(p)
        <4>1. pc[p] # "idle"
          BY <3>2 DEF LeaveLock, Crash, Step
        <4> QED
          BY <4>1, AloneInside
      <3> QED
        BY <3>1, <3>2
    <2> QED
      BY <2>1 DEF EnterLock, LeaveLock, Crash, Step, CoreInv, TypeOK, StateType
  <1> QED
    BY <1>1, <1>2, OwnPart DEF Rendering, Swapping

LEMMA CatalogueStep ==
    ASSUME CoreInv, TypeOK', NEW p \in Processes,
           Edit(p) \/ BeginScan(p) \/ Commit(p) \/ EndScan(p)
    PROVE  CoreInv'
  <1>0. TypeOK /\ OnDisk
    BY DEF CoreInv
  <1>1. pc[p] \in {"locked", "scan"} /\ UNCHANGED lock
    BY DEF Edit, BeginScan, Commit, EndScan, Step, Fault
  <1>2. lock = p /\ \A q \in Processes \ {p} : pc[q] = "idle"
    BY <1>1, AloneInside
  <1>3. /\ \A q \in Processes \ {p} : pc'[q] = "idle"
        /\ pc'[p] \in {"leaving", "locked", "scan", "renderIndex"}
        /\ pc'[p] = "renderIndex" => catalogue' > 0
    BY <1>0, <1>1, <1>2, AfterCycleType DEF Edit, BeginScan, Commit, EndScan, Step, Fault, TypeOK, StateType
  <1>4. OnDisk'
    BY <1>0 DEF Edit, BeginScan, Commit, EndScan, disk, OnDisk, TypeOK, StateType
  <1>5. Rendering(p)' /\ Swapping(p)'
    BY <1>3 DEF Rendering, Swapping
  <1> QED
    BY <1>1, <1>2, <1>3, <1>4, <1>5, OwnPart

LEMMA RenderStep ==
    ASSUME CoreInv, TypeOK', NEW p \in Processes, RenderIndex(p) \/ RenderTitles(p) \/ Validate(p)
    PROVE  CoreInv'
  <1>0. TypeOK /\ OnDisk /\ Rendering(p) /\ Swapping(p)
    BY DEF CoreInv
  <1>1. /\ pc[p] \in {"renderIndex", "renderTitles", "validate"}
        /\ UNCHANGED lock /\ UNCHANGED catalogue /\ UNCHANGED disk
    BY DEF RenderIndex, RenderTitles, Validate, Step, Fault
  <1>2. lock = p /\ \A q \in Processes \ {p} : pc[q] = "idle"
    BY <1>1, AloneInside
  <1>3. /\ \A q \in Processes \ {p} : pc'[q] = "idle"
        /\ pc'[p] \in {"renderTitles", "validate", "dropPrevious", "cleanup"}
    BY <1>0, <1>2 DEF RenderIndex, RenderTitles, Validate, Step, Fault, TypeOK, StateType
  <1>4. OnDisk'
    BY <1>0, <1>1 DEF disk, OnDisk
  <1>5. Rendering(p)'
    <2>1. catalogue > 0
      BY <1>0, <1>1 DEF Rendering
    <2>2. CASE pc'[p] = "cleanup"
      BY <2>2 DEF Rendering
    <2>3. CASE RenderIndex(p) /\ pc'[p] # "cleanup"
      <3>1. pc'[p] = "renderTitles"
        BY <1>0, <2>3 DEF RenderIndex, Step, Fault, TypeOK, StateType
      <3>2. staging' = [staging EXCEPT ![p] = [staging[p] EXCEPT !.index = catalogue]]
        BY <1>0, <2>3 DEF RenderIndex, Step, Fault, TypeOK, StateType
      <3>3. staging[p] \in Tree
        BY <1>0 DEF TypeOK, StateType
      <3>4. [staging[p] EXCEPT !.index = catalogue].index = catalogue
        BY <3>3 DEF Tree
      <3>5. staging'[p].index = catalogue
        BY <1>0, <3>2, <3>4 DEF TypeOK, StateType
      <3> QED
        BY <1>1, <2>1, <3>1, <3>5 DEF Rendering
    <2>4. CASE RenderTitles(p) /\ pc'[p] # "cleanup"
      <3>1. staging[p].index = catalogue /\ pc'[p] = "validate"
        BY <1>0, <2>4 DEF RenderTitles, Step, Fault, TypeOK, StateType, Rendering
      <3>2. staging' = [staging EXCEPT ![p] = [staging[p] EXCEPT !.titles = catalogue]]
        BY <1>0, <2>4 DEF RenderTitles, Step, Fault, TypeOK, StateType
      <3>3. staging[p] \in Tree
        BY <1>0 DEF TypeOK, StateType
      <3>4. [staging[p] EXCEPT !.titles = catalogue] = [index |-> catalogue, titles |-> catalogue]
        BY <3>1, <3>3 DEF Tree
      <3>5. staging'[p] = [index |-> catalogue, titles |-> catalogue]
        BY <1>0, <3>2, <3>4 DEF TypeOK, StateType
      <3> QED
        BY <1>1, <2>1, <3>1, <3>5 DEF Rendering
    <2>5. CASE Validate(p)
      <3>1. staging' = staging /\ pc[p] = "validate"
        BY <2>5 DEF Validate, Step, Fault
      <3> QED
        BY <1>0, <1>1, <1>3, <2>1, <3>1 DEF Rendering
    <2> QED
      BY <2>2, <2>3, <2>4, <2>5
  <1>6. Swapping(p)'
    BY <1>3 DEF Swapping
  <1> QED
    BY <1>1, <1>2, <1>3, <1>4, <1>5, <1>6, OwnPart

LEMMA PublishStep ==
    ASSUME CoreInv, TypeOK', NEW p \in Processes,
           DropPrevious(p) \/ MoveOut(p) \/ MoveIn(p) \/ Rollback(p) \/ Cleanup(p)
    PROVE  CoreInv'
  <1>0. TypeOK /\ OnDisk /\ Rendering(p) /\ Swapping(p)
    BY DEF CoreInv
  <1>1. /\ pc[p] \in {"dropPrevious", "moveOut", "moveIn", "rollback", "cleanup"}
        /\ UNCHANGED lock /\ UNCHANGED catalogue
    BY DEF DropPrevious, MoveOut, MoveIn, Rollback, Cleanup, Step, Fault
  <1>2. lock = p /\ \A q \in Processes \ {p} : pc[q] = "idle"
    BY <1>1, AloneInside
  <1>3. \A q \in Processes \ {p} : pc'[q] = "idle"
    BY <1>0, <1>2 DEF DropPrevious, MoveOut, MoveIn, Rollback, Cleanup, Step, Fault, TypeOK, StateType
  <1>4. CASE DropPrevious(p)
    <2>1. /\ pc[p] = "dropPrevious" /\ previous' \in {previous, NoTree}
          /\ UNCHANGED <<staging, site, published>>
      BY <1>4 DEF DropPrevious, Step, Fault
    <2>2. pc'[p] = "cleanup" \/ (pc'[p] = "moveOut" /\ previous' = NoTree)
      BY <1>0, <1>4 DEF DropPrevious, Step, Fault, TypeOK, StateType
    <2>3. OnDisk'
      BY <1>0, <1>1, <2>1 DEF OnDisk, Present
    <2>4. Rendering(p)' /\ Swapping(p)'
      BY <1>0, <1>1, <2>1, <2>2 DEF Rendering, Swapping
    <2> QED
      BY <1>1, <1>2, <1>3, <2>3, <2>4, OwnPart
  <1>5. CASE MoveOut(p)
    <2>1. /\ pc[p] = "moveOut" /\ UNCHANGED <<staging, published>>
          /\ \/ pc'[p] = "moveIn" /\ site' = NoTree
                /\ previous' = IF Present(site) THEN site ELSE previous
             \/ pc'[p] = "cleanup" /\ UNCHANGED <<site, previous>>
      BY <1>0, <1>5 DEF MoveOut, Step, Fault, TypeOK, StateType
    <2>2. OnDisk'
      BY <1>0, <1>1, <2>1 DEF OnDisk, Present, Whole
    <2>3. had_site'[p] = Present(site)
      BY <1>0, <1>5, Zenon DEF MoveOut, TypeOK, StateType
    <2>4. pc[p] = "moveOut" => previous = NoTree
      BY <1>0 DEF Swapping
    <2>5. previous' # NoTree => had_site'[p]
      BY <2>1, <2>3, <2>4, Zenon DEF Present
    <2>6. Rendering(p)' /\ Swapping(p)'
      BY <1>0, <1>1, <2>1, <2>5 DEF Rendering, Swapping, OnDisk, Present
    <2> QED
      BY <1>1, <1>2, <1>3, <2>2, <2>6, OwnPart
  <1>6. CASE MoveIn(p)
    <2>1. CASE UNCHANGED <<site, staging, published>>
      <3>1. /\ pc[p] = "moveIn" /\ UNCHANGED previous
            /\ \/ pc'[p] \in {"cleanup", "locked", "leaving"}
               \/ pc'[p] = "rollback" /\ Present(previous)
        BY <1>0, <1>6, AfterCycleType DEF MoveIn, Step, Fault, TypeOK, StateType
      <3>2. OnDisk'
        BY <1>0, <1>1, <2>1, <3>1 DEF OnDisk
      <3>3. Rendering(p)' /\ Swapping(p)'
        BY <1>0, <1>1, <2>1, <3>1 DEF Rendering, Swapping
      <3> QED
        BY <1>1, <1>2, <1>3, <3>2, <3>3, OwnPart
    <2>2. CASE /\ Step(p, "moveIn", AfterCycle(p))
               /\ site' = staging[p] /\ published' = Newer(staging[p].index, published)
      <3>1. pc[p] = "moveIn" /\ pc'[p] \in {"locked", "leaving"} /\ UNCHANGED previous
        BY <1>0, <1>6, <2>2, AfterCycleType DEF MoveIn, Step, TypeOK, StateType
      <3>2. staging[p] = [index |-> catalogue, titles |-> catalogue] /\ catalogue > 0
        BY <1>0, <3>1 DEF Rendering
      <3>3. published' = catalogue
        BY <1>0, <2>2, <3>2 DEF Newer, OnDisk, TypeOK, StateType
      <3>4. OnDisk'
        BY <1>0, <1>1, <2>2, <3>1, <3>2, <3>3 DEF OnDisk, Whole, TypeOK, StateType
      <3>5. Rendering(p)' /\ Swapping(p)'
        BY <3>1 DEF Rendering, Swapping
      <3> QED
        BY <1>1, <1>2, <1>3, <3>4, <3>5, OwnPart
    <2> QED
      BY <1>6, <2>1, <2>2, Zenon DEF MoveIn
  <1>7. CASE Rollback(p)
    <2>1. /\ pc[p] = "rollback" /\ pc'[p] = "cleanup" /\ UNCHANGED published
          /\ \/ site' = previous /\ previous' = NoTree
             \/ UNCHANGED <<site, previous>>
      BY <1>0, <1>7 DEF Rollback, Step, Fault, TypeOK, StateType
    <2>2. Whole(previous) /\ previous.index = published
      BY <1>0, <2>1 DEF OnDisk, Swapping
    <2>3. OnDisk'
      BY <1>0, <1>1, <2>1, <2>2 DEF OnDisk, Present
    <2>4. Rendering(p)' /\ Swapping(p)'
      BY <2>1 DEF Rendering, Swapping
    <2> QED
      BY <1>1, <1>2, <1>3, <2>3, <2>4, OwnPart
  <1>8. CASE Cleanup(p)
    <2>1. pc'[p] \in {"locked", "leaving"} /\ UNCHANGED disk
      BY <1>0, <1>8, AfterCycleType DEF Cleanup, Step, TypeOK, StateType
    <2>2. OnDisk'
      BY <1>0, <1>1, <2>1 DEF OnDisk, disk
    <2>3. Rendering(p)' /\ Swapping(p)'
      BY <2>1 DEF Rendering, Swapping
    <2> QED
      BY <1>1, <1>2, <1>3, <2>2, <2>3, OwnPart
  <1> QED
    BY <1>4, <1>5, <1>6, <1>7, <1>8

LEMMA CoreStep == CoreInv /\ [Next]_vars => CoreInv'
  <1> SUFFICES ASSUME CoreInv, [Next]_vars PROVE CoreInv'
    OBVIOUS
  <1>1. TypeOK'
    BY TypeStep DEF CoreInv
  <1>2. CASE UNCHANGED vars
    BY <1>1, <1>2
       DEF vars, disk, counters, CoreInv, LockExcludes, OnDisk, Rendering, Swapping
  <1>3. CASE Next
    BY <1>1, <1>3, LockStep, CatalogueStep, RenderStep, PublishStep, Zenon DEF Next
  <1> QED
    BY <1>2, <1>3

-----------------------------------------------------------------------------
(* Exposure: what each kind of step does to the last good site.            *)

\* Outside a swap the site is in its place, or exposed.
LEMMA Settled ==
    ASSUME IInv, NEW p \in Processes, pc[p] # "idle", ~MidSwap(p)
    PROVE  /\ \A q \in Processes : ~MidSwap(q)
           /\ published > 0 /\ ~exposed => Present(site)
  BY AloneInside DEF IInv, Exposure, MidSwap

\* Steps that neither touch the trees nor begin or end a swap.
QuietStep(p) ==
    \/ EnterLock(p) \/ LeaveLock(p) \/ Edit(p) \/ BeginScan(p) \/ Commit(p) \/ EndScan(p)
    \/ RenderIndex(p) \/ RenderTitles(p) \/ Validate(p) \/ Cleanup(p)

LEMMA QuietFrame ==
    ASSUME NEW p \in Processes, QuietStep(p)
    PROVE  UNCHANGED disk /\ UNCHANGED exposed
  <1>1. CASE EnterLock(p) \/ LeaveLock(p) \/ Edit(p) \/ BeginScan(p) \/ Commit(p)
    BY <1>1, Zenon DEF EnterLock, LeaveLock, Edit, BeginScan, Commit, counters
  <1>2. CASE EndScan(p) \/ RenderIndex(p) \/ RenderTitles(p)
    BY <1>2, Zenon DEF EndScan, RenderIndex, RenderTitles, Fault, counters
  <1>3. CASE Validate(p) \/ Cleanup(p)
    BY <1>3, Zenon DEF Validate, Cleanup, Fault, counters
  <1> QED
    BY <1>1, <1>2, <1>3 DEF QuietStep

LEMMA QuietControl ==
    ASSUME TypeOK, NEW p \in Processes, QuietStep(p), NEW q \in Processes
    PROVE  MidSwap(q)' <=> MidSwap(q)
  <1>1. previous' = previous
    BY QuietFrame DEF disk
  <1>2. pc'[q] \in {"moveIn", "rollback"} <=> pc[q] \in {"moveIn", "rollback"}
    BY AfterCycleType
       DEF QuietStep, EnterLock, LeaveLock, Edit, BeginScan, Commit, EndScan, RenderIndex,
           RenderTitles, Validate, Cleanup, Step, Fault, TypeOK, StateType
  <1> QED
    BY <1>1, <1>2 DEF MidSwap, Present

LEMMA ExposureQuiet ==
    ASSUME TypeOK, Exposure, NEW p \in Processes, QuietStep(p)
    PROVE  Exposure'
  BY QuietFrame, QuietControl, Zenon DEF Exposure, Present, disk

LEMMA ExposureDrop ==
    ASSUME IInv, NEW p \in Processes, DropPrevious(p)
    PROVE  Exposure'
  <1>1. pc[p] = "dropPrevious" /\ site' = site /\ published' = published
    BY DEF DropPrevious, Step, Fault
  <1>2. exposed' = exposed
    BY Zenon DEF DropPrevious, Fault, counters
  <1>3. \A q \in Processes : ~MidSwap(q)'
    BY <1>1, AloneInside
       DEF DropPrevious, Step, Fault, MidSwap, IInv, CoreInv, TypeOK, StateType
  <1>4. published > 0 /\ ~exposed => Present(site)
    BY <1>1, Settled DEF MidSwap
  <1> QED
    BY <1>1, <1>2, <1>3, <1>4, Zenon DEF IInv, Exposure, Present

LEMMA ExposureMoveOut ==
    ASSUME IInv, NEW p \in Processes, MoveOut(p)
    PROVE  Exposure'
  <1>1. pc[p] = "moveOut" /\ published' = published
    BY DEF MoveOut, Step, Fault
  <1>2. exposed' = exposed
    BY Zenon DEF MoveOut, Fault, counters
  <1>3. /\ \A q \in Processes \ {p} : ~MidSwap(q)'
        /\ published > 0 /\ ~exposed => Present(site)
    BY <1>1, AloneInside, Settled
       DEF MoveOut, Step, Fault, MidSwap, IInv, CoreInv, TypeOK, StateType
  <1>4. CASE pc'[p] = "moveIn" /\ site' = NoTree /\ previous' = IF Present(site) THEN site ELSE previous
    <2>1. previous = NoTree
      BY <1>1 DEF IInv, CoreInv, Swapping
    <2>2. ~Present(site)' /\ (MidSwap(p)' <=> Present(site))
      BY <1>4, <2>1 DEF MidSwap, Present
    <2>3. Present(site) => ~exposed
      BY DEF IInv, Exposure
    <2> QED
      BY <1>1, <1>2, <1>3, <2>2, <2>3, Zenon DEF Exposure
  <1>5. CASE pc'[p] = "cleanup" /\ UNCHANGED <<site, previous>>
    <2>1. ~MidSwap(p)' /\ (Present(site)' <=> Present(site))
      BY <1>5 DEF MidSwap, Present
    <2> QED
      BY <1>1, <1>2, <1>3, <2>1, Zenon DEF IInv, Exposure
  <1>6. pc' = [pc EXCEPT ![p] = "moveIn"] \/ pc' = [pc EXCEPT ![p] = "cleanup"]
    BY DEF MoveOut, Step, Fault
  <1> QED
    BY <1>4, <1>5, <1>6
       DEF MoveOut, Step, Fault, IInv, CoreInv, TypeOK, StateType

LEMMA ExposureMoveIn ==
    ASSUME IInv, NEW p \in Processes, MoveIn(p)
    PROVE  Exposure'
  <1>1. pc[p] = "moveIn"
    BY DEF MoveIn, Step, Fault
  <1>2. \A q \in Processes \ {p} : ~MidSwap(q)' /\ ~MidSwap(q)
    BY <1>1, AloneInside
       DEF MoveIn, Step, Fault, MidSwap, IInv, CoreInv, TypeOK, StateType
  <1>3. previous' = previous
    BY DEF MoveIn
  <1>4. CASE site' = staging[p] /\ exposed' = FALSE /\ Step(p, "moveIn", AfterCycle(p))
    <2>1. Present(site)'
      BY <1>1, <1>4 DEF IInv, CoreInv, Rendering, Present, NoTree, TypeOK, StateType
    <2>2. ~MidSwap(p)'
      BY <1>4, AfterCycleType DEF Step, MidSwap, IInv, CoreInv, TypeOK, StateType
    <2> QED
      BY <1>2, <1>4, <2>1, <2>2, Zenon DEF Exposure
  <1>5. CASE /\ UNCHANGED <<site, published>>
             /\ Fault(p, "moveIn", IF had_site[p] /\ Present(previous) /\ ~Present(site)
                                   THEN "rollback" ELSE "cleanup")
    <2>1. exposed' = exposed
      BY <1>5, Zenon DEF Fault
    <2>2. ~Present(site)
      BY <1>1 DEF IInv, CoreInv, Swapping, Present
    <2>3. MidSwap(p)' => MidSwap(p)
      BY <1>1, <1>3 DEF MidSwap, Present
    <2>4. had_site[p] /\ MidSwap(p) => MidSwap(p)'
      BY <1>1, <1>3, <1>5, <2>2
         DEF Fault, Step, MidSwap, Present, IInv, CoreInv, TypeOK, StateType
    <2>5. MidSwap(p) => had_site[p]
      BY <1>1 DEF IInv, CoreInv, Swapping, MidSwap
    <2> QED
      BY <1>2, <1>5, <2>1, <2>3, <2>4, <2>5, Zenon DEF IInv, Exposure, Present
  <1> QED
    BY <1>4, <1>5, Zenon DEF MoveIn

LEMMA ExposureRollback ==
    ASSUME IInv, NEW p \in Processes, Rollback(p)
    PROVE  Exposure'
  <1>1. pc[p] = "rollback" /\ published' = published
    BY DEF Rollback, Step
  <1>2. \A q \in Processes : ~MidSwap(q)'
    BY <1>1, AloneInside
       DEF Rollback, Step, MidSwap, IInv, CoreInv, TypeOK, StateType
  <1>3. Present(previous) /\ MidSwap(p) /\ ~Present(site)
    BY <1>1 DEF IInv, CoreInv, Swapping, MidSwap, Present
  <1>4. ~exposed
    BY <1>3 DEF IInv, Exposure
  <1>5. CASE site' = previous /\ UNCHANGED counters
    <2>1. exposed' = exposed /\ Present(site)'
      BY <1>3, <1>5, Zenon DEF counters, Present
    <2> QED
      BY <1>2, <1>4, <2>1, Zenon DEF Exposure
  <1>6. CASE exposed' = TRUE /\ UNCHANGED site
    BY <1>2, <1>3, <1>6, Zenon DEF Exposure, Present
  <1> QED
    BY <1>5, <1>6, Zenon DEF Rollback

LEMMA ExposureCrash ==
    ASSUME IInv, NEW p \in Processes, Crash(p)
    PROVE  Exposure'
  <1>1. pc[p] # "idle" /\ UNCHANGED disk
    BY DEF Crash
  <1>2. \A q \in Processes : ~MidSwap(q)'
    BY <1>1, AloneInside DEF Crash, MidSwap, IInv, CoreInv, TypeOK, StateType
  <1>3. (exposed => exposed') /\ (MidSwap(p) => exposed') /\ (exposed' => exposed \/ MidSwap(p))
    BY Zenon DEF Crash
  <1>4. MidSwap(p) => ~Present(site)
    BY DEF IInv, CoreInv, Swapping, MidSwap, Present
  <1>5. ~MidSwap(p) => (published > 0 /\ ~exposed => Present(site))
    BY <1>1, Settled
  <1>6. (exposed => ~Present(site)) /\ (Present(site)' <=> Present(site)) /\ published' = published
    BY <1>1 DEF IInv, Exposure, Present, disk
  <1> QED
    BY <1>2, <1>3, <1>4, <1>5, <1>6, Zenon DEF Exposure

LEMMA ExposureStep == IInv /\ [Next]_vars => Exposure'
  <1> SUFFICES ASSUME IInv, [Next]_vars PROVE Exposure'
    OBVIOUS
  <1>1. CASE UNCHANGED vars
    <2>1. UNCHANGED <<pc, site, previous, published, exposed>>
      BY <1>1 DEF vars, disk, counters
    <2> QED
      BY <2>1, Zenon DEF IInv, Exposure, MidSwap, Present
  <1>2. ASSUME NEW p \in Processes, QuietStep(p) PROVE Exposure'
    BY <1>2, ExposureQuiet DEF IInv, CoreInv
  <1> QED
    BY <1>1, <1>2, ExposureDrop, ExposureMoveOut, ExposureMoveIn, ExposureRollback,
       ExposureCrash, Zenon DEF Next, QuietStep

LEMMA InvInit == Init => IInv
  BY CoreInit DEF Init, IInv, Exposure, MidSwap, Present

\* The lock, what was read under it, the trees, and the exposure of the last
\* good site are an inductive invariant.
THEOREM Invariant == Spec => []IInv
  <1>1. IInv /\ [Next]_vars => IInv'
    BY CoreStep, ExposureStep DEF IInv
  <1> QED
    BY InvInit, <1>1, PTL DEF Spec

\* Crashes included, only one process is ever past InstanceLock.__enter__.
THEOREM LockIsExclusive == Spec => []LockExcludes
  BY Invariant, PTL DEF IInv, CoreInv

\* Every page of the published site shows one version of the catalogue.
THEOREM PublishedSiteIsWhole == Spec => []SiteIsWhole
  <1>1. IInv => SiteIsWhole
    BY DEF IInv, CoreInv, OnDisk, SiteIsWhole
  <1> QED
    BY Invariant, <1>1, PTL

\* A rollback or a crash never brings an older generation back.
THEOREM LatestIsServed == Spec => []ServedIsLatest
  <1>1. IInv => ServedIsLatest
    BY DEF IInv, CoreInv, OnDisk, ServedIsLatest
  <1> QED
    BY Invariant, <1>1, PTL

\* The newest published site is on disk, in its place or as the backup, unless
\* a swap was left half done.
THEOREM GoodSiteIsRetained == Spec => []RetainsGoodSite
  <1>1. ASSUME IInv PROVE RetainsGoodSite
    <2> SUFFICES ASSUME published > 0, ~exposed
                 PROVE  Whole(LastGood) /\ LastGood.index = published
      BY DEF RetainsGoodSite
    <2>1. CASE Present(site)
      BY <1>1, <2>1 DEF IInv, CoreInv, OnDisk, LastGood
    <2>2. CASE ~Present(site)
      <3>1. PICK p \in Processes : MidSwap(p)
        BY <1>1, <2>2 DEF IInv, Exposure
      <3> QED
        BY <1>1, <2>2, <3>1 DEF IInv, CoreInv, OnDisk, Swapping, MidSwap, LastGood
    <2> QED
      BY <2>1, <2>2
  <1> QED
    BY Invariant, <1>1, PTL

\* Failures leave the published site in its place, with the same exception.
THEOREM SiteStaysIntact == Spec => []SiteIntact
  <1>1. IInv => SiteIntact
    BY Zenon DEF IInv, Exposure, SiteIntact
  <1> QED
    BY Invariant, <1>1, PTL

-----------------------------------------------------------------------------
(* Refinement of PublishedSite.                                            *)

LEMMA RefinementInit == Init => Promise!Init
  <1> SUFFICES ASSUME Init PROVE Promise!Init
    OBVIOUS
  <1>1. LastGood.index = 0 /\ published = 0
    BY DEF Init, LastGood, NoTree
  <1> QED
    BY <1>1 DEF Init, Promise!Init

\* A step that leaves the trees and the exposure alone is not seen.
LEMMA Unseen ==
    ASSUME LastGood' = LastGood, published' = published, exposed' = exposed
    PROVE  UNCHANGED Promise!vars
  BY Zenon DEF Promise!vars

LEMMA RefinementDrop ==
    ASSUME IInv, NEW p \in Processes, DropPrevious(p)
    PROVE  [Promise!Next]_(Promise!vars)
  <1>1. /\ pc[p] = "dropPrevious" /\ site' = site /\ published' = published
        /\ previous' = previous \/ previous' = NoTree
    BY DEF DropPrevious, Step, Fault
  <1>2. exposed' = exposed
    BY Zenon DEF DropPrevious, Fault, counters
  <1>3. published > 0 /\ ~exposed => Present(site)
    BY <1>1, Settled DEF MidSwap
  <1>4. CASE Present(site) \/ previous' = previous
    BY <1>1, <1>2, <1>4, Unseen, Zenon DEF LastGood, Present
  <1>5. CASE ~Present(site) /\ exposed /\ previous' = NoTree
    <2>1. LastGood'.index = 0
      BY <1>1, <1>5 DEF LastGood, Present, NoTree
    <2> QED
      BY <1>1, <1>2, <1>5, <2>1, Zenon DEF Promise!Next, Promise!Lose
  <1>6. CASE ~Present(site) /\ ~exposed /\ previous' = NoTree
    <2>1. previous = NoTree
      BY <1>3, <1>6 DEF IInv, CoreInv, OnDisk, Present
    <2> QED
      BY <1>1, <1>2, <1>6, <2>1, Unseen, Zenon DEF LastGood, Present
  <1> QED
    BY <1>1, <1>4, <1>5, <1>6, Zenon

LEMMA RefinementMoveOut ==
    ASSUME IInv, NEW p \in Processes, MoveOut(p)
    PROVE  [Promise!Next]_(Promise!vars)
  <1>1. /\ published' = published /\ pc[p] = "moveOut"
        /\ \/ site' = NoTree /\ previous' = IF Present(site) THEN site ELSE previous
           \/ site' = site /\ previous' = previous
    BY DEF MoveOut, Step, Fault
  <1>2. exposed' = exposed
    BY Zenon DEF MoveOut, Fault, counters
  <1>3. previous = NoTree
    BY <1>1 DEF IInv, CoreInv, Swapping
  <1>4. LastGood' = LastGood
    BY <1>1, <1>3 DEF LastGood, Present
  <1> QED
    BY <1>1, <1>2, <1>4, Unseen

LEMMA RefinementMoveIn ==
    ASSUME IInv, NEW p \in Processes, MoveIn(p)
    PROVE  [Promise!Next]_(Promise!vars)
  <1>1. pc[p] = "moveIn" /\ previous' = previous
    BY DEF MoveIn, Step, Fault
  <1>2. CASE /\ site' = staging[p] /\ published' = Newer(staging[p].index, published)
             /\ exposed' = FALSE
    <2>1. staging[p] = [index |-> catalogue, titles |-> catalogue] /\ catalogue > 0
      BY <1>1 DEF IInv, CoreInv, Rendering
    <2>2. catalogue \in Nat /\ published \in Nat /\ published <= catalogue
      BY BoundsAssumption DEF IInv, CoreInv, OnDisk, TypeOK, StateType
    <2>3. published' = catalogue
      BY <1>2, <2>1, <2>2 DEF Newer
    <2>4. LastGood'.index = catalogue
      BY <1>2, <2>1, <2>2 DEF LastGood, Present, NoTree
    <2>5. published' \in Nat \ {0} /\ published' >= published /\ LastGood'.index = published'
      BY <2>1, <2>2, <2>3, <2>4
    <2> QED
      BY <1>2, <2>5, Zenon DEF Promise!Next, Promise!Publish
  <1>3. CASE /\ UNCHANGED <<site, published>>
             /\ Fault(p, "moveIn", IF had_site[p] /\ Present(previous) /\ ~Present(site)
                                   THEN "rollback" ELSE "cleanup")
    <2>1. exposed' = exposed
      BY <1>3, Zenon DEF Fault
    <2> QED
      BY <1>1, <1>3, <2>1, Unseen, Zenon DEF LastGood, Present
  <1> QED
    BY <1>2, <1>3, Zenon DEF MoveIn

\* In the middle of a swap the last good site is the backup.
LEMMA Backup ==
    ASSUME IInv, NEW p \in Processes, MidSwap(p)
    PROVE  site = NoTree /\ LastGood = previous /\ LastGood.index > 0
  BY DEF IInv, CoreInv, OnDisk, Swapping, MidSwap, LastGood, Present, Whole

LEMMA RefinementRollback ==
    ASSUME IInv, NEW p \in Processes, Rollback(p)
    PROVE  [Promise!Next]_(Promise!vars)
  <1>1. pc[p] = "rollback" /\ published' = published
    BY DEF Rollback, Step
  <1>2. MidSwap(p)
    BY <1>1 DEF IInv, CoreInv, Swapping, MidSwap
  <1>3. CASE site' = previous /\ UNCHANGED counters
    <2>1. exposed' = exposed
      BY <1>3, Zenon DEF counters
    <2>2. LastGood' = LastGood
      BY <1>2, <1>3, Backup DEF LastGood, MidSwap, Present
    <2> QED
      BY <1>1, <2>1, <2>2, Unseen
  <1>4. CASE exposed' = TRUE /\ UNCHANGED <<site, previous>>
    <2>1. LastGood' = LastGood
      BY <1>4 DEF LastGood, Present
    <2> QED
      BY <1>1, <1>2, <1>4, <2>1, Backup, Zenon DEF Promise!Next, Promise!Expose
  <1> QED
    BY <1>3, <1>4, Zenon DEF Rollback

LEMMA RefinementCrash ==
    ASSUME IInv, NEW p \in Processes, Crash(p)
    PROVE  [Promise!Next]_(Promise!vars)
  <1>1. LastGood' = LastGood /\ published' = published
    BY DEF Crash, disk, LastGood, Present
  <1>2. exposed' = (exposed \/ MidSwap(p))
    BY Zenon DEF Crash
  <1>3. CASE MidSwap(p)
    <2>1. exposed' = TRUE
      BY <1>2, <1>3, Zenon
    <2> QED
      BY <1>1, <1>3, <2>1, Backup, Zenon DEF Promise!Next, Promise!Expose
  <1>4. CASE ~MidSwap(p)
    <2>1. exposed \in BOOLEAN
      BY DEF IInv, CoreInv, TypeOK
    <2>2. exposed' = exposed
      BY <1>2, <1>4, <2>1, Zenon
    <2> QED
      BY <1>1, <2>2, Unseen
  <1> QED
    BY <1>3, <1>4

\* Publication implements PublishedSite: complete generations, each no older
\* than any before, and nothing lost but after a swap left half done.
THEOREM Refinement == Spec => ImplementsPublishedSite
  <1>1. IInv /\ [Next]_vars => [Promise!Next]_(Promise!vars)
    <2> SUFFICES ASSUME IInv, [Next]_vars PROVE [Promise!Next]_(Promise!vars)
      OBVIOUS
    <2>1. CASE UNCHANGED vars
      <3>1. UNCHANGED <<site, previous, published, exposed>>
        BY <2>1 DEF vars, disk, counters
      <3> QED
        BY <3>1, Unseen, Zenon DEF LastGood, Present
    <2>2. ASSUME NEW p \in Processes, QuietStep(p)
          PROVE  [Promise!Next]_(Promise!vars)
      <3>1. UNCHANGED <<site, previous, published, exposed>>
        BY <2>2, QuietFrame DEF disk
      <3> QED
        BY <3>1, Unseen, Zenon DEF LastGood, Present
    <2> QED
      BY <2>1, <2>2, RefinementDrop, RefinementMoveOut, RefinementMoveIn,
         RefinementRollback, RefinementCrash, Zenon DEF Next, QuietStep
  <1> QED
    BY RefinementInit, Invariant, <1>1, PTL DEF Spec, ImplementsPublishedSite, Promise!Spec

-----------------------------------------------------------------------------
(* Health: the invariant of the composition.                               *)

\* A service has a process id from the lock it takes to its end.
Alive(p) == pidOf[p] # NoPid <=> pc[p] # "idle"

\* A cycle runs when a scan was announced, and success is reported, with no
\* step between, by whoever published.
Errand(p) ==
    /\ pc[p] \notin {"idle", "locked"} => todo[p] = "scan"
    /\ todo[p] = "ready" => pc[p] = "locked" /\ Present(site)

\* A service that the file calls ready has done nothing since it said so.
Said(p) ==
    ~recycled /\ status.state = "ready" /\ pidOf[p] = status.pid /\ pidOf[p] # NoPid
        => pc[p] = "locked" /\ Present(site)

\* A stranger's id is nobody else's, and in the file only if it was recycled.
Distinct ==
    stranger # NoPid =>
        /\ \A p \in Services : pidOf[p] # stranger
        /\ ~recycled => stranger # status.pid

HInv ==
    /\ IInv
    /\ HealthTypeOK
    /\ Distinct
    /\ \A p \in Services : Alive(p) /\ Errand(p) /\ Said(p)

-----------------------------------------------------------------------------
(* The part of the state that is SitePublication's.                        *)

LEMMA ServiceIsProcess == Services \subseteq Processes
BY DEF Processes, Indexers

\* Writing status.json can fail, which SitePublication does not see.
OnlyFaults ==
    /\ UNCHANGED <<pc, lock, catalogue, staging, disk, had_site, crashes, exposed>>
    /\ faults' = faults \/ (faults < MaxFaults /\ faults' = faults + 1)

LEMMA OnlyFaultsStep == ASSUME IInv, OnlyFaults PROVE IInv'
<1>1. TypeOK'
  BY BoundsAssumption DEF IInv, CoreInv, OnlyFaults, TypeOK, StateType, disk
<1>2. LockExcludes' /\ OnDisk' /\ \A p \in Processes : Rendering(p)' /\ Swapping(p)'
  BY DEF IInv, CoreInv, OnlyFaults, LockExcludes, OnDisk, Rendering, Swapping, disk
<1>3. Exposure'
  BY DEF IInv, OnlyFaults, Exposure, MidSwap, disk
<1> QED BY <1>1, <1>2, <1>3 DEF IInv, CoreInv

LEMMA CycleIsNext ==
    ASSUME NEW p \in Processes, CycleStep(p)
    PROVE  Next
BY DEF CycleStep, Next

LEMMA SiteStep == ASSUME HealthNext PROVE Next \/ OnlyFaults
<1>1. ASSUME NEW p \in Services, Start(p) \/ Stop(p) \/ Kill(p) \/ Announce(p) PROVE Next
  BY <1>1, ServiceIsProcess DEF Start, Stop, Kill, Announce, Next
<1>2. ASSUME NEW p \in Services, Report(p) PROVE OnlyFaults
  BY <1>2 DEF Report, WriteFails, OnlyFaults, counters
<1>3. ASSUME NEW p \in Services, AnnounceFails(p) PROVE OnlyFaults
  BY <1>3 DEF AnnounceFails, WriteFails, OnlyFaults
<1>4. ASSUME NEW p \in Services, RunCycle(p) PROVE Next
  BY <1>4, ServiceIsProcess, CycleIsNext DEF RunCycle
<1>5. ASSUME NEW p \in Processes \ Services, CommandStep(p) PROVE Next
  BY <1>5, CycleIsNext DEF CommandStep, Next
<1>6. ASSUME NEW p \in Processes \ Services, CommandComesOrDies(p) PROVE Next
  BY <1>6 DEF CommandComesOrDies, Next
<1>7. ASSUME NEW p \in Processes, EditCatalogue(p) PROVE Next
  BY <1>7 DEF EditCatalogue, Next
<1>8. StrangerComes \/ StrangerGoes => OnlyFaults
  BY DEF StrangerComes, StrangerGoes, OnlyFaults, vars, counters
<1> QED BY <1>1, <1>2, <1>3, <1>4, <1>5, <1>6, <1>7, <1>8 DEF HealthNext

LEMMA SiteInvStep == ASSUME IInv, HealthNext PROVE IInv'
<1>1. CASE Next
  BY <1>1, CoreStep, ExposureStep DEF IInv
<1>2. CASE OnlyFaults
  BY <1>2, OnlyFaultsStep
<1> QED BY <1>1, <1>2, SiteStep

-----------------------------------------------------------------------------
(* Who can take a step.                                                    *)

\* While a process is inside the lock, or enters it, every service but itself
\* is idle, has no process id and nothing to report.
LEMMA OthersAreIdle ==
    ASSUME HInv, NEW p \in Processes, pc[p] # "idle" \/ lock = NoProcess,
           NEW q \in Services, q # p
    PROVE  pc[q] = "idle" /\ pidOf[q] = NoPid /\ todo[q] # "ready"
<1>1. pc[q] = "idle"
  BY ServiceIsProcess, ProcessAssumption DEF HInv, IInv, CoreInv, LockExcludes
<1> QED BY <1>1 DEF HInv, Alive, Errand

\* The steps of a cycle happen inside it, and it ends with a site in place when
\* it ends after the second rename.
LEMMA CycleFacts ==
    ASSUME IInv, NEW p \in Processes, CycleStep(p)
    PROVE  /\ pc[p] \notin {"idle", "locked"} /\ pc'[p] # "idle"
           /\ \A q \in Processes \ {p} : pc'[q] = pc[q]
           /\ pc[p] = "moveIn" /\ pc'[p] = "locked" => Present(site')
<1>1. TypeOK /\ Rendering(p)
  BY DEF IInv, CoreInv
<1>2. CASE EndScan(p) \/ RenderIndex(p) \/ RenderTitles(p) \/ Validate(p) \/ DropPrevious(p)
  BY <1>1, <1>2, AfterCycleType
     DEF EndScan, RenderIndex, RenderTitles, Validate, DropPrevious, Step, Fault,
         TypeOK, StateType
<1>3. CASE MoveOut(p) \/ Rollback(p) \/ Cleanup(p)
  BY <1>1, <1>3, AfterCycleType
     DEF MoveOut, Rollback, Cleanup, Step, Fault, TypeOK, StateType
<1>4. CASE MoveIn(p)
  <2>1. CASE Step(p, "moveIn", AfterCycle(p)) /\ site' = staging[p]
    <3>1. Present(staging[p])
      BY <1>1, <2>1 DEF Rendering, Step, Present, NoTree, TypeOK, StateType
    <3> QED BY <1>1, <2>1, <3>1, AfterCycleType DEF Step, TypeOK, StateType, Present
  <2>2. CASE Fault(p, "moveIn", "rollback") \/ Fault(p, "moveIn", "cleanup")
    BY <1>1, <2>2 DEF Fault, Step, TypeOK, StateType
  <2> QED BY <1>4, <2>1, <2>2, Zenon DEF MoveIn
<1> QED BY <1>2, <1>3, <1>4 DEF CycleStep

-----------------------------------------------------------------------------
(* Every step preserves the invariant.                                     *)

\* What happens inside the lock happens to its holder.
LEMMA HolderStep ==
    ASSUME HInv, IInv', HealthTypeOK', NEW p \in Services,
           pc[p] # "idle" \/ lock = NoProcess,
           \A q \in Services \ {p} :
               pc'[q] = pc[q] /\ pidOf'[q] = pidOf[q] /\ todo'[q] = todo[q],
           Alive(p)', Errand(p)', Said(p)', Distinct'
    PROVE  HInv'
<1>1. ASSUME NEW q \in Services, q # p PROVE Alive(q)' /\ Errand(q)' /\ Said(q)'
  <2>1. pc'[q] = "idle" /\ pidOf'[q] = NoPid /\ todo'[q] # "ready"
    BY <1>1, OthersAreIdle, ServiceIsProcess
  <2> QED BY <2>1 DEF Alive, Errand, Said
<1> QED BY <1>1 DEF HInv

\* Where no service is touched and none is inside the lock.
LEMMA CommandHolds ==
    ASSUME HInv, IInv', HealthTypeOK', NEW p \in Processes \ Services,
           pc[p] # "idle" \/ lock = NoProcess,
           \A q \in Services : pc'[q] = pc[q], UNCHANGED healthVars
    PROVE  HInv'
<1>1. ASSUME NEW q \in Services PROVE Alive(q)' /\ Errand(q)' /\ Said(q)'
  <2>1. pc'[q] = "idle" /\ pidOf'[q] = NoPid /\ todo'[q] # "ready"
    BY <1>1, OthersAreIdle DEF healthVars
  <2> QED BY <2>1 DEF Alive, Errand, Said
<1>2. Distinct'
  BY DEF HInv, Distinct, healthVars
<1> QED BY <1>1, <1>2 DEF HInv

LEMMA WriteTypes ==
    ASSUME HealthTypeOK, NEW p \in Services, NEW s \in States, Write(p, s)
    PROVE  /\ status' \in [pid : Pids \cup {NoPid}, state : States]
           /\ recycled' \in BOOLEAN
BY DEF HealthTypeOK, Write

LEMMA GetsTypes ==
    ASSUME HealthTypeOK, NEW pid, Gets(pid)
    PROVE  recycled' \in BOOLEAN
BY Zenon DEF HealthTypeOK, Gets

Errands == {"nothing", "starting", "scan", "ready", "degraded", "quit"}

LEMMA HealthTypeStep == ASSUME HealthTypeOK, HealthNext PROVE HealthTypeOK'
<1>1. ASSUME NEW p \in Services, Start(p) PROVE HealthTypeOK'
  <2>1. PICK pid \in Pids \ Taken : pidOf' = [pidOf EXCEPT ![p] = pid] /\ Gets(pid)
    BY <1>1 DEF Start
  <2> QED BY <1>1, <2>1, GetsTypes DEF Start, HealthTypeOK
<1>2. ASSUME NEW p \in Services, Report(p) PROVE HealthTypeOK'
  <2>1. CASE Write(p, todo[p]) /\ todo' = [todo EXCEPT ![p] = "scan"]
    <3>1. todo[p] \in States
      BY <1>2 DEF Report, States
    <3> QED BY <1>2, <2>1, <3>1, WriteTypes DEF Report, HealthTypeOK
  <2>2. CASE WriteFails(p)
    BY <1>2, <2>2 DEF Report, WriteFails, HealthTypeOK
  <2> QED BY <1>2, <2>1, <2>2 DEF Report
<1>3. ASSUME NEW p \in Services, Announce(p) PROVE HealthTypeOK'
  <2>1. "scanning" \in States
    BY DEF States
  <2> QED BY <1>3, <2>1, WriteTypes DEF Announce, HealthTypeOK
<1>4. ASSUME NEW p \in Services, AnnounceFails(p) PROVE HealthTypeOK'
  BY <1>4 DEF AnnounceFails, WriteFails, HealthTypeOK
<1>5. ASSUME NEW p \in Services, RunCycle(p) PROVE HealthTypeOK'
  <2>1. (IF pc'[p] = "locked" THEN Outcome(p) ELSE todo[p]) \in Errands
    BY DEF HealthTypeOK, Outcome, Errands
  <2> QED BY <1>5, <2>1 DEF RunCycle, HealthTypeOK, Errands
<1>6. ASSUME NEW p \in Services, Stop(p) PROVE HealthTypeOK'
  <2>1. "stopped" \in States
    BY DEF States
  <2>2. /\ status' \in [pid : Pids \cup {NoPid}, state : States]
        /\ recycled' \in BOOLEAN
    BY <1>6, <2>1, WriteTypes DEF Stop, HealthTypeOK
  <2> QED BY <1>6, <2>2 DEF Stop, HealthTypeOK
<1>7. ASSUME NEW p \in Services, Kill(p) PROVE HealthTypeOK'
  BY <1>7 DEF Kill, HealthTypeOK
<1>8. ASSUME UNCHANGED healthVars PROVE HealthTypeOK'
  BY <1>8 DEF healthVars, HealthTypeOK
<1>9. CASE StrangerComes
  BY <1>9, GetsTypes DEF StrangerComes, HealthTypeOK
<1>10. CASE StrangerGoes
  BY <1>10 DEF StrangerGoes, HealthTypeOK
<1> QED
  BY <1>1, <1>2, <1>3, <1>4, <1>5, <1>6, <1>7, <1>8, <1>9, <1>10
     DEF HealthNext, CommandStep, CommandComesOrDies, EditCatalogue

LEMMA StartStep ==
    ASSUME HInv, IInv', HealthTypeOK', NEW p \in Services, Start(p)
    PROVE  HInv'
<1>1. PICK pid \in Pids \ Taken : pidOf' = [pidOf EXCEPT ![p] = pid] /\ Gets(pid)
  BY DEF Start
<1>2. TypeOK /\ HealthTypeOK /\ Distinct
  BY DEF HInv, IInv, CoreInv
<1>3. /\ lock = NoProcess /\ pc' = [pc EXCEPT ![p] = "locked"]
      /\ todo' = [todo EXCEPT ![p] = "starting"] /\ UNCHANGED <<status, stranger>>
  BY DEF Start, EnterLock, Step
<1>4. \A q \in Services \ {p} : pc'[q] = pc[q] /\ pidOf'[q] = pidOf[q] /\ todo'[q] = todo[q]
  BY <1>1, <1>2, <1>3, ServiceIsProcess DEF TypeOK, StateType, HealthTypeOK
<1>5. pc'[p] = "locked" /\ pidOf'[p] = pid /\ todo'[p] = "starting"
  BY <1>1, <1>2, <1>3, ServiceIsProcess DEF TypeOK, StateType, HealthTypeOK
<1>6. pid # NoPid /\ pid # stranger
  BY <1>1, PidsAssumption DEF Taken
<1>7. ~recycled' => ~recycled /\ pid # status.pid
  BY <1>1, Zenon DEF Gets
<1>8. Distinct'
  <2>1. \A q \in Services : pidOf'[q] = pidOf[q] \/ pidOf'[q] = pid
    BY <1>4, <1>5
  <2> QED BY <1>2, <1>3, <1>6, <1>7, <2>1 DEF Distinct
<1>9. Alive(p)' /\ Errand(p)' /\ Said(p)'
  BY <1>3, <1>5, <1>6, <1>7 DEF Alive, Errand, Said
<1> QED BY <1>3, <1>4, <1>8, <1>9, HolderStep

LEMMA ReportStep ==
    ASSUME HInv, IInv', HealthTypeOK', NEW p \in Services, Report(p)
    PROVE  HInv'
<1>1. HealthTypeOK /\ Distinct /\ Alive(p) /\ Errand(p) /\ Said(p)
  BY DEF HInv
<1>2. /\ pc[p] = "locked" /\ UNCHANGED <<pc, pidOf, stranger>> /\ site' = site
      /\ \A q \in Services \ {p} : todo'[q] = todo[q]
      /\ todo'[p] \in {"scan", "quit"}
  BY <1>1 DEF Report, WriteFails, disk, HealthTypeOK
<1>3. pidOf[p] # NoPid /\ pidOf[p] # stranger
  BY <1>1, <1>2 DEF Alive, Distinct
<1>4. Alive(p)' /\ Errand(p)'
  BY <1>1, <1>2 DEF Alive, Errand
<1>5. Said(p)' /\ Distinct'
  <2>1. CASE Write(p, todo[p])
    <3>1. status'.pid = pidOf[p] /\ status'.state = todo[p]
      BY <2>1 DEF Write
    <3> QED BY <1>1, <1>2, <1>3, <3>1 DEF Said, Distinct, Errand, Present
  <2>2. CASE WriteFails(p)
    <3>1. UNCHANGED <<status, recycled>>
      BY <2>2 DEF WriteFails
    <3> QED BY <1>1, <1>2, <3>1 DEF Said, Distinct, Present
  <2> QED BY <2>1, <2>2 DEF Report
<1> QED BY <1>2, <1>4, <1>5, HolderStep

LEMMA AnnounceStep ==
    ASSUME HInv, IInv', HealthTypeOK', NEW p \in Services, Announce(p) \/ AnnounceFails(p)
    PROVE  HInv'
<1>1. /\ TypeOK /\ HealthTypeOK /\ Distinct /\ Alive(p) /\ Errand(p) /\ Said(p)
  BY DEF HInv, IInv, CoreInv
<1>2. CASE Announce(p)
  <2>1. /\ todo[p] = "scan" /\ pc[p] = "locked" /\ pc' = [pc EXCEPT ![p] = "scan"]
        /\ UNCHANGED <<pidOf, stranger, todo>> /\ Write(p, "scanning")
    BY <1>2 DEF Announce, BeginScan, Step
  <2>2. pc'[p] = "scan" /\ \A q \in Services \ {p} : pc'[q] = pc[q]
    BY <1>1, <2>1, ServiceIsProcess DEF TypeOK, StateType
  <2>3. status'.pid = pidOf[p] /\ status'.state = "scanning"
    BY <2>1 DEF Write
  <2>4. pidOf[p] # NoPid /\ pidOf[p] # stranger
    BY <1>1, <2>1 DEF Alive, Distinct
  <2>5. Alive(p)' /\ Errand(p)' /\ Said(p)' /\ Distinct'
    BY <1>1, <2>1, <2>2, <2>3, <2>4 DEF Alive, Errand, Said, Distinct
  <2> QED BY <2>1, <2>2, <2>5, HolderStep
<1>3. CASE AnnounceFails(p)
  <2>1. /\ pc[p] = "locked" /\ todo' = [todo EXCEPT ![p] = "quit"] /\ site' = site
        /\ UNCHANGED <<pc, pidOf, stranger, status, recycled>>
    BY <1>3 DEF AnnounceFails, WriteFails, disk
  <2>2. todo'[p] = "quit" /\ \A q \in Services \ {p} : todo'[q] = todo[q]
    BY <1>1, <2>1 DEF HealthTypeOK
  <2>3. Alive(p)' /\ Errand(p)' /\ Said(p)' /\ Distinct'
    BY <1>1, <2>1, <2>2 DEF Alive, Errand, Said, Distinct, Present
  <2> QED BY <2>1, <2>2, <2>3, HolderStep
<1> QED BY <1>2, <1>3

LEMMA RunStep ==
    ASSUME HInv, IInv', HealthTypeOK', NEW p \in Services, RunCycle(p)
    PROVE  HInv'
<1>1. /\ IInv /\ HealthTypeOK /\ Distinct /\ Alive(p) /\ Errand(p) /\ Said(p)
  BY DEF HInv
<1>2. /\ pc[p] \notin {"idle", "locked"} /\ pc'[p] # "idle"
      /\ \A q \in Services \ {p} : pc'[q] = pc[q]
      /\ pc[p] = "moveIn" /\ pc'[p] = "locked" => Present(site')
  BY <1>1, CycleFacts, ServiceIsProcess DEF RunCycle
<1>3. /\ UNCHANGED <<status, pidOf, stranger, recycled>>
      /\ \A q \in Services \ {p} : todo'[q] = todo[q]
      /\ todo'[p] = IF pc'[p] = "locked" THEN Outcome(p) ELSE todo[p]
  BY <1>1 DEF RunCycle, HealthTypeOK
<1>4. Alive(p)' /\ Said(p)' /\ Distinct'
  BY <1>1, <1>2, <1>3 DEF Alive, Said, Distinct
<1>5. Errand(p)'
  <2>1. todo[p] = "scan"
    BY <1>1, <1>2 DEF Errand
  <2>2. CASE pc'[p] = "locked"
    BY <1>2, <1>3, <2>2 DEF Errand, Outcome, Present
  <2>3. CASE pc'[p] # "locked"
    BY <1>2, <1>3, <2>1, <2>3 DEF Errand
  <2> QED BY <2>2, <2>3
<1> QED BY <1>2, <1>3, <1>4, <1>5, HolderStep

LEMMA EndStep ==
    ASSUME HInv, IInv', HealthTypeOK', NEW p \in Services, Stop(p) \/ Kill(p)
    PROVE  HInv'
<1>1. /\ TypeOK /\ HealthTypeOK /\ Distinct /\ Alive(p)
  BY DEF HInv, IInv, CoreInv
<1>2. /\ pc[p] # "idle" /\ pc' = [pc EXCEPT ![p] = "idle"]
      /\ pidOf' = [pidOf EXCEPT ![p] = NoPid] /\ todo' = [todo EXCEPT ![p] = "nothing"]
      /\ stranger' = stranger
  BY DEF Stop, LeaveLock, Kill, Crash, Step
<1>3. \A q \in Services \ {p} : pc'[q] = pc[q] /\ pidOf'[q] = pidOf[q] /\ todo'[q] = todo[q]
  BY <1>1, <1>2, ServiceIsProcess DEF TypeOK, StateType, HealthTypeOK
<1>4. pc'[p] = "idle" /\ pidOf'[p] = NoPid /\ todo'[p] = "nothing"
  BY <1>1, <1>2, ServiceIsProcess DEF TypeOK, StateType, HealthTypeOK
<1>5. Alive(p)' /\ Errand(p)' /\ Said(p)'
  BY <1>4 DEF Alive, Errand, Said
<1>6. Distinct'
  <2>1. \A q \in Services : pidOf'[q] \in {pidOf[q], NoPid}
    BY <1>3, <1>4
  <2>2. CASE UNCHANGED <<status, recycled>>
    BY <1>1, <1>2, <2>1, <2>2 DEF Distinct
  <2>3. CASE Write(p, "stopped")
    <3>1. status'.pid = pidOf[p]
      BY <2>3 DEF Write
    <3> QED BY <1>1, <1>2, <2>1, <3>1 DEF Distinct
  <2> QED BY <2>2, <2>3 DEF Stop, Kill
<1> QED BY <1>2, <1>3, <1>5, <1>6, HolderStep

LEMMA CommandStepHolds ==
    ASSUME HInv, IInv', HealthTypeOK', NEW p \in Processes \ Services,
           CommandStep(p) \/ CommandComesOrDies(p)
    PROVE  HInv'
<1>1. IInv /\ TypeOK
  BY DEF HInv, IInv, CoreInv
<1>2. UNCHANGED healthVars
  BY DEF CommandStep, CommandComesOrDies
<1>3. (pc[p] # "idle" \/ lock = NoProcess) /\ \A q \in Services : pc'[q] = pc[q]
  <2>1. CASE CycleStep(p)
    BY <1>1, <2>1, CycleFacts, ServiceIsProcess
  <2>2. CASE LeaveLock(p) \/ Edit(p) \/ BeginScan(p) \/ EnterLock(p) \/ Crash(p)
    BY <1>1, <2>2, ServiceIsProcess
       DEF LeaveLock, Edit, BeginScan, EnterLock, Crash, Step, TypeOK, StateType
  <2> QED BY <2>1, <2>2 DEF CommandStep, CommandComesOrDies
<1> QED BY <1>2, <1>3, CommandHolds

LEMMA ElsewhereStep ==
    ASSUME HInv, IInv', HealthTypeOK',
           StrangerComes \/ StrangerGoes \/ \E p \in Processes : EditCatalogue(p)
    PROVE  HInv'
<1>1. UNCHANGED <<pc, site>> /\ UNCHANGED <<status, pidOf, todo>>
  BY DEF StrangerComes, StrangerGoes, EditCatalogue, Commit, vars, disk, healthVars
<1>2. ~recycled' => ~recycled
  BY Zenon DEF StrangerComes, StrangerGoes, EditCatalogue, Gets, healthVars
<1>3. \A p \in Services : Alive(p)' /\ Errand(p)' /\ Said(p)'
  BY <1>1, <1>2 DEF HInv, Alive, Errand, Said, Present
<1>4. Distinct'
  <2>1. CASE StrangerComes
    <3>1. recycled' /\ \A p \in Services : pidOf'[p] # stranger'
      BY <2>1 DEF StrangerComes, Gets, Taken
    <3> QED BY <3>1 DEF Distinct
  <2>2. CASE stranger' = NoPid
    BY <2>2 DEF Distinct
  <2>3. CASE UNCHANGED <<stranger, recycled>>
    BY <1>1, <2>3 DEF HInv, Distinct
  <2> QED BY <2>1, <2>2, <2>3 DEF StrangerGoes, EditCatalogue, healthVars
<1> QED BY <1>3, <1>4 DEF HInv

LEMMA HInvStep == ASSUME HInv, HealthNext PROVE HInv'
<1>1. IInv' /\ HealthTypeOK'
  BY SiteInvStep, HealthTypeStep DEF HInv
<1> QED
  BY <1>1, StartStep, ReportStep, AnnounceStep, RunStep, EndStep, CommandStepHolds,
     ElsewhereStep DEF HealthNext

LEMMA HInvStutter == ASSUME HInv, UNCHANGED allVars PROVE HInv'
<1>1. IInv'
  BY CoreStep, ExposureStep DEF HInv, IInv, allVars
<1>2. UNCHANGED <<pc, site>> /\ UNCHANGED <<status, pidOf, stranger, todo, recycled>>
  BY DEF allVars, vars, disk, healthVars
<1>3. HealthTypeOK'
  BY <1>2 DEF HInv, HealthTypeOK
<1>4. Distinct' /\ \A p \in Services : Alive(p)' /\ Errand(p)' /\ Said(p)'
  BY <1>2 DEF HInv, Distinct, Alive, Errand, Said, Present
<1> QED BY <1>1, <1>3, <1>4 DEF HInv

LEMMA HInvInit == ASSUME HealthInit PROVE HInv
<1>1. IInv
  BY InvInit DEF HealthInit
<1>2. HealthTypeOK
  BY DEF HealthInit, HealthTypeOK, States
<1>3. Distinct /\ \A p \in Services : Alive(p) /\ Errand(p) /\ Said(p)
  BY ServiceIsProcess DEF HealthInit, Init, Distinct, Alive, Errand, Said
<1> QED BY <1>1, <1>2, <1>3 DEF HInv

-----------------------------------------------------------------------------
(* Theorems.                                                               *)

\* The services, the commands and status.json together keep the invariant.
THEOREM HealthInvariant == HealthSpec => []HInv
<1>1. HInv /\ [HealthNext]_allVars => HInv'
  BY HInvStep, HInvStutter
<1> QED BY HInvInit, <1>1, PTL DEF HealthSpec

\* The file, the process ids and what each service does next have their types.
THEOREM HealthTypes == HealthSpec => []HealthTypeOK
<1>1. HInv => HealthTypeOK
  BY DEF HInv
<1> QED BY HealthInvariant, <1>1, PTL

\* "Healthy" is said of a service that is there, holds the lock and, when it is
\* ready, has its site in place: for any number of services, crashes, failed
\* cycles and failed writes.
THEOREM HealthTellsTheTruth == HealthSpec => []HealthIsTruthful
<1>1. ASSUME HInv, Healthy, ~recycled
      PROVE  \E p \in Services :
                 /\ pidOf[p] = status.pid /\ lock = p
                 /\ status.state = "ready" => Present(site)
  <2>1. status.pid # NoPid /\ status.pid # stranger
    BY <1>1 DEF Healthy, HInv, Distinct
  <2>2. PICK p \in Services : pidOf[p] = status.pid
    BY <1>1, <2>1 DEF Healthy, Taken
  <2>3. lock = p
    BY <1>1, <2>1, <2>2, ServiceIsProcess DEF HInv, Alive, IInv, CoreInv, LockExcludes
  <2>4. status.state = "ready" => Present(site)
    BY <1>1, <2>1, <2>2 DEF HInv, Said
  <2> QED BY <2>2, <2>3, <2>4
<1>2. HInv => HealthIsTruthful
  BY <1>1 DEF HealthIsTruthful
<1> QED BY HealthInvariant, <1>2, PTL

\* The guarantees of the publication hold for the services as they really run,
\* with the writes of status.json that can fail between its steps.
THEOREM PublicationHolds ==
    HealthSpec => [](SiteIsWhole /\ SiteIntact /\ LockExcludes)
<1>1. HInv => SiteIsWhole /\ SiteIntact /\ LockExcludes
  BY Zenon DEF HInv, IInv, CoreInv, OnDisk, Exposure, SiteIsWhole, SiteIntact
<1> QED BY HealthInvariant, <1>1, PTL

===============================================================================
