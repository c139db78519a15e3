--------------------------- MODULE SitePublication ---------------------------
(***************************************************************************)
(* How indexer processes publish the static site: InstanceLock and         *)
(* run_once of service.py, generate_site and _publish of generator.py,     *)
(* and the mapping commands of cli.py that edit the same catalogue.        *)
(*                                                                         *)
(* A tree on disk is abstracted to the catalogue versions its pages were   *)
(* rendered from.  The renderer reads the catalogue more than once, so the *)
(* index and the title pages may come from different versions.             *)
(***************************************************************************)
EXTENDS Naturals

CONSTANTS
    Services,       \* `serve` processes: many cycles under one lock
    Scanners,       \* `scan` processes: one cycle, then the lock is released
    Editors,        \* mapping commands that take the lock and edit mappings
    NoProcess,      \* the lock is free
    MaxVersion,     \* bound: versions of the catalogue
    MaxFaults,      \* bound: file-system or render errors
    MaxCrashes      \* bound: processes killed (or power lost) mid-operation

Indexers == Services \cup Scanners
Processes == Indexers \cup Editors

ASSUME ProcessAssumption ==
    /\ NoProcess \notin Processes
    /\ Editors \cap Indexers = {} /\ Services \cap Scanners = {}
ASSUME BoundsAssumption ==
    MaxVersion \in Nat /\ MaxFaults \in Nat /\ MaxCrashes \in Nat

VARIABLES
    pc,         \* where each process is
    lock,       \* the process holding state_dir/indexer.lock
    catalogue,  \* version of the catalogue database
    staging,    \* each process's staging directory
    site,       \* the published tree
    previous,   \* <site>.previous
    had_site,   \* _publish's local, per process
    published,  \* history: the newest version ever moved to site
    exposed,    \* history: a swap was left half done, the good site not in place
    faults, crashes

disk == <<site, previous, published>>
counters == <<faults, crashes, exposed>>
vars == <<pc, lock, catalogue, staging, disk, had_site, counters>>

\* index: the version the index and genre pages show; titles: the version the
\* title pages show; 0 where nothing is rendered yet.
Tree == [index : 0..MaxVersion, titles : 0..MaxVersion]
NoTree == [index |-> 0, titles |-> 0]

\* What `site` or `previous` holds: no directory, or a tree.
Present(t) == t # NoTree
Whole(t) == t.index = t.titles /\ t.index > 0

Newer(v, w) == IF v > w THEN v ELSE w

\* p has moved the good site away and is about to put one in its place.
MidSwap(p) == pc[p] \in {"moveIn", "rollback"} /\ Present(previous)

Labels == {"idle", "locked", "scan", "renderIndex", "renderTitles", "validate",
           "dropPrevious", "moveOut", "moveIn", "rollback", "cleanup", "leaving"}

StateType ==
    /\ pc \in [Processes -> Labels]
    /\ lock \in Processes \cup {NoProcess}
    /\ catalogue \in 0..MaxVersion
    /\ staging \in [Processes -> Tree]
    /\ site \in Tree
    /\ previous \in Tree
    /\ had_site \in [Processes -> BOOLEAN]
    /\ published \in 0..MaxVersion
    /\ faults \in 0..MaxFaults
    /\ crashes \in 0..MaxCrashes

TypeOK == StateType /\ exposed \in BOOLEAN

Init ==
    /\ pc = [p \in Processes |-> "idle"]
    /\ lock = NoProcess
    /\ catalogue = 0
    /\ staging = [p \in Processes |-> NoTree]
    /\ site = NoTree
    /\ previous = NoTree
    /\ had_site = [p \in Processes |-> FALSE]
    /\ published = 0
    /\ exposed = FALSE
    /\ faults = 0
    /\ crashes = 0

-----------------------------------------------------------------------------
Step(p, from, to) ==
    /\ pc[p] = from
    /\ pc' = [pc EXCEPT ![p] = to]

\* An operation of p raises: an error of the disk, the database or a template.
Fault(p, from, to) ==
    /\ Step(p, from, to)
    /\ faults < MaxFaults /\ faults' = faults + 1
    /\ UNCHANGED <<crashes, exposed>>

\* After a cycle, failed or not, the service keeps its lock and waits for the
\* next one; a one-shot command ends.
AfterCycle(p) == IF p \in Services THEN "locked" ELSE "leaving"

\* InstanceLock.__enter__: flock(LOCK_EX | LOCK_NB) on a held lock raises
\* AlreadyRunningError, and the process ends without having done anything.
EnterLock(p) ==
    /\ Step(p, "idle", "locked")
    /\ lock = NoProcess
    /\ lock' = p
    /\ UNCHANGED <<catalogue, staging, disk, had_site, counters>>

\* InstanceLock.__exit__.
LeaveLock(p) ==
    /\ Step(p, IF p \in Services THEN "locked" ELSE "leaving", "idle")
    /\ lock' = NoProcess
    /\ UNCHANGED <<catalogue, staging, disk, had_site, counters>>

\* A mapping command has committed its edits, or failed on the way.
Edit(p) ==
    /\ p \in Editors
    /\ Step(p, "locked", "leaving")
    /\ UNCHANGED <<lock, catalogue, staging, disk, had_site, counters>>

BeginScan(p) ==
    /\ p \in Indexers
    /\ Step(p, "locked", "scan")
    /\ UNCHANGED <<lock, catalogue, staging, disk, had_site, counters>>

\* scan_library and the mapping commands: each of their transactions commits a
\* new version of the catalogue, so readers without the lock could see it
\* between two of them.
Commit(p) ==
    /\ pc[p] = "scan" \/ (p \in Editors /\ pc[p] = "locked")
    /\ UNCHANGED pc
    /\ catalogue < MaxVersion /\ catalogue' = catalogue + 1
    /\ UNCHANGED <<lock, staging, disk, had_site, counters>>

EndScan_unlocks(p) ==
    /\ \/ Step(p, "scan", "renderIndex") /\ catalogue > 0 /\ UNCHANGED counters
       \/ Fault(p, "scan", AfterCycle(p))
    /\ lock' = NoProcess
    /\ UNCHANGED <<catalogue, staging, disk, had_site>>

\* run_once calls generate_site only if scan_library returned.  (A catalogue
\* with no scan in it cannot be rendered: finish_scan committed one.)
EndScan(p) ==
    /\ \/ Step(p, "scan", "renderIndex") /\ catalogue > 0 /\ UNCHANGED counters
       \/ Fault(p, "scan", AfterCycle(p))
    /\ UNCHANGED <<lock, catalogue, staging, disk, had_site>>

\* _render, its reads of the catalogue for the index and for the title pages.
RenderIndex(p) ==
    /\ \/ /\ Step(p, "renderIndex", "renderTitles")
          /\ staging' = [staging EXCEPT ![p].index = catalogue]
          /\ UNCHANGED counters
       \/ Fault(p, "renderIndex", "cleanup") /\ UNCHANGED staging
    /\ UNCHANGED <<lock, catalogue, disk, had_site>>

RenderTitles(p) ==
    /\ \/ /\ Step(p, "renderTitles", "validate")
          /\ staging' = [staging EXCEPT ![p].titles = catalogue]
          /\ UNCHANGED counters
       \/ Fault(p, "renderTitles", "cleanup") /\ UNCHANGED staging
    /\ UNCHANGED <<lock, catalogue, disk, had_site>>

\* _validate looks at the tree only, so it cannot tell two versions apart.
Validate(p) ==
    /\ \/ /\ Step(p, "validate", "dropPrevious")
          /\ staging[p].index > 0 /\ staging[p].titles > 0
          /\ UNCHANGED counters
       \/ Fault(p, "validate", "cleanup")
    /\ UNCHANGED <<lock, catalogue, staging, disk, had_site>>

\* shutil.rmtree(previous).  A partly removed tree is of no further use, so
\* an rmtree that fails half way is one that removed the tree and failed.
DropPrevious(p) ==
    /\ \/ Step(p, "dropPrevious", "moveOut") /\ previous' = NoTree /\ UNCHANGED counters
       \/ Fault(p, "dropPrevious", "cleanup") /\ previous' \in {previous, NoTree}
    /\ UNCHANGED <<lock, catalogue, staging, site, published, had_site>>

MoveOut_deletes(p) ==
    /\ had_site' = [had_site EXCEPT ![p] = Present(site)]
    /\ Step(p, "moveOut", "moveIn")
    /\ site' = NoTree
    /\ UNCHANGED <<lock, catalogue, staging, previous, published, counters>>

\* had_site = site.exists(); os.replace(site, previous), which like every
\* rename onto a directory needs that directory to be absent (or empty).
MoveOut(p) ==
    /\ had_site' = [had_site EXCEPT ![p] = Present(site)]
    /\ \/ /\ Step(p, "moveOut", "moveIn")
          /\ previous' = IF Present(site) THEN site ELSE previous
          /\ site' = NoTree
          /\ UNCHANGED counters
          /\ Present(site) => ~Present(previous)
       \/ /\ Fault(p, "moveOut", "cleanup")
          /\ Present(site)
          /\ UNCHANGED <<site, previous>>
    /\ UNCHANGED <<lock, catalogue, staging, published>>

MoveIn_noRollback(p) ==
    /\ \/ /\ Step(p, "moveIn", AfterCycle(p))
          /\ site' = staging[p]
          /\ staging' = [staging EXCEPT ![p] = NoTree]
          /\ published' = Newer(staging[p].index, published)
          /\ exposed' = FALSE
          /\ UNCHANGED <<faults, crashes>>
       \/ /\ Fault(p, "moveIn", "cleanup")
          /\ UNCHANGED <<site, staging, published>>
    /\ UNCHANGED <<lock, catalogue, previous, had_site>>

\* os.replace(staging, site), or its except branch.
MoveIn(p) ==
    /\ \/ /\ Step(p, "moveIn", AfterCycle(p))
          /\ ~Present(site)
          /\ site' = staging[p]
          /\ staging' = [staging EXCEPT ![p] = NoTree]
          /\ published' = Newer(staging[p].index, published)
          /\ exposed' = FALSE
          /\ UNCHANGED <<faults, crashes>>
       \/ /\ Fault(p, "moveIn", IF had_site[p] /\ Present(previous) /\ ~Present(site)
                                THEN "rollback" ELSE "cleanup")
          /\ UNCHANGED <<site, staging, published>>
    /\ UNCHANGED <<lock, catalogue, previous, had_site>>

\* os.replace(previous, site), which may fail as well.
Rollback(p) ==
    /\ \/ /\ Step(p, "rollback", "cleanup")
          /\ site' = previous /\ previous' = NoTree
          /\ UNCHANGED counters
       \/ /\ Step(p, "rollback", "cleanup")
          /\ faults < MaxFaults /\ faults' = faults + 1
          /\ exposed' = TRUE
          /\ UNCHANGED <<site, previous, crashes>>
    /\ UNCHANGED <<lock, catalogue, staging, published, had_site>>

\* generate_site's except branch removes the staging directory and re-raises.
Cleanup(p) ==
    /\ Step(p, "cleanup", AfterCycle(p))
    /\ staging' = [staging EXCEPT ![p] = NoTree]
    /\ UNCHANGED <<lock, catalogue, disk, had_site, counters>>

\* The process is killed.  The kernel releases its lock; its staging directory
\* stays behind under a name nobody will look up again.
Crash(p) ==
    /\ crashes < MaxCrashes /\ crashes' = crashes + 1
    /\ pc[p] # "idle"
    /\ pc' = [pc EXCEPT ![p] = "idle"]
    /\ lock' = IF lock = p THEN NoProcess ELSE lock
    /\ staging' = [staging EXCEPT ![p] = NoTree]
    /\ exposed' = (exposed \/ MidSwap(p))
    /\ UNCHANGED <<catalogue, disk, had_site, faults>>

Next ==
    \E p \in Processes :
        \/ EnterLock(p) \/ LeaveLock(p)
        \/ Edit(p) \/ BeginScan(p) \/ Commit(p) \/ EndScan(p)
        \/ RenderIndex(p) \/ RenderTitles(p) \/ Validate(p)
        \/ DropPrevious(p) \/ MoveOut(p) \/ MoveIn(p)
        \/ Rollback(p) \/ Cleanup(p) \/ Crash(p)

Spec == Init /\ [][Next]_vars

\* A process that runs goes on, a command ends, a stopped or killed service is
\* started again (Restart=on-failure) until it finds the lock free, which the
\* owner's commands do not hold at every attempt, and is not stopped before its
\* first scan for ever.
Cycle(p) ==
    \/ Edit(p) \/ BeginScan(p) \/ EndScan(p)
    \/ RenderIndex(p) \/ RenderTitles(p) \/ Validate(p)
    \/ DropPrevious(p) \/ MoveOut(p) \/ MoveIn(p) \/ Rollback(p) \/ Cleanup(p)

Fairness ==
    /\ \A p \in Processes : WF_vars(Cycle(p))
    /\ \A p \in Processes \ Services : WF_vars(LeaveLock(p))
    /\ \A p \in Services : SF_vars(EnterLock(p)) /\ SF_vars(BeginScan(p))

FairSpec == Spec /\ Fairness

-----------------------------------------------------------------------------
(* Properties.                                                             *)

\* README: the advisory lock prevents processes from modifying the same state
\* concurrently.  Whoever is past InstanceLock.__enter__ holds the lock, so
\* there is never more than one, crashes included.
LockExcludes == \A p \in Processes : pc[p] # "idle" => lock = p

\* Every page of the published site was rendered from one version of the
\* catalogue, although the renderer reads it in several queries and scans
\* commit in several transactions.
SiteIsWhole == Present(site) => Whole(site)

\* What is served is the newest generation ever published: neither a rollback
\* nor the leftovers of a crash bring an older one back.
ServedIsLatest == Present(site) => site.index = published

LastGood == IF Present(site) THEN site ELSE previous

\* ADR 0007: the previous good site is retained on failure.  Once a site was
\* published, the newest one is on disk as `site` or as `site.previous`,
\* unless a process died or failed twice in the middle of a swap.
RetainsGoodSite ==
    published > 0 /\ ~exposed => Whole(LastGood) /\ LastGood.index = published

\* README: rendering, validation and publication failures leave the currently
\* published site intact, that is, in its place whenever nobody is between the
\* two renames; with the same exception.
SiteIntact ==
    published > 0 /\ ~exposed /\ (\A p \in Processes : ~MidSwap(p)) => Present(site)

Promise == INSTANCE PublishedSite
             WITH served <- LastGood.index, newest <- published, exposed <- exposed

ImplementsPublishedSite == Promise!Spec

=============================================================================
