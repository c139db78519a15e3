-------------------------------- MODULE Health --------------------------------
(***************************************************************************)
(* What `rpi-streamer healthcheck` may conclude: _healthcheck of cli.py    *)
(* reads status.json, which Service._write_status replaces as a cycle goes *)
(* along, and asks whether the process it names is alive.  The file        *)
(* outlives a killed service, and its process id may by then be another    *)
(* process's.                                                              *)
(*                                                                         *)
(* The writes are superposed on SitePublication: every action of it is     *)
(* taken as it is, with what it does to the file, or to what a service     *)
(* has to write next.                                                      *)
(***************************************************************************)
EXTENDS SitePublication

CONSTANTS
    Pids,       \* process ids
    NoPid       \* nobody's

ASSUME PidsAssumption == NoPid \notin Pids

VARIABLES
    status,     \* status.json: the process it names and the state
    pidOf,      \* the id of each running service
    stranger,   \* the id of a process that has nothing to do with all this
    todo,       \* what each service's loop does next under its lock
    recycled    \* history: another process got the id that status.json names

healthVars == <<status, pidOf, stranger, todo, recycled>>
allVars == <<vars, healthVars>>

States == {"none", "starting", "scanning", "ready", "degraded", "stopped"}

HealthTypeOK ==
    /\ status \in [pid : Pids \cup {NoPid}, state : States]
    /\ pidOf \in [Services -> Pids \cup {NoPid}]
    /\ stranger \in Pids \cup {NoPid}
    /\ todo \in [Services -> {"nothing", "starting", "scan", "ready", "degraded", "quit"}]
    /\ recycled \in BOOLEAN

HealthInit ==
    /\ Init
    /\ status = [pid |-> NoPid, state |-> "none"]
    /\ pidOf = [p \in Services |-> NoPid]
    /\ stranger = NoPid
    /\ todo = [p \in Services |-> "nothing"]
    /\ recycled = FALSE

-----------------------------------------------------------------------------
Taken == {stranger} \cup {pidOf[p] : p \in Services}
Gets(pid) == recycled' = (recycled \/ pid = status.pid)

Write_keepsPid(p, state) ==
    /\ status' = [status EXCEPT !.state = state]
    /\ recycled' = FALSE

\* write_json_atomic replaces the file in one rename.
Write(p, state) ==
    /\ status' = [pid |-> pidOf[p], state |-> state]
    /\ recycled' = FALSE

\* A write that fails leaves the old file, and ends the service.
WriteFails(p) ==
    /\ faults < MaxFaults /\ faults' = faults + 1
    /\ todo' = [todo EXCEPT ![p] = "quit"]
    /\ UNCHANGED <<status, recycled>>

Start(p) ==
    /\ EnterLock(p)
    /\ \E pid \in Pids \ Taken :
         /\ pidOf' = [pidOf EXCEPT ![p] = pid]
         /\ Gets(pid)
    /\ todo' = [todo EXCEPT ![p] = "starting"]
    /\ UNCHANGED <<status, stranger>>

\* _write_status before the loop and at the end of _perform_scan.
Report(p) ==
    /\ pc[p] = "locked" /\ todo[p] \in {"starting", "ready", "degraded"}
    /\ \/ /\ Write(p, todo[p])
          /\ todo' = [todo EXCEPT ![p] = "scan"]
          /\ UNCHANGED counters
       \/ WriteFails(p) /\ UNCHANGED <<crashes, exposed>>
    /\ UNCHANGED <<pc, lock, catalogue, staging, disk, had_site, pidOf, stranger>>

\* _perform_scan announces the scan, then runs it.
Announce(p) ==
    /\ todo[p] = "scan"
    /\ BeginScan(p)
    /\ Write(p, "scanning")
    /\ UNCHANGED <<pidOf, stranger, todo>>

AnnounceFails(p) ==
    /\ todo[p] = "scan" /\ pc[p] = "locked"
    /\ WriteFails(p)
    /\ UNCHANGED <<pc, lock, catalogue, staging, disk, had_site, crashes, exposed>>
    /\ UNCHANGED <<pidOf, stranger>>

CycleStep(p) ==
    \/ EndScan(p) \/ RenderIndex(p) \/ RenderTitles(p) \/ Validate(p)
    \/ DropPrevious(p) \/ MoveOut(p) \/ MoveIn(p) \/ Rollback(p) \/ Cleanup(p)

Outcome_always(p) == "ready"
\* The runner returned, after a swap that succeeded, or it raised.
Outcome(p) == IF pc[p] = "moveIn" THEN "ready" ELSE "degraded"

RunCycle(p) ==
    /\ CycleStep(p)
    /\ todo' = [todo EXCEPT ![p] = IF pc'[p] = "locked" THEN Outcome(p) ELSE @]
    /\ UNCHANGED <<status, pidOf, stranger, recycled>>

\* The end of run(): "stopped" is written, unless that fails or the service
\* leaves because of an earlier failure.
Stop(p) ==
    /\ todo[p] \in {"scan", "quit"}
    /\ LeaveLock(p)
    /\ pidOf' = [pidOf EXCEPT ![p] = NoPid]
    /\ todo' = [todo EXCEPT ![p] = "nothing"]
    /\ \/ todo[p] = "scan" /\ Write(p, "stopped")
       \/ UNCHANGED <<status, recycled>>
    /\ UNCHANGED stranger

Kill(p) ==
    /\ Crash(p)
    /\ pidOf' = [pidOf EXCEPT ![p] = NoPid]
    /\ todo' = [todo EXCEPT ![p] = "nothing"]
    /\ UNCHANGED <<status, stranger, recycled>>

\* The one-shot scan and the mapping commands do not write the file.
CommandStep(p) ==
    /\ LeaveLock(p) \/ Edit(p) \/ BeginScan(p) \/ CycleStep(p)
    /\ UNCHANGED healthVars

CommandComesOrDies(p) ==
    /\ EnterLock(p) \/ Crash(p)
    /\ UNCHANGED healthVars

EditCatalogue(p) == Commit(p) /\ UNCHANGED healthVars

\* Of the ids of other processes only the one the file names matters.
StrangerComes ==
    /\ stranger = NoPid
    /\ stranger' = status.pid /\ stranger' \notin Taken
    /\ Gets(stranger')
    /\ UNCHANGED <<vars, status, pidOf, todo>>

StrangerGoes ==
    /\ stranger # NoPid
    /\ stranger' = NoPid
    /\ UNCHANGED <<vars, status, pidOf, todo, recycled>>

HealthNext ==
    \/ \E p \in Services :
          \/ Start(p) \/ Report(p) \/ Announce(p) \/ AnnounceFails(p)
          \/ RunCycle(p) \/ Stop(p) \/ Kill(p)
    \/ \E p \in Processes \ Services : CommandStep(p) \/ CommandComesOrDies(p)
    \/ \E p \in Processes : EditCatalogue(p)
    \/ StrangerComes \/ StrangerGoes

HealthSpec == HealthInit /\ [][HealthNext]_allVars

\* SitePublication's fairness, for the actions as they are here.
HealthFairness ==
    /\ \A p \in Services :
          /\ WF_allVars(RunCycle(p)) /\ WF_allVars(Report(p))
          /\ WF_allVars(Stop(p) /\ todo[p] = "quit")
          /\ SF_allVars(Start(p)) /\ SF_allVars(Announce(p))
    /\ \A p \in Processes \ Services : WF_allVars(CommandStep(p))

FairHealthSpec == HealthSpec /\ HealthFairness

-----------------------------------------------------------------------------
(* Properties.                                                             *)

\* _healthcheck: a suitable state, and os.kill(pid, 0) finds a process.
Healthy == status.state \in {"ready", "scanning"} /\ status.pid \in Taken \ {NoPid}

\* A healthy answer is about a service that is there: the process it names
\* holds the lock, and once "ready" its site is published and in place, after
\* crashes, failed cycles and failed writes too. The exception is a process id
\* that was given away after its owner died.
HealthIsTruthful ==
    Healthy /\ ~recycled =>
        \E p \in Services :
            /\ pidOf[p] = status.pid /\ lock = p
            /\ status.state = "ready" => Present(site)

\* After crashes and failures at the worst moments a service that is started
\* again puts a site back, and says so.
HealthComesBack ==
    published > 0 ~> Healthy /\ ~recycled /\ status.state = "ready" /\ Present(site)

=============================================================================
