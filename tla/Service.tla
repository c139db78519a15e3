------------------------------- MODULE Service -------------------------------
(***************************************************************************)
(* One `rpi-streamer serve` process: Service.run of service.py, its signal *)
(* handlers and the threading.Event they share with the main loop.         *)
(*                                                                         *)
(* CPython runs a signal handler in the main thread, between two byte      *)
(* codes of whatever that thread is doing, and a handler can itself be     *)
(* interrupted.  The handlers running are therefore a stack: only its top  *)
(* advances, and the main loop advances only when it is empty.             *)
(*                                                                         *)
(* threading.Event guards its flag with a plain, non-reentrant lock.  The  *)
(* main thread holds it inside clear() and on both sides of the blocking   *)
(* part of wait(); a handler needs it inside set().                        *)
(***************************************************************************)
EXTENDS Naturals, Sequences

CONSTANTS
    SignalInsideEvent, \* whether a signal may be handled while the thread is
                       \* inside an Event method that holds the event's lock
                       \* (TRUE is CPython; FALSE isolates the loop's logic)
    MaxSignals,        \* bound: signals delivered to the process
    MaxNesting         \* bound: signal handlers interrupting one another

ASSUME SignalInsideEventAssumption == SignalInsideEvent \in BOOLEAN
ASSUME BoundsAssumption == MaxSignals \in Nat /\ MaxNesting \in Nat

VARIABLES
    pc,              \* where the main thread is
    handlers,        \* frames of running handlers, the innermost last
    stop_requested,
    scan_requested,
    event,           \* the event's flag
    condHeld,        \* the event's lock is held
    periodic,        \* settings.scan_interval # 0, for the life of the process
    due,             \* the monotonic clock has reached next_scan
    now_due,         \* the loop's own reading: now >= next_scan
    status,          \* "state" of status.json, "none" before the first write
    scan_ok,         \* the runner returned (FALSE: it raised)
    exit_code,       \* "none" while running, then "ok", "error" or "signal"
    owed,            \* history: a rescan was asked for and none begun since
    lateScans,       \* history: scans begun after the stop request
    signals          \* signals delivered so far

requests == <<stop_requested, scan_requested, owed, lateScans>>
eventVars == <<event, condHeld>>
timer == <<due, now_due, periodic>>
result == <<status, scan_ok, exit_code>>
vars == <<pc, handlers, signals, requests, eventVars, timer, result>>

Signals == {"HUP", "TERM"}  \* SIGINT is handled exactly as SIGTERM

Labels == {"boot", "lock", "starting", "check", "clear", "clearing", "sample",
           "decide", "begin", "announce", "scanning", "report", "reschedule",
           "wait", "waitLocked", "blocked", "woken", "stopping", "unlock",
           "exited"}

Frame == [signal : Signals, at : {"flag", "acquire", "locked"}]

ControlType ==
    /\ pc \in Labels
    /\ handlers \in Seq(Frame)
    /\ signals \in 0..MaxSignals
    /\ lateScans \in Nat
    /\ status \in {"none", "starting", "scanning", "ready", "degraded", "stopped"}
    /\ exit_code \in {"none", "ok", "error", "signal"}

FlagType ==
    /\ stop_requested \in BOOLEAN /\ scan_requested \in BOOLEAN /\ owed \in BOOLEAN
    /\ event \in BOOLEAN /\ condHeld \in BOOLEAN
    /\ due \in BOOLEAN /\ now_due \in BOOLEAN /\ periodic \in BOOLEAN
    /\ scan_ok \in BOOLEAN

TypeOK == ControlType /\ FlagType

Init ==
    /\ pc = "boot" /\ handlers = <<>> /\ signals = 0
    /\ stop_requested = FALSE /\ scan_requested = FALSE
    /\ owed = FALSE /\ lateScans = 0
    /\ event = FALSE /\ condHeld = FALSE
    /\ periodic \in BOOLEAN
    /\ due = TRUE  \* next_scan = self.monotonic()
    /\ now_due = FALSE
    /\ status = "none" /\ scan_ok = FALSE /\ exit_code = "none"

-----------------------------------------------------------------------------
(* The main thread: Service.run, one step per point where a handler may    *)
(* run.                                                                    *)

Step(from, to) ==
    /\ pc = from /\ handlers = <<>>
    /\ pc' = to
    /\ UNCHANGED <<handlers, signals>>

InstallHandlers ==
    /\ Step("boot", "lock")
    /\ UNCHANGED <<requests, eventVars, timer, result>>

\* Entering InstanceLock: when another process holds it, run() raises.
EnterLock ==
    /\ \/ Step("lock", "starting") /\ UNCHANGED exit_code
       \/ Step("lock", "unlock") /\ exit_code' = "error"
    /\ UNCHANGED <<requests, eventVars, timer, status, scan_ok>>

\* _write_status replaces status.json, or raises and leaves the old file;
\* nothing in run() catches that.
WriteStatus(from, state, to) ==
    /\ \/ Step(from, to) /\ status' = state /\ UNCHANGED exit_code
       \/ Step(from, "unlock") /\ exit_code' = "error" /\ UNCHANGED status
    /\ UNCHANGED <<requests, eventVars, timer, scan_ok>>

WriteStarting == WriteStatus("starting", "starting", "check")

CheckStop_ignored ==
    /\ Step("check", "clear")
    /\ UNCHANGED <<requests, eventVars, timer, result>>

\* while not self.stop_requested
CheckStop ==
    /\ Step("check", IF stop_requested THEN "stopping" ELSE "clear")
    /\ UNCHANGED <<requests, eventVars, timer, result>>

\* self.event.clear(): take the event's lock, reset the flag, release.
ClearAcquire ==
    /\ Step("clear", "clearing")
    /\ ~condHeld /\ condHeld' = TRUE
    /\ UNCHANGED <<requests, event, timer, result>>

ClearFlag ==
    /\ Step("clearing", "sample")
    /\ event' = FALSE /\ condHeld' = FALSE
    /\ UNCHANGED <<requests, timer, result>>

\* now = self.monotonic()
SampleClock ==
    /\ Step("sample", "decide")
    /\ now_due' = due
    /\ UNCHANGED <<requests, eventVars, due, periodic, result>>

\* if self.scan_requested or now >= next_scan
Decide ==
    /\ Step("decide", IF scan_requested \/ now_due THEN "begin" ELSE "wait")
    /\ UNCHANGED <<requests, eventVars, timer, result>>

\* self.scan_requested = False; self._perform_scan()
BeginScan ==
    /\ Step("begin", "announce")
    /\ scan_requested' = FALSE /\ owed' = FALSE
    /\ lateScans' = IF stop_requested THEN lateScans + 1 ELSE lateScans
    /\ UNCHANGED <<stop_requested, eventVars, timer, result>>

AnnounceScan == WriteStatus("announce", "scanning", "scanning")

RunScan_dropsRequests ==
    /\ Step("scanning", "report")
    /\ scan_ok' \in BOOLEAN /\ scan_requested' = FALSE
    /\ UNCHANGED <<stop_requested, owed, lateScans, eventVars, timer, status, exit_code>>

\* self.runner(self.settings) returns a summary, or raises.
RunScan ==
    /\ Step("scanning", "report")
    /\ scan_ok' \in BOOLEAN
    /\ UNCHANGED <<requests, eventVars, timer, status, exit_code>>

ReportScan ==
    WriteStatus("report", IF scan_ok THEN "ready" ELSE "degraded", "reschedule")

\* next_scan = inf, or self.monotonic() + scan_interval; continue
Reschedule ==
    /\ Step("reschedule", "check")
    /\ due' = FALSE
    /\ UNCHANGED <<requests, eventVars, now_due, periodic, result>>

\* self.event.wait(timeout): under the event's lock, a set flag returns at
\* once; otherwise the lock is released and the thread blocks.
WaitAcquire ==
    /\ Step("wait", "waitLocked")
    /\ ~condHeld /\ condHeld' = TRUE
    /\ UNCHANGED <<requests, event, timer, result>>

WaitTest ==
    /\ Step("waitLocked", IF event THEN "check" ELSE "blocked")
    /\ condHeld' = FALSE
    /\ UNCHANGED <<requests, event, timer, result>>

WakeUp_noTimeout ==
    /\ Step("blocked", "woken")
    /\ event
    /\ ~condHeld /\ condHeld' = TRUE
    /\ UNCHANGED <<requests, event, timer, result>>

\* Notified by set(), or timed out at next_scan (never, when that is inf);
\* either way wait() takes the lock again before it returns.
WakeUp ==
    /\ Step("blocked", "woken")
    /\ event \/ (periodic /\ due)
    /\ ~condHeld /\ condHeld' = TRUE
    /\ UNCHANGED <<requests, event, timer, result>>

WaitReturn ==
    /\ Step("woken", "check")
    /\ condHeld' = FALSE
    /\ UNCHANGED <<requests, event, timer, result>>

WriteStopped ==
    /\ Step("stopping", "unlock")
    /\ \/ status' = "stopped" /\ exit_code' = "ok"
       \/ exit_code' = "error" /\ UNCHANGED status
    /\ UNCHANGED <<requests, eventVars, timer, scan_ok>>

\* Leaving InstanceLock and _restore_handlers.
Leave ==
    /\ Step("unlock", "exited")
    /\ UNCHANGED <<requests, eventVars, timer, result>>

Main ==
    \/ InstallHandlers \/ EnterLock \/ WriteStarting
    \/ CheckStop \/ ClearAcquire \/ ClearFlag \/ SampleClock \/ Decide
    \/ BeginScan \/ AnnounceScan \/ RunScan \/ ReportScan \/ Reschedule
    \/ WaitAcquire \/ WaitTest \/ WakeUp \/ WaitReturn
    \/ WriteStopped \/ Leave

-----------------------------------------------------------------------------
(* Signals and their handlers.                                             *)

\* A signal before the handlers are installed takes its default action.
KillAtBoot ==
    /\ Step("boot", "exited")
    /\ exit_code' = "signal"
    /\ UNCHANGED <<requests, eventVars, timer, status, scan_ok>>

Deliver(s) ==
    /\ pc \notin {"boot", "exited"}
    /\ condHeld => SignalInsideEvent
    /\ signals < MaxSignals /\ Len(handlers) < MaxNesting
    /\ signals' = signals + 1
    /\ handlers' = Append(handlers, [signal |-> s, at |-> "flag"])
    /\ UNCHANGED <<pc, requests, eventVars, timer, result>>

depth == Len(handlers)

HandlerStep(from, to) ==
    /\ handlers # <<>> /\ handlers[depth].at = from
    /\ handlers' = [handlers EXCEPT ![depth].at = to]
    /\ UNCHANGED <<pc, signals>>

\* request_scan and request_stop: the flag first ...
SetRequestFlag ==
    /\ HandlerStep("flag", "acquire")
    /\ IF handlers[depth].signal = "TERM"
       THEN stop_requested' = TRUE /\ UNCHANGED <<scan_requested, owed>>
       ELSE scan_requested' = TRUE /\ owed' = TRUE /\ UNCHANGED stop_requested
    /\ UNCHANGED <<lateScans, eventVars, timer, result>>

\* ... then self.event.set(), which waits for the event's lock ...
SetAcquire ==
    /\ HandlerStep("acquire", "locked")
    /\ ~condHeld /\ condHeld' = TRUE
    /\ UNCHANGED <<requests, event, timer, result>>

\* ... sets the flag, notifies, releases the lock and returns.
SetEvent ==
    /\ handlers # <<>> /\ handlers[depth].at = "locked"
    /\ handlers' = SubSeq(handlers, 1, depth - 1)
    /\ event' = TRUE /\ condHeld' = FALSE
    /\ UNCHANGED <<pc, signals, requests, timer, result>>

Handler == SetRequestFlag \/ SetAcquire \/ SetEvent

\* The monotonic clock reaches next_scan.
ClockReachesNextScan ==
    /\ periodic /\ ~due /\ pc # "exited"
    /\ due' = TRUE
    /\ UNCHANGED <<pc, handlers, signals, requests, eventVars, now_due, periodic, result>>

Next ==
    \/ Main
    \/ Handler
    \/ KillAtBoot
    \/ \E s \in Signals : Deliver(s)
    \/ ClockReachesNextScan

\* The operating system runs the process, time passes, and a scan ends: its
\* network calls have timeouts and a bounded number of attempts.
Fairness == WF_vars(Main) /\ WF_vars(Handler) /\ WF_vars(ClockReachesNextScan)

Spec == Init /\ [][Next]_vars
FairSpec == Spec /\ Fairness

-----------------------------------------------------------------------------
(* Properties.                                                             *)

Scanning == pc \in {"announce", "scanning", "report", "reschedule"}

\* The service never sleeps on a request: if it blocks in wait() with no
\* handler running, an owed rescan has left the event set, so it wakes.
\* (service.py clears the event before it reads scan_requested.)
NeverSleepsOnARequest ==
    pc = "blocked" /\ handlers = <<>> /\ owed => event

\* Of the scans begun after a stop was requested there is at most one, the
\* one the loop had already decided on.
AtMostOneScanAfterStop == lateScans <= 1

\* README: a SIGHUP during a scan is answered by exactly one follow-up scan.
\* RequestIsServed is "at least one"; this is "at most one": a scan begins
\* only if the clock came due or a request arrived since the last one began.
ScansHaveACause ==
    [][pc = "begin" /\ pc' = "announce" => owed \/ due]_vars

\* A stop is taken only when one was requested, never in the middle of a
\* scan, and the clean exit is the one that left "stopped" on disk.
OnlyRequestedStops ==
    [][(exit_code' = "ok" /\ exit_code # "ok")
         => stop_requested /\ ~Scanning /\ status' = "stopped"]_vars

\* A handler waits for the event's lock, which the thread it interrupted
\* holds and can never release: the process hangs.
HandlerStuck == handlers # <<>> /\ handlers[depth].at = "acquire" /\ condHeld

\* README: a SIGHUP is followed by a scan that begins after it, unless the
\* service is told to stop, ends or hangs in a handler.
RequestIsServed == owed ~> (~owed \/ stop_requested \/ pc = "exited" \/ HandlerStuck)

\* README: SIGTERM requests shutdown after the active scan cycle.
StopIsHonoured == stop_requested ~> pc = "exited"

\* The same where the code keeps it: with a scan interval the wait times out,
\* and a stop whose wake-up event.clear() took away is seen then.
PeriodicStopIsHonoured ==
    stop_requested /\ periodic ~> (pc = "exited" \/ HandlerStuck)

\* With a scan interval, scans keep coming for as long as the service runs.
ScansRecur == []<>(periodic => pc \in {"scanning", "exited"} \/ HandlerStuck)

\* The service as its callers see it.
Phase ==
    IF pc = "exited" THEN IF exit_code = "ok" THEN "stopped" ELSE "failed"
                     ELSE IF Scanning THEN "scanning" ELSE "idle"

Promise == INSTANCE ScanScheduler
             WITH phase <- Phase, stopping <- stop_requested, last <- lateScans > 0

ImplementsScanScheduler == Promise!Spec

=============================================================================
