---------------------------- MODULE ScanScheduler ----------------------------
(***************************************************************************)
(* What the indexer service promises to whoever sends it signals           *)
(* (README "Process lifecycle"), with no loop, no event and no handler:    *)
(* scans run one at a time; any number of rescan requests is answered by   *)
(* one scan that begins after them; once a stop is requested at most one   *)
(* more scan begins; a graceful stop is only ever taken between scans and  *)
(* only when asked for.                                                    *)
(***************************************************************************)

VARIABLES
    phase,      \* "idle", "scanning", "stopped" (gracefully) or "failed"
    owed,       \* a rescan was requested and no scan has begun since
    stopping,   \* a stop was requested
    last        \* a scan has begun since the stop was requested

vars == <<phase, owed, stopping, last>>

Running == phase \in {"idle", "scanning"}

Init ==
    /\ phase = "idle"
    /\ owed = FALSE
    /\ stopping = FALSE
    /\ last = FALSE

\* Requests coalesce: a second one before the next scan changes nothing.
RequestScan ==
    /\ Running
    /\ owed' = TRUE
    /\ UNCHANGED <<phase, stopping, last>>

RequestStop ==
    /\ Running
    /\ stopping' = TRUE
    /\ UNCHANGED <<phase, owed, last>>

\* A scan may begin at any time (startup, schedule or request) and answers
\* every request made so far.
BeginScan ==
    /\ phase = "idle"
    /\ ~last
    /\ phase' = "scanning"
    /\ owed' = FALSE
    /\ last' = stopping
    /\ UNCHANGED stopping

EndScan ==
    /\ phase = "scanning"
    /\ phase' = "idle"
    /\ UNCHANGED <<owed, stopping, last>>

Stop ==
    /\ phase = "idle"
    /\ stopping
    /\ phase' = "stopped"
    /\ UNCHANGED <<owed, stopping, last>>

\* An error outside the scan itself, or an unhandled signal, ends the process.
Fail ==
    /\ Running
    /\ phase' = "failed"
    /\ UNCHANGED <<owed, stopping, last>>

Next ==
    \/ RequestScan
    \/ RequestStop
    \/ BeginScan
    \/ EndScan
    \/ Stop
    \/ Fail

Spec == Init /\ [][Next]_vars

=============================================================================
