----------------------------- MODULE PaidAnswers -----------------------------
(***************************************************************************)
(* What the model costs (README "Optional model-assisted inference"), with *)
(* no jobs, titles, turns or cooldowns: every question is bought at most   *)
(* once per scan, within the scan's budget, and never while an answer to   *)
(* it is held.                                                             *)
(***************************************************************************)
EXTENDS Naturals

CONSTANTS
    Questions,  \* the inputs the model may be asked about
    MaxCalls    \* openai_max_calls_per_scan

VARIABLES
    held,       \* the questions whose answers are held
    bought,     \* the questions paid for in this scan
    spent,      \* the calls of this scan
    pending     \* the questions paid for and not yet answered

vars == <<held, bought, spent, pending>>

Init ==
    /\ held = {}
    /\ bought = {}
    /\ spent = 0
    /\ pending = {}

\* A new scan, by the same process or by one that starts after a crash.
NewScan ==
    /\ pending = {}
    /\ bought' = {}
    /\ spent' = 0
    /\ UNCHANGED <<held, pending>>

Buy(q) ==
    /\ pending = {}
    /\ q \notin held \cup bought
    /\ spent < MaxCalls
    /\ pending' = {q}
    /\ bought' = bought \cup {q}
    /\ spent' = spent + 1
    /\ UNCHANGED held

\* The answer is kept, or there is none: an error, or a crash before it is stored.
Keep ==
    /\ pending # {}
    /\ held' = held \cup pending
    /\ pending' = {}
    /\ UNCHANGED <<bought, spent>>

Lose ==
    /\ pending # {}
    /\ pending' = {}
    /\ UNCHANGED <<held, bought, spent>>

\* Answers are forgotten when they expire, when their input changes and when
\* an operator invalidates them.
Forget ==
    /\ pending = {}
    /\ held' \in SUBSET held
    /\ UNCHANGED <<bought, spent, pending>>

Next ==
    \/ NewScan
    \/ \E q \in Questions : Buy(q)
    \/ Keep
    \/ Lose
    \/ Forget

Spec == Init /\ [][Next]_vars

=============================================================================
