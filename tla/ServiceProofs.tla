---------------------------- MODULE ServiceProofs ----------------------------
(***************************************************************************)
(* Theorems about Service, for every number of signals and every depth of  *)
(* nesting, with or without a scan interval, wherever signals are handled. *)
(***************************************************************************)
EXTENDS Service, SequenceTheorems, TLAPS

\* Some handler has raised its flag and has not set the event yet.
HandlerWillSet == \E i \in 1..Len(handlers) : handlers[i].at \in {"acquire", "locked"}

-----------------------------------------------------------------------------
(* Handler frames, as a sequence.                                          *)

LEMMA HandlerFrames ==
    ASSUME NEW h \in Seq(Frame), h # <<>>
    PROVE  /\ Len(h) \in Nat \ {0}
           /\ h[Len(h)] \in Frame
           /\ \A i \in 1..Len(h) : h[i] \in Frame
  OBVIOUS

LEMMA PushFrame ==
    ASSUME NEW h \in Seq(Frame), NEW s \in Signals
    PROVE  LET f == [signal |-> s, at |-> "flag"] IN
           /\ Append(h, f) \in Seq(Frame)
           /\ Append(h, f) # <<>>
           /\ Len(Append(h, f)) = Len(h) + 1
           /\ \A i \in 1..Len(h) : Append(h, f)[i] = h[i]
  BY DEF Frame

LEMMA PopFrame ==
    ASSUME NEW h \in Seq(Frame), h # <<>>
    PROVE  LET g == SubSeq(h, 1, Len(h) - 1) IN
           /\ g \in Seq(Frame)
           /\ Len(g) = Len(h) - 1
           /\ \A i \in 1..Len(g) : g[i] = h[i]
  <1> DEFINE n == Len(h) - 1
             g == SubSeq(h, 1, n)
  <1>1. Len(h) \in Nat \ {0} /\ \A i \in 1..Len(h) : h[i] \in Frame
    BY HandlerFrames
  <1>2. n \in Nat /\ (\A i \in 1..n : h[i] \in Frame)
    BY <1>1
  <1>3. /\ g \in Seq(Frame)
        /\ Len(g) = IF 1 <= n THEN n - 1 + 1 ELSE 0
        /\ \A i \in 1..(n - 1 + 1) : g[i] = h[1 + i - 1]
    <2> HIDE DEF n
    <2> QED BY <1>2, SubSeqProperties
  <1>4. Len(g) = n
    <2> HIDE DEF n, g
    <2> QED BY <1>2, <1>3
  <1>5. \A i \in 1..n : g[i] = h[i]
    <2> HIDE DEF n, g
    <2> QED BY <1>2, <1>3
  <1> QED
    BY <1>3, <1>4, <1>5

LEMMA MoveFrame ==
    ASSUME NEW h \in Seq(Frame), h # <<>>, NEW a \in {"flag", "acquire", "locked"}
    PROVE  LET g == [h EXCEPT ![Len(h)].at = a] IN
           /\ g \in Seq(Frame)
           /\ g # <<>>
           /\ Len(g) = Len(h)
           /\ g[Len(h)].at = a
           /\ \A i \in 1..Len(h) : i # Len(h) => g[i] = h[i]
  <1> DEFINE n == Len(h)
             f == [h[n] EXCEPT !.at = a]
             g == [h EXCEPT ![n] = f]
  <1>1. n \in 1..Len(h) /\ h[n] \in Frame
    BY HandlerFrames
  <1>2. f \in Frame /\ f.at = a
    BY <1>1 DEF Frame
  <1>3. /\ g \in Seq(Frame) /\ Len(g) = n
        /\ \A i \in 1..n : g[i] = IF i = n THEN f ELSE h[i]
    <2> HIDE DEF f
    <2> QED BY <1>1, <1>2, ExceptSeq
  <1>4. g # <<>>
    BY <1>1, <1>3
  <1> QED
    BY <1>1, <1>2, <1>3, <1>4

-----------------------------------------------------------------------------
(* Types.                                                                  *)

LEMMA TypeInit == Init => TypeOK
  <1>1. Init => ControlType
    BY BoundsAssumption DEF Init, ControlType, Labels
  <1>2. Init => FlagType
    BY Zenon DEF Init, FlagType
  <1> QED
    BY <1>1, <1>2 DEF TypeOK

\* The flags take truth values whatever step is taken.
LEMMA FlagTypeStep == FlagType /\ [Next]_vars => FlagType'
  <1> SUFFICES ASSUME FlagType, [Next]_vars PROVE FlagType'
    OBVIOUS
  <1> USE DEF FlagType, requests, eventVars, timer, result
  <1>1. CASE InstallHandlers \/ EnterLock \/ CheckStop \/ Decide \/ Leave \/ KillAtBoot
    BY <1>1, Zenon DEF InstallHandlers, EnterLock, CheckStop, Decide, Leave, KillAtBoot
  <1>2. CASE WriteStarting \/ AnnounceScan \/ ReportScan \/ WriteStopped
    BY <1>2, Zenon DEF WriteStarting, AnnounceScan, ReportScan, WriteStatus, WriteStopped
  <1>3. CASE ClearAcquire \/ ClearFlag \/ SampleClock \/ RunScan \/ Reschedule
    BY <1>3, Zenon DEF ClearAcquire, ClearFlag, SampleClock, RunScan, Reschedule
  <1>4. CASE BeginScan
    BY <1>4, Zenon DEF BeginScan
  <1>5. CASE WaitAcquire \/ WaitTest \/ WakeUp \/ WaitReturn
    BY <1>5, Zenon DEF WaitAcquire, WaitTest, WakeUp, WaitReturn
  <1>6. CASE SetRequestFlag
    BY <1>6, Zenon DEF SetRequestFlag
  <1>7. CASE SetAcquire \/ SetEvent \/ ClockReachesNextScan
    BY <1>7, Zenon DEF SetAcquire, SetEvent, ClockReachesNextScan
  <1>8. ASSUME NEW s \in Signals, Deliver(s) PROVE FlagType'
    BY <1>8, Zenon DEF Deliver
  <1>9. CASE UNCHANGED vars
    BY <1>9, Zenon DEF vars
  <1> QED
    BY <1>1, <1>2, <1>3, <1>4, <1>5, <1>6, <1>7, <1>8, <1>9, Zenon DEF Next, Main, Handler

LEMMA ControlTypeStep == ControlType /\ [Next]_vars => ControlType'
  <1> SUFFICES ASSUME ControlType, [Next]_vars PROVE ControlType'
    OBVIOUS
  <1> USE DEF ControlType, Step, requests, eventVars, timer, result, Labels
  <1>1. CASE InstallHandlers \/ EnterLock \/ Leave \/ KillAtBoot
    BY <1>1 DEF InstallHandlers, EnterLock, Leave, KillAtBoot
  <1>2. CASE CheckStop \/ Decide
    BY <1>2 DEF CheckStop, Decide
  <1>3. CASE WriteStarting \/ AnnounceScan \/ ReportScan \/ WriteStopped
    BY <1>3 DEF WriteStarting, AnnounceScan, ReportScan, WriteStatus, WriteStopped
  <1>4. CASE ClearAcquire \/ ClearFlag \/ SampleClock \/ RunScan \/ Reschedule
    BY <1>4 DEF ClearAcquire, ClearFlag, SampleClock, RunScan, Reschedule
  <1>5. CASE BeginScan
    BY <1>5 DEF BeginScan
  <1>6. CASE WaitAcquire \/ WaitTest \/ WakeUp \/ WaitReturn
    BY <1>6 DEF WaitAcquire, WaitTest, WakeUp, WaitReturn
  <1>7. CASE SetRequestFlag
    BY <1>7, MoveFrame DEF SetRequestFlag, HandlerStep, depth
  <1>8. CASE SetAcquire
    BY <1>8, MoveFrame DEF SetAcquire, HandlerStep, depth
  <1>9. CASE SetEvent
    BY <1>9, PopFrame DEF SetEvent, depth
  <1>10. ASSUME NEW s \in Signals, Deliver(s) PROVE ControlType'
    <2>1. handlers' \in Seq(Frame)
      BY <1>10, PushFrame DEF Deliver
    <2>2. signals' \in 0..MaxSignals
      BY <1>10, BoundsAssumption DEF Deliver
    <2> QED
      BY <1>10, <2>1, <2>2 DEF Deliver
  <1>11. CASE ClockReachesNextScan \/ UNCHANGED vars
    BY <1>11 DEF ClockReachesNextScan, vars
  <1> QED
    BY <1>1, <1>2, <1>3, <1>4, <1>5, <1>6, <1>7, <1>8, <1>9, <1>10, <1>11
       DEF Next, Main, Handler

\* Every variable of the service stays in its type.
THEOREM TypeCorrect == Spec => []TypeOK
  <1>1. TypeOK /\ [Next]_vars => TypeOK'
    BY FlagTypeStep, ControlTypeStep DEF TypeOK
  <1> QED
    BY TypeInit, <1>1, PTL DEF Spec

-----------------------------------------------------------------------------
(* The inductive invariant, one named part per idea.                       *)

\* The loop's flag is up exactly while a scan is owed.
OwedIsFlagged == owed = scan_requested

\* An owed scan whose event is not set yet is on its way to one: a handler is
\* about to set the event, or the loop has cleared it and will read the flag.
OwedScanWakes ==
    owed /\ ~event => HandlerWillSet \/ pc \in {"sample", "decide", "begin"}

\* What the loop has read is still true: only Reschedule moves next_scan.
ClockReading ==
    /\ pc \in {"decide", "begin"} /\ now_due => due
    /\ pc = "begin" => scan_requested \/ now_due

\* A scan that began after the stop is the last thing before the exit.
LateScan ==
    /\ lateScans <= 1
    /\ lateScans > 0 => /\ stop_requested
                        /\ pc \in {"announce", "scanning", "report", "reschedule",
                                   "check", "stopping", "unlock", "exited"}

\* The way out: only a requested stop ends well, and nothing runs afterwards.
WayOut ==
    /\ pc = "stopping" => stop_requested
    /\ exit_code = "ok" => stop_requested /\ pc \in {"unlock", "exited"}
    /\ pc \in {"boot", "exited"} => handlers = <<>>

IInv == TypeOK /\ OwedIsFlagged /\ OwedScanWakes /\ ClockReading /\ LateScan /\ WayOut

LEMMA InvInit == Init => IInv
  <1> SUFFICES ASSUME Init PROVE IInv
    OBVIOUS
  <1>1. OwedIsFlagged /\ OwedScanWakes
    BY Zenon DEF Init, OwedIsFlagged, OwedScanWakes
  <1>2. ClockReading /\ LateScan /\ WayOut
    BY DEF Init, ClockReading, LateScan, WayOut
  <1> QED
    BY TypeInit, <1>1, <1>2 DEF IInv

LEMMA OwedIsFlaggedStep == OwedIsFlagged /\ [Next]_vars => OwedIsFlagged'
  <1> SUFFICES ASSUME OwedIsFlagged, [Next]_vars PROVE OwedIsFlagged'
    OBVIOUS
  <1> USE DEF OwedIsFlagged, requests
  <1>1. CASE BeginScan
    BY <1>1, Zenon DEF BeginScan
  <1>2. CASE SetRequestFlag
    <2>1. \/ UNCHANGED <<scan_requested, owed>>
          \/ scan_requested' = TRUE /\ owed' = TRUE
      BY <1>2, Zenon DEF SetRequestFlag
    <2>2. CASE UNCHANGED <<scan_requested, owed>>
      BY <2>2, Zenon
    <2>3. CASE scan_requested' = TRUE /\ owed' = TRUE
      BY <2>3
    <2> QED
      BY <2>1, <2>2, <2>3
  <1>3. CASE \/ InstallHandlers \/ EnterLock \/ WriteStarting \/ CheckStop \/ ClearAcquire
             \/ ClearFlag \/ SampleClock \/ Decide \/ AnnounceScan \/ RunScan \/ ReportScan
             \/ Reschedule \/ WaitAcquire \/ WaitTest \/ WakeUp \/ WaitReturn
             \/ WriteStopped \/ Leave
    BY <1>3, Zenon
       DEF InstallHandlers, EnterLock, WriteStarting, CheckStop, ClearAcquire, ClearFlag,
           SampleClock, Decide, AnnounceScan, RunScan, ReportScan, Reschedule, WaitAcquire,
           WaitTest, WakeUp, WaitReturn, WriteStopped, Leave, WriteStatus
  <1>4. CASE KillAtBoot \/ SetAcquire \/ SetEvent \/ ClockReachesNextScan \/ UNCHANGED vars
    BY <1>4, Zenon DEF KillAtBoot, SetAcquire, SetEvent, ClockReachesNextScan, vars
  <1>5. ASSUME NEW s \in Signals, Deliver(s) PROVE OwedIsFlagged'
    BY <1>5, Zenon DEF Deliver
  <1> QED
    BY <1>1, <1>2, <1>3, <1>4, <1>5, Zenon DEF Next, Main, Handler

\* Steps of handlers keep a pending set() pending, or perform it.
LEMMA PendingSet ==
    ASSUME TypeOK
    PROVE  /\ SetRequestFlag => HandlerWillSet'
           /\ SetAcquire => HandlerWillSet'
           /\ \A s \in Signals : Deliver(s) /\ HandlerWillSet => HandlerWillSet'
  <1>1. handlers \in Seq(Frame)
    BY DEF TypeOK, ControlType
  <1>2. ASSUME SetRequestFlag PROVE HandlerWillSet'
    BY <1>1, <1>2, HandlerFrames, MoveFrame DEF SetRequestFlag, HandlerStep, HandlerWillSet, depth
  <1>3. ASSUME SetAcquire PROVE HandlerWillSet'
    BY <1>1, <1>3, HandlerFrames, MoveFrame DEF SetAcquire, HandlerStep, HandlerWillSet, depth
  <1>4. ASSUME NEW s \in Signals, Deliver(s), HandlerWillSet PROVE HandlerWillSet'
    BY <1>1, <1>4, PushFrame DEF Deliver, HandlerWillSet
  <1> QED
    BY <1>2, <1>3, <1>4

LEMMA OwedScanWakesStep == IInv /\ [Next]_vars => OwedScanWakes'
  <1> SUFFICES ASSUME IInv, [Next]_vars PROVE OwedScanWakes'
    OBVIOUS
  <1>0. TypeOK /\ OwedIsFlagged /\ OwedScanWakes
    BY DEF IInv
  <1>1. ASSUME handlers' = handlers, owed' = owed, event' = event,
               pc' = pc \/ pc' \in {"sample", "decide", "begin"}
                 \/ (pc \notin {"sample", "decide", "begin"})
        PROVE  OwedScanWakes'
    <2>1. HandlerWillSet' <=> HandlerWillSet
      BY <1>1 DEF HandlerWillSet
    <2> QED
      BY <1>0, <1>1, <2>1, Zenon DEF OwedScanWakes
  <1>2. CASE \/ InstallHandlers \/ EnterLock \/ WriteStarting \/ CheckStop \/ ClearAcquire
             \/ AnnounceScan \/ RunScan \/ ReportScan \/ Reschedule \/ WaitAcquire
             \/ WaitTest \/ WakeUp \/ WaitReturn \/ WriteStopped \/ Leave \/ KillAtBoot
    <2>1. handlers' = handlers /\ pc \notin {"sample", "decide", "begin"}
      BY <1>2
         DEF InstallHandlers, EnterLock, WriteStarting, CheckStop, ClearAcquire, AnnounceScan,
             RunScan, ReportScan, Reschedule, WaitAcquire, WaitTest, WakeUp, WaitReturn,
             WriteStopped, Leave, KillAtBoot, WriteStatus, Step
    <2>2. owed' = owed /\ event' = event
      BY <1>2, Zenon
         DEF InstallHandlers, EnterLock, WriteStarting, CheckStop, ClearAcquire, AnnounceScan,
             RunScan, ReportScan, Reschedule, WaitAcquire, WaitTest, WakeUp, WaitReturn,
             WriteStopped, Leave, KillAtBoot, WriteStatus, requests, eventVars
    <2> QED
      BY <1>1, <2>1, <2>2
  <1>3. CASE ClearFlag \/ SampleClock
    <2>1. pc' \in {"sample", "decide", "begin"}
      BY <1>3 DEF ClearFlag, SampleClock, Step
    <2> QED
      BY <2>1 DEF OwedScanWakes
  <1>4. CASE Decide
    <2>1. CASE owed
      <3>1. scan_requested
        BY <1>0, <2>1, Zenon DEF OwedIsFlagged
      <3>2. pc' = "begin"
        BY <1>4, <3>1 DEF Decide, Step
      <3> QED
        BY <3>2 DEF OwedScanWakes
    <2>2. CASE ~owed
      BY <1>4, <2>2, Zenon DEF Decide, requests, OwedScanWakes
    <2> QED
      BY <2>1, <2>2
  <1>5. CASE BeginScan
    BY <1>5, Zenon DEF BeginScan, OwedScanWakes
  <1>6. CASE SetRequestFlag \/ SetAcquire
    BY <1>0, <1>6, PendingSet, Zenon DEF OwedScanWakes
  <1>7. CASE SetEvent
    BY <1>7, Zenon DEF SetEvent, OwedScanWakes
  <1>8. ASSUME NEW s \in Signals, Deliver(s) PROVE OwedScanWakes'
    <2>1. HandlerWillSet => HandlerWillSet'
      BY <1>0, <1>8, PendingSet
    <2> QED
      BY <1>0, <1>8, <2>1, Zenon DEF Deliver, OwedScanWakes, requests, eventVars
  <1>9. CASE ClockReachesNextScan \/ UNCHANGED vars
    <2>1. handlers' = handlers /\ pc' = pc /\ owed' = owed /\ event' = event
      BY <1>9, Zenon DEF ClockReachesNextScan, vars, requests, eventVars
    <2> QED
      BY <1>1, <2>1
  <1> QED
    BY <1>2, <1>3, <1>4, <1>5, <1>6, <1>7, <1>8, <1>9, Zenon DEF Next, Main, Handler

LEMMA ClockReadingStep == IInv /\ [Next]_vars => ClockReading'
  <1> SUFFICES ASSUME IInv, [Next]_vars PROVE ClockReading'
    OBVIOUS
  <1>0. FlagType /\ ClockReading
    BY DEF IInv, TypeOK
  <1>1. ASSUME pc' \notin {"decide", "begin"} PROVE ClockReading'
    BY <1>1 DEF ClockReading
  <1>2. ASSUME pc' = pc, now_due' => now_due, now_due => now_due',
               due => due', scan_requested => scan_requested'
        PROVE  ClockReading'
    BY <1>0, <1>2, Zenon DEF ClockReading
  <1>3. CASE \/ InstallHandlers \/ EnterLock \/ WriteStarting \/ CheckStop \/ ClearAcquire
             \/ ClearFlag \/ BeginScan \/ AnnounceScan \/ RunScan \/ ReportScan
             \/ Reschedule \/ WaitAcquire \/ WaitTest \/ WakeUp \/ WaitReturn
             \/ WriteStopped \/ Leave \/ KillAtBoot
    <2>1. pc' \notin {"decide", "begin"}
      BY <1>3
         DEF InstallHandlers, EnterLock, WriteStarting, CheckStop, ClearAcquire, ClearFlag,
             BeginScan, AnnounceScan, RunScan, ReportScan, Reschedule, WaitAcquire, WaitTest,
             WakeUp, WaitReturn, WriteStopped, Leave, KillAtBoot, WriteStatus, Step
    <2> QED
      BY <1>1, <2>1
  <1>4. CASE SampleClock
    <2>1. pc' = "decide"
      BY <1>4 DEF SampleClock, Step
    <2>2. now_due' = due /\ due' = due
      BY <1>4, Zenon DEF SampleClock
    <2>3. now_due' => due'
      BY <2>2, Zenon
    <2> QED
      BY <2>1, <2>3 DEF ClockReading
  <1>5. CASE Decide
    <2>1. pc = "decide" /\ pc' = IF scan_requested \/ now_due THEN "begin" ELSE "wait"
      BY <1>5 DEF Decide, Step
    <2>2. UNCHANGED <<now_due, due, scan_requested>>
      BY <1>5, Zenon DEF Decide, timer, requests
    <2>3. now_due => due
      BY <1>0, <2>1, Zenon DEF ClockReading
    <2>4. now_due' => due'
      BY <2>2, <2>3, Zenon
    <2>5. CASE scan_requested \/ now_due
      <3>1. scan_requested' \/ now_due'
        BY <2>2, <2>5, Zenon
      <3> QED
        BY <2>4, <3>1 DEF ClockReading
    <2>6. CASE ~(scan_requested \/ now_due)
      BY <1>1, <2>1, <2>6
    <2> QED
      BY <2>5, <2>6
  <1>6. CASE Handler
    <2>1. pc' = pc /\ UNCHANGED timer
      BY <1>6, Zenon DEF Handler, SetRequestFlag, SetAcquire, SetEvent, HandlerStep
    <2>2. scan_requested => scan_requested'
      BY <1>6, Zenon DEF Handler, SetRequestFlag, SetAcquire, SetEvent, requests
    <2> QED
      BY <1>2, <2>1, <2>2, Zenon DEF timer
  <1>7. ASSUME NEW s \in Signals, Deliver(s) PROVE ClockReading'
    BY <1>2, <1>7, Zenon DEF Deliver, timer, requests
  <1>8. CASE ClockReachesNextScan
    <2>1. pc' = pc /\ UNCHANGED <<now_due, scan_requested>>
      BY <1>8, Zenon DEF ClockReachesNextScan, requests
    <2>2. due'
      BY <1>8 DEF ClockReachesNextScan
    <2> QED
      BY <1>2, <2>1, <2>2, Zenon
  <1>9. CASE UNCHANGED vars
    BY <1>2, <1>9, Zenon DEF vars, timer, requests
  <1> QED
    BY <1>3, <1>4, <1>5, <1>6, <1>7, <1>8, <1>9, Zenon DEF Next, Main

LEMMA LateScanStep == IInv /\ [Next]_vars => LateScan'
  <1> SUFFICES ASSUME IInv, [Next]_vars PROVE LateScan'
    OBVIOUS
  <1> DEFINE Last == {"announce", "scanning", "report", "reschedule",
                      "check", "stopping", "unlock", "exited"}
  <1>0. lateScans \in Nat /\ LateScan
    BY DEF IInv, TypeOK, ControlType
  <1>1. ASSUME lateScans' = lateScans, stop_requested => stop_requested',
               stop_requested /\ pc \in Last => pc' \in Last
        PROVE  LateScan'
    BY <1>0, <1>1 DEF LateScan
  <1>2. CASE \/ InstallHandlers \/ EnterLock \/ WriteStarting \/ ClearAcquire \/ ClearFlag
             \/ SampleClock \/ Decide \/ AnnounceScan \/ RunScan \/ ReportScan \/ Reschedule
             \/ WaitAcquire \/ WaitTest \/ WakeUp \/ WaitReturn \/ WriteStopped \/ Leave
             \/ KillAtBoot
    <2>1. pc \in Last => pc' \in Last
      BY <1>2
         DEF InstallHandlers, EnterLock, WriteStarting, ClearAcquire, ClearFlag, SampleClock,
             Decide, AnnounceScan, RunScan, ReportScan, Reschedule, WaitAcquire, WaitTest,
             WakeUp, WaitReturn, WriteStopped, Leave, KillAtBoot, WriteStatus, Step
    <2>2. UNCHANGED requests
      BY <1>2, Zenon
         DEF InstallHandlers, EnterLock, WriteStarting, ClearAcquire, ClearFlag, SampleClock,
             Decide, AnnounceScan, RunScan, ReportScan, Reschedule, WaitAcquire, WaitTest,
             WakeUp, WaitReturn, WriteStopped, Leave, KillAtBoot, WriteStatus
    <2>3. lateScans' = lateScans /\ (stop_requested => stop_requested')
      BY <2>2, Zenon DEF requests
    <2> QED
      BY <1>1, <2>1, <2>3
  <1>3. CASE CheckStop
    <2>1. stop_requested /\ pc \in Last => pc' \in Last
      BY <1>3 DEF CheckStop, Step
    <2>2. lateScans' = lateScans /\ (stop_requested => stop_requested')
      BY <1>3, Zenon DEF CheckStop, requests
    <2> QED
      BY <1>1, <2>1, <2>2
  <1>4. CASE BeginScan
    <2>1. pc = "begin" /\ pc' = "announce"
      BY <1>4 DEF BeginScan, Step
    <2>2. lateScans = 0
      BY <1>0, <2>1 DEF LateScan
    <2>3. lateScans' = IF stop_requested THEN lateScans + 1 ELSE lateScans
      BY <1>4 DEF BeginScan
    <2>4. stop_requested => stop_requested'
      BY <1>4, Zenon DEF BeginScan
    <2> QED
      BY <2>1, <2>2, <2>3, <2>4 DEF LateScan
  <1>5. CASE Handler
    <2>1. pc' = pc /\ lateScans' = lateScans
      BY <1>5, Zenon DEF Handler, SetRequestFlag, SetAcquire, SetEvent, HandlerStep, requests
    <2>2. stop_requested => stop_requested'
      BY <1>5, Zenon DEF Handler, SetRequestFlag, SetAcquire, SetEvent, requests
    <2> QED
      BY <1>1, <2>1, <2>2
  <1>6. ASSUME NEW s \in Signals, Deliver(s) PROVE LateScan'
    <2>1. pc' = pc /\ lateScans' = lateScans /\ (stop_requested => stop_requested')
      BY <1>6, Zenon DEF Deliver, requests
    <2> QED
      BY <1>1, <2>1
  <1>7. CASE ClockReachesNextScan \/ UNCHANGED vars
    <2>1. pc' = pc
      BY <1>7, Zenon DEF ClockReachesNextScan, vars
    <2>2. UNCHANGED requests
      BY <1>7, Zenon DEF ClockReachesNextScan, vars
    <2>3. lateScans' = lateScans /\ (stop_requested => stop_requested')
      BY <2>2, Zenon DEF requests
    <2> QED
      BY <1>1, <2>1, <2>3
  <1> QED
    BY <1>2, <1>3, <1>4, <1>5, <1>6, <1>7, Zenon DEF Next, Main

LEMMA WayOutStep == IInv /\ [Next]_vars => WayOut'
  <1> SUFFICES ASSUME IInv, [Next]_vars PROVE WayOut'
    OBVIOUS
  <1>0. ControlType /\ WayOut
    BY DEF IInv, TypeOK
  <1>1. CASE \/ InstallHandlers \/ EnterLock \/ WriteStarting \/ ClearAcquire \/ ClearFlag
             \/ SampleClock \/ Decide \/ BeginScan \/ AnnounceScan \/ RunScan \/ ReportScan
             \/ Reschedule \/ WaitAcquire \/ WaitTest \/ WakeUp \/ WaitReturn \/ KillAtBoot
    <2>1. /\ handlers' = <<>> /\ pc' # "stopping"
          /\ exit_code' = exit_code \/ exit_code' \in {"error", "signal"}
          /\ pc \notin {"unlock", "exited"}
      BY <1>1
         DEF InstallHandlers, EnterLock, WriteStarting, ClearAcquire, ClearFlag, SampleClock,
             Decide, BeginScan, AnnounceScan, RunScan, ReportScan, Reschedule, WaitAcquire,
             WaitTest, WakeUp, WaitReturn, KillAtBoot, WriteStatus, Step, result
    <2> QED
      BY <1>0, <2>1 DEF WayOut
  <1>2. CASE CheckStop \/ WriteStopped \/ Leave
    <2>1. /\ handlers' = <<>>
          /\ CheckStop => pc = "check" /\ exit_code' = exit_code
                          /\ (pc' = "stopping" => stop_requested)
          /\ WriteStopped => pc = "stopping" /\ pc' = "unlock"
          /\ Leave => pc = "unlock" /\ pc' = "exited" /\ exit_code' = exit_code
      BY <1>2 DEF CheckStop, WriteStopped, Leave, Step, result
    <2>2. stop_requested => stop_requested'
      BY <1>2, Zenon DEF CheckStop, WriteStopped, Leave, requests
    <2> QED
      BY <1>0, <1>2, <2>1, <2>2 DEF WayOut
  <1>3. CASE Handler
    <2>1. pc' = pc /\ exit_code' = exit_code /\ handlers # <<>>
      BY <1>3, Zenon DEF Handler, SetRequestFlag, SetAcquire, SetEvent, HandlerStep, result
    <2>2. stop_requested => stop_requested'
      BY <1>3, Zenon DEF Handler, SetRequestFlag, SetAcquire, SetEvent, requests
    <2> QED
      BY <1>0, <2>1, <2>2 DEF WayOut
  <1>4. ASSUME NEW s \in Signals, Deliver(s) PROVE WayOut'
    <2>1. /\ pc' = pc /\ exit_code' = exit_code /\ pc \notin {"boot", "exited"}
          /\ (stop_requested => stop_requested')
      BY <1>4, Zenon DEF Deliver, requests, result
    <2> QED
      BY <1>0, <2>1 DEF WayOut
  <1>5. CASE ClockReachesNextScan \/ UNCHANGED vars
    <2>1. pc' = pc /\ handlers' = handlers /\ UNCHANGED result
      BY <1>5, Zenon DEF ClockReachesNextScan, vars
    <2>2. UNCHANGED requests
      BY <1>5, Zenon DEF ClockReachesNextScan, vars
    <2>3. exit_code' = exit_code
      BY <2>1, Zenon DEF result
    <2>4. stop_requested => stop_requested'
      BY <2>2, Zenon DEF requests
    <2> QED
      BY <1>0, <2>1, <2>3, <2>4 DEF WayOut
  <1> QED
    BY <1>1, <1>2, <1>3, <1>4, <1>5, Zenon DEF Next, Main

THEOREM Invariant == Spec => []IInv
  <1>1. IInv /\ [Next]_vars => IInv'
    <2>1. TypeOK /\ [Next]_vars => TypeOK'
      BY FlagTypeStep, ControlTypeStep DEF TypeOK
    <2> QED
      BY <2>1, OwedIsFlaggedStep, OwedScanWakesStep, ClockReadingStep, LateScanStep,
         WayOutStep DEF IInv
  <1> QED
    BY InvInit, <1>1, PTL DEF Spec

\* However signals and the loop interleave, a service that blocks in wait()
\* with no handler running owes no scan, unless the event will wake it.
THEOREM NoSleepOnRequests == Spec => []NeverSleepsOnARequest
  <1>1. IInv => NeverSleepsOnARequest
    BY DEF IInv, OwedScanWakes, HandlerWillSet, NeverSleepsOnARequest
  <1> QED
    BY Invariant, <1>1, PTL

\* A requested stop lets at most one more scan begin.
THEOREM StopBoundsScans == Spec => []AtMostOneScanAfterStop
  <1>1. IInv => AtMostOneScanAfterStop
    BY DEF IInv, LateScan, AtMostOneScanAfterStop
  <1> QED
    BY Invariant, <1>1, PTL

-----------------------------------------------------------------------------
(* The service implements ScanScheduler: each step of the process is one of *)
(* the promise's, or leaves what the promise speaks of as it was.           *)

\* A scan begins only when the clock has come due or a request is owed.
THEOREM ScansAreCaused == Spec => ScansHaveACause
  <1> DEFINE Caused == pc = "begin" /\ pc' = "announce" => owed \/ due
  <1>1. IInv /\ [Next]_vars => [Caused]_vars
    <2> SUFFICES ASSUME IInv, pc = "begin" PROVE owed \/ due
      OBVIOUS
    <2>1. scan_requested => owed
      BY Zenon DEF IInv, OwedIsFlagged
    <2>2. scan_requested \/ now_due
      BY DEF IInv, ClockReading
    <2>3. now_due => due
      BY DEF IInv, ClockReading
    <2> QED
      BY <2>1, <2>2, <2>3, Zenon
  <1> QED
    BY Invariant, <1>1, PTL DEF Spec, ScansHaveACause

\* What a step of the main loop that neither begins nor ends a scan does.
LEMMA QuietSteps ==
    ASSUME IInv,
           \/ InstallHandlers \/ EnterLock \/ WriteStarting \/ CheckStop \/ ClearAcquire
           \/ ClearFlag \/ SampleClock \/ Decide \/ WaitAcquire \/ WaitTest \/ WakeUp
           \/ WaitReturn \/ WriteStopped
    PROVE  Phase = "idle" /\ Phase' = "idle" /\ UNCHANGED requests
  <1>1. pc \notin {"announce", "scanning", "report", "reschedule", "exited"}
        /\ pc' \notin {"announce", "scanning", "report", "reschedule", "exited"}
    BY DEF InstallHandlers, EnterLock, WriteStarting, CheckStop, ClearAcquire, ClearFlag,
           SampleClock, Decide, WaitAcquire, WaitTest, WakeUp, WaitReturn, WriteStopped,
           WriteStatus, Step
  <1>2. UNCHANGED requests
    BY Zenon
       DEF InstallHandlers, EnterLock, WriteStarting, CheckStop, ClearAcquire, ClearFlag,
           SampleClock, Decide, WaitAcquire, WaitTest, WakeUp, WaitReturn, WriteStopped,
           WriteStatus
  <1> QED
    BY <1>1, <1>2 DEF Phase, Scanning

\* What every step does to the phase of the service.
LEMMA PhaseSteps ==
    ASSUME IInv
    PROVE  /\ AnnounceScan \/ RunScan \/ ReportScan =>
                Phase = "scanning" /\ Phase' \in {"scanning", "idle"}
           /\ Reschedule => Phase = "scanning" /\ Phase' = "idle"
           /\ BeginScan => Phase = "idle" /\ Phase' = "scanning"
           /\ Leave => Phase = "idle" /\ ((Phase' = "stopped" /\ stop_requested) \/ Phase' = "failed")
           /\ KillAtBoot => Phase = "idle" /\ Phase' = "failed"
  <1>1. (AnnounceScan \/ RunScan \/ ReportScan) =>
              /\ pc \in {"announce", "scanning", "report"}
              /\ pc' \in {"scanning", "report", "reschedule", "unlock"}
    BY DEF AnnounceScan, RunScan, ReportScan, WriteStatus, Step
  <1>2. Reschedule => pc = "reschedule" /\ pc' = "check"
    BY DEF Reschedule, Step
  <1>3. BeginScan => pc = "begin" /\ pc' = "announce"
    BY DEF BeginScan, Step
  <1>4. Leave => pc = "unlock" /\ pc' = "exited" /\ exit_code' = exit_code
    BY DEF Leave, Step, result
  <1>5. KillAtBoot => pc = "boot" /\ pc' = "exited" /\ exit_code' = "signal"
    BY DEF KillAtBoot, Step
  <1>6. exit_code = "ok" => stop_requested
    BY DEF IInv, WayOut
  <1>7. CASE Leave
    <2>1. exit_code = "ok" => Phase' = "stopped" /\ stop_requested
      BY <1>4, <1>6, <1>7 DEF Phase, Scanning
    <2>2. exit_code # "ok" => Phase' = "failed"
      BY <1>4, <1>7 DEF Phase, Scanning
    <2> QED
      BY <1>1, <1>2, <1>3, <1>4, <1>5, <1>7, <2>1, <2>2 DEF Phase, Scanning
  <1>8. CASE ~Leave
    BY <1>1, <1>2, <1>3, <1>5, <1>8 DEF Phase, Scanning
  <1> QED
    BY <1>7, <1>8

\* Signals, their handlers and the clock leave the phase alone.
LEMMA PhaseKept ==
    ASSUME IInv, \/ Handler \/ ClockReachesNextScan \/ UNCHANGED vars
                 \/ \E s \in Signals : Deliver(s)
    PROVE  Phase' = Phase
  <1>1. pc' = pc
    BY Zenon DEF Handler, SetRequestFlag, SetAcquire, SetEvent, HandlerStep,
                 ClockReachesNextScan, Deliver, vars
  <1>2. UNCHANGED result
    BY Zenon DEF Handler, SetRequestFlag, SetAcquire, SetEvent, ClockReachesNextScan,
                 Deliver, vars
  <1> QED
    BY <1>1, <1>2 DEF Phase, Scanning, result

\* Each step of the service is a step of the promise, or a stutter.
LEMMA RefinementStep == IInv /\ [Next]_vars => [Promise!Next]_(Promise!vars)
  <1> SUFFICES ASSUME IInv, [Next]_vars PROVE [Promise!Next]_(Promise!vars)
    OBVIOUS
  <1> DEFINE Stutter == /\ Phase' = Phase /\ owed' = owed /\ stop_requested' = stop_requested
                        /\ lateScans' = lateScans
  <1>0. Stutter => [Promise!Next]_(Promise!vars)
    BY DEF Promise!vars
  <1>1. CASE \/ InstallHandlers \/ EnterLock \/ WriteStarting \/ CheckStop \/ ClearAcquire
             \/ ClearFlag \/ SampleClock \/ Decide \/ WaitAcquire \/ WaitTest \/ WakeUp
             \/ WaitReturn \/ WriteStopped
    <2>1. Phase' = Phase /\ UNCHANGED requests
      BY <1>1, QuietSteps
    <2> QED
      BY <1>0, <2>1, Zenon DEF requests
  <1>2. CASE BeginScan
    <2>1. pc = "begin"
      BY <1>2 DEF BeginScan, Step
    <2>2. lateScans = 0
      BY <2>1 DEF IInv, TypeOK, ControlType, LateScan
    <2>3. lateScans' = IF stop_requested THEN lateScans + 1 ELSE lateScans
      BY <1>2, Zenon DEF BeginScan
    <2>4. stop_requested \in BOOLEAN
      BY Zenon DEF IInv, TypeOK, FlagType
    <2>5. (lateScans' > 0) = stop_requested
      <3> DEFINE late == lateScans' > 0
      <3>1. stop_requested => late = TRUE
        BY <2>2, <2>3
      <3>2. ~stop_requested => late = FALSE
        BY <2>2, <2>3
      <3>3. stop_requested = TRUE \/ stop_requested = FALSE
        BY <2>4
      <3> HIDE DEF late
      <3>4. stop_requested = TRUE => late = stop_requested
        BY <3>1, Zenon
      <3>5. stop_requested = FALSE => late = stop_requested
        BY <3>2, Zenon
      <3>6. late = stop_requested
        BY <3>3, <3>4, <3>5, Zenon
      <3> QED
        BY <3>6, Zenon DEF late
    <2>6. ~(lateScans > 0)
      BY <2>2
    <2>7. Phase = "idle" /\ Phase' = "scanning"
      BY <1>2, PhaseSteps
    <2>8. owed' = FALSE /\ stop_requested' = stop_requested
      BY <1>2, Zenon DEF BeginScan
    <2>9. Promise!BeginScan
      BY <2>5, <2>6, <2>7, <2>8, Zenon DEF Promise!BeginScan
    <2> QED
      BY <2>9 DEF Promise!Next
  <1>3. CASE AnnounceScan \/ RunScan \/ ReportScan \/ Reschedule
    <2>1. Phase = "scanning" /\ Phase' \in {"scanning", "idle"}
      BY <1>3, PhaseSteps
    <2>2. UNCHANGED requests
      BY <1>3, Zenon DEF AnnounceScan, RunScan, ReportScan, Reschedule, WriteStatus
    <2>3. owed' = owed /\ stop_requested' = stop_requested /\ lateScans' = lateScans
      BY <2>2, Zenon DEF requests
    <2>4. CASE Phase' = "scanning"
      BY <1>0, <2>1, <2>3, <2>4, Zenon
    <2>5. CASE Phase' = "idle"
      <3>1. Promise!EndScan
        BY <2>1, <2>3, <2>5, Zenon DEF Promise!EndScan
      <3> QED
        BY <3>1 DEF Promise!Next
    <2> QED
      BY <2>1, <2>4, <2>5
  <1>4. CASE Leave \/ KillAtBoot
    <2>1. /\ Phase = "idle"
          /\ (Phase' = "stopped" /\ stop_requested) \/ Phase' = "failed"
      BY <1>4, PhaseSteps
    <2>2. owed' = owed /\ stop_requested' = stop_requested /\ lateScans' = lateScans
      BY <1>4, Zenon DEF Leave, KillAtBoot, requests
    <2>3. Promise!Stop \/ Promise!Fail
      BY <2>1, <2>2, Zenon DEF Promise!Stop, Promise!Fail, Promise!Running
    <2> QED
      BY <2>3 DEF Promise!Next
  <1>5. CASE SetRequestFlag
    <2>1. Phase' = Phase
      BY <1>5, PhaseKept DEF Handler
    <2>2. pc # "exited"
      BY <1>5 DEF SetRequestFlag, HandlerStep, IInv, WayOut
    <2>3. Promise!Running
      BY <2>2 DEF Phase, Promise!Running
    <2>4. \/ stop_requested' = TRUE /\ owed' = owed
          \/ stop_requested' = stop_requested /\ owed' = TRUE
      BY <1>5, Zenon DEF SetRequestFlag
    <2>5. lateScans' = lateScans
      BY <1>5, Zenon DEF SetRequestFlag
    <2>6. Promise!RequestStop \/ Promise!RequestScan
      BY <2>1, <2>3, <2>4, <2>5, Zenon DEF Promise!RequestStop, Promise!RequestScan
    <2> QED
      BY <2>6 DEF Promise!Next
  <1>6. CASE \/ SetAcquire \/ SetEvent \/ ClockReachesNextScan \/ UNCHANGED vars
             \/ \E s \in Signals : Deliver(s)
    <2>1. Phase' = Phase
      BY <1>6, PhaseKept DEF Handler
    <2>2. UNCHANGED requests
      BY <1>6, Zenon DEF SetAcquire, SetEvent, ClockReachesNextScan, vars, Deliver
    <2> QED
      BY <1>0, <2>1, <2>2, Zenon DEF requests
  <1> QED
    BY <1>1, <1>2, <1>3, <1>4, <1>5, <1>6, Zenon DEF Next, Main, Handler

\* The process keeps the promise: one scan at a time, requests answered by one
\* scan, at most one scan after a stop, and a graceful stop only when asked.
THEOREM Refinement == Spec => ImplementsScanScheduler
  <1>1. Init => Promise!Init
    <2>1. Init => Phase = "idle" /\ (lateScans > 0) = FALSE
      BY DEF Init, Phase, Scanning
    <2>2. Init => owed = FALSE /\ stop_requested = FALSE
      BY Zenon DEF Init
    <2> QED
      BY <2>1, <2>2, Zenon DEF Promise!Init
  <1> QED
    BY Invariant, <1>1, RefinementStep, PTL
       DEF Spec, ImplementsScanScheduler, Promise!Spec

\* A clean exit is one that was asked for, between scans, and says so on disk.
THEOREM StopsAreRequested == Spec => OnlyRequestedStops
  <1> DEFINE Requested == exit_code' = "ok" /\ exit_code # "ok"
                            => stop_requested /\ ~Scanning /\ status' = "stopped"
  <1>1. IInv /\ [Next]_vars => [Requested]_vars
    <2> SUFFICES ASSUME IInv, Next, exit_code' = "ok", exit_code # "ok"
                 PROVE  stop_requested /\ ~Scanning /\ status' = "stopped"
      OBVIOUS
    <2>1. CASE WriteStopped
      <3>1. pc = "stopping" /\ status' = "stopped"
        BY <2>1 DEF WriteStopped, Step
      <3>2. stop_requested
        BY <3>1 DEF IInv, WayOut
      <3> QED
        BY <3>1, <3>2 DEF Scanning
    <2>2. CASE ~WriteStopped
      <3>1. exit_code' = exit_code \/ exit_code' \in {"error", "signal"}
        BY <2>2, Zenon
           DEF Next, Main, Handler, InstallHandlers, EnterLock, WriteStarting, CheckStop,
               ClearAcquire, ClearFlag, SampleClock, Decide, BeginScan, AnnounceScan, RunScan,
               ReportScan, Reschedule, WaitAcquire, WaitTest, WakeUp, WaitReturn, Leave,
               KillAtBoot, Deliver, SetRequestFlag, SetAcquire, SetEvent,
               ClockReachesNextScan, WriteStatus, result
      <3> QED
        BY <3>1
    <2> QED
      BY <2>1, <2>2
  <1> QED
    BY Invariant, <1>1, PTL DEF Spec, OnlyRequestedStops

=============================================================================
