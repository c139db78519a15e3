--------------------------- MODULE EnrichmentProofs ---------------------------
(***************************************************************************)
(* Proofs about Enrichment for any number of titles, related works, hosts, *)
(* attempts, pages, versions, failures and crashes.                        *)
(***************************************************************************)
EXTENDS Enrichment, TLAPS

\* The last request was sent when _last_request_at says, or none was sent.
StampIsExact == stamp \in {0, NothingSent}

\* What was read in this turn is no older than the turn.
TurnIsCurrent ==
    /\ floor <= mal[at]
    /\ step \in {"episodes", "store"} => floor <= got

Inv ==
    /\ TypeOK
    /\ ValidatorsDescribeData
    /\ CoverRowsAreBacked
    /\ step = "coverRow" => file[at]
    /\ StampIsExact /\ PoliteSpacing
    /\ TurnIsCurrent

USE RecordsAssumption, LimitsAssumption

-----------------------------------------------------------------------------
(* Lemmas about the parts the actions are built from.                      *)

\* The throttle leaves an exact stamp and lets no request come too soon.
LEMMA AttemptIsPolite ==
    ASSUME TypeOK, StampIsExact, PoliteSpacing, Attempt
    PROVE  stamp' = 0 /\ tooSoon' = FALSE
<1>1. PICK elapsed \in 0..MinInterval : Throttle(elapsed)
  BY DEF Attempt
<1>2. stamp' = 0
  BY <1>1 DEF Throttle
<1>3. stamp # NothingSent => elapsed + Pause(elapsed) >= MinInterval
  <2>1. SUFFICES ASSUME stamp # NothingSent PROVE elapsed + Pause(elapsed) >= MinInterval
    OBVIOUS
  <2>2. stamp = 0
    BY <2>1 DEF StampIsExact
  <2> QED BY <2>2, <1>1 DEF Pause
<1>4. elapsed + Pause(elapsed) \in Nat
  BY <1>1 DEF Pause, TypeOK, NothingSent
<1>5. ~(stamp # NothingSent /\ elapsed + Pause(elapsed) < MinInterval)
  BY <1>3, <1>4
<1>6. tooSoon' = (tooSoon \/ (stamp # NothingSent /\ elapsed + Pause(elapsed) < MinInterval))
  BY <1>1 DEF Throttle, SentAfter
<1>7. ~tooSoon
  BY DEF PoliteSpacing
<1> QED BY ONLY <1>2, <1>5, <1>6, <1>7, Zenon

\* A turn that ends leaves a place that is well typed, and no claims.
LEMMA NextRecordIsTyped ==
    ASSUME TypeOK, NextRecord
    PROVE  /\ stage' \in {"idle", "primaries", "backfill", "related"}
           /\ at' \in Records
           /\ step' = "turn" /\ tries' = 0 /\ page' = 1 /\ got' = 0 /\ floor' = 0
BY DEF TypeOK, NextRecord, Turn, Records, Primaries

LEMMA FaultIsCounted ==
    ASSUME TypeOK, Fault \/ CountFault
    PROVE  faults' \in 0..MaxFaults /\ crashes' \in 0..MaxCrashes
BY DEF TypeOK, Fault, CountFault, counters


\* The spacing of requests depends on nothing but the throttle.
LEMMA ThrottleStep ==
    ASSUME Inv, Next PROVE StampIsExact' /\ PoliteSpacing' /\ tooSoon' \in BOOLEAN
<1>a. tooSoon \in BOOLEAN
  BY DEF Inv, TypeOK
<1>1. CASE BeginScan
  BY <1>a, <1>1 DEF Inv, BeginScan, StampIsExact, PoliteSpacing, NothingSent
<1>2. CASE PrimaryTurn
  BY <1>a, <1>2 DEF Inv, PrimaryTurn, StampIsExact, PoliteSpacing, NothingSent
<1>3. CASE Searched
  BY <1>a, <1>3, AttemptIsPolite DEF Inv, Searched, Answered, StampIsExact, PoliteSpacing
<1>4. CASE DetailsNotModified
  BY <1>a, <1>4, AttemptIsPolite DEF Inv, DetailsNotModified, Answered, StampIsExact, PoliteSpacing
<1>5. CASE DetailsReceived
  BY <1>a, <1>5, AttemptIsPolite DEF Inv, DetailsReceived, Answered, StampIsExact, PoliteSpacing
<1>6. CASE EpisodesReceived
  BY <1>a, <1>6, AttemptIsPolite DEF Inv, EpisodesReceived, Answered, StampIsExact, PoliteSpacing
<1>7. CASE Store
  BY <1>a, <1>7 DEF Inv, Store, StampIsExact, PoliteSpacing, NothingSent
<1>8. CASE CoverReceived
  BY <1>a, <1>8, AttemptIsPolite DEF Inv, CoverReceived, Answered, StampIsExact, PoliteSpacing
<1>9. CASE StoreCoverRow
  BY <1>a, <1>9 DEF Inv, StoreCoverRow, StampIsExact, PoliteSpacing, NothingSent
<1>10. CASE BackfillTurn
  BY <1>a, <1>10 DEF Inv, BackfillTurn, StampIsExact, PoliteSpacing, NothingSent
<1>11. CASE RelatedTurn
  BY <1>a, <1>11 DEF Inv, RelatedTurn, StampIsExact, PoliteSpacing, NothingSent
<1>12. CASE Retry
  BY <1>a, <1>12, AttemptIsPolite DEF Inv, Retry, StampIsExact, PoliteSpacing
<1>13. CASE GiveUp
  BY <1>a, <1>13, AttemptIsPolite DEF Inv, GiveUp, StampIsExact, PoliteSpacing
<1>14. CASE Escape
  BY <1>a, <1>14, AttemptIsPolite DEF Inv, Escape, StampIsExact, PoliteSpacing
<1>15. ASSUME NEW r \in Records \ Gone, Change(r) PROVE StampIsExact' /\ PoliteSpacing' /\ tooSoon' \in BOOLEAN
  BY <1>a, <1>15 DEF Inv, Change, StampIsExact, PoliteSpacing, NothingSent
<1>16. ASSUME NEW r \in Primaries, Expire(r) PROVE StampIsExact' /\ PoliteSpacing' /\ tooSoon' \in BOOLEAN
  BY <1>a, <1>16 DEF Inv, Expire, StampIsExact, PoliteSpacing, NothingSent
<1>17. CASE SwitchHost
  BY <1>a, <1>17 DEF Inv, SwitchHost, StampIsExact, PoliteSpacing, NothingSent
<1>18. CASE Crash
  BY <1>a, <1>18 DEF Inv, Crash, StampIsExact, PoliteSpacing, NothingSent
<1> QED
  BY <1>1, <1>2, <1>3, <1>4, <1>5, <1>6, <1>7, <1>8, <1>9, <1>10, <1>11, <1>12, <1>13, <1>14, <1>15, <1>16, <1>17, <1>18 DEF Next, ScanStep

\* Every action keeps the types.
LEMMA TypeStep ==
    ASSUME Inv, Next PROVE TypeOK'
<1>a. TypeOK
  BY DEF Inv
<1>b. stamp' \in 0..NothingSent /\ tooSoon' \in BOOLEAN
  BY ThrottleStep DEF StampIsExact, PoliteSpacing, NothingSent
<1>1. CASE BeginScan
  BY <1>a, <1>b, <1>1
  DEF TypeOK, BeginScan, stored, counters, Steps, Requests, Records, Versions
<1>2. CASE PrimaryTurn
  <2>1. CASE NextRecord
    BY <1>a, <1>b, <1>2, <2>1, NextRecordIsTyped DEF TypeOK, PrimaryTurn, stored, counters, Steps, Versions
  <2>2. CASE /\ step' \in {"details", "search"} /\ floor' = mal[at]
            /\ UNCHANGED <<stage, at, tries, page, got>>
    BY <1>a, <1>b, <1>2, <2>2
    DEF TypeOK, PrimaryTurn, stored, counters, Steps, Requests, Versions
  <2> QED BY <1>2, <2>1, <2>2 DEF PrimaryTurn
<1>3. CASE Searched
  <2>1. CASE NextRecord
    BY <1>a, <1>b, <1>3, <2>1, NextRecordIsTyped DEF TypeOK, Searched, stored, counters, Steps, Versions
  <2>2. CASE Goto("details")
    BY <1>a, <1>b, <1>3, <2>2
    DEF TypeOK, Searched, Answered, Goto, stored, counters, Steps, Requests
  <2> QED BY <1>3, <2>1, <2>2 DEF Searched
<1>4. CASE DetailsNotModified
  <2>1. record' \in [Records -> Record]
    BY <1>a, <1>4 DEF TypeOK, DetailsNotModified, Record, Versions
  <2> QED
    BY <1>a, <1>b, <1>4, <2>1, NextRecordIsTyped
    DEF TypeOK, DetailsNotModified, Answered, counters, Steps, Requests, Records, Versions
<1>5. CASE DetailsReceived
  BY <1>a, <1>b, <1>5
  DEF TypeOK, DetailsReceived, Answered, stored, counters, Steps, Requests, Records, Versions
<1>6. CASE EpisodesReceived
  BY <1>a, <1>b, <1>6
  DEF TypeOK, EpisodesReceived, Answered, stored, counters, Steps, Requests, Records, Versions
<1>7. CASE Store
  BY <1>a, <1>b, <1>7
  DEF TypeOK, Store, Goto, stored, counters, Steps, Requests, Versions, Record
<1>8. CASE CoverReceived
  BY <1>a, <1>b, <1>8
  DEF TypeOK, CoverReceived, Answered, Goto, stored, counters, Steps, Requests, Records, Versions
<1>9. CASE StoreCoverRow
  BY <1>a, <1>b, <1>9, NextRecordIsTyped
  DEF TypeOK, StoreCoverRow, stored, counters, Steps, Requests, Records, Versions
<1>10. CASE BackfillTurn
  <2>1. CASE NextRecord
    BY <1>a, <1>b, <1>10, <2>1, NextRecordIsTyped DEF TypeOK, BackfillTurn, stored, counters, Steps, Versions
  <2>2. CASE Goto("cover") /\ UNCHANGED tries
    BY <1>a, <1>b, <1>10, <2>2
    DEF TypeOK, BackfillTurn, Goto, stored, counters, Steps, Requests, Versions
  <2> QED BY <1>10, <2>1, <2>2 DEF BackfillTurn, TryCover
<1>11. CASE RelatedTurn
  <2>1. CASE NextRecord
    BY <1>a, <1>b, <1>11, <2>1, NextRecordIsTyped DEF TypeOK, RelatedTurn, stored, counters, Steps, Versions
  <2>2. CASE Goto("cover") /\ UNCHANGED tries
    BY <1>a, <1>b, <1>11, <2>2
    DEF TypeOK, RelatedTurn, Goto, stored, counters, Steps, Requests, Versions
  <2>3. CASE Goto("details") /\ UNCHANGED tries
    BY <1>a, <1>b, <1>11, <2>3
    DEF TypeOK, RelatedTurn, Goto, stored, counters, Steps, Requests, Versions
  <2> QED BY <1>11, <2>1, <2>2, <2>3 DEF RelatedTurn, TryCover
<1>12. CASE Retry
  BY <1>a, <1>b, <1>12, FaultIsCounted
  DEF TypeOK, Retry, MayRetry, stored, counters, Steps, Requests, Records, Versions
<1>13. CASE GiveUp
  <2>1. art' \in [Records -> {"none", "missing", "path"}]
    BY <1>a, <1>13 DEF TypeOK, GiveUp
  <2> QED
    BY <1>a, <1>b, <1>13, <2>1, NextRecordIsTyped, FaultIsCounted
    DEF TypeOK, GiveUp, Steps, Requests, Versions
<1>14. CASE Escape
  BY <1>a, <1>b, <1>14, FaultIsCounted
  DEF TypeOK, Escape, Idle, stored, counters, Steps, Requests, Records, Versions
<1>15. ASSUME NEW r \in Records \ Gone, Change(r) PROVE TypeOK'
  BY <1>a, <1>b, <1>15
  DEF TypeOK, Change, place, stored, counters, Records
<1>16. ASSUME NEW r \in Primaries, Expire(r) PROVE TypeOK'
  BY <1>a, <1>b, <1>16
  DEF TypeOK, Expire, place, stored, counters, Records, Primaries, Record
<1>17. CASE SwitchHost
  BY <1>a, <1>b, <1>17
  DEF TypeOK, SwitchHost, place, stored, counters, Steps, Requests, Records, Versions
<1>18. CASE Crash
  BY <1>a, <1>b, <1>18
  DEF TypeOK, Crash, Idle, stored, counters, Steps, Requests, Records, Versions
<1> QED
  BY <1>1, <1>2, <1>3, <1>4, <1>5, <1>6, <1>7, <1>8, <1>9, <1>10, <1>11, <1>12, <1>13, <1>14, <1>15, <1>16, <1>17, <1>18 DEF Next, ScanStep

\* Validators stay with their data, and what is stored is as new as the turn.
LEMMA RecordStep ==
    ASSUME Inv, Next PROVE ValidatorsDescribeData' /\ TurnIsCurrent'
<1>1. CASE BeginScan
  BY <1>1, TypeStep
  DEF Inv, TypeOK, BeginScan, stored, ValidatorsDescribeData, TurnIsCurrent, Record, Versions, Requests
<1>2. CASE PrimaryTurn
  BY <1>2, NextRecordIsTyped, TypeStep
  DEF Inv, TypeOK, PrimaryTurn, Goto, stored, ValidatorsDescribeData, TurnIsCurrent, Record, Versions, Requests
<1>3. CASE Searched
  BY <1>3, NextRecordIsTyped, TypeStep
  DEF Inv, TypeOK, Searched, Answered, Goto, stored, ValidatorsDescribeData, TurnIsCurrent, Record, Versions, Requests
<1>4. CASE DetailsNotModified
  <2>1. record[at].data = record[at].tag /\ record[at].tag = mal[at]
    BY <1>4 DEF Inv, TypeOK, DetailsNotModified, NotModified, Validators, ValidatorsDescribeData
  <2>2. record'[at].tag = record'[at].data
    BY <1>4, <2>1 DEF Inv, TypeOK, DetailsNotModified
  <2>3. ValidatorsDescribeData'
    BY <1>4, <2>2 DEF Inv, TypeOK, DetailsNotModified, ValidatorsDescribeData
  <2>4. TurnIsCurrent'
    BY <1>4, NextRecordIsTyped DEF Inv, TypeOK, DetailsNotModified, TurnIsCurrent, Versions
  <2> QED BY <2>3, <2>4
<1>5. CASE DetailsReceived
  BY <1>5, TypeStep
  DEF Inv, TypeOK, DetailsReceived, Answered, stored, ValidatorsDescribeData, TurnIsCurrent, Record, Versions, Requests
<1>6. CASE EpisodesReceived
  BY <1>6, NextRecordIsTyped, TypeStep
  DEF Inv, TypeOK, EpisodesReceived, Answered, stored, ValidatorsDescribeData, TurnIsCurrent, Record, Versions, Requests
<1>7. CASE Store
  BY <1>7, TypeStep
  DEF Inv, TypeOK, Store, Goto, stored, ValidatorsDescribeData, TurnIsCurrent, Record, Versions, Requests
<1>8. CASE CoverReceived
  BY <1>8, TypeStep
  DEF Inv, TypeOK, CoverReceived, Answered, Goto, stored, ValidatorsDescribeData, TurnIsCurrent, Record, Versions, Requests
<1>9. CASE StoreCoverRow
  BY <1>9, NextRecordIsTyped, TypeStep
  DEF Inv, TypeOK, StoreCoverRow, stored, ValidatorsDescribeData, TurnIsCurrent, Record, Versions, Requests
<1>10. CASE BackfillTurn
  BY <1>10, NextRecordIsTyped, TypeStep
  DEF Inv, TypeOK, BackfillTurn, TryCover, Goto, stored, ValidatorsDescribeData, TurnIsCurrent, Record, Versions, Requests
<1>11. CASE RelatedTurn
  BY <1>11, NextRecordIsTyped, TypeStep
  DEF Inv, TypeOK, RelatedTurn, TryCover, Goto, stored, ValidatorsDescribeData, TurnIsCurrent, Record, Versions, Requests
<1>12. CASE Retry
  BY <1>12, TypeStep
  DEF Inv, TypeOK, Retry, MayRetry, stored, ValidatorsDescribeData, TurnIsCurrent, Record, Versions, Requests
<1>13. CASE GiveUp
  BY <1>13, NextRecordIsTyped, TypeStep
  DEF Inv, TypeOK, GiveUp, stored, ValidatorsDescribeData, TurnIsCurrent, Record, Versions, Requests
<1>14. CASE Escape
  BY <1>14, TypeStep
  DEF Inv, TypeOK, Escape, Idle, stored, ValidatorsDescribeData, TurnIsCurrent, Record, Versions, Requests
<1>15. ASSUME NEW r \in Records \ Gone, Change(r) PROVE ValidatorsDescribeData' /\ TurnIsCurrent'
  BY <1>15, TypeStep
  DEF Inv, TypeOK, Change, place, stored, ValidatorsDescribeData, TurnIsCurrent, Record, Versions, Requests
<1>16. ASSUME NEW r \in Primaries, Expire(r) PROVE ValidatorsDescribeData' /\ TurnIsCurrent'
  BY <1>16, TypeStep
  DEF Inv, TypeOK, Expire, place, stored, ValidatorsDescribeData, TurnIsCurrent, Record, Versions, Requests
<1>17. CASE SwitchHost
  BY <1>17, TypeStep
  DEF Inv, TypeOK, SwitchHost, place, stored, ValidatorsDescribeData, TurnIsCurrent, Record, Versions, Requests
<1>18. CASE Crash
  BY <1>18, TypeStep
  DEF Inv, TypeOK, Crash, Idle, stored, ValidatorsDescribeData, TurnIsCurrent, Record, Versions, Requests
<1> QED
  BY <1>1, <1>2, <1>3, <1>4, <1>5, <1>6, <1>7, <1>8, <1>9, <1>10, <1>11, <1>12, <1>13, <1>14, <1>15, <1>16, <1>17, <1>18 DEF Next, ScanStep

\* A file comes before the row that names it.
LEMMA CoverStep ==
    ASSUME Inv, Next PROVE CoverRowsAreBacked' /\ (step' = "coverRow" => file'[at'])
<1>1. CASE BeginScan
  BY <1>1
  DEF Inv, TypeOK, BeginScan, stored, CoverRowsAreBacked, Requests
<1>2. CASE PrimaryTurn
  BY <1>2, NextRecordIsTyped
  DEF Inv, TypeOK, PrimaryTurn, Goto, stored, CoverRowsAreBacked, Requests
<1>3. CASE Searched
  BY <1>3, NextRecordIsTyped
  DEF Inv, TypeOK, Searched, Answered, Goto, stored, CoverRowsAreBacked, Requests
<1>4. CASE DetailsNotModified
  BY <1>4, NextRecordIsTyped
  DEF Inv, TypeOK, DetailsNotModified, Answered, stored, CoverRowsAreBacked, Requests
<1>5. CASE DetailsReceived
  BY <1>5
  DEF Inv, TypeOK, DetailsReceived, Answered, stored, CoverRowsAreBacked, Requests
<1>6. CASE EpisodesReceived
  BY <1>6
  DEF Inv, TypeOK, EpisodesReceived, Answered, stored, CoverRowsAreBacked, Requests
<1>7. CASE Store
  BY <1>7
  DEF Inv, TypeOK, Store, Goto, stored, CoverRowsAreBacked, Requests
<1>8. CASE CoverReceived
  BY <1>8
  DEF Inv, TypeOK, CoverReceived, Answered, Goto, stored, CoverRowsAreBacked, Requests
<1>9. CASE StoreCoverRow
  BY <1>9, NextRecordIsTyped
  DEF Inv, TypeOK, StoreCoverRow, stored, CoverRowsAreBacked, Requests
<1>10. CASE BackfillTurn
  BY <1>10, NextRecordIsTyped
  DEF Inv, TypeOK, BackfillTurn, TryCover, Goto, stored, CoverRowsAreBacked, Requests
<1>11. CASE RelatedTurn
  BY <1>11, NextRecordIsTyped
  DEF Inv, TypeOK, RelatedTurn, TryCover, Goto, stored, CoverRowsAreBacked, Requests
<1>12. CASE Retry
  BY <1>12
  DEF Inv, TypeOK, Retry, MayRetry, stored, CoverRowsAreBacked, Requests
<1>13. CASE GiveUp
  BY <1>13, NextRecordIsTyped
  DEF Inv, TypeOK, GiveUp, stored, CoverRowsAreBacked, Requests
<1>14. CASE Escape
  BY <1>14
  DEF Inv, TypeOK, Escape, Idle, stored, CoverRowsAreBacked, Requests
<1>15. ASSUME NEW r \in Records \ Gone, Change(r) PROVE CoverRowsAreBacked' /\ (step' = "coverRow" => file'[at'])
  BY <1>15
  DEF Inv, TypeOK, Change, place, stored, CoverRowsAreBacked, Requests
<1>16. ASSUME NEW r \in Primaries, Expire(r) PROVE CoverRowsAreBacked' /\ (step' = "coverRow" => file'[at'])
  BY <1>16
  DEF Inv, TypeOK, Expire, place, stored, CoverRowsAreBacked, Requests
<1>17. CASE SwitchHost
  BY <1>17
  DEF Inv, TypeOK, SwitchHost, place, stored, CoverRowsAreBacked, Requests
<1>18. CASE Crash
  BY <1>18
  DEF Inv, TypeOK, Crash, Idle, stored, CoverRowsAreBacked, Requests
<1> QED
  BY <1>1, <1>2, <1>3, <1>4, <1>5, <1>6, <1>7, <1>8, <1>9, <1>10, <1>11, <1>12, <1>13, <1>14, <1>15, <1>16, <1>17, <1>18 DEF Next, ScanStep

-----------------------------------------------------------------------------
(* The invariant.                                                          *)

LEMMA InvInit == Init => Inv
<1> SUFFICES ASSUME Init PROVE Inv
  OBVIOUS
<1>1. TypeOK
  <2>1. PICK known \in SUBSET Primaries :
          record = [r \in Records |->
                     LET v == IF r \in known THEN 1 ELSE 0
                     IN  [data |-> v, tag |-> v, source |-> host, fresh |-> FALSE]]
    BY DEF Init
  <2>2. record \in [Records -> Record]
    BY <2>1 DEF Init, Record, Versions
  <2>3. 1 \in Records /\ 0 \in Versions /\ "turn" \in Steps /\ 0 \in 0..(MaxAttempts - 1)
    BY DEF Records, Versions, Steps
  <2>4. /\ mal \in [Records -> 1..MaxVersion]
        /\ art \in [Records -> {"none", "missing", "path"}]
        /\ file \in [Records -> BOOLEAN]
    BY DEF Init
  <2>5. /\ stage = "idle" /\ at \in Records /\ step \in Steps /\ host \in Hosts
        /\ tries \in 0..(MaxAttempts - 1) /\ page \in 1..MaxPages
        /\ got \in Versions /\ floor \in Versions
    BY <2>3 DEF Init
  <2>6. stamp \in 0..NothingSent /\ faults \in 0..MaxFaults /\ crashes \in 0..MaxCrashes
    BY DEF Init, NothingSent
  <2>7. tooSoon \in BOOLEAN
    BY DEF Init
  <2> QED BY <2>2, <2>4, <2>5, <2>6, <2>7 DEF TypeOK
<1>2. ValidatorsDescribeData
  BY DEF Init, ValidatorsDescribeData
<1>3. CoverRowsAreBacked /\ step # "coverRow"
  BY DEF Init, CoverRowsAreBacked
<1>4. StampIsExact /\ PoliteSpacing
  BY DEF Init, StampIsExact, PoliteSpacing
<1>5. TurnIsCurrent
  BY DEF Init, TurnIsCurrent, Records
<1> QED BY <1>1, <1>2, <1>3, <1>4, <1>5 DEF Inv

LEMMA InvStutter == Inv /\ UNCHANGED vars => Inv'
  BY DEF Inv, vars, place, stored, counters, TypeOK, ValidatorsDescribeData,
         CoverRowsAreBacked, StampIsExact, PoliteSpacing, TurnIsCurrent

\* The inductive invariant: types, an exact throttle, validators of the data
\* they are stored with, a turn that has read nothing older than itself, and
\* files that come before the rows naming them.
THEOREM Invariant == Spec => []Inv
<1>1. Inv /\ [Next]_vars => Inv'
  <2>1. ASSUME Inv, Next PROVE Inv'
    BY <2>1, TypeStep, ThrottleStep, RecordStep, CoverStep DEF Inv
  <2> QED BY <2>1, InvStutter
<1> QED BY InvInit, <1>1, PTL DEF Spec

\* The variables of the enrichment keep their types.
THEOREM TypeCorrect == Spec => []TypeOK
<1>1. Inv => TypeOK
  BY DEF Inv
<1> QED BY Invariant, <1>1, PTL

\* No two requests of a scan are closer than the interval, whatever the times
\* that answers, failures and retries take.
THEOREM RequestsKeepTheirDistance == Spec => []PoliteSpacing
<1>1. Inv => PoliteSpacing
  BY DEF Inv
<1> QED BY Invariant, <1>1, PTL

\* The validators stored with a record are those of its data, with any number
\* of hosts and any exchange of them.
THEOREM ValidatorsFit == Spec => []ValidatorsDescribeData
<1>1. Inv => ValidatorsDescribeData
  BY DEF Inv
<1> QED BY Invariant, <1>1, PTL

\* No row names a cover that is not there, whenever a process dies.
THEOREM CoversAreThere == Spec => []CoverRowsAreBacked
<1>1. Inv => CoverRowsAreBacked
  BY DEF Inv
<1> QED BY Invariant, <1>1, PTL

-----------------------------------------------------------------------------
(* Refreshes.                                                              *)

Refreshed == \A r \in Primaries :
    record'[r].fresh /\ ~record[r].fresh => record'[r].data >= floor

\* A record is dated anew only by a 304, for data that is the host's then, or
\* by what was read in this turn.
LEMMA RefreshStep == ASSUME Inv, Next PROVE Refreshed
<1> Primaries \subseteq Records
  BY DEF Primaries, Records
<1>1. CASE DetailsNotModified
  <2>1. record[at].data = record[at].tag /\ record[at].tag = mal[at]
    BY <1>1 DEF Inv, TypeOK, DetailsNotModified, NotModified, Validators, ValidatorsDescribeData
  <2>2. record'[at].data >= floor
    BY <1>1, <2>1 DEF Inv, TypeOK, DetailsNotModified, TurnIsCurrent, Versions
  <2>3. \A r \in Records : r # at => record'[r] = record[r]
    BY <1>1 DEF Inv, TypeOK, DetailsNotModified
  <2>4. ASSUME NEW r \in Primaries, record'[r].fresh, ~record[r].fresh PROVE record'[r].data >= floor
    BY <2>2, <2>3, <2>4
  <2> QED BY <2>4 DEF Refreshed
<1>2. CASE Store
  <2>1. record'[at].data >= floor
    BY <1>2 DEF Inv, TypeOK, Store, TurnIsCurrent, Versions
  <2>2. \A r \in Records : r # at => record'[r] = record[r]
    BY <1>2 DEF Inv, TypeOK, Store
  <2>3. ASSUME NEW r \in Primaries, record'[r].fresh, ~record[r].fresh PROVE record'[r].data >= floor
    BY <2>1, <2>2, <2>3
  <2> QED BY <2>3 DEF Refreshed
<1>3. ASSUME NEW e \in Primaries, Expire(e) PROVE Refreshed
  <2>1. \A r \in Records : record'[r].fresh => record[r].fresh
    BY <1>3 DEF Inv, TypeOK, Expire, Record
  <2> QED BY <2>1 DEF Refreshed
<1>4. ASSUME UNCHANGED record PROVE Refreshed
  BY <1>4 DEF Refreshed
<1> QED
  BY <1>1, <1>2, <1>3, <1>4
  DEF Next, ScanStep, BeginScan, PrimaryTurn, Searched, DetailsReceived, EpisodesReceived,
      CoverReceived, StoreCoverRow, BackfillTurn, RelatedTurn, Retry, GiveUp, Escape,
      Change, SwitchHost, Crash, stored

\* A refresh means that the record is as its host had it when its turn began,
\* or newer.
THEOREM RefreshesAreCurrent == Spec => RefreshMeansCurrent
<1>1. Inv /\ [Next]_vars => [Refreshed]_vars
  BY RefreshStep
<1> QED BY Invariant, <1>1, PTL DEF Spec, RefreshMeansCurrent, Refreshed

=============================================================================
