--------------------------- MODULE InferenceProofs ---------------------------
(***************************************************************************)
(* Proofs about Inference for any number of titles, batches, calls, days,  *)
(* changes, failures and crashes: what is bought is held, no title costs   *)
(* two mapping calls in a scan, and PaidAnswers is implemented.            *)
(***************************************************************************)
EXTENDS Inference, FiniteSetTheorems, TLAPS

-----------------------------------------------------------------------------
(* Questions.                                                              *)

LEMMA BatchShape ==
    ASSUME NEW q \in BatchQuestions
    PROVE  /\ q \in Questions
           /\ q[1] \in Titles /\ q[2] \in 1..BatchesOf[q[1]]
           /\ q = <<q[1], q[2]>> /\ q[2] > 0
<1>1. PICK t \in Titles : q \in {t} \X (1..BatchesOf[t])
  BY DEF BatchQuestions
<1>2. BatchesOf[t] \in Nat
  BY TitlesAssumption
<1> QED BY <1>1, <1>2 DEF Questions

LEMMA BatchIsQuestion ==
    ASSUME NEW t \in Titles, NEW b \in 1..BatchesOf[t]
    PROVE  <<t, b>> \in BatchQuestions /\ <<t, b>> \in Questions
<1>1. <<t, b>> \in {t} \X (1..BatchesOf[t])
  OBVIOUS
<1> QED BY <1>1 DEF BatchQuestions, Questions

LEMMA NamesShape ==
    ASSUME NEW t \in Titles
    PROVE  /\ Names(t) \in Questions /\ Names(t) \notin BatchQuestions
           /\ Names(t)[1] = t /\ Names(t)[2] = 0
<1>1. Names(t) \in Questions /\ Names(t)[1] = t /\ Names(t)[2] = 0
  BY DEF Questions, Names
<1>2. Names(t) \notin BatchQuestions
  BY <1>1, BatchShape
<1> QED BY <1>1, <1>2

LEMMA NamesDiffer ==
    ASSUME NEW t \in Titles, NEW u \in Titles, Names(t) = Names(u)
    PROVE  t = u
BY NamesShape

-----------------------------------------------------------------------------
(* The invariant.                                                          *)

\* An answer waits to be stored only where it was asked for, and for a question
\* that has no other.
Pending ==
    answer # "nothing" =>
        \/ /\ job = "names" /\ step \in {"help", "hints"}
           /\ ~Live(Names(at)) /\ Names(at) \in asked
        \/ job = "mapping" /\ step = "batch" /\ ~Live(Question)

\* The names of a title were paid for in its turn, and are not asked for again:
\* the answer is about to be stored, or is held, or there is none.
NamesOnce ==
    job = "names" =>
        \A t \in Titles : Names(t) \in asked =>
            \/ t < at
            \/ t = at /\ step = "details"
            \/ t = at /\ answer # "nothing"
            \/ t = at /\ step = "hints" /\ Live(Names(t))

\* The batches paid for belong to titles whose turn is over or ends.
BatchesInTurn ==
    \A q \in asked \cap BatchQuestions :
        /\ job # "names"
        /\ job = "mapping" => q[1] <= at
        /\ job = "mapping" /\ q[1] = at => step = "applyPaid" \/ answer # "nothing"

OnePerTitle == \A q, r \in asked \cap BatchQuestions : q[1] = r[1] => q = r

Inv ==
    /\ TypeOK
    /\ BoughtIsHeld
    /\ Pending /\ NamesOnce
    /\ BatchesInTurn /\ OnePerTitle

USE TitlesAssumption, LimitsAssumption

-----------------------------------------------------------------------------
(* Types.                                                                  *)

LEMMA NextTitleIsTyped ==
    ASSUME TypeOK, NextTitle
    PROVE  /\ job' \in {"idle", "names", "mapping"} /\ at' \in Titles
           /\ step' = "turn" /\ batch' = 1
BY DEF TypeOK, NextTitle, Titles

LEMMA PlaceIsTyped ==
    ASSUME TypeOK, NextTitle \/ (\E s \in Steps : Continue(s)) \/ UNCHANGED place
    PROVE  /\ job' \in {"idle", "names", "mapping"} /\ at' \in Titles
           /\ step' \in Steps /\ batch' \in 1..BatchesOf[at']
<1>1. CASE NextTitle
  BY <1>1, NextTitleIsTyped DEF Steps
<1>2. CASE \E s \in Steps : Continue(s)
  BY <1>2 DEF TypeOK, Continue
<1>3. CASE UNCHANGED place
  BY <1>3 DEF TypeOK, place
<1> QED BY <1>1, <1>2, <1>3

LEMMA EntryTypes ==
    ASSUME NEW k \in {"sure", "unsure", "cooling", "failed"}
    PROVE  Now(k) \in Entry /\ NoEntry \in Entry
BY DEF Now, NoEntry, Entry

LEMMA AskIsTyped ==
    ASSUME TypeOK, NEW q \in Questions, NEW brings \in SUBSET Answers, Ask(q, brings)
    PROVE  TypeOK'
<1>1. calls' \in 0..MaxCalls /\ faults' \in 0..MaxFaults
  BY DEF Ask, MayAsk, TypeOK
<1>2. asked' \subseteq Questions /\ answer' \in Answers \cup {"nothing", "error"}
  BY DEF Ask, TypeOK
<1> QED BY <1>1, <1>2 DEF Ask, TypeOK, place

LEMMA AgeTypes ==
    ASSUME NEW e \in Entry
    PROVE  Cooler(e) \in Entry /\ Older(Cooler(e)) \in Entry
<1>1. Cooler(e) \in Entry
  BY EntryTypes DEF Cooler
<1>2. ASSUME NEW f \in Entry PROVE Older(f) \in Entry
  <2>1. CASE f.kind \in Answers /\ f.age # CacheTtl
    BY <2>1 DEF Older, Entry
  <2> QED BY <2>1, EntryTypes DEF Older
<1> QED BY <1>1, <1>2

\* Every action keeps the types.
LEMMA TypeStep ==
    ASSUME Inv, Next PROVE TypeOK'
<1>a. TypeOK
  BY DEF Inv
<1>b. Question \in BatchQuestions /\ Question \in Questions
  BY <1>a, BatchIsQuestion DEF TypeOK, Question
<1>1. CASE BeginScan
  BY <1>a, <1>1 DEF TypeOK, BeginScan, counters
<1>2. CASE NamesTurn
  <2>1. \E s \in Steps : Continue(s)
    BY <1>2 DEF NamesTurn, AfterMatch, Steps
  <2> QED BY <1>a, <1>2, <2>1, PlaceIsTyped DEF TypeOK, NamesTurn, counters
<1>3. CASE ConsultHit
  <2>1. NextTitle \/ \E s \in Steps : Continue(s)
    BY <1>3 DEF ConsultHit, AfterConsult, AfterHelp, AfterMatch, Steps
  <2>2. cache' \in [Questions -> Entry]
    BY <1>a, <1>3, EntryTypes DEF TypeOK, ConsultHit, Store
  <2> QED BY <1>a, <1>3, <2>1, <2>2, PlaceIsTyped
             DEF TypeOK, ConsultHit, counters
<1>4. CASE ConsultAsk
  BY <1>a, <1>4, NamesShape, AskIsTyped DEF TypeOK, ConsultAsk, Answers
<1>5. CASE ConsultRefused
  <2>1. NextTitle \/ \E s \in Steps : Continue(s)
    BY <1>5 DEF ConsultRefused, AfterConsult, AfterHelp, AfterMatch, Steps
  <2> QED BY <1>a, <1>5, <2>1, PlaceIsTyped DEF TypeOK, ConsultRefused, counters
<1>6. CASE ConsultAnswered
  <2>1. NextTitle \/ \E s \in Steps : Continue(s)
    BY <1>6 DEF ConsultAnswered, AfterConsult, AfterHelp, AfterMatch, Steps
  <2>2. cache' \in [Questions -> Entry]
    BY <1>a, <1>6, EntryTypes DEF TypeOK, ConsultAnswered, Store, Answers
  <2> QED BY <1>a, <1>6, <2>1, <2>2, PlaceIsTyped
             DEF TypeOK, ConsultAnswered, counters
<1>7. CASE Details
  <2>1. cache' \in [Questions -> Entry] /\ matched' \in [Titles -> BOOLEAN]
    BY <1>a, <1>7, EntryTypes DEF TypeOK, Details
  <2>2. rows' \in [BatchQuestions -> RowStates] /\ bought' \in [BatchQuestions -> 0..Expired]
        /\ changes' \in 0..MaxChanges
    BY <1>a, <1>7 DEF TypeOK, Details, NewBatches, RowStates, Expired
  <2>3. NextTitle
    BY <1>7 DEF Details
  <2> QED BY <1>a, <1>7, <2>1, <2>2, <2>3, PlaceIsTyped DEF TypeOK, Details
<1>8. CASE MappingTurn
  <2>1. NextTitle \/ \E s \in Steps : Continue(s)
    BY <1>8 DEF MappingTurn, Steps
  <2> QED BY <1>a, <1>8, <2>1, PlaceIsTyped DEF TypeOK, MappingTurn, counters
<1>9. CASE BatchHit
  <2>1. \E s \in Steps : Continue(s)
    BY <1>9 DEF BatchHit, Steps
  <2> QED BY <1>a, <1>9, <2>1, PlaceIsTyped DEF TypeOK, BatchHit, counters
<1>10. CASE BatchCooling
  BY <1>a, <1>10, PlaceIsTyped DEF TypeOK, BatchCooling, counters
<1>11. CASE BatchAsk
  BY <1>a, <1>b, <1>11, AskIsTyped DEF BatchAsk
<1>12. CASE BatchRefused
  <2>1. cache' \in [Questions -> Entry]
    BY <1>a, <1>12, EntryTypes DEF TypeOK, BatchRefused, Store
  <2> QED BY <1>a, <1>12, <2>1, PlaceIsTyped DEF TypeOK, BatchRefused, counters
<1>13. CASE BatchAnswered
  <2>1. NextTitle \/ \E s \in Steps : Continue(s)
    BY <1>13 DEF BatchAnswered, Steps
  <2>2. cache' \in [Questions -> Entry]
    BY <1>a, <1>13, EntryTypes DEF TypeOK, BatchAnswered, Store, Answers
  <2>3. bought' \in [BatchQuestions -> 0..Expired]
    BY <1>a, <1>b, <1>13 DEF TypeOK, BatchAnswered, Expired
  <2> QED BY <1>a, <1>13, <2>1, <2>2, <2>3, PlaceIsTyped
             DEF TypeOK, BatchAnswered, counters
<1>14. CASE Apply
  <2>1. rows' \in [BatchQuestions -> RowStates]
    BY <1>a, <1>14 DEF TypeOK, Apply, RowStates
  <2>2. CASE NextTitle
    BY <1>a, <1>14, <2>1, <2>2, PlaceIsTyped DEF TypeOK, Apply, counters
  <2>3. CASE step = "applyHit" /\ batch < BatchesOf[at] /\ ~NextTitle
    BY <1>a, <1>14, <2>1, <2>3 DEF TypeOK, Apply, counters, Steps
  <2> QED BY <1>14, <2>2, <2>3 DEF Apply
<1>15. CASE PassMinutes
  <2>1. cache' \in [Questions -> Entry]
    BY <1>a, <1>15, AgeTypes DEF TypeOK, PassMinutes
  <2> QED BY <1>a, <1>15, <2>1, PlaceIsTyped DEF TypeOK, PassMinutes, counters
<1>16. CASE PassDay
  <2>1. cache' \in [Questions -> Entry]
    BY <1>a, <1>16, AgeTypes DEF TypeOK, PassDay
  <2>2. bought' \in [BatchQuestions -> 0..Expired] /\ days' \in 0..MaxDays
    BY <1>a, <1>16 DEF TypeOK, PassDay, Expired
  <2> QED BY <1>a, <1>16, <2>1, <2>2, PlaceIsTyped DEF TypeOK, PassDay
<1>17. ASSUME NEW t \in Titles, ChangeInput(t) PROVE TypeOK'
  <2>1. cache' \in [Questions -> Entry]
    BY <1>a, <1>17, EntryTypes DEF TypeOK, ChangeInput
  <2>2. rows' \in [BatchQuestions -> RowStates] /\ bought' \in [BatchQuestions -> 0..Expired]
        /\ changes' \in 0..MaxChanges
    BY <1>a, <1>17 DEF TypeOK, ChangeInput, NewBatches, RowStates, Expired
  <2> QED BY <1>a, <1>17, <2>1, <2>2, PlaceIsTyped DEF TypeOK, ChangeInput
<1>18. ASSUME NEW t \in Titles, Invalidate(t) PROVE TypeOK'
  <2>1. cache' \in [Questions -> Entry]
    BY <1>a, <1>18, EntryTypes DEF TypeOK, Invalidate
  <2>2. rows' \in [BatchQuestions -> RowStates] /\ bought' \in [BatchQuestions -> 0..Expired]
        /\ changes' \in 0..MaxChanges
    BY <1>a, <1>18 DEF TypeOK, Invalidate, RowStates, Expired
  <2> QED BY <1>a, <1>18, <2>1, <2>2, PlaceIsTyped DEF TypeOK, Invalidate
<1>19. CASE Crash
  BY <1>a, <1>19 DEF TypeOK, Crash, Titles, Steps
<1> QED
  BY <1>1, <1>2, <1>3, <1>4, <1>5, <1>6, <1>7, <1>8, <1>9,
     <1>10, <1>11, <1>12, <1>13, <1>14, <1>15, <1>16, <1>17, <1>18, <1>19 DEF Next, ScanStep

\* What was paid for is stored before anything else happens.
LEMMA PendingStep ==
    ASSUME Inv, Next PROVE Pending'
<1>a. TypeOK
  BY DEF Inv
<1>c. Pending
  BY DEF Inv
<1>1. CASE BeginScan
  BY <1>c, <1>1 DEF Pending, BeginScan, place
<1>2. CASE NamesTurn
  BY <1>c, <1>2 DEF Pending, NamesTurn
<1>3. CASE ConsultHit
  BY <1>3 DEF Pending, ConsultHit
<1>4. CASE ConsultAsk
  BY <1>a, <1>c, <1>4
     DEF Pending, ConsultAsk, Ask, place, Question, Consulting, MappingLookup,
         Unanswered, Live, Answers
<1>5. CASE ConsultRefused
  BY <1>5 DEF Pending, ConsultRefused
<1>6. CASE ConsultAnswered
  BY <1>c, <1>6 DEF Pending, ConsultAnswered
<1>7. CASE Details
  BY <1>c, <1>7 DEF Pending, Details
<1>8. CASE MappingTurn
  BY <1>c, <1>8 DEF Pending, MappingTurn
<1>9. CASE BatchHit
  BY <1>9 DEF Pending, BatchHit, MappingLookup
<1>10. CASE BatchCooling
  BY <1>10 DEF Pending, BatchCooling, MappingLookup
<1>11. CASE BatchAsk
  BY <1>a, <1>c, <1>11
     DEF Pending, BatchAsk, Ask, place, Question, Consulting, MappingLookup,
         Unanswered, Live, Answers
<1>12. CASE BatchRefused
  BY <1>12 DEF Pending, BatchRefused, MappingLookup
<1>13. CASE BatchAnswered
  BY <1>c, <1>13 DEF Pending, BatchAnswered
<1>14. CASE Apply
  BY <1>c, <1>14 DEF Pending, Apply
<1>15. CASE PassMinutes
  BY <1>c, <1>15 DEF Pending, PassMinutes, place
<1>16. CASE PassDay
  BY <1>c, <1>16 DEF Pending, PassDay, place
<1>17. ASSUME NEW t \in Titles, ChangeInput(t) PROVE Pending'
  BY <1>c, <1>17 DEF Pending, ChangeInput, place
<1>18. ASSUME NEW t \in Titles, Invalidate(t) PROVE Pending'
  BY <1>c, <1>18 DEF Pending, Invalidate, place
<1>19. CASE Crash
  BY <1>c, <1>19 DEF Pending, Crash
<1> QED
  BY <1>1, <1>2, <1>3, <1>4, <1>5, <1>6, <1>7, <1>8, <1>9,
     <1>10, <1>11, <1>12, <1>13, <1>14, <1>15, <1>16, <1>17, <1>18, <1>19 DEF Next, ScanStep

\* No names are paid for twice.
LEMMA NamesStep ==
    ASSUME Inv, Next PROVE NamesOnce'
<1>a. TypeOK
  BY DEF Inv
<1>c. NamesOnce
  BY DEF Inv
<1>d. Pending
  BY DEF Inv
<1>1. CASE BeginScan
  BY <1>1 DEF BeginScan, NamesOnce
<1>2. CASE NamesTurn
  <2>1. \A u \in Titles : Names(u) \in asked => u < at
    BY <1>a, <1>c, <1>d, <1>2 DEF TypeOK, NamesOnce, NamesTurn, Titles, Pending
  <2> QED BY <1>2, <2>1 DEF NamesTurn, NamesOnce, Continue
<1>3. CASE ConsultHit
  <2>1. asked' = asked /\ \A u \in Titles : Names(u) \in asked => u <= at
    BY <1>a, <1>c, <1>3 DEF TypeOK, NamesOnce, ConsultHit, Consulting, Titles
  <2>2. CASE NextTitle
    BY <1>a, <1>3, <2>1, <2>2
       DEF TypeOK, NamesOnce, NextTitle, ConsultHit, Consulting, Titles
  <2>3. CASE ~NextTitle
    <3>1. step' \in {"hints", "details"} /\ UNCHANGED <<job, at>>
      BY <1>3, <2>3
         DEF ConsultHit, AfterConsult, AfterHelp, AfterMatch, Continue
    <3>2. step' = "hints" => Live(Names(at))'
      BY <1>a, <1>3, <2>3, NamesShape
         DEF ConsultHit, AfterConsult, AfterHelp, Continue, TypeOK, Store,
             Now, Live, Answers
    <3> QED BY <1>a, <2>1, <3>1, <3>2 DEF NamesOnce, TypeOK, Titles
  <2> QED BY <2>2, <2>3
<1>4. CASE ConsultAsk
  <2>1. asked' = asked \cup {Names(at)} /\ answer' # "nothing" /\ UNCHANGED place
    BY <1>4 DEF ConsultAsk, Ask
  <2>2. \A u \in Titles : Names(u) \in asked => u <= at
    BY <1>a, <1>c, <1>4 DEF TypeOK, NamesOnce, ConsultAsk, Consulting, Titles
  <2> QED BY <1>a, <2>1, <2>2, NamesDiffer DEF NamesOnce, TypeOK, place, Titles
<1>5. CASE ConsultRefused
  <2>1. asked' = asked /\ \A u \in Titles : Names(u) \in asked => u <= at
    BY <1>a, <1>c, <1>5
       DEF TypeOK, NamesOnce, ConsultRefused, Consulting, Titles
  <2>2. CASE NextTitle
    BY <1>a, <1>5, <2>1, <2>2
       DEF TypeOK, NamesOnce, NextTitle, ConsultRefused, Consulting, Titles
  <2>3. CASE ~NextTitle
    BY <1>a, <1>5, <2>1, <2>3
       DEF ConsultRefused, AfterConsult, AfterHelp, Continue, NamesOnce,
           TypeOK, Titles
  <2> QED BY <2>2, <2>3
<1>6. CASE ConsultAnswered
  <2>1. asked' = asked /\ \A u \in Titles : Names(u) \in asked => u <= at
    BY <1>a, <1>c, <1>6
       DEF TypeOK, NamesOnce, ConsultAnswered, Consulting, Titles
  <2>2. CASE NextTitle
    BY <1>a, <1>6, <2>1, <2>2
       DEF TypeOK, NamesOnce, NextTitle, ConsultAnswered, Consulting, Titles
  <2>3. CASE ~NextTitle
    <3>1. step' \in {"hints", "details"} /\ UNCHANGED <<job, at>>
      BY <1>6, <2>3
         DEF ConsultAnswered, AfterConsult, AfterHelp, AfterMatch, Continue
    <3>2. step' = "hints" => Live(Names(at))'
      BY <1>a, <1>6, <2>3, NamesShape
         DEF ConsultAnswered, AfterConsult, AfterHelp, Continue, TypeOK,
             Store, Now, Live, Answers
    <3> QED BY <1>a, <2>1, <3>1, <3>2 DEF NamesOnce, TypeOK, Titles
  <2> QED BY <2>2, <2>3
<1>7. CASE Details
  <2>1. \A u \in Titles : Names(u) \in asked => u <= at
    BY <1>a, <1>c, <1>7 DEF TypeOK, NamesOnce, Details, Titles
  <2> QED BY <1>a, <1>7, <2>1 DEF TypeOK, NamesOnce, NextTitle, Details, Titles
<1>8. CASE MappingTurn
  BY <1>8 DEF MappingTurn, MappingLookup, NextTitle, Continue, NamesOnce
<1>9. CASE BatchHit
  BY <1>9 DEF BatchHit, MappingLookup, NextTitle, Continue, NamesOnce
<1>10. CASE BatchCooling
  BY <1>10 DEF BatchCooling, MappingLookup, NextTitle, Continue, NamesOnce
<1>11. CASE BatchAsk
  BY <1>11 DEF BatchAsk, Ask, MappingLookup, place, NamesOnce
<1>12. CASE BatchRefused
  BY <1>12 DEF BatchRefused, MappingLookup, NextTitle, Continue, NamesOnce
<1>13. CASE BatchAnswered
  BY <1>13 DEF BatchAnswered, MappingLookup, NextTitle, Continue, NamesOnce
<1>14. CASE Apply
  BY <1>14 DEF Apply, MappingLookup, NextTitle, Continue, NamesOnce
<1>15. CASE PassMinutes
  BY <1>15 DEF PassMinutes, place, NamesOnce
<1>16. CASE PassDay
  BY <1>16 DEF PassDay, place, NamesOnce
<1>17. ASSUME NEW t \in Titles, ChangeInput(t) PROVE NamesOnce'
  BY <1>17 DEF ChangeInput, place, NamesOnce
<1>18. ASSUME NEW t \in Titles, Invalidate(t) PROVE NamesOnce'
  BY <1>18 DEF Invalidate, place, NamesOnce
<1>19. CASE Crash
  BY <1>19 DEF Crash, NamesOnce
<1> QED
  BY <1>1, <1>2, <1>3, <1>4, <1>5, <1>6, <1>7, <1>8, <1>9,
     <1>10, <1>11, <1>12, <1>13, <1>14, <1>15, <1>16, <1>17, <1>18, <1>19 DEF Next, ScanStep

\* The turns of the mapping job pass forward.
LEMMA NextTurn ==
    ASSUME TypeOK, job = "mapping", NextTitle, asked' = asked,
           \A q \in asked \cap BatchQuestions : q[1] <= at
    PROVE  BatchesInTurn'
<1>1. \A q \in asked \cap BatchQuestions : q[1] \in Nat
  BY BatchShape DEF Titles
<1>2. at \in Nat
  BY DEF TypeOK, Titles
<1>3. CASE at < NTitles
  <2>1. job' = "mapping" /\ at' = at + 1
    BY <1>3 DEF NextTitle
  <2> QED BY <1>1, <1>2, <2>1 DEF BatchesInTurn
<1>4. CASE ~(at < NTitles)
  <2>1. job' = "idle"
    BY <1>4 DEF NextTitle
  <2> QED BY <2>1 DEF BatchesInTurn
<1> QED BY <1>3, <1>4

\* A title that has paid for a batch ends its turn.
LEMMA BatchesStep ==
    ASSUME Inv, Next PROVE BatchesInTurn' /\ OnePerTitle'
<1>a. TypeOK
  BY DEF Inv
<1>c. BatchesInTurn /\ OnePerTitle
  BY DEF Inv
<1>d. Pending
  BY DEF Inv
<1>1. CASE BeginScan
  BY <1>1 DEF BeginScan, BatchesInTurn, OnePerTitle
<1>2. CASE NamesTurn
  <2>1. asked \cap BatchQuestions = {} /\ asked' = asked
    BY <1>c, <1>2 DEF BatchesInTurn, NamesTurn, Consulting
  <2> QED BY <2>1 DEF BatchesInTurn, OnePerTitle
<1>3. CASE ConsultHit
  <2>1. asked \cap BatchQuestions = {} /\ asked' = asked
    BY <1>c, <1>3 DEF BatchesInTurn, ConsultHit, Consulting
  <2> QED BY <2>1 DEF BatchesInTurn, OnePerTitle
<1>4. CASE ConsultAsk
  <2>1. asked' \cap BatchQuestions = asked \cap BatchQuestions
    BY <1>a, <1>4, NamesShape DEF ConsultAsk, Ask, TypeOK
  <2>2. asked \cap BatchQuestions = {}
    BY <1>c, <1>4 DEF BatchesInTurn, ConsultAsk, Consulting
  <2> QED BY <2>1, <2>2 DEF BatchesInTurn, OnePerTitle
<1>5. CASE ConsultRefused
  <2>1. asked \cap BatchQuestions = {} /\ asked' = asked
    BY <1>c, <1>5 DEF BatchesInTurn, ConsultRefused, Consulting
  <2> QED BY <2>1 DEF BatchesInTurn, OnePerTitle
<1>6. CASE ConsultAnswered
  <2>1. asked \cap BatchQuestions = {} /\ asked' = asked
    BY <1>c, <1>6 DEF BatchesInTurn, ConsultAnswered, Consulting
  <2> QED BY <2>1 DEF BatchesInTurn, OnePerTitle
<1>7. CASE Details
  <2>1. asked \cap BatchQuestions = {} /\ asked' = asked
    BY <1>c, <1>7 DEF BatchesInTurn, Details, Consulting
  <2> QED BY <2>1 DEF BatchesInTurn, OnePerTitle
<1>8. CASE MappingTurn
  <2>1. asked' = asked /\ \A q \in asked \cap BatchQuestions : q[1] < at
    BY <1>a, <1>c, <1>d, <1>8, BatchShape
       DEF BatchesInTurn, MappingTurn, MappingLookup, TypeOK, Titles, Pending
  <2>2. OnePerTitle'
    BY <1>c, <2>1 DEF OnePerTitle
  <2>3. job = "mapping" /\ at \in Nat /\ \A q \in asked \cap BatchQuestions : q[1] \in Nat
    BY <1>a, <1>8, BatchShape DEF MappingTurn, MappingLookup, TypeOK, Titles
  <2>4. CASE NextTitle
    BY <1>a, <2>1, <2>2, <2>3, <2>4, NextTurn
  <2>5. CASE ~NextTitle
    <3>1. job' = job /\ at' = at
      BY <1>8, <2>5 DEF MappingTurn, Continue
    <3> QED BY <2>1, <2>2, <2>3, <3>1 DEF BatchesInTurn
  <2> QED BY <2>2, <2>4, <2>5
<1>9. CASE BatchHit
  <2>1. asked' = asked /\ \A q \in asked \cap BatchQuestions : q[1] < at
    BY <1>a, <1>c, <1>d, <1>9, BatchShape
       DEF BatchesInTurn, BatchHit, MappingLookup, TypeOK, Titles, Pending
  <2>2. OnePerTitle'
    BY <1>c, <2>1 DEF OnePerTitle
  <2>3. job = "mapping" /\ at \in Nat /\ \A q \in asked \cap BatchQuestions : q[1] \in Nat
    BY <1>a, <1>9, BatchShape DEF BatchHit, MappingLookup, TypeOK, Titles
  <2>4. CASE NextTitle
    BY <1>a, <2>1, <2>2, <2>3, <2>4, NextTurn
  <2>5. CASE ~NextTitle
    <3>1. job' = job /\ at' = at
      BY <1>9, <2>5 DEF BatchHit, Continue
    <3> QED BY <2>1, <2>2, <2>3, <3>1 DEF BatchesInTurn
  <2> QED BY <2>2, <2>4, <2>5
<1>10. CASE BatchCooling
  <2>1. asked' = asked /\ \A q \in asked \cap BatchQuestions : q[1] <= at
    BY <1>c, <1>10 DEF BatchesInTurn, BatchCooling, MappingLookup
  <2>2. OnePerTitle'
    BY <1>c, <2>1 DEF OnePerTitle
  <2>3. NextTitle /\ job = "mapping"
    BY <1>10 DEF BatchCooling, MappingLookup
  <2> QED BY <1>a, <2>1, <2>2, <2>3, NextTurn
<1>11. CASE BatchAsk
  <2>1. asked' = asked \cup {Question} /\ answer' # "nothing" /\ UNCHANGED place
    BY <1>11 DEF BatchAsk, Ask, Answers
  <2>2. \A q \in asked \cap BatchQuestions : q[1] < at
    BY <1>a, <1>c, <1>11, BatchShape
       DEF BatchesInTurn, BatchAsk, MappingLookup, TypeOK, Titles
  <2>3. job = "mapping" /\ Question[1] = at /\ at \in Nat
    BY <1>a, <1>11 DEF BatchAsk, MappingLookup, Question, TypeOK, Titles
  <2>4. BatchesInTurn'
    <3>1. \A q \in asked \cap BatchQuestions : q[1] \in Nat
      BY BatchShape DEF Titles
    <3>2. job' = job /\ at' = at
      BY <2>1 DEF place
    <3>3. ASSUME NEW q \in asked' \cap BatchQuestions
          PROVE  q[1] <= at
      BY <2>1, <2>2, <2>3, <3>1, <3>3
    <3> QED BY <2>1, <2>3, <3>2, <3>3 DEF BatchesInTurn
  <2>5. OnePerTitle'
    BY <1>c, <2>1, <2>2, <2>3 DEF OnePerTitle
  <2> QED BY <2>4, <2>5
<1>12. CASE BatchRefused
  <2>1. asked' = asked /\ \A q \in asked \cap BatchQuestions : q[1] <= at
    BY <1>c, <1>12 DEF BatchesInTurn, BatchRefused, MappingLookup
  <2>2. OnePerTitle'
    BY <1>c, <2>1 DEF OnePerTitle
  <2>3. NextTitle /\ job = "mapping"
    BY <1>12 DEF BatchRefused, MappingLookup
  <2> QED BY <1>a, <2>1, <2>2, <2>3, NextTurn
<1>13. CASE BatchAnswered
  <2>1. asked' = asked /\ \A q \in asked \cap BatchQuestions : q[1] <= at
    BY <1>c, <1>13 DEF BatchesInTurn, BatchAnswered, MappingLookup
  <2>2. OnePerTitle'
    BY <1>c, <2>1 DEF OnePerTitle
  <2>3. CASE NextTitle
    <3>1. job = "mapping"
      BY <1>13 DEF BatchAnswered, MappingLookup
    <3> QED BY <1>a, <2>1, <2>2, <2>3, <3>1, NextTurn
  <2>4. CASE ~NextTitle
    <3>1. step' = "applyPaid" /\ UNCHANGED <<job, at>>
      BY <1>13, <2>4 DEF BatchAnswered, Continue
    <3> QED BY <1>c, <2>1, <2>2, <3>1 DEF BatchesInTurn
  <2> QED BY <2>2, <2>3, <2>4
<1>14. CASE Apply
  <2>1. asked' = asked /\ \A q \in asked \cap BatchQuestions : q[1] <= at
    BY <1>c, <1>14 DEF BatchesInTurn, Apply, MappingLookup
  <2>2. OnePerTitle'
    BY <1>c, <2>1 DEF OnePerTitle
  <2>3. CASE NextTitle
    <3>1. job = "mapping"
      BY <1>14 DEF Apply, MappingLookup
    <3> QED BY <1>a, <2>1, <2>2, <2>3, <3>1, NextTurn
  <2>4. CASE ~NextTitle
    <3>1. step = "applyHit" /\ answer' = answer /\ UNCHANGED <<job, at>>
      BY <1>14, <2>4 DEF Apply
    <3>2. step # "applyPaid"
      BY <3>1
    <3> QED BY <1>c, <2>1, <2>2, <3>1, <3>2 DEF BatchesInTurn
  <2> QED BY <2>2, <2>3, <2>4
<1>15. CASE PassMinutes
  BY <1>c, <1>15 DEF PassMinutes, place, BatchesInTurn, OnePerTitle
<1>16. CASE PassDay
  BY <1>c, <1>16 DEF PassDay, place, BatchesInTurn, OnePerTitle
<1>17. ASSUME NEW t \in Titles, ChangeInput(t) PROVE BatchesInTurn' /\ OnePerTitle'
  BY <1>c, <1>17 DEF ChangeInput, place, BatchesInTurn, OnePerTitle
<1>18. ASSUME NEW t \in Titles, Invalidate(t) PROVE BatchesInTurn' /\ OnePerTitle'
  BY <1>c, <1>18 DEF Invalidate, place, BatchesInTurn, OnePerTitle
<1>19. CASE Crash
  BY <1>c, <1>19 DEF Crash, BatchesInTurn, OnePerTitle
<1> QED
  BY <1>1, <1>2, <1>3, <1>4, <1>5, <1>6, <1>7, <1>8, <1>9,
     <1>10, <1>11, <1>12, <1>13, <1>14, <1>15, <1>16, <1>17, <1>18, <1>19 DEF Next, ScanStep

\* The history of what was bought agrees with the cache.
LEMMA HeldStep ==
    ASSUME Inv, Next PROVE BoughtIsHeld'
<1>a. TypeOK
  BY DEF Inv
<1>b. Question \in BatchQuestions /\ Question \in Questions
  BY <1>a, BatchIsQuestion DEF TypeOK, Question
<1>c. BoughtIsHeld
  BY DEF Inv
<1>d. Pending
  BY DEF Inv
<1>1. CASE BeginScan
  BY <1>c, <1>1 DEF BeginScan, BoughtIsHeld, Live
<1>2. CASE NamesTurn
  BY <1>c, <1>2 DEF NamesTurn, BoughtIsHeld, Live
<1>3. CASE ConsultHit
  <2>1. \A q \in BatchQuestions : cache'[q] = cache[q]
    <3>1. Names(at) \in Questions /\ Names(at) \notin BatchQuestions
      BY <1>a, NamesShape DEF TypeOK
    <3> QED BY <1>a, <1>3, <3>1, BatchShape DEF TypeOK, ConsultHit, Store
  <2> QED BY <1>c, <1>3, <2>1 DEF ConsultHit, BoughtIsHeld, Live
<1>4. CASE ConsultAsk
  BY <1>a, <1>c, <1>4 DEF ConsultAsk, BoughtIsHeld, Live, Ask
<1>5. CASE ConsultRefused
  BY <1>c, <1>5 DEF ConsultRefused, BoughtIsHeld, Live
<1>6. CASE ConsultAnswered
  <2>1. \A q \in BatchQuestions : cache'[q] = cache[q]
    <3>1. Names(at) \in Questions /\ Names(at) \notin BatchQuestions
      BY <1>a, NamesShape DEF TypeOK
    <3> QED BY <1>a, <1>6, <3>1, BatchShape DEF TypeOK, ConsultAnswered, Store
  <2> QED BY <1>c, <1>6, <2>1 DEF ConsultAnswered, BoughtIsHeld, Live
<1>7. CASE Details
  <2>1. CASE UNCHANGED <<cache, bought>>
    BY <1>c, <2>1 DEF BoughtIsHeld, Live
  <2>2. CASE ~UNCHANGED <<cache, bought>>
    <3>1. ASSUME NEW q \in BatchQuestions
          PROVE  IF q[1] = at THEN cache'[q] = NoEntry /\ bought'[q] = Expired
                              ELSE cache'[q] = cache[q] /\ bought'[q] = bought[q]
      BY <1>7, <2>2, <3>1, BatchShape DEF Details, NewBatches
    <3> QED BY <1>c, <3>1 DEF BoughtIsHeld, Live, NoEntry, Answers
  <2> QED BY <2>1, <2>2
<1>8. CASE MappingTurn
  BY <1>c, <1>8 DEF MappingTurn, BoughtIsHeld, Live
<1>9. CASE BatchHit
  BY <1>c, <1>9 DEF BatchHit, BoughtIsHeld, Live
<1>10. CASE BatchCooling
  BY <1>c, <1>10 DEF BatchCooling, BoughtIsHeld, Live
<1>11. CASE BatchAsk
  BY <1>a, <1>c, <1>11 DEF BatchAsk, BoughtIsHeld, Live, Ask
<1>12. CASE BatchRefused
  <2>1. bought[Question] = Expired
    BY <1>b, <1>c, <1>12
       DEF BatchRefused, Unanswered, BoughtIsHeld, Live, Answers
  <2>2. cache'[Question] = Now("cooling") /\ \A q \in BatchQuestions \ {Question} : cache'[q] = cache[q]
    BY <1>a, <1>b, <1>12, BatchShape DEF TypeOK, BatchRefused, Store
  <2> QED BY <1>c, <1>12, <2>1, <2>2
             DEF BatchRefused, BoughtIsHeld, Live, Now, Answers
<1>13. CASE BatchAnswered
  <2>1. \A q \in BatchQuestions \ {Question} : cache'[q] = cache[q] /\ bought'[q] = bought[q]
    BY <1>a, <1>b, <1>13, BatchShape DEF TypeOK, BatchAnswered, Store
  <2>2. CASE answer = "error"
    <3>1. bought'[Question] = Expired
      BY <1>b, <1>c, <1>d, <1>13, <2>2 DEF BatchAnswered, BoughtIsHeld, Pending
    <3>2. cache'[Question] = Now("cooling")
      BY <1>a, <1>b, <1>13, <2>2 DEF TypeOK, BatchAnswered, Store
    <3> QED BY <1>c, <2>1, <2>2, <3>1, <3>2 DEF BoughtIsHeld, Live, Now, Answers
  <2>3. CASE answer # "error"
    <3>1. bought'[Question] = 0
      BY <1>a, <1>b, <1>13, <2>3 DEF TypeOK, BatchAnswered
    <3>2. cache'[Question] = Now(answer) /\ answer \in Answers
      BY <1>a, <1>b, <1>13, <2>3 DEF TypeOK, BatchAnswered, Store
    <3>3. 0 # Expired
      BY DEF Expired
    <3> QED BY <1>c, <2>1, <3>1, <3>2, <3>3 DEF BoughtIsHeld, Live, Now
  <2> QED BY <2>2, <2>3
<1>14. CASE Apply
  BY <1>c, <1>14 DEF Apply, BoughtIsHeld, Live
<1>15. CASE PassMinutes
  <2>1. \A q \in BatchQuestions : cache'[q] = Cooler(cache[q])
    BY <1>15, BatchShape DEF PassMinutes
  <2> QED BY <1>c, <1>15, <2>1
             DEF PassMinutes, BoughtIsHeld, Live, Cooler, Now, Answers
<1>16. CASE PassDay
  <2>1. ASSUME NEW q \in BatchQuestions
        PROVE  /\ cache'[q] = Older(Cooler(cache[q])) /\ cache[q] \in Entry
               /\ bought'[q] = IF bought[q] = Expired THEN Expired ELSE bought[q] + 1
    BY <1>a, <1>16, <2>1, BatchShape DEF TypeOK, PassDay
  <2>2. ASSUME NEW q \in BatchQuestions
        PROVE  IF bought'[q] = Expired THEN ~Live(q)' ELSE Live(q)' /\ cache'[q].age = bought'[q]
    <3>1. CASE bought[q] = Expired
      <4>1. ~Live(q)
        BY <1>c, <2>2, <3>1 DEF BoughtIsHeld
      <4> QED BY <2>1, <2>2, <3>1, <4>1 DEF Live, Older, Cooler, Now, Answers
    <3>2. CASE bought[q] # Expired
      <4>1. Live(q) /\ cache[q].age = bought[q]
        BY <1>c, <2>2, <3>2 DEF BoughtIsHeld
      <4>2. Cooler(cache[q]) = cache[q]
        BY <4>1 DEF Live, Cooler, Answers
      <4>3. CASE cache[q].age = CacheTtl
        <5>1. cache'[q] = NoEntry
          BY <2>1, <2>2, <4>1, <4>2, <4>3 DEF Live, Older
        <5>2. bought'[q] = Expired
          BY <2>1, <2>2, <3>2, <4>1, <4>3 DEF Expired
        <5> QED BY <5>1, <5>2 DEF Live, NoEntry, Answers
      <4>4. CASE cache[q].age # CacheTtl
        <5>1. cache'[q] = [cache[q] EXCEPT !.age = @ + 1]
          BY <2>1, <2>2, <4>1, <4>2, <4>4 DEF Live, Older
        <5>2. cache'[q].kind = cache[q].kind /\ cache'[q].age = cache[q].age + 1
          BY <2>1, <2>2, <5>1 DEF Entry
        <5>3. bought'[q] = bought[q] + 1 /\ bought'[q] # Expired
          BY <2>1, <2>2, <3>2, <4>1, <4>4 DEF Expired, Entry
        <5> QED BY <4>1, <5>2, <5>3 DEF Live
      <4> QED BY <4>3, <4>4
    <3> QED BY <3>1, <3>2
  <2> QED BY <2>2 DEF BoughtIsHeld
<1>17. ASSUME NEW t \in Titles, ChangeInput(t) PROVE BoughtIsHeld'
  <2>1. ASSUME NEW q \in BatchQuestions
        PROVE  IF q[1] = t THEN cache'[q] = NoEntry /\ bought'[q] = Expired
                           ELSE cache'[q] = cache[q] /\ bought'[q] = bought[q]
    BY <1>17, <2>1, BatchShape DEF ChangeInput, NewBatches
  <2> QED BY <1>c, <2>1 DEF BoughtIsHeld, Live, NoEntry, Answers
<1>18. ASSUME NEW t \in Titles, Invalidate(t) PROVE BoughtIsHeld'
  <2>1. ASSUME NEW q \in BatchQuestions
        PROVE  \/ cache'[q] = NoEntry /\ bought'[q] = Expired
               \/ cache'[q] = cache[q] /\ bought'[q] = bought[q]
    BY <1>18, <2>1, BatchShape DEF Invalidate
  <2> QED BY <1>c, <2>1 DEF BoughtIsHeld, Live, NoEntry, Answers
<1>19. CASE Crash
  BY <1>c, <1>19 DEF Crash, BoughtIsHeld, Live
<1> QED
  BY <1>1, <1>2, <1>3, <1>4, <1>5, <1>6, <1>7, <1>8, <1>9,
     <1>10, <1>11, <1>12, <1>13, <1>14, <1>15, <1>16, <1>17, <1>18, <1>19 DEF Next, ScanStep


\* Nothing happens to the invariant when nothing happens.
LEMMA InvStutter == ASSUME Inv, UNCHANGED vars PROVE Inv'
<1>1. TypeOK' /\ BoughtIsHeld'
  BY DEF Inv, TypeOK, BoughtIsHeld, Live, vars, place, counters
<1>2. Pending' /\ NamesOnce'
  BY DEF Inv, Pending, NamesOnce, Live, Question, vars, place
<1>3. BatchesInTurn' /\ OnePerTitle'
  BY DEF Inv, BatchesInTurn, OnePerTitle, vars, place
<1> QED BY <1>1, <1>2, <1>3 DEF Inv

LEMMA InvInit == ASSUME Init PROVE Inv
<1>1. 1 \in Titles /\ 1 \in 1..BatchesOf[1]
  BY DEF Titles
<1>2. TypeOK
  BY <1>1 DEF Init, TypeOK, Entry, NoEntry, Steps, RowStates, Expired
<1>3. BoughtIsHeld
  BY BatchShape DEF Init, BoughtIsHeld, Live, NoEntry, Answers
<1>4. Pending /\ NamesOnce /\ BatchesInTurn /\ OnePerTitle
  BY DEF Init, Pending, NamesOnce, BatchesInTurn, OnePerTitle
<1> QED BY <1>2, <1>3, <1>4 DEF Inv

\* The strengthened invariant holds in every behaviour.
THEOREM Invariant == Spec => []Inv
<1>1. Inv /\ [Next]_vars => Inv'
  BY TypeStep, PendingStep, NamesStep, BatchesStep, HeldStep, InvStutter DEF Inv
<1> QED BY InvInit, <1>1, PTL DEF Spec

\* The types hold for any number of titles, batches and calls: the budget is
\* never exceeded and the job never runs past the batches of a title.
THEOREM TypeCorrect == Spec => []TypeOK
<1>1. Inv => TypeOK
  BY DEF Inv
<1> QED BY Invariant, <1>1, PTL

\* An answer bought for a batch stays in the cache for its lifetime, whatever
\* fails or is refused in the meantime, and no use of it renews it.
THEOREM AnswersAreHeld == Spec => []BoughtIsHeld
<1>1. Inv => BoughtIsHeld
  BY DEF Inv
<1> QED BY Invariant, <1>1, PTL

\* "At most one new mapping call per collection per scan", for any number of
\* batches.
THEOREM OneCallPerTitle == Spec => []OneMappingCallPerTitle
<1>1. ASSUME OnePerTitle PROVE OneMappingCallPerTitle
  <2>1. ASSUME NEW t \in Titles
        PROVE  Cardinality({q \in asked \cap BatchQuestions : q[1] = t}) <= 1
    <3> DEFINE S == {q \in asked \cap BatchQuestions : q[1] = t}
    <3>1. CASE S = {}
      <4>1. Cardinality(S) = 0
        BY <3>1, FS_EmptySet
      <4> QED BY <4>1
    <3>2. CASE S # {}
      <4>1. PICK q \in S : TRUE
        BY <3>2
      <4>2. S = {q}
        BY <1>1, <4>1 DEF OnePerTitle
      <4>3. Cardinality(S) = 1
        BY <4>2, FS_Singleton
      <4> QED BY <4>3
    <3> QED BY <3>1, <3>2
  <2> QED BY <2>1 DEF OneMappingCallPerTitle
<1>2. Inv => OneMappingCallPerTitle
  BY <1>1 DEF Inv
<1> QED BY Invariant, <1>2, PTL

-----------------------------------------------------------------------------
(* The implementation of PaidAnswers.                                      *)

Held == {q \in Questions : Live(q)}
Awaited == IF answer = "nothing" THEN {}
           ELSE {IF job = "names" THEN Names(at) ELSE Question}

\* The steps of PaidAnswers, by what they do to what it sees.
LEMMA Stutters ==
    ASSUME Held' = Held, asked' = asked, calls' = calls, Awaited' = Awaited
    PROVE  UNCHANGED Paid!vars
BY DEF Held, Awaited, Paid!vars

LEMMA Forgets ==
    ASSUME Held' \subseteq Held, asked' = asked, calls' = calls, Awaited = {}, Awaited' = {}
    PROVE  Paid!Next
BY DEF Held, Awaited, Paid!Next, Paid!Forget

LEMMA Loses ==
    ASSUME Held' = Held, asked' = asked, calls' = calls, Awaited # {}, Awaited' = {}
    PROVE  Paid!Next
BY DEF Held, Awaited, Paid!Next, Paid!Lose

LEMMA Keeps ==
    ASSUME Held' = Held \cup Awaited, asked' = asked, calls' = calls,
           Awaited # {}, Awaited' = {}
    PROVE  Paid!Next
BY DEF Held, Awaited, Paid!Next, Paid!Keep

LEMMA Buys ==
    ASSUME NEW q \in Questions, q \notin Held \cup asked, Held' = Held,
           calls < MaxCalls, calls' = calls + 1, asked' = asked \cup {q},
           Awaited = {}, Awaited' = {q}
    PROVE  Paid!Next
<1>1. Paid!Buy(q)
  BY DEF Held, Awaited, Paid!Buy
<1> QED BY <1>1 DEF Paid!Next

\* Storing an answer to a question, or the lack of one.
LEMMA StoreHolds ==
    ASSUME TypeOK, NEW q \in Questions, NEW e, Store(q, e)
    PROVE  Held' = IF e.kind \in Answers THEN Held \cup {q} ELSE Held \ {q}
BY DEF TypeOK, Store, Held, Live

\* Every step is a step of PaidAnswers or leaves what it sees alone.
LEMMA PaidStep == ASSUME Inv, Next PROVE Paid!Next \/ UNCHANGED Paid!vars
<1>a. TypeOK
  BY DEF Inv
<1>b. Question \in Questions /\ Names(at) \in Questions
  BY <1>a, BatchIsQuestion, NamesShape DEF TypeOK, Question
<1>c. Pending /\ NamesOnce /\ BatchesInTurn
  BY DEF Inv
<1>d. cache' = cache => Held' = Held
  BY DEF Held, Live
<1>e. Awaited = {} <=> answer = "nothing"
  BY DEF Awaited
<1>f. Awaited' = {} <=> answer' = "nothing"
  BY DEF Awaited
<1>1. CASE BeginScan
  <2>1. answer = "nothing" /\ answer' = "nothing" /\ cache' = cache
        /\ asked' = {} /\ calls' = 0
    BY <1>c, <1>1 DEF Pending, BeginScan
  <2>2. Paid!NewScan
    BY <1>d, <1>e, <1>f, <2>1 DEF Paid!NewScan, Held, Awaited
  <2> QED BY <2>2 DEF Paid!Next
<1>2. CASE NamesTurn
  <2>1. answer = "nothing" /\ answer' = "nothing" /\ cache' = cache
        /\ asked' = asked /\ calls' = calls
    BY <1>c, <1>2 DEF Pending, NamesTurn
  <2> QED BY <1>d, <1>e, <1>f, <2>1, Stutters
<1>3. CASE ConsultHit
  <2>1. answer = "nothing" /\ answer' = "nothing" /\ asked' = asked
        /\ calls' = calls
        /\ Store(Names(at), Now("sure")) /\ Names(at) \in Held
    BY <1>b, <1>3 DEF ConsultHit, Held
  <2>2. Held' = Held
    <3>1. Now("sure").kind \in Answers
      BY DEF Now, Answers
    <3>2. Held' = Held \cup {Names(at)}
      BY <1>a, <1>b, <2>1, <3>1, StoreHolds
    <3> QED BY <2>1, <3>2
  <2> QED BY <1>e, <1>f, <2>1, <2>2, Stutters
<1>4. CASE ConsultAsk
  <2>1. /\ answer = "nothing" /\ answer' # "nothing" /\ UNCHANGED place /\ cache' = cache
        /\ asked' = asked \cup {Names(at)} /\ calls < MaxCalls /\ calls' = calls + 1
    BY <1>4 DEF ConsultAsk, Ask, MayAsk, Answers
  <2>2. Names(at) \notin Held
    BY <1>4 DEF ConsultAsk, Held
  <2>3. Names(at) \notin asked
    <3>1. at \in Titles /\ ~(at < at)
      BY <1>a DEF TypeOK, Titles
    <3> QED BY <1>c, <1>4, <3>1 DEF NamesOnce, ConsultAsk, Consulting
  <2>4. Awaited' = {Names(at)}
    BY <1>4, <2>1 DEF Awaited, place, ConsultAsk, Consulting
  <2> QED BY <1>b, <1>d, <1>e, <2>1, <2>2, <2>3, <2>4, Buys
<1>5. CASE ConsultRefused
  <2>1. answer = "nothing" /\ answer' = "nothing" /\ cache' = cache
        /\ asked' = asked /\ calls' = calls
    BY <1>c, <1>5 DEF Pending, ConsultRefused
  <2> QED BY <1>d, <1>e, <1>f, <2>1, Stutters
<1>6. CASE ConsultAnswered
  <2>1. answer # "nothing" /\ answer' = "nothing" /\ asked' = asked /\ calls' = calls
        /\ Awaited = {Names(at)}
    BY <1>6 DEF ConsultAnswered, Awaited, Consulting
  <2>2. CASE answer = "error"
    <3>1. cache' = cache
      BY <1>6, <2>2 DEF ConsultAnswered
    <3> QED BY <1>d, <1>e, <1>f, <2>1, <3>1, Loses
  <2>3. CASE answer # "error"
    <3>1. Store(Names(at), Now(answer)) /\ answer \in Answers
      BY <1>a, <1>6, <2>3 DEF ConsultAnswered, TypeOK
    <3>2. Held' = Held \cup Awaited
      BY <1>a, <1>b, <2>1, <3>1, StoreHolds DEF Now
    <3> QED BY <1>e, <1>f, <2>1, <3>2, Keeps
  <2> QED BY <2>2, <2>3
<1>7. CASE Details
  <2>1. answer = "nothing" /\ answer' = "nothing" /\ asked' = asked
        /\ calls' = calls
    BY <1>c, <1>7 DEF Pending, Details
  <2>2. Held' \subseteq Held
    BY <1>a, <1>7 DEF TypeOK, Details, Held, Live, NoEntry, Answers
  <2> QED BY <1>e, <1>f, <2>1, <2>2, Forgets
<1>8. CASE MappingTurn
  <2>1. answer = "nothing" /\ answer' = "nothing" /\ cache' = cache
        /\ asked' = asked /\ calls' = calls
    BY <1>c, <1>8 DEF Pending, MappingTurn
  <2> QED BY <1>d, <1>e, <1>f, <2>1, Stutters
<1>9. CASE BatchHit
  <2>1. answer = "nothing" /\ answer' = "nothing" /\ cache' = cache
        /\ asked' = asked /\ calls' = calls
    BY <1>c, <1>9 DEF Pending, BatchHit, MappingLookup
  <2> QED BY <1>d, <1>e, <1>f, <2>1, Stutters
<1>10. CASE BatchCooling
  <2>1. answer = "nothing" /\ answer' = "nothing" /\ cache' = cache
        /\ asked' = asked /\ calls' = calls
    BY <1>c, <1>10 DEF Pending, BatchCooling, MappingLookup
  <2> QED BY <1>d, <1>e, <1>f, <2>1, Stutters
<1>11. CASE BatchAsk
  <2>1. /\ answer = "nothing" /\ answer' # "nothing" /\ UNCHANGED place /\ cache' = cache
        /\ asked' = asked \cup {Question} /\ calls < MaxCalls /\ calls' = calls + 1
    BY <1>11 DEF BatchAsk, Ask, MayAsk, Answers, MappingLookup
  <2>2. Question \notin Held
    BY <1>11 DEF BatchAsk, Held, Live, Unanswered, Answers
  <2>3. Question \notin asked
    <3>1. Question \in BatchQuestions /\ Question[1] = at
      BY <1>a, BatchIsQuestion DEF TypeOK, Question
    <3> QED BY <1>c, <1>11, <3>1 DEF BatchesInTurn, BatchAsk, MappingLookup
  <2>4. Awaited' = {Question}
    BY <1>11, <2>1 DEF Awaited, place, BatchAsk, MappingLookup, Question
  <2> QED BY <1>b, <1>d, <1>e, <2>1, <2>2, <2>3, <2>4, Buys
<1>12. CASE BatchRefused
  <2>1. answer = "nothing" /\ answer' = "nothing" /\ asked' = asked
        /\ calls' = calls
        /\ Store(Question, Now("cooling")) /\ Question \notin Held
    BY <1>12 DEF BatchRefused, MappingLookup, Unanswered, Held, Live, Answers
  <2>2. Held' = Held
    BY <1>a, <1>b, <2>1, StoreHolds DEF Now, Answers
  <2> QED BY <1>e, <1>f, <2>1, <2>2, Stutters
<1>13. CASE BatchAnswered
  <2>1. answer # "nothing" /\ answer' = "nothing" /\ asked' = asked /\ calls' = calls
        /\ Awaited = {Question}
    BY <1>13 DEF BatchAnswered, Awaited
  <2>2. CASE answer = "error"
    <3>1. Store(Question, Now("cooling")) /\ Question \notin Held
      BY <1>c, <1>13, <2>2 DEF BatchAnswered, Pending, Held
    <3>2. Held' = Held
      BY <1>a, <1>b, <3>1, StoreHolds DEF Now, Answers
    <3> QED BY <1>e, <1>f, <2>1, <3>2, Loses
  <2>3. CASE answer # "error"
    <3>1. Store(Question, Now(answer)) /\ answer \in Answers
      BY <1>a, <1>13, <2>3 DEF BatchAnswered, TypeOK
    <3>2. Held' = Held \cup Awaited
      BY <1>a, <1>b, <2>1, <3>1, StoreHolds DEF Now
    <3> QED BY <1>e, <1>f, <2>1, <3>2, Keeps
  <2> QED BY <2>2, <2>3
<1>14. CASE Apply
  <2>1. answer = "nothing" /\ answer' = "nothing" /\ cache' = cache
        /\ asked' = asked /\ calls' = calls
    BY <1>c, <1>14 DEF Pending, Apply
  <2> QED BY <1>d, <1>e, <1>f, <2>1, Stutters
<1>15. CASE PassMinutes
  <2>1. answer = "nothing" /\ answer' = "nothing" /\ asked' = asked
        /\ calls' = calls
    BY <1>c, <1>15 DEF Pending, PassMinutes
  <2>2. Held' = Held
    BY <1>15 DEF PassMinutes, Held, Live, Cooler, Now, Answers
  <2> QED BY <1>e, <1>f, <2>1, <2>2, Stutters
<1>16. CASE PassDay
  <2>1. answer = "nothing" /\ answer' = "nothing" /\ asked' = asked
        /\ calls' = calls
    BY <1>c, <1>16 DEF Pending, PassDay
  <2>2. Held' \subseteq Held
    BY <1>a, <1>16
       DEF TypeOK, PassDay, Held, Live, Older, Cooler, Now, NoEntry, Answers
  <2> QED BY <1>e, <1>f, <2>1, <2>2, Forgets
<1>17. ASSUME NEW t \in Titles, ChangeInput(t) PROVE Paid!Next \/ UNCHANGED Paid!vars
  <2>1. answer = "nothing" /\ answer' = "nothing" /\ asked' = asked
        /\ calls' = calls
    BY <1>c, <1>17 DEF Pending, ChangeInput
  <2>2. Held' \subseteq Held
    BY <1>a, <1>17 DEF TypeOK, ChangeInput, Held, Live, NoEntry, Answers
  <2> QED BY <1>e, <1>f, <2>1, <2>2, Forgets
<1>18. ASSUME NEW t \in Titles, Invalidate(t) PROVE Paid!Next \/ UNCHANGED Paid!vars
  <2>1. answer = "nothing" /\ answer' = "nothing" /\ asked' = asked
        /\ calls' = calls
    BY <1>c, <1>18 DEF Pending, Invalidate
  <2>2. Held' \subseteq Held
    BY <1>a, <1>18 DEF TypeOK, Invalidate, Held, Live, NoEntry, Answers
  <2> QED BY <1>e, <1>f, <2>1, <2>2, Forgets
<1>19. CASE Crash
  <2>1. answer' = "nothing" /\ cache' = cache /\ asked' = asked /\ calls' = calls
    BY <1>19 DEF Crash
  <2>2. CASE answer = "nothing"
    BY <1>d, <1>e, <1>f, <2>1, <2>2, Stutters
  <2>3. CASE answer # "nothing"
    BY <1>d, <1>e, <1>f, <2>1, <2>3, Loses
  <2> QED BY <2>2, <2>3
<1> QED
  BY <1>1, <1>2, <1>3, <1>4, <1>5, <1>6, <1>7, <1>8, <1>9,
     <1>10, <1>11, <1>12, <1>13, <1>14, <1>15, <1>16, <1>17, <1>18, <1>19 DEF Next, ScanStep

\* What the jobs spend implements PaidAnswers: no question is bought twice in a
\* scan, or while its answer is held, and no scan exceeds its calls.
THEOREM Refinement == Spec => PaidSpec
<1>1. Init => Paid!Init
  BY DEF Init, Paid!Init, Live, NoEntry, Answers
<1>2. Inv /\ [Next]_vars => [Paid!Next]_Paid!vars
  <2>1. ASSUME Inv, UNCHANGED vars PROVE UNCHANGED Paid!vars
    <3>1. Held' = Held /\ Awaited' = Awaited /\ asked' = asked /\ calls' = calls
      BY <2>1 DEF Held, Live, Awaited, Question, vars, place
    <3> QED BY <3>1, Stutters
  <2> QED BY <2>1, PaidStep
<1> QED BY Invariant, <1>1, <1>2, PTL DEF Spec, PaidSpec, Paid!Spec

===============================================================================
