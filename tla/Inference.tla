------------------------------ MODULE Inference ------------------------------
(***************************************************************************)
(* The paid calls to the model: OpenAIInferenceClient of inference.py and  *)
(* its two jobs in a scan, the names job of enrich_catalogue (title and    *)
(* episode hints) and then the mapping job of _reconcile_model_mappings,   *)
(* with the inference_cache table they share and the mappings they write.  *)
(*                                                                         *)
(* A question is a title's names, <<t, 0>>, or one of its batches of 50    *)
(* files, <<t, b>>.  A row of the cache is named by a digest of the whole  *)
(* input: when an input changes, its question has a new digest and no row, *)
(* and the row of the old digest is never looked up again.  Each scan      *)
(* stamps what it does with the time it began, so time passes between      *)
(* scans: days age the answers, minutes end the cooldowns.                 *)
(***************************************************************************)
EXTENDS Naturals, FiniteSets

CONSTANTS
    NTitles,        \* the titles both jobs consider, in the order they are listed
    BatchesOf,      \* how many batches of eligible files each title has
    Unlabelled,     \* titles with files whose names give no episode
    Oversized,      \* titles with more than MAX_FILENAMES of them
    MaxCalls,       \* openai_max_calls_per_scan
    CacheTtl,       \* openai_cache_ttl, in days
    MaxDays,        \* bound: days in a behaviour
    MaxChanges,     \* bound: changed inputs and invalidations
    MaxFaults,      \* bound: requests that fail
    MaxCrashes      \* bound: processes killed in a scan

Titles == 1..NTitles

ASSUME TitlesAssumption ==
    /\ NTitles \in Nat \ {0}
    /\ BatchesOf \in [Titles -> Nat \ {0}]
    /\ Unlabelled \subseteq Titles
    /\ Oversized \subseteq Unlabelled
ASSUME LimitsAssumption ==
    /\ MaxCalls \in Nat \ {0} /\ CacheTtl \in Nat
    /\ MaxDays \in Nat /\ MaxChanges \in Nat /\ MaxFaults \in Nat /\ MaxCrashes \in Nat

Names(t) == <<t, 0>>
BatchQuestions == UNION {{t} \X (1..BatchesOf[t]) : t \in Titles}
Questions == {Names(t) : t \in Titles} \cup BatchQuestions

VARIABLES
    job,        \* "idle", or the job of the scan that runs: "names", "mapping"
    at,         \* the title whose turn it is
    step,       \* what is done next for it
    batch,      \* the batch of the mapping job
    calls,      \* OpenAIInferenceClient.calls, a new client per scan
    answer,     \* what the request just paid for brought, "nothing" if none was made
    cache,      \* inference_cache, by question
    rows,       \* the model's mappings of each batch's files
    matched,    \* titles whose works all have a provider record
    asked,      \* history: the questions paid for in this scan
    bought,     \* history: the age of the last answer bought for each question
    days, changes, faults, crashes

place == <<job, at, step, batch>>
counters == <<days, changes, faults, crashes>>
vars == <<place, calls, answer, cache, rows, matched, asked, bought, counters>>

\* "cooling" and "failed" are error rows, within the cooldown and after it. A
\* row older than the lifetime is looked up in vain: it is no row here.
Entry == [kind : {"none", "sure", "unsure", "cooling", "failed"}, age : 0..CacheTtl]
NoEntry == [kind |-> "none", age |-> 0]
Now(k) == [kind |-> k, age |-> 0]
Answers == {"sure", "unsure"}
Live(q) == cache[q].kind \in Answers

\* The model's mappings of a batch: absent, or of the answer to the question
\* as it is now, or to an earlier form of it.
RowStates == {"none", "current", "old"}

Expired == CacheTtl + 1

Steps == {"turn", "help", "hints", "details", "batch", "applyHit", "applyPaid"}

TypeOK ==
    /\ job \in {"idle", "names", "mapping"}
    /\ at \in Titles
    /\ step \in Steps
    /\ batch \in 1..BatchesOf[at]
    /\ calls \in 0..MaxCalls
    /\ answer \in Answers \cup {"nothing", "error"}
    /\ cache \in [Questions -> Entry]
    /\ rows \in [BatchQuestions -> RowStates]
    /\ matched \in [Titles -> BOOLEAN]
    /\ asked \subseteq Questions
    /\ bought \in [BatchQuestions -> 0..Expired]
    /\ days \in 0..MaxDays /\ changes \in 0..MaxChanges
    /\ faults \in 0..MaxFaults /\ crashes \in 0..MaxCrashes

Init ==
    /\ job = "idle" /\ at = 1 /\ step = "turn" /\ batch = 1
    /\ calls = 0
    /\ answer = "nothing"
    /\ cache = [q \in Questions |-> NoEntry]
    /\ rows = [q \in BatchQuestions |-> "none"]
    /\ matched \in [Titles -> BOOLEAN]
    /\ asked = {}
    /\ bought = [q \in BatchQuestions |-> Expired]
    /\ days = 0 /\ changes = 0 /\ faults = 0 /\ crashes = 0

-----------------------------------------------------------------------------
\* The turn of the next title, of the next job, or the end of the scan.
NextTitle ==
    /\ step' = "turn"
    /\ batch' = 1
    /\ IF at < NTitles
       THEN at' = at + 1 /\ UNCHANGED job
       ELSE at' = 1 /\ job' = IF job = "names" THEN "mapping" ELSE "idle"

Continue(s) == step' = s /\ UNCHANGED <<job, at, batch>>

\* run_once: every scan makes a new client, whose calls are counted from zero.
BeginScan ==
    /\ job = "idle"
    /\ job' = "names"
    /\ UNCHANGED <<at, step, batch>>
    /\ calls' = 0
    /\ asked' = {}
    /\ UNCHANGED <<answer, cache, rows, matched, bought, counters>>

\* infer, infer_multi_work: the budget is checked first; a question with too
\* many file names is refused before it is paid for.
MayAsk(q) == calls < MaxCalls /\ ~(q[2] = 0 /\ q[1] \in Oversized)

\* The call is counted before the request is sent; it may fail.
Ask(q, brings) ==
    /\ MayAsk(q)
    /\ calls' = calls + 1
    /\ asked' = asked \cup {q}
    /\ answer' \in brings \cup {"error"}
    /\ IF answer' = "error" THEN faults < MaxFaults /\ faults' = faults + 1
                            ELSE UNCHANGED faults
    /\ UNCHANGED <<place, cache, rows, matched, bought, days, changes, crashes>>

\* put_inference_cache, in a transaction of its own.
Store(q, e) == cache' = [cache EXCEPT ![q] = e]

-----------------------------------------------------------------------------
(* The names job: enrich_catalogue, _select_provider_id, _infer_entry.     *)

\* Episode hints are asked for only if a name gives no episode.
AfterMatch == IF at \in Unlabelled THEN "hints" ELSE "details"

\* A known title goes on to its episode hints; an unknown one is searched for,
\* and the model is asked for a better name when the search finds nothing.
NamesTurn ==
    /\ job = "names" /\ step = "turn"
    /\ Continue(AfterMatch) \/ (~matched[at] /\ Continue("help"))
    /\ UNCHANGED <<calls, answer, cache, rows, matched, asked, bought, counters>>

\* With the suggested name the provider finds the title, or still does not: a
\* title left unmatched gets no hints.
AfterHelp(helped) == (helped /\ Continue(AfterMatch)) \/ NextTitle

\* _infer_episodes_nonfatal swallows the errors of the model.
AfterConsult(got) == IF step = "help" THEN AfterHelp(got) ELSE Continue("details")

Consulting == job = "names" /\ step \in {"help", "hints"}

\* A cached answer is used and stored again, with the date of this scan.
ConsultHit ==
    /\ Consulting /\ answer = "nothing" /\ Live(Names(at))
    /\ Store(Names(at), Now("sure"))
    /\ AfterConsult(TRUE)
    /\ UNCHANGED <<calls, answer, rows, matched, asked, bought, counters>>

\* The hints are asked for again although the help with the name cached them.
ConsultAsk_again ==
    /\ Consulting /\ answer = "nothing" /\ (Live(Names(at)) => step = "hints")
    /\ Ask(Names(at), {"sure"})

ConsultAsk ==
    /\ Consulting /\ answer = "nothing" /\ ~Live(Names(at))
    /\ Ask(Names(at), {"sure"})

\* The budget is spent, or the title is too large: InferenceError, not cached.
ConsultRefused ==
    /\ Consulting /\ answer = "nothing" /\ ~Live(Names(at)) /\ ~MayAsk(Names(at))
    /\ AfterConsult(FALSE)
    /\ UNCHANGED <<calls, answer, cache, rows, matched, asked, bought, counters>>

\* An answer is cached; a failure is not.
ConsultAnswered ==
    /\ Consulting /\ answer # "nothing"
    /\ answer' = "nothing"
    /\ IF answer = "error" THEN UNCHANGED cache ELSE Store(Names(at), Now(answer))
    /\ AfterConsult(answer # "error")
    /\ UNCHANGED <<calls, rows, matched, asked, bought, counters>>

\* The inputs of t's batches are new ones: rows of the old answers remain.
NewBatches(t) ==
    /\ rows' = [q \in BatchQuestions |->
                 IF q[1] = t /\ rows[q] = "current" THEN "old" ELSE rows[q]]
    /\ bought' = [q \in BatchQuestions |-> IF q[1] = t THEN Expired ELSE bought[q]]
    /\ changes < MaxChanges /\ changes' = changes + 1

\* The record is fresh or its request fails; or it is stored. Any request that
\* succeeds, a 304 too, dates the record anew, and the digests of the title's
\* batches contain that date.
Details ==
    /\ job = "names" /\ step = "details"
    /\ \/ UNCHANGED <<matched, cache, rows, bought, changes>>
       \/ /\ matched' = [matched EXCEPT ![at] = TRUE]
          /\ NewBatches(at)
          /\ cache' = [q \in Questions |->
                        IF q[1] = at /\ q[2] > 0 THEN NoEntry ELSE cache[q]]
    /\ NextTitle
    /\ UNCHANGED <<calls, answer, asked, days, faults, crashes>>

-----------------------------------------------------------------------------
(* The mapping job: map_entry_with_model, _request_model_mapping,          *)
(* _apply_model_result.                                                    *)

Question == <<at, batch>>

MappingTurn ==
    /\ job = "mapping" /\ step = "turn"
    /\ IF matched[at] THEN Continue("batch") ELSE NextTitle
    /\ UNCHANGED <<calls, answer, cache, rows, matched, asked, bought, counters>>

MappingLookup == job = "mapping" /\ step = "batch" /\ answer = "nothing"

BatchHit ==
    /\ MappingLookup /\ Live(Question)
    /\ Continue("applyHit")
    /\ UNCHANGED <<calls, answer, cache, rows, matched, asked, bought, counters>>

\* "model mapping is in cooldown after a transient failure": the title ends.
BatchCooling ==
    /\ MappingLookup /\ cache[Question].kind = "cooling"
    /\ NextTitle
    /\ UNCHANGED <<calls, answer, cache, rows, matched, asked, bought, counters>>

Unanswered(q) == cache[q].kind \in {"none", "failed"}

BatchAsk ==
    /\ MappingLookup /\ Unanswered(Question)
    /\ Ask(Question, Answers)

\* The budget is looked at before the cache.
BatchRefused_first ==
    /\ MappingLookup /\ cache[Question].kind # "cooling" /\ ~MayAsk(Question)
    /\ Store(Question, Now("cooling"))
    /\ NextTitle
    /\ UNCHANGED <<calls, answer, rows, matched, asked, bought, counters>>

\* "per-scan call limit reached" is cached like any failure, and ends the title.
BatchRefused ==
    /\ MappingLookup /\ Unanswered(Question) /\ ~MayAsk(Question)
    /\ Store(Question, Now("cooling"))
    /\ NextTitle
    /\ UNCHANGED <<calls, answer, rows, matched, asked, bought, counters>>

BatchAnswered ==
    /\ job = "mapping" /\ step = "batch" /\ answer # "nothing"
    /\ answer' = "nothing"
    /\ Store(Question, Now(IF answer = "error" THEN "cooling" ELSE answer))
    /\ IF answer = "error"
       THEN NextTitle /\ UNCHANGED bought
       ELSE Continue("applyPaid") /\ bought' = [bought EXCEPT ![Question] = 0]
    /\ UNCHANGED <<calls, rows, matched, asked, counters>>

\* The job goes on to the next batch whatever the answer cost.
Apply_goesOn ==
    /\ job = "mapping" /\ step \in {"applyHit", "applyPaid"}
    /\ rows' = [rows EXCEPT ![Question] =
                 IF cache[Question].kind = "sure" THEN "current" ELSE "none"]
    /\ IF batch < BatchesOf[at]
       THEN step' = "batch" /\ batch' = batch + 1 /\ UNCHANGED <<job, at>>
       ELSE NextTitle
    /\ UNCHANGED <<calls, answer, cache, matched, asked, bought, counters>>

\* The job ends the title after the first batch even when it cost nothing.
Apply_stops ==
    /\ job = "mapping" /\ step \in {"applyHit", "applyPaid"}
    /\ rows' = [rows EXCEPT ![Question] =
                 IF cache[Question].kind = "sure" THEN "current" ELSE "none"]
    /\ NextTitle
    /\ UNCHANGED <<calls, answer, cache, matched, asked, bought, counters>>

\* Sure mappings are stored, unsure ones remove what an older answer stored.
\* After an answer just bought the title ends: at most one paid request per
\* collection per scan. After a cached one the next batch follows.
Apply ==
    /\ job = "mapping" /\ step \in {"applyHit", "applyPaid"}
    /\ rows' = [rows EXCEPT ![Question] =
                 IF cache[Question].kind = "sure" THEN "current" ELSE "none"]
    /\ IF step = "applyHit" /\ batch < BatchesOf[at]
       THEN step' = "batch" /\ batch' = batch + 1 /\ UNCHANGED <<job, at>>
       ELSE NextTitle
    /\ UNCHANGED <<calls, answer, cache, matched, asked, bought, counters>>

-----------------------------------------------------------------------------
(* Between scans.                                                          *)

Older(e) == IF e.kind \notin Answers THEN e
            ELSE IF e.age = CacheTtl THEN NoEntry ELSE [e EXCEPT !.age = @ + 1]
Cooler(e) == IF e.kind = "cooling" THEN Now("failed") ELSE e

\* MODEL_FAILURE_COOLDOWN_SECONDS pass.
PassMinutes ==
    /\ job = "idle"
    /\ \E q \in Questions : cache[q].kind = "cooling"
    /\ cache' = [q \in Questions |-> Cooler(cache[q])]
    /\ UNCHANGED <<place, calls, answer, rows, matched, asked, bought, counters>>

PassDay ==
    /\ job = "idle"
    /\ days < MaxDays /\ days' = days + 1
    /\ cache' = [q \in Questions |-> Older(Cooler(cache[q]))]
    /\ bought' = [q \in BatchQuestions |->
                   IF bought[q] = Expired THEN Expired ELSE bought[q] + 1]
    /\ UNCHANGED <<place, calls, answer, rows, matched, asked, changes, faults, crashes>>

\* Files are renamed, or a sidecar's rules change, which leaves the names alone.
ChangeInput(t) ==
    /\ job = "idle"
    /\ NewBatches(t)
    /\ \E renamed \in BOOLEAN :
         cache' = [q \in Questions |->
                    IF q[1] = t /\ (renamed \/ q[2] > 0) THEN NoEntry ELSE cache[q]]
    /\ UNCHANGED <<place, calls, answer, matched, asked, days, faults, crashes>>

\* invalidate_model_mappings: the model's mappings of a collection go, and the
\* cache rows they name; answers and errors that no mapping names stay.
Named(t) == {q \in BatchQuestions : q[1] = t /\ rows[q] = "current"}

Invalidate(t) ==
    /\ job = "idle"
    /\ changes < MaxChanges /\ changes' = changes + 1
    /\ cache' = [q \in Questions |-> IF q \in Named(t) THEN NoEntry ELSE cache[q]]
    /\ bought' = [q \in BatchQuestions |-> IF q \in Named(t) THEN Expired ELSE bought[q]]
    /\ rows' = [q \in BatchQuestions |-> IF q[1] = t THEN "none" ELSE rows[q]]
    /\ UNCHANGED <<place, calls, answer, matched, asked, days, faults, crashes>>

\* The process is killed, or an error of another part ends the scan; an answer
\* that was paid for and not stored is lost.
Crash ==
    /\ job # "idle"
    /\ crashes < MaxCrashes /\ crashes' = crashes + 1
    /\ job' = "idle" /\ at' = 1 /\ step' = "turn" /\ batch' = 1
    /\ answer' = "nothing"
    /\ UNCHANGED <<calls, cache, rows, matched, asked, bought, days, changes, faults>>

ScanStep ==
    \/ NamesTurn \/ ConsultHit \/ ConsultAsk \/ ConsultRefused \/ ConsultAnswered
    \/ Details
    \/ MappingTurn \/ BatchHit \/ BatchCooling \/ BatchAsk \/ BatchRefused
    \/ BatchAnswered \/ Apply

Next ==
    \/ BeginScan
    \/ ScanStep
    \/ PassMinutes
    \/ PassDay
    \/ \E t \in Titles : ChangeInput(t) \/ Invalidate(t)
    \/ Crash

Spec == Init /\ [][Next]_vars

\* Scans recur and end, whatever the model answers, and some come after a
\* cooldown has passed: Service scans every scan_interval.
Fairness ==
    /\ WF_vars(BeginScan)
    /\ WF_vars(ScanStep)
    /\ SF_vars(PassMinutes)

FairSpec == Spec /\ Fairness

-----------------------------------------------------------------------------
(* Properties.                                                             *)

\* An answer bought for a batch is in the cache exactly as long as its lifetime
\* lasts: no failure, spent budget, crash or use of it destroys or renews it.
BoughtIsHeld ==
    \A q \in BatchQuestions :
        IF bought[q] = Expired THEN ~Live(q)
                               ELSE Live(q) /\ cache[q].age = bought[q]

\* "At most one new mapping call per collection per scan" (README, "Optional
\* model-assisted inference"), however many batches wait.
OneMappingCallPerTitle ==
    \A t \in Titles :
        Cardinality({q \in asked \cap BatchQuestions : q[1] = t}) <= 1

\* While nothing new goes wrong the budget reaches everybody: each batch of a
\* matched title is answered in the end and its files carry that answer, and
\* each title that needs hints gets them, unless it is too large to be asked.
Served(q) ==
    /\ Live(q)
    /\ q[2] > 0 => (rows[q] = "current") <=> (cache[q].kind = "sure")
Servable(q) ==
    IF q[2] > 0 THEN matched[q[1]] ELSE q[1] \in Unlabelled \ Oversized /\ matched[q[1]]
EveryQuestionIsServed == \A q \in Questions : Servable(q) ~> Served(q)

\* The budget and the cache together: no question is bought twice in a scan or
\* while its answer is held, and a scan never exceeds its calls.
Paid == INSTANCE PaidAnswers WITH
    held <- {q \in Questions : Live(q)},
    bought <- asked,
    spent <- calls,
    pending <- IF answer = "nothing" THEN {}
               ELSE {IF job = "names" THEN Names(at) ELSE Question}
PaidSpec == Paid!Spec

=============================================================================
