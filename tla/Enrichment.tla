------------------------------ MODULE Enrichment ------------------------------
(***************************************************************************)
(* Metadata and covers: enrich_catalogue and verify_provider_work of       *)
(* metadata.py over MalMetadataProvider, whose requests are throttled,     *)
(* retried and conditional, with the rows and files they leave.            *)
(*                                                                         *)
(* The records 1..NPrimaries are those of the titles, in the order they    *)
(* are enriched; the others are related works, which candidate discovery   *)
(* has verified.  What a host says of a record is abstracted to a version  *)
(* number, and a validator to the version it was given for: the host       *)
(* answers 304 when that is still its version.  A validator of another     *)
(* host means nothing to it, so its answer is then arbitrary.              *)
(***************************************************************************)
EXTENDS Naturals

CONSTANTS
    NPrimaries, NRecords,
    Gone,           \* records whose requests always fail: deleted, malformed ...
    Hosts,          \* the transports a provider can be configured with
    MaxAttempts,    \* DEFAULT_MAX_ATTEMPTS
    MaxPages,       \* pages of episodes a host has
    MinInterval,    \* MIN_REQUEST_INTERVAL, in ticks of the clock
    MaxVersion,     \* bound: versions of a record at its host
    MaxFaults,      \* bound: other failures of requests
    MaxCrashes      \* bound: processes killed in a scan

Records == 1..NRecords
Primaries == 1..NPrimaries
Related == Records \ Primaries

ASSUME RecordsAssumption ==
    /\ NPrimaries \in Nat \ {0} /\ NRecords \in Nat /\ NPrimaries < NRecords
    /\ Gone \subseteq Records
ASSUME LimitsAssumption ==
    /\ MaxAttempts \in Nat \ {0} /\ MaxPages \in Nat \ {0} /\ MinInterval \in Nat
    /\ MaxVersion \in Nat \ {0} /\ MaxFaults \in Nat /\ MaxCrashes \in Nat
    /\ Hosts # {}

VARIABLES
    stage,      \* "idle", or the part of the scan that runs
    at,         \* the record whose turn it is
    step,       \* the request made, or the write done, for it
    tries,      \* attempts of the request that failed
    page,       \* the page of episodes asked for
    got,        \* the version the details just received are of
    host,       \* settings.metadata_provider
    mal,        \* the version each record has at the hosts
    record,     \* provider_records
    art,        \* artwork: each record's row for its cover
    file,       \* whether the file that row may name is there
    stamp,      \* by how much _last_request_at is older than the last request
    tooSoon,    \* history: two requests of a scan were less than MinInterval apart
    floor,      \* history: mal[at] when the turn began
    faults, crashes

place == <<stage, at, step, tries, page, got, floor>>
counters == <<faults, crashes>>
stored == <<record, art, file>>
vars == <<place, host, mal, stored, stamp, tooSoon, counters>>

NothingSent == MinInterval + 1
Requests == {"search", "details", "episodes", "cover"}
Steps == Requests \cup {"turn", "store", "coverRow"}

\* The version the data is of, the one its validators are of, and the host
\* these came from; data 0 is a record that was never stored. A validator is
\* there whenever the data is.
Versions == 0..MaxVersion
Record == [data : Versions, tag : Versions, source : Hosts, fresh : BOOLEAN]
Known(r) == record[r].data > 0

TypeOK ==
    /\ stage \in {"idle", "primaries", "backfill", "related"}
    /\ at \in Records
    /\ step \in Steps
    /\ tries \in 0..(MaxAttempts - 1)
    /\ page \in 1..MaxPages
    /\ got \in Versions /\ floor \in Versions
    /\ host \in Hosts
    /\ mal \in [Records -> 1..MaxVersion]
    /\ record \in [Records -> Record]
    /\ art \in [Records -> {"none", "missing", "path"}]
    /\ file \in [Records -> BOOLEAN]
    /\ stamp \in 0..NothingSent
    /\ tooSoon \in BOOLEAN
    /\ faults \in 0..MaxFaults /\ crashes \in 0..MaxCrashes

\* A new catalogue, or one whose titles were fetched long ago, without covers.
Init ==
    /\ stage = "idle" /\ at = 1 /\ step = "turn"
    /\ tries = 0 /\ page = 1 /\ got = 0 /\ floor = 0
    /\ host \in Hosts
    /\ mal = [r \in Records |-> 1]
    /\ \E known \in SUBSET Primaries :
         record = [r \in Records |->
                    LET v == IF r \in known THEN 1 ELSE 0
                    IN  [data |-> v, tag |-> v, source |-> host, fresh |-> FALSE]]
    /\ art = [r \in Records |-> "none"]
    /\ file = [r \in Records |-> FALSE]
    /\ stamp = NothingSent /\ tooSoon = FALSE
    /\ faults = 0 /\ crashes = 0

-----------------------------------------------------------------------------
(* Control.                                                                *)

Idle ==
    /\ stage' = "idle" /\ at' = 1 /\ step' = "turn"
    /\ tries' = 0 /\ page' = 1 /\ got' = 0 /\ floor' = 0

\* enrich_catalogue goes through the titles and then through the related works
\* without a cover; candidate discovery comes later in the scan.
Turn(s, r) == stage' = s /\ at' = r
NextRecord ==
    /\ step' = "turn" /\ tries' = 0 /\ page' = 1 /\ got' = 0 /\ floor' = 0
    /\ IF at \in Primaries
       THEN Turn(IF at = NPrimaries THEN "backfill" ELSE stage, at + 1)
       ELSE IF at < NRecords THEN Turn(stage, at + 1)
       ELSE IF stage = "backfill" THEN Turn("related", NPrimaries + 1)
       ELSE Turn("idle", 1)

Goto(s) == step' = s /\ UNCHANGED <<stage, at, page, got, floor>>

\* A scan makes a new provider object, which has sent nothing yet.
BeginScan ==
    /\ stage = "idle"
    /\ stage' = "primaries"
    /\ stamp' = NothingSent
    /\ UNCHANGED <<at, step, tries, page, got, floor, host, mal, stored, tooSoon, counters>>

-----------------------------------------------------------------------------
(* MalMetadataProvider._request.                                           *)

Pause(elapsed) ==
    IF stamp + elapsed >= MinInterval THEN 0 ELSE MinInterval - (stamp + elapsed)
SentAfter(time) == tooSoon' = (tooSoon \/ (stamp # NothingSent /\ time < MinInterval))

Throttle_staleClock(elapsed) ==
    /\ SentAfter(elapsed + Pause(elapsed))
    /\ stamp' = Pause(elapsed)

\* _throttle: elapsed is the time since the last request was sent. It sleeps
\* if need be, and reads the clock again for _last_request_at.
Throttle(elapsed) ==
    /\ SentAfter(elapsed + Pause(elapsed))
    /\ stamp' = 0

\* One attempt is made, after the time the last answer and the pause before a
\* retry took.
Attempt == step \in Requests /\ \E elapsed \in 0..MinInterval : Throttle(elapsed)

CountFault == faults < MaxFaults /\ faults' = faults + 1 /\ UNCHANGED crashes
Fault == IF at \in Gone THEN UNCHANGED counters ELSE CountFault

\* if attempt + 1 == self.max_attempts: raise
MayRetry == tries + 1 < MaxAttempts

Retry_wholeTitle ==
    /\ Attempt /\ Fault
    /\ MayRetry
    /\ step' = "turn" /\ tries' = 0 /\ page' = 1 /\ got' = 0 /\ floor' = 0
    /\ UNCHANGED <<stage, at, host, mal, stored>>

\* No answer, or 429 or 5xx: the request is repeated ...
Retry ==
    /\ Attempt /\ Fault
    /\ MayRetry
    /\ tries' = tries + 1
    /\ UNCHANGED <<stage, at, step, page, got, floor, host, mal, stored>>

GiveUp_endsScan ==
    /\ Attempt /\ Fault
    /\ Idle
    /\ UNCHANGED <<host, mal, stored>>

\* ... until no attempt is left; any other error is final at once. Whoever made
\* the request catches its ProviderError: a title or a related work is left as
\* it is, and a cover that cannot be had becomes a row without a path.
GiveUp ==
    /\ Attempt /\ Fault
    /\ art' = IF step = "cover" THEN [art EXCEPT ![at] = "missing"] ELSE art
    /\ NextRecord
    /\ UNCHANGED <<host, mal, record, file>>

\* http.client.HTTPException is none of the errors _request expects, nor any
\* its callers do: the whole scan fails.
Escape ==
    /\ Attempt /\ CountFault
    /\ Idle
    /\ UNCHANGED <<host, mal, stored>>

Answered == Attempt /\ at \notin Gone /\ tries' = 0

-----------------------------------------------------------------------------
(* enrich_catalogue: one title.                                            *)

\* Fresh records make no request; known and pinned ones need no search.
PrimaryTurn ==
    /\ stage = "primaries" /\ step = "turn"
    /\ IF record[at].fresh THEN NextRecord
       ELSE /\ step' = "details" \/ (~Known(at) /\ step' = "search")
            /\ floor' = mal[at]
            /\ UNCHANGED <<stage, at, tries, page, got>>
    /\ UNCHANGED <<host, mal, stored, stamp, tooSoon, counters>>

\* search and _match_outcome: one candidate is good enough, or none is.
Searched ==
    /\ step = "search" /\ Answered
    /\ Goto("details") \/ NextRecord
    /\ UNCHANGED <<host, mal, stored, counters>>

Validators_anyHost == Known(at)

\* Validators are sent only to the host that gave them; a related work, which
\* is only asked for while it is unknown, has none.
Validators == Known(at) /\ record[at].source = host

NotModified ==
    /\ Validators
    /\ record[at].source = host => record[at].tag = mal[at]

MayBeModified ==
    Validators => (record[at].source = host => record[at].tag # mal[at])

\* A 304: _refresh_cached_record dates the record anew and keeps the rest. The
\* validators are those of the answer, or the old ones.
DetailsNotModified ==
    /\ step = "details" /\ Answered /\ NotModified
    /\ record' = [record EXCEPT ![at] =
                   [data |-> @.data, tag |-> mal[at], source |-> host, fresh |-> TRUE]]
    /\ NextRecord
    /\ UNCHANGED <<host, mal, art, file, counters>>

DetailsReceived ==
    /\ step = "details" /\ Answered /\ MayBeModified
    /\ got' = mal[at]
    /\ step' = "episodes"
    /\ UNCHANGED <<stage, at, page, floor, host, mal, stored, counters>>

\* Pages are read for as long as the host says that there is a next one.
EpisodesReceived ==
    /\ step = "episodes" /\ Answered
    /\ \/ page < MaxPages /\ page' = page + 1 /\ UNCHANGED step
       \/ page' = 1 /\ step' = "store"
    /\ UNCHANGED <<stage, at, got, floor, host, mal, stored, counters>>

Store_withCover ==
    /\ step = "store"
    /\ record' = [record EXCEPT ![at] =
                   [data |-> got, tag |-> got, source |-> host, fresh |-> TRUE]]
    /\ art' = [art EXCEPT ![at] = "path"]
    /\ Goto("cover")
    /\ UNCHANGED <<tries, host, mal, file, stamp, tooSoon, counters>>

\* _store_details, or the transaction of verify_provider_work; the cover comes
\* after it.
Store ==
    /\ step = "store"
    /\ record' = [record EXCEPT ![at] =
                   [data |-> got, tag |-> got, source |-> host, fresh |-> TRUE]]
    /\ Goto("cover")
    /\ UNCHANGED <<tries, host, mal, art, file, stamp, tooSoon, counters>>

\* artwork: the file is replaced in one rename ...
CoverReceived ==
    /\ step = "cover" /\ Answered
    /\ file' = [file EXCEPT ![at] = TRUE]
    /\ Goto("coverRow")
    /\ UNCHANGED <<host, mal, record, art, counters>>

\* ... before upsert_artwork names it.
StoreCoverRow ==
    /\ step = "coverRow"
    /\ art' = [art EXCEPT ![at] = "path"]
    /\ NextRecord
    /\ UNCHANGED <<host, mal, record, file, stamp, tooSoon, counters>>

-----------------------------------------------------------------------------
(* Related works.                                                          *)

NeedsCover_never(r) == FALSE

\* _cache_record_artwork_nonfatal tries a cover no row speaks of.
NeedsCover(r) == Known(r) /\ art[r] = "none"

TryCover == IF NeedsCover(at) THEN Goto("cover") /\ UNCHANGED tries ELSE NextRecord

\* _backfill_related_artwork.
BackfillTurn ==
    /\ stage = "backfill" /\ step = "turn"
    /\ TryCover
    /\ UNCHANGED <<host, mal, stored, stamp, tooSoon, counters>>

\* verify_provider_work, if discovery asks for this work: a known one is not
\* requested again, however old its record is.
RelatedTurn ==
    /\ stage = "related" /\ step = "turn"
    /\ \/ NextRecord
       \/ Known(at) /\ TryCover
       \/ ~Known(at) /\ Goto("details") /\ UNCHANGED tries
    /\ UNCHANGED <<host, mal, stored, stamp, tooSoon, counters>>

-----------------------------------------------------------------------------
(* Around the scan.                                                        *)

\* A host learns something new of a record, at any time.
Change(r) ==
    /\ mal[r] < MaxVersion /\ mal' = [mal EXCEPT ![r] = @ + 1]
    /\ UNCHANGED <<place, host, stored, stamp, tooSoon, counters>>

\* metadata_refresh_interval has passed since the record was dated; nobody asks
\* for the age of a related work's record.
Expire(r) ==
    /\ stage = "idle" /\ record[r].fresh
    /\ record' = [record EXCEPT ![r].fresh = FALSE]
    /\ UNCHANGED <<place, host, mal, art, file, stamp, tooSoon, counters>>

\* The service is restarted with another metadata_provider.
SwitchHost ==
    /\ stage = "idle"
    /\ host' \in Hosts \ {host}
    /\ UNCHANGED <<place, mal, stored, stamp, tooSoon, counters>>

Crash ==
    /\ stage # "idle"
    /\ crashes < MaxCrashes /\ crashes' = crashes + 1
    /\ Idle
    /\ UNCHANGED <<host, mal, stored, stamp, tooSoon, faults>>

ScanStep ==
    \/ PrimaryTurn \/ Searched \/ DetailsNotModified \/ DetailsReceived
    \/ EpisodesReceived \/ Store \/ CoverReceived \/ StoreCoverRow
    \/ BackfillTurn \/ RelatedTurn
    \/ Retry \/ GiveUp \/ Escape

Next ==
    \/ BeginScan
    \/ ScanStep
    \/ \E r \in Records \ Gone : Change(r)
    \/ \E r \in Primaries : Expire(r)
    \/ SwitchHost
    \/ Crash

Spec == Init /\ [][Next]_vars
FairSpec == Spec /\ WF_vars(BeginScan) /\ WF_vars(ScanStep)

-----------------------------------------------------------------------------
(* Properties.                                                             *)

\* README: "validators obtained from one host" are not sent to the other. The
\* validators of a record are always those of the data stored with them, so
\* that a 304 never keeps older data.
ValidatorsDescribeData == \A r \in Records : record[r].tag = record[r].data

\* A record that is called fresh was brought up to the host's version of the
\* time its turn began, or a later one, whether it was fetched or confirmed.
RefreshMeansCurrent ==
    [][\A r \in Primaries :
          record'[r].fresh /\ ~record[r].fresh => record'[r].data >= floor]_vars

\* README: "at most one request per second". No two requests of a scan are
\* less than the interval apart, across titles, pages, covers and retries.
PoliteSpacing == ~tooSoon

\* A row never names a cover that is not there, however the download ends.
CoverRowsAreBacked == \A r \in Records : art[r] = "path" => file[r]

\* The cover of a related work is tried in the end, although the scan that
\* stored the work died or failed before it got that far.
RelatedCoversAreTried == \A r \in Related : Known(r) ~> art[r] # "none"

\* Errors are isolated: a stale title is refreshed in the end, whatever the
\* titles before it do.
RecordsCatchUp == \A r \in Primaries \ Gone : Known(r) ~> record[r].fresh

\* Retries, pages and records come to an end: every scan does.
EveryScanEnds == stage # "idle" ~> stage = "idle"

=============================================================================
