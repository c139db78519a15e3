# RPiStreamer, specified

RPiStreamer (`src/`) is a Python service for a Raspberry Pi. It scans a media
collection that somebody else owns, keeps a catalogue of it in SQLite, enriches
the catalogue from metadata providers (and, optionally, a language model), and
generates a static web site that nginx serves. This directory holds TLA+ models
of the parts whose correctness depends on order, interleaving or failure, the
TLC configurations that check them, and TLAPS proofs.

All paths below such as `service.py` are under `src/src/rpi_streamer/`.

## 1. Inventory

| Component | State it keeps | Operations | Interacts with | What is hard | What makes it correct |
|---|---|---|---|---|---|
| Scheduled service (`service.py`) | two request flags, a `threading.Event`, `next_scan`, `status.json` | `run`, `request_scan`, `request_stop` | signals, the lock, `run_once` | handlers interrupt the loop anywhere, lost wake-ups | requests are answered once, a stop ends it, scans recur |
| Instance lock and cycles (`service.py`, `cli.py`) | `flock` on `indexer.lock` | enter, leave, `run_once` | catalogue, generator | several processes, crashes between stages | one writer; a failed cycle leaves the published site |
| Site generator (`generator.py`) | staging directory, `site`, `site.previous` | `_render`, `_validate`, `_publish` | reads the catalogue | non-atomic swap, failing rename and rollback | the site is whole, newest, and never lost to a failure |
| Catalogue scan (`scanner.py`, `database.py`) | `library_entries`, `media_files`, `scan_runs` | `discover`, reconciling transaction, `finish_scan` | the file system, edited at any time | renames, inode reuse, hard links, unreadable directories, wall clock | a successful scan mirrors the collection; identity survives renames; a partial scan hides nothing |
| Work mapping lifecycle (`scanner.py`, `metadata.py`, `database.py`) | `library_entry_works`, `media_work_mappings` | enrichment, manual, candidate, deterministic and model stages | sidecar, providers, candidate discovery | precedence of sources, stale rows, one transaction per step, crashes | a correction by the owner wins and sticks |
| Candidate discovery (`candidates.py`) | a queue and a `visited` set, `library_entry_works` rows | `discover_related_candidates` | metadata provider | cycles, limits, partial provider failure | bounded, shortest distances, incomplete answers delete nothing |
| Episode mapping (`mapping.py`) | the deterministic rows | `map_entry_deterministically`, `_decide` | works and files of a title | abstains on ambiguity; several numbering schemes | never a guess |
| Model inference (`mapping.py`, `metadata.py`, `inference.py`) | `inference_cache`, the calls made in this scan, the model's mappings | the names job (`_infer_entry`) and the mapping job (`map_entry_with_model`) | language model | a budget shared by both jobs and all titles, a cache by digest, cooldown, lifetime | paid at most once per exact input, within the budget; everybody is served in the end |
| Metadata (`metadata.py`) | provider records with validators, throttle clock | `enrich_catalogue`, `verify_provider_work`, `_request` | HTTP providers, candidate discovery | retries, pauses, conditional requests, a host that is exchanged | a record is what its host had; a failure keeps the last one and holds up no other title |
| Artwork (`metadata.py`) | image files and rows | `_cache_artwork`, `_backfill_related_artwork` | providers, file system | file and row are two writes | a row names a file that exists |
| Storage (`database.py`) | one SQLite file | transactions, migrations | everything | - | each transaction is atomic (SQLite) |
| Health check (`cli.py`, `service.py`) | `status.json` | `_write_status`, `_healthcheck` | the service's loop, process ids | failed writes, a file that outlives its writer, pid reuse | healthy only if that service runs and its site is there |
| Sidecars (`sidecar.py`), configuration (`config.py`), nginx (`nginx.py`), templates, installer | none | parsing, rendering | - | - | validation only; no behaviour to model |

How a cycle runs: the service (or the `scan` command) takes the lock, `run_once`
calls `scan_library` (discover, one reconciling transaction, then enrichment, manual
mappings, candidates, deterministic and model mappings, each over all titles and
in transactions of their own, then
`finish_scan`) and, only if that returned, `generate_site`. The mapping commands
take the same lock and edit the catalogue. Nothing else writes.

## 2. Plan

In order of importance; each line names the module, what it composes or
refines, and its state.

1. `Service` refines `ScanScheduler`: signals, loop, event. *Done, proved but for
   liveness.*
2. `SitePublication` refines `PublishedSite`: processes, lock, cycles, swap,
   crashes. *Done, proved.*
3. `Catalogue`: scans against an owner who edits. *Done, proved but for liveness.*
   Its two loops are recursive functions, which a proof can unfold.
4. `CandidateWorks`: discovery over a graph of provider records. *Done, proved but
   for liveness.*
5. `WorkMapping`: the life of one collection's works and mappings, with discovery
   reduced to its result. *Done, proved but for liveness.*
6. `EpisodeMapping`: the deterministic decisions. *Done, proved.*
7. `Inference` refines `PaidAnswers`: the two jobs that pay for calls, their cache,
   budget and cooldown. *Done, proved but for liveness.*
8. `Enrichment`: provider requests, records and covers. *Done, proved but for
   liveness.*
9. `Health` extends `SitePublication` with `status.json` and process ids. *Done,
   proved* on top of the proofs of `SitePublication`.

Left to model: the storage layer below `Catalogue` (transactions are atomic in every
module), and the evidence other than relations that starts a discovery. Left to
prove: nothing the runs check but liveness.

## 3. The modules

### `Service`, `ScanScheduler`: the resident loop

`Service` is one `serve` process. The main thread is `Service.run`, one step per
point at which CPython may run a signal handler: `pc` is the position, the stack
`handlers` holds the handlers that interrupt it (and one another), `event` and
`condHeld` are the flag and the lock of the `threading.Event`. `InstallHandlers`,
`EnterLock`, `WriteStarting`, `CheckStop`, `ClearAcquire`/`ClearFlag`
(`event.clear()`), `SampleClock`, `Decide`, `BeginScan`, `AnnounceScan`, `RunScan`,
`ReportScan`, `Reschedule`, `WaitAcquire`/`WaitTest`/`WakeUp`/`WaitReturn`
(`event.wait(timeout)`), `WriteStopped` and `Leave` are its lines in order. Time
is the Boolean `due`: the clock has reached `next_scan`. `periodic` says whether
there is a scan interval at all. `owed` and `lateScans` are history.
`SignalInsideEvent = TRUE` is what CPython does: a handler may run while the thread
it interrupts holds the event's lock, and then `event.set()` never returns. The
liveness properties say what happens unless that happens (`HandlerStuck`), so that
the run checks them with signals anywhere, and section 6 names the deadlock.

`ScanScheduler` is what a user is promised: scans, requests, a stop.

### `SitePublication`, `PublishedSite`: from the catalogue to the site

Processes are `serve` (many cycles under one lock), `scan` (one) and mapping
commands. A tree on disk is the pair of catalogue versions its index and its
title pages were rendered from, because `_render` reads the catalogue more than
once. `RenderIndex`, `RenderTitles`, `Validate`, `DropPrevious`, `MoveOut`, `MoveIn`,
`Rollback` and `Cleanup` are `generate_site`; each may raise (`Fault`) and the process
may be killed between any two (`Crash`). `published` is the newest generation
ever put in place; `exposed` says that a crash, or a failing rollback, left a swap
half done.

`PublishedSite` is the promise: generations only get newer, and only an exposed
one can be lost.

### `Health`: what `status.json` says

`Health` superposes `status.json` on `SitePublication`: each action is one of that
module's together with what it does to the file or to what the service's loop does
next (`todo`), or it touches the file only. `Report` is `_write_status` before the
loop and at the end of `_perform_scan`, `Announce` the one before a cycle, `Stop` the
last; each may fail (`WriteFails`), which leaves the old file and ends the service.
One-shot commands never write it. `pidOf` is the process id of a running service,
`stranger` an unrelated process; `recycled` remembers that the id in the file was
given to another process. `Healthy` is `_healthcheck`.

### `Catalogue`: scans of a changing collection

`tree` is the collection, path to inode, edited by its owner at any time
(`AddFile`, `RemoveFile`, `RenameFile`, `RenameFolder`). `VisitFolder` is one round of
`os.walk`; `Reconcile` is the transaction that updates `library_entries` and
`media_files`, title by title (`Titles`) and file by file, in the scanner's order, with
the UNIQUE constraints that can abort it, and hides at its end what was not seen
(`Hidden`); `FinishScan`, `FailScan` and `Crash` end a scan. Wall-clock timestamps are
kept relative to the running scan: before it, at it, or after it when the clock was
set back (`Redate`). A folder counts as renamed (`RenamedFolder`) when its files are
those of one entry, the old folder is empty, and no other file is at an old path.

### `CandidateWorks`: discovery of related works

One run of `discover_related_candidates` per pass of `pc` from `idle` through `next`,
`expand` and back: `NextSource` takes a work from the queue, the `Target` steps look at
one relation each, in the order of their ids (`pending` are those left; `SkipVisited`,
`VerifyTarget`, `VisitTarget`, `MissTarget`), `Finish` removes what was not found again. `relations` are the cached ones, refreshed
between runs; `works` are the collection's associations with their distances. The
loop's working variables form the tuple `walk`. `exact` is history: the
last discovery was complete and nothing has changed since.

### `WorkMapping`: works and mappings over many scans

`works` is `library_entry_works` and `mapping` is `media_work_mappings` of one
collection; `pc` goes through the stages of `scan_library` after reconciliation:
`Enrich` (metadata.py), `Verify`, `Associate`, `MapFiles`, `CleanMappings`, `CleanWorks`
(the manual stage, one step per transaction or per loop that a crash can cut
short), `Relate` (`CandidateWorks` reduced to its outcome), `Determine`,
`CleanDetermined` and `AskModel`. A sidecar is what it decides: its ids, its pin, the
names of its works and, per file, the works that its rules want. `rules` is what
the running scan has read, `sidecar` what the file says now. A name that is taken is
what SQLite makes of it: it ends `Associate` and the scan, or undoes `Enrich`.
Sections called like the names the program makes up (`relation-5`, `manual-5`) are
left out; they would make discovery fail in the same way.
`settled` is history: a scan has applied the sidecar as it is, in full.

### `EpisodeMapping`: the deterministic decisions

`Facts` is what `parse_local_media_facts` got from each name. `Numbering` chooses
between seasons, a continuous numbering and a single work as `_decide_episodes`
does; `Reset`, `Cumulative`, `Single` and `Special` are the four functions of that name.
`Map` is one pass: all decisions first, then a transaction per row, then the stale
rows. `Storable` is the CHECK of the table. Between passes files come and go (a renamed
file counts as another one; in the code its row goes with it until the next pass),
counts change, and so does the order of the works. `_ordered_works` sorts by
primary, distance, display order and id; the model does not compute that order but
lets a new work in at any place (`AddWork`), takes any one out (`DropWork`) and puts
them into any other order (`MoveWorks`): a work found later may be closer, another one
may become the primary, a sidecar may name a work (which then has no distance) or give
it another order. A row names a work, not a place, so it follows its work (`Follow`, `Arrange`). Of
`stable`, a history variable, the works 1 to `stable` have had the same places and
counts since the last complete pass. A pass may be broken off after any row.

### `Enrichment`: records, covers and the requests for them

One scan's `enrich_catalogue` (the titles, then the covers of related works that
lack one) and the `verify_provider_work` calls of discovery, one request attempt per
step. `stage` and `at` say whose turn it is, `step` which request is made for it
(`search`, `details`, `episodes`, page by page, `cover`) or which write is done
(`store`, `coverRow`). Every `Attempt` passes `Throttle`; it is answered, repeated
(`Retry`), given up (`GiveUp`, caught by whoever asked) or not caught by anybody
(`Escape`). What a host knows of a record is a version number (`mal`); `record` holds
the version of the stored data, the version its validators are of, the host they
came from and whether the refresh interval has passed. A 304 is possible exactly
when the validator sent is the host's current version. `art` is the `artwork` row and
`file` the file, two writes. `Gone` is a title whose requests always fail and that
is first in every scan. `stamp` is how much later the last request was sent than
`_last_request_at` says, and `tooSoon` remembers that two came too close.

### `Inference`, `PaidAnswers`: what is asked of the model

A question is a title's names, `<<t, 0>>`, or one batch of at most 50 of its files,
`<<t, b>>`. `job`, `at`, `step` and `batch` are the position of the scan: the names job
runs inside `enrich_catalogue` (`NamesTurn`, the `Consult` actions once for a better
name and once for the episode hints, `Details`), the mapping job after it
(`MappingTurn`, the `Batch` actions, `Apply`). `Ask` is the request: budget and size are
looked at, the call is counted, then it is sent. A row of `inference_cache` is found
by a digest of the whole input; a changed input therefore means that the question
has no row (`ChangeInput`, and `Details`, because the digest contains the date of the
record). `PassMinutes` ends cooldowns and `PassDay` ages answers, between scans, because
a scan takes its time from one clock reading. `rows` are the mappings an answer
became. `answer` is what a request brought and is not yet stored; `Crash` loses it.
Titles for which both jobs are switched off in a sidecar are left out: they make
no request and change no row.

`PaidAnswers` is the promise: a question is bought at most once per scan, within
the budget, and never while its answer is held.

## 4. Runs

| Run | Checks | Bounds |
|---|---|---|
| `service` | no lost wake-up, refinement of `ScanScheduler`; requests are served, stops honoured with a scan interval, scans recur | 3 signals, nested 3 deep, anywhere |
| `service_lost_stop` | **violated**: a stop is always honoured | scan interval 0 |
| `publication` | wholeness, retention, refinement of `PublishedSite`, recovery; the health check is truthful and recovers | 1 service, 1 scan, 1 command, 2 versions, 2 faults, 2 crashes, 2 process ids |
| `catalogue_scans` | mirror, identity, no hiding on partial scans, catching up | 2 folders, 2 names, 2 inodes, 4 edits, 1 fault |
| `catalogue_reused_path` | **violated**: the catalogue always catches up | as above |
| `candidate_discovery` | shortest distances, nearest first, limits, nothing lost in an outage, idempotence | 5 records, 512 graphs, limits (2, 4) and (3, 5), 1 change, 1 fault |
| `mapping_lifecycle` | precedence, nothing lost in an outage, corrections applied | 3 records, 2 files, 7 sidecars, 2 changes, 2 faults |
| `mapping_wrong_match` | **violated**: a corrected match is gone | 2 sidecars, 1 change |
| `episode_decisions` | counts, overlaps, completeness, stability of decisions | 8 names in any combination, 2 works in any order, counts 0 to 2 or unknown, 1 change between passes |
| `episode_bad_range` | **violated**: no pass fails | 2 names, 1 work |
| `inference` | nothing bought is lost or bought again, one mapping call per title, refinement of `PaidAnswers`, everybody is served | 2 titles, 3 batches, 2 calls per scan, 2 days, 2 changes, 1 fault, 1 crash |
| `enrichment` | spacing of requests, what a refresh means, covers are backed, titles do not hold up one another, scans end | 2 titles, 1 related work, 2 hosts, 2 attempts, 2 pages, 2 versions, 2 faults, 1 crash |

Why the bounds are enough: a lost wake-up needs one signal, a second one covers
a request that races it, a third nests; a swap goes wrong with one crash and one
failure in the next cycle, or with a failing move and a failing rollback; a
path conflict needs two files, a rename of a title two folders, a split two
files of one folder. A detour needs three records, a cycle through one two more,
and with five each of the two limits is at times the one that stops the
traversal. A mapping goes wrong between two sidecars (two changes: there and
back, or an edit and an expiry), and two faults are an outage in one scan and a
crash in the next. One change between complete passes is enough for
`EpisodeMapping` because any number of passes may follow one another; of the names
each stands for a branch of the code (a number twice, a gap, a range across a
boundary, a first and a later season, a zero, no number, a special), and with two works
one can come before, after or instead of the other. In `Inference`
two calls are one less than a scan of both titles wants, so that each scan leaves
somebody out; an answer lives for one day and there are two; two changes are an
answer invalidated or outdated and one more while its successor is bought; a
title too large to ask stands for any that never costs a call. In `Enrichment` a
second version is what makes a validator wrong, a second host what makes it
meaningless, and with an interval of one tick the last request was long enough
ago, or not.

What section 5 lists as proved for all values of the constants is not in the
configurations again unless a run says what it means on an instance: the
type invariants of the proved modules, `LockExcludes`, `ServedIsLatest`,
`AtMostOneScanAfterStop`, `ScansHaveACause`, `OnlyRequestedStops` and
`ValidatorsDescribeData`.

Fairness. `Service`: the process is scheduled, handlers run, time passes, and a
scan ends (its network calls have timeouts and bounded attempts).
`SitePublication`: a running process goes on and a command ends; a service is
started again by its unit's restart policy, and the lock is not held by a
command at each of its attempts (strong fairness of `EnterLock`), nor is it always
stopped before its first scan (strong fairness of `BeginScan`). `Catalogue`: steps of
a scan keep happening, which `ScansRecur` of `Service` justifies. `CandidateWorks` and
`WorkMapping`: the service goes on scanning, and a scan goes on to its end; in
`WorkMapping` this is said as `WF_pc(NextStage)`, that the position keeps changing.
`Inference`: scans recur and end, and some begin after a cooldown has passed (strong
fairness of `PassMinutes`: the cooldown is five minutes and scans come once per
interval for good). `Enrichment`: scans recur, and a scan's steps happen (every
request has a time-out). `Health` states `SitePublication`'s fairness for its own
actions. Faults and changes are bounded, so the liveness properties say what happens once
the provider answers and the owner is content.

## 5. Proofs

`ServiceProofs` proves, for any numbers of signals and nesting, type correctness,
`NeverSleepsOnARequest`, `AtMostOneScanAfterStop`, `ScansHaveACause`,
`OnlyRequestedStops` and the refinement of `ScanScheduler`. The inductive invariant
relates the position of the main thread, the handlers on the stack and the
flags: a request that is owed is still in `scan_requested`, or a scan that will
see it is about to begin; and where the thread blocks, either the event is set or
a handler that will set it is still running.

`SitePublicationProofs` proves, for any processes, versions, faults and crashes,
type correctness, `LockExcludes`, `SiteIsWhole`, `ServedIsLatest`, `RetainsGoodSite`,
`SiteIntact` and the refinement of `PublishedSite`. The invariant says who is past
the lock, that what the holder has rendered is of the catalogue's current
version (only a holder commits), and what each of `site`, `site.previous` and
the staging directory can be at each step of the swap.

`Health` is proved about in the same module, on that invariant: every step of `Health` is
one of `SitePublication`'s or leaves its variables alone, so the invariant carries over
to the composition, and what is added says which phase each live service has
written, or what it still has to write where it is. From both follows
`HealthIsTruthful`, for any number of services, reused process ids excepted as in
the code.

`CatalogueProofs` proves, for any collection and any edits, faults and crashes, type
correctness, `SuccessMirrorsTree`, `PartialScansHideNothing` and `RenamesKeepIdentity`. The
invariant (`CatInv`): the tables hold one row for a folder, a path and an identity; no
row is marked as seen before the transaction that marks it; what a walk that nobody
disturbed has found is what is there; and from the commit on the catalogue lists
what is there, until something is touched. Most of the proof is about the
transaction, one long computation without a state in between: `Follow` says what
must be true of the tables after each title and after each file of a title (which
rows have found their file, and which rows of others are as they were), one lemma
per branch of the reconciliation of a file keeps it, and it is carried through the
two recursive functions. Their equations are themselves proved: TLA+ defines a
recursive function as a choice among those that satisfy its equation, so that a
lemma has to show that there is one, built value by value; and what holds for 0
and from each number to the next holds for all, because there would be a least
number it does not hold for (`UpToN`).

The proof corrected a property. `EntriesFollowFolders` used to say that a renamed folder
keeps its entry if its files are the old ones; with three folders, two names and
three inodes, beyond the run's bounds, that is false: another title's new file at
one of the old paths is reconciled first, and takes the row over. `RenamedFolder`
therefore asks that nothing else be found at the old paths.

`InferenceProofs` proves type correctness (with it the budget), `BoughtIsHeld`,
`OneMappingCallPerTitle` and the refinement of `PaidAnswers`, for any titles, batches,
calls and days. None of them is inductive alone. The invariant adds that what a
job is about to buy is not in the cache (it looked there in the step before, and
nobody else writes meanwhile), that the names job asks for a title once in a
scan, and that the batches of a title are asked in order; the refinement then has
to show that each purchase is of a question not yet paid for in this scan.

`EnrichmentProofs` proves type correctness, `PoliteSpacing`, `ValidatorsDescribeData`,
`CoverRowsAreBacked` and `RefreshMeansCurrent`. The invariant adds that the time the
throttle remembers is that of the last request, and that what a turn has received,
and not yet stored, is no older than the turn: hosts change between any two of
its requests.

`CandidateWorksProofs` proves, for every graph and all limits, the types of a
discovery (no work without a record, none too deep), `DistancesAreShortest`,
`NearestWorksFirst`, `CompleteDiscoveryIsBounded` and `OutagesForgetNothing`. The invariant
says of a traversal under way that the base works are among those visited, that a
relation work is kept only while no more are visited than the limit allows, and
that every record visited is cached unless an answer was missed. As long as none
was, the walk is breadth-first: every work kept has the level it first appears at
as its distance, and everything nearer was visited before it (`Found`); the queue is
sorted and spans two levels at most (`Queueing`); and each record that was reached is
at the last level, in the queue, expanded, or the one being expanded, or the limit
is reached (`Expanded`). At the end the queue is empty, and the levels are visited one
after the other; or the limit is reached, and what is missing is no nearer than
anything that was kept. The next relation to look at is the least of a set of
numbers, and that there is one is the well-foundedness of the naturals.

`WorkMappingProofs` proves, for any records, files, sidecars, edits and faults, type
correctness (one primary work, different names, no mapping to a work that is gone),
`OwnerDecides`, `EvidenceBeatsModel` and `OutagesKeepMappings`. The invariant follows a
scan: each id of the sidecar is cached, pending or still to be looked up; each
verified one is a manual work, or still to become one; from the stage that maps
the files on, the rules decide what is manual, unless something is pending or
conflicts, and after it the counts decide the rest; no manual mapping is to a work
that discovery may remove; and a sidecar that was applied is the one the next scan
reads, or is no longer called applied. The sets of records need not be finite.

`EpisodeMappingProofs` proves, for any files, works and counts, that rows name works that
are there and satisfy the table's constraints, after passes that broke off too;
that once a pass is complete the rows are what any further pass would decide
(`RowsAreCurrent`); `CountsAreEnforced`, `OverlapsAreNamed`, `SplitsAreComplete` and
`DecisionsDoNotFlip`. The counts and the stability of the decisions have to hold
between the rows of different, broken passes, while works are put in, taken out and
moved. The counts are an invariant of their own: a decision is within its work when it
is written (`DecisionsFit`), and `WorksRearranged` says of the three actions what the
proof needs, that a row goes with its work. Stability holds only as far as the order
does. For it the invariant says what a row is anchored to (`Anchored`): if its work is
among the first `stable` ones, its episode is either the file's own number, in the
work its season is, or that number with the episodes of the works before it counted
off, all their counts being known. Neither form depends on which other files there
are or which works follow, so that a later pass can take such a row away but not move
it to another episode. What `OverlapsAreNamed` and `SplitsAreComplete` say follows from
the last complete pass: the running sum of the counts (`Last`, a recursive function
whose equations are proved as in `Catalogue`) only grows, two files of one work are
shifted by the same sum, and their first numbers differ. Nothing is proved of an order
that changes before a row's work: such a row may become another episode, see section 6.

Only model-checked: liveness (`RequestIsServed`, `PeriodicStopIsHonoured`, `ScansRecur`,
`HealthComesBack`, `ScansCatchUpOrConflict`, `DiscoverySettles`, `CorrectionsTakeEffect`,
`EveryQuestionIsServed`, `RelatedCoversAreTried`, `RecordsCatchUp`, `EveryScanEnds`), because
the prover does neither fairness nor ENABLED. Every invariant, every action property
and every refinement that a run checks is proved.

## 6. Disagreements found

1. A stop between the loop condition and `event.clear()` is forgotten when there is
   no scan interval (`service_lost_stop`).
2. Renaming one known file over another makes all later scans fail
   (`catalogue_reused_path`).
3. A wrong match that the owner corrects with `mal_id` before its record expires
   stays as a secondary work named "primary", and the refreshes of the right
   record fail from then on (`mapping_wrong_match`).
4. A name like `S01E04 - 2 Fast` or `S01E00` gives a row the table rejects; the scan
   fails, and so does every later one (`episode_bad_range`).

More are in the models without a run of their own:

- `_publish` deletes `site.previous` before it moves anything: after a crash between its
  two renames that was the only good copy, and if the next cycle fails there, no
  generation is left (`DropPrevious`; `exposed` in `RetainsGoodSite`). ADR 0007:15 says
  that a failed publication keeps the previous generation.
- A signal handled while the main thread is inside a method of the event
  deadlocks the process (`SignalInsideEvent = TRUE` with `FairSpec`).
- A folder split in two keeps one title for both halves (`Catalogue`).
- An incomplete discovery keeps the relation works of before and does not count
  them, so that a collection can exceed its 12 works (`MissTarget`, `Finish`).
- A sidecar that swaps the names of two works, or calls a related work "primary",
  makes `associate_library_entry_work` fail and every later scan with it (`NameTaken`
  in `CorrectionsTakeEffect`).
- Without a model, the model mapping of a file that was moved from another
  collection stays for good (`Foreign` is allowed by `EvidenceBeatsModel`).
- With a later season in the folder, `S00E01` becomes episode 1 of season 1, and two
  files of one number are both mapped (`Season`, and `~LaterSeason` in
  `OverlapsAreNamed`); README.md:336 speaks of unmarked files only.
- Only the first numbers of names are compared (`Duplicate`). Of the files 1, 2-3 and 3
  with works of one and two episodes, 2-3 becomes episodes 1 to 2 and 3 becomes
  episode 2 of the second work, so that an episode is there twice; so it is with 2-3
  and 3 for a single work. README.md:339-341 says that duplicate layouts stay
  ambiguous or unmapped. `OverlapsAreNamed` claims no more than that names which do not
  overlap give rows which do not.
- Season n is the n-th work in the order of `_ordered_works`, whatever its relation, side
  stories included; README.md:335 speaks of the verified sequel order. A work found
  later, a shorter distance or another primary can get in before a work (P, A becomes
  P, C, A), and the next pass turns S02E01 from an episode of A into one of C although
  no count has changed. `DecisionsDoNotFlip` is limited to works whose places, and those
  of the works before them, are stable.
- `enrich_catalogue` dates a record anew at every refresh, 304 included, and the digests
  of a title's mapping questions contain that date: an answer is bought again after
  the 30 days of a refresh, not after the 90 of README.md:188 (`Details`).
- An answer of the names job that is in use never expires, because every use
  stores it again (`ConsultHit`), and its failures have no cooldown
  (`ConsultAnswered`), although README.md:189-191 speaks of one.
- A spent budget is recorded like a transient failure and starts a cooldown
  (`BatchRefused`). `invalidate-model` removes the cache rows that mappings name, so
  that an abstention stays cached until its lifetime ends (`Named`).
- The record of a related work is never requested again (`RelatedTurn`), although
  README.md:103 lets every record be refreshed.
- A cover whose first download failed is not tried again until the title's details
  change (`TryCover` needs no row, `DetailsNotModified` does not get there); and a
  download that fails after new details replaces a good row (`GiveUp`).
- A 304 for the details keeps the episodes as they were (`DetailsNotModified`).
- `http.client.HTTPException` and the `OverflowError` of `Retry-After: inf` pass through
  every handler (`Escape`); README.md:127-128 promises that errors are isolated.
- The pause between requests is kept within one scan: each scan makes a new
  provider object, so the first request of a scan may follow the last one of the
  scan before at once (`BeginScan`).
- `healthcheck` calls a dead service healthy when another process has its id
  (`recycled`).

## 7. Not modelled

Configuration, sidecar parsing, nginx, templates, browser code and the installer
compute a value from a file and keep no state; only what a sidecar decides is in
`WorkMapping`. The migrations of the database run once, each in a transaction. The
text heuristics that split file names are the sets of facts `EpisodeMapping`
ranges over. The request bodies and the validation of the model's JSON are reduced
to an answer that is sure, unsure or an error.
