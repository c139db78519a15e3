------------------------------ MODULE WorkMapping ------------------------------
(***************************************************************************)
(* Which work each file of one collection is mapped to, over many scans:   *)
(* the enrichment, manual, candidate, deterministic and model stages of    *)
(* scan_library (scanner.py, metadata.py, mapping.py) and the mapping      *)
(* commands, on the tables library_entry_works and media_work_mappings.    *)
(*                                                                         *)
(* The owner's sidecar may be edited at any time; a scan works with what   *)
(* it has read.  Every stage commits several transactions, so a crash      *)
(* leaves a prefix of its effects.                                         *)
(***************************************************************************)
EXTENDS Naturals, Sequences, Functions

CONSTANTS
    Records,      \* provider records
    NoRecord,
    NFiles,       \* the files of the collection are 1..NFiles, in scan order
    Sidecars,     \* what the owner may write
    AutoMatch,    \* the record a search for the title finds, or NoRecord
    Relatives,    \* the records discovery finds, whatever the primary work
    Fits,         \* the records each file's name and number could belong to
    MaxChanges,   \* bound: sidecar edits, expiries, files moved in
    MaxFaults     \* bound: failed requests, failed scans and crashes

Files == 1..NFiles

\* The name of a work in library_entry_works: a section's name, or one made up.
\* Sections called as if their names were made up are left out.
SectionNames == {<<"primary">>, <<"one">>, <<"two">>}
Names == SectionNames \cup {<<k, r>> : k \in {"manual", "relation"}, r \in Records}
NoName == <<>>

\* A sidecar, as far as it says which works there are and what they own.
\* wants: the records the exact override or the work rules of a file name; two
\* if two rules match, or if a rule names an episode its record does not have.
Sidecar == [valid : BOOLEAN, pin : Records \cup {NoRecord}, ids : Seq(Records),
            name : [Records -> SectionNames \cup {NoName}], wants : [Files -> SUBSET Records]]

ASSUME NoRecordAssumption == NoRecord \notin Records
ASSUME SidecarsAssumption ==
    /\ \A s \in Sidecars : s \in Sidecar
    /\ \A s \in Sidecars : \A f \in Files : s.wants[f] \subseteq Range(s.ids)
ASSUME MatchAssumption ==
    /\ AutoMatch \in Records \cup {NoRecord} /\ Relatives \subseteq Records
    /\ NFiles \in Nat /\ Fits \in [Files -> SUBSET Records]
ASSUME BoundsAssumption == MaxChanges \in Nat /\ MaxFaults \in Nat

VARIABLES
    sidecar,    \* the file, and
    rules,      \* what the running scan has read of it
    pin,        \* library_entries.pinned_provider_id, of the last valid sidecar
    cached,     \* records in provider_records
    fresh,      \* those that have not expired
    works,      \* library_entry_works of the collection, by record
    mapping,    \* media_work_mappings, by file
    inference,  \* a model is configured
    pc, todo,   \* the stage of the scan, and the ids it has still to look at
    pending,    \* an id could not be verified
    conflict,   \* two rules match a file
    settled,    \* history: the last scan applied the sidecar as it is, in full
    changes, faults

collection == <<works, mapping>>
records == <<cached, fresh>>
scan == <<rules, pc, todo, pending, conflict>>
bounds == <<changes, faults>>
vars == <<sidecar, pin, inference, records, collection, scan, settled, bounds>>

NoWork == [source |-> "none", primary |-> FALSE, name |-> NoName]
Work == [source : {"matched", "manual", "relation"}, primary : BOOLEAN, name : Names]

\* A file that came from another collection may be mapped to a work of that one.
Foreign == <<"another", "collection">>
Sources == {"manual", "deterministic", "model"}
NoMapping == [work |-> <<>>, source |-> "none"]
To(r, source) == [work |-> <<r>>, source |-> source]

\* What media_work_mappings can say of a file when the works of R are there.
Mappings(R) == {NoMapping} \cup [work : {<<r>> : r \in R} \cup {Foreign}, source : Sources]

Present == {r \in Records : works[r] # NoWork}
Primaries == {r \in Records : works[r].primary}

UniqueNames(w) ==
    \A r, s \in Records : r # s /\ w[r] # NoWork /\ w[s] # NoWork => w[r].name # w[s].name

TypeOK ==
    /\ sidecar \in Sidecars /\ rules \in Sidecars
    /\ pin \in Records \cup {NoRecord}
    /\ fresh \subseteq cached /\ cached \subseteq Records
    /\ works \in [Records -> Work \cup {NoWork}]
    /\ Present \subseteq cached /\ UniqueNames(works)
    /\ \A r, s \in Primaries : r = s
    /\ mapping \in [Files -> Mappings(Present)]
    /\ inference \in BOOLEAN
    /\ pc \in {"idle", "enrich", "verify", "associate", "map", "cleanMappings", "cleanWorks",
               "relate", "determine", "cleanDetermined", "model"}
    /\ todo \in Seq(Records)
    /\ pending \in BOOLEAN /\ conflict \in BOOLEAN /\ settled \in BOOLEAN
    /\ changes \in 0..MaxChanges /\ faults \in 0..MaxFaults

Init ==
    /\ sidecar \in Sidecars /\ rules = sidecar
    /\ pin = NoRecord
    /\ cached = {} /\ fresh = {}
    /\ works = [r \in Records |-> NoWork]
    /\ mapping = [f \in Files |-> NoMapping]
    /\ inference \in BOOLEAN
    /\ pc = "idle" /\ todo = <<>> /\ pending = FALSE /\ conflict = FALSE
    /\ settled = FALSE
    /\ changes = 0 /\ faults = 0

-----------------------------------------------------------------------------
(* The world around the scans.                                             *)

Change == changes < MaxChanges /\ changes' = changes + 1 /\ settled' = FALSE /\ UNCHANGED faults

EditSidecar ==
    /\ Change
    /\ sidecar' \in Sidecars \ {sidecar}
    /\ UNCHANGED <<pin, inference, records, collection, scan>>

\* metadata_refresh_interval has passed.
Expire ==
    /\ Change /\ pc = "idle"
    /\ fresh # {} /\ fresh' = {}
    /\ UNCHANGED <<sidecar, pin, inference, cached, collection, scan>>

\* Reconciliation moves a file here from another collection, with its mapping
\* (relocate_media_file; see Catalogue).
MoveIn ==
    /\ Change /\ pc = "idle"
    /\ \E f \in Files, s \in Sources :
         mapping' = [mapping EXCEPT ![f] = [work |-> Foreign, source |-> s]]
    /\ UNCHANGED <<sidecar, pin, inference, records, works, scan>>

Fault == faults < MaxFaults /\ faults' = faults + 1 /\ UNCHANGED changes

\* The rows that go when works go: ON DELETE CASCADE.
Cascade(m, w) ==
    [f \in Files |-> IF \E r \in Records : m[f].work = <<r>> /\ w[r] = NoWork
                     THEN NoMapping ELSE m[f]]

\* The works in `gone` are deleted.
Without(gone) == [r \in Records |-> IF r \in gone THEN NoWork ELSE works[r]]

-----------------------------------------------------------------------------
(* The stages of a scan.                                                   *)

Single(R) == \E r \in R : R = {r}
Ambiguous(R) == R # {} /\ ~Single(R)

Stage(from, to) == pc = from /\ pc' = to

\* A stage over the files: all of them, or the first n and then a crash.
FileLoop(n, from, to) ==
    \/ n = NFiles /\ Stage(from, to) /\ UNCHANGED <<bounds, settled>>
    \/ n < NFiles /\ Stage(from, "idle") /\ Fault /\ settled' = FALSE

BeginScan ==
    /\ Stage("idle", "enrich")
    /\ rules' = sidecar
    /\ pin' = IF sidecar.valid THEN sidecar.pin ELSE pin
    /\ todo' = <<>> /\ pending' = FALSE /\ conflict' = FALSE
    /\ UNCHANGED <<sidecar, inference, records, collection, settled, bounds>>

\* _select_provider_id
Selected ==
    IF pin # NoRecord THEN {pin}
    ELSE IF Primaries # {} THEN Primaries
    ELSE {AutoMatch} \ {NoRecord}

\* upsert_provider_record: another primary work is deleted, and r made primary.
Enriched(r) ==
    [Without(Primaries \ {r}) EXCEPT
        ![r] = [source |-> IF pin = r THEN "manual" ELSE "matched", primary |-> TRUE,
                name |-> <<"primary">>]]

\* enrich_catalogue for this entry.  A primary record that has not expired is
\* left as it is, even if another one is pinned by now.  Names that are not
\* unique roll the transaction back, and are reported as a provider error is.
Enrich ==
    /\ Stage("enrich", IF rules.valid THEN "verify" ELSE "idle")
    /\ todo' = rules.ids
    /\ \/ /\ Primaries # {} => ~(Primaries \subseteq fresh)
          /\ \E r \in Selected :
               /\ UniqueNames(Enriched(r))
               /\ works' = Enriched(r) /\ mapping' = Cascade(mapping, works')
               /\ cached' = cached \cup {r} /\ fresh' = fresh \cup {r}
          /\ UNCHANGED bounds
       \/ /\ \/ Primaries # {} /\ Primaries \subseteq fresh
             \/ \A r \in Selected : ~UniqueNames(Enriched(r))
          /\ UNCHANGED <<records, collection, bounds>>
       \/ Fault /\ UNCHANGED <<records, collection>>
    /\ UNCHANGED <<sidecar, pin, inference, rules, pending, conflict, settled>>

\* _reconcile_manual_mappings: first every id of the sidecar is looked up.
Verify ==
    /\ pc = "verify" /\ todo # <<>>
    /\ todo' = Tail(todo)
    /\ \/ /\ cached' = cached \cup {Head(todo)}
          /\ fresh' = IF Head(todo) \in cached THEN fresh ELSE fresh \cup {Head(todo)}
          /\ UNCHANGED <<pending, bounds>>
       \/ /\ Head(todo) \notin cached
          /\ Fault /\ pending' = TRUE
          /\ UNCHANGED records
    /\ UNCHANGED <<sidecar, pin, inference, collection, rules, pc, conflict, settled>>

EndVerify ==
    /\ Stage("verify", "associate") /\ todo = <<>>
    /\ todo' = rules.ids
    /\ UNCHANGED <<sidecar, pin, inference, records, collection, rules, pending, conflict,
                   settled, bounds>>

Associated_keepsOldPrimary(r) ==
    [works EXCEPT ![r] =
        [source |-> "manual", primary |-> r = rules.pin \/ works[r].primary,
         name |-> IF rules.name[r] # NoName THEN rules.name[r]
                  ELSE IF works[r] # NoWork THEN works[r].name ELSE <<"manual", r>>]]

\* associate_library_entry_work: a new primary work demotes the old one.
Associated(r) ==
    LET old == works[r]
        primary == r = rules.pin \/ (rules.pin = NoRecord /\ old.primary)
        name == IF rules.name[r] # NoName THEN rules.name[r]
                ELSE IF old # NoWork THEN old.name ELSE <<"manual", r>>
        others == [s \in Records |-> IF primary /\ works[s].primary
                                     THEN [works[s] EXCEPT !.primary = FALSE] ELSE works[s]]
    IN [others EXCEPT ![r] = [source |-> "manual", primary |-> primary, name |-> name]]

Associate_insertsOnly ==
    /\ pc = "associate" /\ todo # <<>>
    /\ LET r == Head(todo)
           w == Associated(r)
           ok == works[r] = NoWork /\ UniqueNames(w)
       IN \/ /\ r \in cached /\ ok /\ works' = w
             /\ todo' = Tail(todo) /\ UNCHANGED <<pc, settled>>
          \/ /\ r \notin cached /\ todo' = Tail(todo)
             /\ UNCHANGED <<works, pc, settled>>
          \/ /\ r \in cached /\ ~ok /\ pc' = "idle" /\ settled' = FALSE
             /\ UNCHANGED <<works, todo>>
    /\ UNCHANGED <<sidecar, pin, inference, records, mapping, rules, pending, conflict, bounds>>

\* The works of the ids that are verified, one by one.  Names that are not
\* unique end the scan.
Associate ==
    /\ pc = "associate" /\ todo # <<>>
    /\ LET r == Head(todo)
           w == Associated(r)
       IN \/ /\ r \in cached /\ UniqueNames(w) /\ works' = w
             /\ todo' = Tail(todo) /\ UNCHANGED <<pc, settled>>
          \/ /\ r \notin cached /\ todo' = Tail(todo)
             /\ UNCHANGED <<works, pc, settled>>
          \/ /\ r \in cached /\ ~UniqueNames(w) /\ pc' = "idle" /\ settled' = FALSE
             /\ UNCHANGED <<works, todo>>
    /\ UNCHANGED <<sidecar, pin, inference, records, mapping, rules, pending, conflict, bounds>>

EndAssociate ==
    /\ Stage("associate", "map") /\ todo = <<>>
    /\ conflict' = \E f \in Files : Ambiguous(rules.wants[f])
    /\ UNCHANGED <<sidecar, pin, inference, records, collection, rules, todo, pending,
                   settled, bounds>>

\* The owner's rules decide for f, and its work is known.
Owned(f) == Single(rules.wants[f]) /\ rules.wants[f] \subseteq cached

MapFiles ==
    /\ \E n \in 0..NFiles :
         /\ FileLoop(n, "map", "cleanMappings")
         /\ mapping' = [f \in Files |-> IF f <= n /\ Owned(f)
                                       THEN To(CHOOSE r \in rules.wants[f] : TRUE, "manual")
                                       ELSE mapping[f]]
    /\ UNCHANGED <<sidecar, pin, inference, records, works, rules, todo, pending, conflict>>

CleanMappings_never ==
    /\ Stage("cleanMappings", "cleanWorks")
    /\ UNCHANGED <<sidecar, pin, inference, records, collection, rules, todo, pending, conflict,
                   settled, bounds>>

CleanMappings_ignoresConflicts ==
    /\ Stage("cleanMappings", "cleanWorks")
    /\ mapping' = [f \in Files |->
                     IF ~pending /\ mapping[f].source = "manual" /\ ~Owned(f)
                     THEN NoMapping ELSE mapping[f]]
    /\ UNCHANGED <<sidecar, pin, inference, records, works, rules, todo, pending, conflict,
                   settled, bounds>>

CleanMappings ==
    /\ Stage("cleanMappings", "cleanWorks")
    /\ mapping' = [f \in Files |->
                     IF ~pending /\ ~conflict /\ mapping[f].source = "manual" /\ ~Owned(f)
                     THEN NoMapping ELSE mapping[f]]
    /\ UNCHANGED <<sidecar, pin, inference, records, works, rules, todo, pending, conflict,
                   settled, bounds>>

CleanWorks ==
    /\ Stage("cleanWorks", "relate")
    /\ works' = IF pending \/ conflict THEN works
                ELSE Without({r \in Records : /\ works[r].source = "manual"
                                               /\ ~works[r].primary
                                               /\ r \notin Range(rules.ids)})
    /\ mapping' = Cascade(mapping, works')
    /\ UNCHANGED <<sidecar, pin, inference, records, rules, todo, pending, conflict,
                   settled, bounds>>

\* discover_related_candidates, as CandidateWorks has it: the relatives found
\* become works unless they are already, and if all were found the others go.
Related(found) ==
    LET known == {r \in Records : works[r].source \in {"matched", "manual"}}
        stale == {r \in Records : works[r].source = "relation"} \ Relatives
    IN [r \in Records |->
          IF r \in found \ known
          THEN [source |-> "relation", primary |-> FALSE, name |-> <<"relation", r>>]
          ELSE IF found = Relatives /\ r \in stale THEN NoWork ELSE works[r]]

Discover ==
    IF Primaries = {} THEN UNCHANGED <<records, collection, faults>>
    ELSE \E found \in SUBSET Relatives :
           /\ Relatives \ found \subseteq Records \ cached
           /\ IF found = Relatives THEN UNCHANGED faults
              ELSE faults < MaxFaults /\ faults' = faults + 1
           /\ works' = Related(found) /\ mapping' = Cascade(mapping, works')
           /\ cached' = cached \cup found /\ fresh' = fresh \cup (found \ cached)

Relate ==
    /\ Stage("relate", "determine") /\ Discover
    /\ UNCHANGED <<sidecar, pin, inference, rules, todo, pending, conflict, settled, changes>>

\* A crash of the discovery: some of the relatives are works, the rest is left.
BreakRelate ==
    /\ Stage("relate", "idle") /\ Fault /\ settled' = FALSE
    /\ Primaries # {}
    /\ \E found \in (SUBSET Relatives) \ {Relatives} :
         /\ works' = Related(found)
         /\ cached' = cached \cup found /\ fresh' = fresh \cup (found \ cached)
    /\ UNCHANGED <<sidecar, pin, inference, mapping, rules, todo, pending, conflict>>

\* _decide: a file is given to a work only if there is just one it could belong
\* to.  What it could belong to is a matter of counts and numbers.
Decision(f) ==
    LET could == Fits[f] \cap Present IN IF Single(could) THEN could ELSE {}

\* map_entry_deterministically for the first n files.
Determined(n) ==
    [f \in Files |-> IF f <= n /\ mapping[f].source # "manual" /\ Decision(f) # {}
                     THEN To(CHOOSE r \in Decision(f) : TRUE, "deterministic")
                     ELSE mapping[f]]

WithoutStale_never(m) == m

WithoutStale(m) ==
    [f \in Files |-> IF m[f].source = "deterministic" /\ Decision(f) = {}
                     THEN NoMapping ELSE m[f]]

Determine ==
    /\ \E n \in 0..NFiles :
         FileLoop(n, "determine", "cleanDetermined") /\ mapping' = Determined(n)
    /\ UNCHANGED <<sidecar, pin, inference, records, works, rules, todo, pending, conflict>>

CleanDetermined ==
    /\ Stage("cleanDetermined", "model")
    /\ mapping' = WithoutStale(mapping)
    /\ settled' = (rules = sidecar /\ ~pending /\ ~conflict)
    /\ UNCHANGED <<sidecar, pin, inference, records, works, rules, todo, pending, conflict, bounds>>

\* map_entry_with_model: the model is asked about the files that no better
\* source has decided; an answer it is not sure of takes its old one away.
AskModel ==
    /\ pc = "model" /\ inference /\ Present # {}
    /\ \E n \in 0..NFiles, answer \in [Files -> Present \cup {NoRecord}] :
         /\ FileLoop(n, "model", "idle")
         /\ mapping' = [f \in Files |->
                         IF f > n \/ mapping[f].source \notin {"none", "model"} THEN mapping[f]
                         ELSE IF answer[f] = NoRecord THEN NoMapping
                         ELSE To(answer[f], "model")]
    /\ UNCHANGED <<sidecar, pin, inference, records, works, rules, todo, pending, conflict>>

\* No model is configured, there is nothing to choose from, or the request fails.
SkipModel ==
    /\ Stage("model", "idle")
    /\ (inference /\ Present # {}) => faults < MaxFaults
    /\ faults' = IF inference /\ Present # {} THEN faults + 1 ELSE faults
    /\ UNCHANGED <<sidecar, pin, inference, records, collection, rules, todo, pending, conflict,
                   settled, changes>>

\* The process dies between two transactions, or an error ends the scan.
Crash ==
    /\ pc # "idle" /\ pc' = "idle"
    /\ Fault /\ settled' = FALSE
    /\ UNCHANGED <<sidecar, pin, inference, records, collection, rules, todo, pending, conflict>>

-----------------------------------------------------------------------------
(* The mapping commands, which take the scans' lock.                       *)

RefreshCandidates ==
    /\ pc = "idle" /\ changes < MaxChanges /\ changes' = changes + 1
    /\ Discover
    /\ settled' = FALSE
    /\ UNCHANGED <<sidecar, pin, inference, scan>>

InvalidateModel ==
    /\ pc = "idle"
    /\ mapping' = [f \in Files |-> IF mapping[f].source = "model" THEN NoMapping ELSE mapping[f]]
    /\ UNCHANGED <<sidecar, pin, inference, records, works, scan, settled, bounds>>

\* The command can be killed between two files, too.
Recompute ==
    /\ pc = "idle"
    /\ \/ mapping' = WithoutStale(Determined(NFiles))
       \/ \E n \in Files : mapping' = Determined(n)
    /\ UNCHANGED <<sidecar, pin, inference, records, works, scan, settled, bounds>>

Command == RefreshCandidates \/ InvalidateModel \/ Recompute

Scan ==
    \/ BeginScan \/ Enrich
    \/ Verify \/ EndVerify \/ Associate \/ EndAssociate \/ MapFiles
    \/ CleanMappings \/ CleanWorks \/ Relate \/ BreakRelate
    \/ Determine \/ CleanDetermined \/ AskModel \/ SkipModel

Next == EditSidecar \/ Expire \/ MoveIn \/ Scan \/ Crash \/ Command

Spec == Init /\ [][Next]_vars

\* The service keeps scanning, and a scan goes on to its end.
NextStage ==
    \E stage \in {"idle", "enrich", "verify", "associate", "map", "cleanMappings", "cleanWorks",
                  "relate", "determine", "cleanDetermined", "model"} \ {pc} : pc' = stage

FairSpec == Spec /\ WF_pc(NextStage)

-----------------------------------------------------------------------------
(* Properties.                                                             *)

AtRest == settled /\ pc = "idle"

\* README: sidecar rules decide.  After a scan that applied the sidecar in
\* full, a file is mapped by hand if and only if a rule of the sidecar as it
\* is names its work, and to that work: nothing is left of earlier sidecars,
\* of other collections, of crashed scans.
OwnerDecides ==
    AtRest => \A f \in Files :
                IF sidecar.wants[f] # {}
                THEN mapping[f].source = "manual" /\ {mapping[f].work} = {<<r>> : r \in sidecar.wants[f]}
                ELSE mapping[f].source # "manual"

\* ADR 0008: manual beats deterministic beats model.  Where the sidecar says
\* nothing, the counts decide if they can, and only then may the model.
EvidenceBeatsModel ==
    AtRest => \A f \in Files : mapping[f].source # "manual" =>
                IF Decision(f) # {}
                THEN mapping[f].source = "deterministic" /\ {mapping[f].work} = {<<r>> : r \in Decision(f)}
                ELSE mapping[f].source \in {"none", "model"}

\* README: during an outage uncached rules stay pending and the previous valid
\* mapping is retained, and two matching rules do not replace it.  From when
\* that is known, no step of the scan takes a manual mapping away.
OutagesKeepMappings ==
    [][pc # "idle" /\ (pending \/ conflict) =>
         \A f \in Files : mapping[f].source = "manual" => mapping'[f].source = "manual"]_vars

\* Rules that cannot be applied.
Unclear == ~sidecar.valid \/ \E f \in Files : Ambiguous(sidecar.wants[f])

\* A work has the name the sidecar gives to another.
NameTaken ==
    \E r, s \in Records : /\ r # s /\ works[s] # NoWork /\ r \in Range(sidecar.ids)
                          /\ works[s].name = sidecar.name[r]

\* ADR 0008: corrections take effect at the next scan.  Once the owner is
\* content with the sidecar and the provider answers, it is applied in full,
\* unless its rules are unclear or a name it uses is taken.
CorrectionsTakeEffect == <>[](settled \/ Unclear \/ NameTaken)

\* ADR 0008: operators can correct any result locally.  When a sidecar that
\* names the collection's own record was applied, no other record is left that
\* an earlier match had put there.
WrongMatchIsGone ==
    AtRest /\ sidecar.pin # NoRecord =>
        {r \in Records : works[r].source = "matched"} \subseteq {sidecar.pin}

=============================================================================
