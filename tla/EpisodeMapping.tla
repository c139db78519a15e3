----------------------------- MODULE EpisodeMapping -----------------------------
(***************************************************************************)
(* What map_entry_deterministically (mapping.py) writes for one collection *)
(* from the numbers in its file names and the episode counts of its works, *)
(* pass after pass, while files come and go, works are found, dropped or   *)
(* put into another order and counts become known.  A renamed file counts  *)
(* as another one.  Manual rows, which it leaves alone, are in WorkMapping. *)
(***************************************************************************)
EXTENDS Integers, Sequences, FiniteSets, FiniteSetsExt

Seqs == INSTANCE SequencesExt

CONSTANTS
    NFiles,       \* the files are 1..NFiles, in the order of their paths
    Facts,        \* what their names say
    Counts,       \* episode counts a provider may report
    MaxWorks,     \* bound: works of the collection
    MaxChanges    \* bound: changes between two complete passes

Unknown == -1     \* no number in the name, no count at the provider

\* Season 0 is a name without a season or with S00: the code tests its truth.
\* special: the name has a word like Movie or OVA.
FileFacts == [season : Nat, start : Nat \cup {Unknown}, end : Nat \cup {Unknown},
              special : BOOLEAN]

\* titled: the title of the work has the word of the special files.
WorkFacts == [count : Counts \cup {Unknown}, titled : BOOLEAN]

ASSUME FactsAssumption ==
    /\ NFiles \in Nat /\ Facts \in [1..NFiles -> FileFacts]
    /\ \A f \in 1..NFiles : Facts[f].start = Unknown <=> Facts[f].end = Unknown
ASSUME CountsAssumption == Counts \subseteq Nat
ASSUME BoundsAssumption == MaxWorks \in Nat /\ MaxChanges \in Nat

Files == 1..NFiles

VARIABLES
    files,     \* the files there are
    works,     \* the works of the collection, in order
    rows,      \* the deterministic rows of media_work_mappings
    changes,   \* changes since the last complete pass
    learnt,    \* history: a count among them,
    stable,    \* history: the works 1..stable have kept their places and counts,
    complete,  \* history: no change at all
    failed     \* history: a pass has ended in an error

vars == <<files, works, rows, changes, learnt, stable, complete, failed>>

NoRow == [work |-> 0, start |-> Unknown, end |-> Unknown]
Row(w, start, end) == [work |-> w, start |-> start, end |-> end]

\* The CHECK constraints of the table.
Storable(row) == row.start # Unknown => row.start > 0 /\ row.end >= row.start

TypeOK ==
    /\ files \subseteq Files
    /\ works \in Seq(WorkFacts) /\ Len(works) <= MaxWorks
    /\ \A f \in Files : /\ rows[f] \in [work : 0..Len(works), start : Int, end : Int]
                        /\ Storable(rows[f])
                        /\ rows[f].work = 0 => rows[f] = NoRow
    /\ changes \in 0..MaxChanges
    /\ stable \in 0..MaxWorks
    /\ learnt \in BOOLEAN /\ complete \in BOOLEAN /\ failed \in BOOLEAN

Init ==
    /\ files \in SUBSET Files
    /\ works = <<>>
    /\ rows = [f \in Files |-> NoRow]
    /\ changes = 0 /\ stable = MaxWorks
    /\ learnt = FALSE /\ complete = FALSE /\ failed = FALSE

-----------------------------------------------------------------------------
(* The decisions.                                                          *)

Episodic == {f \in files : ~Facts[f].special}
Numbered == {f \in Episodic : Facts[f].start # Unknown}
Numbers == {Facts[f].start : f \in Numbered}

\* A name says season 2 or later: every work is a season.
LaterSeason == \E f \in Episodic : Facts[f].season > 1

Duplicate_never == FALSE

\* Two files have the same number.
Duplicate == Cardinality(Numbers) # Cardinality(Numbered)

Contiguous_notFrom1 == Numbers # {} /\ Cardinality(Numbers) = Max(Numbers) - Min(Numbers) + 1

\* The numbers run from 1 without a gap.
Contiguous == Numbers # {} /\ Numbers = 1..Max(Numbers)

\* The number of the last episode of each work, if the files count through.
Last[w \in 0..Len(works)] == IF w = 0 THEN 0 ELSE Last[w - 1] + works[w].count

\* The works that the files fill to the last episode: <<1, ..., n>> for each n.
Layouts ==
    LET last == Max(Numbers) IN
    {n \in DOMAIN works : Last[n] = last /\ \A w \in 1..n : works[w].count # Unknown}

Own(f, w) == Row(w, Facts[f].start, Facts[f].end)

\* _map_specials: the only work, or the only one with the word in its title.
Special(f) ==
    LET titled == {w \in DOMAIN works : works[w].titled} IN
    {Own(f, w) : w \in IF Len(works) = 1 THEN {1}
                       ELSE IF Cardinality(titled) = 1 THEN titled ELSE {}}

Fitting_any(f, w) == f \in Numbered

\* f has a number, and not one that the work is known not to have.
Fitting(f, w) == f \in Numbered /\ (works[w].count # Unknown => Facts[f].end <= works[w].count)

\* _map_reset: the n-th work is the n-th season, the first if none is named.
Season(f) == IF Facts[f].season = 0 /\ Facts[f].start > 0 THEN 1 ELSE Facts[f].season

Reset(f) == {Own(f, w) : w \in {v \in DOMAIN works : v = Season(f) /\ Fitting(f, v)}}

Cumulative_notShifted(f) ==
    {Own(f, w) : w \in {v \in 1..Max(Layouts) : /\ Last[v - 1] < Facts[f].start
                                                /\ Facts[f].end <= Last[v]}}

\* _map_cumulative: a range of numbers may not cross from one work to the next.
Cumulative(f) ==
    {Row(w, Facts[f].start - Last[w - 1], Facts[f].end - Last[w - 1]) :
        w \in {v \in 1..Max(Layouts) : /\ Last[v - 1] < Facts[f].start
                                       /\ Facts[f].start <= Facts[f].end
                                       /\ Facts[f].end <= Last[v]}}

\* _map_single
Single(f) == {Own(f, w) : w \in {v \in DOMAIN works : Len(works) = 1 /\ Fitting(f, v)}}

\* _decide_episodes: how the files are numbered.
Numbering ==
    IF LaterSeason THEN "seasons"
    ELSE IF Duplicate THEN "unclear"
    ELSE IF ~Contiguous \/ Layouts = {} THEN "single"
    ELSE IF Cardinality(Layouts) = 1 THEN "continuous" ELSE "unclear"

Episode(f, numbering) ==
    IF numbering = "seasons" THEN Reset(f)
    ELSE IF numbering = "single" THEN Single(f)
    ELSE IF numbering = "continuous" THEN Cumulative(f) ELSE {}

\* _decide
Decisions ==
    LET numbering == Numbering
        decided(f) == IF f \notin files THEN {}
                      ELSE IF Facts[f].special THEN Special(f) ELSE Episode(f, numbering)
    IN [f \in Files |-> IF decided(f) = {} THEN NoRow ELSE CHOOSE row \in decided(f) : TRUE]

-----------------------------------------------------------------------------
(* A pass over the files, each with a transaction of its own.              *)

\* The files whose rows the table does not accept.
Rejected(decisions) == {f \in Files : ~Storable(decisions[f])}

\* The rows once the first n files are done.
Written(decisions, n) ==
    [f \in Files |-> IF f <= n /\ decisions[f] # NoRow THEN decisions[f] ELSE rows[f]]

Pass_keepsStale(decisions) ==
    /\ Rejected(decisions) = {}
    /\ rows' = Written(decisions, NFiles)
    /\ changes' = 0 /\ learnt' = FALSE /\ stable' = MaxWorks /\ complete' = TRUE
    /\ UNCHANGED <<files, works, failed>>

\* At the end the rows that are not decided any more are removed.
Pass(decisions) ==
    /\ Rejected(decisions) = {}
    /\ rows' = decisions
    /\ changes' = 0 /\ learnt' = FALSE /\ stable' = MaxWorks /\ complete' = TRUE
    /\ UNCHANGED <<files, works, failed>>

\* A crash, or a row that the table does not accept: that ends the scan.
BreakPass(decisions) ==
    /\ \E rejected \in {Rejected(decisions)}, n \in 0..NFiles :
         /\ \A f \in rejected : n < f
         /\ rows' = Written(decisions, n)
         /\ failed' \in {failed, failed \/ n + 1 \in rejected}
    /\ UNCHANGED <<files, works, changes, learnt, stable, complete>>

\* map_entry_deterministically: all is decided before anything is written.
Map == \E decisions \in {Decisions} : Pass(decisions) \/ BreakPass(decisions)

-----------------------------------------------------------------------------
(* What happens between the passes.                                        *)

Change == changes < MaxChanges /\ changes' = changes + 1 /\ complete' = FALSE /\ UNCHANGED failed

AddFile ==
    /\ Change
    /\ \E f \in Files \ files : files' = files \cup {f}
    /\ UNCHANGED <<works, rows, learnt, stable>>

RemoveFile ==
    /\ Change
    /\ \E f \in files : files' = files \ {f}
    /\ UNCHANGED <<works, rows, learnt, stable>>

\* The order is cut at place p: what came before keeps its place.
CutAt(p) == stable' = IF p <= stable THEN p - 1 ELSE stable

\* A row names its work, wherever that comes to stand; it goes with its work.
Follow(row, to) ==
    IF row = NoRow \/ to[row.work] = 0 THEN NoRow ELSE Row(to[row.work], row.start, row.end)

\* The works are new; to says where each old one is among them, 0 if it has gone.
Arrange(new, to) ==
    /\ works' = new
    /\ rows' = [f \in Files |-> Follow(rows[f], to)]
    /\ UNCHANGED <<files, learnt>>

\* A work is found.  Its distance, display order and id, or that it is the
\* primary one, give it a place, which may be before works that are there.
AddWork ==
    /\ Change /\ Len(works) < MaxWorks
    /\ \E w \in WorkFacts, p \in 1..(Len(works) + 1) :
         /\ Arrange(Seqs!InsertAt(works, p, w),
                    [v \in DOMAIN works |-> IF v < p THEN v ELSE v + 1])
         /\ CutAt(p)

\* A work is no relative any more, or not in the sidecar: any of them.
DropWork ==
    /\ Change
    /\ \E p \in DOMAIN works :
         /\ Arrange(Seqs!RemoveAt(works, p),
                    [v \in DOMAIN works |-> IF v < p THEN v ELSE IF v = p THEN 0 ELSE v - 1])
         /\ CutAt(p)

\* Works change places, from p on: another one is the primary, a distance or a
\* display order is another.
MoveWorks ==
    /\ Change
    /\ \E to, from \in [DOMAIN works -> DOMAIN works], p \in DOMAIN works :
         /\ \A v \in DOMAIN works : to[from[v]] = v /\ from[to[v]] = v
         /\ to[p] # p /\ \A v \in 1..(p - 1) : to[v] = v
         /\ Arrange([v \in DOMAIN works |-> works[from[v]]], to)
         /\ CutAt(p)

\* A refresh of the provider's record.
LearnCount ==
    /\ Change
    /\ \E w \in DOMAIN works : \E n \in (Counts \cup {Unknown}) \ {works[w].count} :
         works' = [works EXCEPT ![w].count = n] /\ CutAt(w)
    /\ learnt' = TRUE
    /\ UNCHANGED <<files, rows>>

Next ==
    \/ Map
    \/ AddFile \/ RemoveFile \/ AddWork \/ DropWork \/ MoveWorks \/ LearnCount

Spec == Init /\ [][Next]_vars

-----------------------------------------------------------------------------
(* Properties.                                                             *)

EpisodeRows == {f \in Files : ~Facts[f].special /\ rows[f] # NoRow}

\* README: known episode counts are enforced, and ranges may not cross a work
\* boundary.  Unless a count has changed since, no row of an episode is beyond
\* its work, whatever passes were broken off in between and in whatever order
\* the works have come to stand.
CountsAreEnforced ==
    ~learnt => \A f \in EpisodeRows : LET w == works[rows[f].work] IN
                 w.count # Unknown => rows[f].start \in 1..w.count /\ rows[f].end \in 1..w.count

Overlap(start1, end1, start2, end2) == start1 <= end2 /\ start2 <= end1

\* README: duplicate layouts stay unmapped.  The code compares first numbers
\* only.  So, unless seasons are named, no two files begin with the same episode
\* of the same work, and they have an episode in common only if their names
\* have a number in common (2-3 and 3): no split or shift makes an overlap.
OverlapsAreNamed ==
    complete /\ ~LaterSeason =>
        \A f, g \in EpisodeRows : f # g /\ rows[f].work = rows[g].work =>
            /\ rows[f].start # rows[g].start
            /\ Overlap(rows[f].start, rows[f].end, rows[g].start, rows[g].end) =>
                 Overlap(Facts[f].start, Facts[f].end, Facts[g].start, Facts[g].end)

\* README: only unique layouts are mapped.  So more or fewer files, and works
\* that come, go or change after a work, can take a decision for that work back
\* but not turn it into another one.  Only a change to the work itself or before
\* it can: another count, or another work that gets in between.
DecisionsDoNotFlip ==
    [][\A f \in EpisodeRows : rows[f].work <= stable /\ rows[f].work <= stable' =>
         rows'[f] \in {rows[f], NoRow}]_vars

\* README: a sequence is split only if it is complete and contiguous.  Unless
\* seasons are named, a file belongs to a later work only if the files have
\* every episode of the works before it.
SplitsAreComplete ==
    complete /\ ~LaterSeason =>
        \A f \in EpisodeRows : \A v \in 1..(rows[f].work - 1) :
            works[v].count # Unknown /\ 1..Last[v] \subseteq Numbers

\* README: invalid decisions make the scan partial.  They do not fail it.
PassesDoNotFail == ~failed

=============================================================================
