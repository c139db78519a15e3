------------------------------- MODULE Catalogue -------------------------------
(***************************************************************************)
(* Scanning the media collection into the catalogue database: discover and *)
(* scan_library of scanner.py, with the library_entries, media_files and   *)
(* scan_runs tables of database.py they write.                             *)
(*                                                                         *)
(* The collection is somebody else's: its owner adds, removes, renames and *)
(* replaces files at any time, between scans and during one.  A folder is  *)
(* read at once, folders one after another, and the catalogue is updated   *)
(* afterwards, in one transaction.                                         *)
(*                                                                         *)
(* Folders and file names are numbered in the order the scanner sorts them *)
(* in.  The clock is kept relative to the scan: a row was last seen before *)
(* the timestamp of the current scan, at it, or (if the wall clock was set *)
(* back) after it.                                                         *)
(***************************************************************************)
EXTENDS Naturals, Sequences, FiniteSets

CONSTANTS
    NFolders,      \* folders are 1..NFolders
    NNames,        \* names of files in a folder are 1..NNames
    Inodes,        \* file-system identities, "st_dev:st_ino"
    NoFile,        \* no file at a path
    MaxEdits,      \* bound: changes to the collection
    MaxFaults      \* bound: read errors, failed scans, crashes, clock changes

ASSUME SizeAssumption == NFolders \in Nat /\ NNames \in Nat
ASSUME NoFileAssumption == NoFile \notin Inodes
ASSUME BoundsAssumption == MaxEdits \in Nat /\ MaxFaults \in Nat

Folders == 1..NFolders
Names == 1..NNames
Paths == Folders \X Names
Folder(path) == path[1]

VARIABLES
    tree,      \* the media collection: path -> inode or NoFile
    entries,   \* library_entries, the row id being the index
    media,     \* media_files, likewise
    pc,        \* "idle", "walk", "reconcile" or "enrich"
    folder,    \* the folder os.walk visits next
    found,     \* what discover has found: path -> inode or NoFile
    issues,    \* discover has reported an issue
    run,       \* status of the newest row of scan_runs
    quiet,     \* history: nothing changed since this or the last scan began
    edits, faults

database == <<entries, media>>
discovery == <<folder, found, issues>>
vars == <<tree, database, pc, discovery, run, quiet, edits, faults>>

Seen == {"before", "now", "after"}
Entry == [folder : Folders, available : BOOLEAN, seen : Seen]
Media == [entry : Nat \ {0}, path : Paths, inode : Inodes \cup {NoFile},
          available : BOOLEAN, seen : Seen]  \* local_identity may be NULL

NothingFound == [p \in Paths |-> NoFile]

TypeOK ==
    /\ tree \in [Paths -> Inodes \cup {NoFile}]
    /\ entries \in Seq(Entry)
    /\ media \in Seq(Media)
    /\ \A m \in DOMAIN media : media[m].entry \in DOMAIN entries  \* FOREIGN KEY
    /\ pc \in {"idle", "walk", "reconcile", "enrich"}
    /\ folder \in 1..(NFolders + 1)
    /\ found \in [Paths -> Inodes \cup {NoFile}]
    /\ issues \in BOOLEAN /\ quiet \in BOOLEAN
    /\ run \in {"none", "running", "success", "partial", "failed"}
    /\ edits \in 0..MaxEdits
    /\ faults \in 0..MaxFaults

Init ==
    /\ tree = NothingFound
    /\ entries = <<>> /\ media = <<>>
    /\ pc = "idle" /\ folder = 1 /\ found = NothingFound /\ issues = FALSE
    /\ run = "none" /\ quiet = FALSE
    /\ edits = 0 /\ faults = 0

-----------------------------------------------------------------------------
(* The collection, changed by its owner.                                   *)

Edit(files) ==
    /\ edits < MaxEdits /\ edits' = edits + 1
    /\ files # tree
    /\ tree' = files
    /\ quiet' = FALSE
    /\ UNCHANGED <<database, pc, discovery, run, faults>>

Absent(inode) == \A p \in Paths : tree[p] # inode

\* A new file; the file system may give it the inode of a deleted one.
AddFile ==
    \E p \in Paths, i \in Inodes :
        Absent(i) /\ tree[p] = NoFile /\ Edit([tree EXCEPT ![p] = i])

RemoveFile == \E p \in Paths : Edit([tree EXCEPT ![p] = NoFile])

\* rename(2), which replaces the target.
RenameFile ==
    \E p, q \in Paths :
        /\ p # q /\ tree[p] # NoFile
        /\ Edit([tree EXCEPT ![p] = NoFile, ![q] = tree[p]])

RenameFolder ==
    \E d, e \in Folders :
        /\ d # e
        /\ \A p \in Paths : Folder(p) = e => tree[p] = NoFile
        /\ Edit([p \in Paths |-> CASE Folder(p) = d -> NoFile
                                   [] Folder(p) = e -> tree[<<d, p[2]>>]
                                   [] OTHER -> tree[p]])

Owner == AddFile \/ RemoveFile \/ RenameFile \/ RenameFolder

-----------------------------------------------------------------------------
(* scan_library.                                                           *)

\* Where the last seen dates are relative to the next scan's timestamp, if
\* those in `later` are now in the future.
Redate(rows, later) ==
    [r \in DOMAIN rows |-> [rows[r] EXCEPT !.seen = IF @ \in later THEN "after" ELSE "before"]]

\* timestamp = datetime.now(UTC); start_scan commits a row 'running'.  The
\* wall clock may have been set back, past some of the dates or all of them.
StartScan ==
    /\ pc = "idle" /\ pc' = "walk"
    /\ folder' = 1 /\ found' = NothingFound /\ issues' = FALSE
    /\ run' = "running" /\ quiet' = TRUE
    /\ \E later \in {{}, {"after"}, {"now", "after"}, Seen} :
        /\ entries' = Redate(entries, later) /\ media' = Redate(media, later)
        /\ IF later = {} THEN UNCHANGED faults
           ELSE faults < MaxFaults /\ faults' = faults + 1
    /\ UNCHANGED <<tree, edits>>

\* What discover adds for one folder: a file whose identity it has already
\* met, under a name it had before a rename or under a hard link, is skipped
\* and reported.
Repeated(p) == \E q \in Paths : found[q] = tree[p] /\ found[q] # NoFile

Visible(d) == {p \in Paths : Folder(p) = d /\ tree[p] # NoFile}

\* One round of os.walk.  A folder, file or sidecar that cannot be read safely
\* is an issue, and costs none, some or all of the folder's files.
VisitFolder ==
    /\ pc = "walk" /\ folder <= NFolders
    /\ folder' = folder + 1
    /\ LET kept == {p \in Visible(folder) : ~Repeated(p)}
           repeats == kept # Visible(folder)
       IN \/ /\ found' = [p \in Paths |-> IF p \in kept THEN tree[p] ELSE found[p]]
             /\ issues' = (issues \/ repeats)
             /\ UNCHANGED faults
          \/ /\ faults < MaxFaults /\ faults' = faults + 1
             /\ issues' = TRUE
             /\ \E read \in SUBSET kept :
                   found' = [p \in Paths |-> IF p \in read THEN tree[p] ELSE found[p]]
    /\ UNCHANGED <<tree, database, pc, run, quiet, edits>>

EndWalk ==
    /\ pc = "walk" /\ folder > NFolders
    /\ pc' = "reconcile"
    /\ UNCHANGED <<tree, database, discovery, run, quiet, edits, faults>>

-----------------------------------------------------------------------------
(* The reconciling transaction, on a catalogue c = [entries, media, ok].   *)

EntriesAt(c, d) == {e \in DOMAIN c.entries : c.entries[e].folder = d}
RowsAt(c, p) == {m \in DOMAIN c.media : c.media[m].path = p}
RowsOf(c, i) == {m \in DOMAIN c.media : c.media[m].inode = i}
Only(set) == CHOOSE x \in set : TRUE

FilesIn(d) == {p \in Paths : Folder(p) = d /\ found[p] # NoFile}

RelocateTitle_never(c, d) == c

\* _relocate_title_if_matched: a folder the catalogue does not know takes over
\* the one entry its files are known under.
RelocateTitle(c, d) ==
    LET matched == {c.media[m].entry : m \in UNION {RowsOf(c, found[p]) : p \in FilesIn(d)}}
    IN IF EntriesAt(c, d) = {} /\ Cardinality(matched) = 1
       THEN [c EXCEPT !.entries[Only(matched)].folder = d]
       ELSE c

UpsertEntry_keepsDate(c, d) ==
    LET row == [folder |-> d, available |-> TRUE, seen |-> "now"]
    IN IF EntriesAt(c, d) = {}
       THEN [c EXCEPT !.entries = Append(@, row)]
       ELSE [c EXCEPT !.entries[Only(EntriesAt(c, d))].available = TRUE]

UpsertEntry(c, d) ==
    LET row == [folder |-> d, available |-> TRUE, seen |-> "now"]
    IN IF EntriesAt(c, d) = {}
       THEN [c EXCEPT !.entries = Append(@, row)]
       ELSE [c EXCEPT !.entries[Only(EntriesAt(c, d))] = row]

\* A row with the file's identity and another path is moved to the file's
\* path; UNIQUE(relative_path) aborts the transaction if that path is taken.
RelocateMedia(c, p) ==
    LET moved == {m \in RowsOf(c, found[p]) : c.media[m].path # p} IN
    IF moved = {} THEN c
    ELSE IF RowsAt(c, p) # {} THEN [c EXCEPT !.ok = FALSE]
    ELSE [c EXCEPT !.media[Only(moved)].path = p]

\* UNIQUE(local_identity) is checked as well.
UpsertMedia(c, p) ==
    LET row == [entry |-> Only(EntriesAt(c, Folder(p))), path |-> p, inode |-> found[p],
                available |-> TRUE, seen |-> "now"]
    IN IF ~c.ok THEN c
       ELSE IF RowsOf(c, found[p]) \ RowsAt(c, p) # {} THEN [c EXCEPT !.ok = FALSE]
       ELSE IF RowsAt(c, p) = {} THEN [c EXCEPT !.media = Append(@, row)]
       ELSE [c EXCEPT !.media[Only(RowsAt(c, p))] = row]

ReconcileFile(c, p) ==
    IF found[p] = NoFile \/ ~c.ok THEN c ELSE UpsertMedia(RelocateMedia(c, p), p)

\* A folder without files costs nothing; the others have their entry found or
\* made, and then their files, one after another.
ReconcileTitle(c, d) ==
    LET upTo[n \in 0..NNames] ==
            IF n = 0 THEN UpsertEntry(RelocateTitle(c, d), d)
            ELSE ReconcileFile(upTo[n - 1], <<d, n>>)
    IN IF FilesIn(d) = {} \/ ~c.ok THEN c ELSE upTo[NNames]

\* The catalogue after the first folders.
Titles[d \in 0..NFolders] ==
    IF d = 0 THEN [entries |-> entries, media |-> media, ok |-> TRUE]
    ELSE ReconcileTitle(Titles[d - 1], d)

HideUnseen_never(rows) == rows

\* mark_unseen_media_unavailable, mark_unseen_entries_unavailable
HideUnseen(rows) ==
    [r \in DOMAIN rows |-> IF rows[r].seen = "before" THEN [rows[r] EXCEPT !.available = FALSE]
                           ELSE rows[r]]

Hidden(c) == [entries |-> HideUnseen(c.entries), media |-> HideUnseen(c.media), ok |-> c.ok]

Reconciled_ignoresIssues == Hidden(Titles[NFolders])

Reconciled == IF issues THEN Titles[NFolders] ELSE Hidden(Titles[NFolders])

\* The transaction commits, or it is rolled back and the scan recorded failed.
Reconcile ==
    /\ pc = "reconcile"
    /\ \E c \in {Reconciled} :
       IF c.ok
       THEN entries' = c.entries /\ media' = c.media /\ pc' = "enrich" /\ UNCHANGED run
       ELSE UNCHANGED database /\ pc' = "idle" /\ run' = "failed"
    /\ UNCHANGED <<tree, discovery, quiet, edits, faults>>

FinishScan_unknownStatus ==
    /\ pc = "enrich" /\ pc' = "idle"
    /\ run' = (IF issues THEN "issues" ELSE "success") /\ UNCHANGED faults
    /\ UNCHANGED <<tree, database, discovery, quiet, edits>>

\* Enrichment and mapping leave these tables alone; their errors make the
\* scan partial.
FinishScan ==
    /\ pc = "enrich" /\ pc' = "idle"
    /\ \/ run' = (IF issues THEN "partial" ELSE "success") /\ UNCHANGED faults
       \/ run' = "partial" /\ faults < MaxFaults /\ faults' = faults + 1
    /\ UNCHANGED <<tree, database, discovery, quiet, edits>>

\* A database or provider error that nothing handles fails the scan.
FailScan ==
    /\ pc \in {"walk", "reconcile", "enrich"} /\ pc' = "idle"
    /\ faults < MaxFaults /\ faults' = faults + 1
    /\ run' = "failed"
    /\ UNCHANGED <<tree, database, discovery, quiet, edits>>

\* The process dies; an open transaction is rolled back when the database is
\* opened again, and the run stays 'running'.
Crash ==
    /\ pc # "idle" /\ pc' = "idle"
    /\ faults < MaxFaults /\ faults' = faults + 1
    /\ UNCHANGED <<tree, database, discovery, run, quiet, edits>>

Scan == StartScan \/ VisitFolder \/ EndWalk \/ Reconcile \/ FinishScan

Next == Owner \/ Scan \/ FailScan \/ Crash

Spec == Init /\ [][Next]_vars

\* The service keeps scanning (Service shows that scans recur), and a scan
\* goes on to its end.
NextStage == \E stage \in {"idle", "walk", "reconcile", "enrich"} \ {pc} : pc' = stage

FairSpec == Spec /\ WF_pc(NextStage)

-----------------------------------------------------------------------------
(* Properties.                                                             *)

Available == {r \in DOMAIN media : media[r].available}
Displayed == {m \in Available : entries[media[m].entry].available}
Listed == {<<media[m].path, media[m].inode>> : m \in Displayed}
Stored == {<<p, tree[p]>> : p \in {q \in Paths : tree[q] # NoFile}}

\* README: a successful full scan marks missing files unavailable.  After a
\* scan that succeeded, of a collection nobody touched meanwhile, the catalogue
\* lists the files that are there, where they are, and no other, each under a
\* title that is listed too, as long as no date in it is in the future, left by
\* a clock that was set back.
SuccessMirrorsTree ==
    run = "success" /\ quiet /\ (\A m \in DOMAIN media : media[m].seen # "after")
        => Listed = Stored

\* README: a partial scan leaves unseen rows available, so that an unreadable
\* subtree cannot erase the catalogue.
PartialScansHideNothing ==
    [][issues => \A m \in Available : media'[m].available]_database

\* README: a rename keeps a file's row where the match is unambiguous: no other
\* file is found at its old path.
RowsFollowFiles ==
    \A m \in DOMAIN media, p \in Paths :
         found[p] = media[m].inode /\ found[media[m].path] \in {NoFile, media[m].inode}
         => media'[m].path = p /\ media'[m].inode = found[p]

\* The known files of a new folder d are those of entry e, whose folder is gone
\* and which no other folder has files of, nor other files at their old paths.
RenamedFolder(e, d) ==
    /\ \A x \in DOMAIN entries : entries[x].folder # d
    /\ FilesIn(d) # {} /\ FilesIn(entries[e].folder) = {}
    /\ \A p \in FilesIn(d) : \E m \in DOMAIN media :
          media[m].inode = found[p] /\ media[m].entry = e
    /\ \A m \in DOMAIN media : media[m].entry = e =>
          /\ found[media[m].path] \in {NoFile, media[m].inode}
          /\ \A p \in Paths : found[p] = media[m].inode => Folder(p) = d

\* ADR 0002: a renamed folder keeps its catalogue identity.
EntriesFollowFolders ==
    \A d \in Folders, e \in DOMAIN entries :
         RenamedFolder(e, d) => entries'[e].folder = d /\ entries'[e].available

\* A reconciliation that succeeds keeps the identity of whatever was renamed.
RenamesKeepIdentity ==
    [][pc = "reconcile" /\ pc' = "enrich" => RowsFollowFiles /\ EntriesFollowFolders]_vars

\* README: additions, changes, moves and removals are detected during periodic
\* scans: when the owner has made the last change and the last error is over,
\* the catalogue comes to mirror the collection, for good.
ScansCatchUp == <>[](Listed = Stored)

\* What is true of it: the catalogue catches up, unless a known file has come
\* to stay at a path the catalogue has for another one.
PathConflict ==
    \E m, n \in DOMAIN media :
        m # n /\ media[m].inode # NoFile /\ tree[media[n].path] = media[m].inode

ScansCatchUpOrConflict == <>[](Listed = Stored) \/ <>[]PathConflict

=============================================================================
