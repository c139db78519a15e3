---------------------------- MODULE CatalogueProofs ----------------------------
(***************************************************************************)
(* Proofs about Catalogue for any number of folders, names, identities,    *)
(* edits and faults.  The reconciling transaction goes through the folders *)
(* and their files in order; what holds of the catalogue it leaves is      *)
(* proved by following it from file to file.                               *)
(***************************************************************************)
EXTENDS Catalogue, FiniteSetTheorems, SequenceTheorems, WellFoundedInduction, TLAPS

-----------------------------------------------------------------------------
(* Counting up to N.                                                       *)

\* A set that has 0, and each number whose predecessor it has, has them all.
LEMMA UpToN ==
    ASSUME NEW N \in Nat, NEW I \in SUBSET (0..N), 0 \in I,
           \A n \in 1..N : n - 1 \in I => n \in I
    PROVE  N \in I
<1> DEFINE Before == {ss \in Nat \X Nat : ss[1] < ss[2]}
           Missing == (0..N) \ I
<1>0. IsWellFoundedOn(Before, Nat)
  BY NatLessThanWellFounded DEF OpToRel
<1>1. ASSUME NEW x \in Missing PROVE FALSE
  <2>1. Missing \subseteq Nat
    OBVIOUS
  <2>2. PICK n \in Missing : \A m \in Missing : <<m, n>> \notin Before
    <3> HIDE DEF Before, Missing
    <3> QED BY <1>0, <1>1, <2>1, WFMin
  <2>3. n \in 1..N /\ n - 1 \in 0..N /\ n - 1 \notin I
    OBVIOUS
  <2>4. <<n - 1, n>> \in Before
    BY <2>3
  <2> QED BY <2>2, <2>3, <2>4
<1> QED BY <1>1

\* The functions that start at base and take the given steps.
Recursive(N, S, base, step) ==
    {f \in [0..N -> S] : f[0] = base /\ \A n \in 1..N : f[n] = step[n][f[n - 1]]}

\* A function may be defined by what it is at 0 and how it goes on.
LEMMA Recursion ==
    ASSUME NEW N \in Nat, NEW S, NEW base \in S, NEW step \in [1..N -> [S -> S]]
    PROVE  Recursive(N, S, base, step) # {}
<1> DEFINE Starts(f, k) == f[0] = base /\ \A n \in 1..k : f[n] = step[n][f[n - 1]]
           I == {k \in 0..N : \E f \in [0..k -> S] : Starts(f, k)}
<1>1. 0 \in I
  <2> DEFINE g == [n \in 0..0 |-> base]
  <2>1. g \in [0..0 -> S] /\ Starts(g, 0)
    OBVIOUS
  <2> HIDE DEF g, Starts
  <2>2. \E f \in [0..0 -> S] : Starts(f, 0)
    BY <2>1
  <2> QED BY <2>2
<1>2. ASSUME NEW k \in 1..N, k - 1 \in I PROVE k \in I
  <2>1. PICK f \in [0..(k - 1) -> S] : Starts(f, k - 1)
    BY <1>2
  <2> DEFINE g == [n \in 0..k |-> IF n = k THEN step[k][f[k - 1]] ELSE f[n]]
  <2>2. g \in [0..k -> S]
    <3>1. step[k][f[k - 1]] \in S
      OBVIOUS
    <3> QED BY <3>1
  <2>3. g[0] = base /\ g[k] = step[k][g[k - 1]]
    BY <2>1
  <2>4. ASSUME NEW n \in 1..k, n # k PROVE g[n] = step[n][g[n - 1]]
    <3>1. n \in 1..(k - 1) /\ n \in 0..k /\ n - 1 \in 0..k /\ n - 1 # k
      BY <2>4
    <3>2. g[n] = f[n] /\ g[n - 1] = f[n - 1]
      BY <2>4, <3>1
    <3> QED BY <2>1, <3>1, <3>2
  <2>5. Starts(g, k)
    BY <2>3, <2>4
  <2> HIDE DEF g, Starts
  <2>6. \E h \in [0..k -> S] : Starts(h, k)
    BY <2>2, <2>5
  <2> QED BY <2>6
<1>3. N \in I
  <2> HIDE DEF I
  <2>1. I \in SUBSET (0..N)
    BY DEF I
  <2> QED BY <1>1, <1>2, <2>1, UpToN
<1> QED BY <1>3 DEF Recursive

-----------------------------------------------------------------------------
(* Catalogues, and what one folder or one file does to one.                *)

\* What the tables hold: a folder, a path and an identity each have one row,
\* and a file has an entry and an identity.
OneRowEach(c) ==
    /\ \A m \in DOMAIN c.media : /\ c.media[m].entry \in DOMAIN c.entries
                                 /\ c.media[m].inode # NoFile
    /\ \A d, e \in DOMAIN c.entries : c.entries[d].folder = c.entries[e].folder => d = e
    /\ \A m, n \in DOMAIN c.media : c.media[m].path = c.media[n].path => m = n
    /\ \A m, n \in DOMAIN c.media : c.media[m].inode = c.media[n].inode => m = n

Tables == [entries : Seq(Entry), media : Seq(Media), ok : BOOLEAN]
Catalogues == {c \in Tables : OneRowEach(c)}

EntryRow(d) == [folder |-> d, available |-> TRUE, seen |-> "now"]
MediaRow(e, p) ==
    [entry |-> e, path |-> p, inode |-> found[p], available |-> TRUE, seen |-> "now"]

\* The entries that the files of a folder are known under.
Matched(c, d) == {c.media[m].entry : m \in UNION {RowsOf(c, found[p]) : p \in FilesIn(d)}}

\* k is c with the row of folder d in place e, which no other place has.
PutEntry(c, k, e, d) ==
    /\ k.media = c.media /\ k.ok = c.ok /\ k \in Tables
    /\ e \in DOMAIN c.entries \cup {Len(c.entries) + 1}
    /\ DOMAIN k.entries = DOMAIN c.entries \cup {e}
    /\ k.entries[e] = EntryRow(d)
    /\ \A n \in DOMAIN c.entries \ {e} :
            k.entries[n] = c.entries[n] /\ c.entries[n].folder # d

\* k is c with the row of the file found at p in place m.
PutMedia(c, k, m, p) ==
    /\ k.entries = c.entries /\ k.ok = c.ok /\ k \in Tables
    /\ m \in DOMAIN c.media \cup {Len(c.media) + 1}
    /\ DOMAIN k.media = DOMAIN c.media \cup {m}
    /\ \E e \in EntriesAt(c, Folder(p)) : k.media[m] = MediaRow(e, p)
    /\ \A n \in DOMAIN c.media \ {m} :
            k.media[n] = c.media[n] /\ c.media[n].path # p /\ c.media[n].inode # found[p]
    /\ m \in DOMAIN c.media => c.media[m].path = p \/ c.media[m].inode = found[p]

\* A known folder keeps its place; an unknown one takes that of the one entry
\* its files are known under, or a new one.
TitleStep(c, k, d) ==
    \E e : /\ PutEntry(c, k, e, d)
           /\ e \in DOMAIN c.entries =>
                 c.entries[e].folder = d \/ (EntriesAt(c, d) = {} /\ Matched(c, d) = {e})
           /\ \A x : EntriesAt(c, d) = {} /\ Matched(c, d) = {x} => e = x

FileStep(c, k, p) == \E m : PutMedia(c, k, m, p)

LEMMA PathParts ==
    ASSUME NEW p \in Paths
    PROVE  Folder(p) \in Folders /\ p[2] \in Names /\ p = <<Folder(p), p[2]>>
BY DEF Paths, Folder

LEMMA MatchedBy ==
    ASSUME NEW c, NEW d, NEW x
    PROVE  x \in Matched(c, d) <=>
              \E p \in FilesIn(d), m \in DOMAIN c.media :
                  c.media[m].inode = found[p] /\ x = c.media[m].entry
BY DEF Matched, RowsOf

\* The one element of a set.
LEMMA OnlyOne == ASSUME NEW x PROVE Only({x}) = x
BY DEF Only

LEMMA EntryParts ==
    /\ \A d \in Folders : EntryRow(d) \in Entry
    /\ \A e \in Entry : e = [folder |-> e.folder, available |-> e.available, seen |-> e.seen]
                        /\ e.folder \in Folders /\ e.available \in BOOLEAN /\ e.seen \in Seen
<1>1. \A d \in Folders : EntryRow(d) \in Entry
  BY DEF EntryRow, Entry, Seen
<1>2. \A e \in Entry : e.available \in BOOLEAN
  BY Zenon DEF Entry
<1>3. \A e \in Entry : e = [folder |-> e.folder, available |-> e.available, seen |-> e.seen]
                       /\ e.folder \in Folders /\ e.seen \in Seen
  BY DEF Entry
<1> QED BY <1>1, <1>2, <1>3

LEMMA MatchedIsOne ==
    ASSUME NEW c \in Catalogues, NEW d
    PROVE  Cardinality(Matched(c, d)) = 1 <=> \E x \in DOMAIN c.entries : Matched(c, d) = {x}
<1>1. Matched(c, d) \subseteq DOMAIN c.entries
  BY MatchedBy DEF Catalogues, OneRowEach
<1>2. IsFiniteSet(DOMAIN c.entries)
  <2>1. DOMAIN c.entries = 1..Len(c.entries) /\ Len(c.entries) \in Nat
    BY DEF Catalogues, Tables
  <2> QED BY <2>1, FS_Interval
<1>3. IsFiniteSet(Matched(c, d))
  BY <1>1, <1>2, FS_Subset
<1> QED BY <1>1, <1>3, FS_Singleton

LEMMA RelocatedTitle ==
    ASSUME NEW c \in Catalogues, NEW d \in Folders, NEW e \in DOMAIN c.entries,
           EntriesAt(c, d) = {}, Matched(c, d) = {e},
           NEW k, k = RelocateTitle(c, d)
    PROVE  /\ k.media = c.media /\ k.ok = c.ok /\ k \in Tables
           /\ DOMAIN k.entries = DOMAIN c.entries /\ Len(k.entries) = Len(c.entries)
           /\ k.entries[e].folder = d
           /\ \A n \in DOMAIN c.entries \ {e} : k.entries[n] = c.entries[n]
<1> DEFINE row == [c.entries[e] EXCEPT !.folder = d]
<1>1. c.entries \in Seq(Entry) /\ c.media \in Seq(Media) /\ c.ok \in BOOLEAN
  BY DEF Catalogues, Tables
<1>2. c = [entries |-> c.entries, media |-> c.media, ok |-> c.ok]
  BY DEF Catalogues, Tables
<1>3. k = [c EXCEPT !.entries[Only(Matched(c, d))].folder = d]
  <2>1. Cardinality(Matched(c, d)) = 1
    BY MatchedIsOne
  <2> QED BY <2>1 DEF RelocateTitle, Matched
<1>4. k = [c EXCEPT !.entries = [c.entries EXCEPT ![e] = row]]
  BY <1>2, <1>3, OnlyOne
<1>5. row \in Entry /\ row.folder = d
  <2>1. c.entries[e] \in Entry
    BY <1>1
  <2> HIDE DEF row
  <2>2. row = [folder |-> d, available |-> c.entries[e].available, seen |-> c.entries[e].seen]
    BY <2>1, EntryParts DEF row
  <2>3. c.entries[e].available \in BOOLEAN /\ c.entries[e].seen \in Seen
    BY <2>1, Zenon, EntryParts
  <2> QED BY <2>2, <2>3 DEF Entry
<1> HIDE DEF row
<1> DEFINE moved == [c.entries EXCEPT ![e] = row]
<1>6. /\ moved \in Seq(Entry) /\ DOMAIN moved = DOMAIN c.entries /\ Len(moved) = Len(c.entries)
      /\ moved[e] = row /\ \A n \in DOMAIN c.entries \ {e} : moved[n] = c.entries[n]
  BY <1>1, <1>5
<1>7. k.media = c.media /\ k.ok = c.ok /\ k.entries = moved
  BY <1>2, <1>4
<1>8. k = [entries |-> moved, media |-> c.media, ok |-> c.ok]
  BY <1>2, <1>4
<1> HIDE DEF moved
<1>9. k \in Tables
  BY <1>1, <1>6, <1>8 DEF Tables
<1> QED BY <1>5, <1>6, <1>7, <1>9

LEMMA KeptTitle ==
    ASSUME NEW c \in Catalogues, NEW d,
           ~(EntriesAt(c, d) = {} /\ \E e \in DOMAIN c.entries : Matched(c, d) = {e})
    PROVE  RelocateTitle(c, d) = c
BY MatchedIsOne DEF RelocateTitle, Matched

\* The row of a known folder is rewritten where it is.
LEMMA UpsertedEntry ==
    ASSUME NEW c \in Tables, NEW d \in Folders, NEW e \in DOMAIN c.entries,
           EntriesAt(c, d) = {e}
    PROVE  PutEntry(c, UpsertEntry(c, d), e, d)
<1> DEFINE k == UpsertEntry(c, d)
<1>1. c.entries \in Seq(Entry) /\ c = [entries |-> c.entries, media |-> c.media, ok |-> c.ok]
  BY DEF Tables
<1>2. k = [c EXCEPT !.entries[Only(EntriesAt(c, d))] = EntryRow(d)]
  BY DEF UpsertEntry, EntryRow
<1>3. k = [c EXCEPT !.entries = [c.entries EXCEPT ![e] = EntryRow(d)]]
  BY <1>1, <1>2, OnlyOne
<1>4. [c.entries EXCEPT ![e] = EntryRow(d)] \in Seq(Entry)
  BY <1>1, EntryParts
<1>5. \A n \in DOMAIN c.entries \ {e} : c.entries[n].folder # d
  BY DEF EntriesAt
<1> HIDE DEF k
<1>6. PutEntry(c, k, e, d)
  BY <1>1, <1>3, <1>4, <1>5 DEF PutEntry, Tables
<1> QED BY <1>6 DEF k

LEMMA InsertedEntry ==
    ASSUME NEW c \in Tables, NEW d \in Folders, EntriesAt(c, d) = {}
    PROVE  PutEntry(c, UpsertEntry(c, d), Len(c.entries) + 1, d)
<1> DEFINE k == UpsertEntry(c, d)
<1>1. c.entries \in Seq(Entry) /\ c = [entries |-> c.entries, media |-> c.media, ok |-> c.ok]
  BY DEF Tables
<1>2. k = [c EXCEPT !.entries = Append(c.entries, EntryRow(d))]
  BY DEF UpsertEntry, EntryRow
<1> DEFINE longer == Append(c.entries, EntryRow(d))
<1>3. /\ longer \in Seq(Entry) /\ Len(c.entries) \in Nat
      /\ DOMAIN longer = 1..(Len(c.entries) + 1)
      /\ longer[Len(c.entries) + 1] = EntryRow(d)
      /\ \A n \in 1..Len(c.entries) : longer[n] = c.entries[n]
  BY <1>1, EntryParts
<1>4. \A n \in DOMAIN c.entries : c.entries[n].folder # d
  BY DEF EntriesAt
<1>5. DOMAIN c.entries = 1..Len(c.entries)
  BY <1>1
<1>6. DOMAIN longer = DOMAIN c.entries \cup {Len(c.entries) + 1}
  BY <1>3, <1>5
<1> HIDE DEF longer, k
<1>7. k.media = c.media /\ k.ok = c.ok /\ k \in Tables /\ k.entries = longer
  BY <1>1, <1>2, <1>3 DEF Tables, longer
<1>8. PutEntry(c, k, Len(c.entries) + 1, d)
  BY <1>3, <1>4, <1>5, <1>6, <1>7 DEF PutEntry
<1> QED BY <1>8 DEF k

LEMMA TitleEffect ==
    ASSUME NEW c \in Catalogues, NEW d \in Folders
    PROVE  TitleStep(c, UpsertEntry(RelocateTitle(c, d), d), d)
<1> DEFINE j == RelocateTitle(c, d)
           k == UpsertEntry(j, d)
<1>0. c \in Tables /\ OneRowEach(c)
  BY DEF Catalogues
<1>1. CASE EntriesAt(c, d) # {}
  <2>1. PICK e \in DOMAIN c.entries : EntriesAt(c, d) = {e}
    <3>1. PICK e \in EntriesAt(c, d) : TRUE
      BY <1>1
    <3>2. EntriesAt(c, d) = {e} /\ e \in DOMAIN c.entries
      BY <1>0, <3>1 DEF EntriesAt, OneRowEach
    <3> QED BY <3>2
  <2>2. j = c
    BY <1>1, KeptTitle
  <2>3. PutEntry(c, k, e, d)
    BY <1>0, <2>1, <2>2, UpsertedEntry
  <2>4. c.entries[e].folder = d
    BY <2>1 DEF EntriesAt
  <2> QED BY <1>1, <2>3, <2>4 DEF TitleStep
<1>2. CASE EntriesAt(c, d) = {} /\ \E e \in DOMAIN c.entries : Matched(c, d) = {e}
  <2>1. PICK e \in DOMAIN c.entries : Matched(c, d) = {e}
    BY <1>2
  <2>2. /\ j.media = c.media /\ j.ok = c.ok /\ j \in Tables
        /\ DOMAIN j.entries = DOMAIN c.entries /\ Len(j.entries) = Len(c.entries)
        /\ j.entries[e].folder = d
        /\ \A n \in DOMAIN c.entries \ {e} : j.entries[n] = c.entries[n]
    BY <1>2, <2>1, RelocatedTitle
  <2>3. \A n \in DOMAIN c.entries : c.entries[n].folder # d
    BY <1>2 DEF EntriesAt
  <2>4. EntriesAt(j, d) = {e}
    BY <2>2, <2>3 DEF EntriesAt
  <2> HIDE DEF j
  <2>5. PutEntry(j, k, e, d)
    BY <2>2, <2>4, UpsertedEntry
  <2> HIDE DEF k
  <2>6. PutEntry(c, k, e, d)
    BY <2>2, <2>3, <2>5 DEF PutEntry
  <2> QED BY <1>2, <2>1, <2>6 DEF TitleStep, j, k
<1>3. CASE EntriesAt(c, d) = {} /\ ~\E e \in DOMAIN c.entries : Matched(c, d) = {e}
  <2>1. j = c
    BY <1>3, KeptTitle
  <2>2. PutEntry(c, k, Len(c.entries) + 1, d)
    BY <1>0, <1>3, <2>1, InsertedEntry
  <2>3. Len(c.entries) + 1 \notin DOMAIN c.entries
    BY <1>0 DEF Tables
  <2>4. \A x : Matched(c, d) # {x}
    BY <1>0, <1>3, MatchedBy DEF OneRowEach
  <2> HIDE DEF j, k
  <2> QED BY <2>2, <2>3, <2>4 DEF TitleStep, j, k
<1> QED BY <1>1, <1>2, <1>3

-----------------------------------------------------------------------------
(* One file.                                                               *)

LEMMA MediaRowType ==
    ASSUME NEW e \in Nat \ {0}, NEW p \in Paths, found[p] \in Inodes
    PROVE  MediaRow(e, p) \in Media
BY DEF MediaRow, Media, Seen

\* The table with the row in place m replaced.
Replaced(c, k, m, row) ==
    /\ k.entries = c.entries /\ k.ok = c.ok /\ k \in Tables
    /\ DOMAIN k.media = DOMAIN c.media /\ Len(k.media) = Len(c.media)
    /\ k.media[m] = row
    /\ \A n \in DOMAIN c.media \ {m} : k.media[n] = c.media[n]

LEMMA ReplaceRow ==
    ASSUME NEW c \in Tables, NEW m \in DOMAIN c.media, NEW row \in Media
    PROVE  Replaced(c, [c EXCEPT !.media = [c.media EXCEPT ![m] = row]], m, row)
<1> DEFINE rewritten == [c.media EXCEPT ![m] = row]
           k == [c EXCEPT !.media = rewritten]
<1>1. c.media \in Seq(Media) /\ c = [entries |-> c.entries, media |-> c.media, ok |-> c.ok]
  BY DEF Tables
<1>2. /\ rewritten \in Seq(Media) /\ DOMAIN rewritten = DOMAIN c.media
      /\ Len(rewritten) = Len(c.media) /\ rewritten[m] = row
      /\ \A n \in DOMAIN c.media \ {m} : rewritten[n] = c.media[n]
  BY <1>1
<1> HIDE DEF rewritten
<1>3. k = [entries |-> c.entries, media |-> rewritten, ok |-> c.ok]
  BY <1>1
<1>4. k \in Tables
  BY <1>2, <1>3 DEF Tables
<1>5. k.entries = c.entries /\ k.ok = c.ok /\ k.media = rewritten
  BY <1>3
<1> HIDE DEF k
<1>6. Replaced(c, k, m, row)
  BY <1>2, <1>4, <1>5 DEF Replaced
<1> QED BY <1>6 DEF k, rewritten

\* A row with the path, and none elsewhere with the identity: it is rewritten.
LEMMA UpsertedMedia ==
    ASSUME NEW c \in Tables, c.ok, NEW p \in Paths, found[p] \in Inodes,
           NEW m \in DOMAIN c.media, RowsAt(c, p) = {m}, RowsOf(c, found[p]) \subseteq {m},
           NEW e \in DOMAIN c.entries, EntriesAt(c, Folder(p)) = {e}
    PROVE  Replaced(c, UpsertMedia(c, p), m, MediaRow(e, p))
<1>1. UpsertMedia(c, p) = [c EXCEPT !.media[Only(RowsAt(c, p))] = MediaRow(e, p)]
  BY OnlyOne DEF UpsertMedia, MediaRow
<1>2. c = [entries |-> c.entries, media |-> c.media, ok |-> c.ok]
  BY DEF Tables
<1>3. UpsertMedia(c, p) = [c EXCEPT !.media = [c.media EXCEPT ![m] = MediaRow(e, p)]]
  BY <1>1, <1>2, OnlyOne
<1>4. e \in Nat \ {0}
  <2>1. c.entries \in Seq(Entry)
    BY DEF Tables
  <2> QED BY <2>1
<1> QED BY <1>3, <1>4, MediaRowType, ReplaceRow

LEMMA InsertedMedia ==
    ASSUME NEW c \in Tables, c.ok, NEW p \in Paths, found[p] \in Inodes,
           RowsAt(c, p) = {}, RowsOf(c, found[p]) = {},
           NEW e \in DOMAIN c.entries, EntriesAt(c, Folder(p)) = {e}
    PROVE  PutMedia(c, UpsertMedia(c, p), Len(c.media) + 1, p)
<1> DEFINE longer == Append(c.media, MediaRow(e, p))
           k == UpsertMedia(c, p)
<1>1. k = [c EXCEPT !.media = longer]
  BY OnlyOne DEF UpsertMedia, MediaRow
<1>2. c = [entries |-> c.entries, media |-> c.media, ok |-> c.ok]
      /\ c.media \in Seq(Media) /\ c.entries \in Seq(Entry)
  BY DEF Tables
<1>3. MediaRow(e, p) \in Media
  <2>1. e \in Nat \ {0}
    BY <1>2
  <2> QED BY <2>1, MediaRowType
<1>4. /\ longer \in Seq(Media) /\ Len(c.media) \in Nat
      /\ DOMAIN longer = 1..(Len(c.media) + 1)
      /\ longer[Len(c.media) + 1] = MediaRow(e, p)
      /\ \A n \in 1..Len(c.media) : longer[n] = c.media[n]
  BY <1>2, <1>3
<1>5. DOMAIN c.media = 1..Len(c.media)
  BY <1>2
<1>6. DOMAIN longer = DOMAIN c.media \cup {Len(c.media) + 1}
      /\ Len(c.media) + 1 \notin DOMAIN c.media
  BY <1>4, <1>5
<1> HIDE DEF longer, k
<1>7. k = [entries |-> c.entries, media |-> longer, ok |-> c.ok]
  BY <1>1, <1>2
<1>8. k.entries = c.entries /\ k.ok = c.ok /\ k.media = longer /\ k \in Tables
  BY <1>2, <1>4, <1>7 DEF Tables
<1>9. \A n \in DOMAIN c.media : c.media[n].path # p /\ c.media[n].inode # found[p]
  BY DEF RowsAt, RowsOf
<1>10. PutMedia(c, k, Len(c.media) + 1, p)
  BY <1>4, <1>5, <1>6, <1>8, <1>9 DEF PutMedia
<1> QED BY <1>10 DEF k

LEMMA FileEffect ==
    ASSUME NEW c \in Catalogues, c.ok, NEW p \in Paths, found[p] \in Inodes,
           EntriesAt(c, Folder(p)) # {}
    PROVE  \/ ReconcileFile(c, p) = [c EXCEPT !.ok = FALSE]
           \/ FileStep(c, ReconcileFile(c, p), p)
<1> DEFINE moved == {m \in RowsOf(c, found[p]) : c.media[m].path # p}
           j == RelocateMedia(c, p)
           k == UpsertMedia(j, p)
<1>0. c \in Tables /\ OneRowEach(c)
  BY DEF Catalogues
<1>1. ReconcileFile(c, p) = k
  BY NoFileAssumption DEF ReconcileFile
<1>2. PICK e \in DOMAIN c.entries : EntriesAt(c, Folder(p)) = {e}
  <2>1. PICK e \in EntriesAt(c, Folder(p)) : TRUE
    OBVIOUS
  <2>2. EntriesAt(c, Folder(p)) = {e} /\ e \in DOMAIN c.entries
    BY <1>0, <2>1 DEF EntriesAt, OneRowEach
  <2> QED BY <2>2
<1>3. CASE moved = {} /\ RowsAt(c, p) = {}
  <2>1. j = c
    BY <1>3 DEF RelocateMedia
  <2>2. RowsOf(c, found[p]) = {}
    BY <1>3 DEF RowsOf, RowsAt
  <2>3. PutMedia(c, k, Len(c.media) + 1, p)
    BY <1>0, <1>2, <1>3, <2>1, <2>2, InsertedMedia
  <2> HIDE DEF k
  <2> QED BY <1>1, <2>3 DEF FileStep
<1>4. CASE moved = {} /\ RowsAt(c, p) # {}
  <2>1. j = c
    BY <1>4 DEF RelocateMedia
  <2>2. PICK m \in RowsAt(c, p) : TRUE
    BY <1>4
  <2>3. m \in DOMAIN c.media /\ c.media[m].path = p /\ RowsAt(c, p) = {m}
    BY <1>0, <2>2 DEF RowsAt, OneRowEach
  <2>4. RowsOf(c, found[p]) \subseteq {m}
    BY <1>4, <2>3 DEF RowsOf, RowsAt
  <2>5. Replaced(c, k, m, MediaRow(e, p))
    BY <1>0, <1>2, <2>1, <2>3, <2>4, UpsertedMedia
  <2>6. \A n \in DOMAIN c.media \ {m} : c.media[n].path # p /\ c.media[n].inode # found[p]
    BY <2>3, <2>4 DEF RowsAt, RowsOf
  <2> HIDE DEF k
  <2>7. PutMedia(c, k, m, p)
    BY <1>2, <2>3, <2>5, <2>6 DEF PutMedia, Replaced
  <2> QED BY <1>1, <2>7 DEF FileStep
<1>5. CASE moved # {} /\ RowsAt(c, p) # {}
  <2>1. j = [c EXCEPT !.ok = FALSE]
    BY <1>5 DEF RelocateMedia
  <2>2. ~j.ok
    BY <1>0, <2>1 DEF Tables
  <2>3. k = j
    BY <2>2 DEF UpsertMedia
  <2> QED BY <1>1, <2>1, <2>3
<1>6. CASE moved # {} /\ RowsAt(c, p) = {}
  <2>1. PICK m \in moved : TRUE
    BY <1>6
  <2>2. m \in DOMAIN c.media /\ c.media[m].inode = found[p] /\ c.media[m].path # p
    BY <2>1 DEF RowsOf
  <2>3. RowsOf(c, found[p]) = {m} /\ moved = {m}
    BY <1>0, <2>1, <2>2 DEF RowsOf, OneRowEach
  <2> DEFINE row == [c.media[m] EXCEPT !.path = p]
  <2>4. row \in Media /\ row.path = p /\ row.inode = found[p]
    <3>1. c.media[m] \in Media
      BY <1>0, <2>2 DEF Tables
    <3> HIDE DEF row
    <3>2. row = [entry |-> c.media[m].entry, path |-> p, inode |-> c.media[m].inode,
                 available |-> c.media[m].available, seen |-> c.media[m].seen]
      BY <3>1 DEF Media, row
    <3>3. /\ c.media[m].entry \in Nat \ {0} /\ c.media[m].inode \in Inodes \cup {NoFile}
          /\ c.media[m].available \in BOOLEAN /\ c.media[m].seen \in Seen
      BY <3>1, Zenon DEF Media
    <3> QED BY <2>2, <3>2, <3>3 DEF Media
  <2>5. j = [c EXCEPT !.media = [c.media EXCEPT ![m] = row]]
    <3>1. j = [c EXCEPT !.media[Only(moved)].path = p]
      BY <1>6 DEF RelocateMedia
    <3> HIDE DEF moved
    <3>2. c = [entries |-> c.entries, media |-> c.media, ok |-> c.ok]
      BY <1>0 DEF Tables
    <3> QED BY <2>3, <3>1, <3>2, OnlyOne
  <2> HIDE DEF row, j
  <2>6. Replaced(c, j, m, row)
    BY <1>0, <2>2, <2>4, <2>5, ReplaceRow
  <2>7. RowsAt(j, p) = {m} /\ RowsOf(j, found[p]) \subseteq {m}
    <3>1. \A n \in DOMAIN c.media \ {m} : c.media[n].path # p /\ c.media[n].inode # found[p]
      BY <1>6, <2>3 DEF RowsAt, RowsOf
    <3> QED BY <2>2, <2>4, <2>6, <3>1 DEF RowsAt, RowsOf, Replaced
  <2>8. EntriesAt(j, Folder(p)) = {e} /\ e \in DOMAIN j.entries /\ m \in DOMAIN j.media
        /\ j \in Tables /\ j.ok
    BY <1>2, <2>2, <2>6 DEF EntriesAt, Replaced
  <2>9. Replaced(j, k, m, MediaRow(e, p))
    BY <2>7, <2>8, UpsertedMedia
  <2> HIDE DEF k
  <2>10. \A n \in DOMAIN c.media \ {m} : c.media[n].path # p /\ c.media[n].inode # found[p]
    BY <1>6, <2>3 DEF RowsAt, RowsOf
  <2>11. PutMedia(c, k, m, p)
    BY <1>2, <2>2, <2>6, <2>9, <2>10 DEF PutMedia, Replaced
  <2> QED BY <1>1, <2>11 DEF FileStep, k, j
<1> QED BY <1>3, <1>4, <1>5, <1>6

\* Each step leaves one row to a folder, to a path and to an identity.
LEMMA PutEntrySound ==
    ASSUME NEW c \in Catalogues, NEW k, NEW e, NEW d \in Folders, PutEntry(c, k, e, d)
    PROVE  k \in Catalogues /\ EntriesAt(k, d) # {}
<1>1. k \in Tables /\ OneRowEach(c)
  BY DEF PutEntry, Catalogues
<1>2. \A x, y \in DOMAIN k.entries : k.entries[x].folder = k.entries[y].folder => x = y
  BY <1>1 DEF PutEntry, OneRowEach, EntryRow
<1>3. OneRowEach(k)
  BY <1>1, <1>2 DEF PutEntry, OneRowEach
<1>4. e \in EntriesAt(k, d)
  BY DEF PutEntry, EntriesAt, EntryRow
<1> QED BY <1>1, <1>3, <1>4 DEF Catalogues

LEMMA PutMediaSound ==
    ASSUME NEW c \in Catalogues, NEW k, NEW m, NEW p \in Paths, found[p] \in Inodes,
           PutMedia(c, k, m, p)
    PROVE  k \in Catalogues /\ k.entries = c.entries
<1>1. k \in Tables /\ OneRowEach(c) /\ k.entries = c.entries
  BY DEF PutMedia, Catalogues
<1>2. PICK e \in EntriesAt(c, Folder(p)) : k.media[m] = MediaRow(e, p)
  BY DEF PutMedia
<1>3. e \in DOMAIN k.entries /\ k.media[m].entry = e
      /\ k.media[m].path = p /\ k.media[m].inode = found[p]
  BY <1>1, <1>2 DEF EntriesAt, MediaRow
<1>4. \A n \in DOMAIN k.media \ {m} :
          n \in DOMAIN c.media /\ k.media[n] = c.media[n]
          /\ c.media[n].path # p /\ c.media[n].inode # found[p]
  BY DEF PutMedia
<1>5. OneRowEach(k)
  BY <1>1, <1>3, <1>4, NoFileAssumption DEF OneRowEach
<1> QED BY <1>1, <1>5 DEF Catalogues

-----------------------------------------------------------------------------
(* The files of a folder, and the folders.                                 *)

LEMMA FileKeepsSound ==
    ASSUME NEW c \in Catalogues, NEW p \in Paths, EntriesAt(c, Folder(p)) # {},
           found \in [Paths -> Inodes \cup {NoFile}]
    PROVE  /\ ReconcileFile(c, p) \in Catalogues
           /\ EntriesAt(ReconcileFile(c, p), Folder(p)) # {}
           /\ ReconcileFile(c, p).ok => c.ok
<1> DEFINE k == ReconcileFile(c, p)
<1>1. CASE found[p] = NoFile \/ ~c.ok
  BY <1>1 DEF ReconcileFile
<1>2. CASE found[p] # NoFile /\ c.ok
  <2>1. found[p] \in Inodes
    BY <1>2
  <2>2. CASE k = [c EXCEPT !.ok = FALSE]
    <3>1. c = [entries |-> c.entries, media |-> c.media, ok |-> c.ok] /\ c \in Tables
          /\ OneRowEach(c)
      BY DEF Catalogues, Tables
    <3>2. k = [entries |-> c.entries, media |-> c.media, ok |-> FALSE]
      BY <2>2, <3>1
    <3> HIDE DEF k
    <3>3. k.entries = c.entries /\ k.media = c.media /\ k \in Tables
      BY <3>1, <3>2 DEF Tables
    <3>4. OneRowEach(k) /\ EntriesAt(k, Folder(p)) # {}
      BY <3>1, <3>3 DEF OneRowEach, EntriesAt
    <3>5. k \in Catalogues
      BY <3>3, <3>4 DEF Catalogues
    <3> QED BY <1>2, <3>4, <3>5 DEF k
  <2>3. CASE FileStep(c, k, p)
    <3> HIDE DEF k
    <3>1. PICK m : PutMedia(c, k, m, p)
      BY <2>3 DEF FileStep
    <3>2. k \in Catalogues /\ k.entries = c.entries
      BY <2>1, <3>1, PutMediaSound
    <3>3. EntriesAt(k, Folder(p)) # {}
      BY <3>2 DEF EntriesAt
    <3> QED BY <1>2, <3>2, <3>3 DEF k
  <2> HIDE DEF k
  <2> QED BY <1>2, <2>1, <2>2, <2>3, FileEffect DEF k
<1> QED BY <1>1, <1>2

\* The catalogue from file to file of folder d.
FilesOf(g, c, d) ==
    /\ g[0] = UpsertEntry(RelocateTitle(c, d), d)
    /\ \A n \in Names : g[n] = ReconcileFile(g[n - 1], <<d, n>>)
    /\ \A n \in 0..NNames : g[n] \in Catalogues /\ EntriesAt(g[n], d) # {}

LEMMA FolderOfPair ==
    ASSUME NEW d \in Folders, NEW n \in Names
    PROVE  <<d, n>> \in Paths /\ Folder(<<d, n>>) = d
BY DEF Paths, Folder

LEMMA TitleFiles ==
    ASSUME NEW c \in Catalogues, c.ok, NEW d \in Folders, FilesIn(d) # {},
           found \in [Paths -> Inodes \cup {NoFile}]
    PROVE  \E g : FilesOf(g, c, d) /\ ReconcileTitle(c, d) = g[NNames]
<1> DEFINE base == UpsertEntry(RelocateTitle(c, d), d)
           Goes(h) == [n \in 0..NNames |-> IF n = 0 THEN base ELSE ReconcileFile(h[n - 1], <<d, n>>)]
           g == CHOOSE h : h = Goes(h)
           S == {k \in Catalogues : EntriesAt(k, d) # {}}
           step == [n \in 1..NNames |-> [k \in S |-> ReconcileFile(k, <<d, n>>)]]
<1>0. NNames \in Nat /\ Names = 1..NNames
  BY SizeAssumption DEF Names
<1>1. ReconcileTitle(c, d) = g[NNames]
  BY DEF ReconcileTitle
<1>2. base \in S
  <2>1. PICK e : PutEntry(c, base, e, d)
    BY TitleEffect DEF TitleStep
  <2> HIDE DEF base
  <2> QED BY <2>1, PutEntrySound
<1> HIDE DEF base
<1>3. ASSUME NEW n \in 1..NNames, NEW k \in S PROVE ReconcileFile(k, <<d, n>>) \in S
  <2>1. <<d, n>> \in Paths /\ Folder(<<d, n>>) = d
    BY <1>0, FolderOfPair
  <2> QED BY <2>1, FileKeepsSound
<1>4. step \in [1..NNames -> [S -> S]]
  BY <1>3
<1>5. PICK f \in Recursive(NNames, S, base, step) : TRUE
  <2> HIDE DEF S, step
  <2> QED BY <1>0, <1>2, <1>4, Recursion
<1>6. /\ f \in [0..NNames -> S] /\ f[0] = base
      /\ \A n \in 1..NNames : f[n] = ReconcileFile(f[n - 1], <<d, n>>)
  <2>1. /\ f \in [0..NNames -> S] /\ f[0] = base
        /\ \A n \in 1..NNames : f[n] = step[n][f[n - 1]]
    <3> HIDE DEF S, step
    <3> QED BY <1>5 DEF Recursive
  <2>2. \A n \in 1..NNames : f[n - 1] \in S
    BY <1>0, <2>1
  <2> HIDE DEF S
  <2> QED BY <2>1, <2>2
<1>7. f = Goes(f)
  <2>1. f = [n \in 0..NNames |-> f[n]]
    BY <1>6
  <2>2. \A n \in 0..NNames : n = 0 \/ n \in 1..NNames
    BY <1>0
  <2> HIDE DEF S
  <2> QED BY <1>6, <2>1, <2>2
<1>8. g = Goes(g)
  <2> HIDE DEF Goes
  <2> QED BY <1>7
<1> HIDE DEF g
<1>9. g[0] = base /\ \A n \in 1..NNames : g[n] = ReconcileFile(g[n - 1], <<d, n>>)
  BY <1>0, <1>8
<1>10. ASSUME NEW n \in 0..NNames PROVE g[n] \in S
  <2> DEFINE I == {i \in 0..n : g[i] \in S}
  <2>1. 0 \in I
    BY <1>2, <1>9
  <2>2. ASSUME NEW i \in 1..n, i - 1 \in I PROVE i \in I
    <3>1. i \in 1..NNames
      BY <1>0
    <3>2. g[i] \in S
      BY <1>3, <1>9, <2>2, <3>1
    <3> QED BY <3>2
  <2>3. n \in I
    <3>1. I \in SUBSET (0..n) /\ n \in Nat
      BY <1>0
    <3> HIDE DEF I
    <3> QED BY <2>1, <2>2, <3>1, UpToN
  <2> QED BY <2>3
<1> QED BY <1>0, <1>1, <1>9, <1>10 DEF FilesOf, base

LEMMA TitleKeepsSound ==
    ASSUME NEW c \in Catalogues, NEW d \in Folders, found \in [Paths -> Inodes \cup {NoFile}]
    PROVE  ReconcileTitle(c, d) \in Catalogues
<1>1. CASE FilesIn(d) = {} \/ ~c.ok
  BY <1>1 DEF ReconcileTitle
<1>2. CASE FilesIn(d) # {} /\ c.ok
  <2>1. PICK g : FilesOf(g, c, d) /\ ReconcileTitle(c, d) = g[NNames]
    BY <1>2, TitleFiles
  <2>2. NNames \in 0..NNames
    BY SizeAssumption
  <2> QED BY <2>1, <2>2 DEF FilesOf
<1> QED BY <1>1, <1>2

Stored0 == [entries |-> entries, media |-> media, ok |-> TRUE]

\* The catalogue from folder to folder.
LEMMA TitlesInOrder ==
    ASSUME found \in [Paths -> Inodes \cup {NoFile}], Stored0 \in Catalogues
    PROVE  /\ Titles[0] = Stored0
           /\ \A d \in Folders : Titles[d] = ReconcileTitle(Titles[d - 1], d)
           /\ \A d \in 0..NFolders : Titles[d] \in Catalogues
<1> DEFINE Goes(h) == [d \in 0..NFolders |->
                         IF d = 0 THEN Stored0 ELSE ReconcileTitle(h[d - 1], d)]
           step == [d \in 1..NFolders |-> [c \in Catalogues |-> ReconcileTitle(c, d)]]
<1>0. NFolders \in Nat /\ Folders = 1..NFolders
  BY SizeAssumption DEF Folders
<1>1. step \in [1..NFolders -> [Catalogues -> Catalogues]]
  BY <1>0, TitleKeepsSound
<1>2. PICK f \in Recursive(NFolders, Catalogues, Stored0, step) : TRUE
  <2> HIDE DEF step
  <2> QED BY <1>0, <1>1, Recursion
<1>3. /\ f \in [0..NFolders -> Catalogues] /\ f[0] = Stored0
      /\ \A d \in 1..NFolders : f[d] = ReconcileTitle(f[d - 1], d)
  <2>1. /\ f \in [0..NFolders -> Catalogues] /\ f[0] = Stored0
        /\ \A d \in 1..NFolders : f[d] = step[d][f[d - 1]]
    <3> HIDE DEF step
    <3> QED BY <1>2 DEF Recursive
  <2>2. \A d \in 1..NFolders : f[d - 1] \in Catalogues
    BY <1>0, <2>1
  <2> QED BY <2>1, <2>2
<1>4. f = Goes(f)
  <2>1. f = [d \in 0..NFolders |-> f[d]]
    BY <1>3
  <2>2. \A d \in 0..NFolders : d = 0 \/ d \in 1..NFolders
    BY <1>0
  <2> QED BY <1>3, <2>1, <2>2
<1>5. Titles = CHOOSE h : h = Goes(h)
  BY DEF Titles, Stored0
<1>6. Titles = Goes(Titles)
  <2> HIDE DEF Goes
  <2> QED BY <1>4, <1>5
<1>7. Titles[0] = Stored0 /\ \A d \in 1..NFolders : Titles[d] = ReconcileTitle(Titles[d - 1], d)
  BY <1>0, <1>6
<1>8. ASSUME NEW d \in 0..NFolders PROVE Titles[d] \in Catalogues
  <2> DEFINE I == {i \in 0..d : Titles[i] \in Catalogues}
  <2>1. 0 \in I
    BY <1>7
  <2>2. ASSUME NEW i \in 1..d, i - 1 \in I PROVE i \in I
    <3>1. i \in 1..NFolders
      BY <1>0
    <3>2. Titles[i] \in Catalogues
      BY <1>0, <1>7, <2>2, <3>1, TitleKeepsSound
    <3> QED BY <3>2
  <2>3. d \in I
    <3>1. I \in SUBSET (0..d) /\ d \in Nat
      BY <1>0
    <3> HIDE DEF I
    <3> QED BY <2>1, <2>2, <3>1, UpToN
  <2> QED BY <2>3
<1> QED BY <1>0, <1>7, <1>8

\* To show that the catalogue is in T(NFolders) at the end: T follows from F
\* after the last file of a folder, F from T when a folder is begun, and F is
\* kept from file to file.
FoldersLead(T, F) ==
    /\ \A d \in Folders, c, k \in Catalogues :
          <<d - 1, c>> \in T /\ FilesIn(d) # {} /\ TitleStep(c, k, d) => <<d, 0, k>> \in F
    /\ \A d \in Folders, c \in Catalogues : <<d - 1, c>> \in T /\ FilesIn(d) = {} => <<d, c>> \in T
    /\ \A d \in Folders, c \in Catalogues : <<d, NNames, c>> \in F => <<d, c>> \in T

FilesLead(F) ==
    \A d \in Folders, n \in Names, c \in Catalogues : <<d, n - 1, c>> \in F =>
        /\ found[<<d, n>>] = NoFile => <<d, n, c>> \in F
        /\ \A k \in Catalogues :
              found[<<d, n>>] \in Inodes /\ FileStep(c, k, <<d, n>>) => <<d, n, k>> \in F

LEMMA Follow ==
    ASSUME found \in [Paths -> Inodes \cup {NoFile}], Stored0 \in Catalogues,
           NEW T, NEW F, FoldersLead(T, F), FilesLead(F), <<0, Stored0>> \in T,
           Titles[NFolders].ok
    PROVE  <<NFolders, Titles[NFolders]>> \in T
<1> DEFINE I == {d \in 0..NFolders : Titles[d].ok => <<d, Titles[d]>> \in T}
<1>0. NFolders \in Nat /\ Folders = 1..NFolders /\ NNames \in Nat /\ Names = 1..NNames
  BY SizeAssumption DEF Folders, Names
<1>1. 0 \in I
  BY <1>0, TitlesInOrder
<1>2. ASSUME NEW d \in 1..NFolders, d - 1 \in I PROVE d \in I
  <2> DEFINE c == Titles[d - 1]
             k == Titles[d]
  <2>0. d \in Folders /\ c \in Catalogues /\ k = ReconcileTitle(c, d)
    BY <1>0, TitlesInOrder
  <2>1. SUFFICES ASSUME k.ok PROVE <<d, k>> \in T
    OBVIOUS
  <2> HIDE DEF c, k
  <2>2. CASE ~c.ok
    BY <2>0, <2>1, <2>2 DEF ReconcileTitle
  <2>3. CASE c.ok /\ FilesIn(d) = {}
    <3>1. <<d - 1, c>> \in T
      BY <1>2, <2>3 DEF c
    <3> QED BY <2>0, <2>3, <3>1 DEF ReconcileTitle, FoldersLead
  <2>4. CASE c.ok /\ FilesIn(d) # {}
    <3>1. PICK g : FilesOf(g, c, d) /\ k = g[NNames]
      BY <2>0, <2>4, TitleFiles
    <3> DEFINE J == {n \in 0..NNames : g[n].ok => <<d, n, g[n]>> \in F}
    <3>2. 0 \in J
      <4>1. <<d - 1, c>> \in T
        BY <1>2, <2>4 DEF c
      <4>2. TitleStep(c, g[0], d) /\ g[0] \in Catalogues
        BY <1>0, <2>0, <3>1, TitleEffect DEF FilesOf
      <4>3. <<d, 0, g[0]>> \in F
        BY <2>0, <2>4, <4>1, <4>2 DEF FoldersLead
      <4> QED BY <1>0, <4>3
    <3>3. ASSUME NEW n \in 1..NNames, n - 1 \in J PROVE n \in J
      <4> DEFINE a == g[n - 1]
                 b == g[n]
      <4>0. /\ n - 1 \in 0..NNames /\ a \in Catalogues /\ b \in Catalogues /\ n \in Names
            /\ EntriesAt(a, d) # {} /\ b = ReconcileFile(a, <<d, n>>)
            /\ <<d, n>> \in Paths /\ Folder(<<d, n>>) = d
        BY <1>0, <2>0, <3>1, FolderOfPair DEF FilesOf
      <4>1. SUFFICES ASSUME b.ok PROVE <<d, n, b>> \in F
        OBVIOUS
      <4>2. a.ok => <<d, n - 1, a>> \in F
        BY <3>3
      <4> HIDE DEF a, b
      <4>3. a.ok
        BY <4>0, <4>1, FileKeepsSound
      <4>4. CASE found[<<d, n>>] = NoFile
        <5>1. b = a
          BY <4>0, <4>4 DEF ReconcileFile
        <5> QED BY <2>0, <4>0, <4>2, <4>3, <4>4, <5>1 DEF FilesLead
      <4>5. CASE found[<<d, n>>] \in Inodes
        <5>1. b # [a EXCEPT !.ok = FALSE]
          <6>1. a \in Tables
            BY <4>0 DEF Catalogues
          <6> QED BY <4>1, <6>1 DEF Tables
        <5>2. FileStep(a, b, <<d, n>>)
          BY <4>0, <4>3, <4>5, <5>1, FileEffect
        <5> QED BY <2>0, <4>0, <4>2, <4>3, <4>5, <5>2 DEF FilesLead
      <4> QED BY <4>0, <4>4, <4>5
    <3>4. NNames \in J
      <4>1. J \in SUBSET (0..NNames)
        OBVIOUS
      <4> HIDE DEF J
      <4> QED BY <1>0, <3>2, <3>3, <4>1, UpToN
    <3>5. <<d, NNames, k>> \in F
      BY <2>1, <3>1, <3>4
    <3>6. k \in Catalogues
      BY <2>0, TitleKeepsSound
    <3> QED BY <2>0, <3>5, <3>6 DEF FoldersLead
  <2> QED BY <2>2, <2>3, <2>4
<1>3. NFolders \in I
  <2>1. I \in SUBSET (0..NFolders)
    OBVIOUS
  <2> HIDE DEF I
  <2> QED BY <1>0, <1>1, <1>2, <2>1, UpToN
<1> QED BY <1>3

-----------------------------------------------------------------------------
(* The invariant.                                                          *)

\* A file is at one path: in the collection, and in what was found.
OnePathEach(files) == \A p, q \in Paths : files[p] = files[q] /\ files[p] # NoFile => p = q

\* Until the transaction commits no row has been seen by this scan.
NothingSeenYet ==
    pc \in {"walk", "reconcile"} => \A m \in DOMAIN media : media[m].seen # "now"

\* What a walk that nothing disturbed has found is what is there.
FoundIsThere ==
    pc \in {"walk", "reconcile"} /\ quiet /\ ~issues =>
        \A p \in Paths : found[p] = IF Folder(p) < folder THEN tree[p] ELSE NoFile

AllWalked == pc = "reconcile" => folder > NFolders

SuccessIsIdle == run = "success" => pc = "idle"

NoneLater == \A m \in DOMAIN media : media[m].seen # "after"

\* From the commit on, if nothing is touched.
Mirrors ==
    (run = "success" \/ (pc = "enrich" /\ ~issues)) /\ quiet /\ NoneLater => Listed = Stored

CatInv ==
    /\ TypeOK /\ Stored0 \in Catalogues
    /\ OnePathEach(tree) /\ OnePathEach(found)
    /\ NothingSeenYet /\ FoundIsThere /\ AllWalked /\ SuccessIsIdle
    /\ Mirrors

\* All but the tables.
ControlTypes ==
    /\ tree \in [Paths -> Inodes \cup {NoFile}] /\ found \in [Paths -> Inodes \cup {NoFile}]
    /\ pc \in {"idle", "walk", "reconcile", "enrich"} /\ folder \in 1..(NFolders + 1)
    /\ issues \in BOOLEAN /\ quiet \in BOOLEAN
    /\ run \in {"none", "running", "success", "partial", "failed"}
    /\ edits \in 0..MaxEdits /\ faults \in 0..MaxFaults

LEMMA TypeByTables ==
    ASSUME Stored0 \in Catalogues PROVE TypeOK <=> ControlTypes
<1>1. entries \in Seq(Entry) /\ media \in Seq(Media)
      /\ \A m \in DOMAIN media : media[m].entry \in DOMAIN entries
  BY DEF Stored0, Catalogues, Tables, OneRowEach
<1> QED BY <1>1 DEF TypeOK, ControlTypes

LEMMA TypeByTablesNext ==
    ASSUME (Stored0 \in Catalogues)', ControlTypes' PROVE TypeOK'
<1>1. (Stored0 \in Catalogues => (TypeOK <=> ControlTypes))'
  BY TypeByTables, PTL
<1> QED BY <1>1

LEMMA CatInit == ASSUME Init PROVE CatInv
<1>1. Stored0 \in Catalogues
  <2>1. <<>> \in Seq(Entry) /\ <<>> \in Seq(Media)
    OBVIOUS
  <2>2. Stored0 \in Tables
    BY <2>1 DEF Init, Stored0, Tables
  <2>3. OneRowEach(Stored0)
    BY DEF Init, Stored0, OneRowEach
  <2> QED BY <2>2, <2>3 DEF Catalogues
<1>2. ControlTypes
  <2>1. tree \in [Paths -> Inodes \cup {NoFile}] /\ found \in [Paths -> Inodes \cup {NoFile}]
    BY DEF Init, NothingFound
  <2>2. folder \in 1..(NFolders + 1) /\ edits \in 0..MaxEdits /\ faults \in 0..MaxFaults
    BY SizeAssumption, BoundsAssumption DEF Init
  <2>3. issues \in BOOLEAN /\ quiet \in BOOLEAN
    BY Zenon DEF Init
  <2> QED BY <2>1, <2>2, <2>3 DEF Init, ControlTypes
<1>3. OnePathEach(tree) /\ OnePathEach(found)
  BY DEF Init, NothingFound, OnePathEach
<1>4. NothingSeenYet /\ FoundIsThere /\ AllWalked /\ SuccessIsIdle /\ Mirrors
  BY DEF Init, NothingSeenYet, FoundIsThere, AllWalked, SuccessIsIdle, Mirrors
<1> QED BY <1>1, <1>2, <1>3, <1>4, TypeByTables DEF CatInv

-----------------------------------------------------------------------------
(* The collection is changed.                                              *)

LEMMA EditStep ==
    ASSUME CatInv, NEW files \in [Paths -> Inodes \cup {NoFile}], OnePathEach(files), Edit(files)
    PROVE  CatInv'
<1>1. Stored0' = Stored0 /\ tree' = files
  BY DEF Edit, database, Stored0
<1>2. ControlTypes'
  <2>1. ControlTypes
    BY TypeByTables DEF CatInv
  <2>2. edits' \in 0..MaxEdits
    BY <2>1, BoundsAssumption DEF ControlTypes, Edit
  <2>3. quiet' \in BOOLEAN
    BY Zenon DEF Edit
  <2> QED BY <2>1, <2>2, <2>3 DEF ControlTypes, Edit, discovery
<1>3. (Stored0 \in Catalogues)'
  <2>1. Stored0 \in Catalogues
    BY DEF CatInv
  <2> QED BY <1>1, <2>1 DEF Catalogues, OneRowEach, Tables
<1>4. OnePathEach(tree)' /\ OnePathEach(found)'
  BY <1>1 DEF CatInv, OnePathEach, Edit, discovery
<1>5. NothingSeenYet' /\ FoundIsThere' /\ AllWalked' /\ SuccessIsIdle' /\ Mirrors'
  BY
     DEF CatInv, Edit, discovery, database, NothingSeenYet, FoundIsThere,
         AllWalked,
         SuccessIsIdle, Mirrors
<1>6. TypeOK'
  BY <1>2, <1>3, TypeByTablesNext
<1> QED BY <1>3, <1>4, <1>5, <1>6 DEF CatInv

LEMMA OwnerStep == ASSUME CatInv, Owner PROVE CatInv'
<1>0. tree \in [Paths -> Inodes \cup {NoFile}] /\ OnePathEach(tree)
  BY DEF CatInv, TypeOK
<1>1. CASE AddFile
  <2>1. PICK p \in Paths, i \in Inodes : Absent(i) /\ Edit([tree EXCEPT ![p] = i])
    BY <1>1 DEF AddFile
  <2> DEFINE files == [tree EXCEPT ![p] = i]
  <2>2. files \in [Paths -> Inodes \cup {NoFile}] /\ OnePathEach(files)
    BY <1>0, <2>1 DEF Absent, OnePathEach
  <2> HIDE DEF files
  <2> QED BY <2>1, <2>2, EditStep DEF files
<1>2. CASE RemoveFile
  <2>1. PICK p \in Paths : Edit([tree EXCEPT ![p] = NoFile])
    BY <1>2 DEF RemoveFile
  <2> DEFINE files == [tree EXCEPT ![p] = NoFile]
  <2>2. files \in [Paths -> Inodes \cup {NoFile}] /\ OnePathEach(files)
    BY <1>0 DEF OnePathEach
  <2> HIDE DEF files
  <2> QED BY <2>1, <2>2, EditStep DEF files
<1>3. CASE RenameFile
  <2>1. PICK p, q \in Paths :
            p # q /\ tree[p] # NoFile /\ Edit([tree EXCEPT ![p] = NoFile, ![q] = tree[p]])
    BY <1>3 DEF RenameFile
  <2> DEFINE files == [tree EXCEPT ![p] = NoFile, ![q] = tree[p]]
  <2>2. files \in [Paths -> Inodes \cup {NoFile}]
    BY <1>0
  <2>3. /\ files[q] = tree[p] /\ files[p] = NoFile
        /\ \A r \in Paths \ {p, q} : files[r] = tree[r]
    BY <1>0, <2>1
  <2> HIDE DEF files
  <2>4. OnePathEach(files)
    BY <1>0, <2>1, <2>3 DEF OnePathEach
  <2> QED BY <2>1, <2>2, <2>4, EditStep DEF files
<1>4. CASE RenameFolder
  <2>1. PICK d, e \in Folders :
            /\ d # e /\ \A p \in Paths : Folder(p) = e => tree[p] = NoFile
            /\ Edit([p \in Paths |-> CASE Folder(p) = d -> NoFile
                                         [] Folder(p) = e -> tree[<<d, p[2]>>]
                                         [] OTHER -> tree[p]])
    BY <1>4 DEF RenameFolder
  <2> DEFINE files == [p \in Paths |-> CASE Folder(p) = d -> NoFile
                                         [] Folder(p) = e -> tree[<<d, p[2]>>]
                                         [] OTHER -> tree[p]]
  <2>2. \A p \in Paths : /\ <<d, p[2]>> \in Paths /\ Folder(<<d, p[2]>>) = d
                         /\ p = <<Folder(p), p[2]>>
    BY DEF Paths, Folder
  <2>3. ASSUME NEW p \in Paths
        PROVE  /\ Folder(p) = d => files[p] = NoFile
               /\ Folder(p) = e => files[p] = tree[<<d, p[2]>>]
               /\ Folder(p) # d /\ Folder(p) # e => files[p] = tree[p]
    BY <2>1
  <2>4. files \in [Paths -> Inodes \cup {NoFile}]
    <3>1. \A p \in Paths : files[p] \in Inodes \cup {NoFile}
      <4> HIDE DEF files
      <4> QED BY <1>0, <2>2, <2>3
    <3>2. files = [p \in Paths |-> files[p]]
      OBVIOUS
    <3> HIDE DEF files
    <3> QED BY <3>1, <3>2
  <2> HIDE DEF files
  <2>5. OnePathEach(files)
    <3>1. SUFFICES ASSUME NEW p \in Paths, NEW q \in Paths,
                          files[p] = files[q], files[p] # NoFile
                   PROVE  p = q
      BY DEF OnePathEach
    <3>2. CASE Folder(p) = e /\ Folder(q) = e
      <4>1. tree[<<d, p[2]>>] = tree[<<d, q[2]>>] /\ tree[<<d, p[2]>>] # NoFile
        BY <2>3, <3>1, <3>2
      <4>2. <<d, p[2]>> = <<d, q[2]>>
        BY <1>0, <2>2, <4>1 DEF OnePathEach
      <4>3. p[2] = q[2]
        BY <4>2
      <4> QED BY <2>2, <3>2, <4>3
    <3>3. CASE Folder(p) = e /\ Folder(q) # e
      <4>1. tree[<<d, p[2]>>] = tree[q] /\ tree[q] # NoFile /\ Folder(q) # d
        BY <2>3, <3>1, <3>3
      <4> QED BY <1>0, <2>2, <4>1 DEF OnePathEach
    <3>4. CASE Folder(p) # e /\ Folder(q) = e
      <4>1. tree[<<d, q[2]>>] = tree[p] /\ tree[p] # NoFile /\ Folder(p) # d
        BY <2>3, <3>1, <3>4
      <4> QED BY <1>0, <2>2, <4>1 DEF OnePathEach
    <3>5. CASE Folder(p) # e /\ Folder(q) # e
      <4>1. tree[p] = tree[q] /\ tree[p] # NoFile
        BY <2>3, <3>1, <3>5
      <4> QED BY <1>0, <4>1 DEF OnePathEach
    <3> QED BY <3>2, <3>3, <3>4, <3>5
  <2> QED BY <2>1, <2>4, <2>5, EditStep DEF files
<1> QED BY <1>1, <1>2, <1>3, <1>4 DEF Owner

-----------------------------------------------------------------------------
(* The scan, but for its transaction.                                      *)

LEMMA Redated ==
    ASSUME Stored0 \in Catalogues, NEW later
    PROVE  /\ [entries |-> Redate(entries, later), media |-> Redate(media, later), ok |-> TRUE]
                 \in Catalogues
           /\ \A m \in DOMAIN media : Redate(media, later)[m].seen # "now"
<1> DEFINE E == Redate(entries, later)
           M == Redate(media, later)
           k == [entries |-> E, media |-> M, ok |-> TRUE]
<1>0. entries \in Seq(Entry) /\ media \in Seq(Media) /\ OneRowEach(Stored0)
  BY DEF Stored0, Catalogues, Tables
<1>1. ASSUME NEW e \in DOMAIN entries
      PROVE  E[e] \in Entry /\ E[e].folder = entries[e].folder
  <2> DEFINE row == entries[e]
             seen == IF row.seen \in later THEN "after" ELSE "before"
  <2>1. row \in Entry
    BY <1>0
  <2>2. E[e] = [row EXCEPT !.seen = seen]
    BY DEF Redate
  <2>3. seen \in Seen
    BY DEF Seen
  <2> HIDE DEF row, seen, E
  <2>4. E[e] = [folder |-> row.folder, available |-> row.available, seen |-> seen]
    BY <2>1, <2>2, EntryParts
  <2>5. row.folder \in Folders /\ row.available \in BOOLEAN
    BY <2>1, Zenon DEF Entry
  <2> QED BY <2>3, <2>4, <2>5 DEF Entry, row
<1>2. ASSUME NEW m \in DOMAIN media
      PROVE  /\ M[m] \in Media /\ M[m].entry = media[m].entry /\ M[m].path = media[m].path
             /\ M[m].inode = media[m].inode /\ M[m].seen # "now"
  <2> DEFINE row == media[m]
             seen == IF row.seen \in later THEN "after" ELSE "before"
  <2>1. row \in Media
    BY <1>0
  <2>2. M[m] = [row EXCEPT !.seen = seen]
    BY DEF Redate
  <2>3. seen \in Seen /\ seen # "now"
    BY DEF Seen
  <2> HIDE DEF row, seen, M
  <2>4. M[m] = [entry |-> row.entry, path |-> row.path, inode |-> row.inode,
                available |-> row.available, seen |-> seen]
    BY <2>1, <2>2 DEF Media
  <2>5. /\ row.entry \in Nat \ {0} /\ row.path \in Paths /\ row.inode \in Inodes \cup {NoFile}
        /\ row.available \in BOOLEAN
    BY <2>1, Zenon DEF Media
  <2> QED BY <2>3, <2>4, <2>5 DEF Media, row
<1>3. DOMAIN E = DOMAIN entries /\ DOMAIN M = DOMAIN media
  BY DEF Redate
<1>4. E = [e \in 1..Len(entries) |-> E[e]] /\ M = [m \in 1..Len(media) |-> M[m]]
      /\ Len(entries) \in Nat /\ Len(media) \in Nat
      /\ DOMAIN entries = 1..Len(entries) /\ DOMAIN media = 1..Len(media)
  BY <1>0 DEF Redate
<1> HIDE DEF E, M
<1>5. E \in Seq(Entry) /\ M \in Seq(Media)
  <2>1. E \in [1..Len(entries) -> Entry] /\ M \in [1..Len(media) -> Media]
    BY <1>1, <1>2, <1>4
  <2> QED BY <1>4, <2>1
<1>6. OneRowEach(k)
  BY <1>0, <1>1, <1>2, <1>3 DEF OneRowEach, Stored0
<1>7. k \in Tables
  BY <1>5 DEF Tables
<1> QED BY <1>2, <1>6, <1>7 DEF Catalogues, E, M

LEMMA FaultTypes ==
    ASSUME ControlTypes, faults' = faults \/ (faults < MaxFaults /\ faults' = faults + 1)
    PROVE  faults' \in 0..MaxFaults
BY BoundsAssumption DEF ControlTypes

LEMMA StartStep == ASSUME CatInv, StartScan PROVE CatInv'
<1>1. PICK later : /\ entries' = Redate(entries, later) /\ media' = Redate(media, later)
                   /\ faults' = faults \/ (faults < MaxFaults /\ faults' = faults + 1)
  BY DEF StartScan
<1>2. /\ pc' = "walk" /\ folder' = 1 /\ found' = NothingFound /\ issues' = FALSE
      /\ run' = "running" /\ quiet' = TRUE /\ tree' = tree /\ edits' = edits
  BY DEF StartScan
<1>3. (Stored0 \in Catalogues)' /\ NothingSeenYet'
  <2>1. Stored0' = [entries |-> Redate(entries, later), media |-> Redate(media, later), ok |-> TRUE]
    BY <1>1 DEF Stored0
  <2>2. Stored0' \in Catalogues /\ \A m \in DOMAIN media : Redate(media, later)[m].seen # "now"
    BY <2>1, Redated DEF CatInv
  <2>3. DOMAIN media' = DOMAIN media
    BY <1>1 DEF Redate
  <2>4. NothingSeenYet'
    BY <1>1, <2>2, <2>3 DEF NothingSeenYet
  <2> QED BY <2>2, <2>4 DEF Catalogues, Tables, OneRowEach
<1>4. ControlTypes'
  <2>1. ControlTypes
    BY TypeByTables DEF CatInv
  <2>2. faults' \in 0..MaxFaults
    BY <1>1, <2>1, FaultTypes
  <2>3. issues' \in BOOLEAN /\ quiet' \in BOOLEAN
    BY <1>2, Zenon
  <2>4. found' \in [Paths -> Inodes \cup {NoFile}] /\ folder' \in 1..(NFolders + 1)
    BY <1>2, SizeAssumption DEF NothingFound
  <2> QED BY <1>2, <2>1, <2>2, <2>3, <2>4 DEF ControlTypes
<1>5. OnePathEach(tree)' /\ OnePathEach(found)'
  BY <1>2 DEF CatInv, OnePathEach, NothingFound
<1>6. FoundIsThere'
  <2>1. \A p \in Paths : ~(Folder(p) < 1) /\ found'[p] = NoFile
    BY <1>2, PathParts DEF Folders, NothingFound
  <2> QED BY <1>2, <2>1 DEF FoundIsThere
<1>7. AllWalked' /\ SuccessIsIdle' /\ Mirrors'
  BY <1>2 DEF AllWalked, SuccessIsIdle, Mirrors
<1> QED BY <1>3, <1>4, <1>5, <1>6, <1>7, TypeByTablesNext DEF CatInv

LEMMA VisitStep == ASSUME CatInv, VisitFolder PROVE CatInv'
<1> DEFINE kept == {p \in Visible(folder) : ~Repeated(p)}
<1>1. ControlTypes /\ OnePathEach(tree) /\ OnePathEach(found) /\ FoundIsThere
  BY TypeByTables DEF CatInv
<1>2. /\ pc = "walk" /\ folder <= NFolders /\ folder' = folder + 1
      /\ UNCHANGED <<tree, entries, media, pc, run, quiet, edits>>
  BY DEF VisitFolder, database
<1>3. \E read \in SUBSET kept :
        /\ found' = [p \in Paths |-> IF p \in read THEN tree[p] ELSE found[p]]
        /\ issues' = TRUE \/ (read = kept /\ issues' = (issues \/ kept # Visible(folder)))
  BY Zenon DEF VisitFolder
<1>4. PICK read \in SUBSET kept :
        /\ found' = [p \in Paths |-> IF p \in read THEN tree[p] ELSE found[p]]
        /\ issues' = TRUE \/ (read = kept /\ issues' = (issues \/ kept # Visible(folder)))
  BY <1>3
<1>5. ControlTypes'
  <2>1. faults' \in 0..MaxFaults
    <3>1. faults' = faults \/ (faults < MaxFaults /\ faults' = faults + 1)
      BY DEF VisitFolder
    <3> QED BY <1>1, <3>1, FaultTypes
  <2>2. issues' \in BOOLEAN
    BY <1>1, <1>4, Zenon DEF ControlTypes
  <2>3. folder' \in 1..(NFolders + 1)
    BY <1>1, <1>2, SizeAssumption DEF ControlTypes
  <2>4. found' \in [Paths -> Inodes \cup {NoFile}]
    BY <1>1, <1>4 DEF ControlTypes
  <2> QED BY <1>1, <1>2, <2>1, <2>2, <2>3, <2>4 DEF ControlTypes
<1>6. OnePathEach(found)'
  <2>1. \A p \in read, q \in Paths : tree[p] # NoFile /\ found[q] # tree[p]
    BY DEF Visible, Repeated
  <2> HIDE DEF kept
  <2>2. ASSUME NEW p \in Paths, NEW q \in Paths, found'[p] = found'[q], found'[p] # NoFile
        PROVE  p = q
    <3>1. CASE p \in read /\ q \in read
      BY <1>1, <1>4, <2>2, <3>1 DEF OnePathEach
    <3>2. CASE ~(p \in read /\ q \in read)
      BY <1>1, <1>4, <2>1, <2>2, <3>2 DEF OnePathEach
    <3> QED BY <3>1, <3>2
  <2> QED BY <2>2 DEF OnePathEach
<1>7. FoundIsThere'
  <2>1. SUFFICES ASSUME quiet, ~issues', NEW p \in Paths
                 PROVE  found'[p] = IF Folder(p) < folder + 1 THEN tree[p] ELSE NoFile
    BY <1>2 DEF FoundIsThere
  <2>2. ~issues /\ read = kept /\ kept = Visible(folder)
    BY <1>4, <2>1
  <2>3. p \in read <=> Folder(p) = folder /\ tree[p] # NoFile
    BY <2>2 DEF Visible
  <2> HIDE DEF kept
  <2>4. found[p] = IF Folder(p) < folder THEN tree[p] ELSE NoFile
    BY <1>1, <1>2, <2>1, <2>2 DEF FoundIsThere
  <2>5. Folder(p) \in Nat /\ folder \in Nat
    BY <1>1, PathParts DEF ControlTypes, Folders
  <2>6. found'[p] = IF p \in read THEN tree[p] ELSE found[p]
    BY <1>4
  <2>7. CASE Folder(p) = folder
    BY <2>3, <2>4, <2>5, <2>6, <2>7
  <2>8. CASE Folder(p) # folder
    BY <2>3, <2>4, <2>5, <2>6, <2>8
  <2> QED BY <2>7, <2>8
<1>8. (Stored0 \in Catalogues)' /\ OnePathEach(tree)'
  <2>1. Stored0' = Stored0 /\ Stored0 \in Catalogues
    BY <1>2 DEF CatInv, Stored0
  <2> QED BY <1>1, <1>2, <2>1 DEF OnePathEach, Catalogues, Tables, OneRowEach
<1>9. NothingSeenYet' /\ AllWalked' /\ SuccessIsIdle' /\ Mirrors'
  BY <1>2 DEF CatInv, NothingSeenYet, AllWalked, SuccessIsIdle, Mirrors
<1> QED BY <1>5, <1>6, <1>7, <1>8, <1>9, TypeByTablesNext DEF CatInv

\* The end of the walk, and the ends of the scan.
LEMMA EndStep ==
    ASSUME CatInv, EndWalk \/ FinishScan \/ FailScan \/ Crash
    PROVE  CatInv'
<1>1. UNCHANGED <<tree, entries, media, folder, found, issues, quiet, edits>>
  BY DEF EndWalk, FinishScan, FailScan, Crash, database, discovery
<1>2. ControlTypes'
  <2>1. ControlTypes
    BY TypeByTables DEF CatInv
  <2>2. faults' = faults \/ (faults < MaxFaults /\ faults' = faults + 1)
    BY DEF EndWalk, FinishScan, FailScan, Crash
  <2>3. faults' \in 0..MaxFaults
    BY <2>1, <2>2, FaultTypes
  <2>4. pc' \in {"idle", "walk", "reconcile", "enrich"}
        /\ run' \in {run, "partial", "success", "failed"}
    BY DEF EndWalk, FinishScan, FailScan, Crash
  <2> QED BY <1>1, <2>1, <2>3, <2>4 DEF ControlTypes
<1>3. (Stored0 \in Catalogues)' /\ OnePathEach(tree)' /\ OnePathEach(found)'
  <2>1. Stored0' = Stored0 /\ Stored0 \in Catalogues
    BY <1>1 DEF CatInv, Stored0
  <2> QED BY <1>1, <2>1 DEF CatInv, OnePathEach, Catalogues, Tables, OneRowEach
<1>4. CASE EndWalk
  <2>1. NothingSeenYet' /\ FoundIsThere' /\ AllWalked' /\ SuccessIsIdle' /\ Mirrors'
    BY <1>1, <1>4
       DEF CatInv, EndWalk, NothingSeenYet, FoundIsThere, AllWalked,
           SuccessIsIdle,
                      Mirrors
  <2> QED BY <1>2, <1>3, <2>1, TypeByTablesNext DEF CatInv
<1>5. CASE FinishScan \/ FailScan \/ Crash
  <2>1. /\ pc' = "idle"
        /\ run' = "success" => (pc = "enrich" /\ ~issues) \/ run = "success"
    BY <1>5 DEF FinishScan, FailScan, Crash
  <2>2. NothingSeenYet' /\ FoundIsThere' /\ AllWalked' /\ SuccessIsIdle'
    BY <2>1 DEF NothingSeenYet, FoundIsThere, AllWalked, SuccessIsIdle
  <2>3. Mirrors'
    <3>1. Listed' = Listed /\ Stored' = Stored /\ NoneLater' = NoneLater
      BY <1>1 DEF Listed, Stored, NoneLater, Displayed, Available
    <3> QED BY <1>1, <2>1, <3>1 DEF CatInv, Mirrors
  <2> QED BY <1>2, <1>3, <2>2, <2>3, TypeByTablesNext DEF CatInv
<1> QED BY <1>4, <1>5

-----------------------------------------------------------------------------
(* What the transaction has seen so far: the files done.                   *)

\* The rows seen now are those of the files in Q, as they were found.
SeenRows(c, Q) ==
    /\ \A m \in DOMAIN c.media : c.media[m].seen = "now" =>
          /\ c.media[m].path \in Q /\ c.media[m].inode = found[c.media[m].path]
          /\ c.media[m].available
          /\ c.entries[c.media[m].entry].available
          /\ c.entries[c.media[m].entry].seen = "now"
    /\ \A p \in Q : found[p] # NoFile =>
          \E m \in DOMAIN c.media : c.media[m].path = p /\ c.media[m].seen = "now"

FreshEntry(c, d) ==
    \A e \in EntriesAt(c, d) : c.entries[e].available /\ c.entries[e].seen = "now"

LEMMA SeenByTitle ==
    ASSUME NEW c \in Catalogues, NEW k, NEW d, NEW Q, TitleStep(c, k, d), SeenRows(c, Q)
    PROVE  SeenRows(k, Q) /\ FreshEntry(k, d)
<1>1. PICK e : PutEntry(c, k, e, d)
  BY DEF TitleStep
<1>2. k.media = c.media /\ OneRowEach(c)
  BY <1>1 DEF PutEntry, Catalogues
<1>3. /\ k.entries[e].available /\ k.entries[e].seen = "now"
      /\ \A n \in DOMAIN c.entries \ {e} : k.entries[n] = c.entries[n] /\ c.entries[n].folder # d
      /\ DOMAIN k.entries = DOMAIN c.entries \cup {e}
  BY <1>1 DEF PutEntry, EntryRow
<1>4. SeenRows(k, Q)
  BY <1>2, <1>3 DEF SeenRows, OneRowEach
<1>5. FreshEntry(k, d)
  BY <1>3 DEF FreshEntry, EntriesAt
<1> QED BY <1>4, <1>5

LEMMA SeenByFile ==
    ASSUME NEW c \in Catalogues, NEW k, NEW p \in Paths, NEW Q \in SUBSET Paths,
           FileStep(c, k, p), found[p] \in Inodes, OnePathEach(found),
           SeenRows(c, Q), FreshEntry(c, Folder(p))
    PROVE  SeenRows(k, Q \cup {p}) /\ FreshEntry(k, Folder(p))
<1>1. PICK m : PutMedia(c, k, m, p)
  BY DEF FileStep
<1>2. PICK e \in EntriesAt(c, Folder(p)) : k.media[m] = MediaRow(e, p)
  BY <1>1 DEF PutMedia
<1>3. /\ k.media[m].path = p /\ k.media[m].inode = found[p] /\ k.media[m].available
      /\ k.media[m].entry = e /\ k.media[m].seen = "now"
  BY <1>2 DEF MediaRow
<1>4. /\ k.entries = c.entries /\ DOMAIN k.media = DOMAIN c.media \cup {m}
      /\ \A n \in DOMAIN c.media \ {m} : k.media[n] = c.media[n]
      /\ m \in DOMAIN c.media => c.media[m].path = p \/ c.media[m].inode = found[p]
  BY <1>1 DEF PutMedia
<1>5. FreshEntry(k, Folder(p))
  BY <1>4 DEF FreshEntry, EntriesAt
<1>6. ASSUME NEW n \in DOMAIN k.media, k.media[n].seen = "now"
      PROVE  /\ k.media[n].path \in Q \cup {p} /\ k.media[n].inode = found[k.media[n].path]
             /\ k.media[n].available
             /\ k.entries[k.media[n].entry].available
             /\ k.entries[k.media[n].entry].seen = "now"
  <2>1. CASE n = m
    BY <1>2, <1>3, <1>4, <2>1 DEF FreshEntry
  <2>2. CASE n # m
    BY <1>4, <1>6, <2>2 DEF SeenRows
  <2> QED BY <2>1, <2>2
<1>7. ASSUME NEW q \in Q \cup {p}, found[q] # NoFile
      PROVE  \E n \in DOMAIN k.media : k.media[n].path = q /\ k.media[n].seen = "now"
  <2>1. CASE q = p
    BY <1>3, <1>4, <2>1
  <2>2. CASE q # p
    <3>1. q \in Q /\ q \in Paths
      BY <1>7, <2>2
    <3>2. PICK n \in DOMAIN c.media : c.media[n].path = q /\ c.media[n].seen = "now"
      BY <1>7, <3>1 DEF SeenRows
    <3>3. c.media[n].inode = found[q]
      BY <3>2 DEF SeenRows
    <3>4. n # m
      BY <1>4, <1>7, <2>2, <3>1, <3>2, <3>3 DEF OnePathEach
    <3> QED BY <1>4, <3>2, <3>4
  <2> QED BY <2>1, <2>2
<1> QED BY <1>5, <1>6, <1>7 DEF SeenRows

\* The files up to the n-th of folder d.
Through(d, n) == {p \in Paths : Folder(p) < d \/ (Folder(p) = d /\ p[2] <= n)}

LEMMA ThroughSteps ==
    ASSUME NEW d \in Folders
    PROVE  /\ Through(d, 0) = Through(d - 1, NNames)
           /\ \A n \in Names : Through(d, n) = Through(d, n - 1) \cup {<<d, n>>}
<1>1. ASSUME NEW p \in Paths
      PROVE  /\ Folder(p) \in Nat /\ p[2] \in Nat /\ p[2] > 0 /\ p[2] <= NNames
             /\ p = <<Folder(p), p[2]>>
  BY PathParts, SizeAssumption DEF Folders, Names
<1>2. d \in Nat /\ NNames \in Nat
  BY SizeAssumption DEF Folders
<1>3. Through(d, 0) = Through(d - 1, NNames)
  <2>1. ASSUME NEW p \in Paths
        PROVE  (Folder(p) < d \/ (Folder(p) = d /\ p[2] <= 0))
                 <=> (Folder(p) < d - 1 \/ (Folder(p) = d - 1 /\ p[2] <= NNames))
    BY <1>1, <1>2
  <2> QED BY <2>1 DEF Through
<1>4. ASSUME NEW n \in Names PROVE Through(d, n) = Through(d, n - 1) \cup {<<d, n>>}
  <2>1. <<d, n>> \in Paths /\ Folder(<<d, n>>) = d /\ <<d, n>>[2] = n /\ n \in Nat
    BY FolderOfPair, SizeAssumption DEF Names
  <2>2. ASSUME NEW p \in Paths
        PROVE  (Folder(p) < d \/ (Folder(p) = d /\ p[2] <= n))
                 <=> (Folder(p) < d \/ (Folder(p) = d /\ p[2] <= n - 1)) \/ p = <<d, n>>
    <3>1. p[2] <= n <=> p[2] <= n - 1 \/ p[2] = n
      BY <1>1, <2>1
    <3>2. p = <<d, n>> <=> Folder(p) = d /\ p[2] = n
      BY <1>1, <2>1
    <3> QED BY <3>1, <3>2
  <2> QED BY <2>1, <2>2 DEF Through
<1> QED BY <1>3, <1>4

\* After the last file: the rows seen now are those of the files found.
LEMMA AllSeen ==
    ASSUME found \in [Paths -> Inodes \cup {NoFile}], OnePathEach(found),
           Stored0 \in Catalogues, \A m \in DOMAIN media : media[m].seen # "now",
           Titles[NFolders].ok
    PROVE  SeenRows(Titles[NFolders], Paths)
<1> DEFINE T == {x \in (0..NFolders) \X Catalogues : SeenRows(x[2], Through(x[1], NNames))}
           F == {x \in Folders \X (0..NNames) \X Catalogues :
                    SeenRows(x[3], Through(x[1], x[2])) /\ FreshEntry(x[3], x[1])}
<1>0. NFolders \in Nat /\ Folders = 1..NFolders /\ NNames \in Nat /\ Names = 1..NNames
  BY SizeAssumption DEF Folders, Names
<1>1. \A d, c : <<d, c>> \in T <=>
          d \in 0..NFolders /\ c \in Catalogues /\ SeenRows(c, Through(d, NNames))
  OBVIOUS
<1>2. \A d, n, c : <<d, n, c>> \in F <=>
          /\ d \in Folders /\ n \in 0..NNames /\ c \in Catalogues
          /\ SeenRows(c, Through(d, n)) /\ FreshEntry(c, d)
  OBVIOUS
<1> HIDE DEF T, F
<1>3. <<0, Stored0>> \in T
  <2>1. Through(0, NNames) = {}
    BY PathParts DEF Through, Folders
  <2>2. SeenRows(Stored0, {})
    BY DEF SeenRows, Stored0
  <2>3. SeenRows(Stored0, Through(0, NNames))
    BY <2>1, <2>2, Zenon
  <2>4. 0 \in 0..NFolders
    BY <1>0
  <2> QED BY <1>0, <1>1, <2>3, <2>4
<1>4. FoldersLead(T, F)
  <2>1. ASSUME NEW d \in Folders, NEW c \in Catalogues, NEW k \in Catalogues,
               <<d - 1, c>> \in T, TitleStep(c, k, d)
        PROVE  <<d, 0, k>> \in F
    <3>1. SeenRows(c, Through(d, 0))
      BY <1>1, <2>1, ThroughSteps
    <3> QED BY <1>0, <1>2, <2>1, <3>1, SeenByTitle
  <2>2. ASSUME NEW d \in Folders, NEW c \in Catalogues, <<d - 1, c>> \in T, FilesIn(d) = {}
        PROVE  <<d, c>> \in T
    <3>1. SeenRows(c, Through(d - 1, NNames))
      BY <1>1, <2>2
    <3>2. Through(d - 1, NNames) \subseteq Through(d, NNames)
          /\ \A p \in Through(d, NNames) : p \in Through(d - 1, NNames) \/ found[p] = NoFile
      <4>1. \A p \in Paths : Folder(p) \in Nat /\ p[2] <= NNames
        BY <1>0, PathParts
      <4>2. d \in Nat
        BY <1>0
      <4>3. \A p \in Paths : Folder(p) = d => found[p] = NoFile
        BY <2>2 DEF FilesIn
      <4> QED BY <4>1, <4>2, <4>3 DEF Through
    <3>3. SeenRows(c, Through(d, NNames))
      BY <3>1, <3>2 DEF SeenRows
    <3> QED BY <1>0, <1>1, <3>3
  <2>3. ASSUME NEW d \in Folders, NEW c \in Catalogues, <<d, NNames, c>> \in F
        PROVE  <<d, c>> \in T
    BY <1>0, <1>1, <1>2, <2>3
  <2> QED BY <2>1, <2>2, <2>3 DEF FoldersLead
<1>5. FilesLead(F)
  <2>1. SUFFICES ASSUME NEW d \in Folders, NEW n \in Names, NEW c \in Catalogues,
                        <<d, n - 1, c>> \in F
                 PROVE  /\ found[<<d, n>>] = NoFile => <<d, n, c>> \in F
                        /\ \A k \in Catalogues :
                              found[<<d, n>>] \in Inodes /\ FileStep(c, k, <<d, n>>)
                                => <<d, n, k>> \in F
    BY DEF FilesLead
  <2>2. /\ SeenRows(c, Through(d, n - 1)) /\ FreshEntry(c, d) /\ n \in 0..NNames
        /\ Through(d, n) = Through(d, n - 1) \cup {<<d, n>>}
    BY <1>0, <1>2, <2>1, ThroughSteps
  <2>3. <<d, n>> \in Paths /\ Folder(<<d, n>>) = d
    BY FolderOfPair
  <2>4. ASSUME found[<<d, n>>] = NoFile PROVE <<d, n, c>> \in F
    <3>1. SeenRows(c, Through(d, n))
      BY <2>2, <2>4 DEF SeenRows
    <3> QED BY <1>2, <2>2, <3>1
  <2>5. ASSUME NEW k \in Catalogues, found[<<d, n>>] \in Inodes, FileStep(c, k, <<d, n>>)
        PROVE  <<d, n, k>> \in F
    <3>1. Through(d, n - 1) \in SUBSET Paths
      BY DEF Through
    <3>2. SeenRows(k, Through(d, n)) /\ FreshEntry(k, d)
      BY <2>2, <2>3, <2>5, <3>1, SeenByFile
    <3> QED BY <1>2, <2>2, <3>2
  <2> QED BY <2>4, <2>5
<1>6. <<NFolders, Titles[NFolders]>> \in T
  BY <1>3, <1>4, <1>5, Follow
<1>7. Through(NFolders, NNames) = Paths
  <2>1. ASSUME NEW p \in Paths
        PROVE  Folder(p) < NFolders \/ (Folder(p) = NFolders /\ p[2] <= NNames)
    BY <1>0, PathParts
  <2> QED BY <2>1 DEF Through
<1> QED BY <1>1, <1>6, <1>7

-----------------------------------------------------------------------------
(* The commit.                                                             *)

\* What was not seen is hidden; nothing else changes.
LEMMA HiddenRows ==
    ASSUME NEW c \in Catalogues
    PROVE  /\ Hidden(c) \in Catalogues
           /\ DOMAIN Hidden(c).entries = DOMAIN c.entries
           /\ DOMAIN Hidden(c).media = DOMAIN c.media
           /\ \A e \in DOMAIN c.entries :
                 /\ Hidden(c).entries[e].folder = c.entries[e].folder
                 /\ c.entries[e].seen # "before" => Hidden(c).entries[e] = c.entries[e]
           /\ \A m \in DOMAIN c.media :
                 /\ Hidden(c).media[m].path = c.media[m].path
                 /\ Hidden(c).media[m].inode = c.media[m].inode
                 /\ Hidden(c).media[m].entry = c.media[m].entry
                 /\ Hidden(c).media[m].seen = c.media[m].seen
                 /\ c.media[m].seen = "before" => ~Hidden(c).media[m].available
                 /\ c.media[m].seen # "before" => Hidden(c).media[m] = c.media[m]
<1> DEFINE E == HideUnseen(c.entries)
           M == HideUnseen(c.media)
<1>0. c.entries \in Seq(Entry) /\ c.media \in Seq(Media) /\ c.ok \in BOOLEAN /\ OneRowEach(c)
  BY DEF Catalogues, Tables
<1>1. ASSUME NEW e \in DOMAIN c.entries
      PROVE  /\ E[e] \in Entry /\ E[e].folder = c.entries[e].folder
             /\ c.entries[e].seen # "before" => E[e] = c.entries[e]
  <2> DEFINE row == c.entries[e]
  <2>1. row \in Entry
    BY <1>0
  <2>2. E[e] = IF row.seen = "before" THEN [row EXCEPT !.available = FALSE] ELSE row
    BY DEF HideUnseen
  <2> HIDE DEF row, E
  <2>3. row.seen = "before" =>
          E[e] = [folder |-> row.folder, available |-> FALSE, seen |-> "before"]
    BY <2>1, <2>2, EntryParts
  <2>4. row.folder \in Folders /\ "before" \in Seen /\ FALSE \in BOOLEAN
    BY <2>1 DEF Entry, Seen
  <2> QED BY <2>1, <2>2, <2>3, <2>4 DEF Entry, row
<1>2. ASSUME NEW m \in DOMAIN c.media
      PROVE  /\ M[m] \in Media /\ M[m].path = c.media[m].path /\ M[m].inode = c.media[m].inode
             /\ M[m].entry = c.media[m].entry /\ M[m].seen = c.media[m].seen
             /\ c.media[m].seen = "before" => ~M[m].available
             /\ c.media[m].seen # "before" => M[m] = c.media[m]
  <2> DEFINE row == c.media[m]
  <2>1. row \in Media
    BY <1>0
  <2>2. M[m] = IF row.seen = "before" THEN [row EXCEPT !.available = FALSE] ELSE row
    BY DEF HideUnseen
  <2> HIDE DEF row, M
  <2>3. row.seen = "before" =>
          M[m] = [entry |-> row.entry, path |-> row.path, inode |-> row.inode,
                  available |-> FALSE, seen |-> "before"]
    BY <2>1, <2>2 DEF Media
  <2>4. /\ row.entry \in Nat \ {0} /\ row.path \in Paths /\ row.inode \in Inodes \cup {NoFile}
        /\ "before" \in Seen /\ FALSE \in BOOLEAN
    BY <2>1 DEF Media, Seen
  <2>5. CASE row.seen = "before"
    <3> DEFINE hidden == [entry |-> row.entry, path |-> row.path, inode |-> row.inode,
                          available |-> FALSE, seen |-> "before"]
    <3>0. hidden \in Media
      BY <2>4 DEF Media
    <3>1. M[m] \in Media
      BY <2>3, <2>5, <3>0, Zenon
    <3>2. /\ M[m].path = row.path /\ M[m].inode = row.inode /\ M[m].entry = row.entry
          /\ M[m].seen = row.seen /\ M[m].available = FALSE
      BY <2>3, <2>5
    <3> QED BY <2>5, <3>1, <3>2 DEF row
  <2>6. CASE row.seen # "before"
    BY <2>1, <2>2, <2>6 DEF row
  <2> QED BY <2>5, <2>6 DEF row
<1>3. DOMAIN E = DOMAIN c.entries /\ DOMAIN M = DOMAIN c.media
  BY DEF HideUnseen
<1>4. /\ E = [e \in 1..Len(c.entries) |-> E[e]] /\ M = [m \in 1..Len(c.media) |-> M[m]]
      /\ Len(c.entries) \in Nat /\ Len(c.media) \in Nat
      /\ DOMAIN c.entries = 1..Len(c.entries) /\ DOMAIN c.media = 1..Len(c.media)
  BY <1>0 DEF HideUnseen
<1>5. Hidden(c) = [entries |-> E, media |-> M, ok |-> c.ok]
  BY DEF Hidden
<1> HIDE DEF E, M
<1>6. E \in Seq(Entry) /\ M \in Seq(Media)
  <2>1. E \in [1..Len(c.entries) -> Entry] /\ M \in [1..Len(c.media) -> Media]
    BY <1>1, <1>2, <1>4
  <2> QED BY <1>4, <2>1
<1>7. Hidden(c).entries = E /\ Hidden(c).media = M
  BY <1>5
<1>8. OneRowEach(Hidden(c))
  BY <1>0, <1>1, <1>2, <1>3, <1>7 DEF OneRowEach
<1>9. Hidden(c) \in Tables
  BY <1>0, <1>5, <1>6 DEF Tables
<1> QED BY <1>1, <1>2, <1>3, <1>7, <1>8, <1>9 DEF Catalogues

\* The transaction commits what the last folder left, hiding what was not seen
\* if nothing went wrong, or it changes nothing.
LEMMA Committed ==
    ASSUME CatInv, Reconcile
    PROVE  /\ pc = "reconcile" /\ UNCHANGED <<tree, found, folder, issues, quiet, edits, faults>>
           /\ \/ /\ Titles[NFolders].ok /\ pc' = "enrich" /\ run' = run
                 /\ Stored0' = IF issues THEN Titles[NFolders] ELSE Hidden(Titles[NFolders])
              \/ Stored0' = Stored0 /\ pc' = "idle" /\ run' = "failed"
                 /\ UNCHANGED <<entries, media>>
<1> DEFINE c == Reconciled
           last == Titles[NFolders]
<1>0. found \in [Paths -> Inodes \cup {NoFile}] /\ Stored0 \in Catalogues
  BY DEF CatInv, TypeOK
<1>1. last \in Catalogues
  BY <1>0, TitlesInOrder, SizeAssumption
<1>2. pc = "reconcile" /\ UNCHANGED <<tree, found, folder, issues, quiet, edits, faults>>
  BY DEF Reconcile, discovery
<1>3. c = IF issues THEN last ELSE Hidden(last)
  BY DEF Reconciled
<1>4. c.ok = last.ok /\ c = [entries |-> c.entries, media |-> c.media, ok |-> c.ok]
      /\ c.ok \in BOOLEAN
  <2> HIDE DEF last, c
  <2>1. last = [entries |-> last.entries, media |-> last.media, ok |-> last.ok]
        /\ last.ok \in BOOLEAN
    BY <1>1 DEF Catalogues, Tables
  <2> QED BY <1>3, <2>1 DEF Hidden
<1>5. \/ c.ok /\ entries' = c.entries /\ media' = c.media /\ pc' = "enrich" /\ run' = run
      \/ UNCHANGED <<entries, media>> /\ pc' = "idle" /\ run' = "failed"
  <2> HIDE DEF c
  <2> QED BY DEF Reconcile, database, c
<1> HIDE DEF c, last
<1>6. CASE c.ok /\ entries' = c.entries /\ media' = c.media /\ pc' = "enrich" /\ run' = run
  <2>1. c = [entries |-> c.entries, media |-> c.media, ok |-> TRUE]
    BY <1>4, <1>6
  <2>2. Stored0' = c
    BY <1>6, <2>1 DEF Stored0
  <2> QED BY <1>2, <1>3, <1>4, <1>6, <2>2 DEF last
<1>7. CASE UNCHANGED <<entries, media>> /\ pc' = "idle" /\ run' = "failed"
  BY <1>2, <1>7 DEF Stored0
<1> QED BY <1>5, <1>6, <1>7

\* With nothing hidden by mistake: what is listed is what was found.
LEMMA ListedIsFound ==
    ASSUME CatInv, Reconcile, pc' = "enrich", ~issues, NoneLater'
    PROVE  Listed' = {<<p, found[p]>> : p \in {q \in Paths : found[q] # NoFile}}
<1> DEFINE c == Titles[NFolders]
<1>0. found \in [Paths -> Inodes \cup {NoFile}] /\ Stored0 \in Catalogues
  BY DEF CatInv, TypeOK
<1>1. c.ok /\ Stored0' = Hidden(c) /\ pc = "reconcile"
  BY Committed
<1>2. c \in Catalogues
  BY <1>0, TitlesInOrder, SizeAssumption
<1>3. SeenRows(c, Paths)
  BY <1>0, <1>1, AllSeen DEF CatInv, NothingSeenYet
<1>4. entries' = Hidden(c).entries /\ media' = Hidden(c).media
  BY <1>1 DEF Stored0
<1> HIDE DEF c
<1>5. /\ c.media \in Seq(Media) /\ OneRowEach(c)
      /\ \A m \in DOMAIN c.media : c.media[m].seen \in {"before", "now", "after"}
                                  /\ c.media[m].path \in Paths
  <2>1. c.media \in Seq(Media) /\ OneRowEach(c)
    BY <1>2 DEF Catalogues, Tables
  <2>2. \A m \in DOMAIN c.media : c.media[m] \in Media
    BY <2>1
  <2> QED BY <2>1, <2>2 DEF Media, Seen
<1>6. DOMAIN media' = DOMAIN c.media
  BY <1>2, <1>4, HiddenRows
<1>7. ASSUME NEW m \in DOMAIN c.media
      PROVE  /\ media'[m].path = c.media[m].path /\ media'[m].inode = c.media[m].inode
             /\ (media'[m].available /\ entries'[media'[m].entry].available)
                    <=> c.media[m].seen = "now"
  <2>1. /\ media'[m].path = c.media[m].path /\ media'[m].inode = c.media[m].inode
        /\ media'[m].entry = c.media[m].entry /\ media'[m].seen = c.media[m].seen
        /\ c.media[m].seen = "before" => ~media'[m].available
        /\ c.media[m].seen # "before" => media'[m] = c.media[m]
    BY <1>2, <1>4, HiddenRows
  <2>2. c.media[m].seen # "after"
    BY <1>6, <2>1 DEF NoneLater
  <2>3. CASE c.media[m].seen = "before"
    BY <2>1, <2>3
  <2>4. CASE c.media[m].seen = "now"
    <3>1. /\ c.media[m].available /\ c.entries[c.media[m].entry].available
          /\ c.entries[c.media[m].entry].seen = "now" /\ c.media[m].entry \in DOMAIN c.entries
      BY <1>3, <1>5, <2>4 DEF SeenRows, OneRowEach
    <3>2. entries'[c.media[m].entry] = c.entries[c.media[m].entry]
      BY <1>2, <1>4, <3>1, HiddenRows
    <3> QED BY <2>1, <2>4, <3>1, <3>2
  <2> QED BY <1>5, <2>1, <2>2, <2>3, <2>4
<1>8. Listed' = {<<c.media[m].path, c.media[m].inode>> :
                    m \in {n \in DOMAIN c.media : c.media[n].seen = "now"}}
  <2>1. Displayed' = {n \in DOMAIN c.media : c.media[n].seen = "now"}
    BY <1>6, <1>7 DEF Displayed, Available
  <2> QED BY <1>7, <2>1 DEF Listed
<1>9. ASSUME NEW m \in DOMAIN c.media, c.media[m].seen = "now"
      PROVE  /\ c.media[m].path \in Paths /\ c.media[m].inode = found[c.media[m].path]
             /\ found[c.media[m].path] # NoFile
  BY <1>3, <1>5, <1>9 DEF SeenRows, OneRowEach
<1>10. ASSUME NEW p \in Paths, found[p] # NoFile
       PROVE  \E m \in DOMAIN c.media :
                 c.media[m].path = p /\ c.media[m].seen = "now" /\ c.media[m].inode = found[p]
  BY <1>3, <1>10 DEF SeenRows
<1> QED BY <1>8, <1>9, <1>10

LEMMA ReconcileStep == ASSUME CatInv, Reconcile PROVE CatInv'
<1>0. /\ found \in [Paths -> Inodes \cup {NoFile}] /\ Stored0 \in Catalogues /\ ControlTypes
      /\ OnePathEach(tree) /\ OnePathEach(found)
  BY TypeByTables DEF CatInv, TypeOK
<1>1. /\ pc = "reconcile" /\ UNCHANGED <<tree, found, folder, issues, quiet, edits, faults>>
      /\ pc' \in {"enrich", "idle"} /\ run' \in {run, "failed"}
      /\ Stored0' \in {Stored0, Titles[NFolders], Hidden(Titles[NFolders])}
  BY Committed
<1>2. Stored0' \in Catalogues
  <2>1. Titles[NFolders] \in Catalogues
    BY <1>0, TitlesInOrder, SizeAssumption
  <2> QED BY <1>0, <1>1, <2>1, HiddenRows
<1>3. (Stored0 \in Catalogues)'
  BY <1>2 DEF Catalogues, Tables, OneRowEach
<1>4. ControlTypes'
  BY <1>0, <1>1 DEF ControlTypes
<1>5. OnePathEach(tree)' /\ OnePathEach(found)'
  BY <1>0, <1>1 DEF OnePathEach
<1>6. run # "success"
  BY <1>1 DEF CatInv, SuccessIsIdle
<1>7. NothingSeenYet' /\ FoundIsThere' /\ AllWalked' /\ SuccessIsIdle'
  BY <1>1, <1>6 DEF NothingSeenYet, FoundIsThere, AllWalked, SuccessIsIdle
<1>8. Mirrors'
  <2>1. SUFFICES ASSUME pc' = "enrich", ~issues, quiet, NoneLater' PROVE Listed' = Stored'
    BY <1>1, <1>6 DEF Mirrors
  <2>2. Listed' = {<<p, found[p]>> : p \in {q \in Paths : found[q] # NoFile}}
    BY <2>1, ListedIsFound
  <2>3. \A p \in Paths : found[p] = tree[p]
    <3>1. \A p \in Paths : Folder(p) < folder
      <4>1. folder > NFolders /\ folder \in Nat
        BY <1>0, <1>1, SizeAssumption DEF CatInv, AllWalked, ControlTypes
      <4> QED BY <4>1, PathParts, SizeAssumption DEF Folders
    <3> QED BY <1>1, <2>1, <3>1 DEF CatInv, FoundIsThere
  <2> QED BY <1>1, <2>2, <2>3 DEF Stored
<1> QED BY <1>3, <1>4, <1>5, <1>7, <1>8, TypeByTablesNext DEF CatInv

LEMMA CatStutter == ASSUME CatInv, UNCHANGED vars PROVE CatInv'
<1>1. Stored0' = Stored0 /\ Stored0 \in Catalogues
      /\ UNCHANGED <<tree, entries, media, pc, folder, found, issues, run, quiet, edits, faults>>
  BY DEF CatInv, vars, database, discovery, Stored0
<1>2. (Stored0 \in Catalogues)'
  BY <1>1 DEF Catalogues, Tables, OneRowEach
<1>3. Listed' = Listed /\ Stored' = Stored /\ NoneLater' = NoneLater
  BY <1>1 DEF Listed, Stored, NoneLater, Displayed, Available
<1>4. TypeOK'
  BY <1>1 DEF CatInv, TypeOK
<1>5. Mirrors'
  BY <1>1, <1>3 DEF CatInv, Mirrors
<1> QED BY <1>1, <1>2, <1>4, <1>5
       DEF CatInv, OnePathEach, NothingSeenYet, FoundIsThere, AllWalked, SuccessIsIdle

-----------------------------------------------------------------------------
(* What the transaction keeps.                                             *)

LEMMA CommittedTables ==
    ASSUME CatInv, Reconcile, pc' = "enrich"
    PROVE  /\ Titles[NFolders] \in Catalogues /\ Titles[NFolders].ok
           /\ issues => entries' = Titles[NFolders].entries /\ media' = Titles[NFolders].media
           /\ ~issues => entries' = Hidden(Titles[NFolders]).entries
                        /\ media' = Hidden(Titles[NFolders]).media
<1>1. found \in [Paths -> Inodes \cup {NoFile}] /\ Stored0 \in Catalogues
  BY DEF CatInv, TypeOK
<1>2. Titles[NFolders] \in Catalogues
  BY <1>1, TitlesInOrder, SizeAssumption
<1>3. Stored0'.entries = entries' /\ Stored0'.media = media'
  BY DEF Stored0
<1> QED BY <1>2, <1>3, Committed

\* No row that was available is lost or hidden on the way.
KeepsAvailable(c) == \A m \in Available : m \in DOMAIN c.media /\ c.media[m].available

LEMMA TransactionKeepsAvailable ==
    ASSUME CatInv, Titles[NFolders].ok
    PROVE  KeepsAvailable(Titles[NFolders])
<1> DEFINE T == {x \in (0..NFolders) \X Catalogues : KeepsAvailable(x[2])}
           F == {x \in Folders \X (0..NNames) \X Catalogues : KeepsAvailable(x[3])}
<1>0. /\ NFolders \in Nat /\ Folders = 1..NFolders /\ NNames \in Nat /\ Names = 1..NNames
      /\ found \in [Paths -> Inodes \cup {NoFile}] /\ Stored0 \in Catalogues
  BY SizeAssumption DEF Folders, Names, CatInv, TypeOK
<1>1. /\ \A d, c : <<d, c>> \in T <=> d \in 0..NFolders /\ c \in Catalogues /\ KeepsAvailable(c)
      /\ \A d, n, c : <<d, n, c>> \in F <=>
            d \in Folders /\ n \in 0..NNames /\ c \in Catalogues /\ KeepsAvailable(c)
  OBVIOUS
<1> HIDE DEF T, F
<1>2. <<0, Stored0>> \in T
  <2>1. KeepsAvailable(Stored0)
    BY DEF KeepsAvailable, Stored0, Available
  <2> QED BY <1>0, <1>1, <2>1
<1>3. FoldersLead(T, F)
  <2>1. ASSUME NEW c \in Catalogues, NEW k \in Catalogues, NEW d \in Folders,
               KeepsAvailable(c), TitleStep(c, k, d)
        PROVE  KeepsAvailable(k)
    BY <2>1 DEF TitleStep, PutEntry, KeepsAvailable
  <2>2. ASSUME NEW d \in Folders, NEW c \in Catalogues
        PROVE  /\ <<d - 1, c>> \in T => KeepsAvailable(c)
               /\ KeepsAvailable(c) => <<d, c>> \in T /\ <<d, 0, c>> \in F
               /\ <<d, NNames, c>> \in F => KeepsAvailable(c)
    BY <1>0, <1>1
  <2> QED BY <2>1, <2>2 DEF FoldersLead
<1>4. FilesLead(F)
  <2>1. ASSUME NEW c \in Catalogues, NEW k \in Catalogues, NEW p,
               KeepsAvailable(c), FileStep(c, k, p)
        PROVE  KeepsAvailable(k)
    BY <2>1 DEF FileStep, PutMedia, MediaRow, KeepsAvailable
  <2>2. ASSUME NEW d \in Folders, NEW n \in Names, NEW c \in Catalogues
        PROVE  /\ <<d, n - 1, c>> \in F => KeepsAvailable(c)
               /\ KeepsAvailable(c) => <<d, n, c>> \in F
    BY <1>0, <1>1
  <2> QED BY <2>1, <2>2 DEF FilesLead
<1> QED BY <1>0, <1>1, <1>2, <1>3, <1>4, Follow

\* Row m, whose file is found at p: it is at its old path or, once the files in
\* Q are done, at p.
Follows(c, Q, m, p) ==
    /\ m \in DOMAIN c.media /\ c.media[m].inode = found[p]
    /\ p \in Q => c.media[m].path = p
    /\ p \notin Q => c.media[m].path = media[m].path

LEMMA FollowsFile ==
    ASSUME NEW c \in Catalogues, NEW k, NEW Q, NEW m, NEW p \in Paths, NEW q \in Paths,
           Follows(c, Q, m, p), FileStep(c, k, q), found[q] \in Inodes, OnePathEach(found),
           found[media[m].path] \in {NoFile, found[p]}
    PROVE  Follows(k, Q \cup {q}, m, p)
<1>1. PICK n : PutMedia(c, k, n, q)
  BY DEF FileStep
<1>2. k.media[n].path = q /\ k.media[n].inode = found[q]
  BY <1>1 DEF PutMedia, MediaRow
<1>3. CASE q = p
  <2>1. n = m
    BY <1>1, <1>3 DEF PutMedia, Follows
  <2> QED BY <1>1, <1>2, <1>3, <2>1 DEF PutMedia, Follows
<1>4. CASE q # p
  <2>1. found[q] # found[p] /\ found[q] # NoFile
    BY <1>4, NoFileAssumption DEF OnePathEach
  <2>2. n # m
    BY <1>1, <1>4, <2>1 DEF PutMedia, Follows
  <2>3. m \in DOMAIN k.media /\ k.media[m] = c.media[m]
    BY <1>1, <2>2 DEF PutMedia, Follows
  <2> QED BY <1>4, <2>3 DEF Follows
<1> QED BY <1>3, <1>4

LEMMA TransactionFollows ==
    ASSUME CatInv, Titles[NFolders].ok, NEW m \in DOMAIN media, NEW p \in Paths,
           found[p] = media[m].inode, found[media[m].path] \in {NoFile, media[m].inode}
    PROVE  Follows(Titles[NFolders], Paths, m, p)
<1> DEFINE T == {x \in (0..NFolders) \X Catalogues : Follows(x[2], Through(x[1], NNames), m, p)}
           F == {x \in Folders \X (0..NNames) \X Catalogues :
                    Follows(x[3], Through(x[1], x[2]), m, p)}
<1>0. /\ NFolders \in Nat /\ Folders = 1..NFolders /\ NNames \in Nat /\ Names = 1..NNames
      /\ found \in [Paths -> Inodes \cup {NoFile}] /\ Stored0 \in Catalogues
      /\ OnePathEach(found)
  BY SizeAssumption DEF Folders, Names, CatInv, TypeOK
<1>1. found[p] # NoFile
  <2>1. OneRowEach(Stored0)
    BY <1>0 DEF Catalogues
  <2> QED BY <2>1 DEF OneRowEach, Stored0
<1>2. /\ \A d, c : <<d, c>> \in T <=>
            d \in 0..NFolders /\ c \in Catalogues /\ Follows(c, Through(d, NNames), m, p)
      /\ \A d, n, c : <<d, n, c>> \in F <=>
            /\ d \in Folders /\ n \in 0..NNames /\ c \in Catalogues
            /\ Follows(c, Through(d, n), m, p)
  OBVIOUS
<1> HIDE DEF T, F
<1>3. <<0, Stored0>> \in T
  <2>1. p \notin Through(0, NNames)
    BY PathParts DEF Through, Folders
  <2>2. Follows(Stored0, Through(0, NNames), m, p)
    BY <2>1 DEF Follows, Stored0
  <2> QED BY <1>0, <1>2, <2>2
<1>4. FoldersLead(T, F)
  <2>1. ASSUME NEW d \in Folders, NEW c \in Catalogues, NEW k \in Catalogues,
               <<d - 1, c>> \in T, TitleStep(c, k, d)
        PROVE  <<d, 0, k>> \in F
    <3>1. Follows(c, Through(d, 0), m, p)
      BY <1>2, <2>1, ThroughSteps
    <3>2. k.media = c.media
      BY <2>1 DEF TitleStep, PutEntry
    <3>3. Follows(k, Through(d, 0), m, p)
      BY <3>1, <3>2 DEF Follows
    <3> QED BY <1>0, <1>2, <3>3
  <2>2. ASSUME NEW d \in Folders, NEW c \in Catalogues, <<d - 1, c>> \in T, FilesIn(d) = {}
        PROVE  <<d, c>> \in T
    <3>1. Follows(c, Through(d - 1, NNames), m, p)
      BY <1>2, <2>2
    <3>2. p \in Through(d, NNames) <=> p \in Through(d - 1, NNames)
      <4>1. Folder(p) \in Nat /\ p[2] <= NNames /\ d \in Nat
        BY <1>0, PathParts
      <4>2. Folder(p) # d
        BY <1>1, <2>2 DEF FilesIn
      <4> QED BY <4>1, <4>2 DEF Through
    <3>3. Follows(c, Through(d, NNames), m, p)
      BY <3>1, <3>2 DEF Follows
    <3> QED BY <1>0, <1>2, <3>3
  <2>3. ASSUME NEW d \in Folders, NEW c \in Catalogues, <<d, NNames, c>> \in F
        PROVE  <<d, c>> \in T
    BY <1>0, <1>2, <2>3
  <2> QED BY <2>1, <2>2, <2>3 DEF FoldersLead
<1>5. FilesLead(F)
  <2>1. SUFFICES ASSUME NEW d \in Folders, NEW n \in Names, NEW c \in Catalogues,
                        <<d, n - 1, c>> \in F
                 PROVE  /\ found[<<d, n>>] = NoFile => <<d, n, c>> \in F
                        /\ \A k \in Catalogues :
                              found[<<d, n>>] \in Inodes /\ FileStep(c, k, <<d, n>>)
                                => <<d, n, k>> \in F
    BY DEF FilesLead
  <2>2. /\ Follows(c, Through(d, n - 1), m, p) /\ n \in 0..NNames
        /\ Through(d, n) = Through(d, n - 1) \cup {<<d, n>>}
    BY <1>0, <1>2, <2>1, ThroughSteps
  <2>3. <<d, n>> \in Paths
    BY FolderOfPair
  <2>4. ASSUME found[<<d, n>>] = NoFile PROVE <<d, n, c>> \in F
    <3>1. Follows(c, Through(d, n), m, p)
      BY <1>1, <2>2, <2>4 DEF Follows
    <3> QED BY <1>2, <2>2, <3>1
  <2>5. ASSUME NEW k \in Catalogues, found[<<d, n>>] \in Inodes, FileStep(c, k, <<d, n>>)
        PROVE  <<d, n, k>> \in F
    <3>1. Follows(k, Through(d, n), m, p)
      BY <1>0, <2>2, <2>3, <2>5, FollowsFile
    <3> QED BY <1>2, <2>2, <3>1
  <2> QED BY <2>4, <2>5
<1>6. <<NFolders, Titles[NFolders]>> \in T
  BY <1>0, <1>3, <1>4, <1>5, Follow
<1>7. p \in Through(NFolders, NNames)
  BY <1>0, PathParts DEF Through
<1>8. Follows(Titles[NFolders], Through(NFolders, NNames), m, p)
  BY <1>2, <1>6
<1> QED BY <1>7, <1>8 DEF Follows

\* Before its new folder d is reached, entry e is as it was and has the rows it had.
Waits(c, e, d) ==
    /\ e \in DOMAIN c.entries /\ c.entries[e].folder = entries[e].folder
    /\ EntriesAt(c, d) = {}
    /\ \A m \in DOMAIN media : media[m].entry = e => m \in DOMAIN c.media /\ c.media[m] = media[m]
    /\ \A m \in DOMAIN c.media : c.media[m].entry = e => m \in DOMAIN media /\ media[m].entry = e

\* From then on it is the entry of d, and of no file outside d.
Moved(c, e, d) ==
    /\ e \in DOMAIN c.entries /\ c.entries[e] = EntryRow(d)
    /\ \A m \in DOMAIN c.media, p \in Paths :
          c.media[m].entry = e /\ found[p] = c.media[m].inode => Folder(p) = d

Renames(c, e, d, now) == IF now < d THEN Waits(c, e, d) ELSE Moved(c, e, d)

\* No other folder takes the entry.
LEMMA RenamesByTitle ==
    ASSUME NEW c \in Catalogues, NEW k, NEW d \in Folders, NEW e \in DOMAIN entries,
           NEW now \in Folders, RenamedFolder(e, d), FilesIn(now) # {},
           TitleStep(c, k, now), Renames(c, e, d, now - 1)
    PROVE  Renames(k, e, d, now)
<1>0. d \in Nat /\ now \in Nat /\ OneRowEach(c)
  BY SizeAssumption DEF Folders, Catalogues
<1>1. PICK x : /\ PutEntry(c, k, x, now)
               /\ x \in DOMAIN c.entries =>
                     c.entries[x].folder = now \/ (EntriesAt(c, now) = {} /\ Matched(c, now) = {x})
               /\ \A y : EntriesAt(c, now) = {} /\ Matched(c, now) = {y} => x = y
  BY DEF TitleStep
<1>2. /\ k.media = c.media /\ DOMAIN k.entries = DOMAIN c.entries \cup {x}
      /\ k.entries[x] = EntryRow(now) /\ EntryRow(now).folder = now
      /\ \A n \in DOMAIN c.entries \ {x} : k.entries[n] = c.entries[n]
  BY <1>1 DEF PutEntry, EntryRow
<1>3. \A m \in DOMAIN media : media[m].entry = e =>
         \A p \in Paths : found[p] = media[m].inode => Folder(p) = d
  BY DEF RenamedFolder
<1>4. CASE now < d
  <2>1. Waits(c, e, d)
    BY <1>0, <1>4 DEF Renames
  <2>2. Matched(c, now) # {e}
    <3>1. SUFFICES ASSUME Matched(c, now) = {e} PROVE FALSE
      OBVIOUS
    <3>2. PICK p \in FilesIn(now), m \in DOMAIN c.media :
             c.media[m].inode = found[p] /\ e = c.media[m].entry
      BY <3>1, MatchedBy
    <3>3. m \in DOMAIN media /\ media[m].entry = e /\ media[m].inode = found[p]
      BY <2>1, <3>2 DEF Waits
    <3> QED BY <1>0, <1>3, <1>4, <3>2, <3>3 DEF FilesIn
  <2>3. c.entries[e].folder # now
    BY <2>1 DEF Waits, RenamedFolder
  <2>4. x # e
    BY <1>1, <2>1, <2>2, <2>3 DEF Waits
  <2>5. k.entries[e] = c.entries[e] /\ e \in DOMAIN k.entries
    BY <1>2, <2>1, <2>4 DEF Waits
  <2>6. EntriesAt(k, d) = {}
    BY <1>0, <1>2, <1>4, <2>1 DEF Waits, EntriesAt
  <2> QED BY <1>2, <1>4, <2>1, <2>5, <2>6 DEF Waits, Renames
<1>5. CASE now = d
  <2>1. Waits(c, e, d)
    BY <1>0, <1>5 DEF Renames
  <2>2. Matched(c, d) = {e}
    <3>1. ASSUME NEW p \in FilesIn(d)
          PROVE  /\ \E m \in DOMAIN c.media : c.media[m].inode = found[p] /\ e = c.media[m].entry
                 /\ \A m \in DOMAIN c.media : c.media[m].inode = found[p] => c.media[m].entry = e
      <4>1. PICK m \in DOMAIN media : media[m].inode = found[p] /\ media[m].entry = e
        BY DEF RenamedFolder
      <4>2. m \in DOMAIN c.media /\ c.media[m] = media[m]
        BY <2>1, <4>1 DEF Waits
      <4> QED BY <1>0, <4>1, <4>2 DEF OneRowEach
    <3>2. FilesIn(d) # {}
      BY DEF RenamedFolder
    <3>3. \A y : y \in Matched(c, d) <=> y = e
      BY <3>1, <3>2, MatchedBy
    <3> QED BY <3>3
  <2>3. x = e
    BY <1>1, <1>5, <2>1, <2>2 DEF Waits
  <2>4. ASSUME NEW m \in DOMAIN k.media, NEW p \in Paths,
               k.media[m].entry = e, found[p] = k.media[m].inode
        PROVE  Folder(p) = d
    <3>1. m \in DOMAIN media /\ media[m].entry = e /\ k.media[m] = media[m]
      BY <1>2, <2>1, <2>4 DEF Waits
    <3> QED BY <1>3, <2>4, <3>1
  <2>5. Moved(k, e, d)
    BY <1>2, <1>5, <2>3, <2>4 DEF Moved
  <2> QED BY <1>0, <1>5, <2>5 DEF Renames
<1>6. CASE now > d
  <2>1. Moved(c, e, d)
    BY <1>0, <1>6 DEF Renames
  <2>2. Matched(c, now) # {e}
    <3>1. SUFFICES ASSUME Matched(c, now) = {e} PROVE FALSE
      OBVIOUS
    <3>2. PICK p \in FilesIn(now), m \in DOMAIN c.media :
             c.media[m].inode = found[p] /\ e = c.media[m].entry
      BY <3>1, MatchedBy
    <3> QED BY <1>0, <1>6, <2>1, <3>2 DEF Moved, FilesIn
  <2>3. c.entries[e].folder # now
    BY <1>0, <1>6, <2>1 DEF Moved, EntryRow
  <2>4. x # e
    BY <1>1, <2>1, <2>2, <2>3 DEF Moved
  <2>5. Moved(k, e, d)
    BY <1>2, <2>1, <2>4 DEF Moved
  <2> QED BY <1>0, <1>6, <2>5 DEF Renames
<1> QED BY <1>0, <1>4, <1>5, <1>6

\* No file of another folder comes under it.
LEMMA RenamesByFile ==
    ASSUME NEW c \in Catalogues, NEW k, NEW d \in Folders, NEW e \in DOMAIN entries,
           NEW q \in Paths, found[q] \in Inodes, OnePathEach(found), RenamedFolder(e, d),
           FileStep(c, k, q), Renames(c, e, d, Folder(q))
    PROVE  Renames(k, e, d, Folder(q))
<1>0. d \in Nat /\ Folder(q) \in Nat /\ found[q] # NoFile
  BY SizeAssumption, PathParts, NoFileAssumption DEF Folders
<1>1. PICK n : PutMedia(c, k, n, q)
  BY DEF FileStep
<1>2. PICK x \in EntriesAt(c, Folder(q)) : k.media[n] = MediaRow(x, q)
  BY <1>1 DEF PutMedia
<1>3. /\ k.entries = c.entries /\ DOMAIN k.media = DOMAIN c.media \cup {n}
      /\ k.media[n].entry = x /\ k.media[n].inode = found[q]
      /\ \A m \in DOMAIN c.media \ {n} : k.media[m] = c.media[m]
      /\ n \in DOMAIN c.media => c.media[n].path = q \/ c.media[n].inode = found[q]
  BY <1>1, <1>2 DEF PutMedia, MediaRow
<1>4. CASE Folder(q) < d
  <2>1. Waits(c, e, d)
    BY <1>4 DEF Renames
  <2>2. x # e
    <3>1. q \in FilesIn(Folder(q))
      BY <1>0 DEF FilesIn
    <3> QED BY <1>2, <2>1, <3>1 DEF Waits, EntriesAt, RenamedFolder
  <2>3. ASSUME NEW m \in DOMAIN media, media[m].entry = e PROVE m # n
    <3>1. SUFFICES ASSUME m = n PROVE FALSE
      OBVIOUS
    <3>2. media[m].path = q \/ media[m].inode = found[q]
      BY <1>3, <2>1, <2>3, <3>1 DEF Waits
    <3>3. media[m].inode = found[q]
      BY <1>0, <2>3, <3>2 DEF RenamedFolder
    <3>4. Folder(q) = d
      BY <2>3, <3>3 DEF RenamedFolder
    <3> QED BY <1>0, <1>4, <3>4
  <2>4. EntriesAt(k, d) = {}
    BY <1>3, <2>1 DEF Waits, EntriesAt
  <2>5. Waits(k, e, d)
    BY <1>3, <2>1, <2>2, <2>3, <2>4 DEF Waits
  <2> QED BY <1>4, <2>5 DEF Renames
<1>5. CASE ~(Folder(q) < d)
  <2>1. Moved(c, e, d)
    BY <1>5 DEF Renames
  <2>2. x = e => Folder(q) = d
    BY <1>2, <2>1 DEF Moved, EntriesAt, EntryRow
  <2>3. \A p \in Paths : found[p] = found[q] => p = q
    BY <1>0 DEF OnePathEach
  <2>4. Moved(k, e, d)
    BY <1>3, <2>1, <2>2, <2>3 DEF Moved
  <2> QED BY <1>5, <2>4 DEF Renames
<1> QED BY <1>4, <1>5

LEMMA TransactionRenames ==
    ASSUME CatInv, Titles[NFolders].ok, NEW d \in Folders, NEW e \in DOMAIN entries,
           RenamedFolder(e, d)
    PROVE  Moved(Titles[NFolders], e, d)
<1> DEFINE T == {x \in (0..NFolders) \X Catalogues : Renames(x[2], e, d, x[1])}
           F == {x \in Folders \X (0..NNames) \X Catalogues : Renames(x[3], e, d, x[1])}
<1>0. /\ NFolders \in Nat /\ Folders = 1..NFolders /\ NNames \in Nat /\ Names = 1..NNames
      /\ found \in [Paths -> Inodes \cup {NoFile}] /\ Stored0 \in Catalogues
      /\ OnePathEach(found)
  BY SizeAssumption DEF Folders, Names, CatInv, TypeOK
<1>1. /\ \A x, c : <<x, c>> \in T <=>
            x \in 0..NFolders /\ c \in Catalogues /\ Renames(c, e, d, x)
      /\ \A x, n, c : <<x, n, c>> \in F <=>
            x \in Folders /\ n \in 0..NNames /\ c \in Catalogues /\ Renames(c, e, d, x)
  OBVIOUS
<1> HIDE DEF T, F
<1>2. <<0, Stored0>> \in T
  <2>1. Waits(Stored0, e, d)
    BY DEF Waits, Stored0, EntriesAt, RenamedFolder
  <2>2. 0 < d /\ 0 \in 0..NFolders
    BY <1>0
  <2>3. Renames(Stored0, e, d, 0)
    BY <2>1, <2>2 DEF Renames
  <2> QED BY <1>0, <1>1, <2>2, <2>3
<1>3. FoldersLead(T, F)
  <2>1. ASSUME NEW x \in Folders, NEW c \in Catalogues, NEW k \in Catalogues,
               <<x - 1, c>> \in T, FilesIn(x) # {}, TitleStep(c, k, x)
        PROVE  <<x, 0, k>> \in F
    <3>1. Renames(k, e, d, x)
      BY <1>1, <2>1, RenamesByTitle
    <3> QED BY <1>0, <1>1, <3>1
  <2>2. ASSUME NEW x \in Folders, NEW c \in Catalogues, <<x - 1, c>> \in T, FilesIn(x) = {}
        PROVE  <<x, c>> \in T
    <3>1. Renames(c, e, d, x - 1) /\ x # d
      BY <1>1, <2>2 DEF RenamedFolder
    <3>2. x - 1 < d <=> x < d
      BY <1>0, <3>1
    <3>3. Renames(c, e, d, x)
      BY <3>1, <3>2 DEF Renames
    <3> QED BY <1>0, <1>1, <3>3
  <2>3. ASSUME NEW x \in Folders, NEW c \in Catalogues, <<x, NNames, c>> \in F
        PROVE  <<x, c>> \in T
    BY <1>0, <1>1, <2>3
  <2> QED BY <2>1, <2>2, <2>3 DEF FoldersLead
<1>4. FilesLead(F)
  <2>1. SUFFICES ASSUME NEW x \in Folders, NEW n \in Names, NEW c \in Catalogues,
                        <<x, n - 1, c>> \in F
                 PROVE  /\ found[<<x, n>>] = NoFile => <<x, n, c>> \in F
                        /\ \A k \in Catalogues :
                              found[<<x, n>>] \in Inodes /\ FileStep(c, k, <<x, n>>)
                                => <<x, n, k>> \in F
    BY DEF FilesLead
  <2>2. Renames(c, e, d, x) /\ n \in 0..NNames
    BY <1>0, <1>1, <2>1
  <2>3. <<x, n>> \in Paths /\ Folder(<<x, n>>) = x
    BY FolderOfPair
  <2>4. ASSUME NEW k \in Catalogues, found[<<x, n>>] \in Inodes, FileStep(c, k, <<x, n>>)
        PROVE  <<x, n, k>> \in F
    <3>1. Renames(k, e, d, x)
      BY <1>0, <2>2, <2>3, <2>4, RenamesByFile
    <3> QED BY <1>1, <2>2, <3>1
  <2> QED BY <1>1, <2>2, <2>4
<1>5. Renames(Titles[NFolders], e, d, NFolders)
  BY <1>0, <1>1, <1>2, <1>3, <1>4, Follow
<1> QED BY <1>0, <1>5 DEF Renames

-----------------------------------------------------------------------------
(* The theorems.                                                           *)

LEMMA CatNext == ASSUME CatInv, [Next]_vars PROVE CatInv'
BY OwnerStep, StartStep, VisitStep, EndStep, ReconcileStep, CatStutter
   DEF Next, Scan

\* In every state of every behaviour: the tables hold one row for a folder, a
\* path and an identity, and what was found by an undisturbed walk is there.
THEOREM Invariant == Spec => []CatInv
<1>1. Init => CatInv
  BY CatInit
<1>2. CatInv /\ [Next]_vars => CatInv'
  BY CatNext
<1> QED BY <1>1, <1>2, PTL DEF Spec

\* Every file belongs to an entry of the catalogue, as the foreign key of
\* media_files demands, and the control state is what it should be.
THEOREM TypeCorrect == Spec => []TypeOK
<1>1. CatInv => TypeOK
  BY DEF CatInv
<1> QED BY Invariant, <1>1, PTL

\* After a scan that succeeded, of a collection nobody touched meanwhile, the
\* catalogue lists the files that are there, where they are, and no other.
THEOREM SuccessMirrors == Spec => []SuccessMirrorsTree
<1>1. CatInv => SuccessMirrorsTree
  BY DEF CatInv, Mirrors, NoneLater, SuccessMirrorsTree
<1> QED BY Invariant, <1>1, PTL

\* No step after an issue makes a file unavailable, nor loses its row: the rows
\* that a scan does not reach stay as they are.
THEOREM PartialScans == Spec => PartialScansHideNothing
<1> DEFINE Keep == issues => \A m \in Available : media'[m].available
<1>1. ASSUME CatInv, [Next]_vars PROVE [Keep]_database
  <2>1. CASE StartScan
    <3>1. PICK later : media' = Redate(media, later)
      BY <2>1 DEF StartScan
    <3>2. ASSUME NEW m \in Available PROVE media'[m].available
      <4> DEFINE row == media[m]
      <4>1. media \in Seq(Media) /\ m \in DOMAIN media /\ row.available
        BY <1>1 DEF CatInv, TypeOK, Available
      <4>2. row \in Media
        BY <4>1
      <4>3. media'[m] = [row EXCEPT !.seen = IF row.seen \in later THEN "after" ELSE "before"]
        BY <3>1, <4>1 DEF Redate
      <4> HIDE DEF row
      <4> QED BY <4>1, <4>2, <4>3 DEF Media
    <3> QED BY <3>2
  <2>2. CASE Reconcile
    <3>1. CASE pc' = "enrich"
      <4>1. SUFFICES ASSUME issues, NEW m \in Available PROVE media'[m].available
        OBVIOUS
      <4>2. Titles[NFolders].ok /\ media' = Titles[NFolders].media
        BY <1>1, <2>2, <3>1, <4>1, CommittedTables
      <4> QED BY <1>1, <4>1, <4>2, TransactionKeepsAvailable DEF KeepsAvailable
    <3>2. CASE pc' # "enrich"
      BY <1>1, <2>2, <3>2, Committed DEF database
    <3> QED BY <3>1, <3>2
  <2>3. CASE UNCHANGED vars
    BY <2>3 DEF vars
  <2>4. CASE ~StartScan /\ ~Reconcile /\ Next
    <3>1. database' = database
      BY <2>4
         DEF Next, Owner, AddFile, RemoveFile, RenameFile, RenameFolder, Edit,
             Scan,
                  VisitFolder, EndWalk, FinishScan, FailScan, Crash
    <3> QED BY <3>1
  <2> QED BY <1>1, <2>1, <2>2, <2>3, <2>4
<1> QED BY Invariant, <1>1, PTL DEF Spec, PartialScansHideNothing

\* A transaction that commits keeps the row of each renamed file and the entry
\* of each renamed folder.
THEOREM Renaming == Spec => RenamesKeepIdentity
<1> DEFINE Keep == pc = "reconcile" /\ pc' = "enrich" => RowsFollowFiles /\ EntriesFollowFolders
           last == Titles[NFolders]
<1>1. ASSUME CatInv, [Next]_vars PROVE [Keep]_vars
  <2>1. SUFFICES ASSUME pc = "reconcile", pc' = "enrich"
                 PROVE  RowsFollowFiles /\ EntriesFollowFolders
    OBVIOUS
  <2>2. Reconcile
    BY <1>1, <2>1
       DEF Next, Owner, AddFile, RemoveFile, RenameFile, RenameFolder, Edit,
           Scan,
                      StartScan, VisitFolder, EndWalk, FinishScan, FailScan, Crash, vars
  <2>3. /\ last \in Catalogues /\ last.ok
        /\ issues => entries' = last.entries /\ media' = last.media
        /\ ~issues => entries' = Hidden(last).entries /\ media' = Hidden(last).media
    BY <1>1, <2>1, <2>2, CommittedTables
  <2>4. /\ \A e \in DOMAIN last.entries :
              /\ entries'[e].folder = last.entries[e].folder
              /\ last.entries[e].seen # "before" => entries'[e] = last.entries[e]
        /\ \A m \in DOMAIN last.media :
              media'[m].path = last.media[m].path /\ media'[m].inode = last.media[m].inode
    <3> HIDE DEF last
    <3> QED BY <2>3, HiddenRows
  <2>5. RowsFollowFiles
    <3>1. SUFFICES ASSUME NEW m \in DOMAIN media, NEW p \in Paths, found[p] = media[m].inode,
                          found[media[m].path] \in {NoFile, media[m].inode}
                   PROVE  media'[m].path = p /\ media'[m].inode = found[p]
      BY DEF RowsFollowFiles
    <3>2. Follows(last, Paths, m, p)
      BY <1>1, <2>3, <3>1, TransactionFollows
    <3> QED BY <2>4, <3>2 DEF Follows
  <2>6. EntriesFollowFolders
    <3>1. SUFFICES ASSUME NEW d \in Folders, NEW e \in DOMAIN entries, RenamedFolder(e, d)
                   PROVE  entries'[e].folder = d /\ entries'[e].available
      BY DEF EntriesFollowFolders
    <3>2. Moved(last, e, d)
      BY <1>1, <2>3, <3>1, TransactionRenames
    <3> QED BY <2>4, <3>2 DEF Moved, EntryRow
  <2> QED BY <2>5, <2>6
<1> QED BY Invariant, <1>1, PTL DEF Spec, RenamesKeepIdentity

=============================================================================
