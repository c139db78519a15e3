------------------------- MODULE EpisodeMappingProofs -------------------------
(***************************************************************************)
(* Proofs about EpisodeMapping for any files, names, counts, works and     *)
(* changes: the rows name works that are there, satisfy the table's        *)
(* constraints, stay within the counts in whatever order the works come    *)
(* to stand, and turn into other rows only when a count or the order has   *)
(* changed up to their work; after a complete pass they are the decisions  *)
(* for the files and works as they are.                                    *)
(***************************************************************************)
EXTENDS EpisodeMapping, FiniteSetTheorems, SequenceTheorems, WellFoundedInduction, TLAPS

\* A row is absent or names one of n works.
Valid(row, n) == /\ row \in [work : 0..n, start : Int, end : Int] /\ Storable(row)
                 /\ row.work = 0 => row = NoRow

\* After a complete pass the rows are what would be decided again.
RowsAreCurrent == complete => rows = Decisions

\* f has its own number in the work of its season ...
InSeason(f) ==
    LET w == rows[f].work IN
    /\ w = Season(f) /\ rows[f] = Own(f, w) /\ Facts[f].start > 0
    /\ works[w].count # Unknown => Facts[f].end <= works[w].count

\* ... or the one that is left when the works before are counted off.
InSequence(f) ==
    LET w == rows[f].work IN
    /\ \A v \in 1..w : works[v].count # Unknown
    /\ Last[w - 1] < Facts[f].start /\ Facts[f].start <= Facts[f].end /\ Facts[f].end <= Last[w]
    /\ rows[f] = Row(w, Facts[f].start - Last[w - 1], Facts[f].end - Last[w - 1])
    /\ Facts[f].season <= 1

\* Where a row can have come from, if its work and those before it are stable.
Anchored == \A f \in EpisodeRows : rows[f].work <= stable => InSeason(f) \/ InSequence(f)

Steady == TypeOK /\ RowsAreCurrent
EInv == Steady /\ Anchored /\ CountsAreEnforced

-----------------------------------------------------------------------------
(* Running sums and places in a sequence.                                  *)

\* A set that has 0, and each number whose predecessor it has, has them all.
LEMMA UpToN ==
    ASSUME NEW N \in Nat, NEW I \in SUBSET (0..N), 0 \in I,
           \A n \in 1..N : n - 1 \in I => n \in I
    PROVE  N \in I
<1> DEFINE Before == {ss \in Nat \X Nat : ss[1] < ss[2]}
           Missing == (0..N) \ I
<1>0. IsWellFoundedOn(Before, Nat)
  BY NatLessThanWellFounded DEF OpToRel
<1>1. ASSUME NEW x \in Missing PROVE FALSE
  <2>1. Missing \subseteq Nat
    OBVIOUS
  <2>2. PICK n \in Missing : \A m \in Missing : <<m, n>> \notin Before
    <3> HIDE DEF Before, Missing
    <3> QED BY <1>0, <1>1, <2>1, WFMin
  <2>3. n \in 1..N /\ n - 1 \in 0..N /\ n - 1 \notin I
    OBVIOUS
  <2>4. <<n - 1, n>> \in Before
    BY <2>3
  <2> QED BY <2>2, <2>3, <2>4
<1> QED BY <1>1

LEMMA CountType ==
    ASSUME NEW x \in WorkFacts
    PROVE  x.count \in Int /\ (x.count # Unknown => x.count \in Nat)
<1>1. x.count \in Counts \cup {Unknown}
  BY DEF WorkFacts
<1>2. \A n \in Counts : n \in Nat
  BY CountsAssumption
<1>3. Unknown \in Int
  BY DEF Unknown
<1> QED BY <1>1, <1>2, <1>3

\* The recursive function is what its equations say.
LEMMA LastCounts ==
    ASSUME works \in Seq(WorkFacts)
    PROVE  /\ Last[0] = 0
           /\ \A w \in 1..Len(works) : Last[w] = Last[w - 1] + works[w].count
           /\ \A w \in 0..Len(works) : Last[w] \in Int
<1> DEFINE N == Len(works)
           Goes(h) == [w \in 0..N |-> IF w = 0 THEN 0 ELSE h[w - 1] + works[w].count]
           Starts(f, k) == f[0] = 0 /\ \A w \in 1..k : f[w] = f[w - 1] + works[w].count
           I == {k \in 0..N : \E f \in [0..k -> Int] : Starts(f, k)}
<1>0. N \in Nat /\ \A w \in 1..N : works[w].count \in Int
  <2>1. \A w \in 1..N : works[w] \in WorkFacts
    OBVIOUS
  <2> QED BY <2>1, CountType
<1> HIDE DEF N
<1>1. 0 \in I
  <2> DEFINE g == [w \in 0..0 |-> 0]
  <2>1. g \in [0..0 -> Int] /\ Starts(g, 0)
    OBVIOUS
  <2> HIDE DEF g, Starts
  <2>2. \E f \in [0..0 -> Int] : Starts(f, 0)
    BY <2>1
  <2> QED BY <1>0, <2>2
<1>2. ASSUME NEW k \in 1..N, k - 1 \in I PROVE k \in I
  <2>1. PICK f \in [0..(k - 1) -> Int] : Starts(f, k - 1)
    BY <1>2
  <2> DEFINE g == [w \in 0..k |-> IF w = k THEN f[k - 1] + works[k].count ELSE f[w]]
  <2>2. g \in [0..k -> Int]
    BY <1>0
  <2>3. g[0] = 0 /\ g[k] = g[k - 1] + works[k].count
    BY <1>0, <2>1
  <2>4. ASSUME NEW w \in 1..k, w # k PROVE g[w] = g[w - 1] + works[w].count
    <3>1. w \in 1..(k - 1) /\ w \in 0..k /\ w - 1 \in 0..k /\ w - 1 # k
      BY <1>0, <2>4
    <3>2. g[w] = f[w] /\ g[w - 1] = f[w - 1]
      BY <2>4, <3>1
    <3> QED BY <2>1, <3>1, <3>2
  <2>5. Starts(g, k)
    BY <2>3, <2>4
  <2> HIDE DEF g, Starts
  <2>6. \E h \in [0..k -> Int] : Starts(h, k)
    BY <2>2, <2>5
  <2> QED BY <2>6
<1>3. N \in I
  <2>1. I \in SUBSET (0..N)
    OBVIOUS
  <2> HIDE DEF I
  <2> QED BY <1>0, <1>1, <1>2, <2>1, UpToN
<1>4. PICK f \in [0..N -> Int] : Starts(f, N)
  BY <1>3
<1>5. f = Goes(f)
  <2>1. f = [w \in 0..N |-> f[w]]
    OBVIOUS
  <2>2. \A w \in 0..N : w = 0 \/ w \in 1..N
    BY <1>0
  <2> QED BY <1>4, <2>1, <2>2
<1>6. Last = CHOOSE h : h = Goes(h)
  BY DEF Last, N
<1>7. Last = Goes(Last)
  <2> HIDE DEF Goes
  <2> QED BY <1>5, <1>6
<1>8. Last[0] = 0 /\ \A w \in 1..N : Last[w] = Last[w - 1] + works[w].count
  BY <1>0, <1>7
<1>9. ASSUME NEW w \in 0..N PROVE Last[w] \in Int
  <2> DEFINE J == {i \in 0..w : Last[i] \in Int}
  <2>1. 0 \in J
    BY <1>8
  <2>2. ASSUME NEW i \in 1..w, i - 1 \in J PROVE i \in J
    <3>1. i \in 1..N
      BY <1>0
    <3>2. Last[i] = Last[i - 1] + works[i].count
      BY <1>8, <3>1
    <3>3. Last[i - 1] \in Int /\ works[i].count \in Int
      BY <1>0, <2>2, <3>1
    <3> QED BY <3>2, <3>3
  <2>3. w \in J
    <3>1. J \in SUBSET (0..w) /\ w \in Nat
      BY <1>0
    <3> HIDE DEF J
    <3> QED BY <2>1, <2>2, <3>1, UpToN
  <2> QED BY <2>3
<1> QED BY <1>8, <1>9 DEF N

\* A sequence with an element put into it at place p ...
LEMMA InsertedAt ==
    ASSUME NEW S, NEW s \in Seq(S), NEW e \in S, NEW p \in 1..(Len(s) + 1)
    PROVE  LET new == Seqs!InsertAt(s, p, e) IN
           /\ new \in Seq(S) /\ Len(new) = Len(s) + 1
           /\ \A v \in 1..Len(s) : new[IF v < p THEN v ELSE v + 1] = s[v]
<1> DEFINE a == SubSeq(s, 1, p - 1)
           b == SubSeq(s, p, Len(s))
           c == a \o <<e>>
           new == c \o b
<1>1. Seqs!InsertAt(s, p, e) = new
  BY DEF Seqs!InsertAt
<1>2. Len(s) \in Nat /\ p \in Int
  OBVIOUS
<1>3. a \in Seq(S) /\ Len(a) = p - 1 /\ \A v \in 1..(p - 1) : a[v] = s[v]
  OBVIOUS
<1>4. b \in Seq(S) /\ Len(b) = Len(s) - p + 1 /\ \A v \in 1..(Len(s) - p + 1) : b[v] = s[p + v - 1]
  OBVIOUS
<1> HIDE DEF a, b
<1>5. c \in Seq(S) /\ Len(c) = p /\ \A v \in 1..(p - 1) : c[v] = s[v]
  BY <1>2, <1>3
<1> HIDE DEF c
<1>6. new \in Seq(S) /\ Len(new) = Len(s) + 1
  BY <1>2, <1>4, <1>5
<1>7. ASSUME NEW v \in 1..Len(s) PROVE new[IF v < p THEN v ELSE v + 1] = s[v]
  <2>1. CASE v < p
    <3>1. new[v] = c[v] /\ v \in 1..(p - 1)
      BY <1>2, <1>4, <1>5, <2>1, ConcatProperties
    <3> QED BY <1>5, <2>1, <3>1
  <2>2. CASE ~(v < p)
    <3>1. v + 1 \in (Len(c) + 1)..(Len(c) + Len(b)) /\ v - p + 1 \in 1..(Len(s) - p + 1)
      BY <1>2, <1>4, <1>5, <2>2
    <3>2. new[v + 1] = b[v + 1 - Len(c)]
      BY <1>4, <1>5, <3>1, ConcatProperties
    <3>3. v + 1 - Len(c) = v - p + 1 /\ p + (v - p + 1) - 1 = v
      BY <1>2, <1>5
    <3> QED BY <1>4, <2>2, <3>1, <3>2, <3>3
  <2> QED BY <2>1, <2>2
<1> HIDE DEF new
<1> QED BY <1>1, <1>6, <1>7

\* ... and with the one at place p taken out.
LEMMA RemovedAt ==
    ASSUME NEW S, NEW s \in Seq(S), NEW p \in 1..Len(s)
    PROVE  LET new == Seqs!RemoveAt(s, p) IN
           /\ new \in Seq(S) /\ Len(new) = Len(s) - 1
           /\ \A v \in 1..Len(s) : v # p => new[IF v < p THEN v ELSE v - 1] = s[v]
<1> DEFINE a == SubSeq(s, 1, p - 1)
           b == SubSeq(s, p + 1, Len(s))
           new == a \o b
<1>1. Seqs!RemoveAt(s, p) = new
  BY DEF Seqs!RemoveAt
<1>2. Len(s) \in Nat /\ p \in Int
  OBVIOUS
<1>3. a \in Seq(S) /\ Len(a) = p - 1 /\ \A v \in 1..(p - 1) : a[v] = s[v]
  OBVIOUS
<1>4. b \in Seq(S) /\ Len(b) = Len(s) - p /\ \A v \in 1..(Len(s) - p) : b[v] = s[p + v]
  OBVIOUS
<1> HIDE DEF a, b
<1>5. new \in Seq(S) /\ Len(new) = Len(s) - 1
  <2>1. new \in Seq(S) /\ Len(new) = Len(a) + Len(b)
    BY <1>3, <1>4, ConcatProperties
  <2> QED BY <1>2, <1>3, <1>4, <2>1
<1>6. ASSUME NEW v \in 1..Len(s), v # p PROVE new[IF v < p THEN v ELSE v - 1] = s[v]
  <2>1. CASE v < p
    <3>1. new[v] = a[v] /\ v \in 1..(p - 1)
      BY <1>2, <1>3, <1>4, <2>1, ConcatProperties
    <3> QED BY <1>3, <2>1, <3>1
  <2>2. CASE ~(v < p)
    <3>1. v - 1 \in (Len(a) + 1)..(Len(a) + Len(b)) /\ v - p \in 1..(Len(s) - p)
      BY <1>2, <1>3, <1>4, <1>6, <2>2
    <3>2. new[v - 1] = b[v - 1 - Len(a)]
      BY <1>3, <1>4, <3>1, ConcatProperties
    <3>3. v - 1 - Len(a) = v - p /\ p + (v - p) = v
      BY <1>2, <1>3
    <3> QED BY <1>4, <2>2, <3>1, <3>2, <3>3
  <2> QED BY <2>1, <2>2
<1> HIDE DEF new
<1> QED BY <1>1, <1>5, <1>6
-----------------------------------------------------------------------------
(* The decisions.                                                          *)

\* What a decision may be: it names a work of the collection.
Decided == [work : 1..Len(works), start : Int, end : Int]

LEMMA FactsAreNumbers ==
    ASSUME NEW f \in Files
    PROVE  Facts[f].season \in Nat /\ Facts[f].start \in Int /\ Facts[f].end \in Int
<1>1. Facts[f] \in FileFacts
  BY FactsAssumption DEF Files
<1> QED BY <1>1 DEF FileFacts, Unknown

LEMMA OwnNames ==
    ASSUME NEW f \in Files, NEW w \in 1..Len(works) PROVE Own(f, w) \in Decided
BY FactsAreNumbers DEF Own, Row, Decided

LEMMA OneLayout ==
    ASSUME works \in Seq(WorkFacts), Cardinality(Layouts) = 1
    PROVE  Max(Layouts) \in 1..Len(works)
<1>1. Layouts \subseteq 1..Len(works)
  BY DEF Layouts
<1>2. IsFiniteSet(Layouts)
  <2>1. IsFiniteSet(1..Len(works))
    BY FS_Interval
  <2> QED BY <1>1, <2>1, FS_Subset
<1>3. PICK n : Layouts = {n}
  BY <1>2, FS_Singleton
<1>4. n \in 1..Len(works)
  BY <1>1, <1>3
<1>5. Max({n}) = n
  BY <1>4 DEF Max
<1> QED BY <1>3, <1>4, <1>5

LEMMA SpecialNames ==
    ASSUME works \in Seq(WorkFacts), NEW f \in Files, NEW row \in Special(f)
    PROVE  row \in Decided
<1> DEFINE titled == {w \in DOMAIN works : works[w].titled}
           chosen == IF Len(works) = 1 THEN {1}
                     ELSE IF Cardinality(titled) = 1 THEN titled ELSE {}
<1>1. chosen \subseteq 1..Len(works)
  OBVIOUS
<1>2. row \in {Own(f, w) : w \in chosen}
  BY Zenon DEF Special
<1> HIDE DEF chosen
<1>3. PICK w \in chosen : row = Own(f, w)
  BY <1>2
<1> QED BY <1>1, <1>3, OwnNames

LEMMA EpisodeNames ==
    ASSUME works \in Seq(WorkFacts), NEW f \in Files, NEW row \in Episode(f, Numbering)
    PROVE  row \in Decided
<1>1. CASE row \in Reset(f) \/ row \in Single(f)
  <2>1. PICK w : w \in 1..Len(works) /\ row = Own(f, w)
    BY <1>1 DEF Reset, Single
  <2> QED BY <2>1, OwnNames
<1>2. CASE Numbering = "continuous" /\ row \in Cumulative(f)
  <2>1. Max(Layouts) \in 1..Len(works)
    BY <1>2, OneLayout DEF Numbering
  <2>2. PICK w \in 1..Max(Layouts) :
          row = Row(w, Facts[f].start - Last[w - 1], Facts[f].end - Last[w - 1])
    BY <1>2 DEF Cumulative
  <2>3. w \in 1..Len(works) /\ w - 1 \in 0..Len(works)
    BY <2>1, <2>2
  <2>4. Last[w - 1] \in Int
    BY <2>3, LastCounts
  <2> QED BY <2>2, <2>3, <2>4, FactsAreNumbers DEF Row, Decided
<1> QED BY <1>1, <1>2 DEF Episode

LEMMA DecisionsName ==
    ASSUME works \in Seq(WorkFacts), NEW f \in Files
    PROVE  Decisions[f] = NoRow \/ Decisions[f] \in Decided
<1> DEFINE decided == IF f \notin files THEN {}
                      ELSE IF Facts[f].special THEN Special(f) ELSE Episode(f, Numbering)
<1>1. Decisions[f] = IF decided = {} THEN NoRow ELSE CHOOSE row \in decided : TRUE
  BY DEF Decisions
<1>2. \A row \in decided : row \in Decided
  BY SpecialNames, EpisodeNames
<1> QED BY <1>1, <1>2

\* A decision that the table accepts is a valid row.
LEMMA DecisionsAreValid ==
    ASSUME works \in Seq(WorkFacts), NEW f \in Files, f \notin Rejected(Decisions)
    PROVE  Valid(Decisions[f], Len(works))
<1>1. Storable(Decisions[f])
  BY DEF Rejected
<1>2. NoRow \in [work : 0..Len(works), start : Int, end : Int] /\ Len(works) \in Nat
  BY DEF NoRow, Unknown
<1>3. CASE Decisions[f] = NoRow
  BY <1>1, <1>2, <1>3 DEF Valid
<1>4. CASE Decisions[f] \in Decided
  <2>1. Decisions[f] \in [work : 0..Len(works), start : Int, end : Int] /\ Decisions[f].work # 0
    BY <1>2, <1>4 DEF Decided
  <2> QED BY <1>1, <2>1 DEF Valid
<1> QED BY <1>3, <1>4, DecisionsName

-----------------------------------------------------------------------------
(* Every step keeps the rows valid and, until a change, current.           *)

LEMMA TypeByRows ==
    TypeOK <=> /\ files \subseteq Files
               /\ works \in Seq(WorkFacts) /\ Len(works) <= MaxWorks
               /\ \A f \in Files : Valid(rows[f], Len(works))
               /\ changes \in 0..MaxChanges /\ stable \in 0..MaxWorks
               /\ learnt \in BOOLEAN /\ complete \in BOOLEAN /\ failed \in BOOLEAN
BY DEF TypeOK, Valid

LEMMA ChangeTypes ==
    ASSUME TypeOK, Change
    PROVE  /\ changes' \in 0..MaxChanges
           /\ complete' \in BOOLEAN /\ failed' \in BOOLEAN /\ ~complete'
<1>1. changes' \in 0..MaxChanges
  BY BoundsAssumption DEF TypeOK, Change
<1>2. complete' \in BOOLEAN /\ failed' \in BOOLEAN /\ ~complete'
  BY Zenon DEF TypeOK, Change
<1> QED BY <1>1, <1>2

LEMMA SteadyMap == ASSUME Steady, Map PROVE Steady'
<1>1. TypeOK
  BY DEF Steady
<1>2. works' = works /\ files' = files
  BY DEF Map, Pass, BreakPass
<1>3. Decisions' = Decisions
  BY <1>2
     DEF Decisions, Numbering, Special, Episode, Reset, Single, Cumulative,
         LaterSeason,
              Duplicate, Contiguous, Layouts, Numbers, Numbered, Episodic, Fitting, Last
<1>4. CASE Pass(Decisions)
  <2>1. /\ rows' = Decisions /\ changes' = 0 /\ stable' = MaxWorks
        /\ failed' = failed /\ Rejected(Decisions) = {}
    BY <1>4 DEF Pass
  <2>2. learnt' \in BOOLEAN /\ complete' \in BOOLEAN
    BY <1>4, Zenon DEF Pass
  <2>3. \A f \in Files : Valid(rows'[f], Len(works'))
    BY <1>1, <1>2, <2>1, DecisionsAreValid DEF TypeOK
  <2>5. TypeOK'
    BY <1>1, <1>2, <2>1, <2>2, <2>3, TypeByRows, BoundsAssumption
       DEF TypeOK, Valid
  <2> QED BY <1>3, <2>1, <2>5 DEF Steady, RowsAreCurrent
<1>5. CASE BreakPass(Decisions)
  <2>1. PICK n \in 0..NFiles :
            /\ \A f \in Rejected(Decisions) : n < f
            /\ rows' = Written(Decisions, n)
            /\ failed' \in {failed, failed \/ n + 1 \in Rejected(Decisions)}
    BY <1>5 DEF BreakPass
  <2>2. ASSUME NEW f \in Files PROVE Valid(rows'[f], Len(works'))
    <3>1. CASE f <= n /\ Decisions[f] # NoRow
      <4>1. f \notin Rejected(Decisions)
        BY <2>1, <3>1, FactsAssumption DEF Files
      <4>2. rows'[f] = Decisions[f]
        BY <2>1, <3>1 DEF Written
      <4> QED BY <1>1, <1>2, <4>1, <4>2, DecisionsAreValid DEF TypeOK
    <3>2. CASE ~(f <= n /\ Decisions[f] # NoRow)
      <4>1. rows'[f] = rows[f]
        BY <2>1, <3>2 DEF Written
      <4> QED BY <1>1, <1>2, <4>1, TypeByRows
    <3> QED BY <3>1, <3>2
  <2>3. failed' \in BOOLEAN
    BY <1>1, <2>1, Zenon DEF TypeOK
  <2>4. UNCHANGED <<changes, learnt, stable, complete>>
    BY <1>5 DEF BreakPass
  <2>5. TypeOK'
    BY <1>1, <1>2, <2>2, <2>3, <2>4, TypeByRows DEF TypeOK, Valid
  <2>6. ASSUME complete PROVE rows' = Decisions
    <3>1. rows = Decisions
      BY <2>6 DEF Steady, RowsAreCurrent
    <3>2. rows' = [f \in Files |-> Decisions[f]]
      BY <2>1, <3>1 DEF Written
    <3>3. Decisions = [f \in Files |-> Decisions[f]]
      BY DEF Decisions
    <3> QED BY <3>2, <3>3
  <2> QED BY <1>3, <2>4, <2>5, <2>6 DEF Steady, RowsAreCurrent
<1> QED BY <1>4, <1>5 DEF Map

\* Works are put into another order: to says where each has come to stand, 0
\* if it has gone, and those before place p have stayed.
Rearranges(to, p) ==
    /\ works' \in Seq(WorkFacts) /\ Len(works') <= MaxWorks
    /\ Len(works) \in Nat /\ Len(works') \in Nat /\ p \in 1..MaxWorks
    /\ \A v \in 1..Len(works) :
         /\ to[v] \in 0..Len(works')
         /\ to[v] # 0 => works'[to[v]] = works[v]
         /\ v < p => to[v] = v
         /\ v >= p => to[v] = 0 \/ to[v] >= p
    /\ rows' = [f \in Files |-> Follow(rows[f], to)]
    /\ UNCHANGED <<files, learnt>>
    /\ CutAt(p)

LEMMA WorksRearranged ==
    ASSUME TypeOK, AddWork \/ DropWork \/ MoveWorks
    PROVE  \E to, p : Rearranges(to, p)
<1>1. works \in Seq(WorkFacts) /\ Len(works) <= MaxWorks /\ Len(works) \in Nat
      /\ DOMAIN works = 1..Len(works) /\ MaxWorks \in Nat
  BY BoundsAssumption DEF TypeOK
<1>2. CASE AddWork
  <2>1. PICK w \in WorkFacts, p \in 1..(Len(works) + 1) :
          /\ Arrange(Seqs!InsertAt(works, p, w),
                     [v \in DOMAIN works |-> IF v < p THEN v ELSE v + 1])
          /\ CutAt(p)
    BY <1>2 DEF AddWork
  <2>2. Len(works) < MaxWorks
    BY <1>2 DEF AddWork
  <2> DEFINE to == [v \in DOMAIN works |-> IF v < p THEN v ELSE v + 1]
  <2>3. /\ works' = Seqs!InsertAt(works, p, w)
        /\ rows' = [f \in Files |-> Follow(rows[f], to)]
        /\ UNCHANGED <<files, learnt>>
    BY <2>1 DEF Arrange
  <2>4. /\ works' \in Seq(WorkFacts) /\ Len(works') = Len(works) + 1
        /\ \A v \in 1..Len(works) : works'[IF v < p THEN v ELSE v + 1] = works[v]
    BY <1>1, <2>3, InsertedAt
  <2>5. ASSUME NEW v \in 1..Len(works)
        PROVE  /\ to[v] \in 0..Len(works') /\ works'[to[v]] = works[v]
               /\ v < p => to[v] = v
               /\ v >= p => to[v] >= p
    <3>1. to[v] = IF v < p THEN v ELSE v + 1
      BY <1>1
    <3>2. works'[to[v]] = works[v]
      BY <2>4, <3>1
    <3> HIDE DEF to
    <3> QED BY <1>1, <2>1, <2>4, <3>1, <3>2
  <2>6. p \in 1..MaxWorks
    BY <1>1, <2>1, <2>2
  <2> HIDE DEF to
  <2>7. Len(works') <= MaxWorks /\ Len(works') \in Nat
    BY <1>1, <2>2, <2>4
  <2>8. Rearranges(to, p)
    BY <1>1, <2>1, <2>3, <2>4, <2>5, <2>6, <2>7 DEF Rearranges
  <2> QED BY <2>8
<1>3. CASE DropWork
  <2>1. PICK p \in DOMAIN works :
          /\ Arrange(Seqs!RemoveAt(works, p),
                     [v \in DOMAIN works |-> IF v < p THEN v ELSE IF v = p THEN 0 ELSE v - 1])
          /\ CutAt(p)
    BY <1>3 DEF DropWork
  <2> DEFINE to == [v \in DOMAIN works |-> IF v < p THEN v ELSE IF v = p THEN 0 ELSE v - 1]
  <2>2. /\ works' = Seqs!RemoveAt(works, p)
        /\ rows' = [f \in Files |-> Follow(rows[f], to)]
        /\ UNCHANGED <<files, learnt>>
    BY <2>1 DEF Arrange
  <2>3. /\ works' \in Seq(WorkFacts) /\ Len(works') = Len(works) - 1
        /\ \A v \in 1..Len(works) : v # p => works'[IF v < p THEN v ELSE v - 1] = works[v]
    BY <1>1, <2>1, <2>2, RemovedAt
  <2>4. ASSUME NEW v \in 1..Len(works)
        PROVE  /\ to[v] \in 0..Len(works')
               /\ to[v] # 0 => works'[to[v]] = works[v]
               /\ v < p => to[v] = v
               /\ v >= p => to[v] = 0 \/ to[v] >= p
    <3>1. to[v] = IF v < p THEN v ELSE IF v = p THEN 0 ELSE v - 1
      BY <1>1
    <3>2. v # p => works'[to[v]] = works[v]
      BY <1>1, <2>1, <2>3, <3>1
    <3> HIDE DEF to
    <3> QED BY <1>1, <2>1, <2>3, <3>1, <3>2
  <2>5. p \in 1..MaxWorks
    BY <1>1, <2>1
  <2> HIDE DEF to
  <2> QED BY <1>1, <2>1, <2>2, <2>3, <2>4, <2>5 DEF Rearranges
<1>4. CASE MoveWorks
  <2>1. PICK to \in [DOMAIN works -> DOMAIN works], from \in [DOMAIN works -> DOMAIN works],
             p \in DOMAIN works :
          /\ \A v \in DOMAIN works : to[from[v]] = v /\ from[to[v]] = v
          /\ \A v \in 1..(p - 1) : to[v] = v
          /\ Arrange([v \in DOMAIN works |-> works[from[v]]], to)
          /\ CutAt(p)
    BY <1>4 DEF MoveWorks
  <2>2. /\ works' = [v \in 1..Len(works) |-> works[from[v]]]
        /\ rows' = [f \in Files |-> Follow(rows[f], to)]
        /\ UNCHANGED <<files, learnt>>
    BY <1>1, <2>1 DEF Arrange
  <2>3. \A v \in 1..Len(works) : works[from[v]] \in WorkFacts
    <3>1. \A v \in 1..Len(works) : works[v] \in WorkFacts /\ from[v] \in 1..Len(works)
      BY <1>1, <2>1
    <3> QED BY <3>1
  <2>4. works' \in Seq(WorkFacts) /\ Len(works') = Len(works)
    BY <1>1, <2>2, <2>3
  <2>5. ASSUME NEW v \in 1..Len(works)
        PROVE  /\ to[v] \in 1..Len(works') /\ works'[to[v]] = works[v]
               /\ v < p => to[v] = v
               /\ v >= p => to[v] >= p
    <3>1. to[v] \in 1..Len(works) /\ from[to[v]] = v
      BY <1>1, <2>1
    <3>2. works'[to[v]] = works[v]
      BY <2>2, <3>1
    <3>3. v < p => to[v] = v
      BY <1>1, <2>1
    <3>4. to[v] < p => v < p
      <4>1. to[v] < p => to[to[v]] = to[v]
        BY <1>1, <2>1, <3>1
      <4>2. to[to[v]] = to[v] => to[v] = v
        <5>1. from[to[to[v]]] = to[v]
          BY <1>1, <2>1, <3>1
        <5> QED BY <3>1, <5>1
      <4> QED BY <4>1, <4>2
    <3> QED BY <1>1, <2>1, <2>4, <3>1, <3>2, <3>3, <3>4
  <2>6. p \in 1..MaxWorks
    BY <1>1, <2>1
  <2>7. Len(works') <= MaxWorks /\ Len(works') \in Nat
    BY <1>1, <2>4
  <2>8. ASSUME NEW v \in 1..Len(works)
        PROVE  /\ to[v] \in 0..Len(works')
               /\ to[v] # 0 => works'[to[v]] = works[v]
               /\ v < p => to[v] = v
               /\ v >= p => to[v] = 0 \/ to[v] >= p
    BY <2>5, <2>7
  <2>9. Rearranges(to, p)
    BY <1>1, <2>1, <2>2, <2>4, <2>6, <2>7, <2>8 DEF Rearranges
  <2> QED BY <2>9
<1> QED BY <1>2, <1>3, <1>4

LEMMA CutStable ==
    ASSUME TypeOK, NEW p \in 1..MaxWorks, CutAt(p)
    PROVE  stable' \in 0..MaxWorks /\ stable' <= stable /\ stable' < p
BY BoundsAssumption DEF TypeOK, CutAt

\* What changes between the passes.
LEMMA SteadyChange ==
    ASSUME Steady, AddFile \/ RemoveFile \/ AddWork \/ DropWork \/ MoveWorks \/ LearnCount
    PROVE  Steady'
<1>1. TypeOK /\ Change
  BY DEF Steady, AddFile, RemoveFile, AddWork, DropWork, MoveWorks, LearnCount
<1>2. /\ changes' \in 0..MaxChanges
      /\ complete' \in BOOLEAN /\ failed' \in BOOLEAN /\ ~complete'
  BY <1>1, ChangeTypes
<1>3. CASE AddFile \/ RemoveFile
  <2>1. files' \subseteq Files /\ UNCHANGED <<works, rows, learnt, stable>>
    BY <1>1, <1>3 DEF AddFile, RemoveFile, TypeOK
  <2>2. TypeOK'
    BY <1>1, <1>2, <2>1 DEF TypeOK
  <2> QED BY <1>2, <2>2 DEF Steady, RowsAreCurrent
<1>4. CASE AddWork \/ DropWork \/ MoveWorks
  <2>1. PICK to, p : Rearranges(to, p)
    BY <1>1, <1>4, WorksRearranged
  <2>2. works' \in Seq(WorkFacts) /\ Len(works') <= MaxWorks /\ Len(works') \in Nat
    BY <2>1 DEF Rearranges
  <2>3. ASSUME NEW f \in Files PROVE Valid(rows'[f], Len(works'))
    <3>1. rows'[f] = Follow(rows[f], to)
      BY <2>1 DEF Rearranges
    <3>2. Valid(NoRow, Len(works'))
      BY <2>2 DEF Valid, NoRow, Storable, Unknown
    <3>3. CASE rows[f] = NoRow \/ to[rows[f].work] = 0
      BY <3>1, <3>2, <3>3 DEF Follow
    <3>4. CASE rows[f] # NoRow /\ to[rows[f].work] # 0
      <4>1. /\ rows[f].work \in 1..Len(works) /\ Storable(rows[f])
            /\ rows[f].start \in Int /\ rows[f].end \in Int
        <5>1. Valid(rows[f], Len(works)) /\ Len(works) \in Nat
          BY <1>1, <2>1, TypeByRows DEF Rearranges
        <5> QED BY <3>4, <5>1 DEF Valid
      <4>2. to[rows[f].work] \in 1..Len(works')
        BY <2>1, <2>2, <3>4, <4>1 DEF Rearranges
      <4>3. rows'[f] = Row(to[rows[f].work], rows[f].start, rows[f].end)
        BY <3>1, <3>4 DEF Follow
      <4> QED BY <2>2, <4>1, <4>2, <4>3 DEF Valid, Row, Storable
    <3> QED BY <3>3, <3>4
  <2>4. files' \subseteq Files /\ learnt' \in BOOLEAN
    <3>1. files' = files /\ learnt' = learnt
      BY <2>1 DEF Rearranges
    <3> QED BY <1>1, <3>1, Zenon DEF TypeOK
  <2>5. stable' \in 0..MaxWorks
    BY <1>1, <2>1, CutStable DEF Rearranges
  <2>6. TypeOK'
    BY <1>2, <2>2, <2>3, <2>4, <2>5 DEF TypeOK, Valid
  <2> QED BY <1>2, <2>6 DEF Steady, RowsAreCurrent
<1>5. CASE LearnCount
  <2>1. PICK w \in DOMAIN works, n \in Counts \cup {Unknown} :
            works' = [works EXCEPT ![w].count = n] /\ CutAt(w)
    BY <1>5 DEF LearnCount
  <2>2. works[w] \in WorkFacts
    BY <1>1, <2>1 DEF TypeOK
  <2>3. [works[w] EXCEPT !.count = n] \in WorkFacts
    BY <2>1, <2>2 DEF WorkFacts
  <2>4. works' = [works EXCEPT ![w] = [works[w] EXCEPT !.count = n]]
    BY <2>1
  <2>5. works' \in Seq(WorkFacts) /\ Len(works') = Len(works)
    BY <1>1, <2>1, <2>3, <2>4 DEF TypeOK
  <2>6. UNCHANGED <<files, rows>> /\ learnt' \in BOOLEAN
    BY <1>5, Zenon DEF LearnCount
  <2>7. stable' \in 0..MaxWorks
    <3>1. w \in 1..MaxWorks
      BY <1>1, <2>1, BoundsAssumption DEF TypeOK
    <3> QED BY <1>1, <2>1, <3>1, CutStable
  <2>8. TypeOK'
    BY <1>1, <1>2, <2>5, <2>6, <2>7 DEF TypeOK
  <2> QED BY <1>2, <2>8 DEF Steady, RowsAreCurrent
<1> QED BY <1>3, <1>4, <1>5

LEMMA SteadyStutter == ASSUME Steady, UNCHANGED vars PROVE Steady'
<1>1. TypeOK'
  BY DEF Steady, TypeOK, vars
<1>2. Decisions' = Decisions
  BY
     DEF vars, Decisions, Numbering, Special, Episode, Reset, Single,
         Cumulative, LaterSeason,
         Duplicate, Contiguous, Layouts, Numbers, Numbered, Episodic, Fitting, Last
<1> QED BY <1>1, <1>2 DEF Steady, RowsAreCurrent, vars

LEMMA SteadyInit == ASSUME Init PROVE Steady
<1>1. \A f \in Files : Valid(rows[f], 0)
  BY DEF Init, Valid, NoRow, Storable, Unknown
<1>2. files \subseteq Files /\ works \in Seq(WorkFacts) /\ Len(works) = 0
  BY DEF Init
<1>3. learnt \in BOOLEAN /\ complete \in BOOLEAN /\ failed \in BOOLEAN /\ ~complete
  BY Zenon DEF Init
<1>4. TypeOK
  BY <1>1, <1>2, <1>3, BoundsAssumption DEF Init, TypeOK, Valid
<1> QED BY <1>3, <1>4 DEF Steady, RowsAreCurrent

-----------------------------------------------------------------------------
(* Counting the works off.                                                 *)

\* While the counts are known the sums do not decrease.
LEMMA LastGrows ==
    ASSUME works \in Seq(WorkFacts), NEW n \in 0..Len(works),
           \A v \in 1..n : works[v].count # Unknown,
           NEW m \in 0..n
    PROVE  0 <= Last[m] /\ Last[m] <= Last[n]
<1>0. Len(works) \in Nat /\ n \in Nat /\ m \in Nat
  OBVIOUS
<1>1. \A v \in 1..n : Last[v] = Last[v - 1] + works[v].count
  BY LastCounts
<1>2. \A v \in 0..n : Last[v] \in Int
  BY LastCounts
<1>3. \A v \in 1..n : works[v].count \in Nat
  <2>1. \A v \in 1..n : works[v] \in WorkFacts
    OBVIOUS
  <2> QED BY <2>1, CountType
<1>4. Last[0] = 0
  BY LastCounts
<1> DEFINE I == {i \in 0..n : 0 <= Last[i] /\ (m <= i => Last[m] <= Last[i])}
<1>5. 0 \in I
  BY <1>0, <1>4
<1>6. ASSUME NEW i \in 1..n, i - 1 \in I PROVE i \in I
  <2>1. Last[i] = Last[i - 1] + works[i].count /\ works[i].count \in Nat
        /\ Last[i] \in Int /\ Last[i - 1] \in Int /\ Last[m] \in Int /\ 0 <= Last[i - 1]
    BY <1>0, <1>1, <1>2, <1>3, <1>6
  <2>2. Last[i - 1] <= Last[i] /\ 0 <= Last[i]
    BY <2>1
  <2>3. m <= i => m <= i - 1 \/ m = i
    BY <1>0
  <2>4. m <= i => Last[m] <= Last[i]
    BY <1>6, <2>1, <2>2, <2>3
  <2> QED BY <2>2, <2>4
<1>7. n \in I
  <2>1. I \in SUBSET (0..n)
    OBVIOUS
  <2> HIDE DEF I
  <2> QED BY <1>0, <1>5, <1>6, <2>1, UpToN
<1>8. m \in I
  <2> DEFINE J == I \cap (0..m)
  <2>1. 0 \in J
    BY <1>0, <1>5
  <2>2. ASSUME NEW i \in 1..m, i - 1 \in J PROVE i \in J
    BY <1>0, <1>6, <2>2
  <2>3. m \in J
    <3>1. J \in SUBSET (0..m)
      OBVIOUS
    <3> HIDE DEF J
    <3> QED BY <1>0, <2>1, <2>2, <3>1, UpToN
  <2> QED BY <2>3
<1> QED BY <1>0, <1>7, <1>8

-----------------------------------------------------------------------------
(* Where a decision comes from.                                            *)

LEMMA SeasonOfFile ==
    ASSUME NEW f \in Files
    PROVE  /\ Facts[f].season \in Nat /\ Facts[f].start \in Int /\ Facts[f].end \in Int
           /\ Facts[f].season <= 1 => Season(f) \in {0, 1}
           /\ Facts[f].season <= 1 /\ Facts[f].start > 0 => Season(f) = 1
BY FactsAreNumbers DEF Season

\* A file of a collection without later seasons.
LEMMA FirstSeason ==
    ASSUME NEW f \in Files, f \in files, ~Facts[f].special, ~LaterSeason
    PROVE  Facts[f].season <= 1
BY SeasonOfFile DEF LaterSeason, Episodic

\* What is decided for a file is one of these.
Seasonal(f, row) ==
    /\ Season(f) \in DOMAIN works /\ row = Own(f, Season(f))
    /\ works[Season(f)].count # Unknown => Facts[f].end <= works[Season(f)].count

Alone(f, row) ==
    /\ Len(works) = 1 /\ row = Own(f, 1)
    /\ works[1].count # Unknown => Facts[f].end <= works[1].count

Split(f, row, w) ==
    /\ w \in DOMAIN works /\ \A v \in 1..w : works[v].count # Unknown
    /\ Last[w - 1] < Facts[f].start /\ Facts[f].start <= Facts[f].end /\ Facts[f].end <= Last[w]
    /\ row = Row(w, Facts[f].start - Last[w - 1], Facts[f].end - Last[w - 1])

LEMMA Continuous ==
    ASSUME works \in Seq(WorkFacts), Numbering = "continuous"
    PROVE  \E n \in DOMAIN works :
              /\ Max(Layouts) = n /\ \A v \in 1..n : works[v].count # Unknown
              /\ Numbers = 1..Last[n] /\ ~LaterSeason /\ ~Duplicate
<1>1. Cardinality(Layouts) = 1 /\ Contiguous /\ ~LaterSeason /\ ~Duplicate
  BY DEF Numbering
<1>2. IsFiniteSet(Layouts) /\ Layouts \subseteq DOMAIN works /\ DOMAIN works = 1..Len(works)
      /\ Len(works) \in Nat
  <2>1. Len(works) \in Nat /\ DOMAIN works = 1..Len(works)
    OBVIOUS
  <2>2. Layouts \subseteq DOMAIN works
    BY DEF Layouts
  <2>3. IsFiniteSet(1..Len(works))
    BY <2>1, FS_Interval
  <2> QED BY <2>1, <2>2, <2>3, FS_Subset
<1>3. PICK n : Layouts = {n}
  BY <1>1, <1>2, FS_Singleton
<1>4. n \in DOMAIN works /\ Last[n] = Max(Numbers) /\ \A v \in 1..n : works[v].count # Unknown
  BY <1>3 DEF Layouts
<1>5. Max({n}) = n
  BY <1>2, <1>4 DEF Max
<1>6. Numbers = 1..Max(Numbers)
  BY <1>1 DEF Contiguous
<1> QED BY <1>1, <1>3, <1>4, <1>5, <1>6

LEMMA EpisodeDecisions ==
    ASSUME works \in Seq(WorkFacts), NEW f \in Files, ~Facts[f].special, Decisions[f] # NoRow
    PROVE  /\ f \in files
           /\ \/ Numbering = "seasons" /\ Seasonal(f, Decisions[f]) /\ f \in Numbered
              \/ Numbering = "single" /\ Alone(f, Decisions[f]) /\ f \in Numbered
              \/ Numbering = "continuous" /\ \E w \in 1..Max(Layouts) : Split(f, Decisions[f], w)
<1> DEFINE decided == IF f \notin files THEN {}
                      ELSE IF Facts[f].special THEN Special(f) ELSE Episode(f, Numbering)
           row == Decisions[f]
<1>1. row = IF decided = {} THEN NoRow ELSE CHOOSE r \in decided : TRUE
  BY DEF Decisions
<1>2. row \in decided
  <2> HIDE DEF decided, row
  <2> QED BY <1>1 DEF row
<1>3. f \in files /\ row \in Episode(f, Numbering)
  <2> HIDE DEF row
  <2> QED BY <1>2
<1> HIDE DEF row, decided
<1>4. CASE Numbering = "seasons"
  <2>1. row \in Reset(f)
    BY <1>3, <1>4 DEF Episode
  <2>2. PICK w \in DOMAIN works : w = Season(f) /\ Fitting(f, w) /\ row = Own(f, w)
    BY <2>1 DEF Reset
  <2>3. Seasonal(f, row) /\ f \in Numbered
    BY <2>2 DEF Seasonal, Fitting
  <2> QED BY <1>3, <1>4, <2>3 DEF row
<1>5. CASE Numbering = "single"
  <2>1. row \in Single(f)
    BY <1>3, <1>5 DEF Episode
  <2>2. PICK w \in DOMAIN works : Len(works) = 1 /\ Fitting(f, w) /\ row = Own(f, w)
    BY <2>1 DEF Single
  <2>3. w = 1
    BY <2>2
  <2>4. Alone(f, row) /\ f \in Numbered
    BY <2>2, <2>3 DEF Alone, Fitting
  <2> QED BY <1>3, <1>5, <2>4 DEF row
<1>6. CASE Numbering = "continuous"
  <2>1. row \in Cumulative(f)
    BY <1>3, <1>6 DEF Episode
  <2>2. PICK w \in 1..Max(Layouts) :
          /\ Last[w - 1] < Facts[f].start /\ Facts[f].start <= Facts[f].end
          /\ Facts[f].end <= Last[w]
          /\ row = Row(w, Facts[f].start - Last[w - 1], Facts[f].end - Last[w - 1])
    BY <2>1 DEF Cumulative
  <2>3. PICK n \in DOMAIN works : Max(Layouts) = n /\ \A v \in 1..n : works[v].count # Unknown
    BY <1>6, Continuous
  <2>4. w \in DOMAIN works /\ \A v \in 1..w : works[v].count # Unknown
    BY <2>3
  <2>5. Split(f, row, w)
    BY <2>2, <2>4 DEF Split
  <2> QED BY <1>3, <1>6, <2>5 DEF row
<1>7. CASE Numbering \notin {"seasons", "single", "continuous"}
  BY <1>3, <1>7 DEF Episode
<1> QED BY <1>4, <1>5, <1>6, <1>7

-----------------------------------------------------------------------------
(* Decisions do not flip.                                                  *)

\* What is decided, with the works as they are, and a row that is anchored.
InSeasonRow(f, row) ==
    /\ row.work = Season(f) /\ row = Own(f, row.work) /\ Facts[f].start > 0
    /\ works[row.work].count # Unknown => Facts[f].end <= works[row.work].count

InSequenceRow(f, row) == Split(f, row, row.work) /\ Facts[f].season <= 1

LEMMA RowForms ==
    ASSUME TypeOK, NEW f \in Files, rows[f] # NoRow
    PROVE  /\ InSeason(f) <=> InSeasonRow(f, rows[f])
           /\ InSequence(f) <=> InSequenceRow(f, rows[f])
           /\ rows[f].work \in DOMAIN works /\ Storable(rows[f])
<1>1. rows[f].work \in DOMAIN works /\ Storable(rows[f])
  BY DEF TypeOK
<1> QED BY <1>1 DEF InSeason, InSeasonRow, InSequence, InSequenceRow, Split

LEMMA DecisionsAnchor ==
    ASSUME works \in Seq(WorkFacts), NEW f \in Files, ~Facts[f].special,
           Decisions[f] # NoRow, Storable(Decisions[f])
    PROVE  InSeasonRow(f, Decisions[f]) \/ InSequenceRow(f, Decisions[f])
<1> DEFINE row == Decisions[f]
<1>1. f \in files
  BY EpisodeDecisions
<1>2. CASE Numbering = "seasons" /\ Seasonal(f, row) /\ f \in Numbered
  <2> HIDE DEF row
  <2>1. row = Own(f, Season(f)) /\ row.work = Season(f) /\ row.start = Facts[f].start
    BY <1>2 DEF Seasonal, Own, Row
  <2>2. Facts[f].start # Unknown
    BY <1>2 DEF Numbered
  <2>3. Facts[f].start > 0
    BY <2>1, <2>2 DEF Storable, row
  <2> QED BY <1>2, <2>1, <2>3 DEF Seasonal, InSeasonRow, row
<1>3. CASE Numbering = "single" /\ Alone(f, row) /\ f \in Numbered
  <2> HIDE DEF row
  <2>1. row = Own(f, 1) /\ row.work = 1 /\ row.start = Facts[f].start
    BY <1>3 DEF Alone, Own, Row
  <2>2. Facts[f].start # Unknown
    BY <1>3 DEF Numbered
  <2>3. Facts[f].start > 0
    BY <2>1, <2>2 DEF Storable, row
  <2>4. Season(f) = 1
    <3>1. ~LaterSeason
      BY <1>3 DEF Numbering
    <3> QED BY <1>1, <2>3, <3>1, FirstSeason, SeasonOfFile
  <2> QED BY <1>3, <2>1, <2>3, <2>4 DEF Alone, InSeasonRow, row
<1>4. CASE Numbering = "continuous" /\ \E w \in 1..Max(Layouts) : Split(f, row, w)
  <2>1. PICK w \in 1..Max(Layouts) : Split(f, row, w)
    BY <1>4
  <2> HIDE DEF row
  <2>2. row.work = w
    BY <2>1 DEF Split, Row
  <2>3. Facts[f].season <= 1
    <3>1. ~LaterSeason
      BY <1>4, Continuous
    <3> QED BY <1>1, <3>1, FirstSeason
  <2> QED BY <2>1, <2>2, <2>3 DEF InSequenceRow, row
<1> QED BY <1>2, <1>3, <1>4, EpisodeDecisions

\* One number is in one work.
LEMMA SplitsAgree ==
    ASSUME works \in Seq(WorkFacts), NEW f \in Files, NEW a, NEW b, NEW v, NEW w,
           Split(f, a, v), Split(f, b, w)
    PROVE  v = w /\ a = b
<1>0. Facts[f].start \in Int /\ Facts[f].end \in Int /\ v \in Nat \ {0} /\ w \in Nat \ {0}
      /\ v <= Len(works) /\ w <= Len(works) /\ Len(works) \in Nat
  BY SeasonOfFile DEF Split
<1>1. ASSUME NEW x \in DOMAIN works, NEW y \in DOMAIN works, x < y,
             \A u \in 1..y : works[u].count # Unknown
      PROVE  Last[x] <= Last[y - 1]
  <2>1. x \in 0..(y - 1) /\ y - 1 \in 0..Len(works)
    BY <1>1
  <2>2. \A u \in 1..(y - 1) : works[u].count # Unknown
    BY <1>1
  <2> QED BY <2>1, <2>2, LastGrows
<1>2. /\ Last[v - 1] \in Int /\ Last[v] \in Int /\ Last[w - 1] \in Int /\ Last[w] \in Int
  BY <1>0, LastCounts
<1>3. ~(v < w)
  <2>1. v < w => Last[v] <= Last[w - 1]
    BY <1>1 DEF Split
  <2>2. /\ Last[w - 1] < Facts[f].start /\ Facts[f].start <= Facts[f].end
        /\ Facts[f].end <= Last[v]
    BY DEF Split
  <2> QED BY <1>0, <1>2, <2>1, <2>2
<1>4. ~(w < v)
  <2>1. w < v => Last[w] <= Last[v - 1]
    BY <1>1 DEF Split
  <2>2. /\ Last[v - 1] < Facts[f].start /\ Facts[f].start <= Facts[f].end
        /\ Facts[f].end <= Last[w]
    BY DEF Split
  <2> QED BY <1>0, <1>2, <2>1, <2>2
<1>5. v = w
  BY <1>0, <1>3, <1>4
<1> QED BY <1>5 DEF Split

\* A file that fits the first work is not in a later one.
LEMMA FirstIsFirst ==
    ASSUME works \in Seq(WorkFacts), NEW f \in Files, NEW row, NEW w, Split(f, row, w),
           works[1].count # Unknown => Facts[f].end <= works[1].count
    PROVE  row = Own(f, 1)
<1>0. Facts[f].start \in Int /\ Facts[f].end \in Int /\ w \in Nat \ {0} /\ w <= Len(works)
      /\ Len(works) \in Nat
  BY SeasonOfFile DEF Split
<1>1. Last[0] = 0 /\ Last[1] = works[1].count /\ Last[1] \in Int
  <2>1. works[1] \in WorkFacts
    BY <1>0
  <2>2. works[1].count \in Int
    BY <2>1, CountType
  <2>3. Last[0] = 0 /\ Last[1] = Last[1 - 1] + works[1].count
    BY <1>0, LastCounts
  <2> QED BY <2>2, <2>3
<1>2. Facts[f].end <= Last[1]
  BY <1>0, <1>1 DEF Split
<1>3. w = 1
  <2>1. SUFFICES ASSUME w > 1 PROVE FALSE
    BY <1>0
  <2>2. 1 \in 0..(w - 1) /\ w - 1 \in 0..Len(works)
    BY <1>0, <2>1
  <2>3. \A u \in 1..(w - 1) : works[u].count # Unknown
    BY <1>0 DEF Split
  <2>4. Last[1] <= Last[w - 1]
    BY <2>2, <2>3, LastGrows
  <2>5. Last[w - 1] \in Int
    BY <1>0, LastCounts
  <2> QED BY <1>0, <1>1, <1>2, <2>4, <2>5 DEF Split
<1>4. row = Row(1, Facts[f].start, Facts[f].end)
  BY <1>0, <1>1, <1>3 DEF Split
<1> QED BY <1>4 DEF Own

LEMMA NoFlip ==
    ASSUME TypeOK, NEW f \in Files, ~Facts[f].special, rows[f] # NoRow,
           InSeason(f) \/ InSequence(f)
    PROVE  Decisions[f] \in {rows[f], NoRow}
<1> DEFINE row == Decisions[f]
           old == rows[f]
<1>0. works \in Seq(WorkFacts)
  BY DEF TypeOK
<1>1. SUFFICES ASSUME row # NoRow PROVE row = old
  OBVIOUS
<1>2. InSeasonRow(f, old) \/ InSequenceRow(f, old)
  BY RowForms
<1>3. old.work \in DOMAIN works /\ Storable(old)
  BY RowForms
<1>4. /\ f \in files
      /\ \/ Numbering = "seasons" /\ Seasonal(f, row) /\ f \in Numbered
         \/ Numbering = "single" /\ Alone(f, row) /\ f \in Numbered
         \/ Numbering = "continuous" /\ \E w \in 1..Max(Layouts) : Split(f, row, w)
  BY <1>0, <1>1, EpisodeDecisions
<1>5. /\ Facts[f].season \in Nat /\ Facts[f].start \in Int /\ Facts[f].end \in Int
      /\ Facts[f].season <= 1 => Season(f) \in {0, 1}
      /\ Facts[f].season <= 1 /\ Facts[f].start > 0 => Season(f) = 1
  BY SeasonOfFile
<1>6. Facts[f].start > 0
  <2>1. CASE InSeasonRow(f, old)
    BY <2>1 DEF InSeasonRow
  <2>2. CASE InSequenceRow(f, old)
    <3> DEFINE w == old.work
    <3>1. w \in DOMAIN works /\ Last[w - 1] < Facts[f].start
          /\ \A v \in 1..w : works[v].count # Unknown
      BY <2>2 DEF InSequenceRow, Split
    <3>2. w - 1 \in 0..Len(works) /\ 0 \in 0..(w - 1) /\ w - 1 \in 0..(w - 1)
          /\ \A v \in 1..(w - 1) : works[v].count # Unknown
      BY <1>0, <3>1
    <3> HIDE DEF w
    <3>3. 0 <= Last[w - 1] /\ Last[w - 1] \in Int
      BY <1>0, <3>2, LastGrows, LastCounts
    <3> QED BY <1>5, <3>1, <3>3
  <2> QED BY <1>2, <2>1, <2>2
<1> HIDE DEF row, old
<1>7. CASE InSeasonRow(f, old)
  <2>1. /\ old.work = Season(f) /\ old = Own(f, Season(f))
        /\ works[Season(f)].count # Unknown => Facts[f].end <= works[Season(f)].count
    BY <1>7 DEF InSeasonRow
  <2>2. CASE Seasonal(f, row)
    BY <2>1, <2>2 DEF Seasonal
  <2>3. CASE Alone(f, row)
    <3>1. old.work = 1
      BY <1>0, <1>3, <2>3 DEF Alone
    <3> QED BY <2>1, <2>3, <3>1 DEF Alone
  <2>4. CASE Numbering = "continuous" /\ \E w \in 1..Max(Layouts) : Split(f, row, w)
    <3>1. PICK w \in 1..Max(Layouts) : Split(f, row, w)
      BY <2>4
    <3>2. Season(f) = 1
      <4>1. ~LaterSeason
        BY <1>0, <2>4, Continuous
      <4> QED BY <1>4, <1>5, <1>6, <4>1, FirstSeason
    <3>3. row = Own(f, 1)
      BY <1>0, <2>1, <3>1, <3>2, FirstIsFirst
    <3> QED BY <2>1, <3>2, <3>3
  <2> QED BY <1>4, <2>2, <2>3, <2>4
<1>8. CASE InSequenceRow(f, old)
  <2>1. Split(f, old, old.work) /\ Season(f) = 1
    BY <1>5, <1>6, <1>8 DEF InSequenceRow
  <2>2. CASE Seasonal(f, row)
    <3>1. old = Own(f, 1)
      BY <1>0, <2>1, <2>2, FirstIsFirst DEF Seasonal
    <3> QED BY <2>1, <2>2, <3>1 DEF Seasonal
  <2>3. CASE Alone(f, row)
    <3>1. old = Own(f, 1)
      BY <1>0, <2>1, <2>3, FirstIsFirst DEF Alone
    <3> QED BY <2>3, <3>1 DEF Alone
  <2>4. CASE Numbering = "continuous" /\ \E w \in 1..Max(Layouts) : Split(f, row, w)
    BY <1>0, <2>1, <2>4, SplitsAgree
  <2> QED BY <1>4, <2>2, <2>3, <2>4
<1> QED BY <1>2, <1>7, <1>8

-----------------------------------------------------------------------------
(* Rows stay anchored.                                                     *)

\* What is counted off the works that come first depends on these only.
LEMMA SamePrefix ==
    ASSUME works \in Seq(WorkFacts), works' \in Seq(WorkFacts), NEW k \in Nat,
           k <= Len(works), k <= Len(works'), \A i \in 1..k : works'[i] = works[i]
    PROVE  \A v \in 0..k : Last'[v] = Last[v]
<1>1. /\ Last[0] = 0
      /\ \A w \in 1..Len(works) : Last[w] = Last[w - 1] + works[w].count
  BY LastCounts
<1>2. /\ Last'[0] = 0
      /\ \A w \in 1..Len(works') : Last'[w] = Last'[w - 1] + works'[w].count
  <2>1. (works \in Seq(WorkFacts) =>
          /\ Last[0] = 0
          /\ \A w \in 1..Len(works) : Last[w] = Last[w - 1] + works[w].count)'
    BY LastCounts, PTL
  <2> QED BY <2>1
<1>3. ASSUME NEW v \in 0..k PROVE Last'[v] = Last[v]
  <2> DEFINE I == {i \in 0..v : Last'[i] = Last[i]}
  <2>1. 0 \in I
    BY <1>1, <1>2
  <2>2. ASSUME NEW i \in 1..v, i - 1 \in I PROVE i \in I
    <3>1. i \in 1..k /\ i \in 1..Len(works) /\ i \in 1..Len(works')
      OBVIOUS
    <3>2. Last'[i - 1] = Last[i - 1] /\ works'[i] = works[i]
      BY <2>2, <3>1
    <3>3. Last[i] = Last[i - 1] + works[i].count /\ Last'[i] = Last'[i - 1] + works'[i].count
      BY <1>1, <1>2, <3>1
    <3>4. Last'[i] = Last[i]
      BY <3>2, <3>3
    <3> QED BY <3>4
  <2>3. v \in I
    <3>1. I \in SUBSET (0..v) /\ v \in Nat
      OBVIOUS
    <3> HIDE DEF I
    <3> QED BY <2>1, <2>2, <3>1, UpToN
  <2> QED BY <2>3
<1> QED BY <1>3

\* A row that stays is anchored as before, if its work and those before stay.
LEMMA StaysAnchored ==
    ASSUME works \in Seq(WorkFacts), works' \in Seq(WorkFacts), NEW f \in Files,
           NEW w \in Nat \ {0}, w = rows[f].work, rows'[f] = rows[f],
           w <= Len(works), w <= Len(works'), \A i \in 1..w : works'[i] = works[i],
           InSeason(f) \/ InSequence(f)
    PROVE  (InSeason(f) \/ InSequence(f))'
<1>1. Last'[w - 1] = Last[w - 1] /\ Last'[w] = Last[w]
  <2>1. \A v \in 0..w : Last'[v] = Last[v]
    BY SamePrefix
  <2>2. w \in 0..w /\ w - 1 \in 0..w
    OBVIOUS
  <2> QED BY <2>1, <2>2
<1>2. works'[w] = works[w]
  OBVIOUS
<1>3. CASE InSeason(f)
  BY <1>2, <1>3 DEF InSeason, Season, Own
<1>4. CASE InSequence(f)
  BY <1>1, <1>4 DEF InSequence
<1> QED BY <1>3, <1>4

LEMMA AnchorMap == ASSUME EInv, Map PROVE Anchored'
<1>0. TypeOK /\ works \in Seq(WorkFacts) /\ (TypeOK)'
  BY SteadyMap DEF EInv, Steady, TypeOK
<1>1. works' = works
  BY DEF Map, Pass, BreakPass
<1>2. ASSUME NEW f \in Files, ~Facts[f].special, rows'[f] # NoRow, rows'[f].work <= stable'
      PROVE  (InSeason(f) \/ InSequence(f))'
  <2>1. (rows'[f] = Decisions[f] /\ Storable(Decisions[f]))
        \/ (rows'[f] = rows[f] /\ rows[f].work <= stable)
    <3>1. CASE Pass(Decisions)
      BY <3>1 DEF Pass, Rejected
    <3>2. CASE BreakPass(Decisions)
      <4>1. PICK n \in 0..NFiles :
              /\ \A g \in Rejected(Decisions) : n < g
              /\ rows' = Written(Decisions, n)
        BY <3>2 DEF BreakPass
      <4>2. stable' = stable
        BY <3>2 DEF BreakPass
      <4>3. f <= n => f \notin Rejected(Decisions)
        BY <4>1, FactsAssumption DEF Files
      <4> QED BY <1>2, <4>1, <4>2, <4>3 DEF Written, Rejected
    <3> QED BY <3>1, <3>2 DEF Map
  <2>2. CASE rows'[f] = Decisions[f] /\ Storable(Decisions[f])
    <3>1. InSeasonRow(f, Decisions[f]) \/ InSequenceRow(f, Decisions[f])
      BY <1>0, <1>2, <2>2, DecisionsAnchor
    <3>2. (InSeasonRow(f, rows[f]) \/ InSequenceRow(f, rows[f]))'
      BY <1>1, <2>2, <3>1
         DEF InSeasonRow, InSequenceRow, Split, Season, Own, Last
    <3>3. rows'[f].work \in DOMAIN works'
      BY <1>0, <1>2 DEF TypeOK
    <3> QED BY <3>2, <3>3
               DEF InSeason, InSeasonRow, InSequence, InSequenceRow, Split
  <2>3. CASE rows'[f] = rows[f] /\ rows[f].work <= stable
    <3>1. f \in EpisodeRows
      BY <1>2, <2>3 DEF EpisodeRows
    <3>2. InSeason(f) \/ InSequence(f)
      BY <2>3, <3>1 DEF EInv, Anchored
    <3> QED BY <1>1, <2>3, <3>2 DEF InSeason, InSequence, Season, Own, Last
  <2> QED BY <2>1, <2>2, <2>3
<1> QED BY <1>2 DEF Anchored, EpisodeRows

\* An order that is cut at p leaves the rows alone whose works come before p.
LEMMA BeforeTheCut ==
    ASSUME TypeOK, NEW to, NEW p, Rearranges(to, p), NEW f \in Files
    PROVE  /\ rows[f].work < p => rows'[f] = rows[f]
           /\ rows'[f] # NoRow /\ rows'[f].work < p => rows[f] = rows'[f]
           /\ \A v \in 1..Len(works) : v < p => v <= Len(works') /\ works'[v] = works[v]
<1>1. /\ rows[f] \in [work : 0..Len(works), start : Int, end : Int]
      /\ rows[f].work = 0 => rows[f] = NoRow
  BY DEF TypeOK
<1>2. rows'[f] = Follow(rows[f], to) /\ p \in Int /\ Len(works) \in Nat /\ Len(works') \in Nat
  BY DEF Rearranges
<1>3. \A v \in 1..Len(works) :
        /\ to[v] \in 0..Len(works')
        /\ to[v] # 0 => works'[to[v]] = works[v]
        /\ v < p => to[v] = v
        /\ v >= p => to[v] = 0 \/ to[v] >= p
  BY DEF Rearranges
<1>4. rows[f].work < p => rows'[f] = rows[f]
  <2>1. SUFFICES ASSUME rows[f].work < p PROVE rows'[f] = rows[f]
    OBVIOUS
  <2>2. CASE rows[f] = NoRow
    BY <1>2, <2>2 DEF Follow
  <2>3. CASE rows[f] # NoRow
    <3>1. rows[f].work \in 1..Len(works)
      BY <1>1, <1>2, <2>3
    <3>2. to[rows[f].work] = rows[f].work /\ rows[f].work # 0
      BY <1>3, <2>1, <3>1
    <3>3. rows'[f] = Row(rows[f].work, rows[f].start, rows[f].end)
      BY <1>2, <2>3, <3>2 DEF Follow
    <3> QED BY <1>1, <3>3 DEF Row
  <2> QED BY <2>2, <2>3
<1>5. rows'[f] # NoRow /\ rows'[f].work < p => rows[f] = rows'[f]
  <2>1. SUFFICES ASSUME rows'[f] # NoRow, rows'[f].work < p PROVE rows[f].work < p
    BY <1>4
  <2>2. rows[f] # NoRow /\ to[rows[f].work] # 0
        /\ rows'[f] = Row(to[rows[f].work], rows[f].start, rows[f].end)
    BY <1>2, <2>1 DEF Follow
  <2>3. rows'[f].work = to[rows[f].work] /\ rows[f].work \in 1..Len(works)
    BY <1>1, <1>2, <2>2 DEF Row
  <2> QED BY <1>2, <1>3, <2>1, <2>2, <2>3
<1>6. ASSUME NEW v \in 1..Len(works), v < p PROVE v <= Len(works') /\ works'[v] = works[v]
  <2>1. to[v] = v /\ v # 0
    BY <1>3, <1>6
  <2> QED BY <1>2, <1>3, <2>1
<1> QED BY <1>4, <1>5, <1>6

LEMMA AnchorChange ==
    ASSUME EInv, AddFile \/ RemoveFile \/ AddWork \/ DropWork \/ MoveWorks \/ LearnCount
    PROVE  Anchored'
<1>1. /\ TypeOK /\ works \in Seq(WorkFacts) /\ Len(works) \in Nat
      /\ (TypeOK)' /\ works' \in Seq(WorkFacts)
  BY SteadyChange DEF EInv, Steady, TypeOK
<1>2. SUFFICES ASSUME NEW f \in Files, ~Facts[f].special, rows'[f] # NoRow,
                      rows'[f].work <= stable'
               PROVE  (InSeason(f) \/ InSequence(f))'
  BY DEF Anchored, EpisodeRows
<1> DEFINE w == rows[f].work
<1>3. /\ rows'[f] = rows[f] /\ w <= stable
      /\ rows[f] # NoRow => w <= Len(works') /\ \A i \in 1..w : works'[i] = works[i]
  <2>0. rows[f] # NoRow => w \in 1..Len(works)
    BY <1>1, RowForms
  <2>1. CASE AddFile \/ RemoveFile
    <3>1. UNCHANGED <<works, rows, stable>>
      BY <2>1 DEF AddFile, RemoveFile
    <3> QED BY <1>1, <1>2, <2>0, <3>1
  <2>2. CASE LearnCount
    <3>1. PICK p \in DOMAIN works, n \in Counts \cup {Unknown} :
            works' = [works EXCEPT ![p].count = n] /\ CutAt(p) /\ rows' = rows
      BY <2>2 DEF LearnCount
    <3>2. stable' <= stable /\ stable' < p /\ stable \in Nat /\ stable' \in Nat /\ p \in Nat
      <4>1. p \in 1..MaxWorks
        BY <1>1, <3>1, BoundsAssumption DEF TypeOK
      <4> QED BY <1>1, <3>1, <4>1, CutStable, BoundsAssumption DEF TypeOK
    <3>3. w \in Nat /\ w <= stable' /\ rows[f] # NoRow
      BY <1>1, <1>2, <3>1 DEF TypeOK
    <3>4. Len(works') = Len(works) /\ \A i \in 1..w : works'[i] = works[i]
      <4> HIDE DEF w
      <4> QED BY <1>1, <2>0, <3>1, <3>2, <3>3
    <3> HIDE DEF w
    <3> QED BY <1>1, <2>0, <3>1, <3>2, <3>3, <3>4
  <2>3. CASE AddWork \/ DropWork \/ MoveWorks
    <3>1. PICK to, p : Rearranges(to, p)
      BY <1>1, <2>3, WorksRearranged
    <3>2. /\ stable' <= stable /\ stable' < p /\ stable \in Nat /\ stable' \in Nat
          /\ p \in 1..MaxWorks /\ p \in Nat
      <4>1. p \in 1..MaxWorks /\ CutAt(p)
        BY <3>1 DEF Rearranges
      <4> QED BY <1>1, <4>1, CutStable, BoundsAssumption DEF TypeOK
    <3>3. rows'[f].work \in Nat
      BY <1>1 DEF TypeOK
    <3>4. rows'[f] = rows[f]
      BY <1>1, <1>2, <3>1, <3>2, <3>3, BeforeTheCut
    <3>5. w < p /\ w <= stable /\ w \in Nat /\ w \in 1..Len(works)
      BY <1>2, <2>0, <3>2, <3>3, <3>4
    <3>6. \A i \in 1..w : i \in 1..Len(works) /\ i < p
      <4> HIDE DEF w
      <4> QED BY <1>1, <3>2, <3>5
    <3>7. w <= Len(works') /\ \A i \in 1..w : works'[i] = works[i]
      BY <1>1, <3>1, <3>5, <3>6, BeforeTheCut
    <3> QED BY <3>4, <3>5, <3>7
  <2> QED BY <2>1, <2>2, <2>3
<1>4. InSeason(f) \/ InSequence(f)
  BY <1>2, <1>3 DEF EInv, Anchored, EpisodeRows
<1>5. w \in Nat \ {0} /\ w <= Len(works)
  BY <1>1, <1>2, <1>3, RowForms
<1> HIDE DEF w
<1> QED BY <1>1, <1>2, <1>3, <1>4, <1>5, StaysAnchored DEF w

-----------------------------------------------------------------------------
(* Rows stay within the counts of their works, wherever these stand.       *)

Within(row, work) ==
    work.count # Unknown => row.start \in 1..work.count /\ row.end \in 1..work.count

LEMMA DecisionsFit ==
    ASSUME works \in Seq(WorkFacts), NEW f \in Files, ~Facts[f].special,
           Decisions[f] # NoRow, Storable(Decisions[f])
    PROVE  Within(Decisions[f], works[Decisions[f].work])
<1> DEFINE row == Decisions[f]
           w == row.work
           n == works[w].count
<1>1. SUFFICES ASSUME n # Unknown PROVE row.start \in 1..n /\ row.end \in 1..n
  BY DEF Within
<1>2. w \in 1..Len(works)
  BY DecisionsName DEF Decided
<1>3. n \in Nat
  <2>1. works[w] \in WorkFacts
    BY <1>2
  <2> QED BY <1>1, <2>1, CountType
<1>4. Facts[f].start \in Int /\ Facts[f].end \in Int
  BY FactsAreNumbers
<1>5. InSeasonRow(f, row) \/ InSequenceRow(f, row)
  BY DecisionsAnchor
<1> HIDE DEF row
<1>6. CASE InSeasonRow(f, row)
  <2>1. row.start = Facts[f].start /\ row.end = Facts[f].end
        /\ Facts[f].start > 0 /\ Facts[f].end <= n
    BY <1>1, <1>6 DEF InSeasonRow, Own, Row
  <2>2. Facts[f].start <= Facts[f].end
    BY <1>4, <2>1 DEF Storable, Unknown, row
  <2> QED BY <1>3, <1>4, <2>1, <2>2
<1>7. CASE InSequenceRow(f, row)
  <2> HIDE DEF w
  <2>1. /\ Last[w - 1] < Facts[f].start /\ Facts[f].start <= Facts[f].end
        /\ Facts[f].end <= Last[w]
        /\ row = Row(w, Facts[f].start - Last[w - 1], Facts[f].end - Last[w - 1])
    BY <1>7 DEF InSequenceRow, Split, w
  <2>2. Last[w] = Last[w - 1] + n /\ Last[w - 1] \in Int
    BY <1>2, LastCounts
  <2>3. row.start = Facts[f].start - Last[w - 1] /\ row.end = Facts[f].end - Last[w - 1]
    BY <2>1 DEF Row
  <2> DEFINE off == Last[w - 1]
  <2> HIDE DEF n, off
  <2>4. off < Facts[f].start /\ Facts[f].start <= Facts[f].end /\ Facts[f].end <= off + n
        /\ off \in Int /\ row.start = Facts[f].start - off /\ row.end = Facts[f].end - off
    BY <2>1, <2>2, <2>3 DEF off
  <2> QED BY <1>3, <1>4, <2>4
<1> QED BY <1>5, <1>6, <1>7

LEMMA EnforcedForm ==
    CountsAreEnforced <=>
      (~learnt => \A f \in EpisodeRows : Within(rows[f], works[rows[f].work]))
BY DEF CountsAreEnforced, Within

LEMMA EnforcedMap == ASSUME EInv, Map PROVE CountsAreEnforced'
<1>1. works \in Seq(WorkFacts) /\ works' = works
  BY DEF EInv, Steady, TypeOK, Map, Pass, BreakPass
<1>2. ASSUME ~learnt', NEW f \in Files, ~Facts[f].special, rows'[f] # NoRow
      PROVE  Within(rows'[f], works[rows'[f].work])
  <2>1. (rows'[f] = Decisions[f] /\ Storable(Decisions[f]))
        \/ (rows'[f] = rows[f] /\ ~learnt)
    <3>1. CASE Pass(Decisions)
      BY <3>1 DEF Pass, Rejected
    <3>2. CASE BreakPass(Decisions)
      <4>1. PICK n \in 0..NFiles :
              /\ \A g \in Rejected(Decisions) : n < g
              /\ rows' = Written(Decisions, n)
        BY <3>2 DEF BreakPass
      <4>2. learnt' = learnt
        BY <3>2 DEF BreakPass
      <4>3. f <= n => f \notin Rejected(Decisions)
        BY <4>1, FactsAssumption DEF Files
      <4> QED BY <1>2, <4>1, <4>2, <4>3 DEF Written, Rejected
    <3> QED BY <3>1, <3>2 DEF Map
  <2>2. CASE rows'[f] = Decisions[f] /\ Storable(Decisions[f])
    BY <1>1, <1>2, <2>2, DecisionsFit
  <2>3. CASE rows'[f] = rows[f] /\ ~learnt
    <3>1. f \in EpisodeRows
      BY <1>2, <2>3 DEF EpisodeRows
    <3> QED BY <2>3, <3>1, EnforcedForm DEF EInv
  <2> QED BY <2>1, <2>2, <2>3
<1> QED BY <1>1, <1>2 DEF CountsAreEnforced, EpisodeRows, Within

LEMMA EnforcedChange ==
    ASSUME EInv, AddFile \/ RemoveFile \/ AddWork \/ DropWork \/ MoveWorks \/ LearnCount
    PROVE  CountsAreEnforced'
<1>1. CASE LearnCount
  BY <1>1 DEF LearnCount, CountsAreEnforced
<1>2. CASE AddFile \/ RemoveFile
  <2>1. UNCHANGED <<works, rows, learnt>>
    BY <1>2 DEF AddFile, RemoveFile
  <2> QED BY <2>1 DEF EInv, CountsAreEnforced, EpisodeRows
<1>3. CASE AddWork \/ DropWork \/ MoveWorks
  <2>1. TypeOK
    BY DEF EInv, Steady
  <2>2. PICK to, p : Rearranges(to, p)
    BY <1>3, <2>1, WorksRearranged
  <2>3. ASSUME ~learnt', NEW f \in Files, ~Facts[f].special, rows'[f] # NoRow
        PROVE  Within(rows'[f], works'[rows'[f].work])
    <3>1. ~learnt /\ rows'[f] = Follow(rows[f], to)
      BY <2>2, <2>3 DEF Rearranges
    <3>2. /\ rows[f] # NoRow /\ to[rows[f].work] # 0
          /\ rows'[f] = Row(to[rows[f].work], rows[f].start, rows[f].end)
      BY <2>3, <3>1 DEF Follow
    <3>3. rows[f].work \in 1..Len(works)
      BY <2>1, <3>2, RowForms
    <3>4. works'[to[rows[f].work]] = works[rows[f].work]
      BY <2>2, <3>2, <3>3 DEF Rearranges
    <3>5. Within(rows[f], works[rows[f].work])
      BY <2>3, <3>1, <3>2, EnforcedForm DEF EInv, EpisodeRows
    <3>6. rows'[f].work = to[rows[f].work]
          /\ rows'[f].start = rows[f].start /\ rows'[f].end = rows[f].end
      BY <3>2 DEF Row
    <3> QED BY <3>4, <3>5, <3>6 DEF Within
  <2> QED BY <2>3 DEF CountsAreEnforced, EpisodeRows, Within
<1> QED BY <1>1, <1>2, <1>3

-----------------------------------------------------------------------------
(* The inductive invariant.                                                *)

LEMMA EInvNext == ASSUME EInv, [Next]_vars PROVE EInv'
<1>1. Steady'
  BY SteadyMap, SteadyChange, SteadyStutter DEF Next, EInv
<1>2. CASE UNCHANGED vars
  <2>1. Anchored'
    <3>1. ASSUME NEW f PROVE (InSeason(f) \/ InSequence(f))' <=> InSeason(f) \/ InSequence(f)
      BY <1>2 DEF InSeason, InSequence, Season, Own, Last, vars
    <3>2. stable' = stable /\ rows' = rows
      BY <1>2 DEF vars
    <3> QED BY <3>1, <3>2 DEF EInv, Anchored, EpisodeRows
  <2>2. CountsAreEnforced'
    BY <1>2 DEF EInv, CountsAreEnforced, EpisodeRows, vars
  <2> QED BY <1>1, <2>1, <2>2 DEF EInv
<1>3. CASE Next
  BY <1>1, <1>3, AnchorMap, AnchorChange, EnforcedMap, EnforcedChange DEF EInv, Next
<1> QED BY <1>2, <1>3

LEMMA EInvInit == ASSUME Init PROVE EInv
BY SteadyInit DEF Init, EInv, Anchored, CountsAreEnforced, EpisodeRows

-----------------------------------------------------------------------------
(* Theorems.                                                               *)

\* The rows are valid, current after a complete pass, within the counts, and
\* anchored as far as the order of the works is stable.
THEOREM Invariant == Spec => []EInv
BY EInvInit, EInvNext, PTL DEF Spec

\* A row names a work that the collection still has, and what a broken pass
\* wrote satisfies the constraints of the table too.
THEOREM TypeCorrect == Spec => []TypeOK
<1>1. EInv => TypeOK
  BY DEF EInv, Steady
<1> QED BY Invariant, <1>1, PTL

\* Until something changes, the rows are what a pass would decide again, and
\* passes broken off meanwhile take none of it away.
THEOREM PassesSettle == Spec => []RowsAreCurrent
<1>1. EInv => RowsAreCurrent
  BY DEF EInv, Steady
<1> QED BY Invariant, <1>1, PTL

\* No row of an episode is beyond the known count of its work, whatever passes
\* were broken off and wherever works have been put in, taken out or moved,
\* unless a count has changed since the last complete pass.
THEOREM CountsHold == Spec => []CountsAreEnforced
<1>1. EInv => CountsAreEnforced
  BY DEF EInv
<1> QED BY Invariant, <1>1, PTL

\* Without a duplicate number two files have different numbers.
LEMMA NumbersDiffer ==
    ASSUME TypeOK, ~Duplicate, NEW f \in Numbered, NEW g \in Numbered,
           Facts[f].start = Facts[g].start
    PROVE  f = g
<1> DEFINE number == [h \in Numbered |-> Facts[h].start]
<1>1. IsFiniteSet(Numbered)
  <2>1. Numbered \subseteq 1..NFiles
    BY DEF Numbered, Episodic, TypeOK, Files
  <2>2. IsFiniteSet(1..NFiles)
    BY FactsAssumption, FS_Interval
  <2> QED BY <2>1, <2>2, FS_Subset
<1>2. number \in Surjection(Numbered, Numbers)
  BY DEF Surjection, Numbers
<1>3. number \in Injection(Numbered, Numbers)
  <2> HIDE DEF number
  <2> QED BY <1>1, <1>2, FS_SurjSameCardinalityImpliesInj DEF Duplicate
<1> QED BY <1>3 DEF Injection, IsInjective

\* After a complete pass: how a file came to its work, if no season is named.
LEMMA SettledRows ==
    ASSUME EInv, complete, ~LaterSeason, NEW f \in EpisodeRows
    PROVE  /\ f \in Numbered /\ ~Duplicate
           /\ \/ Len(works) = 1 /\ rows[f] = Own(f, 1)
              \/ Numbering = "continuous" /\ \E w \in 1..Max(Layouts) : Split(f, rows[f], w)
<1>1. TypeOK /\ works \in Seq(WorkFacts) /\ rows = Decisions
  BY DEF EInv, Steady, TypeOK, RowsAreCurrent
<1>2. f \in Files /\ ~Facts[f].special /\ Decisions[f] # NoRow
  BY <1>1 DEF EpisodeRows
<1>3. /\ f \in files
      /\ \/ Numbering = "seasons" /\ Seasonal(f, rows[f]) /\ f \in Numbered
         \/ Numbering = "single" /\ Alone(f, rows[f]) /\ f \in Numbered
         \/ Numbering = "continuous" /\ \E w \in 1..Max(Layouts) : Split(f, rows[f], w)
  BY <1>1, <1>2, EpisodeDecisions
<1>4. Numbering # "seasons" /\ (Numbering \in {"single", "continuous"} => ~Duplicate)
  BY DEF Numbering
<1>5. CASE Numbering = "single" /\ Alone(f, rows[f]) /\ f \in Numbered
  BY <1>4, <1>5 DEF Alone
<1>6. CASE Numbering = "continuous" /\ \E w \in 1..Max(Layouts) : Split(f, rows[f], w)
  <2>1. PICK w \in 1..Max(Layouts) : Split(f, rows[f], w)
    BY <1>6
  <2>2. w - 1 \in 0..Len(works) /\ w - 1 \in 0..(w - 1) /\ 0 \in 0..(w - 1)
        /\ \A v \in 1..(w - 1) : works[v].count # Unknown
    BY <1>1, <2>1 DEF Split
  <2>3. 0 <= Last[w - 1] /\ Last[w - 1] \in Int
    BY <1>1, <2>2, LastGrows, LastCounts
  <2>4. Facts[f].start # Unknown
    BY <1>2, <2>1, <2>3, SeasonOfFile DEF Split, Unknown
  <2>5. f \in Numbered
    BY <1>2, <1>3, <2>4 DEF Numbered, Episodic
  <2> QED BY <1>4, <1>6, <2>5
<1> QED BY <1>3, <1>4, <1>5, <1>6

\* After a complete pass, unless seasons are named, no two files begin with the
\* same episode of the same work, and they have an episode in common only if
\* their names have a number in common.
THEOREM EpisodesAreUnique == Spec => []OverlapsAreNamed
<1>1. ASSUME EInv, complete, ~LaterSeason, NEW f \in EpisodeRows, NEW g \in EpisodeRows,
             f # g, rows[f].work = rows[g].work
      PROVE  /\ rows[f].start # rows[g].start
             /\ Overlap(rows[f].start, rows[f].end, rows[g].start, rows[g].end) =>
                  Overlap(Facts[f].start, Facts[f].end, Facts[g].start, Facts[g].end)
  <2>0. TypeOK /\ works \in Seq(WorkFacts) /\ f \in Files /\ g \in Files
    BY <1>1 DEF EInv, Steady, TypeOK, EpisodeRows
  <2>1. /\ f \in Numbered /\ ~Duplicate
        /\ \/ Len(works) = 1 /\ rows[f] = Own(f, 1)
           \/ Numbering = "continuous" /\ \E w \in 1..Max(Layouts) : Split(f, rows[f], w)
    BY <1>1, SettledRows
  <2>2. /\ g \in Numbered
        /\ \/ Len(works) = 1 /\ rows[g] = Own(g, 1)
           \/ Numbering = "continuous" /\ \E w \in 1..Max(Layouts) : Split(g, rows[g], w)
    BY <1>1, SettledRows
  <2>3. ASSUME NEW h \in {f, g}
        PROVE  /\ rows[h].work \in DOMAIN works
               /\ rows[h].start = Facts[h].start - Last[rows[h].work - 1]
               /\ rows[h].end = Facts[h].end - Last[rows[h].work - 1]
    <3>1. h \in Files /\ Facts[h].start \in Int /\ Facts[h].end \in Int
      BY <2>0, SeasonOfFile
    <3>2. CASE Len(works) = 1 /\ rows[h] = Own(h, 1)
      <4>1. rows[h].work = 1 /\ rows[h].start = Facts[h].start /\ rows[h].end = Facts[h].end
        BY <3>2 DEF Own, Row
      <4>2. Last[0] = 0
        BY <2>0, LastCounts
      <4> QED BY <2>0, <3>1, <3>2, <4>1, <4>2
    <3>3. CASE \E w \in 1..Max(Layouts) : Split(h, rows[h], w)
      <4>1. PICK w \in 1..Max(Layouts) : Split(h, rows[h], w)
        BY <3>3
      <4>2. /\ rows[h].work = w /\ rows[h].start = Facts[h].start - Last[w - 1]
            /\ rows[h].end = Facts[h].end - Last[w - 1]
        BY <4>1 DEF Split, Row
      <4> QED BY <4>1, <4>2 DEF Split
    <3> QED BY <2>1, <2>2, <3>2, <3>3
  <2> DEFINE off == Last[rows[f].work - 1]
  <2>4. /\ rows[f].start = Facts[f].start - off /\ rows[f].end = Facts[f].end - off
        /\ rows[g].start = Facts[g].start - off /\ rows[g].end = Facts[g].end - off
    BY <1>1, <2>3
  <2>5. off \in Int
    <3>1. rows[f].work \in DOMAIN works
      BY <2>3
    <3> QED BY <2>0, <3>1, LastCounts
  <2>6. /\ Facts[f].start \in Int /\ Facts[f].end \in Int
        /\ Facts[g].start \in Int /\ Facts[g].end \in Int
    BY <2>0, SeasonOfFile
  <2>7. Facts[f].start # Facts[g].start
    BY <1>1, <2>0, <2>1, <2>2, NumbersDiffer
  <2> HIDE DEF off
  <2>8. rows[f].start # rows[g].start
    BY <2>4, <2>5, <2>6, <2>7
  <2>9. Overlap(rows[f].start, rows[f].end, rows[g].start, rows[g].end) =>
          Overlap(Facts[f].start, Facts[f].end, Facts[g].start, Facts[g].end)
    BY <2>4, <2>5, <2>6 DEF Overlap
  <2> QED BY <2>8, <2>9
<1>2. EInv => OverlapsAreNamed
  BY <1>1 DEF OverlapsAreNamed
<1> QED BY Invariant, <1>2, PTL

\* After a complete pass a file belongs to a later work only if the files have
\* every episode of the works before it, unless seasons are named.
THEOREM SequencesAreComplete == Spec => []SplitsAreComplete
<1>1. ASSUME EInv, complete, ~LaterSeason, NEW f \in EpisodeRows,
             NEW v \in 1..(rows[f].work - 1)
      PROVE  works[v].count # Unknown /\ 1..Last[v] \subseteq Numbers
  <2>0. works \in Seq(WorkFacts)
    BY <1>1 DEF EInv, Steady, TypeOK
  <2>1. \/ Len(works) = 1 /\ rows[f] = Own(f, 1)
        \/ Numbering = "continuous" /\ \E w \in 1..Max(Layouts) : Split(f, rows[f], w)
    BY <1>1, SettledRows
  <2>2. CASE rows[f] = Own(f, 1)
    BY <2>2 DEF Own, Row
  <2>3. CASE Numbering = "continuous" /\ \E w \in 1..Max(Layouts) : Split(f, rows[f], w)
    <3>1. PICK n \in DOMAIN works :
            /\ Max(Layouts) = n /\ \A u \in 1..n : works[u].count # Unknown
            /\ Numbers = 1..Last[n]
      BY <2>0, <2>3, Continuous
    <3>2. PICK w \in 1..n : Split(f, rows[f], w)
      BY <2>3, <3>1
    <3>3. rows[f].work = w
      BY <3>2 DEF Split, Row
    <3>4. v \in 1..n /\ v \in 0..n /\ n \in 0..Len(works)
      BY <2>0, <3>3
    <3>5. Last[v] <= Last[n] /\ Last[v] \in Int /\ Last[n] \in Int
      BY <2>0, <3>1, <3>4, LastGrows, LastCounts
    <3> QED BY <3>1, <3>4, <3>5
  <2> QED BY <2>1, <2>2, <2>3
<1>2. EInv => SplitsAreComplete
  BY <1>1 DEF SplitsAreComplete
<1> QED BY Invariant, <1>2, PTL

\* A step keeps or takes away the row of an episode whose work, with those
\* before it, has kept its place and count since the last complete pass.
THEOREM RowsDoNotFlip == Spec => DecisionsDoNotFlip
<1> DEFINE Keep == \A f \in EpisodeRows : rows[f].work <= stable /\ rows[f].work <= stable' =>
                     rows'[f] \in {rows[f], NoRow}
<1>1. ASSUME EInv, [Next]_vars PROVE [Keep]_vars
  <2>1. SUFFICES ASSUME Next, NEW f \in EpisodeRows,
                        rows[f].work <= stable, rows[f].work <= stable'
                 PROVE  rows'[f] \in {rows[f], NoRow}
    BY <1>1
  <2>2. TypeOK /\ f \in Files /\ ~Facts[f].special /\ rows[f] # NoRow
        /\ (InSeason(f) \/ InSequence(f))
    BY <1>1, <2>1 DEF EInv, Steady, Anchored, EpisodeRows
  <2>3. CASE Map
    <3>1. Decisions[f] \in {rows[f], NoRow}
      BY <2>2, NoFlip
    <3> QED BY <2>2, <2>3, <3>1 DEF Map, Pass, BreakPass, Written
  <2>4. CASE AddFile \/ RemoveFile \/ LearnCount
    BY <2>4 DEF AddFile, RemoveFile, LearnCount
  <2>5. CASE AddWork \/ DropWork \/ MoveWorks
    <3>1. PICK to, p : Rearranges(to, p)
      BY <2>2, <2>5, WorksRearranged
    <3>2. p \in 1..MaxWorks /\ CutAt(p)
      BY <3>1 DEF Rearranges
    <3>3. stable' < p /\ stable' \in Nat /\ p \in Nat /\ rows[f].work \in Nat
      BY <2>2, <3>2, CutStable, BoundsAssumption DEF TypeOK
    <3> QED BY <2>1, <2>2, <3>1, <3>3, BeforeTheCut
  <2> QED BY <2>1, <2>3, <2>4, <2>5 DEF Next
<1> QED BY Invariant, <1>1, PTL DEF Spec, DecisionsDoNotFlip

===============================================================================
