------------------------- MODULE CandidateWorksProofs -------------------------
(***************************************************************************)
(* Proofs about CandidateWorks for any relation graph, any limits, and any *)
(* number of refreshes, outages and crashes: the walk stays within the     *)
(* limit of works, removes nothing it could not verify, stores the shortest*)
(* distances, and prefers the nearer works.                                *)
(***************************************************************************)
EXTENDS CandidateWorks, FiniteSetTheorems, WellFoundedInduction, TLAPS

-----------------------------------------------------------------------------
(* The invariant.                                                          *)

\* The base works count as visited; what is retained was visited while there
\* was room.
Walking ==
    /\ pc # "idle" => BaseWorks \subseteq visited
    /\ retained # {} => Cardinality(visited) <= MaxWorks
    /\ pc = "idle" => retained = {}
    /\ pc = "expand" => depth < MaxDepth

\* As long as nothing was missed, every record visited is cached.
Verified == pc # "idle" /\ complete => visited \subseteq cached

\* Only what a complete discovery left, and nothing changed since, is exact.
Exactness == (pc # "idle" => ~exact) /\ (exact => WithinLimit)

DistanceOf(r) == works[r].distance

Reached == {Primary} \cup retained
Queued == {queue[i][1] : i \in 1..Len(queue)}
Full == Cardinality(visited) >= MaxWorks

\* What was retained is stored with its shortest distance, and everything nearer
\* was visited before it.
Found ==
    /\ visited = BaseWorks \cup retained
    /\ \A r \in retained :
         /\ works[r] \in {Related(d) : d \in 1..MaxDepth}
         /\ r \in Within[DistanceOf(r)] /\ r \notin Within[DistanceOf(r) - 1]
         /\ Within[DistanceOf(r) - 1] \subseteq visited

\* The queue is sorted by distance, and holds at most two levels at a time.
Queueing ==
    \A i \in 1..Len(queue) :
        /\ queue[i][1] \in Reached /\ queue[i][2] = DistanceOf(queue[i][1])
        /\ \A j \in i..Len(queue) : queue[i][2] <= queue[j][2]
        /\ \A r \in retained : DistanceOf(r) <= queue[i][2] + 1
        /\ pc = "expand" => depth <= queue[i][2]

Expanding ==
    pc = "expand" =>
        /\ pending \ BaseWorks \subseteq Within[depth + 1]
        /\ \A r \in retained : DistanceOf(r) <= depth + 1

\* A record that was reached is at the last level, queued, expanded, being
\* expanded, or the limit ended the walk.
Expanded ==
    \A r \in Reached :
        \/ DistanceOf(r) >= MaxDepth
        \/ r \in Queued
        \/ relations[r] \subseteq visited
        \/ /\ pc = "expand" /\ DistanceOf(r) = depth
           /\ relations[r] \subseteq visited \cup pending
        \/ Full

\* The walk is breadth-first, as long as nothing was missed.
BreadthFirst == pc # "idle" /\ complete => Found /\ Queueing /\ Expanding /\ Expanded

\* What a complete discovery leaves is right until something changes.
Results == DistancesAreShortest /\ NearestWorksFirst

CInv == TypeOK /\ Walking /\ Verified /\ Exactness /\ BreadthFirst /\ Results

-----------------------------------------------------------------------------
(* Works, limits and targets.                                              *)

Work == {NoWork, Base} \cup {Related(d) : d \in 1..3}

LEMMA WorkSources ==
    /\ NoWork \in Work /\ NoWork.source = "none" /\ NoWork # Base
    /\ Base \in Work /\ Base.source = "base"
    /\ \A d \in 1..3 : /\ Related(d) \in Work /\ Related(d).source = "relation"
                       /\ Related(d) # Base /\ Related(d) # NoWork
BY DEF Work, NoWork, Base, Related

LEMMA LimitTypes ==
    ASSUME TypeOK
    PROVE  MaxDepth \in 1..3 /\ MaxWorks \in 1..12
BY LimitsAssumption DEF TypeOK, MaxDepth, MaxWorks

LEMMA PrimaryIsRecord == Primary \in Records
BY RecordsAssumption DEF Primary, Records

LEMMA VisitedIsFinite ==
    ASSUME NEW S \in SUBSET Records
    PROVE  IsFiniteSet(S) /\ Cardinality(S) \in Nat
<1>1. IsFiniteSet(Records)
  BY RecordsAssumption, FS_Interval DEF Records
<1> QED BY <1>1, FS_Subset, FS_CardinalityType

\* The first of the pending targets, in the order of their keys.
LEMMA TargetIsPending ==
    ASSUME TypeOK, pending # {}
    PROVE  Target \in pending /\ Target \in Records
<1> DEFINE Before == {ss \in Nat \X Nat : ss[1] < ss[2]}
<1>0. IsWellFoundedOn(Before, Nat)
  BY NatLessThanWellFounded DEF OpToRel
<1>1. pending \subseteq Nat
  BY DEF TypeOK, Records
<1>2. PICK r \in pending : \A s \in pending : <<s, r>> \notin Before
  <2> HIDE DEF Before
  <2> QED BY <1>0, <1>1, WFMin
<1>3. \A s \in pending : r <= s
  <2>1. ASSUME NEW s \in pending, s < r PROVE FALSE
    <3>1. <<s, r>> \in Nat \X Nat /\ <<s, r>>[1] < <<s, r>>[2]
      BY <1>1, <2>1
    <3> QED BY <1>2, <3>1
  <2> QED BY <1>1, <2>1
<1>4. Target \in pending
  BY <1>3 DEF Target
<1> QED BY <1>4 DEF TypeOK

LEMMA BaseDiffers ==
    ASSUME TypeOK, NEW r \in Records
    PROVE  /\ works[r] \in Work
           /\ works[r] = Base <=> works[r].source = "base"
           /\ works[r].source \in {"none", "base", "relation"}
           /\ works[r] = NoWork <=> works[r].source = "none"
BY DEF TypeOK, Work, NoWork, Base, Related

-----------------------------------------------------------------------------
(* Types.                                                                  *)

LocalsTyped ==
    /\ queue \in Seq(Records \X (0..3)) /\ pending \subseteq Records /\ depth \in 0..3
    /\ visited \subseteq Records /\ retained \subseteq visited
    /\ complete \in BOOLEAN

LEMMA LocalsForgotten == ASSUME ForgetLocals PROVE LocalsTyped'
<1>1. queue' \in Seq(Records \X (0..3))
  BY DEF ForgetLocals
<1>2. complete' \in BOOLEAN
  BY Zenon DEF ForgetLocals
<1> QED BY <1>1, <1>2 DEF ForgetLocals, LocalsTyped

LEMMA TypeStep == ASSUME CInv, [Next]_vars PROVE TypeOK'
<1>a. TypeOK /\ Walking
  BY DEF CInv
<1>b. works \in [Records -> Work] /\ NoWork \in Work /\ Base \in Work
  BY <1>a DEF TypeOK, Work
<1>1. CASE RefreshRelations
  <2>1. relations' \in [Records -> SUBSET Records]
    BY <1>a, <1>1 DEF TypeOK, RefreshRelations
  <2>2. changes' \in 0..MaxChanges /\ exact' \in BOOLEAN
    <3>1. changes' \in 0..MaxChanges
      BY <1>a, <1>1, BoundsAssumption DEF TypeOK, RefreshRelations, Change
    <3>2. exact' \in BOOLEAN
      BY <1>1, Zenon DEF RefreshRelations, Change
    <3> QED BY <3>1, <3>2
  <2> QED BY <1>a, <1>1, <2>1, <2>2 DEF TypeOK, RefreshRelations, Change, walk
<1>2. CASE EditSidecar
  <2>1. PICK r \in Records \ {Primary} :
            /\ works' = [works EXCEPT ![r] = IF works[r] = Base THEN NoWork ELSE Base]
            /\ cached' = cached \cup {r}
    BY <1>2 DEF EditSidecar
  <2>2. works' \in [Records -> Work] /\ works'[Primary] = Base
    BY <1>a, <1>b, <2>1 DEF TypeOK
  <2>3. \A s \in Records : works'[s] # NoWork => works[s] # NoWork \/ s = r
    BY <1>b, <2>1
  <2>4. {s \in Records : works'[s] # NoWork} \subseteq cached' /\ cached' \subseteq Records
    BY <1>a, <2>1, <2>3 DEF TypeOK
  <2>5. changes' \in 0..MaxChanges /\ exact' \in BOOLEAN
    <3>1. changes' \in 0..MaxChanges
      BY <1>a, <1>2, BoundsAssumption DEF TypeOK, EditSidecar, Change
    <3>2. exact' \in BOOLEAN
      BY <1>2, Zenon DEF EditSidecar, Change
    <3> QED BY <3>1, <3>2
  <2> QED
    BY <1>a, <1>2, <2>2, <2>4, <2>5
       DEF TypeOK, Work, EditSidecar, Change, graph, walk
<1>3. CASE NotSuspected
  <2>1. works' \in [Records -> Work] /\ works'[Primary] = Base
    BY <1>a, <1>b, <1>3, PrimaryIsRecord, WorkSources DEF TypeOK, NotSuspected
  <2>2. {s \in Records : works'[s] # NoWork} \subseteq cached
    BY <1>a, <1>b, <1>3 DEF TypeOK, NotSuspected
  <2> QED BY <1>a, <1>3, <2>1, <2>2 DEF TypeOK, Work, NotSuspected, graph, walk
<1>4. CASE Start
  <2>1. queue' \in Seq(Records \X (0..3))
    BY <1>4, PrimaryIsRecord DEF Start
  <2>2. pending' \subseteq Records /\ depth' \in 0..3 /\ pc' \in {"idle", "next", "expand"}
    BY <1>4 DEF Start
  <2>3. visited' \subseteq Records /\ retained' \subseteq visited'
        /\ complete' \in BOOLEAN /\ exact' \in BOOLEAN
    BY <1>4 DEF Start, BaseWorks
  <2> QED BY <1>a, <1>4, <2>1, <2>2, <2>3 DEF TypeOK, Start, graph
<1>5. CASE NextSource
  <2>1. queue' \in Seq(Records \X (0..3)) /\ Head(queue) \in Records \X (0..3)
    BY <1>a, <1>5 DEF TypeOK, NextSource
  <2>2. /\ pc' \in {"idle", "next", "expand"} /\ pending' \subseteq Records
        /\ depth' \in 0..3
    BY <1>a, <1>5, <2>1 DEF TypeOK, NextSource
  <2> QED BY <1>a, <1>5, <2>1, <2>2 DEF TypeOK, NextSource, graph
<1>6. CASE EndSource
  BY <1>a, <1>6 DEF TypeOK, EndSource, graph, walk
<1>7. CASE SkipVisited
  BY <1>a, <1>7 DEF TypeOK, SkipVisited, Look, graph
<1>8. CASE VerifyTarget
  BY <1>a, <1>8, TargetIsPending DEF TypeOK, VerifyTarget, graph, walk
<1>9. CASE VisitTarget
  <2>1. /\ Target \in Records /\ Target \in cached /\ depth + 1 \in 1..3
        /\ Target \notin visited /\ BaseWorks \subseteq visited
    BY <1>a, <1>9, TargetIsPending, LimitTypes
       DEF VisitTarget, Look, Room, Walking, TypeOK
  <2>2. Related(depth + 1) \in Work /\ Target # Primary
    BY <1>a, <2>1, WorkSources, PrimaryIsRecord DEF TypeOK, BaseWorks
  <2>3. works' \in [Records -> Work] /\ works'[Primary] = Base
    BY <1>a, <1>b, <1>9, <2>1, <2>2 DEF VisitTarget, TypeOK
  <2>4. {s \in Records : works'[s] # NoWork} \subseteq cached
    BY <1>a, <1>b, <1>9, <2>1 DEF VisitTarget, TypeOK
  <2>5. queue' \in Seq(Records \X (0..3))
    BY <1>a, <1>9, <2>1 DEF VisitTarget, TypeOK
  <2>6. pending' \subseteq Records /\ visited' \subseteq Records /\ retained' \subseteq visited'
    BY <1>a, <1>9, <2>1 DEF VisitTarget, Look, TypeOK
  <2> QED
    BY <1>a, <1>9, <2>3, <2>4, <2>5, <2>6 DEF TypeOK, Work, VisitTarget, graph
<1>10. CASE MissTarget
  <2>1. Target \in Records
    BY <1>a, <1>10, TargetIsPending DEF MissTarget, Look
  <2>2. faults' \in 0..MaxFaults /\ complete' \in BOOLEAN /\ pending' \subseteq Records
    <3>1. faults' \in 0..MaxFaults /\ pending' \subseteq Records
      BY <1>a, <1>10, BoundsAssumption DEF TypeOK, MissTarget, Look
    <3>2. complete' \in BOOLEAN
      BY <1>10, Zenon DEF MissTarget
    <3> QED BY <3>1, <3>2
  <2>3. visited' \subseteq Records /\ retained' \subseteq visited'
    BY <1>a, <1>10, <2>1 DEF TypeOK, MissTarget
  <2> QED BY <1>a, <1>10, <2>2, <2>3 DEF TypeOK, MissTarget, Look, graph
<1>11. CASE Finish
  <2>1. works' \in [Records -> Work] /\ works'[Primary] = Base
    BY <1>a, <1>b, <1>11, PrimaryIsRecord, WorkSources
       DEF TypeOK, Finish, RelationWorks
  <2>2. {s \in Records : works'[s] # NoWork} \subseteq cached
    BY <1>a, <1>b, <1>11 DEF TypeOK, Finish
  <2>3. ForgetLocals /\ exact' \in BOOLEAN /\ pc' = "idle"
    BY <1>a, <1>11 DEF TypeOK, Finish
  <2>4. LocalsTyped'
    BY <2>3, LocalsForgotten
  <2> QED BY <1>a, <1>11, <2>1, <2>2, <2>3, <2>4
             DEF TypeOK, Work, Finish, LocalsTyped, graph
<1>12. CASE Crash
  <2>1. ForgetLocals /\ faults' \in 0..MaxFaults /\ pc' = "idle"
    BY <1>a, <1>12, BoundsAssumption DEF TypeOK, Crash
  <2>2. LocalsTyped'
    BY <2>1, LocalsForgotten
  <2> QED BY <1>a, <1>12, <2>1, <2>2 DEF TypeOK, Crash, LocalsTyped, graph
<1>13. CASE UNCHANGED vars
  BY <1>a, <1>13 DEF TypeOK, vars, graph, walk
<1> QED
  BY <1>1, <1>2, <1>3, <1>4, <1>5, <1>6, <1>7, <1>8, <1>9, <1>10, <1>11, <1>12, <1>13
     DEF Next, Discover

-----------------------------------------------------------------------------
(* The walk.                                                               *)

LEMMA WalkingStep == ASSUME CInv, [Next]_vars PROVE Walking'
<1>a. TypeOK /\ Walking
  BY DEF CInv
<1>1. CASE RefreshRelations \/ EditSidecar \/ NotSuspected
  <2>1. pc' = "idle" /\ retained' = {}
    BY <1>a, <1>1
       DEF RefreshRelations, EditSidecar, NotSuspected, Change, Walking, walk
  <2> QED BY <2>1 DEF Walking
<1>2. CASE Start
  <2>1. pc' = "next" /\ retained' = {} /\ visited' = BaseWorks /\ works' = works
    BY <1>2 DEF Start
  <2> QED BY <2>1 DEF Walking, BaseWorks
<1>3. CASE NextSource
  <2>1. /\ UNCHANGED <<works, limits, visited, retained>> /\ pc = "next"
        /\ pc' # "idle"
    BY <1>3 DEF NextSource, graph
  <2>2. pc' = "expand" => depth' < MaxDepth
    <3>1. Head(queue) \in Records \X (0..3)
      BY <1>a, <1>3 DEF TypeOK, NextSource
    <3> QED BY <1>a, <1>3, <2>1, <3>1, LimitTypes DEF NextSource
  <2> QED BY <1>a, <2>1, <2>2 DEF Walking, BaseWorks, MaxDepth, MaxWorks
<1>4. CASE EndSource \/ SkipVisited \/ VerifyTarget
  <2>1. /\ UNCHANGED <<works, limits, visited, retained, depth>> /\ pc = "expand"
        /\ pc' \in {"next", "expand"}
    BY <1>4 DEF EndSource, SkipVisited, VerifyTarget, Look, graph, walk
  <2> QED BY <1>a, <2>1 DEF Walking, BaseWorks, MaxDepth, MaxWorks
<1>5. CASE VisitTarget \/ MissTarget
  <2>1. /\ UNCHANGED <<limits, depth, pc>> /\ pc = "expand"
        /\ visited' = visited \cup {Target} /\ Target \notin visited
        /\ Cardinality(visited) < MaxWorks
    BY <1>5 DEF VisitTarget, MissTarget, Look, Room, graph
  <2>2. Cardinality(visited') <= MaxWorks
    <3>1. IsFiniteSet(visited) /\ Cardinality(visited) \in Nat
      BY <1>a, VisitedIsFinite DEF TypeOK
    <3>2. Cardinality(visited') = Cardinality(visited) + 1
      BY <2>1, <3>1, FS_AddElement
    <3> QED BY <1>a, <2>1, <3>1, <3>2, LimitTypes
  <2>3. BaseWorks' \subseteq BaseWorks
    <3>1. \A d \in 1..3 : Related(d) # Base
      BY WorkSources
    <3>2. depth + 1 \in 1..3
      BY <1>a, <2>1, LimitTypes DEF Walking, TypeOK
    <3> QED BY <1>a, <1>5, <3>1, <3>2
               DEF VisitTarget, MissTarget, BaseWorks, TypeOK
  <2> QED BY <1>a, <2>1, <2>2, <2>3 DEF Walking, MaxDepth, MaxWorks
<1>6. CASE Finish \/ Crash
  <2>1. pc' = "idle" /\ retained' = {}
    BY <1>6 DEF Finish, Crash, ForgetLocals
  <2> QED BY <2>1 DEF Walking
<1>7. CASE UNCHANGED vars
  BY <1>a, <1>7 DEF Walking, BaseWorks, MaxDepth, MaxWorks, vars, graph, walk
<1> QED BY <1>1, <1>2, <1>3, <1>4, <1>5, <1>6, <1>7 DEF Next, Discover

LEMMA VerifiedStep == ASSUME CInv, [Next]_vars PROVE Verified'
<1>a. TypeOK /\ Verified
  BY DEF CInv
<1>1. CASE RefreshRelations \/ EditSidecar \/ NotSuspected \/ Finish \/ Crash
  BY <1>1
     DEF RefreshRelations, EditSidecar, NotSuspected, Change, Finish, Crash,
         Verified
<1>2. CASE Start
  <2>1. BaseWorks \subseteq cached
    BY <1>a, WorkSources DEF TypeOK, BaseWorks
  <2> QED BY <1>2, <2>1 DEF Start, Verified
<1>3. CASE NextSource \/ EndSource \/ SkipVisited \/ VerifyTarget
  <2>1. UNCHANGED <<visited, complete>> /\ cached \subseteq cached' /\ pc # "idle"
    BY <1>3 DEF NextSource, EndSource, SkipVisited, VerifyTarget, Look, walk
  <2> QED BY <1>a, <2>1 DEF Verified
<1>4. CASE VisitTarget
  <2>1. /\ visited' = visited \cup {Target} /\ Target \in cached /\ pc # "idle"
        /\ UNCHANGED <<cached, complete>>
    BY <1>4 DEF VisitTarget, Look, Room
  <2> QED BY <1>a, <2>1 DEF Verified
<1>5. CASE MissTarget
  BY <1>5 DEF MissTarget, Verified
<1>6. CASE UNCHANGED vars
  BY <1>a, <1>6 DEF vars, walk, Verified
<1> QED BY <1>1, <1>2, <1>3, <1>4, <1>5, <1>6 DEF Next, Discover

-----------------------------------------------------------------------------
(* What a complete discovery leaves.                                       *)

LEMMA ExactnessStep == ASSUME CInv, [Next]_vars PROVE Exactness'
<1>a. TypeOK /\ Walking /\ Exactness
  BY DEF CInv
<1>1. CASE RefreshRelations \/ EditSidecar \/ Start
  <2>1. ~exact'
    BY <1>1 DEF RefreshRelations, EditSidecar, Change, Start
  <2> QED BY <2>1 DEF Exactness
<1>2. CASE NotSuspected
  <2>1. pc' = "idle" /\ RelationWorks' = {}
    BY <1>2, WorkSources DEF NotSuspected, RelationWorks
  <2> QED BY <2>1 DEF Exactness, WithinLimit
<1>3. CASE NextSource \/ EndSource \/ SkipVisited \/ VerifyTarget \/ VisitTarget \/ MissTarget
  <2>1. pc # "idle" /\ exact' = exact
    BY <1>3
       DEF NextSource, EndSource, SkipVisited, VerifyTarget, VisitTarget,
           MissTarget, Look
  <2> QED BY <1>a, <2>1 DEF Exactness
<1>4. CASE Finish
  <2>1. /\ pc' = "idle" /\ pc # "idle" /\ exact' = complete /\ limits' = limits
        /\ works' = [r \in Records |-> IF complete /\ r \in RelationWorks \ retained
                                       THEN NoWork ELSE works[r]]
    BY <1>4 DEF Finish, graph
  <2>2. ASSUME complete, RelationWorks' # {} PROVE WithinLimit'
    <3>1. RelationWorks' \subseteq retained
      BY <2>1, <2>2, WorkSources DEF RelationWorks
    <3>2. BaseWorks' \subseteq BaseWorks
      BY <2>1, <2>2, WorkSources DEF BaseWorks
    <3>3. (BaseWorks \cup RelationWorks)' \subseteq visited
      BY <1>a, <2>1, <3>1, <3>2 DEF Walking, TypeOK
    <3>4. IsFiniteSet(visited) /\ Cardinality(visited) \in Nat /\ Cardinality(visited) <= MaxWorks
      BY <1>a, <2>2, <3>1, VisitedIsFinite DEF TypeOK, Walking
    <3>5. /\ Cardinality((BaseWorks \cup RelationWorks)') <= Cardinality(visited)
          /\ Cardinality((BaseWorks \cup RelationWorks)') \in Nat
      BY <3>3, <3>4, FS_Subset, FS_CardinalityType
    <3>6. MaxWorks' = MaxWorks /\ MaxWorks \in Nat
      BY <1>a, <2>1, LimitTypes DEF MaxWorks
    <3> QED BY <3>4, <3>5, <3>6 DEF WithinLimit
  <2> QED BY <2>1, <2>2 DEF Exactness, WithinLimit
<1>5. CASE Crash
  <2>1. pc # "idle" /\ exact' = exact
    BY <1>5 DEF Crash
  <2> QED BY <1>a, <2>1 DEF Exactness
<1>6. CASE UNCHANGED vars
  BY <1>a, <1>6
     DEF vars, graph, Exactness, WithinLimit, BaseWorks, RelationWorks, MaxWorks
<1> QED BY <1>1, <1>2, <1>3, <1>4, <1>5, <1>6 DEF Next, Discover

-----------------------------------------------------------------------------
(* Levels and distances.                                                   *)

\* One level further.
Further(S) == S \cup ((UNION {relations[r] : r \in S}) \ BaseWorks)

LEMMA FurtherFollows ==
    ASSUME NEW S, NEW s
    PROVE  s \in Further(S) <=>
             s \in S \/ (s \notin BaseWorks /\ \E r \in S : s \in relations[r])
BY DEF Further

\* The equations of Within, which TLA+ defines as a choice among the functions
\* that satisfy them: there is one.
LEMMA WithinLevels ==
    /\ Within[0] = {Primary}
    /\ \A n \in 1..3 : Within[n] = Further(Within[n - 1])
<1> DEFINE Goes(h) == [n \in 0..3 |-> IF n = 0 THEN {Primary} ELSE Further(h[n - 1])]
           One == Further({Primary})
           Two == Further(One)
           Three == Further(Two)
           g == [n \in 0..3 |-> IF n = 0 THEN {Primary}
                                ELSE IF n = 1 THEN One
                                ELSE IF n = 2 THEN Two ELSE Three]
<1>1. g = Goes(g)
  <2>1. One = Further({Primary}) /\ Two = Further(One) /\ Three = Further(Two)
    OBVIOUS
  <2> HIDE DEF One, Two, Three
  <2>2. ASSUME NEW n \in 0..3 PROVE g[n] = Goes(g)[n]
    <3>1. n = 0 \/ n = 1 \/ n = 2 \/ n = 3
      OBVIOUS
    <3> QED BY <2>1, <3>1
  <2> QED BY <2>2
<1>2. Within = CHOOSE h : h = Goes(h)
  BY DEF Within, Further
<1> HIDE DEF g
<1>3. Within = Goes(Within)
  <2> HIDE DEF Goes
  <2> QED BY <1>1, <1>2
<1> QED BY <1>3

LEMMA WithinNext ==
    ASSUME NEW n \in 0..2, NEW s
    PROVE  s \in Within[n + 1] <=>
             s \in Within[n] \/ (s \notin BaseWorks /\ \E r \in Within[n] : s \in relations[r])
<1>1. n + 1 \in 1..3 /\ (n + 1) - 1 = n
  OBVIOUS
<1>2. Within[n + 1] = Further(Within[n])
  BY <1>1, WithinLevels
<1> QED BY <1>2, FurtherFollows

\* The levels grow, and hold no base work but the primary.
LEMMA WithinGrows ==
    ASSUME NEW n \in 0..3, NEW m \in 0..n
    PROVE  Within[m] \subseteq Within[n]
<1>1. ASSUME NEW k \in 0..2 PROVE Within[k] \subseteq Within[k + 1]
  BY <1>1, WithinNext
<1>2. /\ Within[0] \subseteq Within[1] /\ Within[1] \subseteq Within[2]
      /\ Within[2] \subseteq Within[3]
  <2>1. Within[0] \subseteq Within[0 + 1] /\ Within[1] \subseteq Within[1 + 1]
        /\ Within[2] \subseteq Within[2 + 1]
    BY <1>1
  <2>2. 0 + 1 = 1 /\ 1 + 1 = 2 /\ 2 + 1 = 3
    OBVIOUS
  <2> QED BY <2>1, <2>2
<1>3. n \in {0, 1, 2, 3} /\ m \in {0, 1, 2, 3} /\ m <= n
  OBVIOUS
<1> QED BY <1>2, <1>3

LEMMA WithinRelated ==
    ASSUME NEW n \in 0..3
    PROVE  Within[n] \cap BaseWorks \subseteq {Primary}
<1>1. ASSUME NEW k \in 0..2, Within[k] \cap BaseWorks \subseteq {Primary}
      PROVE  Within[k + 1] \cap BaseWorks \subseteq {Primary}
  BY <1>1, WithinNext
<1>2. Within[0] \cap BaseWorks \subseteq {Primary}
  BY WithinLevels
<1>3. Within[1] \cap BaseWorks \subseteq {Primary}
  <2>1. Within[0 + 1] \cap BaseWorks \subseteq {Primary}
    BY <1>1, <1>2
  <2> QED BY <2>1
<1>4. Within[2] \cap BaseWorks \subseteq {Primary}
  <2>1. Within[1 + 1] \cap BaseWorks \subseteq {Primary}
    BY <1>1, <1>3
  <2> QED BY <2>1
<1>5. Within[3] \cap BaseWorks \subseteq {Primary}
  <2>1. Within[2 + 1] \cap BaseWorks \subseteq {Primary}
    BY <1>1, <1>4
  <2> QED BY <2>1
<1>6. n \in {0, 1, 2, 3}
  OBVIOUS
<1> QED BY <1>2, <1>3, <1>4, <1>5, <1>6

LEMMA SameLevels ==
    ASSUME relations' = relations, BaseWorks' = BaseWorks
    PROVE  Within' = Within
BY DEF Within

LEMMA DistanceTypes ==
    ASSUME TypeOK
    PROVE  /\ \A r \in Records : DistanceOf(r) \in 0..3
           /\ DistanceOf(Primary) = 0
           /\ \A r \in Records, d \in 1..3 : works[r] = Related(d) => DistanceOf(r) = d
<1>1. \A r \in Records : works[r] \in Work
  BY DEF TypeOK, Work
<1>2. \A w \in Work : w.distance \in 0..3
  BY DEF Work, NoWork, Base, Related
<1> QED BY <1>1, <1>2, PrimaryIsRecord DEF DistanceOf, TypeOK, Base, Related

\* What a distance says of a retained record.
LEMMA RetainedDistance ==
    ASSUME TypeOK, Found, NEW r \in retained
    PROVE  /\ r \in Records /\ r # Primary /\ r \notin BaseWorks
           /\ DistanceOf(r) \in 1..MaxDepth /\ DistanceOf(r) \in 1..3
           /\ works[r].source = "relation"
<1>1. PICK d \in 1..MaxDepth : works[r] = Related(d)
  BY DEF Found
<1>2. d \in 1..3 /\ r \in Records
  BY LimitTypes, <1>1 DEF TypeOK
<1>3. DistanceOf(r) = d /\ works[r] # Base /\ works[r].source = "relation"
  BY <1>1, <1>2, DistanceTypes, WorkSources
<1> QED BY <1>1, <1>2, <1>3 DEF TypeOK, BaseWorks

\* When every record nearer than m is expanded, the whole level m is visited.
LEMMA LevelsAreVisited ==
    ASSUME TypeOK, Found, NEW m \in 0..3,
           \A r \in Reached : DistanceOf(r) < m => relations[r] \subseteq visited
    PROVE  Within[m] \subseteq visited
<1>1. Primary \in visited /\ Primary \in Reached /\ DistanceOf(Primary) = 0
  BY PrimaryIsRecord, DistanceTypes DEF TypeOK, Found, BaseWorks, Reached
<1>2. ASSUME NEW n \in 0..2, n < m, Within[n] \subseteq visited
      PROVE  Within[n + 1] \subseteq visited
  <2>1. ASSUME NEW r \in Within[n] PROVE relations[r] \subseteq visited
    <3>1. CASE r \in BaseWorks
      <4>1. r = Primary
        BY <2>1, <3>1, WithinRelated
      <4>2. DistanceOf(r) < m
        BY <1>1, <1>2, <4>1
      <4> QED BY <1>1, <4>1, <4>2
    <3>2. CASE r \in retained
      <4>1. DistanceOf(r) \in 1..3 /\ r \notin Within[DistanceOf(r) - 1]
        BY <3>2, RetainedDistance DEF Found
      <4>2. DistanceOf(r) <= n
        <5>1. ASSUME n < DistanceOf(r) PROVE FALSE
          <6>1. n \in 0..(DistanceOf(r) - 1) /\ DistanceOf(r) - 1 \in 0..3
            BY <4>1, <5>1
          <6>2. Within[n] \subseteq Within[DistanceOf(r) - 1]
            BY <6>1, WithinGrows
          <6> QED BY <2>1, <4>1, <6>2
        <5> QED BY <4>1, <5>1
      <4>3. DistanceOf(r) < m
        BY <1>2, <4>1, <4>2
      <4> QED BY <3>2, <4>3 DEF Reached
    <3> QED BY <1>2, <2>1, <3>1, <3>2 DEF Found
  <2> QED BY <1>2, <2>1, WithinNext
<1>3. Within[0] \subseteq visited
  BY <1>1, WithinLevels
<1>4. m >= 1 => Within[1] \subseteq visited
  <2>1. 0 < m => Within[0 + 1] \subseteq visited
    BY <1>2, <1>3
  <2> QED BY <2>1
<1>5. m >= 2 => Within[2] \subseteq visited
  <2>1. 1 < m => Within[1 + 1] \subseteq visited
    BY <1>2, <1>4
  <2> QED BY <2>1
<1>6. m >= 3 => Within[3] \subseteq visited
  <2>1. 2 < m => Within[2 + 1] \subseteq visited
    BY <1>2, <1>5
  <2> QED BY <2>1
<1>7. m \in {0, 1, 2, 3}
  OBVIOUS
<1> QED BY <1>3, <1>4, <1>5, <1>6, <1>7

\* The distance of a record, if it was stored for the level it first appears at.
LEMMA DistanceIs ==
    ASSUME NEW n \in 1..3, NEW r, r \in Within[n], r \notin Within[n - 1]
    PROVE  Distance(r) = n
<1>1. \A k \in 0..(n - 1) : r \notin Within[k]
  <2>1. ASSUME NEW k \in 0..(n - 1), r \in Within[k] PROVE FALSE
    <3>1. n - 1 \in 0..3
      OBVIOUS
    <3>2. Within[k] \subseteq Within[n - 1]
      BY <3>1, WithinGrows
    <3> QED BY <2>1, <3>2
  <2> QED BY <2>1
<1>2. ASSUME NEW m \in 0..3, r \in Within[m], \A k \in 0..(m - 1) : r \notin Within[k]
      PROVE  m = n
  <2>1. ~(m < n)
    <3>1. ASSUME m < n PROVE FALSE
      <4>1. m \in 0..(n - 1)
        BY <3>1
      <4> QED BY <1>1, <1>2, <4>1
    <3> QED BY <3>1
  <2>2. ~(n < m)
    <3>1. ASSUME n < m PROVE FALSE
      <4>1. n \in 0..(m - 1)
        BY <3>1
      <4> QED BY <1>2, <4>1
    <3> QED BY <3>1
  <2> QED BY <2>1, <2>2
<1>3. n \in 0..3
  OBVIOUS
<1> HIDE DEF Within
<1> QED BY <1>1, <1>2, <1>3 DEF Distance

\* A record that is reached within n relations has a distance, at most n.
LEMMA DistanceExists ==
    ASSUME NEW n \in 0..3, NEW s \in Within[n]
    PROVE  Distance(s) \in 0..n /\ s \in Within[Distance(s)]
<1> DEFINE First(m) == s \in Within[m] /\ \A k \in 0..(m - 1) : s \notin Within[k]
<1>1. \E m \in 0..n : First(m)
  <2>1. CASE s \in Within[0]
    <3>1. 0 \in 0..n /\ 0..(0 - 1) = {}
      OBVIOUS
    <3> QED BY <2>1, <3>1
  <2>2. CASE s \notin Within[0] /\ n >= 1 /\ s \in Within[1]
    <3>1. 1 \in 0..n /\ 0..(1 - 1) = {0}
      BY <2>2
    <3> QED BY <2>2, <3>1
  <2>3. CASE s \notin Within[0] /\ s \notin Within[1] /\ n >= 2 /\ s \in Within[2]
    <3>1. 2 \in 0..n /\ 0..(2 - 1) = {0, 1}
      BY <2>3
    <3> QED BY <2>3, <3>1
  <2>4. CASE s \notin Within[0] /\ s \notin Within[1] /\ s \notin Within[2] /\ n = 3
    <3>1. 3 \in 0..n /\ 0..(3 - 1) = {0, 1, 2} /\ s \in Within[3]
      BY <2>4
    <3> QED BY <2>4, <3>1
  <2>5. n \in {0, 1, 2, 3}
    OBVIOUS
  <2> QED BY <2>1, <2>2, <2>3, <2>4, <2>5
<1>2. PICK m \in 0..n : First(m)
  BY <1>1
<1>3. CASE m = 0
  <2>1. ASSUME NEW k \in 0..3, First(k) PROVE k = 0
    <3>1. k # 0 => 0 \in 0..(k - 1)
      OBVIOUS
    <3> QED BY <1>2, <1>3, <2>1, <3>1
  <2>2. First(0) /\ 0 \in 0..3
    BY <1>2, <1>3
  <2>3. Distance(s) = CHOOSE k \in 0..3 : First(k)
    BY DEF Distance
  <2> HIDE DEF First
  <2>4. Distance(s) = 0
    BY <2>1, <2>2, <2>3
  <2> QED BY <1>2, <1>3, <2>4 DEF First
<1>4. CASE m # 0
  <2>1. m \in 1..3 /\ m - 1 \in 0..(m - 1)
    BY <1>4
  <2>2. Distance(s) = m
    BY <1>2, <2>1, DistanceIs
  <2> QED BY <1>2, <2>2
<1> QED BY <1>3, <1>4

-----------------------------------------------------------------------------
(* The walk is breadth-first.                                              *)

\* What is kept by the steps that neither visit a record nor associate a work.
LEMMA FoundStays ==
    ASSUME Found, UNCHANGED <<graph, works, visited, retained>>
    PROVE  Found'
<1>1. Within' = Within /\ MaxDepth' = MaxDepth /\ BaseWorks' = BaseWorks
  <2>1. BaseWorks' = BaseWorks /\ relations' = relations /\ limits' = limits
    BY DEF BaseWorks, graph
  <2> QED BY <2>1, SameLevels DEF MaxDepth
<1>2. \A r : DistanceOf(r)' = DistanceOf(r)
  BY DEF DistanceOf
<1> QED BY <1>1, <1>2 DEF Found

LEMMA StartIsBreadthFirst == ASSUME CInv, Start PROVE BreadthFirst'
<1>1. TypeOK
  BY DEF CInv
<1>2. /\ relations' = relations /\ limits' = limits /\ works' = works /\ pc' = "next"
      /\ queue' = << <<Primary, 0>> >> /\ retained' = {} /\ visited' = BaseWorks
  BY DEF Start, graph
<1>3. Len(queue') = 1 /\ queue'[1][1] = Primary /\ queue'[1][2] = 0
  BY <1>2
<1>4. DistanceOf(Primary)' = 0 /\ MaxDepth' \in 1..3 /\ Reached' = {Primary}
  BY <1>1, <1>2, DistanceTypes, LimitTypes DEF DistanceOf, MaxDepth, Reached
<1>5. Found'
  BY <1>2 DEF Found, BaseWorks
<1>6. Queueing'
  BY <1>2, <1>3, <1>4 DEF Queueing
<1>7. Expanded'
  <2>1. Primary \in Queued'
    BY <1>3 DEF Queued
  <2> QED BY <1>4, <2>1 DEF Expanded
<1> QED BY <1>2, <1>5, <1>6, <1>7 DEF BreadthFirst, Expanding

LEMMA NextSourceIsBreadthFirst ==
    ASSUME CInv, NextSource, complete
    PROVE  BreadthFirst'
<1>1. TypeOK /\ Found /\ Queueing /\ Expanded /\ pc = "next"
  BY DEF CInv, BreadthFirst, NextSource
<1>2. /\ relations' = relations /\ limits' = limits /\ works' = works
      /\ retained' = retained /\ visited' = visited /\ queue' = Tail(queue)
      /\ ~Full /\ queue # <<>>
  BY <1>1, VisitedIsFinite, LimitTypes DEF NextSource, graph, Full, TypeOK
<1> DEFINE source == queue[1][1]
           at == queue[1][2]
<1>3. /\ Len(queue) \in Nat \ {0} /\ Len(queue') = Len(queue) - 1
      /\ \A i \in 1..Len(queue') : queue'[i] = queue[i + 1] /\ i + 1 \in 1..Len(queue)
      /\ 1 \in 1..Len(queue) /\ Head(queue) = queue[1] /\ queue[1] \in Records \X (0..3)
  BY <1>1, <1>2 DEF TypeOK
<1>4. /\ MaxDepth' = MaxDepth /\ MaxDepth \in 1..3 /\ BaseWorks' = BaseWorks
      /\ Within' = Within /\ Reached' = Reached /\ \A r : DistanceOf(r)' = DistanceOf(r)
  <2>1. BaseWorks' = BaseWorks
    BY <1>2 DEF BaseWorks
  <2> QED BY <1>1, <1>2, <2>1, SameLevels, LimitTypes
             DEF MaxDepth, Reached, DistanceOf
<1>5. source \in Reached /\ at = DistanceOf(source) /\ at \in 0..3 /\ source \in Records
  BY <1>1, <1>3 DEF Queueing
<1>6. IF at >= MaxDepth THEN UNCHANGED <<pc, pending, depth>>
      ELSE pending' = relations[source] /\ depth' = at /\ pc' = "expand"
  BY <1>3 DEF NextSource
<1>7. Found'
  BY <1>1, <1>2, FoundStays DEF graph
<1>8. Queueing'
  <2>1. ASSUME NEW i \in 1..Len(queue')
        PROVE  /\ queue'[i][1] \in Reached' /\ queue'[i][2] = works'[queue'[i][1]].distance
               /\ \A j \in i..Len(queue') : queue'[i][2] <= queue'[j][2]
               /\ \A r \in retained' : works'[r].distance <= queue'[i][2] + 1
               /\ pc' = "expand" => depth' <= queue'[i][2]
    <3>1. i + 1 \in 1..Len(queue) /\ queue'[i] = queue[i + 1] /\ i + 1 \in 1..Len(queue)
      BY <1>3
    <3>2. /\ queue'[i][1] \in Reached' /\ queue'[i][2] = works'[queue'[i][1]].distance
          /\ \A r \in retained' : works'[r].distance <= queue'[i][2] + 1
      BY <1>1, <1>2, <1>4, <3>1 DEF Queueing, DistanceOf
    <3>3. ASSUME NEW j \in i..Len(queue') PROVE queue'[i][2] <= queue'[j][2]
      <4>1. j \in 1..Len(queue') /\ j + 1 \in (i + 1)..Len(queue)
        BY <1>3, <3>3
      <4>2. queue[i + 1][2] <= queue[j + 1][2]
        BY <1>1, <3>1, <4>1 DEF Queueing
      <4> QED BY <1>3, <3>1, <4>1, <4>2
    <3>4. pc' = "expand" => depth' <= queue'[i][2]
      <4>1. i + 1 \in 1..Len(queue)
        BY <3>1
      <4>2. queue[1][2] <= queue[i + 1][2]
        BY <1>1, <1>3, <4>1 DEF Queueing
      <4> QED BY <1>1, <1>6, <3>1, <4>2
    <3> QED BY <3>2, <3>3, <3>4
  <2> QED BY <2>1 DEF Queueing, DistanceOf
<1>9. Expanding'
  <2>1. ASSUME pc' = "expand"
        PROVE  pending' \ BaseWorks \subseteq Within[depth' + 1]
    <3>1. pending' = relations[source] /\ depth' = at /\ at < MaxDepth
      BY <1>1, <1>4, <1>5, <1>6, <2>1
    <3>2. at \in 0..2
      BY <1>4, <1>5, <3>1
    <3>3. source \in Within[at]
      <4>1. CASE source = Primary
        BY <1>1, <1>5, <4>1, WithinLevels, DistanceTypes
      <4>2. CASE source \in retained
        BY <1>1, <1>5, <4>2 DEF Found
      <4> QED BY <1>5, <4>1, <4>2 DEF Reached
    <3>4. relations[source] \ BaseWorks \subseteq Within[at + 1]
      BY <3>2, <3>3, WithinNext
    <3> QED BY <3>1, <3>4
  <2>2. ASSUME pc' = "expand", NEW r \in retained' PROVE DistanceOf(r)' <= depth' + 1
    <3>1. DistanceOf(r) <= at + 1
      BY <1>1, <1>2, <1>3, <2>2 DEF Queueing
    <3> QED BY <1>1, <1>4, <1>6, <2>2, <3>1
  <2> QED BY <1>4, <2>1, <2>2 DEF Expanding
<1>10. Expanded'
  <2>1. ASSUME NEW r \in Reached, r \in Queued PROVE r = source \/ r \in Queued'
    <3>1. PICK i \in 1..Len(queue) : r = queue[i][1]
      BY <2>1 DEF Queued
    <3>2. CASE i = 1
      BY <3>1, <3>2
    <3>3. CASE i # 1
      <4>1. i - 1 \in 1..Len(queue') /\ queue'[i - 1] = queue[i]
        <5>1. i - 1 \in 1..Len(queue') /\ (i - 1) + 1 = i
          BY <1>3, <3>3
        <5> QED BY <1>3, <5>1
      <4> QED BY <3>1, <4>1 DEF Queued
    <3> QED BY <3>2, <3>3
  <2>2. ASSUME NEW r \in Reached
        PROVE  \/ DistanceOf(r) >= MaxDepth
               \/ r \in Queued'
               \/ relations[r] \subseteq visited
               \/ /\ pc' = "expand" /\ DistanceOf(r) = depth'
                  /\ relations[r] \subseteq visited \cup pending'
    <3>1. \/ DistanceOf(r) >= MaxDepth
          \/ r \in Queued
          \/ relations[r] \subseteq visited
      BY <1>1, <1>2 DEF Expanded
    <3>2. CASE r = source
      BY <1>5, <1>6, <3>2
    <3>3. CASE r # source
      BY <2>1, <3>1, <3>3
    <3> QED BY <3>2, <3>3
  <2> QED BY <1>2, <1>4, <2>2 DEF Expanded
<1> QED BY <1>7, <1>8, <1>9, <1>10 DEF BreadthFirst

\* The steps that look at a target without visiting it, and leave the source.
LEMMA SourceStepsAreBreadthFirst ==
    ASSUME CInv, EndSource \/ SkipVisited \/ VerifyTarget, complete
    PROVE  BreadthFirst'
<1>1. TypeOK /\ Found /\ Queueing /\ Expanding /\ Expanded /\ pc = "expand"
  BY DEF CInv, BreadthFirst, EndSource, SkipVisited, VerifyTarget, Look
<1>2. UNCHANGED <<graph, works, queue, depth, visited, retained>> /\ pc' \in {"next", "expand"}
  BY <1>1 DEF EndSource, SkipVisited, VerifyTarget, Look, walk
<1>3. /\ MaxDepth' = MaxDepth /\ MaxWorks' = MaxWorks /\ BaseWorks' = BaseWorks
      /\ Within' = Within /\ Reached' = Reached /\ Queued' = Queued /\ Full' = Full
      /\ \A r : DistanceOf(r)' = DistanceOf(r)
  <2>1. BaseWorks' = BaseWorks /\ relations' = relations
    BY <1>2 DEF BaseWorks, graph
  <2>2. MaxDepth' = MaxDepth /\ MaxWorks' = MaxWorks
    BY <1>2 DEF MaxDepth, MaxWorks, graph
  <2> QED BY <1>2, <2>1, <2>2, SameLevels DEF Reached, Queued, Full, DistanceOf
<1>4. Found'
  BY <1>1, <1>2, FoundStays
<1>5. Queueing'
  BY <1>1, <1>2, <1>3 DEF Queueing, DistanceOf
<1>6. pending' \subseteq pending
  BY DEF EndSource, SkipVisited, VerifyTarget, Look, walk
<1>7. Expanding'
  BY <1>1, <1>2, <1>3, <1>6 DEF Expanding
<1>8. ASSUME NEW r \in Reached, relations[r] \subseteq visited \cup pending
      PROVE  \/ relations[r] \subseteq visited \/ Full
             \/ pc' = "expand" /\ relations[r] \subseteq visited \cup pending'
  <2>1. CASE EndSource
    BY <1>8, <2>1 DEF EndSource, Full
  <2>2. CASE SkipVisited
    BY <1>1, <1>8, <2>2 DEF SkipVisited, Look
  <2>3. CASE VerifyTarget
    BY <1>1, <1>8, <2>3 DEF VerifyTarget, walk
  <2> QED BY <2>1, <2>2, <2>3
<1>9. Expanded'
  <2>1. ASSUME NEW r \in Reached
        PROVE  \/ DistanceOf(r) >= MaxDepth
               \/ r \in Queued
               \/ relations[r] \subseteq visited
               \/ /\ pc' = "expand" /\ DistanceOf(r) = depth
                  /\ relations[r] \subseteq visited \cup pending'
               \/ Full
    BY <1>1, <1>8 DEF Expanded
  <2> QED BY <1>2, <1>3, <2>1 DEF Expanded, graph
<1> QED BY <1>4, <1>5, <1>7, <1>9 DEF BreadthFirst

\* The target of a visit is one level further than the source, and everything
\* nearer was visited: its distance is the shortest.
LEMMA VisitIsBreadthFirst ==
    ASSUME CInv, VisitTarget, complete
    PROVE  BreadthFirst'
<1>1. /\ TypeOK /\ Walking /\ Found /\ Queueing /\ Expanding /\ Expanded
      /\ pc = "expand" /\ pc' = "expand"
  BY DEF CInv, BreadthFirst, VisitTarget, Look
<1> DEFINE t == Target
           d == depth + 1
<1>2. /\ t \in pending /\ t \in Records /\ t \notin visited
      /\ relations' = relations /\ limits' = limits /\ depth' = depth
      /\ pending' = pending \ {t} /\ visited' = visited \cup {t}
      /\ works' = [works EXCEPT ![t] = Related(d)]
      /\ retained' = retained \cup {t}
      /\ queue' = Append(queue, <<t, d>>)
  BY <1>1, TargetIsPending DEF VisitTarget, Look, Room, graph
<1> HIDE DEF t
<1>3. /\ Cardinality(visited) < MaxWorks /\ Cardinality(visited) \in Nat /\ MaxWorks \in Nat
      /\ ~Full
  <2>1. Cardinality(visited) < MaxWorks
    BY DEF VisitTarget, Look, Room
  <2>2. Cardinality(visited) \in Nat /\ MaxWorks \in Nat
    BY <1>1, VisitedIsFinite, LimitTypes DEF TypeOK
  <2> QED BY <2>1, <2>2 DEF Full
<1>4. depth \in 0..2 /\ d \in 1..3 /\ d \in 1..MaxDepth /\ MaxDepth \in 1..3 /\ d - 1 = depth
  <2>1. depth \in 0..3 /\ depth < MaxDepth /\ MaxDepth \in 1..3
    BY <1>1, LimitTypes DEF TypeOK, Walking
  <2> QED BY <2>1
<1>5. works'[t] = Related(d) /\ \A r \in Records \ {t} : works'[r] = works[r]
  BY <1>1, <1>2 DEF TypeOK
<1>6. t \notin BaseWorks /\ BaseWorks' = BaseWorks /\ t # Primary /\ t \notin retained
  <2>1. t \notin BaseWorks /\ BaseWorks \subseteq visited /\ retained \subseteq visited
    BY <1>1, <1>2 DEF Walking, TypeOK
  <2>2. Related(d) # Base
    BY <1>4, WorkSources
  <2>3. BaseWorks' = BaseWorks
    BY <1>2, <1>5, <2>1, <2>2 DEF BaseWorks
  <2> QED BY <1>1, <1>2, <2>1, <2>3, PrimaryIsRecord DEF TypeOK, BaseWorks
<1>7. /\ Within' = Within /\ MaxDepth' = MaxDepth /\ MaxWorks' = MaxWorks
      /\ Reached' = Reached \cup {t}
  BY <1>2, <1>6, SameLevels DEF MaxDepth, MaxWorks, Reached
<1>8. /\ works'[t].distance = d
      /\ \A r \in Reached : r \in Records /\ r # t /\ works'[r].distance = DistanceOf(r)
                            /\ DistanceOf(r) \in 0..3 /\ DistanceOf(r) <= d
  <2>1. works'[t].distance = d
    BY <1>5 DEF Related
  <2>2. ASSUME NEW r \in Reached
        PROVE r \in Records /\ r # t /\ works'[r].distance = DistanceOf(r) /\ DistanceOf(r) \in 0..3
    <3>1. r \in Records /\ r # t
      BY <1>1, <1>6, <2>2, PrimaryIsRecord DEF Reached, TypeOK
    <3>2. DistanceOf(r) \in 0..3
      BY <1>1, <3>1, DistanceTypes
    <3> QED BY <1>5, <3>1, <3>2 DEF DistanceOf
  <2>3. ASSUME NEW r \in Reached PROVE DistanceOf(r) <= d
    BY <1>1, <1>4, <2>3, DistanceTypes DEF Reached, Expanding
  <2> QED BY <2>1, <2>2, <2>3
<1>9. Within[depth] \subseteq visited
  <2>1. ASSUME NEW r \in Reached, DistanceOf(r) < depth PROVE relations[r] \subseteq visited
    <3>1. DistanceOf(r) \in 0..3 /\ ~(DistanceOf(r) >= MaxDepth) /\ DistanceOf(r) # depth
      BY <1>4, <1>8, <2>1
    <3>2. r \notin Queued
      <4>1. ASSUME r \in Queued PROVE FALSE
        <5>1. PICK i \in 1..Len(queue) : queue[i][1] = r
          BY <4>1 DEF Queued
        <5>2. depth <= DistanceOf(r)
          BY <1>1, <5>1 DEF Queueing
        <5> QED BY <1>4, <2>1, <3>1, <5>2
      <4> QED BY <4>1
    <3> QED BY <1>1, <1>3, <3>1, <3>2 DEF Expanded
  <2>2. depth \in 0..3
    BY <1>4
  <2> QED BY <1>1, <2>1, <2>2, LevelsAreVisited
<1>10. t \in Within[d] /\ t \notin Within[depth]
  BY <1>1, <1>2, <1>6, <1>9 DEF Expanding
<1>11. Found'
  <2>1. visited' = BaseWorks' \cup retained'
    BY <1>1, <1>2, <1>6 DEF Found
  <2>2. ASSUME NEW r \in retained'
        PROVE  /\ works'[r] \in {Related(k) : k \in 1..MaxDepth}
               /\ r \in Within[works'[r].distance] /\ r \notin Within[works'[r].distance - 1]
               /\ Within[works'[r].distance - 1] \subseteq visited'
    <3>1. CASE r = t
      <4>1. works'[r].distance = d /\ works'[r] = Related(d)
        BY <1>5, <1>8, <3>1
      <4> QED BY <1>2, <1>4, <1>9, <1>10, <3>1, <4>1
    <3>2. CASE r \in retained
      <4>1. works'[r] = works[r] /\ works'[r].distance = DistanceOf(r)
        BY <1>1, <1>5, <1>6, <3>2 DEF TypeOK, DistanceOf
      <4>2. /\ works[r] \in {Related(k) : k \in 1..MaxDepth}
            /\ r \in Within[DistanceOf(r)] /\ r \notin Within[DistanceOf(r) - 1]
            /\ Within[DistanceOf(r) - 1] \subseteq visited
        BY <1>1, <3>2 DEF Found
      <4> QED BY <1>2, <4>1, <4>2
    <3> QED BY <1>2, <2>2, <3>1, <3>2
  <2> QED BY <1>7, <2>1, <2>2 DEF Found, DistanceOf
<1>12. /\ Len(queue) \in Nat /\ Len(queue') = Len(queue) + 1
       /\ queue'[Len(queue) + 1] = <<t, d>>
       /\ \A i \in 1..Len(queue) : queue'[i] = queue[i]
  BY <1>1, <1>2 DEF TypeOK
<1>13. Queueing'
  <2>1. ASSUME NEW i \in 1..Len(queue'), NEW j \in i..Len(queue')
        PROVE  /\ queue'[i][1] \in Reached' /\ queue'[i][2] = works'[queue'[i][1]].distance
               /\ queue'[i][2] <= queue'[j][2]
               /\ \A r \in retained' : works'[r].distance <= queue'[i][2] + 1
               /\ depth <= queue'[i][2]
    <3>1. ASSUME NEW k \in 1..Len(queue)
          PROVE  /\ queue'[k] = queue[k] /\ queue[k][1] \in Reached
                 /\ queue[k][2] = DistanceOf(queue[k][1])
                 /\ queue[k][2] \in 0..3 /\ queue[k][2] <= d /\ depth <= queue[k][2]
      BY <1>1, <1>8, <1>12, <3>1 DEF Queueing
    <3>2. CASE i = Len(queue) + 1
      <4>1. queue'[i][1] = t /\ queue'[i][2] = d /\ j = i
        BY <1>12, <2>1, <3>2
      <4>2. ASSUME NEW r \in retained' PROVE works'[r].distance <= d + 1
        <5>1. r = t \/ r \in Reached
          BY <1>2, <4>2 DEF Reached
        <5>2. works'[r].distance \in 0..3 /\ works'[r].distance <= d
          BY <1>4, <1>8, <5>1
        <5> QED BY <1>4, <5>2
      <4> QED BY <1>4, <1>7, <1>8, <4>1, <4>2
    <3>3. CASE i \in 1..Len(queue)
      <4>1. /\ queue'[i] = queue[i] /\ queue[i][1] \in Reached
            /\ queue[i][2] = DistanceOf(queue[i][1]) /\ queue[i][2] \in 0..3
            /\ queue[i][2] <= d /\ depth <= queue[i][2]
        BY <3>1, <3>3
      <4>2. queue'[i][2] <= queue'[j][2]
        <5>1. CASE j = Len(queue) + 1
          BY <1>12, <4>1, <5>1
        <5>2. CASE j \in i..Len(queue)
          <6>1. queue[i][2] <= queue[j][2] /\ j \in 1..Len(queue)
            BY <1>1, <3>3, <5>2 DEF Queueing
          <6> QED BY <3>1, <4>1, <6>1
        <5> QED BY <1>12, <2>1, <5>1, <5>2
      <4>3. ASSUME NEW r \in retained' PROVE works'[r].distance <= queue'[i][2] + 1
        <5>1. CASE r = t
          BY <1>4, <1>8, <4>1, <5>1
        <5>2. CASE r \in retained
          <6>1. DistanceOf(r) <= queue[i][2] + 1
            BY <1>1, <3>3, <5>2 DEF Queueing
          <6>2. works'[r].distance = DistanceOf(r)
            BY <1>8, <5>2 DEF Reached
          <6> QED BY <4>1, <6>1, <6>2
        <5> QED BY <1>2, <4>3, <5>1, <5>2
      <4> QED BY <1>7, <1>8, <4>1, <4>2, <4>3
    <3> QED BY <1>12, <2>1, <3>2, <3>3
  <2>2. ASSUME NEW i \in 1..Len(queue') PROVE i \in i..Len(queue')
    BY <1>12, <2>2
  <2> QED BY <1>2, <2>1, <2>2 DEF Queueing, DistanceOf
<1>14. Expanding'
  <2>1. pending' \ BaseWorks \subseteq Within[d]
    BY <1>1, <1>2 DEF Expanding
  <2>2. ASSUME NEW r \in retained' PROVE works'[r].distance <= d
    <3>1. r = t \/ r \in Reached
      BY <1>2, <2>2 DEF Reached
    <3> QED BY <1>4, <1>8, <3>1
  <2> QED BY <1>2, <1>6, <1>7, <2>1, <2>2 DEF Expanding, DistanceOf
<1>15. Expanded'
  <2>1. Queued' = Queued \cup {t}
    <3>1. ASSUME NEW r \in Queued PROVE r \in Queued'
      BY <1>12, <3>1 DEF Queued
    <3>2. t \in Queued'
      <4>1. Len(queue) + 1 \in 1..Len(queue') /\ queue'[Len(queue) + 1][1] = t
        BY <1>12
      <4> QED BY <4>1 DEF Queued
    <3>3. ASSUME NEW r \in Queued' PROVE r = t \/ r \in Queued
      <4>1. PICK i \in 1..Len(queue') : r = queue'[i][1]
        BY <3>3 DEF Queued
      <4>2. i = Len(queue) + 1 \/ i \in 1..Len(queue)
        BY <1>12
      <4> QED BY <1>12, <4>1, <4>2 DEF Queued
    <3> QED BY <3>1, <3>2, <3>3
  <2>2. ASSUME NEW r \in Reached
        PROVE  \/ works'[r].distance >= MaxDepth
               \/ r \in Queued'
               \/ relations[r] \subseteq visited'
               \/ works'[r].distance = depth /\ relations[r] \subseteq visited' \cup pending'
    <3>1. \/ DistanceOf(r) >= MaxDepth
          \/ r \in Queued
          \/ relations[r] \subseteq visited
          \/ DistanceOf(r) = depth /\ relations[r] \subseteq visited \cup pending
      BY <1>1, <1>3 DEF Expanded
    <3>2. works'[r].distance = DistanceOf(r)
      BY <1>8
    <3> QED BY <1>2, <2>1, <3>1, <3>2
  <2> QED BY <1>1, <1>2, <1>7, <2>1, <2>2 DEF Expanded, DistanceOf
<1> QED BY <1>11, <1>13, <1>14, <1>15 DEF BreadthFirst

LEMMA BreadthFirstStep == ASSUME CInv, [Next]_vars PROVE BreadthFirst'
<1>1. CASE RefreshRelations \/ EditSidecar \/ NotSuspected \/ Finish \/ Crash
  BY <1>1
     DEF RefreshRelations, EditSidecar, NotSuspected, Change, Finish, Crash, BreadthFirst
<1>2. CASE Start
  BY <1>2, StartIsBreadthFirst
<1>3. CASE NextSource \/ EndSource \/ SkipVisited \/ VerifyTarget \/ VisitTarget
  <2>1. complete' = complete
    BY <1>3
       DEF NextSource, EndSource, SkipVisited, VerifyTarget, VisitTarget, Look
  <2>2. CASE complete
    BY <1>3, <2>2, NextSourceIsBreadthFirst, SourceStepsAreBreadthFirst,
       VisitIsBreadthFirst
  <2>3. CASE ~complete
    BY <2>1, <2>3 DEF BreadthFirst
  <2> QED BY <2>2, <2>3
<1>4. CASE MissTarget
  BY <1>4 DEF MissTarget, BreadthFirst
<1>5. CASE UNCHANGED vars
  <2>1. UNCHANGED <<graph, works, pc, queue, pending, depth, visited, retained, complete>>
    BY <1>5 DEF vars, walk
  <2>2. /\ MaxDepth' = MaxDepth /\ MaxWorks' = MaxWorks /\ BaseWorks' = BaseWorks
        /\ Reached' = Reached /\ Queued' = Queued /\ relations' = relations
    BY <2>1 DEF graph, MaxDepth, MaxWorks, BaseWorks, Reached, Queued
  <2>3. Within' = Within
    BY <2>2, SameLevels
  <2>4. Found => Found'
    BY <2>1, FoundStays
  <2>5. Queueing => Queueing'
    BY <2>1, <2>2 DEF Queueing, DistanceOf
  <2>6. Expanding => Expanding'
    BY <2>1, <2>2, <2>3 DEF Expanding, DistanceOf
  <2>7. Expanded => Expanded'
    BY <2>1, <2>2 DEF Expanded, DistanceOf, Full
  <2> QED BY <2>1, <2>4, <2>5, <2>6, <2>7 DEF CInv, BreadthFirst
<1> QED BY <1>1, <1>2, <1>3, <1>4, <1>5 DEF Next, Discover

-----------------------------------------------------------------------------
(* The distances and the order of what a complete discovery leaves.        *)

\* A complete discovery ends with every work it may name, or with no room; and
\* then with none missing that is nearer than one it has.
LEMMA FinishIsRight == ASSUME CInv, Finish, complete PROVE Results'
<1>1. TypeOK /\ Found /\ Queueing /\ Expanded /\ pc = "next" /\ Walking
  BY DEF CInv, BreadthFirst, Finish
<1>2. /\ relations' = relations /\ limits' = limits
      /\ queue = <<>> \/ Cardinality(visited) >= MaxWorks
      /\ works' = [r \in Records |-> IF r \in RelationWorks \ retained
                                     THEN NoWork ELSE works[r]]
  BY DEF Finish, graph
<1>3. BaseWorks' = BaseWorks
  BY <1>2, WorkSources DEF BaseWorks, RelationWorks
<1>4. \A r \in retained : r \in Records /\ works[r].source = "relation" /\ r \notin BaseWorks
  BY <1>1, RetainedDistance
<1>5. RelationWorks' = retained /\ \A r \in retained : works'[r] = works[r]
  BY <1>2, <1>4, WorkSources DEF RelationWorks
<1>6. Within' = Within /\ MaxDepth' = MaxDepth /\ MaxWorks' = MaxWorks
      /\ MaxDepth \in 1..3 /\ \A r : Distance(r)' = Distance(r)
  <2>1. Within' = Within /\ MaxDepth' = MaxDepth /\ MaxWorks' = MaxWorks /\ MaxDepth \in 1..3
    BY <1>1, <1>2, <1>3, SameLevels, LimitTypes DEF MaxDepth, MaxWorks
  <2> QED BY <2>1 DEF Distance
<1>7. ASSUME NEW r \in retained
      PROVE  /\ DistanceOf(r) \in 1..MaxDepth /\ DistanceOf(r) \in 1..3
             /\ r \in Within[MaxDepth] /\ Distance(r) = DistanceOf(r)
             /\ Within[DistanceOf(r) - 1] \subseteq visited
  <2>1. DistanceOf(r) \in 1..MaxDepth /\ DistanceOf(r) \in 1..3
    BY <1>1, <1>7, RetainedDistance
  <2>2. /\ r \in Within[DistanceOf(r)] /\ r \notin Within[DistanceOf(r) - 1]
        /\ Within[DistanceOf(r) - 1] \subseteq visited
    BY <1>1, <1>7 DEF Found
  <2>3. Within[DistanceOf(r)] \subseteq Within[MaxDepth]
    <3>1. MaxDepth \in 0..3 /\ DistanceOf(r) \in 0..MaxDepth
      BY <1>6, <2>1
    <3> QED BY <3>1, WithinGrows
  <2>4. Distance(r) = DistanceOf(r)
    BY <2>1, <2>2, DistanceIs
  <2> QED BY <2>1, <2>2, <2>3, <2>4
<1>8. DistancesAreShortest'
  <2>1. ASSUME NEW r \in retained
        PROVE  r \in Within[MaxDepth] /\ works'[r].distance = Distance(r)
    BY <1>5, <1>7, <2>1 DEF DistanceOf
  <2> QED BY <1>5, <1>6, <2>1 DEF DistancesAreShortest
<1>9. NearestWorksFirst'
  <2>1. ASSUME NEW s \in Within[MaxDepth] \ visited
        PROVE  /\ Cardinality(visited) >= MaxWorks
               /\ \A r \in retained : DistanceOf(r) <= Distance(s)
    <3>1. MaxDepth \in 0..3
      BY <1>6
    <3>2. Cardinality(visited) >= MaxWorks
      <4>1. ASSUME ~Full PROVE FALSE
        <5>1. queue = <<>>
          BY <1>2, <4>1 DEF Full
        <5>2. Queued = {}
          BY <5>1 DEF Queued
        <5>3. ASSUME NEW r \in Reached, DistanceOf(r) < MaxDepth
              PROVE  relations[r] \subseteq visited
          <6>1. DistanceOf(r) \in 0..3
            BY <1>1, <5>3, DistanceTypes, PrimaryIsRecord DEF Reached, TypeOK
          <6>2. ~(DistanceOf(r) >= MaxDepth)
            BY <3>1, <5>3, <6>1
          <6> QED BY <1>1, <4>1, <5>2, <6>2 DEF Expanded
        <5>4. Within[MaxDepth] \subseteq visited
          BY <1>1, <3>1, <5>3, LevelsAreVisited
        <5> QED BY <2>1, <5>4
      <4> QED BY <4>1 DEF Full
    <3>3. Distance(s) \in 0..3 /\ s \in Within[Distance(s)]
      BY <2>1, <3>1, DistanceExists
    <3>4. ASSUME NEW r \in retained, Distance(s) < DistanceOf(r) PROVE FALSE
      <4>1. DistanceOf(r) \in 1..3 /\ Within[DistanceOf(r) - 1] \subseteq visited
        BY <1>7, <3>4
      <4>2. DistanceOf(r) - 1 \in 0..3 /\ Distance(s) \in 0..(DistanceOf(r) - 1)
        BY <3>3, <3>4, <4>1
      <4>3. Within[Distance(s)] \subseteq Within[DistanceOf(r) - 1]
        BY <4>2, WithinGrows
      <4> QED BY <2>1, <3>3, <4>1, <4>3
    <3> QED BY <1>7, <3>2, <3>3, <3>4
  <2>2. BaseWorks' \cup RelationWorks' = visited
    BY <1>1, <1>3, <1>5 DEF Found
  <2>3. \A r \in retained : works'[r].distance = DistanceOf(r)
    BY <1>5 DEF DistanceOf
  <2> QED BY <1>5, <1>6, <2>1, <2>2, <2>3 DEF NearestWorksFirst
<1> QED BY <1>8, <1>9 DEF Results

LEMMA NotSuspectedIsRight == ASSUME CInv, NotSuspected PROVE Results'
<1>1. /\ TypeOK /\ relations' = relations /\ limits' = limits /\ relations[Primary] = {}
      /\ works' = [r \in Records |-> IF works[r].source = "relation" THEN NoWork ELSE works[r]]
  BY DEF CInv, NotSuspected, graph
<1>2. RelationWorks' = {} /\ BaseWorks' = BaseWorks
  BY <1>1, WorkSources DEF RelationWorks, BaseWorks
<1>3. Within' = Within /\ MaxDepth' \in 0..3
  BY <1>1, <1>2, SameLevels, LimitTypes DEF MaxDepth
<1>4. ASSUME NEW n \in 0..3 PROVE Within[n] = {Primary}
  <2>1. ASSUME NEW k \in 0..2, Within[k] = {Primary} PROVE Within[k + 1] = {Primary}
    BY <1>1, <2>1, WithinNext
  <2>2. Within[0] = {Primary}
    BY WithinLevels
  <2>3. Within[1] = {Primary}
    <3>1. Within[0 + 1] = {Primary}
      BY <2>1, <2>2
    <3> QED BY <3>1
  <2>4. Within[2] = {Primary}
    <3>1. Within[1 + 1] = {Primary}
      BY <2>1, <2>3
    <3> QED BY <3>1
  <2>5. Within[3] = {Primary}
    <3>1. Within[2 + 1] = {Primary}
      BY <2>1, <2>4
    <3> QED BY <3>1
  <2>6. n \in {0, 1, 2, 3}
    OBVIOUS
  <2> QED BY <2>2, <2>3, <2>4, <2>5, <2>6
<1>5. Primary \in BaseWorks'
  BY <1>1, <1>2, PrimaryIsRecord DEF TypeOK, BaseWorks
<1>6. Within'[MaxDepth'] = {Primary}
  BY <1>3, <1>4
<1> QED BY <1>2, <1>5, <1>6 DEF Results, DistancesAreShortest, NearestWorksFirst

LEMMA ResultsStep == ASSUME CInv, [Next]_vars PROVE Results'
<1>1. CASE exact' = FALSE
  BY <1>1 DEF Results, DistancesAreShortest, NearestWorksFirst
<1>2. CASE RefreshRelations \/ EditSidecar \/ Start
  BY <1>1, <1>2 DEF RefreshRelations, EditSidecar, Change, Start
<1>3. CASE NextSource \/ EndSource \/ SkipVisited \/ VerifyTarget \/ VisitTarget \/ MissTarget
           \/ Crash
  <2>1. pc # "idle" /\ exact' = exact
    BY <1>3
       DEF NextSource, EndSource, SkipVisited, VerifyTarget, VisitTarget, MissTarget, Look,
           Crash
  <2>2. ~exact
    BY <2>1 DEF CInv, Exactness
  <2> QED BY <2>1, <2>2 DEF Results, DistancesAreShortest, NearestWorksFirst
<1>4. CASE NotSuspected
  BY <1>4, NotSuspectedIsRight
<1>5. CASE Finish
  <2>1. CASE complete
    BY <1>5, <2>1, FinishIsRight
  <2>2. CASE ~complete
    <3>1. ~exact'
      BY <1>5, <2>2 DEF Finish
    <3> QED BY <3>1 DEF Results, DistancesAreShortest, NearestWorksFirst
  <2> QED BY <2>1, <2>2
<1>6. CASE UNCHANGED vars
  <2>1. UNCHANGED <<relations, limits, works, exact>>
    BY <1>6 DEF vars, graph
  <2>2. /\ BaseWorks' = BaseWorks /\ RelationWorks' = RelationWorks
        /\ MaxDepth' = MaxDepth /\ MaxWorks' = MaxWorks
    BY <2>1 DEF BaseWorks, RelationWorks, MaxDepth, MaxWorks
  <2>3. Within' = Within
    BY <2>1, <2>2, SameLevels
  <2>4. \A r : Distance(r)' = Distance(r)
    BY <2>3 DEF Distance
  <2> QED
    BY <2>1, <2>2, <2>3, <2>4
       DEF CInv, Results, DistancesAreShortest, NearestWorksFirst
<1> QED BY <1>2, <1>3, <1>4, <1>5, <1>6 DEF Next, Discover

LEMMA CInvInit == ASSUME Init PROVE CInv
<1>1. Primary \in Records
  BY PrimaryIsRecord
<1>2. works \in [Records -> Work] /\ works[Primary] = Base
  BY <1>1, WorkSources DEF Init
<1>3. {r \in Records : works[r] # NoWork} \subseteq cached
  BY DEF Init
<1>4. relations \in [Records -> SUBSET Records]
  BY GraphsAssumption DEF Init
<1>5. TypeOK
  <2>1. LocalsTyped
    <3>1. queue \in Seq(Records \X (0..3))
      BY DEF Init
    <3>2. complete \in BOOLEAN
      BY Zenon DEF Init
    <3>3. depth \in 0..3
      BY DEF Init
    <3> QED BY <3>1, <3>2, <3>3 DEF Init, LocalsTyped
  <2>2. /\ cached \subseteq Records /\ limits \in Limits /\ pc \in {"idle", "next", "expand"}
        /\ changes \in 0..MaxChanges /\ faults \in 0..MaxFaults
    BY <1>1, BoundsAssumption DEF Init
  <2>3. exact \in BOOLEAN
    BY Zenon DEF Init
  <2> QED BY <1>2, <1>3, <1>4, <2>1, <2>2, <2>3, Zenon
             DEF TypeOK, LocalsTyped, Work
<1> QED BY <1>5
   DEF Init, CInv, Walking, Verified, Exactness, BreadthFirst, Results,
       DistancesAreShortest, NearestWorksFirst

-----------------------------------------------------------------------------
(* Theorems.                                                               *)

\* The invariant holds for every graph, and every choice of the limits.
THEOREM Invariant == Spec => []CInv
<1>1. CInv /\ [Next]_vars => CInv'
  BY TypeStep, WalkingStep, VerifiedStep, ExactnessStep, BreadthFirstStep, ResultsStep
     DEF CInv
<1> QED BY CInvInit, <1>1, PTL DEF Spec

\* No work is stored without a record, none deeper than three relations, and
\* the primary work stays a base work.
THEOREM TypeCorrect == Spec => []TypeOK
<1>1. CInv => TypeOK
  BY DEF CInv
<1> QED BY Invariant, <1>1, PTL

\* "max_candidates" bounds what a complete discovery leaves, what was stored
\* before it included.
THEOREM DiscoveryIsBounded == Spec => []CompleteDiscoveryIsBounded
<1>1. CInv => CompleteDiscoveryIsBounded
  BY DEF CInv, Exactness, CompleteDiscoveryIsBounded
<1> QED BY Invariant, <1>1, PTL

\* After a complete discovery every relation work can be reached, no deeper than
\* "max_depth" allows, and is stored with the length of the shortest chain to it,
\* whatever earlier discoveries, outages and crashes had stored.
THEOREM Distances == Spec => []DistancesAreShortest
<1>1. CInv => DistancesAreShortest
  BY DEF CInv, Results
<1> QED BY Invariant, <1>1, PTL

\* A work that a complete discovery leaves out had no room, and none of those it
\* has instead is more distant.
THEOREM NearestFirst == Spec => []NearestWorksFirst
<1>1. CInv => NearestWorksFirst
  BY DEF CInv, Results
<1> QED BY Invariant, <1>1, PTL

\* A discovery removes works only if it has the record of all it visited: an
\* outage of the provider removes nothing.
THEOREM OutagesAreHarmless == Spec => OutagesForgetNothing
<1>1. ASSUME CInv, [Next]_vars, NEW r \in RelationWorks, pc = "next", works'[r] = NoWork
      PROVE  visited \subseteq cached
  <2>1. r \in Records /\ works[r] # NoWork /\ TypeOK
    BY <1>1, WorkSources DEF RelationWorks, CInv
  <2>2. CASE Finish
    <3>1. complete
      BY <1>1, <2>1, <2>2 DEF Finish
    <3> QED BY <1>1, <3>1 DEF CInv, Verified
  <2>3. CASE works' = works
    BY <1>1, <2>1, <2>3
  <2>4. CASE ~Finish
    <3>1. works' = works
      BY <1>1, <2>4
         DEF Next, Discover, RefreshRelations, EditSidecar, Change, NotSuspected, Start,
             NextSource, EndSource, SkipVisited, VerifyTarget, VisitTarget, MissTarget,
             Look, Crash, vars
    <3> QED BY <2>3, <3>1
  <2> QED BY <2>2, <2>4
<1>2. CInv /\ [Next]_vars =>
        [\A r \in RelationWorks :
            pc = "next" /\ works'[r] = NoWork => visited \subseteq cached]_vars
  BY <1>1
<1> QED BY Invariant, <1>2, PTL DEF Spec, OutagesForgetNothing

===============================================================================
