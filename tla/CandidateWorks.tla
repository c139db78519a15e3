---------------------------- MODULE CandidateWorks ----------------------------
(***************************************************************************)
(* Which works a collection may span: discover_related_candidates of       *)
(* candidates.py, a breadth-first walk over the relations the metadata     *)
(* provider reports, from the collection's primary work, that stores what  *)
(* it finds in library_entry_works one transaction at a time.              *)
(*                                                                         *)
(* A provider record is its number, in the order _relation_key sorts the   *)
(* relations of one record.  Only relations of the followed kinds and of   *)
(* the provider's own namespace are modelled; the others are skipped.      *)
(***************************************************************************)
EXTENDS Naturals, Sequences, FiniteSets

CONSTANTS
    NRecords,     \* provider records are 1..NRecords, the primary is 1
    Graphs,       \* the relation graphs considered at first
    Limits,       \* values of <<max_depth, max_candidates>>
    MaxChanges,   \* bound: relations refreshed, sidecars edited
    MaxFaults     \* bound: failed requests, crashes

Records == 1..NRecords
Primary == 1

ASSUME RecordsAssumption == NRecords \in Nat \ {0}
ASSUME GraphsAssumption == Graphs \subseteq [Records -> SUBSET Records]
ASSUME LimitsAssumption == Limits \subseteq (1..3) \X (1..12)
ASSUME BoundsAssumption == MaxChanges \in Nat /\ MaxFaults \in Nat

VARIABLES
    relations,  \* what each record is related to, as cached or as it would be fetched
    cached,     \* the records in provider_records
    works,      \* library_entry_works of the collection, by record
    limits,     \* max_depth and max_candidates of this caller
    pc,         \* "idle", "next" (source) or "expand"
    queue,      \* verified records still to expand, with their depths
    pending,    \* targets of the source being expanded still to look at, in order
    depth,      \* its depth
    visited, retained,
    complete,   \* every related record was cached or could be verified
    exact,      \* history: the newest discovery was complete and nothing changed since
    changes, faults

graph == <<relations, limits>>
walk == <<queue, pending, depth, visited, retained>>
vars == <<graph, cached, works, pc, walk, complete, exact, changes, faults>>

NoWork == [source |-> "none", distance |-> 0]
Base == [source |-> "base", distance |-> 0]  \* 'matched' or 'manual'
Related(d) == [source |-> "relation", distance |-> d]

BaseWorks == {r \in Records : works[r] = Base}
RelationWorks == {r \in Records : works[r].source = "relation"}

MaxDepth == limits[1]
MaxWorks == limits[2]

TypeOK ==
    /\ relations \in [Records -> SUBSET Records]
    /\ cached \subseteq Records
    /\ works \in [Records -> {NoWork, Base} \cup {Related(d) : d \in 1..3}]
    /\ works[Primary] = Base
    /\ {r \in Records : works[r] # NoWork} \subseteq cached  \* FOREIGN KEY
    /\ limits \in Limits
    /\ pc \in {"idle", "next", "expand"}
    /\ queue \in Seq(Records \X (0..3))
    /\ pending \subseteq Records
    /\ depth \in 0..3
    /\ visited \subseteq Records /\ retained \subseteq visited
    /\ complete \in BOOLEAN /\ exact \in BOOLEAN
    /\ changes \in 0..MaxChanges /\ faults \in 0..MaxFaults

Init ==
    /\ relations \in Graphs
    /\ cached = {Primary}
    /\ works = [r \in Records |-> IF r = Primary THEN Base ELSE NoWork]
    /\ limits \in Limits
    /\ pc = "idle"
    /\ queue = <<>> /\ pending = {} /\ depth = 0
    /\ visited = {} /\ retained = {} /\ complete = FALSE
    /\ exact = FALSE
    /\ changes = 0 /\ faults = 0

-----------------------------------------------------------------------------
(* Between two discoveries.                                                *)

Change == pc = "idle" /\ changes < MaxChanges /\ changes' = changes + 1 /\ exact' = FALSE

\* Enrichment replaces the relations of the primary record when it expires.
RefreshRelations ==
    /\ Change
    /\ \E targets \in SUBSET (Records \ {Primary}) :
         relations' = [relations EXCEPT ![Primary] = targets]
    /\ UNCHANGED <<cached, works, limits, pc, walk, complete, faults>>

\* The owner names a work in the sidecar, and the manual step of the scan
\* verifies and associates it; or no longer names it, and it is removed.
EditSidecar ==
    /\ Change
    /\ \E r \in Records \ {Primary} :
         works' = [works EXCEPT ![r] = IF @ = Base THEN NoWork ELSE Base]
         /\ cached' = cached \cup {r}
    /\ UNCHANGED <<graph, pc, walk, complete, faults>>

-----------------------------------------------------------------------------
(* The discovery.                                                          *)

\* Without any evidence of several works in the folder (a followed relation of
\* the primary work is such evidence) all relation works are removed.
NotSuspected ==
    /\ pc = "idle" /\ relations[Primary] = {}
    /\ works' = [r \in Records |-> IF works[r].source = "relation" THEN NoWork ELSE works[r]]
    /\ exact' = TRUE
    /\ UNCHANGED <<graph, cached, pc, walk, complete, changes, faults>>

Start_visitsAllWorks ==
    /\ pc = "idle" /\ pc' = "next"
    /\ visited' = BaseWorks \cup RelationWorks
    /\ queue' = << <<Primary, 0>> >>
    /\ pending' = {} /\ depth' = 0
    /\ retained' = {} /\ complete' = TRUE
    /\ exact' = FALSE
    /\ UNCHANGED <<graph, cached, works, changes, faults>>

\* The base works count as visited.
Start ==
    /\ pc = "idle" /\ pc' = "next"
    /\ visited' = BaseWorks
    /\ queue' = << <<Primary, 0>> >>
    /\ pending' = {} /\ depth' = 0
    /\ retained' = {} /\ complete' = TRUE
    /\ exact' = FALSE
    /\ UNCHANGED <<graph, cached, works, changes, faults>>

NextSource_popsLast ==
    /\ pc = "next" /\ queue # <<>> /\ Cardinality(visited) < MaxWorks
    /\ queue' = SubSeq(queue, 1, Len(queue) - 1)
    /\ LET source == queue[Len(queue)][1]  at == queue[Len(queue)][2] IN
         IF at >= MaxDepth THEN UNCHANGED <<pc, pending, depth>>
         ELSE /\ pending' = relations[source]
              /\ depth' = at /\ pc' = "expand"
    /\ UNCHANGED <<graph, cached, works, visited, retained, complete, exact, changes, faults>>

\* while queue and len(visited) < max_candidates: popleft
NextSource ==
    /\ pc = "next" /\ queue # <<>> /\ Cardinality(visited) < MaxWorks
    /\ queue' = Tail(queue)
    /\ LET source == Head(queue)[1]  at == Head(queue)[2] IN
         IF at >= MaxDepth THEN UNCHANGED <<pc, pending, depth>>
         ELSE /\ pending' = relations[source]
              /\ depth' = at /\ pc' = "expand"
    /\ UNCHANGED <<graph, cached, works, visited, retained, complete, exact, changes, faults>>

Target == CHOOSE r \in pending : \A s \in pending : r <= s

\* Leaves the source: no target is left, or the limit is reached at one.
EndSource ==
    /\ pc = "expand" /\ pc' = "next"
    /\ pending # {} => Target \notin visited /\ Cardinality(visited) >= MaxWorks
    /\ UNCHANGED <<graph, cached, works, walk, complete, exact, changes, faults>>

Look(condition) == pc = "expand" /\ pending # {} /\ condition /\ pending' = pending \ {Target}

SkipVisited ==
    /\ Look(Target \in visited)
    /\ UNCHANGED <<graph, cached, works, pc, queue, depth, visited, retained,
                   complete, exact, changes, faults>>

Room == Target \notin visited /\ Cardinality(visited) < MaxWorks

\* verify_work fetches the record and commits it.
VerifyTarget ==
    /\ pc = "expand" /\ pending # {} /\ Room
    /\ Target \notin cached /\ cached' = cached \cup {Target}
    /\ UNCHANGED <<graph, works, pc, walk, complete, exact, changes, faults>>

\* The target is associated, at its new distance if it was associated before
\* (as a relation work: the base works are visited already).
VisitTarget ==
    /\ Look(Room /\ Target \in cached)
    /\ visited' = visited \cup {Target}
    /\ works' = [works EXCEPT ![Target] = Related(depth + 1)]
    /\ retained' = retained \cup {Target}
    /\ queue' = Append(queue, <<Target, depth + 1>>)
    /\ UNCHANGED <<graph, cached, pc, depth, complete, exact, changes, faults>>

MissTarget_silently ==
    /\ Look(Room /\ Target \notin cached)
    /\ faults < MaxFaults /\ faults' = faults + 1
    /\ visited' = visited \cup {Target}
    /\ UNCHANGED <<graph, cached, works, pc, queue, depth, retained, complete, exact, changes>>

\* verify_work fails: the target counts against the limit all the same.
MissTarget ==
    /\ Look(Room /\ Target \notin cached)
    /\ faults < MaxFaults /\ faults' = faults + 1
    /\ visited' = visited \cup {Target}
    /\ complete' = FALSE
    /\ UNCHANGED <<graph, cached, works, pc, queue, depth, retained, exact, changes>>

ForgetLocals ==
    /\ queue' = <<>> /\ pending' = {} /\ depth' = 0
    /\ visited' = {} /\ retained' = {} /\ complete' = FALSE

Finish_keepsStale ==
    /\ pc = "next" /\ pc' = "idle"
    /\ queue = <<>> \/ Cardinality(visited) >= MaxWorks
    /\ exact' = complete
    /\ ForgetLocals
    /\ UNCHANGED <<graph, cached, works, changes, faults>>

\* Only a complete discovery removes what it did not find.
Finish ==
    /\ pc = "next" /\ pc' = "idle"
    /\ queue = <<>> \/ Cardinality(visited) >= MaxWorks
    /\ works' = [r \in Records |-> IF complete /\ r \in RelationWorks \ retained
                                   THEN NoWork ELSE works[r]]
    /\ exact' = complete
    /\ ForgetLocals
    /\ UNCHANGED <<graph, cached, changes, faults>>

\* The process dies, or a database error ends the scan.
Crash ==
    /\ pc # "idle" /\ pc' = "idle"
    /\ faults < MaxFaults /\ faults' = faults + 1
    /\ ForgetLocals
    /\ UNCHANGED <<graph, cached, works, exact, changes>>

Discover ==
    \/ NotSuspected \/ Start \/ NextSource \/ EndSource \/ SkipVisited
    \/ VerifyTarget \/ VisitTarget \/ MissTarget \/ Finish

Next == RefreshRelations \/ EditSidecar \/ Discover \/ Crash

Spec == Init /\ [][Next]_vars

\* Every scan discovers again, and a discovery goes on.
FairSpec == Spec /\ WF_vars(Discover)

-----------------------------------------------------------------------------
(* Properties.                                                             *)

\* What can be reached in n relations without passing through another base
\* work, whose own relations are not followed.
Within[n \in 0..3] ==
    IF n = 0 THEN {Primary}
    ELSE Within[n - 1] \cup ((UNION {relations[r] : r \in Within[n - 1]}) \ BaseWorks)

Distance(r) == CHOOSE n \in 0..3 : r \in Within[n] /\ \A k \in 0..(n - 1) : r \notin Within[k]

\* After a complete discovery every relation work is one that can be reached,
\* and is stored with the length of the shortest chain of relations to it, no
\* deeper than the limit, whatever an earlier discovery had stored.
DistancesAreShortest ==
    exact => \A r \in RelationWorks :
                r \in Within[MaxDepth] /\ works[r].distance = Distance(r)

\* README: traversal is limited to max_candidates works, and takes the direct
\* relations first.  A complete discovery leaves out a work only for want of
\* room, never in favour of a more distant one.
NearestWorksFirst ==
    exact => \A s \in Within[MaxDepth] \ (BaseWorks \cup RelationWorks) :
                /\ Cardinality(BaseWorks \cup RelationWorks) >= MaxWorks
                /\ \A r \in RelationWorks : works[r].distance <= Distance(s)

WithinLimit ==
    RelationWorks # {} => Cardinality(BaseWorks \cup RelationWorks) <= MaxWorks

\* After a complete discovery a collection has no more works than the limit,
\* unless its base works alone are more.
CompleteDiscoveryIsBounded == exact => WithinLimit

\* A provider outage costs nothing that was known before: a discovery removes
\* works only if it has seen the record of every work it visited.
OutagesForgetNothing ==
    [][\A r \in RelationWorks :
         pc = "next" /\ works'[r] = NoWork => visited \subseteq cached]_vars

\* Discovering the same relations again changes nothing, and the leftovers of
\* a crash or an outage are gone once the provider answers again.
DiscoverySettles == <>[][UNCHANGED works]_vars

=============================================================================
