--------------------------- MODULE WorkMappingProofs ---------------------------
(***************************************************************************)
(* Proofs about WorkMapping for any records, files, sidecars and faults:   *)
(* what the owner's rules, the counts and the model may each decide, and   *)
(* that an outage takes no manual mapping away.                            *)
(***************************************************************************)
EXTENDS WorkMapping, SequenceTheorems, TLAPS

\* A name that was made up for a record is that record's.
OwnNames(w) == \A r, s \in Records, k \in {"manual", "relation"} :
                   w[r] # NoWork /\ w[r].name = <<k, s>> => r = s

\* The works of a collection, one of them primary at most.
Works(w) ==
    /\ w \in [Records -> Work \cup {NoWork}]
    /\ \A r, s \in Records : w[r].primary /\ w[s].primary => r = s
    /\ UniqueNames(w) /\ OwnNames(w)

There(w) == {r \in Records : w[r] # NoWork}

\* How far the scan has come with the ids of its sidecar.
Verifying ==
    /\ pc \notin {"idle", "enrich"} => rules.valid
    /\ pc = "enrich" => ~pending /\ ~conflict
    /\ pc = "verify" => \A r \in Range(rules.ids) : r \in cached \/ pending \/ r \in Range(todo)
    /\ pc \notin {"idle", "enrich", "verify"} => pending \/ Range(rules.ids) \subseteq cached

Associating ==
    /\ pc = "associate" => \A r \in Range(rules.ids) \cap cached :
                              works[r].source = "manual" \/ r \in Range(todo)
    /\ pc \in {"map", "cleanMappings", "cleanWorks", "relate"} =>
          \A r \in Range(rules.ids) \cap cached : works[r].source = "manual"
    /\ pc \notin {"idle", "enrich", "verify", "associate"} =>
          (conflict <=> \E f \in Files : Ambiguous(rules.wants[f]))

\* No manual mapping is to a work that discovery may remove.
ManualWorks == \A f \in Files, r \in Records :
                   mapping[f] = To(r, "manual") => works[r].source # "relation"

Mapped == {"cleanMappings", "cleanWorks", "relate", "determine", "cleanDetermined", "model"}

\* Once the rules are applied in full they decide the mappings, and nothing
\* else is manual once the others are cleaned.
Applied ==
    pc \in Mapped /\ ~pending /\ ~conflict =>
        \A f \in Files :
            /\ rules.wants[f] # {} => /\ mapping[f].source = "manual"
                                      /\ {mapping[f].work} = {<<r>> : r \in rules.wants[f]}
            /\ pc # "cleanMappings" /\ mapping[f].source = "manual" => rules.wants[f] # {}

\* Where they do not, the counts do if they can.
Decided ==
    pc \in {"cleanDetermined", "model"} =>
        \A f \in Files : mapping[f].source # "manual" =>
            /\ Decision(f) # {} => /\ mapping[f].source = "deterministic"
                                   /\ {mapping[f].work} = {<<r>> : r \in Decision(f)}
            /\ pc = "model" /\ Decision(f) = {} => mapping[f].source # "deterministic"

\* A sidecar that was applied is valid, and the scans that follow read it again.
Calm ==
    /\ settled => sidecar.valid /\ (pc # "idle" => rules = sidecar)
    /\ settled /\ pc = "model" => ~pending /\ ~conflict

Kept == TypeOK /\ OwnNames(works) /\ Verifying /\ Associating
WInv == Kept /\ ManualWorks /\ Applied /\ Decided /\ Calm /\ OwnerDecides /\ EvidenceBeatsModel

-----------------------------------------------------------------------------
(* Names, works and mappings.                                              *)

LEMMA NameFacts ==
    /\ NoName \notin Names /\ SectionNames \subseteq Names /\ <<"primary">> \in SectionNames
    /\ \A r \in Records, k \in {"manual", "relation"} : <<k, r>> \in Names
    /\ \A n \in SectionNames : \A k, r : n # <<k, r>>
BY DEF NoName, Names, SectionNames

LEMMA WorkFacts ==
    /\ NoWork \notin Work /\ ~NoWork.primary /\ NoWork.source = "none"
    /\ \A w \in Work : w.source \in {"matched", "manual", "relation"} /\ w.primary \in BOOLEAN
                       /\ w.name \in Names
BY NameFacts DEF NoWork, Work

LEMMA MappingFacts ==
    ASSUME NEW R, R \subseteq Records
    PROVE  /\ NoMapping \in Mappings(R) /\ NoMapping.source = "none"
           /\ \A r \in R, s \in Sources : To(r, s) \in Mappings(R) /\ To(r, s).work = <<r>>
                                          /\ To(r, s).source = s
           /\ \A s \in Sources : [work |-> Foreign, source |-> s] \in Mappings(R)
           /\ \A m \in Mappings(R) : m = NoMapping \/ m.source \in Sources
           /\ \A m \in Mappings(R), r \in Records, s \in Sources :
                  m.work = <<r>> => r \in R /\ (m.source = s => m = To(r, s))
BY DEF Mappings, NoMapping, To, Foreign, Sources

LEMMA CascadeFacts ==
    ASSUME NEW R, R \subseteq Records, NEW m \in [Files -> Mappings(R)],
           NEW w, There(w) \subseteq Records
    PROVE  /\ Cascade(m, w) \in [Files -> Mappings(There(w))]
           /\ \A f \in Files : Cascade(m, w)[f] = m[f] \/ Cascade(m, w)[f] = NoMapping
           /\ \A f \in Files : (\A r \in Records : m[f].work = <<r>> => w[r] # NoWork)
                                  => Cascade(m, w)[f] = m[f]
<1>1. ASSUME NEW f \in Files PROVE Cascade(m, w)[f] \in Mappings(There(w))
  <2>1. CASE \E r \in Records : m[f].work = <<r>> /\ w[r] = NoWork
    BY <2>1, MappingFacts DEF Cascade
  <2>2. CASE ~\E r \in Records : m[f].work = <<r>> /\ w[r] = NoWork
    <3>1. Cascade(m, w)[f] = m[f] /\ m[f] \in Mappings(R)
      BY <2>2 DEF Cascade
    <3>2. \A r \in R : m[f].work = <<r>> => r \in There(w)
      BY <2>2 DEF There
    <3> QED BY <3>1, <3>2 DEF Mappings
  <2> QED BY <2>1, <2>2
<1> QED BY <1>1 DEF Cascade

LEMMA WithoutFacts ==
    ASSUME Works(works), NEW gone
    PROVE  Works(Without(gone)) /\ There(Without(gone)) = There(works) \ gone
BY WorkFacts DEF Works, Without, There, UniqueNames, OwnNames

LEMMA TailRange ==
    ASSUME NEW S, NEW s \in Seq(S), s # <<>>
    PROVE  /\ Head(s) \in S /\ Head(s) \in Range(s) /\ Tail(s) \in Seq(S)
           /\ \A x \in Range(s) : x = Head(s) \/ x \in Range(Tail(s))
<1>1. Len(s) \in Nat \ {0} /\ DOMAIN s = 1..Len(s)
  BY EmptySeq
<1>2. Head(s) = s[1] /\ Tail(s) \in Seq(S) /\ Len(Tail(s)) = Len(s) - 1
      /\ \A i \in 1..Len(Tail(s)) : Tail(s)[i] = s[i + 1]
  BY HeadTailProperties
<1>3. ASSUME NEW i \in 2..Len(s) PROVE s[i] \in Range(Tail(s))
  <2>1. i - 1 \in 1..Len(Tail(s)) /\ Tail(s)[i - 1] = s[i]
    BY <1>1, <1>2
  <2>2. DOMAIN Tail(s) = 1..Len(Tail(s))
    BY <1>2
  <2> QED BY <2>1, <2>2 DEF Range
<1> QED BY <1>1, <1>2, <1>3 DEF Range

LEMMA EnrichedFacts ==
    ASSUME TypeOK, OwnNames(works), NEW r \in Selected, UniqueNames(Enriched(r))
    PROVE  /\ r \in Records /\ Works(Enriched(r))
           /\ There(Enriched(r)) \subseteq Present \cup {r}
           /\ \A s \in Records : Enriched(r)[s].source = "relation" => works[s].source = "relation"
<1>1. r \in Records
  BY MatchAssumption DEF TypeOK, Selected, Primaries
<1>2. Works(works)
  BY DEF TypeOK, Works, Primaries
<1> DEFINE others == Without(Primaries \ {r})
           new == [source |-> IF pin = r THEN "manual" ELSE "matched", primary |-> TRUE,
                   name |-> <<"primary">>]
<1>3. Works(others) /\ There(others) = There(works) \ (Primaries \ {r})
  BY <1>2, WithoutFacts
<1>4. new \in Work /\ new.primary /\ new.source # "relation" /\ new.name \in SectionNames
  BY NameFacts DEF Work
<1>5. others \in [Records -> Work \cup {NoWork}]
  BY <1>3 DEF Works
<1>6. Enriched(r) = [others EXCEPT ![r] = new]
  BY DEF Enriched
<1>7. \A s \in Records : others[s].primary => s = r
  BY WorkFacts DEF Without, Primaries
<1>8. \A s \in Records : others[s] = works[s] \/ others[s] = NoWork
  BY DEF Without
<1> HIDE DEF others, new
<1>9. Enriched(r) \in [Records -> Work \cup {NoWork}]
  BY <1>1, <1>4, <1>5, <1>6
<1>10. \A s, t \in Records : Enriched(r)[s].primary /\ Enriched(r)[t].primary => s = t
  BY <1>5, <1>6, <1>7
<1>11. OwnNames(Enriched(r))
  BY <1>3, <1>4, <1>5, <1>6, NameFacts DEF Works, OwnNames
<1>12. There(Enriched(r)) \subseteq Present \cup {r}
  BY <1>5, <1>6, <1>8 DEF There, Present
<1>13. \A s \in Records : Enriched(r)[s].source = "relation" => works[s].source = "relation"
  BY <1>4, <1>5, <1>6, <1>8, WorkFacts
<1> QED BY <1>1, <1>9, <1>10, <1>11, <1>12, <1>13 DEF Works

LEMMA AssociatedFacts ==
    ASSUME TypeOK, OwnNames(works), NEW r \in Records, UniqueNames(Associated(r))
    PROVE  /\ Works(Associated(r)) /\ There(Associated(r)) = Present \cup {r}
           /\ Associated(r)[r].source = "manual"
           /\ \A s \in Records \ {r} : Associated(r)[s].source = works[s].source
<1> DEFINE primary == r = rules.pin \/ (rules.pin = NoRecord /\ works[r].primary)
           name == IF rules.name[r] # NoName THEN rules.name[r]
                   ELSE IF works[r] # NoWork THEN works[r].name ELSE <<"manual", r>>
           others == [s \in Records |-> IF primary /\ works[s].primary
                                        THEN [works[s] EXCEPT !.primary = FALSE] ELSE works[s]]
           new == [source |-> "manual", primary |-> primary, name |-> name]
<1>1. Works(works) /\ works[r] \in Work \cup {NoWork}
  BY DEF TypeOK, Works, Primaries
<1>2. Associated(r) = [others EXCEPT ![r] = new]
  BY DEF Associated
<1>3. primary \in BOOLEAN
  OBVIOUS
<1>4. rules \in Sidecar
  BY SidecarsAssumption DEF TypeOK
<1>5. rules.name[r] \in SectionNames \cup {NoName}
  BY <1>4 DEF Sidecar
<1>6. name \in Names /\ \A s \in Records, k \in {"manual", "relation"} : name = <<k, s>> => s = r
  <2>1. CASE rules.name[r] # NoName
    BY <1>5, <2>1, NameFacts
  <2>2. CASE rules.name[r] = NoName /\ works[r] # NoWork
    <3>1. name = works[r].name /\ works[r] \in Work
      BY <1>1, <2>2
    <3> QED BY <2>2, <3>1, WorkFacts DEF OwnNames
  <2>3. CASE rules.name[r] = NoName /\ works[r] = NoWork
    BY <2>3, NameFacts
  <2> QED BY <2>1, <2>2, <2>3
<1>7. new \in Work /\ new.source = "manual" /\ new.primary = primary /\ new.name = name
  BY <1>3, <1>6 DEF Work
<1>8. ASSUME NEW s \in Records
      PROVE  /\ others[s] \in Work \cup {NoWork} /\ others[s].source = works[s].source
             /\ others[s].name = works[s].name
             /\ others[s] = NoWork <=> works[s] = NoWork
             /\ others[s].primary => works[s].primary /\ ~primary
  <2>1. works[s] \in Work \cup {NoWork}
    BY <1>1 DEF Works
  <2>2. CASE primary /\ works[s].primary
    <3>1. works[s] \in Work /\ others[s] = [works[s] EXCEPT !.primary = FALSE]
      BY <2>1, <2>2, WorkFacts
    <3>2. /\ others[s] \in Work /\ others[s].source = works[s].source
          /\ others[s].name = works[s].name /\ ~others[s].primary
      BY <3>1 DEF Work
    <3> QED BY <3>1, <3>2, WorkFacts
  <2>3. CASE ~(primary /\ works[s].primary)
    <3>1. others[s] = works[s]
      BY <2>3
    <3> QED BY <2>1, <2>3, <3>1
  <2> QED BY <2>2, <2>3
<1>9. DOMAIN others = Records
  OBVIOUS
<1> HIDE DEF others, new, name, primary
<1>10. Associated(r) \in [Records -> Work \cup {NoWork}]
  BY <1>2, <1>7, <1>8, <1>9
<1>11. Associated(r)[r] = new /\ \A s \in Records \ {r} : Associated(r)[s] = others[s]
  BY <1>2, <1>9
<1>12. ASSUME NEW s \in Records, NEW t \in Records,
              Associated(r)[s].primary, Associated(r)[t].primary
       PROVE  s = t
  <2>1. CASE s = r
    BY <1>7, <1>8, <1>11, <1>12, <2>1
  <2>2. CASE t = r
    BY <1>7, <1>8, <1>11, <1>12, <2>2
  <2>3. CASE s # r /\ t # r
    BY <1>1, <1>8, <1>11, <1>12, <2>3 DEF Works
  <2> QED BY <2>1, <2>2, <2>3
<1>13. OwnNames(Associated(r))
  <2> SUFFICES ASSUME NEW s \in Records, NEW t \in Records, NEW k \in {"manual", "relation"},
                      Associated(r)[s] # NoWork, Associated(r)[s].name = <<k, t>>
               PROVE  s = t
    BY DEF OwnNames
  <2>1. CASE s = r
    BY <1>6, <1>7, <1>11, <2>1
  <2>2. CASE s # r
    <3>1. works[s] # NoWork /\ works[s].name = <<k, t>>
      BY <1>8, <1>11, <2>2
    <3> QED BY <3>1 DEF OwnNames
  <2> QED BY <2>1, <2>2
<1>14. There(Associated(r)) = Present \cup {r}
  BY <1>7, <1>8, <1>11, WorkFacts DEF There, Present
<1> QED BY <1>7, <1>8, <1>10, <1>11, <1>12, <1>13, <1>14 DEF Works

LEMMA RelatedFacts ==
    ASSUME TypeOK, OwnNames(works), NEW found \in SUBSET Relatives
    PROVE  /\ Works(Related(found)) /\ There(Related(found)) \subseteq Present \cup found
           /\ \A s \in Records : works[s].source \in {"manual", "matched"} =>
                                     Related(found)[s] = works[s]
           /\ found # Relatives => Present \subseteq There(Related(found))
<1> DEFINE known == {r \in Records : works[r].source \in {"matched", "manual"}}
           relation(r) == [source |-> "relation", primary |-> FALSE, name |-> <<"relation", r>>]
           w == Related(found)
<1>1. Works(works) /\ found \subseteq Records
  BY MatchAssumption DEF TypeOK, Works, Primaries
<1>2. \A r \in Records : relation(r) \in Work /\ ~relation(r).primary
                           /\ relation(r).name = <<"relation", r>>
  BY NameFacts DEF Work
<1>3. \A r \in Records :
          \/ /\ r \in found \ known
             /\ w[r] = relation(r)
          \/ /\ r \notin found \ known /\ found = Relatives
             /\ works[r].source = "relation" /\ w[r] = NoWork
          \/ /\ r \notin found \ known
             /\ w[r] = works[r]
  BY DEF Related
<1>4. DOMAIN w = Records
  BY DEF Related
<1>5. \A r \in known : w[r] = works[r]
  BY DEF Related
<1>6. \A r \in Records : r \notin found \ known /\ found # Relatives => w[r] = works[r]
  BY DEF Related
<1>7. w = [r \in Records |-> w[r]]
  BY DEF Related
<1>8. \A r \in Records : w[r] \in Work \cup {NoWork}
  BY <1>1, <1>2, <1>3 DEF Works
<1>9. \A r \in Records : w[r].primary => w[r] = works[r]
  BY <1>2, <1>3, WorkFacts
<1>a. known = {r \in Records : works[r].source \in {"matched", "manual"}}
  OBVIOUS
<1> HIDE DEF w, relation, known
<1>10. w \in [Records -> Work \cup {NoWork}]
  BY <1>7, <1>8
<1>11. \A r, s \in Records : w[r].primary /\ w[s].primary => r = s
  BY <1>1, <1>9 DEF Works
<1>12. OwnNames(w)
  BY <1>1, <1>2, <1>3, NameFacts DEF OwnNames, Works
<1>13. ASSUME NEW r \in Records, NEW s \in Records, r # s, w[r] # NoWork, w[s] # NoWork
       PROVE  w[r].name # w[s].name
  <2>1. CASE w[r] = relation(r)
    BY <1>2, <1>12, <1>13, <2>1 DEF OwnNames
  <2>2. CASE w[s] = relation(s)
    BY <1>2, <1>12, <1>13, <2>2 DEF OwnNames
  <2>3. CASE w[r] = works[r] /\ w[s] = works[s]
    BY <1>1, <1>13, <2>3 DEF Works, UniqueNames
  <2> QED BY <1>3, <1>13, <2>1, <2>2, <2>3
<1>14. There(w) \subseteq Present \cup found
  BY <1>3 DEF There, Present
<1>15. found # Relatives => Present \subseteq There(w)
  BY <1>2, <1>3, WorkFacts DEF There, Present
<1>16. \A s \in Records : works[s].source \in {"manual", "matched"} => w[s] = works[s]
  BY <1>5, <1>a
<1> QED BY <1>10, <1>11, <1>12, <1>13, <1>14, <1>15, <1>16
           DEF Works, UniqueNames, w

-----------------------------------------------------------------------------
(* The control state of a scan.                                            *)

Stages == {"idle", "enrich", "verify", "associate", "map", "cleanMappings", "cleanWorks",
           "relate", "determine", "cleanDetermined", "model"}

Control ==
    /\ sidecar \in Sidecars /\ rules \in Sidecars
    /\ pin \in Records \cup {NoRecord}
    /\ inference \in BOOLEAN
    /\ pc \in Stages /\ todo \in Seq(Records)
    /\ pending \in BOOLEAN /\ conflict \in BOOLEAN /\ settled \in BOOLEAN
    /\ changes \in 0..MaxChanges /\ faults \in 0..MaxFaults

Data ==
    /\ fresh \subseteq cached /\ cached \subseteq Records
    /\ Works(works) /\ Present \subseteq cached
    /\ mapping \in [Files -> Mappings(Present)]

LEMMA TypeParts == TypeOK /\ OwnNames(works) <=> Control /\ Data
BY DEF TypeOK, Control, Data, Works, Primaries, Stages

LEMMA SidecarFacts ==
    ASSUME NEW s \in Sidecars
    PROVE  /\ s.valid \in BOOLEAN /\ s.pin \in Records \cup {NoRecord} /\ s.ids \in Seq(Records)
           /\ Range(s.ids) \subseteq Records
           /\ \A f \in Files : s.wants[f] \subseteq Range(s.ids)
<1>1. s \in Sidecar /\ \A f \in Files : s.wants[f] \subseteq Range(s.ids)
  BY SidecarsAssumption
<1>2. s.pin \in Records \cup {NoRecord} /\ s.ids \in Seq(Records)
  BY <1>1 DEF Sidecar
<1>3. s.valid \in BOOLEAN
  BY <1>1 DEF Sidecar
<1> QED BY <1>1, <1>2, <1>3 DEF Range

LEMMA ControlStep ==
    ASSUME Control, [Next]_vars
    PROVE  Control'
<1>1. ASSUME Change PROVE changes' \in 0..MaxChanges /\ faults' \in 0..MaxFaults /\ settled' \in BOOLEAN
  <2>1. changes' \in 0..MaxChanges /\ faults' \in 0..MaxFaults
    BY <1>1, BoundsAssumption DEF Change, Control
  <2>2. settled' \in BOOLEAN
    BY <1>1, Zenon DEF Change
  <2> QED BY <2>1, <2>2
<1>2. ASSUME Fault PROVE changes' \in 0..MaxChanges /\ faults' \in 0..MaxFaults
  BY <1>2, BoundsAssumption DEF Fault, Control
<1>3. ASSUME UNCHANGED bounds PROVE changes' \in 0..MaxChanges /\ faults' \in 0..MaxFaults
  BY <1>3 DEF bounds, Control
<1>4. CASE EditSidecar
  BY <1>1, <1>4 DEF EditSidecar, Control, scan
<1>5. CASE Expire \/ MoveIn
  BY <1>1, <1>5 DEF Expire, MoveIn, Control, scan
<1>6. CASE BeginScan
  <2>1. rules' \in Sidecars /\ pin' \in Records \cup {NoRecord}
    BY <1>6, SidecarFacts DEF BeginScan, Control
  <2>2. pending' \in BOOLEAN /\ conflict' \in BOOLEAN
    BY <1>6, Zenon DEF BeginScan
  <2>3. todo' \in Seq(Records)
    BY <1>6, EmptySeq DEF BeginScan
  <2> QED BY <1>3, <1>6, <2>1, <2>2, <2>3 DEF BeginScan, Stage, Control, Stages
<1>7. CASE Enrich
  <2>1. changes' \in 0..MaxChanges /\ faults' \in 0..MaxFaults
    BY <1>2, <1>3, <1>7 DEF Enrich
  <2>2. todo' \in Seq(Records) /\ pc' \in Stages
    BY <1>7, SidecarFacts DEF Enrich, Stage, Stages, Control
  <2> QED BY <1>7, <2>1, <2>2 DEF Enrich, Control
<1>8. CASE Verify
  <2>1. changes' \in 0..MaxChanges /\ faults' \in 0..MaxFaults
    BY <1>2, <1>3, <1>8 DEF Verify
  <2>2. todo' \in Seq(Records)
    BY <1>8, TailRange DEF Verify, Control
  <2>3. pending' \in BOOLEAN
    BY <1>8, Zenon DEF Verify, Control
  <2> QED BY <1>8, <2>1, <2>2, <2>3 DEF Verify, Control
<1>9. CASE EndVerify
  BY <1>3, <1>9, SidecarFacts DEF EndVerify, Stage, Stages, Control
<1>10. CASE Associate
  <2>1. todo' \in Seq(Records)
    BY <1>10, TailRange DEF Associate, Control
  <2>2. settled' \in BOOLEAN
    BY <1>10, Zenon DEF Associate, Control
  <2>3. pc' \in Stages
    BY <1>10 DEF Associate, Control, Stages
  <2> QED BY <1>3, <1>10, <2>1, <2>2, <2>3 DEF Associate, Control
<1>11. CASE EndAssociate
  <2>1. conflict' \in BOOLEAN
    BY <1>11, Zenon DEF EndAssociate
  <2> QED BY <1>3, <1>11, <2>1 DEF EndAssociate, Stage, Stages, Control
<1>12. ASSUME NEW n, NEW from \in Stages, NEW to \in Stages, FileLoop(n, from, to)
       PROVE  /\ pc' \in Stages /\ settled' \in BOOLEAN
              /\ changes' \in 0..MaxChanges /\ faults' \in 0..MaxFaults
  <2>1. settled' \in BOOLEAN
    BY <1>12, Zenon DEF FileLoop, Control
  <2>2. changes' \in 0..MaxChanges /\ faults' \in 0..MaxFaults
    BY <1>2, <1>3, <1>12 DEF FileLoop
  <2>3. pc' \in Stages
    BY <1>12 DEF FileLoop, Stage, Stages
  <2> QED BY <2>1, <2>2, <2>3
<1>13. CASE MapFiles \/ Determine \/ AskModel
  <2>1. /\ pc' \in Stages /\ settled' \in BOOLEAN
        /\ changes' \in 0..MaxChanges /\ faults' \in 0..MaxFaults
    <3>1. {"idle", "map", "cleanMappings", "determine", "cleanDetermined", "model"} \subseteq Stages
      BY DEF Stages
    <3> QED BY <1>12, <1>13, <3>1 DEF MapFiles, Determine, AskModel
  <2> QED BY <1>13, <2>1 DEF MapFiles, Determine, AskModel, Control
<1>14. CASE CleanMappings \/ CleanWorks
  BY <1>3, <1>14 DEF CleanMappings, CleanWorks, Stage, Stages, Control
<1>15. CASE Relate
  <2>1. faults' \in 0..MaxFaults
    BY <1>15, BoundsAssumption DEF Relate, Discover, Control
  <2> QED BY <1>15, <2>1 DEF Relate, Stage, Stages, Control
<1>16. CASE BreakRelate \/ Crash
  <2>1. settled' \in BOOLEAN
    BY <1>16, Zenon DEF BreakRelate, Crash
  <2> QED BY <1>2, <1>16, <2>1 DEF BreakRelate, Crash, Stage, Stages, Control
<1>17. CASE CleanDetermined
  <2>1. settled' \in BOOLEAN
    BY <1>17, Zenon DEF CleanDetermined
  <2> QED BY <1>3, <1>17, <2>1 DEF CleanDetermined, Stage, Stages, Control
<1>18. CASE SkipModel
  <2>1. faults' \in 0..MaxFaults
    BY <1>18, BoundsAssumption DEF SkipModel, Control
  <2> QED BY <1>18, <2>1 DEF SkipModel, Stage, Stages, Control
<1>19. CASE RefreshCandidates
  <2>1. changes' \in 0..MaxChanges /\ faults' \in 0..MaxFaults
    BY <1>19, BoundsAssumption DEF RefreshCandidates, Discover, Control
  <2>2. settled' \in BOOLEAN
    BY <1>19, Zenon DEF RefreshCandidates
  <2> QED BY <1>19, <2>1, <2>2 DEF RefreshCandidates, scan, Control
<1>20. CASE InvalidateModel \/ Recompute
  BY <1>3, <1>20 DEF InvalidateModel, Recompute, scan, Control
<1>21. CASE UNCHANGED vars
  BY <1>3, <1>21 DEF vars, scan, Control
<1> QED BY <1>4, <1>5, <1>6, <1>7, <1>8, <1>9, <1>10, <1>11, <1>13, <1>14, <1>15, <1>16,
           <1>17, <1>18, <1>19, <1>20, <1>21 DEF Next, Scan, Command

-----------------------------------------------------------------------------
(* The tables.                                                             *)

LEMMA DataKept ==
    ASSUME Data, UNCHANGED collection, cached \subseteq cached', cached' \subseteq Records,
           fresh' \subseteq cached'
    PROVE  Data'
BY DEF Data, collection, Present

LEMMA DataByWorks ==
    ASSUME Data, Works(works'), There(works') \subseteq cached', cached' \subseteq Records,
           fresh' \subseteq cached', mapping' \in [Files -> Mappings(There(works'))]
    PROVE  Data'
BY DEF Data, There, Present

LEMMA DataByMapping ==
    ASSUME Data, UNCHANGED <<works, records>>, mapping' \in [Files -> Mappings(Present)]
    PROVE  Data'
BY DEF Data, Present, records

\* The mappings stay when works are only added, and are cascaded otherwise.
LEMMA MappingsGrow ==
    ASSUME Data, Works(works'), Present \subseteq There(works'), UNCHANGED mapping
    PROVE  mapping' \in [Files -> Mappings(There(works'))]
BY DEF Data, Mappings

LEMMA MappingsCascade ==
    ASSUME Data, mapping' = Cascade(mapping, works')
    PROVE  mapping' \in [Files -> Mappings(There(works'))]
<1>1. Present \subseteq Records /\ There(works') \subseteq Records
  BY DEF Present, There
<1> QED BY <1>1, CascadeFacts DEF Data

LEMMA SingleChoice ==
    ASSUME NEW R, Single(R)
    PROVE  (CHOOSE r \in R : TRUE) \in R /\ R = {CHOOSE r \in R : TRUE}
BY DEF Single

LEMMA DecisionFacts ==
    ASSUME NEW f \in Files
    PROVE  /\ Decision(f) \subseteq Present
           /\ Decision(f) # {} => /\ (CHOOSE r \in Decision(f) : TRUE) \in Present
                                  /\ Decision(f) = {CHOOSE r \in Decision(f) : TRUE}
<1>1. CASE Single(Fits[f] \cap Present)
  <2>1. Decision(f) = Fits[f] \cap Present
    BY <1>1 DEF Decision
  <2> QED BY <1>1, <2>1, SingleChoice
<1>2. CASE ~Single(Fits[f] \cap Present)
  BY <1>2 DEF Decision
<1> QED BY <1>1, <1>2

LEMMA DeterminedFacts ==
    ASSUME Data, NEW n
    PROVE  /\ Determined(n) \in [Files -> Mappings(Present)]
           /\ WithoutStale(Determined(n)) \in [Files -> Mappings(Present)]
<1>1. Present \subseteq Records /\ "deterministic" \in Sources
  BY DEF Present, Sources
<1>2. ASSUME NEW f \in Files PROVE Determined(n)[f] \in Mappings(Present)
  BY <1>1, DecisionFacts, MappingFacts DEF Determined, Data
<1>3. ASSUME NEW f \in Files PROVE WithoutStale(Determined(n))[f] \in Mappings(Present)
  BY <1>1, <1>2, MappingFacts DEF WithoutStale
<1> QED BY <1>2, <1>3 DEF Determined, WithoutStale

\* A file that the rules give to a work finds it in the collection.
LEMMA OwnedFacts ==
    ASSUME Control, Associating, NEW f \in Files, Owned(f), pc = "map"
    PROVE  \E r \in Present : /\ works[r].source = "manual" /\ rules.wants[f] = {r}
                              /\ (CHOOSE s \in rules.wants[f] : TRUE) = r
<1> DEFINE r == CHOOSE s \in rules.wants[f] : TRUE
<1>1. r \in rules.wants[f] /\ rules.wants[f] = {r} /\ rules.wants[f] \subseteq cached
  BY SingleChoice DEF Owned
<1>2. r \in Range(rules.ids) /\ r \in Records
  BY <1>1, SidecarFacts DEF Control
<1> HIDE DEF r
<1>3. works[r].source = "manual"
  BY <1>1, <1>2 DEF Associating
<1>4. r \in Present
  BY <1>2, <1>3, WorkFacts DEF Present
<1> QED BY <1>1, <1>3, <1>4 DEF r

LEMMA DataByDiscovery ==
    ASSUME Data, OwnNames(works), TypeOK, NEW found \in SUBSET Relatives,
           works' = Related(found), cached' = cached \cup found,
           fresh' = fresh \cup (found \ cached),
           mapping' = Cascade(mapping, works') \/ (UNCHANGED mapping /\ found # Relatives)
    PROVE  Data'
<1>1. /\ Works(works') /\ There(works') \subseteq Present \cup found
      /\ found # Relatives => Present \subseteq There(works')
  BY RelatedFacts
<1>2. mapping' \in [Files -> Mappings(There(works'))]
  BY <1>1, MappingsGrow, MappingsCascade
<1> QED BY <1>1, <1>2, DataByWorks, MatchAssumption DEF Data

LEMMA DataStep ==
    ASSUME Kept, [Next]_vars
    PROVE  Data'
<1>a. TypeOK /\ OwnNames(works) /\ Verifying /\ Associating /\ Control /\ Data
  BY TypeParts DEF Kept
<1>b. Present \subseteq Records /\ {"manual", "deterministic", "model"} = Sources
  BY DEF Present, Sources
<1>1. CASE EditSidecar \/ Expire \/ BeginScan \/ EndVerify \/ EndAssociate \/ SkipModel
           \/ Crash \/ UNCHANGED vars
  <2>1. UNCHANGED collection /\ UNCHANGED cached /\ fresh' \subseteq fresh
    BY <1>1
       DEF EditSidecar, Expire, BeginScan, EndVerify, EndAssociate, SkipModel,
           Crash, vars,
                records
  <2> QED BY <1>a, <2>1, DataKept DEF Data
<1>2. CASE MoveIn
  <2>1. mapping' \in [Files -> Mappings(Present)]
    BY <1>2, <1>a, <1>b, MappingFacts DEF MoveIn, Data
  <2> QED BY <1>2, <1>a, <2>1, DataByMapping DEF MoveIn
<1>3. CASE Enrich
  <2>1. CASE UNCHANGED <<records, collection>>
    BY <1>a, <2>1, DataKept DEF records, Data
  <2>2. ASSUME NEW r \in Selected, UniqueNames(Enriched(r)), works' = Enriched(r),
               mapping' = Cascade(mapping, works'), cached' = cached \cup {r},
               fresh' = fresh \cup {r}
        PROVE  Data'
    <3>1. r \in Records /\ Works(works') /\ There(works') \subseteq Present \cup {r}
      BY <1>a, <2>2, EnrichedFacts
    <3>2. mapping' \in [Files -> Mappings(There(works'))]
      BY <1>a, <2>2, MappingsCascade
    <3> QED BY <1>a, <2>2, <3>1, <3>2, DataByWorks DEF Data
  <2> QED BY <1>3, <2>1, <2>2 DEF Enrich
<1>4. CASE Verify
  <2>1. Head(todo) \in Records
    BY <1>4, <1>a, TailRange DEF Verify, Control
  <2>2. /\ cached \subseteq cached' /\ cached' \subseteq cached \cup {Head(todo)}
        /\ fresh' \subseteq cached'
    BY <1>4, <1>a DEF Verify, records, Data
  <2> QED BY <1>4, <1>a, <2>1, <2>2, DataKept DEF Verify, Data
<1>5. CASE Associate
  <2>1. CASE UNCHANGED works
    BY <1>5, <1>a, <2>1, DataKept DEF Associate, records, collection, Data
  <2>2. CASE /\ Head(todo) \in cached /\ UniqueNames(Associated(Head(todo)))
             /\ works' = Associated(Head(todo))
    <3>1. Head(todo) \in Records
      BY <1>a, <2>2 DEF Data
    <3>2. Works(works') /\ There(works') = Present \cup {Head(todo)}
      BY <1>a, <2>2, <3>1, AssociatedFacts
    <3>3. mapping' \in [Files -> Mappings(There(works'))]
      BY <1>5, <1>a, <3>2, MappingsGrow DEF Associate
    <3> QED BY <1>5, <1>a, <2>2, <3>2, <3>3, DataByWorks
               DEF Associate, records, Data
  <2> QED BY <1>5, <2>1, <2>2 DEF Associate
<1>6. CASE MapFiles
  <2>1. PICK n \in 0..NFiles :
            /\ FileLoop(n, "map", "cleanMappings")
            /\ mapping' = [f \in Files |-> IF f <= n /\ Owned(f)
                                           THEN To(CHOOSE r \in rules.wants[f] : TRUE, "manual")
                                           ELSE mapping[f]]
    BY <1>6 DEF MapFiles
  <2>2. pc = "map"
    BY <2>1 DEF FileLoop, Stage
  <2>3. ASSUME NEW f \in Files PROVE mapping'[f] \in Mappings(Present)
    <3>1. CASE f <= n /\ Owned(f)
      <4>1. (CHOOSE r \in rules.wants[f] : TRUE) \in Present
        BY <1>a, <2>2, <3>1, OwnedFacts
      <4> QED BY <1>b, <2>1, <3>1, <4>1, MappingFacts
    <3>2. CASE ~(f <= n /\ Owned(f))
      BY <1>a, <2>1, <3>2 DEF Data
    <3> QED BY <3>1, <3>2
  <2>4. mapping' \in [Files -> Mappings(Present)]
    BY <2>1, <2>3
  <2> QED BY <1>6, <1>a, <2>4, DataByMapping DEF MapFiles
<1>7. CASE CleanMappings \/ InvalidateModel
  <2>1. mapping' \in [Files -> Mappings(Present)]
    BY <1>7, <1>a, <1>b, MappingFacts DEF CleanMappings, InvalidateModel, Data
  <2> QED BY <1>7, <1>a, <2>1, DataByMapping DEF CleanMappings, InvalidateModel
<1>8. CASE CleanWorks
  <2>1. Works(works') /\ There(works') \subseteq Present
    BY <1>8, <1>a, WithoutFacts DEF CleanWorks, Data, There, Present
  <2>2. mapping' \in [Files -> Mappings(There(works'))]
    BY <1>8, <1>a, MappingsCascade DEF CleanWorks
  <2> QED BY <1>8, <1>a, <2>1, <2>2, DataByWorks DEF CleanWorks, records, Data
<1>9. CASE Relate \/ RefreshCandidates
  <2>1. Discover
    BY <1>9 DEF Relate, RefreshCandidates
  <2>2. CASE UNCHANGED <<records, collection, faults>>
    BY <1>a, <2>2, DataKept DEF records, Data
  <2>3. ASSUME NEW found \in SUBSET Relatives, works' = Related(found),
               mapping' = Cascade(mapping, works'), cached' = cached \cup found,
               fresh' = fresh \cup (found \ cached)
        PROVE  Data'
    BY <1>a, <2>3, DataByDiscovery
  <2> QED BY <2>1, <2>2, <2>3 DEF Discover
<1>10. CASE BreakRelate
  <2>1. PICK found \in (SUBSET Relatives) \ {Relatives} :
            works' = Related(found) /\ cached' = cached \cup found
            /\ fresh' = fresh \cup (found \ cached)
    BY <1>10 DEF BreakRelate
  <2>2. found \in SUBSET Relatives /\ found # Relatives /\ UNCHANGED mapping
    BY <1>10, <2>1 DEF BreakRelate
  <2> QED BY <1>a, <2>1, <2>2, DataByDiscovery
<1>11. CASE Determine \/ CleanDetermined \/ Recompute
  <2>1. mapping' \in [Files -> Mappings(Present)]
    <3>1. \A f \in Files : WithoutStale(mapping)[f] \in Mappings(Present)
      BY <1>a, <1>b, MappingFacts DEF WithoutStale, Data
    <3>2. WithoutStale(mapping) \in [Files -> Mappings(Present)]
      BY <3>1 DEF WithoutStale
    <3> QED BY <1>11, <1>a, <3>2, DeterminedFacts
               DEF Determine, CleanDetermined, Recompute
  <2> QED BY <1>11, <1>a, <2>1, DataByMapping
             DEF Determine, CleanDetermined, Recompute
<1>12. CASE AskModel
  <2>1. PICK n \in 0..NFiles, answer \in [Files -> Present \cup {NoRecord}] :
            mapping' = [f \in Files |->
                         IF f > n \/ mapping[f].source \notin {"none", "model"} THEN mapping[f]
                         ELSE IF answer[f] = NoRecord THEN NoMapping
                         ELSE To(answer[f], "model")]
    BY <1>12 DEF AskModel
  <2>2. \A f \in Files : mapping'[f] \in Mappings(Present)
    BY <1>a, <1>b, <2>1, MappingFacts DEF Data
  <2>3. mapping' \in [Files -> Mappings(Present)]
    BY <2>1, <2>2
  <2> QED BY <1>12, <1>a, <2>3, DataByMapping DEF AskModel
<1> QED BY <1>1, <1>2, <1>3, <1>4, <1>5, <1>6, <1>7, <1>8, <1>9, <1>10, <1>11, <1>12
        DEF Next, Scan, Command

-----------------------------------------------------------------------------
(* The ids of the sidecar and the works they become.                       *)

Later == Stages \ {"idle", "enrich", "verify"}

LEMMA VerifyingStep ==
    ASSUME Kept, [Next]_vars
    PROVE  Verifying'
<1>a. Verifying /\ Control /\ Data
  BY TypeParts DEF Kept
<1>1. CASE pc' = "idle"
  BY <1>1 DEF Verifying
<1>2. CASE UNCHANGED <<scan, records>> /\ pc' # "idle"
  BY <1>a, <1>2 DEF Verifying, scan, records
<1>3. CASE UNCHANGED <<scan, cached>>
  BY <1>a, <1>3 DEF Verifying, scan
<1>4. CASE BeginScan
  BY <1>4 DEF BeginScan, Stage, Verifying
<1>5. CASE Enrich /\ pc' = "verify"
  BY <1>5 DEF Enrich, Stage, Verifying
<1>6. CASE Verify
  <2>1. ASSUME NEW r \in Range(rules.ids) PROVE r \in cached' \/ pending' \/ r \in Range(todo')
    BY <1>6, <1>a, TailRange DEF Verify, Verifying, Control, records
  <2> QED BY <1>6, <1>a, <2>1 DEF Verify, Verifying
<1>7. CASE EndVerify
  <2>1. Range(todo) = {}
    BY <1>7, EmptySeq DEF EndVerify, Range
  <2> QED BY <1>7, <1>a, <2>1 DEF EndVerify, Stage, Verifying, records
<1>8. ASSUME pc \in Later, pc' \in Later, cached \subseteq cached', UNCHANGED <<rules, pending>>
      PROVE  Verifying'
  BY <1>8, <1>a DEF Verifying, Later
<1>9. CASE Associate \/ EndAssociate \/ CleanMappings \/ CleanWorks \/ CleanDetermined
  BY <1>1, <1>8, <1>9
     DEF Associate, EndAssociate, CleanMappings, CleanWorks, CleanDetermined,
     Stage, Later, Stages, records
<1>10. CASE Relate
  BY <1>8, <1>10 DEF Relate, Discover, Stage, Later, Stages, records
<1>11. CASE MapFiles \/ Determine \/ AskModel
  BY <1>1, <1>8, <1>11
     DEF MapFiles, Determine, AskModel, FileLoop, Stage, Later, Stages, records
<1>12. CASE RefreshCandidates
  BY <1>12, <1>1 DEF RefreshCandidates, scan
<1> QED BY <1>1, <1>2, <1>3, <1>4, <1>5, <1>6, <1>7, <1>9, <1>10, <1>11, <1>12
        DEF Next, Scan, Command, EditSidecar, Expire, MoveIn, Enrich, Stage, BreakRelate,
            SkipModel, Crash, InvalidateModel, Recompute, vars, records

LEMMA AssociatingStep ==
    ASSUME Kept, [Next]_vars
    PROVE  Associating'
<1>a. TypeOK /\ OwnNames(works) /\ Associating /\ Control /\ Data
  BY TypeParts DEF Kept
<1>1. CASE pc' \in {"idle", "enrich", "verify"}
  BY <1>1 DEF Associating
<1>2. CASE UNCHANGED <<scan, cached, works>>
  BY <1>a, <1>2 DEF Associating, scan
<1>3. CASE EndVerify
  BY <1>3 DEF EndVerify, Stage, Associating
<1>4. CASE Associate /\ pc' # "idle"
  <2>1. /\ pc = "associate" /\ pc' = "associate" /\ todo' = Tail(todo) /\ todo # <<>>
        /\ UNCHANGED <<rules, records>>
        /\ \/ /\ Head(todo) \in cached /\ UniqueNames(Associated(Head(todo)))
              /\ works' = Associated(Head(todo))
           \/ Head(todo) \notin cached /\ UNCHANGED works
    BY <1>4 DEF Associate
  <2>2. ASSUME NEW r \in Range(rules.ids) \cap cached
        PROVE  works'[r].source = "manual" \/ r \in Range(todo')
    <3>1. works[r].source = "manual" \/ r = Head(todo) \/ r \in Range(todo')
      BY <1>a, <2>1, TailRange DEF Associating, Control
    <3>2. r \in Records
      BY <1>a DEF Data
    <3>3. CASE Head(todo) \notin cached
      BY <2>1, <3>1, <3>3
    <3>4. CASE Head(todo) \in cached
      <4>1. Head(todo) \in Records
        BY <1>a, <3>4 DEF Data
      <4>2. /\ works'[Head(todo)].source = "manual"
            /\ \A s \in Records \ {Head(todo)} : works'[s].source = works[s].source
        BY <1>a, <2>1, <3>4, <4>1, AssociatedFacts
      <4> QED BY <3>1, <3>2, <4>2
    <3> QED BY <3>3, <3>4
  <2> QED BY <2>1, <2>2 DEF Associating, records
<1>5. CASE EndAssociate
  <2>1. Range(todo) = {}
    BY <1>5, EmptySeq DEF EndAssociate, Range
  <2>2. conflict' <=> \E f \in Files : Ambiguous(rules.wants[f])
    BY <1>5, Zenon DEF EndAssociate
  <2> QED BY <1>5, <1>a, <2>1, <2>2
             DEF EndAssociate, Stage, Associating, records, collection
<1>6. ASSUME pc \in {"map", "cleanMappings", "cleanWorks", "relate"}, UNCHANGED <<rules, cached, conflict>>,
             pc' \in {"cleanMappings", "cleanWorks", "relate"},
             \A r \in Range(rules.ids) \cap cached :
                works[r].source = "manual" => works'[r].source = "manual"
      PROVE  Associating'
  BY <1>6, <1>a DEF Associating
<1>7. CASE MapFiles \/ CleanMappings
  BY <1>1, <1>6, <1>7 DEF MapFiles, CleanMappings, FileLoop, Stage, records
<1>8. CASE CleanWorks
  <2>1. ASSUME NEW r \in Range(rules.ids) \cap cached
        PROVE  works'[r].source = "manual" <=> works[r].source = "manual"
    BY <1>8, <1>a DEF CleanWorks, Without, Data
  <2> QED BY <1>6, <1>8, <2>1 DEF CleanWorks, Stage, records
<1>9. ASSUME pc \in {"relate", "determine", "cleanDetermined", "model"},
             pc' \in {"determine", "cleanDetermined", "model"}, UNCHANGED <<rules, conflict>>
      PROVE  Associating'
  BY <1>9, <1>a DEF Associating
<1>10. CASE Relate \/ Determine \/ CleanDetermined \/ AskModel
  BY <1>1, <1>9, <1>10
     DEF Relate, Determine, CleanDetermined, AskModel, FileLoop, Stage
<1>11. CASE EditSidecar
  BY <1>2, <1>11 DEF EditSidecar, records, collection
<1>12. CASE Expire \/ MoveIn \/ RefreshCandidates \/ InvalidateModel \/ Recompute
  BY <1>1, <1>12
     DEF Expire, MoveIn, RefreshCandidates, InvalidateModel, Recompute, scan
<1>13. CASE UNCHANGED vars
  BY <1>2, <1>13 DEF vars, records, collection
<1> QED BY <1>1, <1>3, <1>4, <1>5, <1>7, <1>8, <1>10, <1>11, <1>12, <1>13
        DEF Next, Scan, Command, BeginScan, Enrich, Verify, Stage, BreakRelate, SkipModel, Crash

LEMMA KeptStep == ASSUME Kept, [Next]_vars PROVE Kept'
<1>1. Control' /\ Data' /\ Verifying' /\ Associating'
  BY ControlStep, DataStep, VerifyingStep, AssociatingStep, TypeParts DEF Kept
<1>2. (TypeOK /\ OwnNames(works))' <=> Control' /\ Data'
  BY TypeParts, PTL
<1> QED BY <1>1, <1>2 DEF Kept

-----------------------------------------------------------------------------
(* Who decides a mapping.                                                  *)

\* What a step may do to a mapping whose work stays.
LEMMA CascadeKeeps ==
    ASSUME Data, NEW f \in Files, NEW r \in Records, mapping[f].work = <<r>>, works'[r] # NoWork
    PROVE  Cascade(mapping, works')[f] = mapping[f]
<1>1. \A s \in Records : mapping[f].work = <<s>> => s = r
  OBVIOUS
<1> QED BY <1>1 DEF Cascade

LEMMA CascadeOrGone ==
    ASSUME Data, NEW f \in Files
    PROVE  Cascade(mapping, works')[f] = mapping[f] \/ Cascade(mapping, works')[f] = NoMapping
BY DEF Cascade

LEMMA ToFacts ==
    /\ \A r \in Records, s \in Sources : To(r, s) # NoMapping
    /\ \A r, t \in Records, s, u \in Sources : To(r, s) = To(t, u) => r = t /\ s = u
    /\ \A r \in Records, s, u \in Sources : To(r, s) # [work |-> Foreign, source |-> u]
    /\ NoMapping.source = "none"
<1>1. ASSUME NEW r \in Records, NEW s \in Sources PROVE To(r, s).work = <<r>> /\ To(r, s).source = s
  BY DEF To
<1>2. NoMapping.source = "none" /\ "none" \notin Sources
  BY DEF NoMapping, Sources
<1>3. \A r \in Records : <<r>> # Foreign
  BY DEF Foreign
<1> QED BY <1>1, <1>2, <1>3

LEMMA ManualWorksStep ==
    ASSUME Kept, ManualWorks, [Next]_vars
    PROVE  ManualWorks'
<1>a. TypeOK /\ OwnNames(works) /\ Associating /\ Control /\ Data /\ "manual" \in Sources
  BY TypeParts DEF Kept, Sources
<1>1. ASSUME \A f \in Files, r \in Records : mapping'[f] = To(r, "manual") =>
                   mapping[f] = To(r, "manual") \/ works'[r].source # "relation",
             \A r \in Records : works'[r].source = "relation" => works[r].source \notin {"manual", "matched"},
             \A r \in Records : (\E f \in Files : mapping[f] = To(r, "manual")) =>
                   works[r].source \in {"manual", "matched"}
      PROVE  ManualWorks'
  BY <1>1 DEF ManualWorks
<1>2. \A r \in Records : (\E f \in Files : mapping[f] = To(r, "manual")) =>
                   works[r].source \in {"manual", "matched"}
  <2> SUFFICES ASSUME NEW r \in Records, NEW f \in Files, mapping[f] = To(r, "manual")
               PROVE  works[r].source \in {"manual", "matched"}
    OBVIOUS
  <2>1. r \in Present
    <3>1. mapping[f] \in Mappings(Present) /\ mapping[f].work = <<r>> /\ Present \subseteq Records
      BY <1>a DEF Data, To, Present
    <3> QED BY <1>a, <3>1, MappingFacts
  <2>2. works[r] \in Work
    BY <1>a, <2>1 DEF Data, Works, Present
  <2> QED BY <2>2, WorkFacts DEF ManualWorks
<1>3. CASE UNCHANGED <<works, mapping>>
  BY <1>3 DEF ManualWorks
<1>4. CASE EditSidecar \/ Expire \/ BeginScan \/ Verify \/ EndVerify \/ EndAssociate
           \/ SkipModel \/ Crash \/ UNCHANGED vars
  BY <1>3, <1>4
     DEF EditSidecar, Expire, BeginScan, Verify, EndVerify, EndAssociate,
         SkipModel,
     Crash, vars, collection
<1>5. ASSUME \A f \in Files : \/ mapping'[f] = mapping[f] \/ mapping'[f] = NoMapping
                              \/ \E r \in Records, t \in {"deterministic", "model"} : mapping'[f] = To(r, t)
                              \/ \E t \in Sources : mapping'[f] = [work |-> Foreign, source |-> t]
      PROVE  \A f \in Files, r \in Records : mapping'[f] = To(r, "manual") =>
                   mapping[f] = To(r, "manual") \/ works'[r].source # "relation"
  BY <1>5, ToFacts DEF Sources
<1>6. CASE MoveIn
  <2>1. \A f \in Files : \/ mapping'[f] = mapping[f]
                          \/ \E t \in Sources : mapping'[f] = [work |-> Foreign, source |-> t]
    BY <1>6, <1>a DEF MoveIn, Data
  <2>2. UNCHANGED works
    BY <1>6 DEF MoveIn
  <2> QED BY <1>1, <1>2, <1>5, <2>1, <2>2
<1>7. CASE Enrich
  <2>1. CASE UNCHANGED <<records, collection>>
    BY <1>3, <2>1 DEF collection
  <2>2. ASSUME NEW r \in Selected, UniqueNames(Enriched(r)), works' = Enriched(r),
               mapping' = Cascade(mapping, works')
        PROVE  ManualWorks'
    <3>1. \A s \in Records : works'[s].source = "relation" => works[s].source = "relation"
      BY <1>a, <2>2, EnrichedFacts
    <3>2. \A f \in Files : mapping'[f] = mapping[f] \/ mapping'[f] = NoMapping
      BY <1>a, <2>2, CascadeOrGone
    <3> QED BY <1>1, <1>2, <1>5, <3>1, <3>2
  <2> QED BY <1>7, <2>1, <2>2 DEF Enrich
<1>8. CASE Associate
  <2>1. CASE UNCHANGED works
    BY <1>3, <1>8, <2>1 DEF Associate
  <2>2. CASE /\ Head(todo) \in cached /\ UniqueNames(Associated(Head(todo)))
             /\ works' = Associated(Head(todo))
    <3>1. Head(todo) \in Records /\ UNCHANGED mapping
      BY <1>8, <1>a, <2>2 DEF Data, Associate
    <3>2. /\ works'[Head(todo)].source = "manual"
          /\ \A s \in Records \ {Head(todo)} : works'[s].source = works[s].source
      BY <1>a, <2>2, <3>1, AssociatedFacts
    <3> QED BY <3>1, <3>2 DEF ManualWorks
  <2> QED BY <1>8, <2>1, <2>2 DEF Associate
<1>9. CASE MapFiles
  <2>1. ASSUME NEW f \in Files, NEW r \in Records, mapping'[f] = To(r, "manual")
        PROVE  works'[r].source # "relation"
    <3>1. PICK n \in 0..NFiles :
              /\ FileLoop(n, "map", "cleanMappings")
              /\ mapping' = [g \in Files |-> IF g <= n /\ Owned(g)
                                             THEN To(CHOOSE s \in rules.wants[g] : TRUE, "manual")
                                             ELSE mapping[g]]
      BY <1>9 DEF MapFiles
    <3>2. UNCHANGED works /\ pc = "map"
      BY <1>9, <3>1 DEF MapFiles, FileLoop, Stage
    <3>3. CASE f <= n /\ Owned(f)
      <4>1. PICK s \in Present : /\ works[s].source = "manual"
                                 /\ (CHOOSE t \in rules.wants[f] : TRUE) = s
        BY <1>a, <3>2, <3>3, OwnedFacts
      <4>2. mapping'[f] = To(s, "manual") /\ s \in Records
        BY <3>1, <3>3, <4>1 DEF Present
      <4>3. s = r
        BY <1>a, <2>1, <4>2, ToFacts
      <4> QED BY <3>2, <4>1, <4>3
    <3>4. CASE ~(f <= n /\ Owned(f))
      BY <2>1, <3>1, <3>2, <3>4 DEF ManualWorks
    <3> QED BY <3>3, <3>4
  <2> QED BY <2>1 DEF ManualWorks
<1>10. CASE CleanMappings \/ InvalidateModel \/ CleanDetermined
  <2>1. UNCHANGED works
    BY <1>10 DEF CleanMappings, InvalidateModel, CleanDetermined
  <2>2. \A f \in Files : mapping'[f] = mapping[f] \/ mapping'[f] = NoMapping
    BY <1>10 DEF CleanMappings, InvalidateModel, CleanDetermined, WithoutStale
  <2> QED BY <1>1, <1>2, <1>5, <2>1, <2>2
<1>11. CASE CleanWorks
  <2>1. \A f \in Files : mapping'[f] = mapping[f] \/ mapping'[f] = NoMapping
    BY <1>11, <1>a, CascadeOrGone DEF CleanWorks
  <2>2. \A r \in Records : works'[r] = works[r] \/ works'[r] = NoWork
    BY <1>11 DEF CleanWorks, Without
  <2> QED BY <1>1, <1>2, <1>5, <2>1, <2>2, WorkFacts
<1>12. ASSUME NEW found \in SUBSET Relatives, works' = Related(found),
              mapping' = Cascade(mapping, works') \/ UNCHANGED mapping
       PROVE  ManualWorks'
  <2>1. \A f \in Files : mapping'[f] = mapping[f] \/ mapping'[f] = NoMapping
    BY <1>12, <1>a, CascadeOrGone
  <2>2. \A r \in Records : works[r].source \in {"manual", "matched"} => works'[r] = works[r]
    BY <1>12, <1>a, RelatedFacts
  <2>3. \A r \in Records : works'[r].source = "relation" => works[r].source \notin {"manual", "matched"}
    BY <2>2
  <2> QED BY <1>1, <1>2, <1>5, <2>1, <2>3
<1>13. CASE Relate \/ RefreshCandidates
  <2>1. CASE UNCHANGED <<records, collection, faults>>
    BY <1>3, <2>1 DEF collection
  <2> QED BY <1>12, <1>13, <2>1 DEF Relate, RefreshCandidates, Discover
<1>14. CASE BreakRelate
  <2>1. PICK found \in (SUBSET Relatives) \ {Relatives} : works' = Related(found)
    BY <1>14 DEF BreakRelate
  <2> QED BY <1>12, <1>14, <2>1 DEF BreakRelate
<1>15. ASSUME NEW n
       PROVE  \A f \in Files : \/ Determined(n)[f] = mapping[f]
                               \/ \E r \in Records : Determined(n)[f] = To(r, "deterministic")
  <2>1. Present \subseteq Records
    BY DEF Present
  <2> QED BY <2>1, DecisionFacts DEF Determined
<1>16. CASE Determine \/ Recompute
  <2>1. UNCHANGED works
    BY <1>16 DEF Determine, Recompute
  <2>2. \A f \in Files : \/ mapping'[f] = mapping[f] \/ mapping'[f] = NoMapping
                          \/ \E r \in Records : mapping'[f] = To(r, "deterministic")
    <3>1. CASE \E n : mapping' = Determined(n)
      BY <1>15, <3>1
    <3>2. CASE mapping' = WithoutStale(Determined(NFiles))
      <4>1. \A f \in Files : WithoutStale(Determined(NFiles))[f] \in {Determined(NFiles)[f], NoMapping}
        BY DEF WithoutStale
      <4> QED BY <1>15, <3>2, <4>1
    <3> QED BY <1>16, <3>1, <3>2 DEF Determine, Recompute
  <2> QED BY <1>1, <1>2, <1>5, <2>1, <2>2
<1>17. CASE AskModel
  <2>1. PICK n \in 0..NFiles, answer \in [Files -> Present \cup {NoRecord}] :
            mapping' = [f \in Files |->
                         IF f > n \/ mapping[f].source \notin {"none", "model"} THEN mapping[f]
                         ELSE IF answer[f] = NoRecord THEN NoMapping
                         ELSE To(answer[f], "model")]
    BY <1>17 DEF AskModel
  <2>2. UNCHANGED works /\ Present \subseteq Records
    BY <1>17 DEF AskModel, Present
  <2>3. \A f \in Files : \/ mapping'[f] = mapping[f] \/ mapping'[f] = NoMapping
                          \/ \E r \in Records : mapping'[f] = To(r, "model")
    BY <2>1, <2>2
  <2> QED BY <1>1, <1>2, <1>5, <2>2, <2>3
<1> QED BY <1>4, <1>6, <1>7, <1>8, <1>9, <1>10, <1>11, <1>13, <1>14, <1>16, <1>17
        DEF Next, Scan, Command

-----------------------------------------------------------------------------
(* What has been applied of the sidecar, and decided beside it.            *)

\* The stages after MapFiles, except the cleaning ones, leave manual mappings
\* alone and make none.
KeepsManual == \A f \in Files : \/ mapping'[f] = mapping[f]
                                \/ mapping[f].source # "manual" /\ mapping'[f].source # "manual"

LEMMA KeepingStages ==
    ASSUME Determine \/ CleanDetermined \/ AskModel
    PROVE  KeepsManual
<1>1. \A r : To(r, "deterministic").source = "deterministic" /\ To(r, "model").source = "model"
  BY DEF To
<1>2. NoMapping.source = "none"
  BY DEF NoMapping
<1>3. CASE Determine
  <2>1. PICK n \in 0..NFiles : mapping' = Determined(n)
    BY <1>3 DEF Determine
  <2> QED BY <1>1, <2>1 DEF Determined, KeepsManual
<1>4. CASE CleanDetermined
  BY <1>2, <1>4 DEF CleanDetermined, WithoutStale, KeepsManual
<1>5. CASE AskModel
  <2>1. PICK n \in 0..NFiles, answer \in [Files -> Present \cup {NoRecord}] :
            mapping' = [f \in Files |->
                         IF f > n \/ mapping[f].source \notin {"none", "model"} THEN mapping[f]
                         ELSE IF answer[f] = NoRecord THEN NoMapping
                         ELSE To(answer[f], "model")]
    BY <1>5 DEF AskModel
  <2> QED BY <1>1, <1>2, <2>1 DEF KeepsManual
<1> QED BY <1>3, <1>4, <1>5

\* The works of manual mappings survive a discovery, those of the sidecar's ids
\* its cleaning, too.
LEMMA DiscoveryKeepsManual ==
    ASSUME Kept, ManualWorks, Discover, NEW f \in Files, mapping[f].source = "manual"
    PROVE  mapping'[f] = mapping[f]
<1>a. TypeOK /\ OwnNames(works) /\ Data /\ "manual" \in Sources /\ Present \subseteq Records
  BY TypeParts DEF Kept, Sources, Present
<1>1. CASE UNCHANGED <<records, collection, faults>>
  BY <1>1 DEF collection
<1>2. ASSUME NEW found \in SUBSET Relatives, works' = Related(found),
             mapping' = Cascade(mapping, works')
      PROVE  mapping'[f] = mapping[f]
  <2>1. ASSUME NEW r \in Records, mapping[f].work = <<r>> PROVE works'[r] # NoWork
    <3>1. mapping[f] = To(r, "manual") /\ r \in Present
      BY <1>a, <2>1, MappingFacts DEF Data
    <3>2. works[r].source # "relation" /\ works[r] \in Work
      BY <1>a, <3>1 DEF ManualWorks, Data, Works, Present
    <3>3. works'[r] = works[r]
      BY <1>2, <1>a, <3>2, RelatedFacts, WorkFacts
    <3> QED BY <3>2, <3>3, WorkFacts
  <2> QED BY <1>2, <2>1 DEF Cascade
<1> QED BY <1>1, <1>2 DEF Discover

LEMMA CleaningKeepsIds ==
    ASSUME Kept, CleanWorks, NEW f \in Files, NEW r \in Range(rules.ids) \cap cached,
           mapping[f].work = <<r>>
    PROVE  mapping'[f] = mapping[f]
<1>a. Associating /\ Data /\ pc = "cleanWorks"
  BY TypeParts DEF Kept, CleanWorks, Stage
<1>1. r \in Records /\ works[r].source = "manual"
  BY <1>a DEF Associating, Data
<1>2. works'[r] = works[r]
  BY <1>1 DEF CleanWorks, Without
<1>3. works'[r] # NoWork
  BY <1>1, <1>2, WorkFacts
<1> QED BY <1>a, <1>1, <1>3, CascadeKeeps DEF CleanWorks

LEMMA AppliedStep ==
    ASSUME Kept, ManualWorks, Applied, [Next]_vars
    PROVE  Applied'
<1>a. Control /\ Data /\ Verifying /\ Associating
  BY TypeParts DEF Kept
<1>b. ASSUME NEW f \in Files PROVE rules.wants[f] \subseteq Range(rules.ids)
  BY <1>a, SidecarFacts DEF Control
<1>1. CASE pc' \notin Mapped
  BY <1>1 DEF Applied
<1>2. CASE UNCHANGED <<pc, pending, conflict, rules, mapping>>
  BY <1>2 DEF Applied
<1>3. CASE MapFiles /\ pc' \in Mapped
  <2>1. PICK n \in 0..NFiles :
            /\ FileLoop(n, "map", "cleanMappings")
            /\ mapping' = [f \in Files |-> IF f <= n /\ Owned(f)
                                           THEN To(CHOOSE r \in rules.wants[f] : TRUE, "manual")
                                           ELSE mapping[f]]
    BY <1>3 DEF MapFiles
  <2>2. n = NFiles /\ pc = "map" /\ pc' = "cleanMappings"
    BY <1>3, <2>1 DEF FileLoop, Stage, Mapped
  <2>3. ASSUME ~pending, ~conflict, NEW f \in Files, rules.wants[f] # {}
        PROVE  mapping'[f].source = "manual" /\ {mapping'[f].work} = {<<r>> : r \in rules.wants[f]}
    <3>1. Single(rules.wants[f])
      BY <1>a, <2>2, <2>3 DEF Associating, Ambiguous
    <3>2. Range(rules.ids) \subseteq cached
      BY <1>a, <2>2, <2>3 DEF Verifying
    <3>3. Owned(f) /\ f <= n
      BY <1>b, <2>2, <3>1, <3>2, MatchAssumption DEF Owned, Files
    <3>4. PICK r \in Present : rules.wants[f] = {r} /\ (CHOOSE s \in rules.wants[f] : TRUE) = r
      BY <1>a, <2>2, <3>3, OwnedFacts
    <3>5. mapping'[f] = To(r, "manual")
      BY <2>1, <3>3, <3>4
    <3> QED BY <3>4, <3>5 DEF To
  <2> QED BY <1>3, <2>2, <2>3 DEF Applied, MapFiles
<1>4. CASE CleanMappings
  <2>1. /\ pc = "cleanMappings" /\ pc' = "cleanWorks" /\ UNCHANGED <<pending, conflict, rules>>
        /\ NoMapping.source = "none"
    BY <1>4, ToFacts DEF CleanMappings, Stage
  <2>2. ASSUME ~pending, ~conflict, NEW f \in Files
        PROVE  /\ rules.wants[f] # {} => mapping'[f] = mapping[f]
               /\ mapping'[f].source = "manual" => rules.wants[f] # {}
    <3>1. rules.wants[f] # {} <=> Owned(f)
      <4>1. Range(rules.ids) \subseteq cached
        BY <1>a, <2>1, <2>2 DEF Verifying
      <4>2. rules.wants[f] # {} => Single(rules.wants[f])
        BY <1>a, <2>1, <2>2 DEF Associating, Ambiguous
      <4> QED BY <1>b, <4>1, <4>2 DEF Owned, Single
    <3> QED BY <1>4, <2>1, <2>2, <3>1 DEF CleanMappings
  <2> QED BY <2>1, <2>2 DEF Applied, Mapped
<1>5. ASSUME pc \in Mapped \ {"cleanMappings"}, UNCHANGED <<pending, conflict, rules>>,
             \A f \in Files : /\ mapping'[f].source = "manual" => mapping[f].source = "manual"
                              /\ mapping[f].source = "manual" /\ ~pending /\ ~conflict =>
                                     mapping'[f] = mapping[f]
      PROVE  Applied'
  BY <1>5 DEF Applied
<1>6. CASE CleanWorks
  <2>1. /\ pc = "cleanWorks" /\ UNCHANGED <<pending, conflict, rules>>
        /\ NoMapping.source = "none" /\ pc \in Mapped \ {"cleanMappings"}
    BY <1>6, ToFacts DEF CleanWorks, Stage, Mapped
  <2>2. ASSUME NEW f \in Files, mapping[f].source = "manual", ~pending, ~conflict
        PROVE  mapping'[f] = mapping[f]
    <3>1. rules.wants[f] # {} /\ {mapping[f].work} = {<<r>> : r \in rules.wants[f]}
      BY <2>1, <2>2 DEF Applied, Mapped
    <3>2. PICK r \in rules.wants[f] : mapping[f].work = <<r>>
      BY <3>1
    <3>3. r \in Range(rules.ids) \cap cached
      BY <1>a, <1>b, <2>1, <2>2, <3>2 DEF Verifying
    <3> QED BY <1>6, <3>2, <3>3, CleaningKeepsIds
  <2>3. ASSUME NEW f \in Files, mapping'[f].source = "manual" PROVE mapping[f].source = "manual"
    BY <1>6, <1>a, <2>1, <2>3, CascadeOrGone DEF CleanWorks
  <2> QED BY <1>5, <2>1, <2>2, <2>3
<1>7. CASE Relate
  <2>1. /\ pc = "relate" /\ UNCHANGED <<pending, conflict, rules>> /\ Discover
        /\ NoMapping.source = "none" /\ pc \in Mapped \ {"cleanMappings"}
    BY <1>7, ToFacts DEF Relate, Stage, Mapped
  <2>2. ASSUME NEW f \in Files, mapping'[f].source = "manual" PROVE mapping[f].source = "manual"
    BY <1>a, <2>1, <2>2, CascadeOrGone DEF Discover, collection
  <2> QED BY <1>5, <2>1, <2>2, DiscoveryKeepsManual
<1>8. CASE Determine \/ CleanDetermined \/ AskModel
  <2>1. /\ pc \in Mapped \ {"cleanMappings"} /\ UNCHANGED <<pending, conflict, rules>>
    BY <1>8 DEF Determine, CleanDetermined, AskModel, FileLoop, Stage, Mapped
  <2> QED BY <1>5, <1>8, <2>1, KeepingStages DEF KeepsManual
<1>9. CASE EditSidecar
  BY <1>2, <1>9 DEF EditSidecar, scan, collection
<1>10. CASE Expire \/ MoveIn \/ Command
  BY <1>1, <1>10
     DEF Expire, MoveIn, Command, RefreshCandidates, InvalidateModel,
         Recompute, scan, Mapped
<1>11. CASE BeginScan \/ Enrich \/ Verify \/ EndVerify \/ Associate \/ EndAssociate
            \/ BreakRelate \/ SkipModel \/ Crash
  BY <1>1, <1>11
     DEF BeginScan, Enrich, Verify, EndVerify, Associate, EndAssociate,
         BreakRelate,
     SkipModel, Crash, Stage, Mapped
<1>12. CASE UNCHANGED vars
  BY <1>2, <1>12 DEF vars, scan, collection
<1>13. CASE MapFiles /\ pc' \notin Mapped
  BY <1>1, <1>13
<1> QED BY <1>3, <1>4, <1>6, <1>7, <1>8, <1>9, <1>10, <1>11, <1>12, <1>13
           DEF Next, Scan

LEMMA SameDecisions ==
    ASSUME UNCHANGED works, NEW f \in Files
    PROVE  Decision(f)' = Decision(f)
BY DEF Decision, Present, Single

LEMMA DecidedStep ==
    ASSUME Kept, Decided, [Next]_vars
    PROVE  Decided'
<1>1. CASE pc' \notin {"cleanDetermined", "model"}
  BY <1>1 DEF Decided
<1>2. CASE UNCHANGED <<pc, works, mapping>>
  BY <1>2, SameDecisions DEF Decided
<1>3. CASE Determine /\ pc' = "cleanDetermined"
  <2>1. PICK n \in 0..NFiles : FileLoop(n, "determine", "cleanDetermined") /\ mapping' = Determined(n)
    BY <1>3 DEF Determine
  <2>2. n = NFiles /\ UNCHANGED works
    BY <1>3, <2>1 DEF FileLoop, Stage, Determine
  <2>3. ASSUME NEW f \in Files, mapping'[f].source # "manual", Decision(f) # {}
        PROVE  /\ mapping'[f].source = "deterministic"
               /\ {mapping'[f].work} = {<<r>> : r \in Decision(f)}
    <3>1. f <= n
      BY <2>2, MatchAssumption DEF Files
    <3>2. mapping'[f] = To(CHOOSE r \in Decision(f) : TRUE, "deterministic")
      BY <2>1, <2>3, <3>1 DEF Determined
    <3>3. Decision(f) = {CHOOSE r \in Decision(f) : TRUE}
      BY <2>3, DecisionFacts
    <3> QED BY <3>2, <3>3 DEF To
  <2> QED BY <1>3, <2>2, <2>3, SameDecisions DEF Decided
<1>4. CASE CleanDetermined
  <2>1. /\ pc = "cleanDetermined" /\ UNCHANGED works /\ NoMapping.source = "none"
        /\ mapping' = WithoutStale(mapping)
    BY <1>4, ToFacts DEF CleanDetermined, Stage
  <2>2. ASSUME NEW f \in Files, mapping'[f].source # "manual"
        PROVE  /\ Decision(f) # {} => /\ mapping'[f].source = "deterministic"
                                      /\ {mapping'[f].work} = {<<r>> : r \in Decision(f)}
               /\ Decision(f) = {} => mapping'[f].source # "deterministic"
    <3>1. mapping[f].source # "manual"
      BY <2>1, <2>2 DEF WithoutStale
    <3>2. CASE Decision(f) # {}
      BY <2>1, <3>1, <3>2 DEF WithoutStale, Decided
    <3>3. CASE Decision(f) = {}
      BY <2>1, <3>3 DEF WithoutStale
    <3> QED BY <3>2, <3>3
  <2> QED BY <2>1, <2>2, SameDecisions DEF Decided
<1>5. CASE EditSidecar
  BY <1>2, <1>5 DEF EditSidecar, scan, collection
<1>6. CASE Expire \/ MoveIn \/ Command
  BY <1>1, <1>6
     DEF Expire, MoveIn, Command, RefreshCandidates, InvalidateModel,
         Recompute, scan
<1>7. CASE BeginScan \/ Enrich \/ Verify \/ EndVerify \/ Associate \/ EndAssociate \/ MapFiles
           \/ CleanMappings \/ CleanWorks \/ Relate \/ BreakRelate \/ SkipModel \/ Crash \/ AskModel
  BY <1>1, <1>7
     DEF BeginScan, Enrich, Verify, EndVerify, Associate, EndAssociate,
         MapFiles,
     CleanMappings, CleanWorks, Relate, BreakRelate, SkipModel, Crash, AskModel, FileLoop, Stage
<1>8. CASE UNCHANGED vars
  BY <1>2, <1>8 DEF vars, scan, collection
<1>9. CASE Determine /\ pc' # "cleanDetermined"
  BY <1>1, <1>9 DEF Determine, FileLoop, Stage
<1> QED BY <1>3, <1>4, <1>5, <1>6, <1>7, <1>8, <1>9 DEF Next, Scan

LEMMA CalmStep ==
    ASSUME Kept, Calm, [Next]_vars
    PROVE  Calm'
<1>a. Verifying /\ Control
  BY TypeParts DEF Kept
<1>1. CASE ~settled'
  BY <1>1 DEF Calm
<1>2. CASE UNCHANGED <<sidecar, settled>> /\ pc' = "idle"
  BY <1>2 DEF Calm
<1>3. CASE UNCHANGED <<sidecar, settled, rules>> /\ pc # "idle" /\ pc' # "model"
  BY <1>3 DEF Calm
<1>4. CASE UNCHANGED <<sidecar, settled, rules, pc, pending, conflict>>
  BY <1>4 DEF Calm
<1>5. CASE BeginScan
  BY <1>5 DEF BeginScan, Stage, Calm
<1>6. CASE CleanDetermined
  <2>1. rules.valid
    BY <1>6, <1>a DEF Verifying, CleanDetermined, Stage
  <2> QED BY <1>6, <2>1 DEF CleanDetermined, Calm
<1>7. CASE EditSidecar \/ Expire \/ MoveIn \/ BreakRelate \/ Crash \/ RefreshCandidates
  BY <1>1, <1>7
     DEF EditSidecar, Expire, MoveIn, Change, BreakRelate, Crash,
         RefreshCandidates
<1>8. CASE Enrich \/ Verify \/ EndVerify \/ EndAssociate \/ CleanMappings \/ CleanWorks \/ Relate
  BY <1>3, <1>8
     DEF Enrich, Verify, EndVerify, EndAssociate, CleanMappings, CleanWorks,
         Relate, Stage
<1>9. CASE Associate
  BY <1>1, <1>3, <1>9 DEF Associate
<1>10. CASE MapFiles \/ Determine \/ AskModel
  BY <1>1, <1>2, <1>3, <1>10 DEF MapFiles, Determine, AskModel, FileLoop, Stage
<1>11. CASE SkipModel
  BY <1>2, <1>11 DEF SkipModel, Stage
<1>12. CASE InvalidateModel \/ Recompute \/ UNCHANGED vars
  BY <1>4, <1>12 DEF InvalidateModel, Recompute, vars, scan
<1> QED BY <1>5, <1>6, <1>7, <1>8, <1>9, <1>10, <1>11, <1>12
           DEF Next, Scan, Command

\* What both properties say of the mappings, scans at rest or not.
RuledBySidecar ==
    \A f \in Files : IF sidecar.wants[f] # {}
                    THEN mapping[f].source = "manual" /\ {mapping[f].work} = {<<r>> : r \in sidecar.wants[f]}
                    ELSE mapping[f].source # "manual"

RuledByCounts ==
    \A f \in Files : mapping[f].source # "manual" =>
        IF Decision(f) # {}
        THEN mapping[f].source = "deterministic" /\ {mapping[f].work} = {<<r>> : r \in Decision(f)}
        ELSE mapping[f].source \in {"none", "model"}

\* A step that only decides again what is decided, or is the model's.
LEMMA RulesKept ==
    ASSUME RuledBySidecar, RuledByCounts, UNCHANGED <<sidecar, works>>,
           \A f \in Files :
              \/ mapping'[f] = mapping[f]
              \/ mapping[f].source \in {"none", "model"} /\ mapping'[f].source \in {"none", "model"}
              \/ /\ mapping[f].source # "manual" /\ Decision(f) # {}
                 /\ mapping'[f] = To(CHOOSE r \in Decision(f) : TRUE, "deterministic")
    PROVE  RuledBySidecar' /\ RuledByCounts'
<1>0. \A r : To(r, "deterministic").source = "deterministic"
  BY DEF To
<1>1. \A f \in Files : mapping'[f].source = "manual" <=> mapping[f].source = "manual"
  BY <1>0
<1>2. RuledBySidecar'
  BY <1>1 DEF RuledBySidecar
<1>3. ASSUME NEW f \in Files, mapping'[f].source # "manual"
      PROVE  IF Decision(f) # {}
             THEN mapping'[f].source = "deterministic" /\ {mapping'[f].work} = {<<r>> : r \in Decision(f)}
             ELSE mapping'[f].source \in {"none", "model"}
  <2>1. CASE mapping'[f] = mapping[f]
    BY <1>3, <2>1 DEF RuledByCounts
  <2>2. CASE mapping[f].source \in {"none", "model"} /\ mapping'[f].source \in {"none", "model"}
    BY <2>2 DEF RuledByCounts
  <2>3. CASE /\ mapping[f].source # "manual" /\ Decision(f) # {}
             /\ mapping'[f] = To(CHOOSE r \in Decision(f) : TRUE, "deterministic")
    <3>1. Decision(f) = {CHOOSE r \in Decision(f) : TRUE}
      BY <2>3, DecisionFacts
    <3> QED BY <2>3, <3>1 DEF To
  <2> QED BY <2>1, <2>2, <2>3
<1>4. RuledByCounts'
  BY <1>3, SameDecisions DEF RuledByCounts
<1> QED BY <1>2, <1>4

LEMMA RestStep ==
    ASSUME WInv, [Next]_vars
    PROVE  (OwnerDecides /\ EvidenceBeatsModel)'
<1>a. Kept /\ Data /\ Control /\ Applied /\ Decided /\ Calm
  BY TypeParts DEF WInv, Kept
<1>b. NoMapping.source = "none" /\ \A r : To(r, "model").source = "model"
  BY DEF NoMapping, To
<1>1. CASE ~AtRest'
  BY <1>1 DEF OwnerDecides, EvidenceBeatsModel
<1>2. CASE RuledBySidecar' /\ RuledByCounts'
  BY <1>2 DEF OwnerDecides, EvidenceBeatsModel, RuledBySidecar, RuledByCounts
<1>3. ASSUME AtRest PROVE RuledBySidecar /\ RuledByCounts
  BY <1>3
     DEF WInv, OwnerDecides, EvidenceBeatsModel, RuledBySidecar, RuledByCounts
<1>4. ASSUME settled, pc = "model" PROVE RuledBySidecar /\ RuledByCounts
  <2>1. rules = sidecar /\ ~pending /\ ~conflict
    BY <1>4, <1>a DEF Calm
  <2>2. RuledBySidecar
    BY <1>4, <1>a, <2>1 DEF Applied, Mapped, RuledBySidecar
  <2>3. \A f \in Files : mapping[f].source \in Sources \cup {"none"}
    <3>1. Present \subseteq Records
      BY DEF Present
    <3> QED BY <1>a, <3>1, MappingFacts DEF Data
  <2>4. RuledByCounts
    BY <1>4, <1>a, <2>3 DEF Decided, RuledByCounts, Sources
  <2> QED BY <2>2, <2>4
<1>5. CASE AskModel
  <2>1. CASE settled' /\ pc' = "idle"
    <3>1. PICK n \in 0..NFiles, answer \in [Files -> Present \cup {NoRecord}] :
              mapping' = [f \in Files |->
                           IF f > n \/ mapping[f].source \notin {"none", "model"} THEN mapping[f]
                           ELSE IF answer[f] = NoRecord THEN NoMapping
                           ELSE To(answer[f], "model")]
      BY <1>5 DEF AskModel
    <3>2. settled /\ pc = "model" /\ UNCHANGED <<sidecar, works>>
      BY <1>5, <2>1 DEF AskModel, FileLoop
    <3>3. \A f \in Files :
             \/ mapping'[f] = mapping[f]
             \/ mapping[f].source \in {"none", "model"} /\ mapping'[f].source \in {"none", "model"}
      BY <1>b, <3>1
    <3> QED BY <1>2, <1>4, <3>2, <3>3, RulesKept
  <2> QED BY <1>1, <2>1 DEF AtRest
<1>6. CASE SkipModel
  <2>1. CASE settled
    BY <1>2, <1>4, <1>6, <2>1, RulesKept DEF SkipModel, Stage, collection
  <2> QED BY <1>1, <1>6, <2>1 DEF AtRest, SkipModel
<1>7. CASE InvalidateModel \/ UNCHANGED vars
  <2>1. \A f \in Files :
           \/ mapping'[f] = mapping[f]
           \/ mapping[f].source \in {"none", "model"} /\ mapping'[f].source \in {"none", "model"}
    BY <1>7, <1>b DEF InvalidateModel, vars, collection
  <2>2. UNCHANGED <<sidecar, works, pc, settled>>
    BY <1>7 DEF InvalidateModel, vars, collection, scan
  <2> QED BY <1>1, <1>2, <1>3, <2>1, <2>2, RulesKept DEF AtRest
<1>8. CASE Recompute
  <2>1. UNCHANGED <<sidecar, works, pc, settled>>
    BY <1>8 DEF Recompute, scan
  <2>2. CASE AtRest
    <3>1. RuledBySidecar /\ RuledByCounts
      BY <1>3, <2>2
    <3>2. ASSUME NEW n, NEW f \in Files
          PROVE  \/ Determined(n)[f] = mapping[f]
                 \/ /\ mapping[f].source # "manual" /\ Decision(f) # {}
                    /\ Determined(n)[f] = To(CHOOSE r \in Decision(f) : TRUE, "deterministic")
      BY DEF Determined
    <3>3. ASSUME NEW n, NEW f \in Files
          PROVE  WithoutStale(Determined(n))[f] = Determined(n)[f]
      <4>1. CASE Determined(n)[f].source = "deterministic"
        <5>1. Decision(f) # {}
          BY <3>1, <3>2, <4>1 DEF RuledByCounts
        <5> QED BY <5>1 DEF WithoutStale
      <4>2. CASE Determined(n)[f].source # "deterministic"
        BY <4>2 DEF WithoutStale
      <4> QED BY <4>1, <4>2
    <3>4. \A f \in Files : \/ mapping'[f] = mapping[f]
                            \/ /\ mapping[f].source # "manual" /\ Decision(f) # {}
                               /\ mapping'[f] = To(CHOOSE r \in Decision(f) : TRUE, "deterministic")
      BY <1>8, <3>2, <3>3 DEF Recompute
    <3> QED BY <1>2, <2>1, <3>1, <3>4, RulesKept
  <2> QED BY <1>1, <2>1, <2>2 DEF AtRest
<1>9. CASE Enrich
  <2>1. pc' = "idle" => ~settled'
    BY <1>9, <1>a DEF Enrich, Stage, Calm
  <2> QED BY <1>1, <2>1 DEF AtRest
<1>10. CASE EditSidecar \/ Expire \/ MoveIn \/ BreakRelate \/ Crash \/ RefreshCandidates
  BY <1>1, <1>10
     DEF EditSidecar, Expire, MoveIn, Change, BreakRelate, Crash,
         RefreshCandidates, AtRest
<1>11. CASE BeginScan \/ Verify \/ EndVerify \/ Associate \/ EndAssociate \/ CleanMappings
            \/ CleanWorks \/ Relate \/ CleanDetermined
  BY <1>1, <1>11
     DEF BeginScan, Verify, EndVerify, Associate, EndAssociate, CleanMappings,
     CleanWorks, Relate, CleanDetermined, Stage, AtRest
<1>12. CASE MapFiles \/ Determine
  BY <1>1, <1>12 DEF MapFiles, Determine, FileLoop, Stage, AtRest
<1> QED BY <1>5, <1>6, <1>7, <1>8, <1>9, <1>10, <1>11, <1>12
           DEF Next, Scan, Command

LEMMA WInvInit == ASSUME Init PROVE WInv
<1>1. Works(works) /\ Present = {}
  BY WorkFacts DEF Init, Works, UniqueNames, OwnNames, Present
<1>2. Data
  BY <1>1, MappingFacts DEF Init, Data
<1>3. pending \in BOOLEAN /\ conflict \in BOOLEAN /\ settled \in BOOLEAN
  BY Zenon DEF Init
<1>4. Control
  BY <1>3, EmptySeq, BoundsAssumption DEF Init, Control, Stages
<1>5. ManualWorks
  BY WorkFacts DEF Init, ManualWorks
<1>6. Verifying /\ Associating /\ Applied /\ Decided /\ Calm
  BY DEF Init, Verifying, Associating, Applied, Mapped, Decided, Calm
<1>7. OwnerDecides /\ EvidenceBeatsModel
  BY DEF Init, OwnerDecides, EvidenceBeatsModel, AtRest
<1> QED BY <1>2, <1>4, <1>5, <1>6, <1>7, TypeParts DEF WInv, Kept

-----------------------------------------------------------------------------
(* Theorems.                                                               *)

\* The invariant holds for any records, files, sidecars and faults.
THEOREM Invariant == Spec => []WInv
<1>1. WInv /\ [Next]_vars => WInv'
  BY KeptStep, ManualWorksStep, AppliedStep, DecidedStep, CalmStep, RestStep
     DEF WInv
<1> QED BY WInvInit, <1>1, PTL DEF Spec

\* A collection has one primary work at most, its works have different names
\* and records that were verified, and no mapping is to a work that is gone.
THEOREM TypeCorrect == Spec => []TypeOK
<1>1. WInv => TypeOK
  BY DEF WInv, Kept
<1> QED BY Invariant, <1>1, PTL

\* After a scan that applied the sidecar in full its rules, and nothing else,
\* decide which files are mapped by hand.
THEOREM SidecarRules == Spec => []OwnerDecides
<1>1. WInv => OwnerDecides
  BY DEF WInv
<1> QED BY Invariant, <1>1, PTL

\* Manual beats deterministic beats model, whatever order the stages ran in.
THEOREM SourcesRank == Spec => []EvidenceBeatsModel
<1>1. WInv => EvidenceBeatsModel
  BY DEF WInv
<1> QED BY Invariant, <1>1, PTL

\* While an id is pending or rules conflict, no step of a scan takes a manual
\* mapping away.
THEOREM OutagesAreHarmless == Spec => OutagesKeepMappings
<1> DEFINE Keep == pc # "idle" /\ (pending \/ conflict) =>
                     \A f \in Files : mapping[f].source = "manual" => mapping'[f].source = "manual"
<1>1. ASSUME WInv, [Next]_vars PROVE Keep
  <2>a. Kept /\ ManualWorks /\ Verifying /\ Data
    BY <1>1, TypeParts DEF WInv, Kept
  <2> SUFFICES ASSUME pc # "idle", pending \/ conflict,
                      NEW f \in Files, mapping[f].source = "manual"
               PROVE  mapping'[f].source = "manual"
    OBVIOUS
  <2>1. CASE UNCHANGED mapping
    BY <2>1
  <2>2. CASE MapFiles
    BY <2>2 DEF MapFiles, To
  <2>3. CASE CleanMappings
    BY <2>3, <2>a DEF CleanMappings, Data
  <2>4. CASE CleanWorks
    <3>1. UNCHANGED works /\ mapping' = Cascade(mapping, works')
      BY <2>4 DEF CleanWorks
    <3>2. Present \subseteq Records /\ "manual" \in Sources
      BY DEF Present, Sources
    <3>3. \A r \in Records : mapping[f].work = <<r>> => r \in Present
      <4>1. mapping[f] \in Mappings(Present)
        BY <2>a DEF Data
      <4> QED BY <3>2, <4>1, MappingFacts
    <3>4. \A r \in Records : mapping[f].work = <<r>> => works'[r] # NoWork
      BY <3>1, <3>3 DEF Present
    <3> QED BY <3>1, <3>4 DEF Cascade
  <2>5. CASE Relate
    BY <2>5, <2>a, DiscoveryKeepsManual DEF Relate
  <2>6. CASE Determine \/ CleanDetermined \/ AskModel
    BY <2>6, KeepingStages DEF KeepsManual
  <2>7. CASE Enrich \/ BeginScan \/ Expire \/ MoveIn \/ Command
    BY <2>7, <2>a
       DEF Enrich, BeginScan, Expire, MoveIn, Command, RefreshCandidates,
       InvalidateModel, Recompute, Stage, Verifying
  <2>8. CASE EditSidecar \/ Verify \/ EndVerify \/ Associate \/ EndAssociate \/ BreakRelate
             \/ SkipModel \/ Crash \/ UNCHANGED vars
    BY <2>1, <2>8
       DEF EditSidecar, Verify, EndVerify, Associate, EndAssociate, BreakRelate,
       SkipModel, Crash, vars, collection
  <2> QED BY <1>1, <2>2, <2>3, <2>4, <2>5, <2>6, <2>7, <2>8 DEF Next, Scan
<1> QED BY Invariant, <1>1, PTL DEF Spec, OutagesKeepMappings

==============================================================================
