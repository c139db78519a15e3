--------------------------- MODULE MCCandidateWorks ---------------------------
(* CandidateWorks on small relation graphs.                                *)
EXTENDS CandidateWorks

\* Relation graphs of five records with chains of up to three relations, detours
\* beside them, and cycles.
Layered ==
    LET targets == << {2, 3}, {4, 5}, {2, 4}, {3, 5}, {4} >>
    IN {g \in [1..5 -> SUBSET (2..5)] : \A r \in 1..5 : g[r] \subseteq targets[r]}

\* Each of the two limits is at times the one that bites.
SmallLimits == {<<2, 4>>, <<3, 5>>}

=============================================================================
