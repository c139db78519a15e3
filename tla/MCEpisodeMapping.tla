--------------------------- MODULE MCEpisodeMapping ---------------------------
(* EpisodeMapping on the names that tell its cases apart.                   *)
EXTENDS EpisodeMapping

Name(season, start, end) == [season |-> season, start |-> start, end |-> end, special |-> FALSE]

\* 1, 2, 3, 2-3, S01E01, S02E01, S01E00, no number, an OVA
SomeFacts == << Name(0, 1, 1), Name(0, 2, 2), Name(0, 3, 3), Name(0, 2, 3), Name(1, 1, 1),
                Name(2, 1, 1), Name(1, 0, 0),
                [Name(0, Unknown, Unknown) EXCEPT !.special = TRUE] >>

\* 1 and S01E04 - 2
FewFacts == << Name(0, 1, 1), Name(1, 4, 2) >>

=============================================================================
