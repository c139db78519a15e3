---------------------------- MODULE PublishedSite ----------------------------
(***************************************************************************)
(* What publication promises whoever browses the site (README "Generation  *)
(* happens in a sibling staging directory", ADR 0007): there is nothing,   *)
(* then a complete generation, and from then on only complete generations  *)
(* that are no older than any before.  A failed publication changes        *)
(* nothing; only one that dies or fails twice in the middle of the swap    *)
(* exposes the last good generation, which may then be lost, until the     *)
(* next publication.                                                       *)
(***************************************************************************)
EXTENDS Naturals

VARIABLES
    served,  \* the catalogue version of the last good site, 0 for none
    newest,  \* the newest version ever published
    exposed  \* the last good site is not in place and nobody will put it back

vars == <<served, newest, exposed>>

Init == served = 0 /\ newest = 0 /\ exposed = FALSE

Publish ==
    /\ newest' \in Nat \ {0} /\ newest' >= newest
    /\ served' = newest'
    /\ exposed' = FALSE

Expose ==
    /\ served > 0
    /\ exposed' = TRUE
    /\ UNCHANGED <<served, newest>>

Lose ==
    /\ exposed
    /\ served' = 0
    /\ UNCHANGED <<newest, exposed>>

Next == Publish \/ Expose \/ Lose

Spec == Init /\ [][Next]_vars

=============================================================================
