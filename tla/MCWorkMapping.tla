----------------------------- MODULE MCWorkMapping -----------------------------
(* WorkMapping on a few sidecars.                                          *)
EXTENDS WorkMapping

CONSTANTS a, b, c

Nothing == [valid |-> TRUE, pin |-> NoRecord, ids |-> <<>>,
            name |-> [r \in {a, b, c} |-> NoName], wants |-> [f \in {1, 2} |-> {}]]

\* The match was wrong: it is b.
Pinned == [Nothing EXCEPT !.pin = b, !.ids = <<b>>]

\* Two works, each with a file; and the same with their sections' names swapped.
Split == [Nothing EXCEPT !.pin = a, !.ids = <<a, c>>,
            !.name = [@ EXCEPT ![a] = <<"one">>, ![c] = <<"two">>],
            !.wants = <<{a}, {c}>>]
Swapped == [Split EXCEPT !.name = [@ EXCEPT ![a] = <<"two">>, ![c] = <<"one">>]]

\* The first file belongs to another work, of a collection nobody has pinned.
Moved == [Nothing EXCEPT !.ids = <<c>>, !.wants = <<{c}, {}>>]

\* Both rules match the first file.
TwoRules == [Split EXCEPT !.wants = <<{a, c}, {}>>]

Broken == [Nothing EXCEPT !.valid = FALSE]

SomeSidecars == {Nothing, Pinned, Split, Swapped, Moved, TwoRules, Broken}
Correction == {Nothing, Pinned}

OneRelative == {c}

\* The first file could belong to a or b, the second only to c.
SomeFits == << {a, b}, {c} >>

=============================================================================
