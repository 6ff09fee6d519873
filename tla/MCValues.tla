------------------------------ MODULE MCValues ------------------------------
(* Small instances of GameValues for TLC. *)
EXTENDS GameValues

CONSTANT t1

Half == [num |-> 1, den |-> 2]
Double == [num |-> 2, den |-> 1]

Generous == [enabled |-> TRUE, affinity |-> Double, items |-> Double, chance |-> 50]
Stingy == [enabled |-> TRUE, affinity |-> Half, items |-> Half, chance |-> 0]
Plain == [Generous EXCEPT !.enabled = FALSE]
Settings == {Generous, Stingy, Plain}

\* A loss, a gain that doubled passes the cap, and one beyond the cap that doubled
\* does not fit the register.
Amounts == {-1, 2, 4}
=============================================================================
