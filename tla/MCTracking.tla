----------------------------- MODULE MCTracking -----------------------------
(* Small instances of Tracking for TLC. *)
EXTENDS Tracking, TLC

CONSTANTS p, m, d, t1, t2

\* Stores of 16 bytes, as a 64-byte structure copy is compiled ...
WordPairs == {{"id"}, {"root", "health"}, {"stamina", "spirit"}, {"damage"}}

\* ... the damage pointers with the store before them, where only the relock reads ...
StatPairs == {{"id"}, {"root", "health"}, {"stamina", "spirit", "damage"}}

\* ... or every copy is indivisible.
Whole == {Fields}

\* The stat maxima of the player lie in the range of a ground mount's too; its
\* memory may be freed.
Steady == p :> {"ground"} @@ m :> {"ground"}
Leaving == p :> {"ground", "gone"} @@ m :> {"ground"}

\* A ground mount's maxima grow into the proxy range, or its memory is freed, while
\* a dragon is about.
Changing == p :> {"ground"} @@ m :> {"ground", "proxy", "gone"} @@ d :> {"dragon"}

\* The mount of the chain may be freed while a dragon takes its place.
Fading == p :> {"ground"} @@ m :> {"ground", "gone"} @@ d :> {"dragon"}

Symmetric == Permutations({t1, t2})

\* All these stores keep the pointers of a pair together.
ASSUME PairedAssumption == Paired
=============================================================================
