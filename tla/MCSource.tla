------------------------------ MODULE MCSource ------------------------------
(* An instance of DamageSource for TLC. *)
EXTENDS DamageSource, TLC

CONSTANTS p, pm, m, mm, foe, arrow, cp, cm, ca, cf, t1, t2

\* The player and the mount hit by themselves, the mount's rider by an arrow and a
\* foe by itself; the mount's own memory cannot be read.  The foe's context leads
\* back to it, as those of the player and the arrow do.
Sources == cp :> p @@ cm :> m @@ ca :> arrow @@ cf :> foe
Memory == cp :> {p} @@ cm :> {Null} @@ ca :> {arrow} @@ cf :> {foe}
          @@ p :> {pm} @@ arrow :> {mm, Null} @@ foe :> {Null}
Markers == [o \in DOMAIN Memory |-> IF o = p THEN pm ELSE IF o = arrow THEN mm ELSE Null]

Symmetric == Permutations({t1, t2})
=============================================================================
