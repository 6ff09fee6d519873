------------------------------ MODULE MCReload ------------------------------
(* Small instances of ConfigReload for TLC. *)
EXTENDS ConfigReload, TLC

CONSTANTS k1, k2

\* The user rebinds a position control and switches the other on or off: between
\* the first two files with the damage toggle never bound, so that what the mod
\* ends with is another file than it began with, and with the third one bound.
Both == [Default EXCEPT !.height = k1, !.horizontal = k2, !.outgoing = TRUE]
Lift == [Default EXCEPT !.height = k2, !.rest = 1]
Glide == [Default EXCEPT !.toggle = k2, !.horizontal = k1]
Saved == {Both, Lift, Glide}

\* The toggle is used while something else is edited.
Toggled == [Default EXCEPT !.toggle = k1]
Lost == {Toggled, [Toggled EXCEPT !.rest = 1]}
=============================================================================
