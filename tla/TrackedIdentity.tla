-------------------------- MODULE TrackedIdentity --------------------------
(***************************************************************************)
(* What the tracking of RuntimeState promises, without its mutex, snapshot *)
(* fields, time stamps and callbacks: one player, adopted once; a mount    *)
(* that some thread detected while it already knew the player, that is not *)
(* the player, and that is installed at most once per detection; a mount   *)
(* may be forgotten at any time, and nothing but a fresh detection brings  *)
(* it back.                                                                *)
(***************************************************************************)
CONSTANTS Obj, Null, Threads

VARIABLES
    player,   \* the tracked player, or Null
    mount,    \* the tracked mount, or Null
    detected  \* per thread: a mount it detected and has not installed yet

vars == <<player, mount, detected>>

Init ==
    /\ player = Null
    /\ mount = Null
    /\ detected = [t \in Threads |-> Null]

\* The player is adopted before there is any mount, and for good.
Adopt(o) ==
    /\ player = Null /\ mount = Null
    /\ player' = o
    /\ UNCHANGED <<mount, detected>>

Detect(t, o) ==
    /\ player \notin {Null, o}
    /\ detected[t] = Null
    /\ detected' = [detected EXCEPT ![t] = o]
    /\ UNCHANGED <<player, mount>>

Install(t) ==
    /\ detected[t] # Null
    /\ mount' = detected[t]
    /\ detected' = [detected EXCEPT ![t] = Null]
    /\ UNCHANGED player

Forget ==
    /\ mount # Null
    /\ mount' = Null
    /\ UNCHANGED <<player, detected>>

Next ==
    \/ \E o \in Obj : Adopt(o)
    \/ \E t \in Threads, o \in Obj : Detect(t, o)
    \/ \E t \in Threads : Install(t)
    \/ Forget

Spec == Init /\ [][Next]_vars
=============================================================================
