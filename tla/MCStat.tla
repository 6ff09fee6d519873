------------------------------- MODULE MCStat -------------------------------
(* A small instance of StatChange for TLC. *)
EXTENDS StatChange, TLC

CONSTANTS horse, wind, health, stamina, spirit, foe, t1

\* The mount's health and stamina, the player's stats, and a foe's health.
Owners == [e \in Entries |-> IF e \in {horse, wind} THEN "mount"
                             ELSE IF e = foe THEN "other" ELSE "player"]
Kinds == [e \in Entries |-> IF e \in {wind, stamina} THEN "stamina"
                            ELSE IF e = spirit THEN "spirit" ELSE "health"]
Sizes == [e \in Entries |-> IF e = health THEN 3
                            ELSE IF e \in {wind, spirit} THEN 1 ELSE 2]

Half == [num |-> 1, den |-> 2]
Double == [num |-> 2, den |-> 1]
All(r) == [s \in Stats |-> r]

Off == [consume |-> All(One), heal |-> All(One), incoming |-> One, incomingFallback |-> FALSE,
        outgoing |-> One, outgoingFallback |-> FALSE, resist |-> 0,
        lockHealth |-> FALSE, lockStamina |-> FALSE, lock |-> 1]

\* Every multiplier below, at and above 1, both locks, one of them and none, a lock
\* inside and beyond the maxima.
Easy == [Off EXCEPT !.consume = All(Half), !.heal = All(Double), !.resist = 50,
                    !.lockHealth = TRUE, !.lockStamina = TRUE]
Hard == [Off EXCEPT !.consume = All(Double), !.incoming = Double, !.incomingFallback = TRUE,
                    !.lockHealth = TRUE]
Weak == [Off EXCEPT !.outgoing = Half, !.outgoingFallback = TRUE, !.incoming = Half]
Strong == [Easy EXCEPT !.outgoing = [num |-> 5, den |-> 3], !.incoming = Half, !.lock = 9,
                       !.outgoingFallback = TRUE, !.incomingFallback = TRUE]
Proof == [Off EXCEPT !.heal = All(Double), !.resist = 50]
Levels == {Off, Easy, Hard, Weak, Strong, Proof}

Changes == {-2, -1, 1}

\* No multiplier is out of proportion here.
ASSUME ProportionAssumption == NoOverflow
===============================================================================
