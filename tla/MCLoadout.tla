----------------------------- MODULE MCLoadout -----------------------------
(* Small instances of HookLoadout for TLC. *)
EXTENDS HookLoadout

\* The player's stats and the damage; affinity with its diagnostics; the mount and
\* position control; a mod that is switched off; and everything that is optional.
Fighter == {"enabled", "stamina", "health", "outgoing", "toggle"}
Friend == {"enabled", "multiplier", "pet", "items", "position"}
Rider == {"enabled", "lockStamina", "lockHealth", "position", "flying"}
Mystic == {"enabled", "spirit", "incoming", "incomingFallback", "durability"}
Idle == Friend \ {"enabled"}
Traveller == {"enabled", "village", "flying", "roof", "gift", "durability", "toggle"}
Plays == {Fighter, Friend, Rider, Mystic, Idle, Traveller}

=============================================================================
