---------------------------- MODULE HookLoadout ----------------------------
(***************************************************************************)
(* What the mod installs and starts in the game's process, and how it      *)
(* takes it all down again: the start-up thread of dllmain.cpp,            *)
(* InstallHooks and RemoveHooks with the Install... and Remove...          *)
(* functions of hooks/, and which hooks a configuration asks for           *)
(* (config.h) when it is reloaded later (config_watcher.cpp).              *)
(***************************************************************************)
EXTENDS Naturals, Sequences

CONSTANT Configs  \* the configurations of the file, as sets of settings

\* A setting is in a configuration when it is switched on and not neutral.
Settings == {"enabled", "stamina", "spirit", "health", "lockHealth", "lockStamina",
             "incoming", "incomingFallback", "outgoing", "outgoingFallback", "items",
             "multiplier", "gift", "pet", "durability", "village", "flying", "roof",
             "position", "toggle"}

ASSUME ConfigsAssumption == Configs \subseteq SUBSET Settings /\ Configs # {}

\* What is started, in the order of the code.  "affinity" is the choice of a pair
\* of sites, "fixup" the test for the position hook.
StartOrder ==
    <<"pointer", "stats", "spirit", "write", "ab00",
      "village", "cave", "flying", "roof", "damage", "items",
      "affinity", "prepare", "current", "vary", "logout",
      "petReloc", "petRsrc", "give", "take",
      "delta", "abyss", "position",
      "resolver", "fixup", "controls", "toggle", "watcher">>

\* The order in which everything is stopped and removed.
StopOrder ==
    <<"resolver", "watcher", "controls", "toggle",
      "abyss", "delta",
      "prepare", "current", "vary", "logout", "petReloc", "petRsrc", "give", "take",
      "position", "items", "damage",
      "roof", "flying", "cave", "village",
      "ab00", "spirit", "write", "stats", "pointer">>

Resources == {StopOrder[i] : i \in 1 .. Len(StopOrder)}
Pairs == {{"prepare", "current"}, {"vary", "logout"}}

VARIABLES
    config,   \* g_config
    live,     \* the hooks installed, the code cave, the threads running
    pc,       \* the thread that starts or stops the mod
    at,       \* where it is in StartOrder or StopOrder
    pair,     \* the affinity sites found
    leaving,  \* the module is being unloaded
    warned,   \* history: the watcher has asked for a restart
    flipped,  \* history: the toggle has been used
    missed    \* history: what was asked for and could not be installed

histories == <<warned, flipped, missed>>
vars == <<config, live, pc, at, pair, leaving, histories>>

Step == StartOrder[at]

TypeOK ==
    /\ config \subseteq Settings
    /\ live \subseteq Resources
    /\ pc \in {"start", "dropAffinity", "running", "stop", "failed", "gone"}
    /\ at \in 1 .. Len(StartOrder) /\ (pc = "stop" => at <= Len(StopOrder))
    /\ pair \in {"none", "legacy", "friendly"}
    /\ leaving \in BOOLEAN /\ warned \in BOOLEAN /\ flipped \in BOOLEAN
    /\ missed \subseteq Resources \cup {"affinity"}

(***************************************************************************)
(* config.h: which hooks a configuration needs.                            *)
(***************************************************************************)
WriteHook(c) == \/ c \cap {"stamina", "spirit", "health", "lockHealth"} # {}
                \/ {"incoming", "incomingFallback"} \subseteq c
                \/ {"outgoing", "outgoingFallback"} \subseteq c

\* The questions DidHookRequirementsChange compares, each with its answer.
Requirements(c) ==
    {r \in {"stats", "damage", "items", "affinity", "durability",
            "village", "flying", "roof", "position"} :
        /\ "enabled" \in c
        /\ CASE r = "stats"    -> "lockStamina" \in c \/ "spirit" \in c \/ WriteHook(c)
             [] r = "damage"   -> c \cap {"outgoing", "incoming", "lockHealth", "health"} # {}
             [] r = "affinity" -> c \cap {"multiplier", "gift", "pet"} # {}
             [] OTHER          -> r \in c}

\* The hooks these need; "affinity" stands for a pair of sites.
Needed(c) ==
    LET r == Requirements(c) IN
    {"pointer"} \cup (r \ {"durability"})
    \cup (IF "durability" \in r THEN {"delta", "abyss"} ELSE {})
    \cup (IF "flying" \in r THEN {"cave"} ELSE {})
    \cup (IF "enabled" \in c /\ "spirit" \in c THEN {"spirit"} ELSE {})
    \cup (IF "enabled" \in c /\ WriteHook(c) THEN {"write"} ELSE {})
    \cup (IF "enabled" \in c /\ "lockStamina" \in c THEN {"ab00"} ELSE {})

\* Mutant: position control not tied to its hook.
EffectiveAlways(c) == c

\* Position control is switched off where its hook is missing.
Effective(c) == IF "position" \in live THEN c ELSE c \ {"position"}

(***************************************************************************)
(* InitializeModUnchecked, after the file has been read.                   *)
(***************************************************************************)
Asked(r) ==
    CASE r \in {"prepare", "current"}    -> pair = "legacy"
      [] r \in {"vary", "logout"}        -> pair = "friendly"
      [] r \in {"give", "take"}          -> pair # "none"
      [] r \in {"petReloc", "petRsrc"}   -> "affinity" \in Needed(config) /\ "pet" \in config
      [] r = "flying"                    -> "cave" \in live
      [] r = "controls"                  -> "position" \in config
      [] r = "toggle"                    -> "toggle" \in config
      [] r \in {"resolver", "watcher"}   -> TRUE
      [] OTHER                           -> r \in Needed(config)

Init ==
    /\ config \in Configs
    /\ live = {}
    /\ pc = "start" /\ at = 1
    /\ pair = "none"
    /\ leaving = FALSE
    /\ warned = FALSE /\ flipped = FALSE /\ missed = {}

\* Mutant: one step too many.
AdvancePast ==
    IF at > Len(StartOrder) THEN pc' = "running" /\ at' = 1
                            ELSE at' = at + 1 /\ UNCHANGED pc

Advance ==
    IF at = Len(StartOrder) THEN pc' = "running" /\ at' = 1
                            ELSE at' = at + 1 /\ UNCHANGED pc

Tear == pc' = "stop" /\ at' = 1

\* An Install... function, or a thread's start, succeeds; or nothing asks for it.
Start ==
    /\ pc = "start" /\ Step \notin {"affinity", "fixup"}
    /\ live' = IF Asked(Step) THEN live \cup {Step} ELSE live
    /\ Advance
    /\ UNCHANGED <<config, pair, leaving, histories>>

\* The pattern is not found, or the hook cannot be created: the mod gives up, or
\* does without.
Essential == {"pointer", "stats", "spirit", "write", "ab00",
              "resolver", "controls", "toggle"}

\* Mutant: the start-up is tried again until the game's code is there.
StartEssentialRetries ==
    /\ pc = "start" /\ Step \in Essential /\ Asked(Step)
    /\ at' = 1 /\ live' = {}
    /\ UNCHANGED <<pc, config, pair, leaving, histories>>

StartEssentialFails ==
    /\ pc = "start" /\ Step \in Essential /\ Asked(Step)
    /\ Tear
    /\ UNCHANGED <<config, live, pair, leaving, histories>>

StartOptionalFails ==
    /\ pc = "start" /\ Asked(Step)
    /\ Step \notin Essential \cup (UNION Pairs) \cup {"affinity", "fixup", "watcher"}
    /\ live' = IF Step = "flying" THEN live \ {"cave"} ELSE live
    /\ missed' = missed \cup {IF Step = "cave" THEN "flying" ELSE Step}
    /\ Advance
    /\ UNCHANGED <<config, pair, leaving, warned, flipped>>

\* InstallAffinityHooks: the legacy sites, else the friendly ones, else none.
ChooseAffinity ==
    /\ pc = "start" /\ Step = "affinity"
    /\ \/ /\ Asked(Step)
          /\ pair' \in {"none", "legacy", "friendly"}
          /\ missed' = IF pair' = "none" THEN missed \cup {Step} ELSE missed
       \/ ~Asked(Step) /\ UNCHANGED <<pair, missed>>
    /\ Advance
    /\ UNCHANGED <<config, live, leaving, warned, flipped>>

\* Mutant: the other site kept.
AffinityKept ==
    /\ pc = "start" /\ Step \in UNION Pairs /\ Asked(Step)
    /\ missed' = missed \cup {"affinity"}
    /\ Advance
    /\ UNCHANGED <<live, config, pair, leaving, warned, flipped>>

\* A site of the pair cannot be hooked: RemoveAffinityHooks, and on after the
\* probes.
AffinityFails ==
    /\ pc = "start" /\ Step \in UNION Pairs /\ Asked(Step)
    /\ missed' = missed \cup {"affinity"}
    /\ pc' = "dropAffinity"
    /\ UNCHANGED <<live, at, config, pair, leaving, warned, flipped>>

RemoveAffinityHooks ==
    /\ pc = "dropAffinity"
    /\ live' = live \ UNION Pairs
    /\ pc' = "start" /\ at' = CHOOSE i \in 1 .. Len(StartOrder) : StartOrder[i] = "delta"
    /\ UNCHANGED <<config, pair, leaving, histories>>

Fixup ==
    /\ pc = "start" /\ Step = "fixup"
    /\ config' = Effective(config)
    /\ Advance
    /\ UNCHANGED <<live, pair, leaving, histories>>

\* A C++ exception, caught by InitializeModBody.  One between the allocation of the code
\* cave and the store of its pointer (dragon_limit_hooks.cpp:128-169) leaves a page of
\* memory behind, which nothing jumps to; the cave is here only once its pointer is.
Throw ==
    /\ pc \in {"start", "dropAffinity"}
    /\ Tear
    /\ UNCHANGED <<config, live, pair, leaving, histories>>

(***************************************************************************)
(* CleanupAfterInitializationFailure, and DllMain as the module goes.      *)
(***************************************************************************)
StopNext(r) ==
    /\ pc = "stop"
    /\ live' = live \ {r}
    /\ IF at = Len(StopOrder) THEN pc' = (IF leaving THEN "gone" ELSE "failed") /\ at' = 1
                              ELSE at' = at + 1 /\ UNCHANGED pc
    /\ UNCHANGED <<config, pair, leaving, histories>>

\* Mutants: the controls stopped before the watcher, which restarts them; the cave
\* freed before its hook is removed.
StopWatcherLate ==
    StopNext(CASE at = 2 -> "controls" [] at = 3 -> "watcher" [] OTHER -> StopOrder[at])
StopCaveFirst ==
    StopNext(CASE at = 19 -> "cave" [] at = 20 -> "flying" [] OTHER -> StopOrder[at])

Stop == StopNext(StopOrder[at])

Detach ==
    /\ pc \in {"running", "failed"}
    /\ leaving' = TRUE
    /\ Tear
    /\ UNCHANGED <<config, live, pair, histories>>

(***************************************************************************)
(* Meanwhile the watcher reloads the file, and the toggle flips a switch.  *)
(***************************************************************************)

\* Mutant: durability not compared.
DidHookRequirementsChangeLess(a, b) ==
    Requirements(a) \ {"durability"} # Requirements(b) \ {"durability"}

DidHookRequirementsChange(a, b) == Requirements(a) # Requirements(b)

Reload(c) ==
    LET next == Effective(c) IN
    /\ "watcher" \in live
    /\ next # config
    /\ config' = next
    /\ live' = (live \ {"controls", "toggle"})
               \cup (IF "position" \in next THEN {"controls"} ELSE {}) \cup (next \cap {"toggle"})
    /\ warned' = (warned \/ DidHookRequirementsChange(config, next))
    /\ UNCHANGED <<pc, at, pair, leaving, flipped, missed>>

ToggleOutgoingDamage ==
    /\ "toggle" \in live
    /\ config' = (config \ {"outgoing"}) \cup ({"outgoing"} \ config)
    /\ flipped' = TRUE
    /\ UNCHANGED <<live, pc, at, pair, leaving, warned, missed>>

Main ==
    \/ Start \/ StartEssentialFails \/ StartOptionalFails
    \/ ChooseAffinity \/ AffinityFails \/ RemoveAffinityHooks
    \/ Fixup \/ Throw
    \/ Stop

Next ==
    \/ Main \/ Detach
    \/ \E c \in Configs : Reload(c)
    \/ ToggleOutgoingDamage

Spec == Init /\ [][Next]_vars

\* The start-up thread keeps running until it is done.
FairSpec == Spec /\ WF_vars(Main)

(***************************************************************************)
(* Correctness.                                                            *)
(***************************************************************************)

\* A start-up that fails at any step, and a module that is unloaded, leave neither
\* a hook in the game's code nor a thread of the mod behind, though the watcher may
\* restart listeners while it is being stopped (dllmain.cpp:113-119, 252-259).
NothingLeft == pc \in {"failed", "gone"} => live = {}

\* The comment at affinity_hooks.cpp:760: "Installing only one side is unsafe ...
\* install both or neither".  One side is there alone only between the two creations
\* and while it is taken back, and the two pairs never meet.
PairsComplete ==
    /\ \A p \in Pairs :
        p \cap live \notin {{}, p} =>
            pc \in {"dropAffinity", "stop"} \/ (pc = "start" /\ Step \in {"current", "logout"})
    /\ \E p \in Pairs : p \cap live = {}

\* The game never jumps into a code cave that is not there
\* (dragon_limit_hooks.cpp:160-172, 215-224).
CaveOutlivesHook == "flying" \in live => "cave" \in live

\* Position control is never switched on, nor its listeners left running, without
\* the hook that consumes what they collect, whatever is reloaded and whenever the
\* start-up fails (dllmain.cpp:187-193, config_watcher.cpp:121).
ControlsHooked ==
    pc = "running" => /\ ("controls" \in live) = ("position" \in config)
                      /\ "controls" \in live => "position" \in live

\* After any sequence of reloads a feature whose hook is missing has been reported:
\* its hook could not be installed, or a restart was asked for (README.md:72).  Not
\* so the hooks that share one question, the pet diagnostics that come with the
\* affinity pair, and damage switched on by its key.
SharedStatHooks == {"stats", "spirit", "write", "ab00"}
Has(h) == IF h = "affinity" THEN \E p \in Pairs : p \subseteq live ELSE h \in live

NothingMissedSilently ==
    pc = "running" /\ ~warned =>
        \A h \in Needed(config) \ (SharedStatHooks \cup {"cave"}) :
            Has(h) \/ h \in missed \/ (h = "damage" /\ flipped)

\* The start-up comes to an end, one way or the other (dllmain.cpp:130-226).
StartUpEnds == pc = "start" ~> pc \in {"running", "failed", "gone"}
=============================================================================
