---------------------------- MODULE ConfigReload ----------------------------
(***************************************************************************)
(* The configuration and everything that follows it while the game runs:   *)
(* the start-up of dllmain.cpp, config_watcher.cpp, damage_toggle.cpp,     *)
(* position_control.cpp and key_listener.cpp.                              *)
(*                                                                         *)
(* The start-up thread, and the watcher thread it hands over to, read the  *)
(* file, start and stop a listener thread per control key and publish the  *)
(* snapshot GetConfig() returns.  The damage toggle's listener publishes   *)
(* one as well: it copies the snapshot, flips a switch and stores it back. *)
(***************************************************************************)
EXTENDS Naturals

CONSTANTS
    Keys,        \* virtual keys a control may be bound to
    Off,         \* the binding of a control that is not enabled
    Files,       \* the configurations the user may save
    EarlyEdits,  \* the user may save before the watcher thread runs
    MaxEdits,    \* bound on the number of times the user saves
    MaxTicks     \* bound on the height ticks told apart

Listeners == {"height", "horizontal", "toggle"}
Position == {"height", "horizontal"}

\* Of a ModConfig: the key of each control, or Off, the outgoing damage switch,
\* and a name for all the rest.
Config == [height : Keys \cup {Off}, horizontal : Keys \cup {Off},
           toggle : Keys \cup {Off}, outgoing : BOOLEAN, rest : Nat]

ASSUME OffAssumption == Off \notin Keys
ASSUME FilesAssumption == Files \subseteq Config /\ EarlyEdits \in BOOLEAN
ASSUME BoundAssumption == MaxEdits \in Nat /\ MaxTicks \in Nat \ {0}

Default == [height |-> Off, horizontal |-> Off, toggle |-> Off,
            outgoing |-> FALSE, rest |-> 0]

StartUp == {"load", "loadPosition", "hooks", "fixup", "baseline", "failed"}
Watching == {"sleep", "settle", "copy", "read", "readPosition", "publish"}
Applying == {"height", "heightJoin", "horizontal", "horizontalJoin",
             "rollback", "rollbackJoin", "toggle", "toggleJoin"}

VARIABLES
    file,       \* what the layers on disk merge to
    stamp,      \* what TryGetConfigSetTimestamp computes from them
    config,     \* g_config
    hook,       \* IsPositionHeightHookInstalled()
    pc,         \* the start-up thread, then the watcher thread
    booting,    \* it is still the start-up thread
    lastStamp,  \* last_write_timestamp of the watcher
    previous,   \* the configuration that is being replaced ...
    next,       \* ... and the one replacing it
    running,    \* per KeyListener: running_
    started,    \* per KeyListener: the module's ..._started flag
    key,        \* per KeyListener: virtual_key_
    thread,     \* per KeyListener: what its thread does next
    wasDown,    \* per KeyListener: the key state its thread saw last
    copy,       \* the snapshot ToggleOutgoingDamage works from
    pending,    \* g_pending_height_ticks
    active,     \* g_horizontal_active
    consumer,   \* the game thread in ConsumeHeightAdjustment
    down        \* the keys held down

disk == <<file, stamp>>
plan == <<booting, lastStamp, previous, next>>
listeners == <<running, started, key, thread, wasDown>>
inputs == <<pending, active>>
rest == <<hook, consumer, down, copy>>
vars == <<disk, config, pc, plan, listeners, inputs, rest>>

TypeOK ==
    /\ file \in Files /\ stamp \in 0 .. MaxEdits /\ lastStamp \in 0 .. MaxEdits
    /\ {config, previous, next, copy} \subseteq Config
    /\ hook \in BOOLEAN /\ booting \in BOOLEAN
    /\ pc \in StartUp \cup Watching \cup Applying
    /\ running \in [Listeners -> BOOLEAN] /\ started \in [Listeners -> BOOLEAN]
    /\ key \in [Listeners -> Keys \cup {Off}]
    /\ \A l \in Listeners : running[l] => key[l] # Off
    /\ thread \in [Listeners -> {"none", "poll", "act", "flip"}]
    /\ wasDown \in [Listeners -> BOOLEAN]
    /\ pending \in 0 .. MaxTicks /\ active \in BOOLEAN
    /\ consumer \in {"idle", "adjust"} /\ down \subseteq Keys

Init ==
    /\ file \in Files /\ stamp = 0 /\ lastStamp = 0
    /\ config = Default /\ previous = Default /\ next = Default /\ copy = Default
    /\ hook = FALSE /\ booting = TRUE
    /\ pc = "load"
    /\ running = [l \in Listeners |-> FALSE] /\ started = running
    /\ key = [l \in Listeners |-> Off]
    /\ thread = [l \in Listeners |-> "none"]
    /\ wasDown = [l \in Listeners |-> FALSE]
    /\ pending = 0 /\ active = FALSE
    /\ consumer = "idle" /\ down = {}

(***************************************************************************)
(* Reading the file: every key is looked up on its own, so an edit between *)
(* two look-ups shows in the second.                                       *)
(***************************************************************************)

\* The damage sections come first, the position sections after them.
ReadFirst == [file EXCEPT !.height = Off, !.horizontal = Off]
ReadSecond == [next EXCEPT !.height = file.height, !.horizontal = file.horizontal]

\* Position control needs its hook, which is installed at start-up or never.
Requested(c) == \E l \in Position : c[l] # Off
Effective(c) == IF Requested(c) /\ ~hook
                THEN [c EXCEPT !.height = Off, !.horizontal = Off] ELSE c

(***************************************************************************)
(* InitializeModUnchecked.                                                 *)
(***************************************************************************)
Load ==
    /\ pc = "load"
    /\ next' = ReadFirst
    /\ pc' = "loadPosition"
    /\ UNCHANGED <<disk, config, booting, lastStamp, previous, listeners, inputs, rest>>

LoadPosition ==
    /\ pc = "loadPosition"
    /\ config' = ReadSecond
    /\ pc' = "hooks"
    /\ UNCHANGED <<disk, plan, listeners, inputs, rest>>

\* The init delay, InstallHooks and StartMountResolver.
Hooks ==
    /\ pc = "hooks"
    /\ \/ pc' = "fixup" /\ hook' \in {FALSE, Requested(config)}
       \/ pc' = "failed" /\ UNCHANGED hook
    /\ UNCHANGED <<disk, config, plan, listeners, inputs, consumer, down, copy>>

\* Position control without its hook is switched off in the snapshot, and the
\* controls are brought from their defaults to it.
Fixup ==
    /\ pc = "fixup"
    /\ config' = Effective(config)
    /\ next' = config' /\ previous' = Default
    /\ pc' = "height"
    /\ UNCHANGED <<disk, booting, lastStamp, listeners, inputs, rest>>

\* StartConfigWatcher; the new thread takes its first time stamp.
Baseline ==
    /\ pc = "baseline"
    /\ lastStamp' = stamp
    /\ booting' = FALSE
    /\ pc' = "sleep"
    /\ UNCHANGED <<disk, config, previous, next, listeners, inputs, rest>>

(***************************************************************************)
(* Starting, stopping and rebinding a listener.                            *)
(***************************************************************************)

\* KeyListener::Start succeeds and a thread polls the new key.
Start(l, k) ==
    /\ ~running[l]
    /\ running' = [running EXCEPT ![l] = TRUE]
    /\ started' = [started EXCEPT ![l] = TRUE]
    /\ key' = [key EXCEPT ![l] = k]
    /\ thread' = [thread EXCEPT ![l] = "poll"]
    /\ wasDown' = [wasDown EXCEPT ![l] = FALSE]

\* The listener's thread has been joined: its part of the input is cleared.
ClearInput(l) ==
    /\ pending' = IF l = "height" THEN 0 ELSE pending
    /\ active' = IF l = "horizontal" THEN FALSE ELSE active

\* KeyListener::Stop as far as the join.
Halt(l) ==
    /\ started' = [started EXCEPT ![l] = FALSE]
    /\ running' = [running EXCEPT ![l] = FALSE]
    /\ UNCHANGED <<key, thread, wasDown>>

\* Nothing to stop: start the new binding unless there is none.
Bind(l, to, ok, fail) ==
    \/ to = Off /\ UNCHANGED listeners /\ pc' = ok
    \/ to # Off /\ Start(l, to) /\ pc' = ok
    \/ to # Off /\ running[l] /\ UNCHANGED listeners /\ pc' = fail

\* Mutant: only a change of the switch counts as one.
ReconfigureSwitch(l, from, to, join, ok, fail) ==
    \/ /\ (from = Off) = (to = Off)
       /\ pc' = ok /\ UNCHANGED <<listeners, inputs>>
    \/ /\ from # Off /\ to = Off /\ started[l]
       /\ Halt(l) /\ pc' = join /\ UNCHANGED inputs
    \/ /\ (from = Off) # (to = Off) /\ (from = Off \/ ~started[l])
       /\ Bind(l, to, ok, fail) /\ UNCHANGED inputs

\* Reconfigure...Listener up to the join of the old thread, if there is one.
Reconfigure(l, from, to, join, ok, fail) ==
    \/ /\ from = to
       /\ pc' = ok /\ UNCHANGED <<listeners, inputs>>
    \/ /\ from # to /\ from # Off /\ started[l]
       /\ Halt(l) /\ pc' = join /\ UNCHANGED inputs
    \/ /\ from # to /\ (from = Off \/ ~started[l])
       /\ Bind(l, to, ok, fail) /\ UNCHANGED inputs

\* Mutants: the input of the stopped listener kept; its thread not waited for;
\* the listener started whether or not the control is enabled.
JoinKeeps(l, to, ok) ==
    /\ thread[l] = "none"
    /\ UNCHANGED inputs
    /\ IF to = Off THEN UNCHANGED listeners ELSE Start(l, to)
    /\ pc' = ok

JoinNoWait(l, to, ok) ==
    /\ ClearInput(l)
    /\ IF to = Off THEN UNCHANGED listeners ELSE Start(l, to)
    /\ pc' = ok

JoinStarts(l, to, ok) ==
    /\ thread[l] = "none"
    /\ ClearInput(l)
    /\ Start(l, to)
    /\ pc' = ok

\* ... and from there on: the old thread is joined, its input cleared.
Join(l, to, ok) ==
    /\ thread[l] = "none"
    /\ ClearInput(l)
    /\ IF to = Off THEN UNCHANGED listeners ELSE Start(l, to)
    /\ pc' = ok

Unfinished == UNCHANGED <<disk, config, plan, rest>>
Failed == IF booting THEN "failed" ELSE "sleep"

\* ApplyPositionControlConfig: a horizontal listener that cannot be started
\* takes the height listener back.
Apply ==
    /\ \/ /\ pc = "height"
          /\ Reconfigure("height", previous.height, next.height,
                         "heightJoin", "horizontal", Failed)
       \/ /\ pc = "heightJoin"
          /\ Join("height", next.height, "horizontal")
       \/ /\ pc = "horizontal"
          /\ Reconfigure("horizontal", previous.horizontal, next.horizontal,
                         "horizontalJoin", "toggle", "rollback")
       \/ /\ pc = "horizontalJoin"
          /\ Join("horizontal", next.horizontal, "toggle")
       \/ /\ pc = "rollback"
          /\ Reconfigure("height", next.height, previous.height,
                         "rollbackJoin", Failed, Failed)
       \/ /\ pc = "rollbackJoin"
          /\ Join("height", previous.height, Failed)
    /\ Unfinished

\* ApplyDamageToggleConfig, whose failure the watcher does not look at.
Applied == IF booting THEN "baseline" ELSE "publish"

ApplyToggle ==
    /\ \/ /\ pc = "toggle"
          /\ Reconfigure("toggle", previous.toggle, next.toggle,
                         "toggleJoin", Applied, IF booting THEN "failed" ELSE Applied)
       \/ /\ pc = "toggleJoin"
          /\ Join("toggle", next.toggle, Applied)
    /\ Unfinished

(***************************************************************************)
(* ConfigWatcherLoop.                                                      *)
(***************************************************************************)
Poll ==
    /\ pc = "sleep"
    /\ stamp # lastStamp
    /\ pc' = "settle"
    /\ UNCHANGED <<disk, config, plan, listeners, inputs, rest>>

\* kConfigReloadSettleMs later the time stamp is recorded, before the file is
\* read and whatever becomes of the new configuration.
Settle ==
    /\ pc = "settle"
    /\ lastStamp' = stamp
    /\ pc' = "copy"
    /\ UNCHANGED <<disk, config, booting, previous, next, listeners, inputs, rest>>

Copy ==
    /\ pc = "copy"
    /\ previous' = config
    /\ pc' = "read"
    /\ UNCHANGED <<disk, config, booting, lastStamp, next, listeners, inputs, rest>>

Read ==
    /\ pc = "read"
    /\ next' = ReadFirst
    /\ pc' = "readPosition"
    /\ UNCHANGED <<disk, config, booting, lastStamp, previous, listeners, inputs, rest>>

\* Mutant: the time stamp recorded again after the file has been read.
ReadPositionStamps ==
    /\ pc = "readPosition"
    /\ next' = Effective(ReadSecond)
    /\ lastStamp' = stamp
    /\ pc' = IF next' = previous THEN "sleep" ELSE "height"
    /\ UNCHANGED <<disk, config, booting, previous, listeners, inputs, rest>>

ReadPosition ==
    /\ pc = "readPosition"
    /\ next' = Effective(ReadSecond)
    /\ pc' = IF next' = previous THEN "sleep" ELSE "height"
    /\ UNCHANGED <<disk, config, booting, lastStamp, previous, listeners, inputs, rest>>

Publish ==
    /\ pc = "publish"
    /\ config' = next
    /\ pc' = "sleep"
    /\ UNCHANGED <<disk, plan, listeners, inputs, rest>>

(***************************************************************************)
(* The listener threads.                                                   *)
(***************************************************************************)
Goto(l, s) == thread' = [thread EXCEPT ![l] = s]

\* The loop condition.  A thread that leaves the loop reports its key released.
Turn(l) ==
    /\ thread[l] = "poll"
    /\ IF running[l]
       THEN Goto(l, "act") /\ UNCHANGED active
       ELSE /\ Goto(l, "none")
            /\ active' = (active /\ ~(l = "horizontal" /\ wasDown[l]))
    /\ UNCHANGED <<disk, config, pc, plan, running, started, key, wasDown, pending, rest>>

Tick ==
    /\ thread["height"] = "act"
    /\ Goto("height", "poll")
    /\ pending' = IF key["height"] \in down /\ pending < MaxTicks THEN pending + 1 ELSE pending
    /\ UNCHANGED <<disk, config, pc, plan, running, started, key, wasDown, active, rest>>

Hold ==
    LET isDown == key["horizontal"] \in down IN
    /\ thread["horizontal"] = "act"
    /\ Goto("horizontal", "poll")
    /\ wasDown' = [wasDown EXCEPT !["horizontal"] = isDown]
    /\ active' = IF isDown # wasDown["horizontal"] THEN isDown ELSE active
    /\ UNCHANGED <<disk, config, pc, plan, running, started, key, pending, rest>>

\* A key going down calls ToggleOutgoingDamage, which first copies the snapshot.
ToggleKey ==
    LET isDown == key["toggle"] \in down IN
    /\ thread["toggle"] = "act"
    /\ wasDown' = [wasDown EXCEPT !["toggle"] = isDown]
    /\ IF isDown /\ ~wasDown["toggle"]
       THEN copy' = config /\ Goto("toggle", "flip")
       ELSE UNCHANGED copy /\ Goto("toggle", "poll")
    /\ UNCHANGED <<disk, config, pc, plan, running, started, key, inputs, hook, consumer, down>>

\* Mutant: the toggle waits for a reload under way.
FlipWaits ==
    /\ thread["toggle"] = "flip"
    /\ pc = "sleep"
    /\ config' = [copy EXCEPT !.outgoing = ~copy.outgoing]
    /\ copy' = Default
    /\ Goto("toggle", "poll")
    /\ UNCHANGED <<disk, pc, plan, running, started, key, wasDown, inputs, hook, consumer, down>>

Flip ==
    /\ thread["toggle"] = "flip"
    /\ config' = [copy EXCEPT !.outgoing = ~copy.outgoing]
    /\ copy' = Default
    /\ Goto("toggle", "poll")
    /\ UNCHANGED <<disk, pc, plan, running, started, key, wasDown, inputs, hook, consumer, down>>

(***************************************************************************)
(* The position hook on a game thread, and the user.                       *)
(***************************************************************************)

\* ConsumeHeightAdjustment looks at the switch and takes the ticks later.
Consume ==
    /\ hook
    /\ consumer = "idle" /\ config.height # Off
    /\ consumer' = "adjust"
    /\ UNCHANGED <<disk, config, pc, plan, listeners, inputs, hook, down, copy>>

Adjust ==
    /\ consumer = "adjust"
    /\ consumer' = "idle"
    /\ pending' = 0
    /\ UNCHANGED <<disk, config, pc, plan, listeners, active, hook, down, copy>>

Edit(c) ==
    /\ c # file
    /\ stamp < MaxEdits
    /\ EarlyEdits \/ ~booting
    /\ file' = c /\ stamp' = stamp + 1
    /\ UNCHANGED <<config, pc, plan, listeners, inputs, rest>>

PressOrRelease(k) ==
    /\ down' = (down \ {k}) \cup ({k} \ down)
    /\ UNCHANGED <<disk, config, pc, plan, listeners, inputs, hook, consumer, copy>>

Main ==
    \/ Load \/ LoadPosition \/ Hooks \/ Fixup \/ Baseline
    \/ Apply \/ ApplyToggle
    \/ Poll \/ Settle \/ Copy \/ Read \/ ReadPosition \/ Publish

Listen(l) ==
    \/ Turn(l)
    \/ l = "height" /\ Tick
    \/ l = "horizontal" /\ Hold
    \/ l = "toggle" /\ (ToggleKey \/ Flip)

Next ==
    \/ Main
    \/ \E l \in Listeners : Listen(l)
    \/ Consume \/ Adjust
    \/ \E c \in Files : Edit(c)
    \/ \E k \in Keys : PressOrRelease(k)

Spec == Init /\ [][Next]_vars

\* The threads of the mod keep running; the game and the user owe nothing.
Fairness == WF_vars(Main) /\ \A l \in Listeners : WF_vars(Listen(l))
FairSpec == Spec /\ Fairness

(***************************************************************************)
(* Correctness.                                                            *)
(***************************************************************************)

\* A control that has been switched off or rebound has no effect left over: ticks
\* and the horizontal flag are cleared when no thread can set them any more
\* (position_control.cpp:37-44 and 64-71), whatever its thread was about to do.
ControlsIdle ==
    /\ thread["height"] = "none" /\ pc \notin {"heightJoin", "rollbackJoin"} => pending = 0
    /\ thread["horizontal"] = "none" /\ pc # "horizontalJoin" => ~active

\* Between two reloads the listeners are those the published configuration asks
\* for, through every sequence of enabling, disabling and rebinding.  Where the
\* toggle has been bound it may have brought an older configuration back.
Untoggled == key["toggle"] = Off

ListenersMatch ==
    pc = "sleep" /\ Untoggled =>
        \A l \in Listeners :
            /\ running[l] = (config[l] # Off) /\ started[l] = running[l]
            /\ running[l] => key[l] = config[l]

\* A listener is given a new thread only when the old one has ended: assigning to
\* a joinable std::thread terminates the process (key_listener.cpp:26).
NoThreadReplaced ==
    [][\A l \in Listeners : started'[l] /\ ~started[l] => thread[l] = "none"]_vars

\* A reload comes to an end although it joins threads that publish themselves.
WatcherReturns == pc \notin StartUp /\ pc # "sleep" ~> pc = "sleep"

\* README.md:63: the mod "watches `player-status-modifier.ini` in the background
\* and reloads changes automatically".  Once the user stops saving, what is
\* published is the file, but for the switch that may be toggled ...
SameBut(c, e) == c = [e EXCEPT !.outgoing = c.outgoing]

FollowsFile ==
    \A c \in Files :
        <>[](file = c) /\ <>(pc = "sleep") => <>[]SameBut(config, Effective(c))

\* ... which the code achieves, the switch included, as long as the toggle has never
\* been bound and nothing was saved between the first reading and the watcher's
\* first time stamp: an edit during a reload is met by the next one.
Quiet == Untoggled /\ (booting => stamp = 0)
FollowsFileUntoggled ==
    []Quiet => \A c \in Files :
        <>[](file = c) /\ <>(pc = "sleep") => <>[](config = Effective(c))
=============================================================================
