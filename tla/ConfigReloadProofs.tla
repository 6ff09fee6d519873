------------------------- MODULE ConfigReloadProofs -------------------------
(***************************************************************************)
(* Theorems about ConfigReload for every set of keys and files and any     *)
(* number of edits and ticks.                                              *)
(***************************************************************************)
EXTENDS ConfigReload, TLAPS

(***************************************************************************)
(* The invariant.                                                          *)
(***************************************************************************)

\* The steps that wait for a listener's old thread.
Joins(l) == CASE l = "height" -> {"heightJoin", "rollbackJoin"}
              [] l = "horizontal" -> {"horizontalJoin"}
              [] l = "toggle" -> {"toggleJoin"}

\* A listener that has been told to stop has a thread only while that is waited for ...
Ended == \A l \in Listeners : ~running[l] => thread[l] = "none" \/ pc \in Joins(l)

\* ... a thread polls a key, and the two flags of a listener agree.
Polling == \A l \in Listeners : thread[l] # "none" => key[l] # Off
FlagsAgree == started = running

\* Which configuration the listener l follows at each step.
Before == {"load", "loadPosition", "hooks", "fixup"}
Follows(l) ==
    CASE pc \in Before -> Default
      [] pc \in {"sleep", "settle", "copy", "read", "readPosition"} -> config
      [] pc \in {"baseline", "publish"} -> next
      [] pc \in {"horizontal", "horizontalJoin"} -> IF l = "height" THEN next ELSE previous
      [] pc = "toggle" -> IF l = "toggle" THEN previous ELSE next
      [] OTHER -> previous

Matches(l, c) == /\ running[l] = (c[l] # Off)
                 /\ running[l] => key[l] = c[l]

\* While the toggle is not bound, nothing fails and nobody else publishes: each
\* listener follows the configuration in force, the one it has been brought to, or
\* has been stopped.
Followed ==
    Untoggled /\ pc # "failed" =>
        /\ pc \notin {"rollback", "rollbackJoin", "toggleJoin"}
        /\ \A l \in Listeners : IF pc \in Joins(l) THEN ~running[l] ELSE Matches(l, Follows(l))

\* What the configurations at hand are copies of.
Copies ==
    /\ pc \in Before \cup {"baseline"} => booting
    /\ pc \in Watching => ~booting
    /\ Untoggled /\ pc \in {"read", "readPosition"} => previous = config
    /\ Untoggled /\ booting /\ pc \in Applying \cup {"baseline"} => config = next

IInv == TypeOK /\ Ended /\ Polling /\ FlagsAgree /\ ControlsIdle /\ Followed /\ Copies

(***************************************************************************)
(* With the toggle unbound and nothing saved before the watcher's first    *)
(* time stamp, a time stamp taken is a promise about what is read.         *)
(***************************************************************************)
Promised ==
    /\ lastStamp <= stamp
    /\ booting => lastStamp = 0
    /\ stamp = lastStamp =>
        /\ pc \in {"loadPosition", "readPosition"} => next = ReadFirst
        /\ pc \in {"hooks", "fixup"} => config = file
        /\ pc \in Applying \cup {"publish"} => next = Effective(file)
        /\ pc \in {"baseline", "sleep"} => config = Effective(file)

\* A watcher that has nothing new to look at has published the file.
UpToDate == pc = "sleep" /\ stamp = lastStamp => config = Effective(file)
PublishedIsFile == []Quiet => []UpToDate

(***************************************************************************)
(* Listeners: what starting, stopping and joining one does to all.         *)
(***************************************************************************)
ListenerTypes ==
    /\ running \in [Listeners -> BOOLEAN] /\ started \in [Listeners -> BOOLEAN]
    /\ key \in [Listeners -> Keys \cup {Off}]
    /\ \A l \in Listeners : running[l] => key[l] # Off
    /\ thread \in [Listeners -> {"none", "poll", "act", "flip"}]
    /\ wasDown \in [Listeners -> BOOLEAN]
    /\ pending \in 0 .. MaxTicks /\ active \in BOOLEAN

LInv == ListenerTypes /\ Ended /\ Polling /\ FlagsAgree /\ ControlsIdle

LEMMA JoinSteps ==
    /\ Joins("height") = {"heightJoin", "rollbackJoin"}
    /\ Joins("horizontal") = {"horizontalJoin"}
    /\ Joins("toggle") = {"toggleJoin"}
    /\ \A i, j \in Listeners : i # j => Joins(i) \cap Joins(j) = {}
BY DEF Joins, Listeners

\* Up to the join, a listener is left alone, stopped or started: whichever it is,
\* no thread goes on beside what the flags say.
LEMMA ReconfigureStep ==
    ASSUME LInv, NEW l \in Listeners, NEW from \in Keys \cup {Off}, NEW to \in Keys \cup {Off},
           NEW join \in Joins(l), NEW ok, NEW fail,
           \A i \in Listeners : {pc, ok, fail} \cap Joins(i) = {},
           Reconfigure(l, from, to, join, ok, fail)
    PROVE  LInv'
<1> USE DEF LInv, ListenerTypes
<1>1. UNCHANGED inputs
  BY DEF Reconfigure
<1>2. pc' \in {join, ok, fail}
  BY DEF Reconfigure, Bind
<1>3. CASE UNCHANGED listeners /\ pc' \in {ok, fail}
  <2>1. ListenerTypes' /\ Polling' /\ FlagsAgree'
    BY <1>1, <1>3 DEF listeners, inputs, Polling, FlagsAgree
  <2>2. Ended'
    BY <1>3 DEF listeners, Ended
  <2>3. ControlsIdle'
    BY <1>1, <1>3, JoinSteps DEF listeners, inputs, ControlsIdle, Listeners
  <2> QED
    BY <2>1, <2>2, <2>3
<1>4. CASE Halt(l) /\ pc' = join
  <2>1. ListenerTypes' /\ Polling' /\ FlagsAgree'
    BY <1>1, <1>4 DEF Halt, inputs, Polling, FlagsAgree
  <2>2. Ended'
    BY <1>4 DEF Halt, Ended
  <2>3. ControlsIdle'
    BY <1>1, <1>4, JoinSteps DEF Halt, inputs, ControlsIdle, Listeners
  <2> QED
    BY <2>1, <2>2, <2>3
<1>5. CASE to # Off /\ Start(l, to) /\ pc' = ok
  <2>1. ListenerTypes' /\ Polling' /\ FlagsAgree'
    BY <1>1, <1>5 DEF Start, inputs, Polling, FlagsAgree
  <2>2. Ended'
    BY <1>5 DEF Start, Ended
  <2>3. ControlsIdle'
    BY <1>1, <1>5, JoinSteps DEF Start, inputs, ControlsIdle, Listeners
  <2> QED
    BY <2>1, <2>2, <2>3
<1> QED
  BY <1>3, <1>4, <1>5 DEF Reconfigure, Bind

\* The join finds the old thread gone and leaves no input of it behind.
LEMMA JoinStep ==
    ASSUME LInv, NEW l \in Listeners, NEW to \in Keys \cup {Off}, NEW ok,
           pc \in Joins(l), \A i \in Listeners : ok \notin Joins(i), Join(l, to, ok)
    PROVE  LInv'
<1> USE DEF LInv, ListenerTypes
<1>1. \A i \in Listeners : i # l => pc \notin Joins(i)
  BY JoinSteps
<1>2. /\ pending' = IF l = "height" THEN 0 ELSE pending
      /\ active' = IF l = "horizontal" THEN FALSE ELSE active
      /\ thread[l] = "none" /\ pc' = ok
  BY DEF Join, ClearInput
<1>3. pending' \in 0 .. MaxTicks
  BY <1>2, BoundAssumption
<1>4. active' \in BOOLEAN
  BY <1>2
<1>5. CASE to = Off /\ UNCHANGED listeners
  <2>1. ListenerTypes' /\ Polling' /\ FlagsAgree'
    BY <1>2, <1>3, <1>4, <1>5 DEF listeners, Polling, FlagsAgree
  <2>2. Ended'
    BY <1>1, <1>2, <1>5 DEF listeners, Ended
  <2>3. ControlsIdle'
    BY <1>1, <1>2, <1>5, JoinSteps DEF listeners, ControlsIdle, Listeners
  <2> QED
    BY <2>1, <2>2, <2>3
<1>6. CASE to # Off /\ Start(l, to)
  <2>1. ListenerTypes' /\ Polling' /\ FlagsAgree'
    BY <1>2, <1>3, <1>4, <1>6 DEF Start, Polling, FlagsAgree
  <2>2. Ended'
    BY <1>1, <1>2, <1>6 DEF Start, Ended
  <2>3. ControlsIdle'
    BY <1>1, <1>2, <1>6, JoinSteps DEF Start, ControlsIdle, Listeners
  <2> QED
    BY <2>1, <2>2, <2>3
<1> QED
  BY <1>5, <1>6 DEF Join

\* The keys a configuration binds are keys.
LEMMA Bindings ==
    ASSUME TypeOK
    PROVE  \A c \in {config, previous, next} :
               /\ c.height \in Keys \cup {Off} /\ c.horizontal \in Keys \cup {Off}
               /\ c.toggle \in Keys \cup {Off}
BY DEF TypeOK, Config

\* Steps of the start-up and of the watcher that touch no listener.
Planning == Load \/ LoadPosition \/ Hooks \/ Fixup \/ Baseline
            \/ Poll \/ Settle \/ Copy \/ Read \/ ReadPosition \/ Publish

LEMMA PlanningStep ==
    ASSUME Planning
    PROVE  /\ UNCHANGED <<listeners, inputs, consumer, down, copy, disk>>
           /\ {pc, pc'} \subseteq StartUp \cup Watching \cup {"height"}
<1> USE DEF StartUp, Watching
<1>1. CASE Load BY <1>1 DEF Load, rest
<1>2. CASE LoadPosition BY <1>2 DEF LoadPosition, rest
<1>3. CASE Hooks BY <1>3 DEF Hooks
<1>4. CASE Fixup BY <1>4 DEF Fixup, rest
<1>5. CASE Baseline BY <1>5 DEF Baseline, rest
<1>6. CASE Poll BY <1>6 DEF Poll, rest
<1>7. CASE Settle BY <1>7 DEF Settle, rest
<1>8. CASE Copy BY <1>8 DEF Copy, rest
<1>9. CASE Read BY <1>9 DEF Read, rest
<1>10. CASE ReadPosition BY <1>10 DEF ReadPosition, rest
<1>11. CASE Publish BY <1>11 DEF Publish, rest
<1> QED
  BY <1>1, <1>2, <1>3, <1>4, <1>5, <1>6, <1>7, <1>8, <1>9, <1>10, <1>11 DEF Planning

LEMMA PlanningListeners == ASSUME LInv, Planning PROVE LInv'
<1>1. /\ UNCHANGED <<listeners, inputs>>
      /\ \A l \in Listeners : pc \notin Joins(l) /\ pc' \notin Joins(l)
  BY PlanningStep, JoinSteps DEF StartUp, Watching, Listeners
<1>2. ListenerTypes' /\ Polling' /\ FlagsAgree'
  BY <1>1 DEF LInv, ListenerTypes, Polling, FlagsAgree, listeners, inputs
<1>3. Ended'
  BY <1>1 DEF LInv, Ended, listeners
<1>4. ControlsIdle'
  BY <1>1, JoinSteps DEF LInv, ControlsIdle, listeners, inputs, Listeners
<1> QED
  BY <1>2, <1>3, <1>4 DEF LInv

LEMMA ApplyListeners == ASSUME TypeOK, LInv, Apply \/ ApplyToggle PROVE LInv'
<1> USE JoinSteps, Bindings DEF Listeners
<1>1. CASE pc = "height" /\ Apply
  <2>1. Reconfigure("height", previous.height, next.height, "heightJoin", "horizontal", Failed)
    BY <1>1 DEF Apply
  <2>2. \A i \in Listeners : {pc, "horizontal", Failed} \cap Joins(i) = {}
    BY <1>1 DEF Failed
  <2>3. "heightJoin" \in Joins("height") /\ previous.height \in Keys \cup {Off} /\ next.height \in Keys \cup {Off}
    OBVIOUS
  <2> QED
    BY <2>1, <2>2, <2>3, ReconfigureStep
<1>2. CASE pc = "heightJoin" /\ Apply
  <2>1. Join("height", next.height, "horizontal")
    BY <1>2 DEF Apply
  <2> QED
    BY <1>2, <2>1, JoinStep
<1>3. CASE pc = "horizontal" /\ Apply
  <2>1. Reconfigure("horizontal", previous.horizontal, next.horizontal,
                    "horizontalJoin", "toggle", "rollback")
    BY <1>3 DEF Apply
  <2>2. \A i \in Listeners : {pc, "toggle", "rollback"} \cap Joins(i) = {}
    BY <1>3
  <2>3. "horizontalJoin" \in Joins("horizontal") /\ previous.horizontal \in Keys \cup {Off} /\ next.horizontal \in Keys \cup {Off}
    OBVIOUS
  <2> QED
    BY <2>1, <2>2, <2>3, ReconfigureStep
<1>4. CASE pc = "horizontalJoin" /\ Apply
  <2>1. Join("horizontal", next.horizontal, "toggle")
    BY <1>4 DEF Apply
  <2> QED
    BY <1>4, <2>1, JoinStep
<1>5. CASE pc = "rollback" /\ Apply
  <2>1. Reconfigure("height", next.height, previous.height, "rollbackJoin", Failed, Failed)
    BY <1>5 DEF Apply
  <2>2. \A i \in Listeners : {pc, Failed, Failed} \cap Joins(i) = {}
    BY <1>5 DEF Failed
  <2>3. "rollbackJoin" \in Joins("height") /\ next.height \in Keys \cup {Off} /\ previous.height \in Keys \cup {Off}
    OBVIOUS
  <2> QED
    BY <2>1, <2>2, <2>3, ReconfigureStep
<1>6. CASE pc = "rollbackJoin" /\ Apply
  <2>1. Join("height", previous.height, Failed)
    BY <1>6 DEF Apply
  <2> QED
    BY <1>6, <2>1, JoinStep DEF Failed
<1>7. CASE pc = "toggle" /\ ApplyToggle
  <2> DEFINE fail == IF booting THEN "failed" ELSE Applied
  <2>1. Reconfigure("toggle", previous.toggle, next.toggle, "toggleJoin", Applied, fail)
    BY <1>7 DEF ApplyToggle
  <2>2. \A i \in Listeners : {pc, Applied, fail} \cap Joins(i) = {}
    BY <1>7 DEF Applied
  <2>3. "toggleJoin" \in Joins("toggle") /\ previous.toggle \in Keys \cup {Off}
        /\ next.toggle \in Keys \cup {Off}
    OBVIOUS
  <2> HIDE DEF fail
  <2> QED
    BY <2>1, <2>2, <2>3, ReconfigureStep
<1>8. CASE pc = "toggleJoin" /\ ApplyToggle
  <2>1. Join("toggle", next.toggle, Applied)
    BY <1>8 DEF ApplyToggle
  <2> QED
    BY <1>8, <2>1, JoinStep DEF Applied
<1> QED
  BY <1>1, <1>2, <1>3, <1>4, <1>5, <1>6, <1>7, <1>8 DEF Apply, ApplyToggle

\* A listener's thread only ends after it has been told to, and sets what it sets
\* before that.
LEMMA ListenStep ==
    ASSUME LInv, NEW l \in Listeners, Listen(l)
    PROVE  LInv'
<1> USE DEF LInv, ListenerTypes
<1>1. UNCHANGED <<pc, running, started, key>>
  BY DEF Listen, Turn, Tick, Hold, ToggleKey, Flip
<1>2. CASE Turn(l)
  <2>1. /\ thread[l] = "poll" /\ UNCHANGED <<wasDown, pending>>
        /\ thread' = [thread EXCEPT ![l] = IF running[l] THEN "act" ELSE "none"]
        /\ active' = active \/ ~active'
        /\ active' \in BOOLEAN
    BY <1>2 DEF Turn, Goto
  <2>2. ListenerTypes' /\ Polling' /\ FlagsAgree'
    BY <1>1, <2>1 DEF Polling, FlagsAgree
  <2>3. Ended'
    BY <1>1, <2>1 DEF Ended
  <2>4. ~running[l] => pc \in Joins(l)
    BY <2>1 DEF Ended
  <2>5. ControlsIdle'
    BY <1>1, <2>1, <2>4, JoinSteps DEF ControlsIdle, Listeners
  <2> QED
    BY <2>2, <2>3, <2>5
<1>3. CASE l = "height" /\ Tick
  <2>1. /\ thread[l] = "act" /\ UNCHANGED <<wasDown, active>>
        /\ thread' = [thread EXCEPT ![l] = "poll"]
    BY <1>3 DEF Tick, Goto
  <2>2. pending' \in 0 .. MaxTicks
    BY <1>3, BoundAssumption DEF Tick
  <2> QED
    BY <1>1, <1>3, <2>1, <2>2 DEF Polling, FlagsAgree, Ended, ControlsIdle, Listeners
<1>4. CASE l = "horizontal" /\ Hold
  <2>1. /\ thread[l] = "act" /\ UNCHANGED pending
        /\ thread' = [thread EXCEPT ![l] = "poll"]
    BY <1>4 DEF Hold, Goto
  <2> DEFINE isDown == key["horizontal"] \in down
  <2>2. isDown \in BOOLEAN
    OBVIOUS
  <2>3. /\ wasDown' = [wasDown EXCEPT !["horizontal"] = isDown]
        /\ active' \in {isDown, active}
    BY <1>4 DEF Hold
  <2> HIDE DEF isDown
  <2>4. wasDown' \in [Listeners -> BOOLEAN] /\ active' \in BOOLEAN
    BY <2>2, <2>3
  <2> QED
    BY <1>1, <1>4, <2>1, <2>4 DEF Polling, FlagsAgree, Ended, ControlsIdle, Listeners
<1>5. CASE l = "toggle" /\ (ToggleKey \/ Flip)
  <2>1. /\ thread[l] # "none" /\ UNCHANGED inputs
        /\ thread' \in {[thread EXCEPT ![l] = "poll"], [thread EXCEPT ![l] = "flip"]}
    BY <1>5 DEF ToggleKey, Flip, Goto, inputs
  <2> DEFINE isDown == key["toggle"] \in down
  <2>2. isDown \in BOOLEAN
    OBVIOUS
  <2>3. wasDown' \in {wasDown, [wasDown EXCEPT !["toggle"] = isDown]}
    BY <1>5 DEF ToggleKey, Flip
  <2> HIDE DEF isDown
  <2>4. wasDown' \in [Listeners -> BOOLEAN]
    BY <2>2, <2>3
  <2> QED
    BY <1>1, <1>5, <2>1, <2>4 DEF Polling, FlagsAgree, Ended, ControlsIdle, Listeners, inputs
<1> QED
  BY <1>2, <1>3, <1>4, <1>5 DEF Listen

LEMMA ListenersNext == ASSUME TypeOK, LInv, [Next]_vars PROVE LInv'
<1>1. CASE Main
  BY <1>1, PlanningListeners, ApplyListeners DEF Main, Planning
<1>2. ASSUME NEW l \in Listeners, Listen(l) PROVE LInv'
  BY <1>2, ListenStep
<1>3. CASE Adjust
  <2>1. 0 \in 0 .. MaxTicks
    BY BoundAssumption
  <2> QED
    BY <1>3, <2>1 DEF Adjust, LInv, ListenerTypes, Ended, Polling, FlagsAgree, ControlsIdle, listeners
<1>4. CASE UNCHANGED <<pc, listeners, inputs>>
  BY <1>4 DEF LInv, ListenerTypes, Ended, Polling, FlagsAgree, ControlsIdle, listeners, inputs
<1>5. Consume \/ (\E c \in Files : Edit(c)) \/ (\E k \in Keys : PressOrRelease(k)) \/ UNCHANGED vars
          => UNCHANGED <<pc, listeners, inputs>>
  BY DEF Consume, Edit, PressOrRelease, vars
<1> QED
  BY <1>1, <1>2, <1>3, <1>4, <1>5 DEF Next

(***************************************************************************)
(* Types of all the rest.                                                  *)
(***************************************************************************)

\* What is read, and what is made of it without the position hook, is a
\* configuration.
LEMMA ReadTypes ==
    ASSUME TypeOK
    PROVE  /\ ReadFirst \in Config /\ ReadSecond \in Config
           /\ \A c \in Config : Effective(c) \in Config
<1>1. file \in Config /\ next \in Config
  BY FilesAssumption DEF TypeOK
<1> QED
  BY <1>1 DEF ReadFirst, ReadSecond, Effective, Config

Rest == /\ file \in Files /\ stamp \in 0 .. MaxEdits /\ lastStamp \in 0 .. MaxEdits
        /\ config \in Config /\ previous \in Config /\ next \in Config /\ copy \in Config
        /\ hook \in BOOLEAN /\ booting \in BOOLEAN
        /\ consumer \in {"idle", "adjust"} /\ down \subseteq Keys

LEMMA TypeParts ==
    TypeOK <=> Rest /\ ListenerTypes /\ pc \in StartUp \cup Watching \cup Applying
BY DEF TypeOK, Rest, ListenerTypes

\* Applying a configuration touches the listeners, what they set and pc.
LEMMA ApplySteps ==
    ASSUME Apply \/ ApplyToggle
    PROVE  /\ Unfinished
           /\ pc \in Applying
           /\ pc' \in Applying \cup {Failed, Applied, "failed"}
<1> USE DEF Applying
<1>1. CASE Apply
  BY <1>1 DEF Apply, Reconfigure, Bind, Join
<1>2. CASE ApplyToggle
  BY <1>2 DEF ApplyToggle, Reconfigure, Bind, Join
<1> QED
  BY <1>1, <1>2

LEMMA PlanningTypes == ASSUME TypeOK, Planning PROVE Rest'
<1> USE TypeParts DEF Rest
<1>1. UNCHANGED <<consumer, down, copy, disk>>
  BY PlanningStep
<1>2. UNCHANGED <<file, stamp>>
  BY <1>1 DEF disk
<1>3. ReadFirst \in Config /\ ReadSecond \in Config /\ \A c \in Config : Effective(c) \in Config
  BY ReadTypes
<1>4. Default \in Config
  BY DEF Default, Config
<1>5. CASE Load
  BY <1>1, <1>2, <1>3, <1>5 DEF Load, rest
<1>6. CASE LoadPosition
  BY <1>1, <1>2, <1>3, <1>6 DEF LoadPosition, rest, plan
<1>7. CASE Hooks
  <2>1. hook' \in BOOLEAN
    BY <1>7 DEF Hooks, Requested
  <2> QED
    BY <1>1, <1>2, <1>7, <2>1 DEF Hooks, plan
<1>8. CASE Fixup
  BY <1>1, <1>2, <1>3, <1>4, <1>8 DEF Fixup, rest
<1>9. CASE Baseline
  BY <1>1, <1>2, <1>9 DEF Baseline, rest
<1>10. CASE Poll
  BY <1>1, <1>2, <1>10 DEF Poll, rest, plan
<1>11. CASE Settle
  BY <1>1, <1>2, <1>11 DEF Settle, rest
<1>12. CASE Copy
  BY <1>1, <1>2, <1>12 DEF Copy, rest
<1>13. CASE Read
  BY <1>1, <1>2, <1>3, <1>13 DEF Read, rest
<1>14. CASE ReadPosition
  BY <1>1, <1>2, <1>3, <1>14 DEF ReadPosition, rest
<1>15. CASE Publish
  BY <1>1, <1>2, <1>15 DEF Publish, rest, plan
<1> QED
  BY <1>5, <1>6, <1>7, <1>8, <1>9, <1>10, <1>11, <1>12, <1>13, <1>14, <1>15 DEF Planning

LEMMA RestNext == ASSUME TypeOK, [Next]_vars PROVE Rest' /\ (pc \in StartUp \cup Watching \cup Applying)'
<1> USE TypeParts
<1>1. CASE Planning
  BY <1>1, PlanningTypes, PlanningStep DEF Applying
<1>2. CASE Apply \/ ApplyToggle
  <2>1. pc' \in StartUp \cup Watching \cup Applying
    BY <1>2, ApplySteps DEF StartUp, Watching, Failed, Applied
  <2>2. Rest'
    BY <1>2, ApplySteps DEF Unfinished, Rest, disk, plan, rest
  <2> QED
    BY <2>1, <2>2
<1>3. ASSUME NEW l \in Listeners, Listen(l)
      PROVE  Rest' /\ (pc \in StartUp \cup Watching \cup Applying)'
  <2>1. CASE Turn(l) \/ Tick \/ Hold
    BY <2>1 DEF Turn, Tick, Hold, Rest, disk, plan, rest
  <2>2. CASE ToggleKey
    BY <2>2 DEF ToggleKey, Rest, disk, plan
  <2>3. CASE Flip
    <3>1. [copy EXCEPT !.outgoing = ~copy.outgoing] \in Config
      BY DEF Rest, Config
    <3>2. Default \in Config
      BY DEF Default, Config
    <3> QED
      BY <2>3, <3>1, <3>2 DEF Flip, Rest, disk, plan
  <2> QED
    BY <1>3, <2>1, <2>2, <2>3 DEF Listen
<1>4. CASE Consume \/ Adjust
  BY <1>4 DEF Consume, Adjust, Rest, disk, plan
<1>5. ASSUME NEW c \in Files, Edit(c)
      PROVE  Rest' /\ (pc \in StartUp \cup Watching \cup Applying)'
  BY <1>5, BoundAssumption DEF Edit, Rest, plan, rest
<1>6. ASSUME NEW k \in Keys, PressOrRelease(k)
      PROVE  Rest' /\ (pc \in StartUp \cup Watching \cup Applying)'
  BY <1>6 DEF PressOrRelease, Rest, disk, plan
<1>7. CASE UNCHANGED vars
  BY <1>7 DEF vars, Rest, disk, plan, rest
<1> QED
  BY <1>1, <1>2, <1>3, <1>4, <1>5, <1>6, <1>7 DEF Next, Main, Planning

(***************************************************************************)
(* Who follows which configuration.                                        *)
(***************************************************************************)

\* Up to the join, a listener that agreed with the old binding agrees with the new
\* one or has been stopped, and starting it cannot have failed.
LEMMA Reconfigured ==
    ASSUME LInv, NEW l \in Listeners, NEW from, NEW to, NEW join, NEW ok, NEW fail,
           Reconfigure(l, from, to, join, ok, fail),
           running[l] = (from # Off), running[l] => key[l] = from
    PROVE  /\ \/ pc' = ok /\ running'[l] = (to # Off) /\ (running'[l] => key'[l] = to)
              \/ pc' = join /\ from # Off /\ ~running'[l]
           /\ \A i \in Listeners \ {l} : running'[i] = running[i] /\ key'[i] = key[i]
<1> USE DEF LInv, ListenerTypes
<1>1. CASE UNCHANGED listeners /\ pc' = ok /\ from = to
  BY <1>1 DEF listeners
<1>2. CASE Halt(l) /\ pc' = join /\ from # Off
  BY <1>2 DEF Halt
<1>3. CASE from = Off \/ ~started[l]
  <2>1. ~running[l] /\ from = Off
    BY <1>3 DEF FlagsAgree
  <2>2. CASE to = Off /\ UNCHANGED listeners /\ pc' = ok
    BY <2>1, <2>2 DEF listeners
  <2>3. CASE to # Off /\ Start(l, to) /\ pc' = ok
    BY <2>3 DEF Start
  <2> QED
    BY <1>1, <1>2, <2>1, <2>2, <2>3 DEF Reconfigure, Bind
<1> QED
  BY <1>1, <1>2, <1>3 DEF Reconfigure

LEMMA Joined ==
    ASSUME LInv, NEW l \in Listeners, NEW to, NEW ok, Join(l, to, ok), ~running[l]
    PROVE  /\ pc' = ok /\ running'[l] = (to # Off) /\ (running'[l] => key'[l] = to)
           /\ \A i \in Listeners \ {l} : running'[i] = running[i] /\ key'[i] = key[i]
<1> USE DEF LInv, ListenerTypes
<1>1. CASE to = Off /\ UNCHANGED listeners
  BY <1>1 DEF Join, listeners
<1>2. CASE to # Off /\ Start(l, to)
  BY <1>2 DEF Join, Start
<1> QED
  BY <1>1, <1>2 DEF Join

\* A listener that has had a key keeps one.
LEMMA KeysStay ==
    ASSUME LInv, [Next]_vars, NEW l \in Listeners, key[l] # Off
    PROVE  key'[l] # Off
<1> USE DEF LInv, ListenerTypes
<1>1. \A i \in Listeners : \A k : k # Off /\ Start(i, k) => key'[l] # Off
  BY DEF Start
<1>2. \A i \in Listeners : \A from, to, join, ok, fail :
          Reconfigure(i, from, to, join, ok, fail) => key'[l] # Off
  BY <1>1 DEF Reconfigure, Bind, Halt, listeners
<1>3. \A i \in Listeners : \A to, ok : Join(i, to, ok) => key'[l] # Off
  BY <1>1 DEF Join, listeners
<1>4. CASE Apply \/ ApplyToggle
  BY <1>2, <1>3, <1>4 DEF Apply, ApplyToggle, Listeners
<1>5. CASE Planning
  BY <1>5, PlanningStep DEF listeners
<1>6. CASE (\E i \in Listeners : Listen(i)) \/ Consume \/ Adjust \/ (\E c \in Files : Edit(c))
           \/ (\E k \in Keys : PressOrRelease(k)) \/ UNCHANGED vars
  BY <1>6 DEF Listen, Turn, Tick, Hold, ToggleKey, Flip, Consume, Adjust, Edit, PressOrRelease,
              vars, listeners
<1> QED
  BY <1>4, <1>5, <1>6 DEF Next, Main, Planning

\* While the toggle is unbound its thread does not exist, so only the reload
\* publishes.
LEMMA NoToggle ==
    ASSUME LInv, Untoggled
    PROVE  ~running["toggle"] /\ thread["toggle"] = "none" /\ ~ToggleKey /\ ~Flip
<1>1. ~running["toggle"] /\ thread["toggle"] = "none"
  BY DEF LInv, ListenerTypes, Polling, Untoggled, Listeners
<1> QED
  BY <1>1 DEF ToggleKey, Flip

\* What Follows gives in each step.
LEMMA FollowsAt ==
    ASSUME NEW l \in Listeners
    PROVE  /\ pc \in Before => Follows(l) = Default
           /\ pc \in {"sleep", "settle", "copy", "read", "readPosition"} => Follows(l) = config
           /\ pc \in {"baseline", "publish"} => Follows(l) = next
           /\ pc \in {"horizontal", "horizontalJoin"} =>
                  Follows(l) = IF l = "height" THEN next ELSE previous
           /\ pc = "toggle" => Follows(l) = IF l = "toggle" THEN previous ELSE next
           /\ pc \in {"height", "heightJoin"} => Follows(l) = previous
BY DEF Follows, Before

Consistent == Followed /\ Copies

\* The steps that only read, wait and publish.
LEMMA PlanningConsistent == ASSUME IInv, Planning PROVE Consistent'
<1>1. UNCHANGED <<running, key>>
  BY PlanningStep DEF listeners
<1>2. Untoggled' <=> Untoggled
  BY <1>1 DEF Untoggled
<1>3. \A l \in Listeners : pc \notin Joins(l) /\ pc' \notin Joins(l)
  BY PlanningStep, JoinSteps DEF StartUp, Watching, Listeners
<1>4. /\ pc' \notin {"rollback", "rollbackJoin", "toggleJoin"}
      /\ Untoggled' /\ pc # "failed" => \A l \in Listeners : Matches(l, Follows(l))
  BY <1>2, <1>3, PlanningStep DEF IInv, Followed, StartUp, Watching
<1>5. Listeners # {}
  BY DEF Listeners
<1>6. SUFFICES ASSUME NEW l \in Listeners
               PROVE  /\ Untoggled' /\ pc' # "failed" => pc # "failed" /\ Follows(l)' = Follows(l)
                      /\ Copies'
  BY <1>1, <1>5, <1>3, <1>4, <1>6 DEF Consistent, Followed, Matches
<1> USE <1>2 DEF IInv, Copies, Follows, Before, Watching, Applying
<1>7. CASE Load BY <1>7 DEF Load, rest
<1>8. CASE LoadPosition BY <1>8 DEF LoadPosition, rest, plan
<1>9. CASE Hooks BY <1>9 DEF Hooks, plan
<1>10. CASE Fixup BY <1>10 DEF Fixup, rest
<1>11. CASE Baseline BY <1>11 DEF Baseline, rest
<1>12. CASE Poll BY <1>12 DEF Poll, rest, plan
<1>13. CASE Settle BY <1>13 DEF Settle, rest
<1>14. CASE Copy BY <1>14 DEF Copy, rest
<1>15. CASE Read BY <1>15 DEF Read, rest
<1>16. CASE ReadPosition BY <1>16 DEF ReadPosition, rest
<1>17. CASE Publish BY <1>17 DEF Publish, rest, plan
<1> QED
  BY <1>7, <1>8, <1>9, <1>10, <1>11, <1>12, <1>13, <1>14, <1>15, <1>16, <1>17 DEF Planning

\* Bringing the listeners over, one after the other, which cannot fail as long as
\* the toggle is unbound.
LEMMA ApplyConsistent ==
    ASSUME IInv, Apply \/ ApplyToggle
    PROVE  /\ Consistent'
           /\ Untoggled' => pc' \in Applying \cup {Applied}
<1>1. Copies'
  <2>1. UNCHANGED <<config, booting, previous, next>> /\ pc \in Applying
        /\ pc' \in Applying \cup {Failed, Applied, "failed"}
    BY ApplySteps DEF Unfinished, plan
  <2>2. Untoggled' => Untoggled
    <3>1. [Next]_vars
      BY DEF Next, Main
    <3> QED
      BY <3>1, KeysStay, TypeParts DEF IInv, LInv, Untoggled, Listeners
  <2> QED
    BY <2>1, <2>2 DEF IInv, Copies, Before, Watching, Applying, Failed, Applied
<1> SUFFICES ASSUME Untoggled'
             PROVE  /\ pc' \in Applying \cup {Applied}
                    /\ pc' \notin {"rollback", "rollbackJoin", "toggleJoin"}
                    /\ \A l \in Listeners : IF pc' \in Joins(l) THEN ~running'[l] ELSE Matches(l, Follows(l))'
  BY <1>1 DEF Consistent, Followed
<1>2. /\ LInv /\ Untoggled
      /\ pc \notin {"rollback", "rollbackJoin", "toggleJoin"}
      /\ \A l \in Listeners : IF pc \in Joins(l) THEN ~running[l] ELSE Matches(l, Follows(l))
  <2>1. LInv /\ [Next]_vars
    BY TypeParts DEF IInv, LInv, Next, Main
  <2>2. Untoggled
    BY <2>1, KeysStay DEF Untoggled, Listeners
  <2> QED
    BY <2>1, <2>2, ApplySteps DEF IInv, Followed, Applying
<1>3. ~running["toggle"]
  BY <1>2, NoToggle
<1>4. UNCHANGED <<config, previous, next>>
  BY ApplySteps DEF Unfinished, plan
<1> USE DEF Listeners, Applying
<1>5. CASE pc = "height" /\ Apply
  <2>1. Reconfigure("height", previous.height, next.height, "heightJoin", "horizontal", Failed)
    BY <1>5 DEF Apply
  <2>2. \A i \in Listeners : Matches(i, Follows(i))
    BY <1>5, <1>2, JoinSteps
  <2>3. Matches("height", previous)
    BY <1>5, <2>2, FollowsAt
  <2>4. /\ \/ /\ pc' = "horizontal" /\ running'["height"] = (next["height"] # Off)
              /\ running'["height"] => key'["height"] = next["height"]
           \/ pc' = "heightJoin" /\ ~running'["height"]
        /\ \A i \in Listeners \ {"height"} : running'[i] = running[i] /\ key'[i] = key[i]
    BY <1>2, <2>1, <2>3, Reconfigured DEF Matches
  <2>5. CASE pc' = "horizontal"
    BY <1>5, <1>4, <2>2, <2>4, <2>5, JoinSteps DEF Matches, Follows, Before
  <2>6. CASE pc' = "heightJoin"
    BY <1>5, <1>4, <2>2, <2>4, <2>6, JoinSteps DEF Matches, Follows, Before
  <2> QED
    BY <2>4, <2>5, <2>6
<1>6. CASE pc = "heightJoin" /\ Apply
  <2>1. Join("height", next.height, "horizontal")
    BY <1>6 DEF Apply
  <2>2. ~running["height"] /\ \A i \in Listeners \ {"height"} : Matches(i, Follows(i))
    BY <1>6, <1>2, JoinSteps
  <2>3. /\ pc' = "horizontal" /\ running'["height"] = (next["height"] # Off)
        /\ running'["height"] => key'["height"] = next["height"]
        /\ \A i \in Listeners \ {"height"} : running'[i] = running[i] /\ key'[i] = key[i]
    BY <1>2, <2>1, <2>2, Joined
  <2> QED
    BY <1>6, <1>4, <2>2, <2>3, JoinSteps DEF Matches, Follows, Before
<1>7. CASE pc = "horizontal" /\ Apply
  <2>1. Reconfigure("horizontal", previous.horizontal, next.horizontal, "horizontalJoin", "toggle", "rollback")
    BY <1>7 DEF Apply
  <2>2. \A i \in Listeners : Matches(i, Follows(i))
    BY <1>7, <1>2, JoinSteps
  <2>3. Matches("horizontal", previous)
    BY <1>7, <2>2, FollowsAt
  <2>4. /\ \/ /\ pc' = "toggle" /\ running'["horizontal"] = (next["horizontal"] # Off)
              /\ running'["horizontal"] => key'["horizontal"] = next["horizontal"]
           \/ pc' = "horizontalJoin" /\ ~running'["horizontal"]
        /\ \A i \in Listeners \ {"horizontal"} : running'[i] = running[i] /\ key'[i] = key[i]
    BY <1>2, <2>1, <2>3, Reconfigured DEF Matches
  <2>5. CASE pc' = "toggle"
    BY <1>7, <1>4, <2>2, <2>4, <2>5, JoinSteps DEF Matches, Follows, Before
  <2>6. CASE pc' = "horizontalJoin"
    BY <1>7, <1>4, <2>2, <2>4, <2>6, JoinSteps DEF Matches, Follows, Before
  <2> QED
    BY <2>4, <2>5, <2>6
<1>8. CASE pc = "horizontalJoin" /\ Apply
  <2>1. Join("horizontal", next.horizontal, "toggle")
    BY <1>8 DEF Apply
  <2>2. ~running["horizontal"] /\ \A i \in Listeners \ {"horizontal"} : Matches(i, Follows(i))
    BY <1>8, <1>2, JoinSteps
  <2>3. /\ pc' = "toggle" /\ running'["horizontal"] = (next["horizontal"] # Off)
        /\ running'["horizontal"] => key'["horizontal"] = next["horizontal"]
        /\ \A i \in Listeners \ {"horizontal"} : running'[i] = running[i] /\ key'[i] = key[i]
    BY <1>2, <2>1, <2>2, Joined
  <2> QED
    BY <1>8, <1>4, <2>2, <2>3, JoinSteps DEF Matches, Follows, Before
<1>9. CASE pc = "toggle" /\ ApplyToggle
  <2>1. \E fail : Reconfigure("toggle", previous.toggle, next.toggle, "toggleJoin", Applied, fail)
    BY <1>9 DEF ApplyToggle
  <2>2. \A i \in Listeners : Matches(i, Follows(i))
    BY <1>9, <1>2, JoinSteps
  <2>3. Matches("toggle", previous)
    BY <1>9, <2>2, FollowsAt
  <2>4. previous["toggle"] = Off
    BY <1>3, <2>3 DEF Matches
  <2>5. /\ pc' = Applied /\ running'["toggle"] = (next["toggle"] # Off)
        /\ running'["toggle"] => key'["toggle"] = next["toggle"]
        /\ \A i \in Listeners \ {"toggle"} : running'[i] = running[i] /\ key'[i] = key[i]
    BY <1>2, <2>1, <2>3, <2>4, Reconfigured DEF Matches
  <2>6. pc' \in {"baseline", "publish"}
    BY <2>5 DEF Applied
  <2> QED
    BY <1>9, <1>4, <2>2, <2>5, <2>6, JoinSteps DEF Matches, Follows, Before
<1> QED
  BY <1>2, <1>5, <1>6, <1>7, <1>8, <1>9 DEF Apply, ApplyToggle

\* Nobody else brings a listener to another binding, and while the toggle is unbound
\* nobody else publishes.
LEMMA OthersConsistent ==
    ASSUME IInv, [Next]_vars, ~Main
    PROVE  Consistent'
<1>1. LInv
  BY TypeParts DEF IInv, LInv
<1>2. UNCHANGED <<pc, booting, previous, next, running, key>>
  BY DEF Next, Listen, Turn, Tick, Hold, ToggleKey, Flip, Consume, Adjust, Edit, PressOrRelease,
         vars, plan, listeners
<1>3. Untoggled => UNCHANGED config
  BY <1>1, NoToggle DEF Next, Listen, Turn, Tick, Hold, Consume, Adjust, Edit, PressOrRelease, vars
<1>4. Untoggled' <=> Untoggled
  BY <1>2 DEF Untoggled
<1>5. Copies'
  BY <1>2, <1>3, <1>4 DEF IInv, Copies
<1>6. Followed'
  BY <1>2, <1>3, <1>4 DEF IInv, Followed, Matches, Follows
<1> QED
  BY <1>5, <1>6 DEF Consistent

(***************************************************************************)
(* The theorems.                                                           *)
(***************************************************************************)
LEMMA InitInv == Init => IInv
<1> SUFFICES ASSUME Init PROVE IInv
  OBVIOUS
<1> USE DEF Init
<1>1. Default \in Config
  BY DEF Default, Config
<1>2. TypeOK
  <2>1. 0 \in 0 .. MaxEdits /\ 0 \in 0 .. MaxTicks
    BY BoundAssumption
  <2>2. Rest
    BY <1>1, <2>1 DEF Rest
  <2>3. ListenerTypes
    BY <2>1 DEF ListenerTypes
  <2> QED
    BY <2>2, <2>3, TypeParts DEF StartUp
<1>3. Ended /\ Polling /\ FlagsAgree /\ ControlsIdle /\ Copies
  BY DEF Ended, Polling, FlagsAgree, ControlsIdle, Copies, Watching, Applying, Before, Listeners
<1>4. Followed
  <2>1. \A l \in Listeners : Default[l] = Off
    BY DEF Default, Listeners
  <2>2. \A l \in Listeners : Follows(l) = Default /\ pc \notin Joins(l)
    BY FollowsAt, JoinSteps DEF Before, Listeners
  <2>3. \A l \in Listeners : ~running[l]
    OBVIOUS
  <2> QED
    BY <2>1, <2>2, <2>3 DEF Followed, Matches
<1> QED
  BY <1>2, <1>3, <1>4 DEF IInv

\* The invariant: who runs which listener for which configuration in which step.
THEOREM ReloadInductive == Spec => []IInv
<1>1. IInv /\ [Next]_vars => IInv'
  <2> SUFFICES ASSUME IInv, [Next]_vars PROVE IInv'
    OBVIOUS
  <2>1. TypeOK /\ LInv
    BY TypeParts DEF IInv, LInv
  <2>2. LInv'
    BY <2>1, ListenersNext
  <2>3. Rest' /\ (pc \in StartUp \cup Watching \cup Applying)'
    BY <2>1, RestNext
  <2>4. TypeOK'
    BY <2>2, <2>3 DEF TypeOK, Rest, LInv, ListenerTypes
  <2>5. Consistent'
    BY PlanningConsistent, ApplyConsistent, OthersConsistent DEF Main, Planning
  <2> QED
    BY <2>2, <2>4, <2>5 DEF IInv, LInv, Consistent
<1> QED
  BY InitInv, <1>1, PTL DEF Spec

\* Every variable keeps its type: a running listener has a key, and what is read or
\* published is a configuration.
THEOREM TypeCorrect == Spec => []TypeOK
<1>1. IInv => TypeOK
  BY DEF IInv
<1> QED
  BY <1>1, ReloadInductive, PTL

\* A control that is off has no effect left over, whatever its thread was about to do
\* when it was told to stop.
THEOREM ControlsLeaveNothing == Spec => []ControlsIdle
<1>1. IInv => ControlsIdle
  BY DEF IInv
<1> QED
  BY <1>1, ReloadInductive, PTL

\* Between two reloads the listeners are those of the published configuration, as
\* long as the toggle has never been bound.
THEOREM ListenersFollow == Spec => []ListenersMatch
<1>1. IInv => ListenersMatch
  <2> SUFFICES ASSUME IInv, pc = "sleep", Untoggled, NEW l \in Listeners
               PROVE  /\ running[l] = (config[l] # Off) /\ started[l] = running[l]
                      /\ running[l] => key[l] = config[l]
    BY DEF ListenersMatch
  <2>1. Matches(l, Follows(l))
    BY JoinSteps DEF IInv, Followed, Listeners
  <2>2. Follows(l) = config
    BY FollowsAt
  <2> QED
    BY <2>1, <2>2 DEF IInv, FlagsAgree, Matches
<1> QED
  BY <1>1, ReloadInductive, PTL

\* No live thread is replaced by a new one of the same listener.
THEOREM ThreadsEndFirst == Spec => NoThreadReplaced
<1>1. IInv /\ [Next]_vars => [\A l \in Listeners : started'[l] /\ ~started[l] => thread[l] = "none"]_vars
  <2> SUFFICES ASSUME IInv, [Next]_vars, NEW l \in Listeners, started'[l], ~started[l]
               PROVE  thread[l] = "none"
    OBVIOUS
  <2>1. LInv /\ ~running[l]
    BY TypeParts DEF IInv, LInv, FlagsAgree
  <2>2. Apply \/ ApplyToggle
    BY PlanningStep DEF Next, Main, Planning, Listen, Turn, Tick, Hold, ToggleKey, Flip, Consume,
                        Adjust, Edit, PressOrRelease, vars, listeners
  <2>3. CASE pc \in Joins(l)
    BY <2>2, <2>3, JoinSteps DEF Apply, ApplyToggle, Join, Listeners
  <2> QED
    BY <2>1, <2>3 DEF LInv, Ended
<1> QED
  BY <1>1, ReloadInductive, PTL DEF Spec, NoThreadReplaced

(***************************************************************************)
(* What is published is the file.                                          *)
(***************************************************************************)

\* Two readings of an unchanged file give the whole of it.
LEMMA ReadWhole == ASSUME TypeOK, next = ReadFirst PROVE ReadSecond = file
<1>1. file \in Config
  BY FilesAssumption DEF TypeOK
<1> QED
  BY <1>1 DEF ReadFirst, ReadSecond, Config

LEMMA PromisedPlanning ==
    ASSUME IInv, Promised, Planning, Quiet, Quiet'
    PROVE  Promised'
<1> USE DEF Promised, IInv
<1>1. UNCHANGED <<file, stamp>> /\ Untoggled
  BY PlanningStep DEF disk, Quiet
<1>2. stamp \in Nat /\ lastStamp \in Nat
  BY BoundAssumption, TypeParts DEF Rest
<1>3. Applying \cap {"load", "loadPosition", "hooks", "fixup", "baseline", "failed", "sleep",
                      "settle", "copy", "read", "readPosition", "publish"} = {}
  BY DEF Applying
<1>4. CASE Load
  BY <1>1, <1>3, <1>4 DEF Load, ReadFirst, rest
<1>5. CASE LoadPosition
  BY <1>1, <1>3, <1>5, ReadWhole DEF LoadPosition, rest, plan
<1>6. CASE Hooks
  BY <1>1, <1>3, <1>6 DEF Hooks, plan
<1>7. CASE Fixup
  BY <1>1, <1>3, <1>7 DEF Fixup, Effective, Requested, rest
<1>8. CASE Baseline
  BY <1>1, <1>2, <1>3, <1>8 DEF Baseline, Effective, Requested, Copies, Quiet, rest
<1>9. CASE Poll
  BY <1>1, <1>3, <1>9 DEF Poll, rest, plan
<1>10. CASE Settle
  BY <1>1, <1>2, <1>3, <1>10 DEF Settle, Copies, Watching, rest
<1>11. CASE Copy
  BY <1>1, <1>3, <1>11 DEF Copy, rest
<1>12. CASE Read
  BY <1>1, <1>3, <1>12 DEF Read, ReadFirst, rest
<1>13. CASE ReadPosition
  <2>1. /\ previous = config /\ next' = Effective(ReadSecond)
        /\ UNCHANGED <<lastStamp, booting, config, hook>>
        /\ pc' = (IF next' = previous THEN "sleep" ELSE "height")
    BY <1>1, <1>13 DEF ReadPosition, Copies, rest
  <2>2. stamp = lastStamp => next' = Effective(file)'
    <3>1. stamp = lastStamp => ReadSecond = file
      BY <1>13, ReadWhole DEF ReadPosition
    <3>2. Effective(file)' = Effective(file)
      BY <1>1, <2>1 DEF Effective, Requested
    <3> QED
      BY <2>1, <3>1, <3>2
  <2>3. (lastStamp <= stamp)' /\ (booting => lastStamp = 0)'
    BY <1>1, <2>1
  <2>4. CASE pc' = "sleep" /\ next' = previous
    BY <1>1, <1>3, <2>1, <2>2, <2>3, <2>4
  <2>5. CASE pc' = "height"
    BY <1>1, <1>3, <2>1, <2>2, <2>3, <2>5
  <2> QED
    BY <2>1, <2>4, <2>5
<1>14. CASE Publish
  BY <1>1, <1>3, <1>14 DEF Publish, Effective, Requested, rest, plan
<1> QED
  BY <1>4, <1>5, <1>6, <1>7, <1>8, <1>9, <1>10, <1>11, <1>12, <1>13, <1>14 DEF Planning

LEMMA PromisedNext ==
    ASSUME IInv, Promised, [Next]_vars, Quiet, Quiet'
    PROVE  Promised'
<1> USE DEF Promised
<1>1. LInv /\ Untoggled /\ Untoggled'
  BY TypeParts DEF IInv, LInv, Quiet
<1>2. stamp \in Nat /\ lastStamp \in Nat
  BY BoundAssumption DEF IInv, TypeOK
<1>3. CASE Planning
  BY <1>3, PromisedPlanning
<1>4. CASE Apply \/ ApplyToggle
  <2>1. UNCHANGED <<file, stamp, lastStamp, booting, next, config, hook>>
    BY <1>4, ApplySteps DEF Unfinished, disk, plan, rest
  <2>2. pc \in Applying /\ pc' \in Applying \cup {Applied}
    BY <1>1, <1>4, ApplySteps, ApplyConsistent
  <2>3. Effective(file)' = Effective(file)
    BY <2>1 DEF Effective, Requested
  <2>4. pc' = "baseline" => booting
    BY <2>2 DEF Applied, Applying
  <2>5. pc' = "baseline" => config = next
    BY <1>1, <2>2, <2>4 DEF IInv, Copies
  <2> QED
    BY <2>1, <2>2, <2>3, <2>5 DEF Applying, Applied
<1>5. ASSUME NEW c \in Files, Edit(c) PROVE Promised'
  <2>1. stamp' = stamp + 1 /\ UNCHANGED <<lastStamp, booting>>
    BY <1>5 DEF Edit, plan
  <2> QED
    BY <1>2, <2>1
<1>6. CASE \/ \E l \in Listeners : Listen(l)
           \/ Consume \/ Adjust \/ (\E k \in Keys : PressOrRelease(k)) \/ UNCHANGED vars
  <2>1. ~ToggleKey /\ ~Flip
    BY <1>1, NoToggle
  <2>2. UNCHANGED <<file, stamp, lastStamp, booting, next, config, hook, pc>>
    BY <1>6, <2>1 DEF Listen, Turn, Tick, Hold, Consume, Adjust, PressOrRelease, vars, disk, plan, rest
  <2>3. Effective(file)' = Effective(file)
    BY <2>2 DEF Effective, Requested
  <2>4. ReadFirst' = ReadFirst
    BY <2>2 DEF ReadFirst
  <2> QED
    BY <2>2, <2>3, <2>4
<1> QED
  BY <1>3, <1>4, <1>5, <1>6 DEF Next, Main, Planning

\* The safety half of README.md:63: whenever the watcher has nothing new to look at,
\* what is published is the file, whichever edits fell between its readings, unless
\* the toggle has been bound or something was saved before its first time stamp.
THEOREM FileIsPublished == Spec => PublishedIsFile
<1>1. Init => Promised
  BY FilesAssumption, BoundAssumption DEF Init, Promised, Applying
<1>2. IInv /\ Promised /\ [Next]_vars /\ Quiet /\ Quiet' => Promised'
  BY PromisedNext
<1>3. Promised => UpToDate
  BY DEF Promised, UpToDate
<1> QED
  BY <1>1, <1>2, <1>3, ReloadInductive, PTL DEF Spec, PublishedIsFile
=============================================================================
