-------------------------- MODULE HookLoadoutProofs --------------------------
(* Theorems about HookLoadout, for every set of configurations. *)
EXTENDS HookLoadout, TLAPS

LEMMA StartLength == Len(StartOrder) = 28
BY DEF StartOrder

LEMMA StopLength == Len(StopOrder) = 26
BY DEF StopOrder

\* Where in StartOrder the steps are that the invariants speak of.
LEMMA StartPlaces ==
    ASSUME NEW i \in 1 .. 28
    PROVE  /\ StartOrder[i] = "flying" <=> i = 8
           /\ StartOrder[i] = "cave" <=> i = 7
           /\ StartOrder[i] = "affinity" <=> i = 12
           /\ StartOrder[i] = "prepare" <=> i = 13
           /\ StartOrder[i] = "current" <=> i = 14
           /\ StartOrder[i] = "vary" <=> i = 15
           /\ StartOrder[i] = "logout" <=> i = 16
           /\ StartOrder[i] = "delta" <=> i = 21
           /\ StartOrder[i] = "position" <=> i = 23
           /\ StartOrder[i] = "fixup" <=> i = 25
           /\ StartOrder[i] = "controls" <=> i = 26
           /\ StartOrder[i] = "watcher" <=> i = 28
BY DEF StartOrder

LEMMA StartDistinct ==
    ASSUME NEW i \in 1 .. 28, NEW j \in 1 .. 28, StartOrder[i] = StartOrder[j]
    PROVE  i = j
BY DEF StartOrder

LEMMA StopPlaces ==
    ASSUME NEW i \in 1 .. 26
    PROVE  /\ StopOrder[i] = "watcher" <=> i = 2
           /\ StopOrder[i] = "controls" <=> i = 3
           /\ StopOrder[i] = "toggle" <=> i = 4
           /\ StopOrder[i] = "flying" <=> i = 19
           /\ StopOrder[i] = "cave" <=> i = 20
BY DEF StopOrder

LEMMA StartResources ==
    ASSUME NEW i \in 1 .. 28, StartOrder[i] \notin {"affinity", "fixup"}
    PROVE  StartOrder[i] \in Resources
BY StopLength DEF StartOrder, StopOrder, Resources

(***************************************************************************)
(* Types.                                                                  *)
(***************************************************************************)
LEMMA EffectiveType ==
    ASSUME NEW c \in SUBSET Settings
    PROVE  Effective(c) \in SUBSET Settings
BY DEF Effective

LEMMA InitTypes == Init => TypeOK
<1> SUFFICES ASSUME Init PROVE TypeOK
  OBVIOUS
<1>1. config \subseteq Settings
  BY ConfigsAssumption DEF Init
<1>2. at \in 1 .. Len(StartOrder) /\ pc = "start"
  BY StartLength DEF Init
<1> QED
  BY <1>1, <1>2 DEF Init, TypeOK

\* Every variable keeps its type: in particular the walk through StartOrder and
\* StopOrder never leaves them.
THEOREM TypeCorrect == Spec => []TypeOK
<1> USE StartLength, StopLength
<1>1. Init => TypeOK
  BY InitTypes
<1>2. TypeOK /\ [Next]_vars => TypeOK'
  <2> SUFFICES ASSUME TypeOK, [Next]_vars PROVE TypeOK'
    OBVIOUS
  <2> USE DEF TypeOK
  <2>a. ASSUME Advance, pc = "start"
        PROVE  pc' \in {"start", "running"} /\ at' \in 1 .. 28
    BY <2>a DEF Advance
  <2>1. CASE Start
    <3>1. Step \in Resources
      BY <2>1, StartResources DEF Start, Step
    <3> QED
      BY <2>1, <2>a, <3>1 DEF Start, histories
  <2>2. CASE StartEssentialFails
    BY <2>2 DEF StartEssentialFails, Tear, histories
  <2>3. CASE StartOptionalFails
    <3>1. Step \in Resources /\ "flying" \in Resources
      <4>1. StartOrder[8] = "flying"
        BY DEF StartOrder
      <4> QED
        BY <2>3, <4>1, StartResources DEF StartOptionalFails, Step
    <3> QED
      BY <2>3, <2>a, <3>1 DEF StartOptionalFails
  <2>4. CASE ChooseAffinity
    BY <2>4, <2>a DEF ChooseAffinity
  <2>5. CASE AffinityFails
    BY <2>5 DEF AffinityFails
  <2>6. CASE RemoveAffinityHooks
    <3>1. (CHOOSE i \in 1 .. 28 : StartOrder[i] = "delta") \in 1 .. 28
      BY StartPlaces
    <3> QED
      BY <2>6, <3>1 DEF RemoveAffinityHooks, histories
  <2>7. CASE Fixup
    BY <2>7, <2>a, EffectiveType DEF Fixup, histories
  <2>8. CASE Throw
    BY <2>8 DEF Throw, Tear, histories
  <2>9. CASE Stop
    <3>1. pc' \in {"stop", "gone", "failed"} /\ at' \in 1 .. 26
      BY <2>9 DEF Stop, StopNext
    <3> QED
      BY <2>9, <3>1 DEF Stop, StopNext, histories
  <2>10. CASE Detach
    BY <2>10 DEF Detach, Tear, histories
  <2>11. ASSUME NEW c \in Configs, Reload(c) PROVE TypeOK'
    <3>1. StopOrder[3] = "controls" /\ StopOrder[4] = "toggle"
      BY DEF StopOrder
    <3>2. {"controls", "toggle"} \subseteq Resources
      BY <3>1 DEF Resources
    <3>3. Effective(c) \in SUBSET Settings
      BY ConfigsAssumption, EffectiveType
    <3>4. warned' \in BOOLEAN
      BY <2>11 DEF Reload, DidHookRequirementsChange
    <3> QED
      BY <2>11, <3>2, <3>3, <3>4 DEF Reload
  <2>12. CASE ToggleOutgoingDamage
    <3>1. "outgoing" \in Settings
      BY DEF Settings
    <3> QED
      BY <2>12, <3>1 DEF ToggleOutgoingDamage
  <2>13. CASE UNCHANGED vars
    BY <2>13 DEF vars, histories
  <2> QED
    BY <2>1, <2>2, <2>3, <2>4, <2>5, <2>6, <2>7, <2>8, <2>9, <2>10, <2>11, <2>12, <2>13
       DEF Next, Main
<1> QED
  BY <1>1, <1>2, PTL DEF Spec

(***************************************************************************)
(* The invariant.                                                          *)
(***************************************************************************)

\* What the start-up has still to start is not there ...
Ahead ==
    /\ pc \in {"start", "dropAffinity"} => \A i \in at .. 28 : StartOrder[i] \notin live
    /\ pc = "dropAffinity" => at <= 16

\* ... and what has been stopped is gone, for the watcher is stopped before the
\* listeners it could start again.
Behind == pc = "stop" => \A i \in 1 .. at - 1 : StopOrder[i] \notin live

\* A site is hooked only if it is of the pair found, its first side first, and the
\* second side directly after it.
OnePair ==
    /\ "prepare" \in live \/ "current" \in live => pair = "legacy"
    /\ "vary" \in live \/ "logout" \in live => pair = "friendly"

FirstSide ==
    /\ pc # "stop" /\ "current" \in live => "prepare" \in live
    /\ pc # "stop" /\ "logout" \in live => "vary" \in live
    /\ pc = "start" /\ at = 14 /\ pair = "legacy" => "prepare" \in live
    /\ pc = "start" /\ at = 16 /\ pair = "friendly" => "vary" \in live

SecondSide ==
    /\ pc \in {"start", "running"} /\ "prepare" \in live /\ "current" \notin live =>
           pc = "start" /\ at = 14
    /\ pc \in {"start", "running"} /\ "vary" \in live /\ "logout" \notin live =>
           pc = "start" /\ at = 16

\* Position control is tied to its hook from the fix-up on, its listeners are from
\* the next step on.
Tied ==
    /\ pc = "running" \/ (pc = "start" /\ at > 25) =>
           ("position" \in config => "position" \in live)
    /\ pc = "running" \/ (pc = "start" /\ at > 26) =>
           ("controls" \in live <=> "position" \in config)

IInv == /\ TypeOK /\ Ahead /\ Behind
        /\ OnePair /\ FirstSide /\ SecondSide
        /\ CaveOutlivesHook /\ Tied /\ NothingLeft

USE DEF Step

LEMMA AdvanceStep ==
    ASSUME TypeOK, pc = "start", Advance
    PROVE  \/ at = 28 /\ pc' = "running" /\ at' = 1
           \/ at \in 1 .. 27 /\ pc' = "start" /\ at' = at + 1
BY StartLength DEF TypeOK, Advance

LEMMA StartKeeps ==
    ASSUME IInv, Start, TypeOK'
    PROVE  IInv'
<1> USE DEF IInv
<1>1. pc = "start" /\ at \in 1 .. 28
  BY StartLength DEF Start, TypeOK
<1>2. /\ live' = IF Asked(Step) THEN live \cup {Step} ELSE live
      /\ UNCHANGED <<config, pair>>
  BY DEF Start
<1>3. \/ at = 28 /\ pc' = "running" /\ at' = 1
      \/ at \in 1 .. 27 /\ pc' = "start" /\ at' = at + 1
  BY <1>1, AdvanceStep DEF Start
<1>4. Ahead'
  <2> SUFFICES ASSUME at \in 1 .. 27, pc' = "start", at' = at + 1,
                      NEW i \in at + 1 .. 28
               PROVE  StartOrder[i] \notin live'
    BY <1>3 DEF Ahead
  <2>1. StartOrder[i] \notin live
    BY <1>1 DEF Ahead
  <2>2. StartOrder[i] # Step
    BY <1>1, StartDistinct
  <2> QED
    BY <1>2, <2>1, <2>2
<1>5. Behind' /\ NothingLeft'
  BY <1>3 DEF Behind, NothingLeft
<1>6. OnePair'
  BY <1>1, <1>2 DEF OnePair, Asked
<1>7. FirstSide'
  BY <1>1, <1>2, <1>3, StartPlaces DEF FirstSide, Asked, OnePair
<1>8. SecondSide'
  BY <1>1, <1>2, <1>3, StartPlaces DEF SecondSide, Asked, OnePair, FirstSide
<1>9. CaveOutlivesHook'
  BY <1>1, <1>2 DEF CaveOutlivesHook, Asked
<1>10. Tied'
  BY <1>1, <1>2, <1>3, StartPlaces DEF Tied, Asked, Ahead, Start
<1> QED
  BY <1>4, <1>5, <1>6, <1>7, <1>8, <1>9, <1>10

\* The steps that turn the start-up round to take everything down.
LEMMA TearKeeps ==
    ASSUME IInv, Tear, UNCHANGED <<live, config, pair>>, TypeOK'
    PROVE  IInv'
BY DEF IInv, Tear, Ahead, Behind, OnePair, FirstSide, SecondSide,
       CaveOutlivesHook, Tied, NothingLeft

\* What remains to be started stays away when a step adds nothing.
LEMMA AheadKept ==
    ASSUME TypeOK, Ahead, pc = "start", Advance, live' \subseteq live
    PROVE  Ahead'
<1>1. at \in 1 .. 28
  BY StartLength DEF TypeOK
<1>2. \/ at = 28 /\ pc' = "running" /\ at' = 1
      \/ at \in 1 .. 27 /\ pc' = "start" /\ at' = at + 1
  BY AdvanceStep
<1>3. SUFFICES ASSUME at \in 1 .. 27, pc' = "start", at' = at + 1,
                      NEW i \in at + 1 .. 28
               PROVE  StartOrder[i] \notin live'
  BY <1>2 DEF Ahead
<1> QED
  BY <1>1, <1>3 DEF Ahead

LEMMA StartOptionalFailsKeeps ==
    ASSUME IInv, StartOptionalFails, TypeOK'
    PROVE  IInv'
<1> USE DEF IInv
<1>1. pc = "start" /\ at \in 1 .. 28
  BY StartLength DEF StartOptionalFails, TypeOK
<1>2. /\ live' = IF at = 8 THEN live \ {"cave"} ELSE live
      /\ UNCHANGED <<config, pair>>
  BY <1>1, StartPlaces DEF StartOptionalFails
<1>3. \/ at = 28 /\ pc' = "running" /\ at' = 1
      \/ at \in 1 .. 27 /\ pc' = "start" /\ at' = at + 1
  BY <1>1, AdvanceStep DEF StartOptionalFails
<1>4. at \notin {13, 14, 15, 16, 25, 28}
  BY <1>1, StartPlaces DEF StartOptionalFails, Pairs
<1>5. Ahead'
  BY <1>1, <1>2, AheadKept DEF StartOptionalFails
<1>6. Behind' /\ NothingLeft' /\ OnePair'
  BY <1>2, <1>3 DEF Behind, NothingLeft, OnePair
<1>7. FirstSide' /\ SecondSide'
  BY <1>1, <1>2, <1>3, <1>4 DEF FirstSide, SecondSide
<1>8. CaveOutlivesHook'
  <2>1. at = 8 => "flying" \notin live
    BY <1>1, StartPlaces DEF Ahead
  <2> QED
    BY <1>2, <2>1 DEF CaveOutlivesHook
<1>9. Tied'
  BY <1>1, <1>2, <1>3, StartPlaces DEF Tied, StartOptionalFails, Essential
<1> QED
  BY <1>5, <1>6, <1>7, <1>8, <1>9

LEMMA ChooseAffinityKeeps ==
    ASSUME IInv, ChooseAffinity, TypeOK'
    PROVE  IInv'
<1> USE DEF IInv
<1>1. pc = "start" /\ at = 12 /\ UNCHANGED <<live, config>>
  BY StartLength, StartPlaces DEF ChooseAffinity, TypeOK
<1>2. pc' = "start" /\ at' = 13
  BY <1>1, AdvanceStep DEF ChooseAffinity
<1>3. {"prepare", "current", "vary", "logout"} \cap live = {}
  <2>1. \A i \in 13 .. 16 : StartOrder[i] \notin live
    BY <1>1 DEF Ahead
  <2> QED
    BY <2>1, StartPlaces
<1>4. Ahead'
  BY <1>1, AheadKept DEF ChooseAffinity
<1> QED
  BY <1>1, <1>2, <1>3, <1>4 DEF Behind, NothingLeft, OnePair, FirstSide, SecondSide,
     CaveOutlivesHook, Tied

LEMMA AffinityFailsKeeps ==
    ASSUME IInv, AffinityFails, TypeOK'
    PROVE  IInv'
<1> USE DEF IInv
<1>1. pc = "start" /\ at \in 13 .. 16
  BY StartLength, StartPlaces DEF AffinityFails, TypeOK, Pairs
<1>2. pc' = "dropAffinity" /\ UNCHANGED <<live, at, config, pair>>
  BY DEF AffinityFails
<1> QED
  BY <1>1, <1>2 DEF Ahead, Behind, NothingLeft, OnePair, FirstSide, SecondSide,
     CaveOutlivesHook, Tied

LEMMA RemoveAffinityHooksKeeps ==
    ASSUME IInv, RemoveAffinityHooks, TypeOK'
    PROVE  IInv'
<1> USE DEF IInv
<1>1. pc = "dropAffinity" /\ at \in 1 .. 16
  BY DEF RemoveAffinityHooks, Ahead, TypeOK
<1>2. pc' = "start" /\ at' = 21
  <2>1. StartOrder[21] = "delta"
    BY StartPlaces
  <2>2. \A i \in 1 .. 28 : StartOrder[i] = "delta" <=> i = 21
    BY StartPlaces
  <2> QED
    BY <2>1, <2>2, StartLength DEF RemoveAffinityHooks
<1>3. /\ live' \subseteq live
      /\ {"prepare", "current", "vary", "logout"} \cap live' = {}
      /\ "cave" \in live => "cave" \in live'
      /\ UNCHANGED <<config, pair>>
  BY DEF RemoveAffinityHooks, Pairs
<1>4. Ahead'
  BY <1>1, <1>2, <1>3 DEF Ahead
<1>5. CaveOutlivesHook'
  BY <1>3 DEF CaveOutlivesHook
<1> QED
  BY <1>2, <1>3, <1>4, <1>5 DEF Behind, NothingLeft, OnePair, FirstSide, SecondSide, Tied

LEMMA FixupKeeps ==
    ASSUME IInv, Fixup, TypeOK'
    PROVE  IInv'
<1> USE DEF IInv
<1>1. pc = "start" /\ at = 25 /\ UNCHANGED <<live, pair>>
  BY StartLength, StartPlaces DEF Fixup, TypeOK
<1>2. pc' = "start" /\ at' = 26
  BY <1>1, AdvanceStep DEF Fixup
<1>3. Ahead'
  BY <1>1, AheadKept DEF Fixup
<1>4. Tied'
  BY <1>1, <1>2 DEF Tied, Fixup, Effective
<1> QED
  BY <1>1, <1>2, <1>3, <1>4 DEF Behind, NothingLeft, OnePair, FirstSide, SecondSide,
     CaveOutlivesHook

\* The whole of StopOrder has been walked through before the walk is over.
LEMMA StopKeeps ==
    ASSUME IInv, Stop, TypeOK'
    PROVE  IInv'
<1> USE DEF IInv
<1>1. /\ pc = "stop" /\ at \in 1 .. 26
      /\ live' = live \ {StopOrder[at]}
      /\ UNCHANGED <<config, pair>>
  BY StopLength DEF Stop, StopNext, TypeOK
<1>2. \/ at = 26 /\ pc' \in {"gone", "failed"}
      \/ at \in 1 .. 25 /\ pc' = "stop" /\ at' = at + 1
  BY <1>1, StopLength DEF Stop, StopNext
<1>3. \A i \in 1 .. at : StopOrder[i] \notin live'
  <2> TAKE i \in 1 .. at
  <2>1. CASE i = at
    BY <1>1, <2>1
  <2>2. CASE i # at
    <3>1. i \in 1 .. at - 1
      BY <1>1, <2>2
    <3> QED
      BY <1>1, <3>1 DEF Behind
  <2> QED
    BY <2>1, <2>2
<1>4. Behind'
  BY <1>1, <1>2, <1>3 DEF Behind
<1>5. NothingLeft'
  <2>1. ASSUME at = 26, NEW r \in live' PROVE FALSE
    <3>1. PICK i \in 1 .. 26 : r = StopOrder[i]
      BY <1>1, <2>1, StopLength DEF TypeOK, Resources
    <3> QED
      BY <1>3, <2>1, <3>1
  <2> QED
    BY <1>2, <2>1 DEF NothingLeft
<1>6. CaveOutlivesHook'
  <2>1. at = 20 => "flying" \notin live'
    <3>1. StopOrder[19] = "flying"
      BY StopPlaces
    <3>2. at = 20 => 19 \in 1 .. at
      BY <1>1
    <3> QED
      BY <1>3, <3>1, <3>2
  <2>2. at # 20 => StopOrder[at] # "cave"
    BY <1>1, StopPlaces
  <2> QED
    BY <1>1, <2>1, <2>2 DEF CaveOutlivesHook
<1> QED
  BY <1>1, <1>2, <1>4, <1>5, <1>6
     DEF Ahead, OnePair, FirstSide, SecondSide, Tied, NothingLeft

\* While the watcher lives nothing of what it restarts is to be started, or has
\* been stopped, by somebody else.
LEMMA WatcherAlive ==
    ASSUME IInv, "watcher" \in live
    PROVE  pc = "running" \/ (pc = "stop" /\ at \in 1 .. 2)
<1> USE DEF IInv
<1>1. pc \notin {"start", "dropAffinity"}
  <2>1. StartOrder[28] = "watcher"
    BY StartPlaces
  <2>2. at \in 1 .. 28
    BY StartLength DEF TypeOK
  <2>3. 28 \in at .. 28
    BY <2>2
  <2> QED
    BY <2>1, <2>3 DEF Ahead
<1>2. pc = "stop" => at \in 1 .. 2
  <2> SUFFICES ASSUME pc = "stop", at > 2 PROVE FALSE
    BY StartLength DEF TypeOK
  <2>1. StopOrder[2] = "watcher"
    BY StopPlaces
  <2>2. 2 \in 1 .. at - 1
    BY StartLength DEF TypeOK
  <2> QED
    BY <2>1, <2>2 DEF Behind
<1>3. pc \notin {"failed", "gone"}
  BY DEF NothingLeft
<1> QED
  BY <1>1, <1>2, <1>3 DEF TypeOK

LEMMA ReloadKeeps ==
    ASSUME IInv, NEW c \in Configs, Reload(c), TypeOK'
    PROVE  IInv'
<1> USE DEF IInv
<1>1. /\ pc = "running" \/ (pc = "stop" /\ at \in 1 .. 2)
      /\ UNCHANGED <<pc, at, pair>>
  BY WatcherAlive DEF Reload
<1>2. /\ live' \subseteq live \cup {"controls", "toggle"}
      /\ live \ {"controls", "toggle"} \subseteq live'
      /\ "position" \in config' => "position" \in live'
      /\ "controls" \in live' <=> "position" \in config'
  BY DEF Reload, Effective
<1>3. Behind'
  <2> SUFFICES ASSUME pc = "stop", NEW i \in 1 .. at - 1
               PROVE  StopOrder[i] \notin live'
    BY <1>1 DEF Behind
  <2>1. StopOrder[i] \notin {"controls", "toggle"}
    <3>1. i \in 1 .. 26 /\ i # 3 /\ i # 4
      BY <1>1
    <3> QED
      BY <3>1, StopPlaces
  <2> QED
    BY <1>2, <2>1 DEF Behind
<1> QED
  BY <1>1, <1>2, <1>3 DEF Ahead, NothingLeft, OnePair, FirstSide, SecondSide,
     CaveOutlivesHook, Tied

LEMMA ToggleKeeps ==
    ASSUME IInv, ToggleOutgoingDamage, TypeOK'
    PROVE  IInv'
<1>1. /\ UNCHANGED <<live, pc, at, pair>>
      /\ "position" \in config' <=> "position" \in config
  BY DEF ToggleOutgoingDamage
<1> QED
  BY <1>1 DEF IInv, Ahead, Behind, NothingLeft, OnePair, FirstSide, SecondSide,
     CaveOutlivesHook, Tied

\* The invariant holds throughout.
THEOREM Inductive == Spec => []IInv
<1>1. Init => IInv
  <2> SUFFICES ASSUME Init, TypeOK PROVE IInv
    BY InitTypes
  <2> QED
    BY DEF Init, IInv, Ahead, Behind, OnePair, FirstSide, SecondSide,
       CaveOutlivesHook, Tied, NothingLeft
<1>2. IInv /\ TypeOK' /\ [Next]_vars => IInv'
  <2> SUFFICES ASSUME IInv, TypeOK', [Next]_vars PROVE IInv'
    OBVIOUS
  <2>1. CASE Start
    BY <2>1, StartKeeps
  <2>2. CASE StartEssentialFails
    BY <2>2, TearKeeps DEF StartEssentialFails
  <2>3. CASE StartOptionalFails
    BY <2>3, StartOptionalFailsKeeps
  <2>4. CASE ChooseAffinity
    BY <2>4, ChooseAffinityKeeps
  <2>5. CASE AffinityFails
    BY <2>5, AffinityFailsKeeps
  <2>6. CASE RemoveAffinityHooks
    BY <2>6, RemoveAffinityHooksKeeps
  <2>7. CASE Fixup
    BY <2>7, FixupKeeps
  <2>8. CASE Throw
    BY <2>8, TearKeeps DEF Throw
  <2>9. CASE Stop
    BY <2>9, StopKeeps
  <2>10. CASE Detach
    BY <2>10, TearKeeps DEF Detach
  <2>11. ASSUME NEW c \in Configs, Reload(c) PROVE IInv'
    BY <2>11, ReloadKeeps
  <2>12. CASE ToggleOutgoingDamage
    BY <2>12, ToggleKeeps
  <2>13. CASE UNCHANGED vars
    BY <2>13 DEF vars, histories, IInv, Ahead, Behind, NothingLeft, OnePair, FirstSide,
       SecondSide, CaveOutlivesHook, Tied
  <2> QED
    BY <2>1, <2>2, <2>3, <2>4, <2>5, <2>6, <2>7, <2>8, <2>9, <2>10, <2>11, <2>12, <2>13
       DEF Next, Main
<1> QED
  BY <1>1, <1>2, TypeCorrect, PTL DEF Spec

\* However the start-up fails, and when the module goes, nothing is left behind:
\* the walk through StopOrder has met every resource, and the watcher, met before
\* the listeners, has started none of them again.
THEOREM NothingIsLeft == Spec => []NothingLeft
<1>1. IInv => NothingLeft
  BY DEF IInv
<1> QED
  BY <1>1, Inductive, PTL

\* The affinity sites are hooked in pairs.
THEOREM AffinityInPairs == Spec => []PairsComplete
<1>1. IInv => PairsComplete
  <2> SUFFICES ASSUME IInv PROVE PairsComplete
    OBVIOUS
  <2>1. (pc = "start" /\ at \in {14, 16}) => Step \in {"current", "logout"}
    BY StartPlaces
  <2>2. ASSUME pc \notin {"dropAffinity", "stop"}, ~(pc = "start" /\ at \in {14, 16})
        PROVE  /\ "prepare" \in live <=> "current" \in live
               /\ "vary" \in live <=> "logout" \in live
    BY <2>2 DEF IInv, TypeOK, NothingLeft, FirstSide, SecondSide
  <2>3. \E p \in Pairs : p \cap live = {}
    BY DEF IInv, OnePair, Pairs
  <2> QED
    BY <2>1, <2>2, <2>3 DEF PairsComplete, Pairs
<1> QED
  BY <1>1, Inductive, PTL

\* The cave is there as long as the game can jump into it.
THEOREM CaveIsThere == Spec => []CaveOutlivesHook
<1>1. IInv => CaveOutlivesHook
  BY DEF IInv
<1> QED
  BY <1>1, Inductive, PTL

\* Position control is on, and its listeners run, exactly where its hook is.
THEOREM ControlsAreHooked == Spec => []ControlsHooked
<1>1. IInv => ControlsHooked
  BY DEF IInv, Tied, ControlsHooked
<1> QED
  BY <1>1, Inductive, PTL

(***************************************************************************)
(* What is missing has been reported.                                      *)
(***************************************************************************)

\* The hooks one of which may be missing only if that is on record.
Unshared(c) == Needed(c) \ (SharedStatHooks \cup {"cave"})
OnRecord(h) == h \in missed \/ (h = "damage" /\ flipped)

\* What the start-up has passed is installed or on record; the hook of the flying
\* limit goes where its cave went, and the affinity pair is complete once both of its
\* sites have been passed.
Reported ==
    /\ pc \in {"start", "dropAffinity"} =>
           \A i \in 1 .. at - 1 : StartOrder[i] \in Unshared(config) \ {"affinity"} =>
               StartOrder[i] \in live \/ OnRecord(StartOrder[i])
    /\ pc = "start" /\ at = 8 /\ "flying" \in Needed(config) =>
           "cave" \in live \/ "flying" \in missed
    /\ pc = "start" /\ at > 12 /\ "affinity" \in Needed(config) /\ "affinity" \notin missed =>
           \/ pair = "legacy" /\ (at > 14 => {"prepare", "current"} \subseteq live)
           \/ pair = "friendly" /\ (at > 16 => {"vary", "logout"} \subseteq live)
    /\ pc = "dropAffinity" => "affinity" \in missed /\ at \in 13 .. 16
    /\ pc = "running" => NothingMissedSilently

\* Which hooks those are, and where the code installs them.
Singles == {"pointer", "village", "flying", "roof", "damage", "items", "delta", "abyss", "position"}

LEMMA UnsharedIs ==
    ASSUME NEW c
    PROVE  /\ Unshared(c) \subseteq Singles \cup {"affinity"}
           /\ "flying" \in Unshared(c) <=> "cave" \in Needed(c)
           /\ \A h \in Singles \cup {"affinity"} : h \in Unshared(c) <=> h \in Needed(c)
BY DEF Unshared, Singles, Needed, Requirements, SharedStatHooks

LEMMA SinglePlaces ==
    ASSUME NEW i \in 1 .. 28
    PROVE  /\ StartOrder[i] \in Singles => i \in {1, 6, 8, 9, 10, 11, 21, 22, 23}
           /\ StartOrder[i] \in Singles => StartOrder[i] \notin {"cave", "affinity", "fixup"}
BY DEF StartOrder, Singles

LEMMA SingleSteps == \A h \in Singles : \E i \in 1 .. 23 : StartOrder[i] = h
<1>1. /\ StartOrder[1] = "pointer" /\ StartOrder[6] = "village" /\ StartOrder[8] = "flying"
      /\ StartOrder[9] = "roof" /\ StartOrder[10] = "damage" /\ StartOrder[11] = "items"
      /\ StartOrder[21] = "delta" /\ StartOrder[22] = "abyss" /\ StartOrder[23] = "position"
  BY DEF StartOrder
<1> QED
  BY <1>1 DEF Singles

\* The code asks for these hooks exactly when they are needed, but for the flying
\* hook, which follows its cave.
LEMMA SinglesAsked ==
    ASSUME NEW h \in Singles
    PROVE  /\ h # "flying" => (Asked(h) <=> h \in Needed(config))
           /\ Asked("flying") <=> "cave" \in live
           /\ Asked("cave") <=> "cave" \in Needed(config)
           /\ Asked("affinity") <=> "affinity" \in Needed(config)
BY DEF Asked, Singles

\* Which hooks are needed without the position controls, after the toggle, and after
\* a reload that asks for no restart.
LEMMA RequirementsAre ==
    ASSUME NEW c
    PROVE  /\ Requirements(c) \subseteq {"stats", "damage", "items", "affinity", "durability",
                                        "village", "flying", "roof", "position"}
           /\ "stats" \in Requirements(c) <=>
                  "enabled" \in c /\ ("lockStamina" \in c \/ "spirit" \in c \/ WriteHook(c))
           /\ "damage" \in Requirements(c) <=>
                  "enabled" \in c /\ c \cap {"outgoing", "incoming", "lockHealth", "health"} # {}
           /\ "affinity" \in Requirements(c) <=>
                  "enabled" \in c /\ c \cap {"multiplier", "gift", "pet"} # {}
           /\ \A r \in {"items", "durability", "village", "flying", "roof", "position"} :
                  r \in Requirements(c) <=> "enabled" \in c /\ r \in c
BY DEF Requirements

LEMMA UnsharedBy ==
    ASSUME NEW c
    PROVE  /\ "pointer" \in Unshared(c)
           /\ \A h \in {"damage", "items", "affinity", "village", "flying", "roof", "position"} :
                  h \in Unshared(c) <=> h \in Requirements(c)
           /\ \A h \in {"delta", "abyss"} : h \in Unshared(c) <=> "durability" \in Requirements(c)
BY RequirementsAre DEF Unshared, Needed, SharedStatHooks

LEMMA FixupNeeds == ASSUME NEW c PROVE Unshared(c \ {"position"}) \subseteq Unshared(c)
BY UnsharedIs, UnsharedBy, RequirementsAre DEF Singles

LEMMA ToggleNeeds ==
    ASSUME NEW c, NEW d, \A x : x # "outgoing" => (x \in c <=> x \in d)
    PROVE  Unshared(d) \subseteq Unshared(c) \cup {"damage"}
BY UnsharedIs, UnsharedBy, RequirementsAre DEF Singles

LEMMA ReloadNeeds ==
    ASSUME NEW c, NEW d, Requirements(c) = Requirements(d)
    PROVE  Unshared(d) = Unshared(c)
BY UnsharedIs, UnsharedBy DEF Singles

\* Advancing over a step that is installed or on record.
LEMMA PassKeeps ==
    ASSUME IInv, Reported, pc = "start", Advance, UNCHANGED <<config, flipped, warned>>,
           missed \subseteq missed',
           \A h \in Singles : h \in live => h \in live',
           \A h \in Unshared(config) \ {"affinity"} : h = Step => h \in live' \/ OnRecord(h)'
    PROVE  /\ pc' = "start" =>
               /\ at' = at + 1 /\ at \in 1 .. 27
               /\ \A i \in 1 .. at' - 1 : StartOrder[i] \in Unshared(config') \ {"affinity"} =>
                      StartOrder[i] \in live' \/ OnRecord(StartOrder[i])'
           /\ pc' = "running" =>
               /\ at = 28
               /\ \A h \in Unshared(config') \ {"affinity"} : h \in live' \/ OnRecord(h)'
           /\ pc' \in {"start", "running"}
<1>1. \/ at = 28 /\ pc' = "running" /\ at' = 1
      \/ at \in 1 .. 27 /\ pc' = "start" /\ at' = at + 1
  BY AdvanceStep DEF IInv
<1>2. \A i \in 1 .. at : StartOrder[i] \in Unshared(config) \ {"affinity"} =>
          StartOrder[i] \in live' \/ OnRecord(StartOrder[i])'
  <2> SUFFICES ASSUME NEW i \in 1 .. at, StartOrder[i] \in Unshared(config) \ {"affinity"}
               PROVE  StartOrder[i] \in live' \/ OnRecord(StartOrder[i])'
    OBVIOUS
  <2>1. CASE i = at
    BY <2>1
  <2>2. CASE i # at
    <3>1. i \in 1 .. at - 1
      BY <1>1, <2>2
    <3>2. StartOrder[i] \in Singles
      BY UnsharedIs
    <3>3. StartOrder[i] \in live \/ OnRecord(StartOrder[i])
      BY <3>1 DEF Reported
    <3> QED
      BY <3>2, <3>3 DEF OnRecord
  <2> QED
    BY <2>1, <2>2
<1>3. ASSUME at = 28, NEW h \in Unshared(config) \ {"affinity"}
      PROVE  h \in live' \/ OnRecord(h)'
  <2>1. PICK i \in 1 .. 23 : StartOrder[i] = h
    BY <1>3, UnsharedIs, SingleSteps
  <2> QED
    BY <1>2, <1>3, <2>1
<1> QED
  BY <1>1, <1>2, <1>3

LEMMA StartReported == ASSUME IInv, Reported, Start PROVE Reported'
<1>1. /\ pc = "start" /\ at \in 1 .. 28 /\ Step \notin {"affinity", "fixup"}
      /\ live' = IF Asked(Step) THEN live \cup {Step} ELSE live
      /\ Advance /\ UNCHANGED <<config, pair, leaving, warned, flipped, missed>>
  BY StartLength DEF Start, IInv, TypeOK, histories
<1>2. ASSUME NEW h \in Unshared(config) \ {"affinity"}, h = Step
      PROVE  h \in live' \/ OnRecord(h)'
  <2>1. h \in Singles /\ h \in Needed(config)
    BY UnsharedIs
  <2>2. CASE h = "flying"
    <3>1. at = 8
      BY <1>1, <1>2, <2>2, StartPlaces
    <3> QED
      BY <1>1, <1>2, <2>1, <2>2, <3>1, SinglesAsked DEF Reported, OnRecord
  <2>3. CASE h # "flying"
    BY <1>1, <1>2, <2>1, <2>3, SinglesAsked
  <2> QED
    BY <2>2, <2>3
<1>3. /\ pc' = "start" =>
          /\ at' = at + 1 /\ at \in 1 .. 27
          /\ \A i \in 1 .. at' - 1 : StartOrder[i] \in Unshared(config') \ {"affinity"} =>
                 StartOrder[i] \in live' \/ OnRecord(StartOrder[i])'
      /\ pc' = "running" =>
          /\ at = 28
          /\ \A h \in Unshared(config') \ {"affinity"} : h \in live' \/ OnRecord(h)'
      /\ pc' \in {"start", "running"}
  BY <1>1, <1>2, PassKeeps
<1>4. pc' = "start" /\ at' = 8 /\ "flying" \in Needed(config') => "cave" \in live' \/ "flying" \in missed'
  <2> SUFFICES ASSUME at = 7, "flying" \in Needed(config)
               PROVE  "cave" \in live'
    BY <1>1, <1>3
  <2>1. Step = "cave"
    BY StartPlaces
  <2>2. "cave" \in Needed(config)
    BY UnsharedIs DEF Singles
  <2> QED
    BY <1>1, <2>1, <2>2, SinglesAsked DEF Singles
<1>5. ASSUME pc' = "start" \/ pc' = "running", "affinity" \in Needed(config), "affinity" \notin missed,
             at >= 12
      PROVE  \/ pair = "legacy" /\ (at > 13 => {"prepare", "current"} \subseteq live')
             \/ pair = "friendly" /\ (at > 15 => {"vary", "logout"} \subseteq live')
  <2>1. at # 12
    BY <1>1, StartPlaces
  <2>2. \/ pair = "legacy" /\ (at > 14 => {"prepare", "current"} \subseteq live)
        \/ pair = "friendly" /\ (at > 16 => {"vary", "logout"} \subseteq live)
    BY <1>1, <1>5, <2>1 DEF Reported
  <2>3. CASE pair = "legacy"
    <3>1. at = 14 => Step = "current" /\ Asked("current") /\ "prepare" \in live
      BY <1>1, <2>3, StartPlaces DEF IInv, FirstSide, Asked
    <3> QED
      BY <1>1, <2>2, <2>3, <3>1
  <2>4. CASE pair = "friendly"
    <3>1. at = 16 => Step = "logout" /\ Asked("logout") /\ "vary" \in live
      BY <1>1, <2>4, StartPlaces DEF IInv, FirstSide, Asked
    <3> QED
      BY <1>1, <2>2, <2>4, <3>1
  <2> QED
    BY <2>2, <2>3, <2>4
<1>6. pc' = "running" => NothingMissedSilently'
  <2> SUFFICES ASSUME pc' = "running" PROVE NothingMissedSilently'
    OBVIOUS
  <2>1. "affinity" \in Needed(config') => Has("affinity")' \/ "affinity" \in missed'
    BY <1>1, <1>3, <1>5 DEF Has, Pairs
  <2>2. \A h \in Unshared(config') \ {"affinity"} : h \in live' \/ OnRecord(h)'
    BY <1>3
  <2> QED
    BY <2>1, <2>2, UnsharedIs DEF NothingMissedSilently, Unshared, OnRecord, Has
<1> QED
  BY <1>1, <1>3, <1>4, <1>5, <1>6 DEF Reported

LEMMA OptionalReported == ASSUME IInv, Reported, StartOptionalFails PROVE Reported'
<1>1. /\ pc = "start" /\ at \in 1 .. 28 /\ at \notin {12, 13, 14, 15, 16, 25, 28}
      /\ live' = (IF Step = "flying" THEN live \ {"cave"} ELSE live)
      /\ missed' = missed \cup {IF Step = "cave" THEN "flying" ELSE Step}
      /\ Advance /\ UNCHANGED <<config, pair, leaving, warned, flipped>>
  BY StartLength, StartPlaces DEF StartOptionalFails, IInv, TypeOK, Pairs
<1>2. "cave" \notin Singles
  BY DEF Singles
<1>3. \A h \in Unshared(config) \ {"affinity"} : h = Step => h \in live' \/ OnRecord(h)'
  BY <1>1, <1>2, UnsharedIs DEF OnRecord
<1>4. /\ pc' = "start" /\ at' = at + 1
      /\ \A i \in 1 .. at' - 1 : StartOrder[i] \in Unshared(config') \ {"affinity"} =>
             StartOrder[i] \in live' \/ OnRecord(StartOrder[i])'
  BY <1>1, <1>2, <1>3, PassKeeps
<1>5. pc' = "start" /\ at' = 8 /\ "flying" \in Needed(config') => "cave" \in live' \/ "flying" \in missed'
  BY <1>1, <1>4, StartPlaces
<1>6. {"prepare", "current", "vary", "logout"} \cap live \subseteq live'
  BY <1>1
<1> QED
  BY <1>1, <1>4, <1>5, <1>6 DEF Reported

LEMMA AffinityReported ==
    ASSUME IInv, Reported, ChooseAffinity \/ AffinityFails \/ RemoveAffinityHooks
    PROVE  Reported'
<1>1. CASE ChooseAffinity
  <2>1. /\ pc = "start" /\ at = 12 /\ Step = "affinity"
        /\ pair' \in {"none", "legacy", "friendly"} \/ ~Asked(Step)
        /\ Asked(Step) => missed' = (IF pair' = "none" THEN missed \cup {Step} ELSE missed)
        /\ ~Asked(Step) => UNCHANGED missed
        /\ Advance /\ UNCHANGED <<config, live, leaving, warned, flipped>>
    BY <1>1, StartLength, StartPlaces DEF ChooseAffinity, IInv, TypeOK
  <2>2. /\ pc' = "start" /\ at' = 13
        /\ \A i \in 1 .. at' - 1 : StartOrder[i] \in Unshared(config') \ {"affinity"} =>
               StartOrder[i] \in live' \/ OnRecord(StartOrder[i])'
    <3>1. \A h \in Unshared(config) \ {"affinity"} : h = Step => h \in live' \/ OnRecord(h)'
      BY <2>1
    <3> QED
      BY <2>1, <3>1, PassKeeps
  <2>3. "affinity" \in Needed(config) /\ "affinity" \notin missed' => pair' \in {"legacy", "friendly"}
    BY <2>1, SinglesAsked DEF Singles
  <2> QED
    BY <2>1, <2>2, <2>3 DEF Reported
<1>2. CASE AffinityFails
  <2>1. /\ pc = "start" /\ at \in 13 .. 16 /\ pc' = "dropAffinity"
        /\ missed' = missed \cup {"affinity"}
        /\ UNCHANGED <<live, at, config, warned, flipped>>
    BY <1>2, StartLength, StartPlaces DEF AffinityFails, IInv, TypeOK, Pairs
  <2> QED
    BY <2>1 DEF Reported, OnRecord
<1>3. CASE RemoveAffinityHooks
  <2>1. /\ pc = "dropAffinity" /\ at \in 13 .. 16 /\ pc' = "start"
        /\ live' = live \ UNION Pairs
        /\ UNCHANGED <<missed, config, warned, flipped>>
    BY <1>3 DEF RemoveAffinityHooks, Reported, histories
  <2>2. at' = 21
    <3>1. \A i \in 1 .. 28 : StartOrder[i] = "delta" <=> i = 21
      BY StartPlaces
    <3> QED
      BY <1>3, <3>1, StartLength DEF RemoveAffinityHooks
  <2>3. ASSUME NEW i \in 1 .. 20, StartOrder[i] \in Unshared(config) \ {"affinity"}
        PROVE  StartOrder[i] \in live' \/ OnRecord(StartOrder[i])'
    <3>1. StartOrder[i] \in Singles
      BY <2>3, UnsharedIs
    <3>2. i \in 1 .. at - 1
      BY <2>1, <3>1, SinglePlaces
    <3>3. StartOrder[i] \in live \/ OnRecord(StartOrder[i])
      BY <2>1, <2>3, <3>2 DEF Reported
    <3> QED
      BY <2>1, <3>1, <3>3 DEF OnRecord, Pairs, Singles
  <2> QED
    BY <2>1, <2>2, <2>3 DEF Reported
<1> QED
  BY <1>1, <1>2, <1>3

LEMMA FixupReported == ASSUME IInv, Reported, Fixup PROVE Reported'
<1>1. /\ pc = "start" /\ at = 25 /\ Advance /\ config' \in {config, config \ {"position"}}
      /\ UNCHANGED <<live, pair, warned, flipped, missed>>
  BY StartLength, StartPlaces DEF Fixup, Effective, IInv, TypeOK, histories
<1>2. pc' = "start" /\ at' = 26
  BY <1>1, AdvanceStep DEF IInv
<1>3. Unshared(config') \subseteq Unshared(config)
  BY <1>1, FixupNeeds
<1>4. ASSUME NEW i \in 1 .. 25, StartOrder[i] \in Unshared(config') \ {"affinity"}
      PROVE  StartOrder[i] \in live' \/ OnRecord(StartOrder[i])'
  <2>1. i # 25
    BY <1>3, <1>4, UnsharedIs, SinglePlaces
  <2>2. i \in 1 .. at - 1
    BY <1>1, <2>1
  <2> QED
    BY <1>1, <1>3, <1>4, <2>2 DEF Reported, OnRecord
<1>5. "affinity" \in Needed(config') => "affinity" \in Needed(config)
  BY <1>3, UnsharedIs
<1> QED
  BY <1>1, <1>2, <1>4, <1>5 DEF Reported

\* Nothing can be missing after a reload that asks for no restart, for it asks for
\* the same hooks.
LEMMA ReloadReported ==
    ASSUME IInv, Reported, NEW c \in Configs, Reload(c)
    PROVE  Reported'
<1>1. /\ pc \in {"running", "stop"} /\ UNCHANGED <<pc, missed, flipped>>
      /\ warned' = (warned \/ Requirements(config) # Requirements(config'))
      /\ live \ {"controls", "toggle"} \subseteq live'
  BY WatcherAlive DEF Reload, DidHookRequirementsChange
<1>2. SUFFICES ASSUME pc = "running", ~warned' PROVE NothingMissedSilently'
  BY <1>1 DEF Reported, NothingMissedSilently
<1>3. ~warned /\ Unshared(config') = Unshared(config)
  BY <1>1, <1>2, ReloadNeeds
<1>4. NothingMissedSilently
  BY <1>2 DEF Reported
<1> QED
  BY <1>1, <1>2, <1>3, <1>4, UnsharedIs DEF NothingMissedSilently, Unshared, Has, Pairs, Singles

LEMMA ToggleReported == ASSUME IInv, Reported, ToggleOutgoingDamage PROVE Reported'
<1>1. /\ flipped' = TRUE /\ UNCHANGED <<live, pc, at, pair, warned, missed>>
      /\ \A x : x # "outgoing" => (x \in config <=> x \in config')
  BY DEF ToggleOutgoingDamage
<1>2. Unshared(config') \subseteq Unshared(config) \cup {"damage"}
  BY <1>1, ToggleNeeds
<1>3. /\ "flying" \in Needed(config') => "flying" \in Needed(config)
      /\ "affinity" \in Needed(config') => "affinity" \in Needed(config)
  BY <1>2, UnsharedIs DEF Singles
<1>4. NothingMissedSilently => NothingMissedSilently'
  BY <1>1, <1>2 DEF NothingMissedSilently, Unshared, Has
<1> QED
  BY <1>1, <1>2, <1>3, <1>4 DEF Reported, OnRecord

\* A feature whose hook is missing has been reported, after any start-up and any
\* sequence of reloads.
THEOREM MissingIsReported == Spec => []NothingMissedSilently
<1>1. Init => Reported
  BY DEF Init, Reported
<1>2. IInv /\ Reported /\ [Next]_vars => Reported'
  <2> SUFFICES ASSUME IInv, Reported, [Next]_vars PROVE Reported'
    OBVIOUS
  <2>1. CASE Start
    BY <2>1, StartReported
  <2>2. CASE StartEssentialFails \/ Throw \/ Detach
    BY <2>2 DEF StartEssentialFails, Throw, Detach, Tear, Reported
  <2>3. CASE StartOptionalFails
    BY <2>3, OptionalReported
  <2>4. CASE ChooseAffinity \/ AffinityFails \/ RemoveAffinityHooks
    BY <2>4, AffinityReported
  <2>5. CASE Fixup
    BY <2>5, FixupReported
  <2>6. CASE Stop
    BY <2>6 DEF Stop, StopNext, Reported
  <2>7. ASSUME NEW c \in Configs, Reload(c) PROVE Reported'
    BY <2>7, ReloadReported
  <2>8. CASE ToggleOutgoingDamage
    BY <2>8, ToggleReported
  <2>9. CASE UNCHANGED vars
    BY <2>9 DEF vars, histories, Reported, OnRecord, NothingMissedSilently, Has
  <2> QED
    BY <2>1, <2>2, <2>3, <2>4, <2>5, <2>6, <2>7, <2>8, <2>9 DEF Next, Main
<1>3. IInv /\ Reported => NothingMissedSilently
  BY DEF Reported, NothingMissedSilently
<1> QED
  BY <1>1, <1>2, <1>3, Inductive, PTL DEF Spec
=============================================================================
