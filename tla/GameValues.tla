----------------------------- MODULE GameValues -----------------------------
(***************************************************************************)
(* What the mod makes of the gains and losses the game is about to book:   *)
(* affinity, at one of two pairs of sites, the items picked up and the     *)
(* wear of equipment.                                                      *)
(*                                                                         *)
(* Sources: runtime/affinity_logic.cpp and hooks/affinity_hooks.cpp,       *)
(* runtime/durability_logic.cpp and hooks/durability_hooks.cpp, and the    *)
(* item gain of mod_logic.cpp and hooks/economy_hooks.cpp.                 *)
(***************************************************************************)
EXTENDS Integers, SequencesExt

CONSTANTS
    Threads,  \* game threads
    Copies,   \* scratch records per thread
    Cap,      \* kAffinityValueClamp and kAffinityDeltaClamp
    MaxInt,   \* INT64_MAX
    Deltas,   \* the changes the game makes
    Configs,  \* the configurations
    Depth     \* bound on the friendly calls under way on a thread

Ratio == [num : Nat, den : Nat \ {0}]
One == [num |-> 1, den |-> 1]
Neutral(r) == r.num = r.den

\* Of a ModConfig.  SanitizeConfig keeps the chance in 0..100.
Config == [enabled : BOOLEAN, affinity : Ratio, items : Ratio, chance : 0 .. 100]

ASSUME ConfigsAssumption == Configs \subseteq Config /\ Configs # {}
ASSUME NumbersAssumption ==
    /\ Copies \in Nat \ {0} /\ Cap \in Nat \ {0} /\ Depth \in Nat
    /\ MaxInt \in Nat /\ Cap < MaxInt
    /\ Deltas \subseteq -MaxInt .. MaxInt

Pairs == {"legacy", "friendly"}
Slots == 0 .. Copies - 1
Own == Copies  \* not a slot: the data of the game itself

\* A friendly call under way: the data it works on, the delta it is to see there,
\* and how many copies its thread has taken since, up to Copies.
Calls == [slot : Slots \cup {Own}, delta : Int, later : 0 .. Copies]

\* A change of affinity prepared: the game's delta, record+0x10, the multipliers.
Changes == [delta : Int, value : Int, under : SUBSET Ratio]

\* A change booked: what the game asked for, what came of it, from which value.
Booked == [what : {"nothing", "affinity", "friendly", "item", "wear"},
           from : Int, asked : Int, got : Int, under : SUBSET Ratio]

VARIABLES
    config,   \* the published configuration
    runtime,  \* g_runtime_enabled
    ready,    \* IsPlayerRuntimeReady()
    pair,     \* the affinity sites hooked
    level,    \* the affinity with a character, record+0x48
    change,   \* the change of it prepared and not yet committed, at most one
    calls,    \* per thread: the friendly calls under way, the innermost last
    ring,     \* per thread: the deltas in scratch_records
    cursor,   \* per thread: scratch_index modulo the number of records
    booked    \* history: the change booked by this step

player == <<config, runtime, ready, pair>>
legacy == <<level, change>>
friendly == <<calls, ring, cursor>>
vars == <<player, legacy, friendly, booked>>

TypeOK ==
    /\ config \in Configs /\ runtime \in BOOLEAN /\ ready \in BOOLEAN
    /\ pair \in Pairs
    /\ level \in 0 .. Cap
    /\ change \subseteq Changes
    /\ calls \in [Threads -> Seq(Calls)]
    /\ ring \in [Threads -> [Slots -> Int]]
    /\ cursor \in [Threads -> Slots]
    /\ booked \in Booked

Nothing == [what |-> "nothing", from |-> 0, asked |-> 0, got |-> 0, under |-> {}]

Init ==
    /\ config \in Configs /\ runtime = TRUE /\ ready = FALSE
    /\ pair \in Pairs
    /\ level \in 0 .. Cap
    /\ change = {}
    /\ calls = [t \in Threads |-> <<>>]
    /\ ring = [t \in Threads |-> [s \in Slots |-> 0]]
    /\ cursor = [t \in Threads |-> 0]
    /\ booked = Nothing

(***************************************************************************)
(* Scaling.                                                                *)
(***************************************************************************)
AtMost(x, y) == IF x <= y THEN x ELSE y
AtLeast(x, y) == IF x >= y THEN x ELSE y

\* Mutant: the conversion of a double that is too large, as the CPU does it.
ScaleWraps(x, r) == LET y == (x * r.num) \div r.den IN IF y > MaxInt THEN -MaxInt - 1 ELSE y

\* floor(x * r) of a gain, saturated.
Scale(x, r) == AtMost((x * r.num) \div r.den, MaxInt)

ScalesAffinity == runtime /\ ready /\ config.enabled /\ ~Neutral(config.affinity)

\* TryScalePositiveAffinityDelta.
ScaleLegacy(old, delta, new) ==
    IF ScalesAffinity /\ new >= 0 /\ delta \in 1 .. Cap
    THEN AtMost(old + AtMost(Scale(delta, config.affinity), Cap), Cap)
    ELSE new

\* TryScalePositiveFriendlyDelta.
ScaleFriendly(d) == IF ScalesAffinity /\ d > 0 THEN Scale(d, config.affinity) ELSE d

Under == {r \in {config.affinity} : ScalesAffinity}
Book(what, from, asked, got, under) ==
    booked' = [what |-> what, from |-> from, asked |-> asked, got |-> got, under |-> under]

(***************************************************************************)
(* The legacy sites: the game prepares a change and commits it later.      *)
(***************************************************************************)

\* AffinityPrepareCallback: r12 is the value, record+0x10 what it is to be.  The scaled
\* value may not be stored there (TryStoreAffinityValue): the game's then stays.
Prepare(d) ==
    /\ pair = "legacy" /\ change = {}
    /\ \E stored \in {ScaleLegacy(level, d, level + d), level + d} :
          change' = {[delta |-> d, value |-> stored, under |-> Under]}
    /\ booked' = Nothing
    /\ UNCHANGED <<player, level, friendly>>

\* Mutant: the second site takes the difference that the first has scaled.
CurrentWriteTwice(c, rax) == ScaleLegacy(level, rax - level, rax)

\* AffinityCurrentCallback: the pending delta at record+0x28 is still the game's.
CurrentWrite(c, rax) == ScaleLegacy(level, c.delta, rax)

\* What the game has in rax is the prepared value, or one of its own making; it
\* keeps what it stores between 0 and its cap.
Commit ==
    /\ pair = "legacy"
    /\ \E c \in change : \E rax \in {c.value, level + c.delta} :
          /\ level' = AtLeast(AtMost(CurrentWrite(c, rax), Cap), 0)
          /\ Book("affinity", level, c.delta, level' - level, c.under \cup Under)
    /\ change' = {}
    /\ UNCHANGED <<player, friendly>>

(***************************************************************************)
(* The friendly sites: a call is given the address of its data, and a      *)
(* scaled copy is put in its place.  Calls may nest.                       *)
(***************************************************************************)

\* Mutants: the same record again; an index that does not wrap around.
NextSlotSame(s) == s
NextSlotPast(s) == s + 1

NextSlot(s) == IF s = Copies - 1 THEN 0 ELSE s + 1

Older(c) == [c EXCEPT !.later = AtMost(@ + 1, Copies)]
Age(cs) == [i \in 1 .. Len(cs) |-> Older(cs[i])]
Reads(t, c) == IF c.slot = Own THEN c.delta ELSE ring[t][c.slot]

\* TryPrepareScaledFriendlyDataCopy takes the next record.
TakeCopy(t, d) ==
    LET s == cursor[t] IN
    /\ ring' = [ring EXCEPT ![t][s] = ScaleFriendly(d)]
    /\ cursor' = [cursor EXCEPT ![t] = NextSlot(s)]
    /\ calls' = [calls EXCEPT
           ![t] = Append(Age(@), [slot |-> s, delta |-> ScaleFriendly(d), later |-> 0])]

\* AffinityVaryScaleCallback and AffinityVaryWithLogoutScaleCallback, for a call
\* with data of the game's own ...
Vary(t, d) ==
    /\ pair = "friendly" /\ Len(calls[t]) < Depth
    /\ IF ScaleFriendly(d) # d
       THEN TakeCopy(t, d)
       ELSE /\ calls' = [calls EXCEPT ![t] = Append(@, [slot |-> Own, delta |-> d, later |-> 0])]
            /\ UNCHANGED <<ring, cursor>>
    /\ Book("friendly", 0, d, ScaleFriendly(d), Under)
    /\ UNCHANGED <<player, legacy>>

\* ... for one that passes on the data it has been given ...
PassOn(t) ==
    /\ pair = "friendly" /\ calls[t] # <<>> /\ Len(calls[t]) < Depth
    /\ LET c == Last(calls[t]) IN
       IF ScaleFriendly(Reads(t, c)) # Reads(t, c)
       THEN TakeCopy(t, Reads(t, c))
       ELSE calls' = [calls EXCEPT ![t] = Append(@, c)] /\ UNCHANGED <<ring, cursor>>
    /\ booked' = Nothing
    /\ UNCHANGED <<player, legacy>>

\* ... and for one whose data cannot be read to its end: the record is spoilt, and
\* the call goes on with its own data.
CopyFails(t, d) ==
    /\ pair = "friendly" /\ Len(calls[t]) < Depth /\ ScaleFriendly(d) # d
    /\ \E spoilt \in {d, ring[t][cursor[t]]} : ring' = [ring EXCEPT ![t][cursor[t]] = spoilt]
    /\ cursor' = [cursor EXCEPT ![t] = NextSlot(cursor[t])]
    /\ calls' = [calls EXCEPT ![t] = Append(Age(@), [slot |-> Own, delta |-> d, later |-> 0])]
    /\ booked' = Nothing
    /\ UNCHANGED <<player, legacy>>

Return(t) ==
    /\ calls[t] # <<>>
    /\ calls' = [calls EXCEPT ![t] = Front(@)]
    /\ booked' = Nothing
    /\ UNCHANGED <<player, legacy, ring, cursor>>

(***************************************************************************)
(* Items and wear.                                                         *)
(***************************************************************************)

\* ItemGainCallback with TryScaleItemGain.
ItemGain(n) ==
    LET scales == runtime /\ config.enabled /\ ~Neutral(config.items) /\ n > 0 IN
    /\ Book("item", 0, n, IF scales THEN Scale(n, config.items) ELSE n,
            {r \in {config.items} : scales})
    /\ UNCHANGED <<player, legacy, friendly>>

\* ShouldSkipDurabilityConsumption: a roll unless the chance settles it.
Skips == CASE config.chance = 0 -> {TRUE}
           [] config.chance = 100 -> {FALSE}
           [] OTHER -> BOOLEAN

\* DurabilityDeltaCallback and AbyssDurabilityDeltaCallback with
\* TryAdjustDurabilityDelta.
DurabilityDelta(d) ==
    /\ \E skip \in Skips :
          Book("wear", 0, d, IF runtime /\ config.enabled /\ skip THEN 0 ELSE d, {})
    /\ UNCHANGED <<player, legacy, friendly>>

(***************************************************************************)
(* Around them.                                                            *)
(***************************************************************************)
Reload(c) ==
    /\ config' = c /\ c # config
    /\ booked' = Nothing
    /\ UNCHANGED <<runtime, ready, pair, legacy, friendly>>

TrackOrLosePlayer ==
    /\ ready' = ~ready
    /\ booked' = Nothing
    /\ UNCHANGED <<config, runtime, pair, legacy, friendly>>

DisableRuntimeProcessing ==
    /\ runtime /\ runtime' = FALSE
    /\ booked' = Nothing
    /\ UNCHANGED <<config, ready, pair, legacy, friendly>>

Next ==
    \/ \E d \in Deltas : Prepare(d) \/ ItemGain(d) \/ DurabilityDelta(d)
    \/ Commit
    \/ \E t \in Threads :
          \/ \E d \in Deltas : Vary(t, d) \/ CopyFails(t, d)
          \/ PassOn(t) \/ Return(t)
    \/ \E c \in Configs : Reload(c)
    \/ TrackOrLosePlayer \/ DisableRuntimeProcessing

Spec == Init /\ [][Next]_vars

(***************************************************************************)
(* Correctness.                                                            *)
(***************************************************************************)

\* A call sees the delta that was scaled for it, whatever calls have nested in it
\* and whichever of their copies failed, as long as its thread has not taken as many
\* copies since as it has records (affinity_hooks.cpp:409-416).
FriendlyKept ==
    \A t \in Threads : \A i \in 1 .. Len(calls[t]) :
        calls[t][i].later < Copies => Reads(t, calls[t][i]) = calls[t][i].delta

\* Two hooks see a legacy gain and both scale it, but it is scaled once, by the
\* multiplier in force at one of them, and never past the cap (README.md:182-185).
AffinityScaledOnce ==
    booked.what = "affinity" /\ booked.asked > 0 =>
        \E r \in booked.under \cup {One} :
            booked.from + booked.got =
                AtMost(booked.from + AtMost(Scale(booked.asked, r), Cap), Cap)

\* Multipliers that raise gains never lower one, on any path and for any size of it:
\* no rounding, clamping or overflow turns a gain into less than the game meant.  A
\* repair is not such a gain: TryAdjustDurabilityDelta drops those too.
Raising(r) == r.num >= r.den
Affordable == IF booked.what = "affinity" THEN AtMost(booked.asked, Cap - booked.from)
                                          ELSE booked.asked

GainsNeverShrink ==
    /\ booked.what \in {"affinity", "friendly", "item"} /\ booked.asked > 0
    /\ \A r \in booked.under : Raising(r)
    => booked.got >= Affordable
=============================================================================
