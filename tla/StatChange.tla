----------------------------- MODULE StatChange -----------------------------
(***************************************************************************)
(* What becomes of a change the game makes to a stat: the hook that sees   *)
(* the delta (damage, stamina-ab00 or spirit-delta), the game computing    *)
(* the new value, the stat-write hook that sees the value, and the store;  *)
(* and the mount relock, which writes the same memory on its own.          *)
(*                                                                         *)
(* Sources: runtime/stat_logic.cpp, runtime/damage_logic.cpp,              *)
(* hooks/player_hooks.cpp and the relock of mod_logic.cpp.                 *)
(***************************************************************************)
EXTENDS Integers, Sequences

CONSTANTS
    Threads,      \* game threads
    Resolver,     \* the mount resolver thread
    Entries,      \* stat entries
    Owner,        \* [Entries -> {"player", "mount", "other"}]
    Stat,         \* [Entries -> {"health", "stamina", "spirit"}]
    Maximum,      \* [Entries -> Nat \ {0}]
    Deltas,       \* the changes the game makes
    Configs,      \* the configurations
    LargeHealth,  \* kMountHealthStatWriteMinMax
    LargeStamina, \* kMountStaminaStatWriteMinMax
    MaxInt        \* INT64_MAX

Stats == {"health", "stamina", "spirit"}
MinInt == -MaxInt - 1

\* A multiplier: what the doubles of the configuration stand for.
Ratio == [num : Nat, den : Nat \ {0}]
One == [num |-> 1, den |-> 1]
Times(p, q) == [num |-> p.num * q.num, den |-> p.den * q.den]
Neutral(r) == r.num = r.den

\* Of a ModConfig.  What a section says counts only when it is enabled, so a
\* disabled stat or channel has the multiplier One; resist is the greatest of
\* the three resistances in percent, which SanitizeConfig keeps in 0..99.
Config == [consume : [Stats -> Ratio], heal : [Stats -> Ratio],
           incoming : Ratio, incomingFallback : BOOLEAN,
           outgoing : Ratio, outgoingFallback : BOOLEAN,
           resist : 0 .. 99,
           lockHealth : BOOLEAN, lockStamina : BOOLEAN, lock : Nat \ {0}]

ASSUME EntriesAssumption ==
    /\ Entries # {}
    /\ Owner \in [Entries -> {"player", "mount", "other"}]
    /\ Stat \in [Entries -> Stats]
    /\ Maximum \in [Entries -> Nat \ {0}]
ASSUME NumbersAssumption ==
    /\ MaxInt \in Nat /\ \A e \in Entries : Maximum[e] <= MaxInt
    /\ Deltas \subseteq Int \ {0}
    /\ LargeHealth \in Nat /\ LargeStamina \in Nat
ASSUME ConfigsAssumption == Configs \subseteq Config
ASSUME ThreadsAssumption == Resolver \notin Threads

VARIABLES
    config,   \* the published configuration
    current,  \* the current value of each entry
    pc,       \* per thread: the next step
    call,     \* per game thread: the change it is making
    todo      \* per thread: the stats the relock has still to look at

vars == <<config, current, pc, call, todo>>

Call == [entry : Entries,
         asked : Int,        \* what the game asked for
         was : Nat,          \* the value when it did
         outgoing : BOOLEAN, \* IsOutgoingPlayerDamageSource
         delta : Int,        \* the delta, adjusted by the first hook
         value : Int]        \* the value about to be stored

Pcs == {"idle", "relock", "relockWrite", "damage", "ab00", "spirit",
        "apply", "write", "store"}

TypeOK ==
    /\ config \in Configs
    /\ current \in [Entries -> Nat]
    /\ \A e \in Entries : current[e] <= Maximum[e]
    /\ pc \in [Threads \cup {Resolver} -> Pcs]
    /\ call \in [Threads -> Call]
    /\ todo \in [Threads \cup {Resolver} -> Seq(Stats)]

Values == UNION {0 .. Maximum[e] : e \in Entries}
NoCall == [entry |-> CHOOSE e \in Entries : TRUE, asked |-> 0, was |-> 0,
           outgoing |-> FALSE, delta |-> 0, value |-> 0]

Init ==
    /\ config \in Configs
    /\ current \in {f \in [Entries -> Values] : \A e \in Entries : f[e] <= Maximum[e]}
    /\ pc = [p \in Threads \cup {Resolver} |-> "idle"]
    /\ call = [t \in Threads |-> NoCall]
    /\ todo = [p \in Threads \cup {Resolver} |-> <<>>]

(***************************************************************************)
(* Arithmetic on W-bit integers.                                           *)
(***************************************************************************)
ClampToRange(x, lo, hi) == LET low == IF x <= hi THEN x ELSE hi
                           IN IF lo >= low THEN lo ELSE low

\* floor(x * r); an addition that leaves the range wraps around.
Floor(x, r) == (x * r.num) \div r.den
Wrap(x) == ((x - MinInt) % (MaxInt - MinInt + 1)) + MinInt

\* Both saturate; ClampScaledSignedDelta keeps the sign, ScaleDelta is for magnitudes.
ScaleDelta(x, r) == ClampToRange(Floor(x, r), 0, MaxInt)
ScaleSigned(x, r) == ClampToRange(Floor(x, r), MinInt, MaxInt)

\* Mutant: the lock not cut down to the maximum.
LockUnclamped(e) == config.lock

\* ClampMountLockValue of an entry's maximum; SanitizeConfig leaves no lock below 1.
Lock(e) == IF config.lock > Maximum[e] THEN Maximum[e] ELSE config.lock

(***************************************************************************)
(* Which hooks the configuration has installed (config.h).                 *)
(***************************************************************************)
NeutralStat(s) == Neutral(config.consume[s]) /\ Neutral(config.heal[s])
DamageHook == \/ ~Neutral(config.outgoing) \/ ~Neutral(config.incoming)
              \/ config.lockHealth \/ ~NeutralStat("health")
Ab00Hook == config.lockStamina
SpiritHook == ~NeutralStat("spirit")
WriteHook == \/ \E s \in Stats : ~NeutralStat(s)
             \/ config.lockHealth
             \/ config.incomingFallback /\ ~Neutral(config.incoming)
             \/ config.outgoingFallback /\ ~Neutral(config.outgoing)

(***************************************************************************)
(* What the first hook makes of a delta.                                   *)
(***************************************************************************)

\* Mutant: the sign of the scaled hit lost.
ScaledHitUnsigned(d) == ScaleDelta(-d, Times(config.consume["health"], config.incoming))

\* A hit of the player, by ClampScaledSignedDelta; a drain, a heal, by ScaleDelta.
ScaledHit(d) == ScaleSigned(d, Times(config.consume["health"], config.incoming))

ScaledChange(s, d) == IF d < 0 THEN -ScaleDelta(-d, config.consume[s])
                               ELSE ScaleDelta(d, config.heal[s])

\* TryScalePlayerDamage once the mount has been relocked.
DamageDelta(c) ==
    LET e == c.entry
        d == c.delta
    IN  IF d < 0 /\ config.lockHealth /\ Owner[e] = "mount" THEN Lock(e) - current[e]
        ELSE IF Owner[e] = "player" THEN IF d > 0 THEN ScaledChange("health", d) ELSE ScaledHit(d)
        ELSE IF d < 0 /\ c.outgoing THEN ScaleSigned(d, config.outgoing)
        ELSE d

\* TryAdjustStaminaDelta: a mount's stamina, or any that is as large as one's.
StaminaDelta(c) ==
    LET e == c.entry
        d == c.delta
    IN  IF /\ d < 0 /\ config.lockStamina
           /\ Owner[e] = "mount" \/ (Owner[e] = "other" /\ Maximum[e] >= LargeStamina)
        THEN Lock(e) - current[e]
        ELSE IF Owner[e] = "player" THEN ScaledChange("stamina", d) ELSE d

\* TryAdjustSpiritDelta.
SpiritDelta(c) ==
    LET e == c.entry
        d == c.delta
    IN  IF ~SpiritHook THEN d
        ELSE IF d < 0 /\ config.lockStamina /\ Owner[e] = "mount" THEN Lock(e) - current[e]
        ELSE IF Owner[e] = "player" THEN ScaledChange("spirit", d) ELSE d

\* StaminaAb00Callback, which sees the spirit entries as well.
MountTracked == \E e \in Entries : Owner[e] = "mount"

Ab00Delta(c) ==
    IF Stat[c.entry] = "stamina" THEN StaminaDelta(c)
    ELSE IF Stat[c.entry] = "spirit"
         THEN IF c.delta < 0 /\ config.lockStamina /\ MountTracked THEN 0 ELSE SpiritDelta(c)
         ELSE c.delta

(***************************************************************************)
(* What the stat-write hook makes of a value (TryAdjustStatWrite).         *)
(***************************************************************************)

\* Mutant: the lock taken for the upper bound.
MountWriteSwapped(e, old, value) ==
    IF /\ config.lockHealth /\ Stat[e] = "health" /\ value < old
       /\ Owner[e] = "mount" \/ (Owner[e] = "other" /\ Maximum[e] >= LargeHealth)
    THEN ClampToRange(value, 0, Lock(e))
    ELSE value

\* TryAdjustMountHealthWrite: a mount, or an untracked entry as large as one.
MountWrite(e, old, value) ==
    IF /\ config.lockHealth /\ Stat[e] = "health" /\ value < old
       /\ Owner[e] = "mount" \/ (Owner[e] = "other" /\ Maximum[e] >= LargeHealth)
    THEN ClampToRange(Lock(e), value, Maximum[e])
    ELSE value

\* Mutant: a hit may be rounded away.
OutgoingWriteRounded(e, old, value) ==
    IF /\ config.outgoingFallback /\ ~Neutral(config.outgoing)
       /\ Owner[e] = "other" /\ Stat[e] = "health" /\ value < old
    THEN ClampToRange(old - ScaleDelta(old - value, config.outgoing), 0, Maximum[e])
    ELSE value

\* TryAdjustOutgoingHealthWrite: whoever is hit, and at least 1 unless the
\* multiplier is 0.
OutgoingWrite(e, old, value) ==
    LET scaled == ScaleDelta(old - value, config.outgoing)
        damage == IF scaled = 0 /\ config.outgoing.num > 0 THEN 1 ELSE scaled
    IN  IF /\ config.outgoingFallback /\ ~Neutral(config.outgoing)
           /\ Owner[e] = "other" /\ Stat[e] = "health" /\ value < old
        THEN ClampToRange(old - damage, 0, Maximum[e])
        ELSE value

\* Mutant: resistance added where it is to be taken off.
ResistedAdded == [num |-> 100 + config.resist, den |-> 100]

\* EffectiveIncomingResistanceMultiplier; health has the fallback channel as well.
Resisted == [num |-> 100 - config.resist, den |-> 100]

Consumption(s) ==
    IF s # "health" THEN config.consume[s]
    ELSE Times(Times(config.consume[s],
                     IF config.incomingFallback THEN config.incoming ELSE One), Resisted)

PlayerWrite(e, old, value) ==
    LET consumed == old - value
        kept == consumed - ScaleDelta(consumed, Consumption(Stat[e]))
        healed == value - old
        more == ScaleDelta(healed, config.heal[Stat[e]]) - healed
    IN  IF value < old THEN ClampToRange(Wrap(value + kept), 0, Maximum[e])
        ELSE IF value > old THEN ClampToRange(Wrap(value + more), 0, Maximum[e])
        ELSE value

StatWrite(e, old, value) ==
    IF value < 0 THEN value
    ELSE IF MountWrite(e, old, value) # value THEN MountWrite(e, old, value)
    ELSE IF Owner[e] = "player" THEN PlayerWrite(e, old, value)
    ELSE OutgoingWrite(e, old, value)

(***************************************************************************)
(* The relock: RelockTrackedMountStats.                                    *)
(***************************************************************************)
Goto(p, s) == pc' = [pc EXCEPT ![p] = s]

\* Mutant: only health relocked.
ToRelockHealth == IF config.lockHealth THEN <<"health">> ELSE <<>>

ToRelock == (IF config.lockHealth THEN <<"health">> ELSE <<>>)
            \o (IF config.lockStamina THEN <<"stamina", "spirit">> ELSE <<>>)

MountEntry(e, s) == Owner[e] = "mount" /\ Stat[e] = s

Poll ==
    /\ pc[Resolver] = "idle"
    /\ Goto(Resolver, "relock")
    /\ todo' = [todo EXCEPT ![Resolver] = ToRelock]
    /\ UNCHANGED <<config, current, call>>

\* TryRelockMountStatEntry reads the value ...
RelockRead(p) ==
    /\ pc[p] = "relock" /\ todo[p] # <<>>
    /\ IF \E e \in Entries : MountEntry(e, Head(todo[p])) /\ current[e] < Lock(e)
       THEN Goto(p, "relockWrite") /\ UNCHANGED todo
       ELSE todo' = [todo EXCEPT ![p] = Tail(@)] /\ UNCHANGED pc
    /\ UNCHANGED <<config, current, call>>

\* ... and writes the lock over whatever is there by then.
RelockWrite(p) ==
    /\ pc[p] = "relockWrite"
    /\ \E e \in Entries : /\ MountEntry(e, Head(todo[p]))
                          /\ current' = [current EXCEPT ![e] = Lock(e)]
    /\ todo' = [todo EXCEPT ![p] = Tail(@)]
    /\ Goto(p, "relock")
    /\ UNCHANGED <<config, call>>

RelockDone(p) ==
    /\ pc[p] = "relock" /\ todo[p] = <<>>
    /\ Goto(p, IF p = Resolver THEN "idle" ELSE "damage")
    /\ UNCHANGED <<config, current, call, todo>>

(***************************************************************************)
(* A change of a stat on a game thread.  The game makes one change of an   *)
(* entry at a time.                                                        *)
(***************************************************************************)
Free(t, e) ==
    /\ pc[t] = "idle"
    /\ \A u \in Threads : pc[u] # "idle" => call[u].entry # e

Begin(t, e, d, outgoing) ==
    /\ Free(t, e)
    /\ call' = [call EXCEPT ![t] = [entry |-> e, asked |-> d, was |-> current[e],
                                    outgoing |-> outgoing, delta |-> d, value |-> 0]]
    /\ UNCHANGED <<config, current>>

\* A damage event: a negative one relocks the mount before anything else.
Damage(t, e, d, outgoing) ==
    LET relocks == DamageHook /\ config.lockHealth /\ d < 0 IN
    /\ Stat[e] = "health"
    /\ Begin(t, e, d, outgoing)
    /\ Goto(t, IF relocks THEN "relock" ELSE IF DamageHook THEN "damage" ELSE "apply")
    /\ todo' = [todo EXCEPT ![t] = IF relocks THEN ToRelock ELSE <<>>]

\* A change of stamina or spirit that comes by stamina-ab00 ...
Cost(t, e, d) ==
    /\ Stat[e] \in {"stamina", "spirit"}
    /\ Begin(t, e, d, FALSE)
    /\ Goto(t, IF Ab00Hook THEN "ab00" ELSE "apply")
    /\ UNCHANGED todo

\* ... of spirit that comes by spirit-delta ...
SpiritCost(t, e, d) ==
    /\ Stat[e] = "spirit"
    /\ Begin(t, e, d, FALSE)
    /\ Goto(t, IF SpiritHook /\ Owner[e] # "other" THEN "spirit" ELSE "apply")
    /\ UNCHANGED todo

\* ... and a change that no delta hook sees.
Change(t, e, d) ==
    /\ Begin(t, e, d, FALSE)
    /\ Goto(t, "apply")
    /\ UNCHANGED todo

Adjust(t, s, delta) ==
    /\ pc[t] = s
    /\ call' = [call EXCEPT ![t].delta = delta]
    /\ Goto(t, "apply")
    /\ UNCHANGED <<config, current, todo>>

DamageCallback(t) == Adjust(t, "damage", DamageDelta(call[t]))
StaminaAb00Callback(t) == Adjust(t, "ab00", Ab00Delta(call[t]))
SpiritDeltaCallback(t) == Adjust(t, "spirit", SpiritDelta(call[t]))

\* The game computes the new value.
Apply(t) ==
    LET e == call[t].entry IN
    /\ pc[t] = "apply"
    /\ call' = [call EXCEPT ![t].value = ClampToRange(current[e] + call[t].delta, 0, Maximum[e])]
    /\ Goto(t, IF WriteHook THEN "write" ELSE "store")
    /\ UNCHANGED <<config, current, todo>>

StatWriteCallback(t) ==
    LET e == call[t].entry IN
    /\ pc[t] = "write"
    /\ call' = [call EXCEPT ![t].value = StatWrite(e, current[e], @)]
    /\ Goto(t, "store")
    /\ UNCHANGED <<config, current, todo>>

\* The instruction the stat-write hook stands before.
Store(t) ==
    /\ pc[t] = "store"
    /\ current' = [current EXCEPT ![call[t].entry] = call[t].value]
    /\ call' = [call EXCEPT ![t] = NoCall]
    /\ Goto(t, "idle")
    /\ UNCHANGED <<config, todo>>

Relock(p) == RelockRead(p) \/ RelockWrite(p) \/ RelockDone(p)

Continue(t) ==
    \/ Relock(t)
    \/ DamageCallback(t) \/ StaminaAb00Callback(t) \/ SpiritDeltaCallback(t)
    \/ Apply(t) \/ StatWriteCallback(t) \/ Store(t)

Game(t) ==
    \E e \in Entries, d \in Deltas :
        \/ \E outgoing \in BOOLEAN : Damage(t, e, d, outgoing)
        \/ Cost(t, e, d) \/ SpiritCost(t, e, d) \/ Change(t, e, d)

MountResolverLoop == Poll \/ Relock(Resolver)

Next == MountResolverLoop \/ \E t \in Threads : Game(t) \/ Continue(t)

Spec == Init /\ [][Next]_vars

\* A change that has begun is finished and the resolver keeps polling.
FairSpec == /\ Spec /\ WF_vars(MountResolverLoop)
            /\ \A t \in Threads : WF_vars(Continue(t))

(***************************************************************************)
(* Correctness.  Every change passes up to three pieces of code that       *)
(* adjust it without knowing of each other.                                *)
(***************************************************************************)
Stored(t, owner) == pc[t] = "store" /\ Owner[call[t].entry] = owner

\* However many hooks have scaled it, a hit or a cost never leaves the player with
\* more than there was, nor a heal with less (stat_logic.cpp:805-815 and
\* damage_logic.cpp:299-347).
Direction ==
    \A t \in Threads : Stored(t, "player") =>
        /\ call[t].asked < 0 => call[t].value <= call[t].was
        /\ call[t].asked > 0 => call[t].value >= call[t].was

\* The bound the healing half needs: SanitizeConfig leaves multipliers unbounded, and
\* the sum of a heal scaled by one that is out of all proportion wraps around to a
\* negative number, so that a heal would empty the bar (stat_logic.cpp:810-815).
NoOverflow == \A c \in Configs, e \in Entries :
                  Maximum[e] + Floor(Maximum[e], c.heal[Stat[e]]) <= MaxInt

\* Multipliers that reduce harm reduce it through all the hooks and roundings: no
\* hit costs the player more than the game asked for.
AtMostOne(r) == r.num <= r.den
Reducing(s) == AtMostOne(config.consume[s]) /\ AtMostOne(config.incoming)

HarmReduced ==
    \A t \in Threads : Stored(t, "player") /\ call[t].asked < 0 /\ Reducing(Stat[call[t].entry]) =>
        call[t].value >= call[t].was + call[t].asked

\* A hit of the player's side counts, whichever of the two outgoing scalings
\* rounds it (stat_logic.cpp:266-268), unless outgoing damage is multiplied by 0.
HitsCount ==
    \A t \in Threads :
        /\ Stored(t, "other") /\ call[t].outgoing /\ call[t].asked < 0 /\ call[t].was > 0
        /\ config.outgoing.num > 0 /\ Maximum[call[t].entry] < LargeHealth
        => call[t].value < call[t].was

\* A locked mount whose health is at its lock or above is not brought below it by a
\* change that found it there: damage computed before a relock, healed or struck in
\* between, or damage no delta hook has seen.
LockKept ==
    \A t \in Threads :
        LET e == call[t].entry IN
        /\ Stored(t, "mount") /\ Stat[e] = "health" /\ config.lockHealth
        /\ call[t].was >= Lock(e)
        => call[t].value >= Lock(e)

\* A stat of the mount whose lock is switched on.
Locked(e) == /\ Owner[e] = "mount"
             /\ IF Stat[e] = "health" THEN config.lockHealth ELSE config.lockStamina

\* Changes and relocks overwrite each other, a change under way even takes a relocked
\* mount back down, but the lock comes back: every locked stat reaches its lock again
\* and again, whatever the game does to it.
LockReturns ==
    \A e \in {x \in Entries : Owner[x] = "mount"} : []<>(Locked(e) => current[e] >= Lock(e))
=============================================================================
