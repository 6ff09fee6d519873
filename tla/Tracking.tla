------------------------------ MODULE Tracking ------------------------------
(***************************************************************************)
(* How the mod decides which game object is the player and which is the    *)
(* player's mount: runtime_state.cpp, actor_resolve.cpp, mount_resolver.cpp*)
(* and the tracking half of mod_logic.cpp.                                 *)
(*                                                                         *)
(* The game's own threads run the hook callbacks, and the mod's resolver   *)
(* thread polls beside them.  They share two snapshot structures,          *)
(* g_player_resolve and g_mount_resolve: every write is made under         *)
(* g_state_mutex, nearly every read is made without it.                    *)
(*                                                                         *)
(* A game object stands for the actor, its marker, its root and its stat   *)
(* entries; a snapshot maps each group of pointers to the object they      *)
(* point into, so that a snapshot stitched from two objects can be told    *)
(* from one that is not.                                                   *)
(***************************************************************************)
EXTENDS Naturals

CONSTANTS
    Obj,             \* game objects that own a status marker
    Null,            \* a pointer below kMinimumPointerAddress
    GameThreads,     \* game threads that run hook callbacks
    Resolver,        \* the mod's mount resolver thread
    Hooks,           \* the hooks install_hooks.cpp installed
    PointerSources,  \* objects the player-pointer site fires for
    ChainTargets,    \* objects the mounted-dragon pointer chain may lead to
    PlayerRange,     \* health maximum within the player fallback range
    HasSpirit,       \* objects with a readable spirit entry
    Profiles,        \* the stat profiles each object may show over time
    Configs,         \* the switches on in each version of the config file
    Blocks           \* groups of fields one store of a snapshot writes

Fields == {"id", "root", "health", "stamina", "spirit", "damage"}
ProfileKinds == {"dragon", "ground", "proxy", "other", "gone"}
HookKinds == {"pointer", "stats", "stat-write", "stamina-ab00", "spirit",
              "damage"}

ASSUME NullAssumption == Null \notin Obj
ASSUME ThreadAssumption == Resolver \notin GameThreads /\ Null \notin GameThreads \cup {Resolver}
ASSUME SubsetAssumption ==
    /\ Hooks \subseteq HookKinds
    /\ PointerSources \subseteq Obj
    /\ ChainTargets \subseteq Obj
    /\ PlayerRange \subseteq Obj
    /\ HasSpirit \subseteq Obj
ASSUME ProfilesAssumption == Profiles \in [Obj -> (SUBSET ProfileKinds) \ {{}}]
ASSUME ConfigsAssumption ==
    Configs \subseteq SUBSET {"general", "mount", "lock_health", "lock_stamina"}
ASSUME BlocksAssumption == Blocks \subseteq SUBSET Fields /\ UNION Blocks = Fields

Threads == GameThreads \cup {Resolver}
Pointer == Obj \cup {Null}
Snapshot == [Fields -> Pointer]
Stamps == {"never", "fresh", "stale"}
Locks == {"playerCommit", "bootstrapCommit", "assignCommit", "healthCommit",
          "staminaCommit", "spiritCommit", "mountCommit", "refreshCommit",
          "keepAliveCommit", "resetCommit", "refreshDrop"}
Unlocked == {"idle", "ab00Mount", "ab00Adjust", "damageRelock", "mountCheck",
             "mountTouch", "relock", "reresolve", "keepAlive", "relockWrite",
             "refresh", "refreshRecheck", "loopRelock"}
Returns == {"idle", "ab00Mount", "ab00Adjust", "damageRelock",
            "refreshRecheck", "loopRelock"}
Resumes == Returns \cup {"refresh", "relock", "relockWrite"}
Labels == Locks \cup Unlocked \cup {"unlock"}

VARIABLES
    player,      \* g_player_resolve as other threads see it
    mount,       \* g_mount_resolve as other threads see it
    nextPlayer,  \* g_player_resolve when the stores under way are done
    nextMount,   \* g_mount_resolve when the stores under way are done
    lastSeen,    \* g_mount_last_seen_tick: 0, within StaleComponentMs, older
    nextSeen,    \* the stamp the lock holder will store, or "keep"
    mutex,       \* g_state_mutex: its owner, or Null
    enabled,     \* g_runtime_enabled
    config,      \* GetConfig(): the switches that are on
    profile,     \* what each object's stat maxima look like now
    linked,      \* objects whose marker and root point at each other
    chain,       \* where the mounted-dragon pointer chain leads
    pc,          \* per thread: the next step of the callback it runs
    cand,        \* per thread: the object the callback is about
    snap,        \* per thread: the mount snapshot copied by the relock
    ret,         \* per thread: where the running call returns to
    after        \* per thread: where to go on after the unlock

shared == <<player, mount, nextPlayer, nextMount, lastSeen, nextSeen, mutex>>
world == <<enabled, config, profile, linked, chain>>
locals == <<pc, cand, snap, ret, after>>
vars == <<shared, world, locals>>

(***************************************************************************)
(* Snapshots.                                                              *)
(***************************************************************************)
Empty == [f \in Fields |-> Null]

\* ActorResolveSnapshot::valid
Valid(s) == \A f \in {"id", "root", "health", "stamina"} : s[f] # Null

\* What TryResolveActorResolveFromMarker fills in for object o ...
Resolve(o) == [f \in Fields |-> IF f = "spirit" /\ o \notin HasSpirit THEN Null ELSE o]

\* ... and when it succeeds: the links agree and the stat entries are readable.
Resolves(o) == o \in linked /\ profile[o] # "gone"

\* A snapshot already tracked keeps its pointers; the gaps are filled from o.
\* The damage pointers are not among the merged fields.
Merge(s, o) == [f \in Fields |->
                   IF s[f] = Null /\ f # "damage" THEN Resolve(o)[f] ELSE s[f]]

\* The profile read through a snapshot's health and stamina pointers, which
\* must lie at the fixed distance one object's entries have.
ProfileOf(s) == IF Valid(s) /\ s["stamina"] = s["health"]
                THEN profile[s["health"]] ELSE "gone"

Supported(s) == ProfileOf(s) \in {"dragon", "ground"}

\* A proxy profile is accepted only for the very mount already tracked.
TrackedProxy(s) ==
    /\ ProfileOf(s) = "proxy"
    /\ Valid(mount)
    /\ \A f \in {"id", "root", "health", "stamina"} : s[f] = mount[f]
    /\ s["id"] # player["id"]
    /\ s["root"] # player["root"]

SupportedTracked(s) == Supported(s) \/ TrackedProxy(s)

\* The two checks every part of the runtime starts with, and IsMountLockEnabled.
Processing == enabled /\ "general" \in config
Locking == "mount" \in config /\ config \cap {"lock_health", "lock_stamina"} # {}

NotPlayer(o) == o # player["id"] /\ o # player["root"]

\* A root or component some callback was called for that is not the player's and
\* resolves to an object of its own ...
ContextRoot(o) == NotPlayer(o) /\ Resolves(o)

\* ... and shows one of the profiles the caller accepts for a mount.
MountContext(o, kinds) ==
    Valid(player) /\ ContextRoot(o) /\ ProfileOf(Resolve(o)) \in kinds

\* UpdateTrackedMountFromStatComponent goes as far as the mount's own update.
StatComponent(o) ==
    Locking /\ Valid(player) /\ ContextRoot(o) /\ SupportedTracked(Resolve(o))

\* ClassifyTrackedStatEntry(...) = None for o's entry of the given stat
Untracked(o, stat) == player[stat] # o /\ mount[stat] # o

(***************************************************************************)
(* Control.                                                                *)
(***************************************************************************)
TypeOK ==
    /\ {player, mount, nextPlayer, nextMount} \subseteq Snapshot
    /\ lastSeen \in Stamps /\ nextSeen \in Stamps \cup {"keep"}
    /\ mutex \in Threads \cup {Null}
    /\ enabled \in BOOLEAN /\ config \in Configs
    /\ profile \in [Obj -> ProfileKinds]
    /\ linked \subseteq Obj
    /\ chain \in Pointer
    /\ pc \in [Threads -> Labels]
    /\ cand \in [Threads -> Pointer]
    /\ snap \in [Threads -> Snapshot]
    /\ ret \in [Threads -> Returns]
    /\ after \in [Threads -> Resumes]

Init ==
    /\ player = Empty /\ mount = Empty
    /\ nextPlayer = Empty /\ nextMount = Empty
    /\ lastSeen = "never" /\ nextSeen = "keep"
    /\ mutex = Null
    /\ enabled = TRUE /\ config \in Configs
    /\ profile \in {q \in [Obj -> ProfileKinds] : \A o \in Obj : q[o] \in Profiles[o]}
    /\ linked = Obj
    /\ chain = Null
    /\ pc = [t \in Threads |-> "idle"]
    /\ cand = [t \in Threads |-> Null]
    /\ snap = [t \in Threads |-> Empty]
    /\ ret = [t \in Threads |-> "idle"]
    /\ after = [t \in Threads |-> "idle"]

\* Go on at label l with locals c, s and r; returning to the game forgets them.
Goto(t, l, c, s, r) ==
    /\ pc' = [pc EXCEPT ![t] = l]
    /\ cand' = [cand EXCEPT ![t] = IF l = "idle" THEN Null ELSE c]
    /\ snap' = [snap EXCEPT ![t] = IF l = "idle" THEN Empty ELSE s]
    /\ ret' = [ret EXCEPT ![t] = IF l = "idle" THEN "idle" ELSE r]

Jump(t, l) == Goto(t, l, cand[t], snap[t], ret[t])

\* Only thread t's locals move.
Step(t, l) == Jump(t, l) /\ UNCHANGED <<shared, world, after>>

\* A std::lock_guard block that leaves p and m in the two snapshots, stores the
\* stamp seen and goes on at l after the unlock.
Locked(t, l, p, m, seen) ==
    /\ mutex = Null
    /\ mutex' = t
    /\ nextPlayer' = p /\ nextMount' = m /\ nextSeen' = seen
    /\ pc' = [pc EXCEPT ![t] = "unlock"]
    /\ after' = [after EXCEPT ![t] = l]
    /\ UNCHANGED <<player, mount, lastSeen, world>>

LockedNoChange(t, l) == Locked(t, l, nextPlayer, nextMount, "keep")
KeepLocals == UNCHANGED <<cand, snap, ret>>

Overlay(old, new, B) == [f \in Fields |-> IF f \in B THEN new[f] ELSE old[f]]

\* The holder's stores reach memory one block at a time, where the unlocked
\* readers see them.  The mount is reset before a new player is stored.
StoreMount(t) ==
    /\ pc[t] = "unlock"
    /\ \E B \in Blocks : mount' = Overlay(mount, nextMount, B)
    /\ mount' # mount
    /\ UNCHANGED <<player, nextPlayer, nextMount, lastSeen, nextSeen, mutex, world, locals>>

StorePlayer(t) ==
    /\ pc[t] = "unlock"
    /\ mount = nextMount
    /\ \E B \in Blocks : player' = Overlay(player, nextPlayer, B)
    /\ player' # player
    /\ UNCHANGED <<mount, nextPlayer, nextMount, lastSeen, nextSeen, mutex, world, locals>>

\* Mutant: an unlock that always stores the stamp.
UnlockStamps(t) ==
    /\ pc[t] = "unlock"
    /\ player = nextPlayer /\ mount = nextMount
    /\ mutex' = Null
    /\ lastSeen' = nextSeen
    /\ nextSeen' = "keep"
    /\ Jump(t, after[t])
    /\ after' = [after EXCEPT ![t] = "idle"]
    /\ UNCHANGED <<player, mount, nextPlayer, nextMount, world>>

Unlock(t) ==
    /\ pc[t] = "unlock"
    /\ player = nextPlayer /\ mount = nextMount
    /\ mutex' = Null
    /\ lastSeen' = IF nextSeen = "keep" THEN lastSeen ELSE nextSeen
    /\ nextSeen' = "keep"
    /\ Jump(t, after[t])
    /\ after' = [after EXCEPT ![t] = "idle"]
    /\ UNCHANGED <<player, mount, nextPlayer, nextMount, world>>

(***************************************************************************)
(* The player: the hook callbacks that may discover it.                    *)
(***************************************************************************)

\* PlayerPointerCallback -> UpdateTrackedPlayerStatusComponent.
PlayerPointer(t, o) ==
    /\ pc[t] = "idle"
    /\ "pointer" \in Hooks /\ o \in PointerSources
    /\ Resolves(o)
    /\ Goto(t, "playerCommit", o, Empty, "idle")
    /\ UNCHANGED <<shared, world, after>>

\* Mutant: the latest pointer wins, whatever health is tracked.
PlayerCommitLatest(t) ==
    /\ pc[t] = "playerCommit"
    /\ IF nextPlayer["id"] = cand[t]
       THEN LockedNoChange(t, "idle")
       ELSE Locked(t, "refresh", Resolve(cand[t]), Empty, "never")
    /\ KeepLocals

\* Mutant: the mount is refreshed inside the critical section.
PlayerCommitHolding(t) ==
    /\ pc[t] = "playerCommit"
    /\ mutex = Null
    /\ mutex' = t
    /\ nextPlayer' = Resolve(cand[t]) /\ player' = nextPlayer'
    /\ Jump(t, "refresh")
    /\ UNCHANGED <<mount, nextMount, lastSeen, nextSeen, world, after>>

PlayerCommit(t) ==
    LET o == cand[t]
        health == nextPlayer["health"]
    IN
    /\ pc[t] = "playerCommit"
    /\ \/ /\ health = o /\ nextPlayer["id"] = o      \* already tracked
          /\ LockedNoChange(t, "idle")
       \/ /\ health \notin {Null, o}                 \* a different health: ignored
          /\ LockedNoChange(t, "idle")
       \/ /\ health = o /\ nextPlayer["id"] # o
          /\ Locked(t, "refresh", Merge(nextPlayer, o), nextMount, "keep")
       \/ /\ health = Null
          /\ Locked(t, "refresh", Resolve(o), Empty, "never")
    /\ KeepLocals

\* StatsCallback -> ObserveStatEntry for an entry of kind stat: the player's
\* marker is read without the lock to tell the three cases apart.
Stats(t, o, stat) ==
    /\ pc[t] = "idle"
    /\ "stats" \in Hooks
    /\ Processing
    /\ profile[o] # "gone"
    /\ stat = "spirit" => o \in HasSpirit
    /\ \/ /\ player["id"] = Null
          /\ Resolves(o)
          /\ Goto(t, "bootstrapCommit", o, Empty, "idle")
       \/ /\ player["id"] \notin {Null, o}
          /\ StatComponent(o)
          /\ Goto(t, "mountCheck", o, Empty, "idle")
       \/ /\ player["id"] = o
          /\ Goto(t, "assignCommit", o, Empty, "idle")
    /\ UNCHANGED <<shared, world, after>>

\* Mutant: the behaviour before Fix-13, the later component wins.
BootstrapOverwrites(t) ==
    /\ pc[t] = "bootstrapCommit"
    /\ Locked(t, "idle", Resolve(cand[t]), nextMount, "keep")
    /\ KeepLocals

\* TryBootstrapPlayerResolveFromStatComponent
BootstrapCommit(t) ==
    LET o == cand[t]
        health == nextPlayer["health"]
    IN
    /\ pc[t] = "bootstrapCommit"
    /\ \/ health \notin {Null, o} /\ LockedNoChange(t, "idle")
       \/ health = o /\ Locked(t, "idle", Merge(nextPlayer, o), nextMount, "keep")
       \/ health = Null /\ Locked(t, "idle", Resolve(o), nextMount, "keep")
    /\ KeepLocals

\* ObserveStatEntry's own critical section and TryAssignPlayerResolvedEntry.  A stamina
\* or spirit entry already known is exchanged for the one seen if the same component
\* has two (actor_resolve.cpp:401-411); as a field names only the object, that is a
\* store that changes nothing here.
AssignCommit(t) ==
    LET o == cand[t] IN
    /\ pc[t] = "assignCommit"
    /\ \/ /\ nextPlayer["id"] = o /\ Valid(nextPlayer)
          /\ \E stat \in {"stamina"} \cup (IF o \in HasSpirit THEN {"spirit"} ELSE {}) :
                Locked(t, "idle", [nextPlayer EXCEPT ![stat] = o], nextMount, "keep")
       \/ LockedNoChange(t, "idle")                  \* health, or no longer the player's
    /\ KeepLocals

\* The component is read again under the lock, and its memory may be gone by now.
\* The access fault leaves through the handler of StatsCallback, which disables
\* processing; a build with /EHsc need not run the lock guard's destructor.
AssignFault(t) ==
    /\ pc[t] = "assignCommit" /\ profile[cand[t]] = "gone"
    /\ mutex = Null
    /\ mutex' \in {t, Null}
    /\ enabled' = FALSE
    /\ Jump(t, "idle")
    /\ UNCHANGED <<player, mount, nextPlayer, nextMount, lastSeen, nextSeen, after>>
    /\ UNCHANGED <<config, profile, linked, chain>>

\* StatWriteCallback -> TryAdjustStatWrite, a negative health write nobody owns.
HealthWrite(t, o) ==
    /\ pc[t] = "idle"
    /\ "stat-write" \in Hooks
    /\ Processing
    /\ profile[o] # "gone" /\ o \in PlayerRange
    /\ Untracked(o, "health")
    /\ Goto(t, "healthCommit", o, Empty, "idle")
    /\ UNCHANGED <<shared, world, after>>

\* The neighbours of a health or stamina entry that the bootstrap finds: the
\* offset, then a search of the window, may each come up empty.
SpiritNear(o) == {Null} \cup (IF o \in HasSpirit THEN {o} ELSE {})

\* TryBootstrapPlayerResolveFromHealthWrite
HealthCommit(t) ==
    LET o == cand[t] IN
    /\ pc[t] = "healthCommit"
    /\ \/ /\ nextPlayer["health"] = Null
          /\ \E st \in {Null, o}, sp \in SpiritNear(o) :
                Locked(t, "idle",
                       [nextPlayer EXCEPT !["health"] = o, !["stamina"] = st, !["spirit"] = sp],
                       nextMount, "keep")
       \/ nextPlayer["health"] # Null /\ LockedNoChange(t, "idle")
    /\ KeepLocals

\* StaminaAb00Callback for a stamina entry: bootstrap the player's stamina
\* (whether or not processing is enabled), then the mount, then the delta.
Ab00(t, o) ==
    /\ pc[t] = "idle"
    /\ "stamina-ab00" \in Hooks
    /\ profile[o] # "gone"
    /\ IF player["stamina"] = Null
       THEN Goto(t, "staminaCommit", o, Empty, "ab00Mount")
       ELSE Goto(t, "ab00Mount", o, Empty, "idle")
    /\ UNCHANGED <<shared, world, after>>

\* Mutant: the nearby-player-health test dropped.
StaminaAnywhere(t) ==
    /\ pc[t] = "staminaCommit"
    /\ IF nextPlayer["stamina"] = Null /\ nextPlayer["health"] # Null
       THEN Locked(t, ret[t], [nextPlayer EXCEPT !["stamina"] = cand[t]], nextMount, "keep")
       ELSE LockedNoChange(t, ret[t])
    /\ KeepLocals

\* TryBootstrapPlayerStaminaFromEntry
StaminaCommit(t) ==
    LET o == cand[t]
        health == nextPlayer["health"]
    IN
    /\ pc[t] = "staminaCommit"
    /\ \/ /\ nextPlayer["stamina"] = Null /\ health = o
          /\ Locked(t, ret[t], [nextPlayer EXCEPT !["stamina"] = o], nextMount, "keep")
       \/ /\ nextPlayer["stamina"] = Null /\ health = Null /\ o \in PlayerRange
          /\ \E sp \in SpiritNear(o) :
                Locked(t, ret[t],
                       [nextPlayer EXCEPT !["health"] = o, !["stamina"] = o, !["spirit"] = sp],
                       nextMount, "keep")
       \/ /\ \/ nextPlayer["stamina"] # Null
             \/ health \notin {Null, o}
             \/ health = Null /\ o \notin PlayerRange
          /\ LockedNoChange(t, ret[t])
    /\ KeepLocals

\* UpdateTrackedMountFromStaminaContext, unless the entry is the player's.
Ab00Mount(t) ==
    LET o == cand[t] IN
    /\ pc[t] = "ab00Mount"
    /\ IF player["stamina"] # o /\ MountContext(o, {"dragon", "ground"})
       THEN Goto(t, "mountCheck", o, snap[t], "ab00Adjust")
       ELSE Jump(t, "ab00Adjust")
    /\ UNCHANGED <<shared, world, after>>

\* TryAdjustStaminaDelta: a second bootstrap for an entry still nobody's; a zero
\* delta returns before it.
Ab00Adjust(t) ==
    /\ pc[t] = "ab00Adjust"
    /\ \/ /\ Processing /\ Untracked(cand[t], "stamina")
          /\ Goto(t, "staminaCommit", cand[t], snap[t], "idle")
       \/ Jump(t, "idle")
    /\ UNCHANGED <<shared, world, after>>

\* SpiritDeltaCallback, its first part; TryAdjustSpiritDelta repeats it, also
\* when the stamina site is called for a spirit entry.
SpiritDelta(t, o) ==
    /\ pc[t] = "idle"
    /\ Hooks \cap {"spirit", "stamina-ab00"} # {}
    /\ profile[o] # "gone" /\ o \in HasSpirit
    /\ player["spirit"] = Null
    /\ Goto(t, "spiritCommit", o, Empty, "idle")
    /\ UNCHANGED <<shared, world, after>>

\* TryBootstrapPlayerSpiritFromEntry
SpiritCommit(t) ==
    LET o == cand[t] IN
    /\ pc[t] = "spiritCommit"
    /\ IF nextPlayer["spirit"] = Null /\ nextPlayer["health"] = o
       THEN Locked(t, "idle", [nextPlayer EXCEPT !["spirit"] = o], nextMount, "keep")
       ELSE LockedNoChange(t, "idle")
    /\ KeepLocals

(***************************************************************************)
(* The mount: UpdateTrackedMountStatusComponent and its callers.           *)
(***************************************************************************)

\* DamageCallback -> TryScalePlayerDamage: a dragon target may become the mount.
Damage(t, o) ==
    /\ pc[t] = "idle"
    /\ "damage" \in Hooks
    /\ Processing /\ Valid(player)
    /\ IF MountContext(o, {"dragon"})
       THEN Goto(t, "mountCheck", o, Empty, "damageRelock")
       ELSE Goto(t, "damageRelock", o, Empty, "idle")
    /\ UNCHANGED <<shared, world, after>>

\* ... and a negative delta relocks the mount before it is scaled.
DamageRelock(t) ==
    /\ pc[t] = "damageRelock"
    /\ \/ {"mount", "lock_health"} \subseteq config
          /\ Goto(t, "relock", cand[t], snap[t], "idle")
       \/ Jump(t, "idle")
    /\ UNCHANGED <<shared, world, after>>

MountCheck(t) ==
    LET o == cand[t] IN
    /\ pc[t] = "mountCheck"
    /\ Step(t, IF ~(ContextRoot(o) /\ SupportedTracked(Resolve(o)))
               THEN ret[t]
               ELSE IF mount["id"] = o THEN "mountTouch" ELSE "mountCommit")

\* Already tracked: only the time stamp is renewed, without the lock.
MountTouch(t) ==
    /\ pc[t] = "mountTouch"
    /\ lastSeen' = "fresh"
    /\ Jump(t, "relock")
    /\ UNCHANGED <<player, mount, nextPlayer, nextMount, nextSeen, mutex, world, after>>

\* Mutant: a tracked mount is never replaced.
MountCommitFirst(t) ==
    /\ pc[t] = "mountCommit"
    /\ Locked(t, "relock", nextPlayer,
              IF nextMount["id"] # Null THEN nextMount ELSE Resolve(cand[t]), "fresh")
    /\ KeepLocals

MountCommit(t) ==
    /\ pc[t] = "mountCommit"
    /\ Locked(t, "relock", nextPlayer,
              IF nextMount["id"] = cand[t] THEN nextMount ELSE Resolve(cand[t]), "fresh")
    /\ KeepLocals

(***************************************************************************)
(* RelockTrackedMountStats and TryRefreshTrackedMountSnapshot.             *)
(***************************************************************************)
Relock(t) ==
    /\ pc[t] = "relock"
    /\ IF Processing /\ "mount" \in config /\ Valid(mount)
       THEN Goto(t, IF SupportedTracked(mount) THEN "reresolve" ELSE "resetCommit",
                 cand[t], mount, ret[t])
       ELSE Jump(t, ret[t])
    /\ UNCHANGED <<shared, world, after>>

Reresolve(t) ==
    LET o == snap[t]["id"] IN
    /\ pc[t] = "reresolve"
    /\ Step(t, IF ContextRoot(o) /\ SupportedTracked(Resolve(o))
               THEN "refreshCommit" ELSE "keepAlive")

\* Mutant: the marker not compared again under the lock.
RefreshCommitBlind(t) ==
    /\ pc[t] = "refreshCommit"
    /\ Locked(t, "relockWrite", nextPlayer, Resolve(snap[t]["id"]), "fresh")
    /\ snap' = [snap EXCEPT ![t] = Resolve(snap[t]["id"])]
    /\ UNCHANGED <<cand, ret>>

\* Latest replaces the snapshot if the same marker is still tracked.
RefreshCommit(t) ==
    LET latest == Resolve(snap[t]["id"]) IN
    /\ pc[t] = "refreshCommit"
    /\ IF nextMount["id"] = snap[t]["id"]
       THEN /\ Locked(t, "relockWrite", nextPlayer, latest, "fresh")
            /\ snap' = [snap EXCEPT ![t] = latest]
            /\ UNCHANGED <<cand, ret>>
       ELSE LockedNoChange(t, ret[t]) /\ KeepLocals

\* TryKeepCurrentMountSnapshotAlive
KeepAlive(t) ==
    /\ pc[t] = "keepAlive"
    /\ Step(t, IF SupportedTracked(snap[t]) THEN "keepAliveCommit" ELSE "resetCommit")

SameMount(s) == nextMount["id"] = s["id"] /\ nextMount["root"] = s["root"]

\* Mutant: the tracked mount not compared with the copy.
KeepAliveBlind(t) ==
    /\ pc[t] = "keepAliveCommit"
    /\ Locked(t, "relockWrite", nextPlayer, nextMount, "fresh")
    /\ KeepLocals

KeepAliveCommit(t) ==
    /\ pc[t] = "keepAliveCommit"
    /\ IF SameMount(snap[t])
       THEN Locked(t, "relockWrite", nextPlayer, nextMount, "fresh")
       ELSE LockedNoChange(t, ret[t])
    /\ KeepLocals

\* ResetTrackedMountIfStillCurrent
ResetCommit(t) ==
    /\ pc[t] = "resetCommit"
    /\ IF SameMount(snap[t])
       THEN Locked(t, ret[t], nextPlayer, Empty, "never")
       ELSE LockedNoChange(t, ret[t])
    /\ KeepLocals

\* TryRelockMountStatEntry writes through snap's health, stamina and spirit,
\* those of them whose lock is on.
RelockWrite(t) == pc[t] = "relockWrite" /\ Step(t, ret[t])

(***************************************************************************)
(* RefreshTrackedMountFromPlayerActor and MountResolverLoop.               *)
(***************************************************************************)

\* Only the resolver loop has something to do after the refresh.
RefreshRet(t) == IF t = Resolver THEN "loopRelock" ELSE "idle"

ChainMount ==
    /\ chain \notin {Null, player["id"]}
    /\ ContextRoot(chain) /\ Supported(Resolve(chain))

Refresh(t) ==
    /\ pc[t] = "refresh"
    /\ \/ /\ Valid(player) /\ ChainMount
          /\ Goto(t, "mountCheck", chain, snap[t], RefreshRet(t))
       \/ /\ Valid(player) /\ ~ChainMount
          /\ Valid(mount) /\ lastSeen # "fresh"
          /\ Goto(t, "relock", cand[t], snap[t], "refreshRecheck")
       \/ /\ \/ ~Valid(player)
             \/ ~ChainMount /\ (~Valid(mount) \/ lastSeen = "fresh")
          /\ Jump(t, RefreshRet(t))
    /\ UNCHANGED <<shared, world, after>>

\* Mutant: any stamp counts as recent.
RecheckStamped(t) ==
    /\ pc[t] = "refreshRecheck"
    /\ Step(t, IF lastSeen # "never" THEN RefreshRet(t) ELSE "refreshDrop")

RefreshRecheck(t) ==
    /\ pc[t] = "refreshRecheck"
    /\ Step(t, IF lastSeen = "fresh" THEN RefreshRet(t) ELSE "refreshDrop")

RefreshDrop(t) ==
    /\ pc[t] = "refreshDrop"
    /\ IF Valid(nextMount)
       THEN Locked(t, RefreshRet(t), nextPlayer, Empty, "never")
       ELSE LockedNoChange(t, RefreshRet(t))
    /\ KeepLocals

\* The next turn of the loop, kMountResolvePollMs after the last.
Wake ==
    /\ pc[Resolver] = "idle"
    /\ Step(Resolver, "refresh")

LoopRelock(t) ==
    /\ pc[t] = "loopRelock"
    /\ Goto(t, "relock", Null, Empty, "idle")
    /\ UNCHANGED <<shared, world, after>>

(***************************************************************************)
(* The game and the user around the mod.                                   *)
(***************************************************************************)

\* StaleComponentMs goes by without a renewed stamp.
AgeStamp ==
    /\ lastSeen = "fresh"
    /\ lastSeen' = "stale"
    /\ UNCHANGED <<player, mount, nextPlayer, nextMount, nextSeen, mutex, world, locals>>

\* An object whose memory the game may free, reuse or re-link meanwhile.
Volatile(o) == \E q \in Profiles[o] : q # profile[o]

World(o) ==
    /\ Volatile(o)
    /\ \/ \E q \in Profiles[o] \ {profile[o]} :
             profile' = [profile EXCEPT ![o] = q] /\ UNCHANGED linked
       \/ linked' = (linked \ {o}) \cup ({o} \ linked) /\ UNCHANGED profile
    /\ UNCHANGED <<shared, locals, enabled, config, chain>>

\* The player mounts, dismounts or changes mount.
Chain(o) ==
    /\ chain # o
    /\ chain' = o
    /\ UNCHANGED <<shared, locals, enabled, config, profile, linked>>

\* The config watcher publishes another snapshot.
Reload(c) ==
    /\ config # c
    /\ config' = c
    /\ UNCHANGED <<shared, locals, enabled, profile, linked, chain>>

\* An access fault inside a callback: DisableRuntimeProcessing.
Disable ==
    /\ enabled
    /\ enabled' = FALSE
    /\ UNCHANGED <<shared, locals, config, profile, linked, chain>>

Environment ==
    \/ AgeStamp
    \/ \E o \in Obj : World(o)
    \/ \E o \in ChainTargets \cup {Null} : Chain(o)
    \/ \E c \in Configs : Reload(c)
    \/ Disable

\* The game calls a hooked instruction on thread t for object o.
Call(t, o) ==
    \/ PlayerPointer(t, o)
    \/ \E stat \in {"health", "stamina", "spirit"} : Stats(t, o, stat)
    \/ HealthWrite(t, o)
    \/ Ab00(t, o)
    \/ SpiritDelta(t, o)
    \/ Damage(t, o)

\* Thread t goes on with the call it is in.
Continue(t) ==
    \/ StoreMount(t) \/ StorePlayer(t) \/ Unlock(t)
    \/ PlayerCommit(t) \/ BootstrapCommit(t) \/ AssignCommit(t) \/ AssignFault(t)
    \/ HealthCommit(t) \/ StaminaCommit(t) \/ SpiritCommit(t)
    \/ Ab00Mount(t) \/ Ab00Adjust(t) \/ DamageRelock(t)
    \/ MountCheck(t) \/ MountTouch(t) \/ MountCommit(t)
    \/ Relock(t) \/ Reresolve(t) \/ RefreshCommit(t)
    \/ KeepAlive(t) \/ KeepAliveCommit(t) \/ ResetCommit(t) \/ RelockWrite(t)
    \/ Refresh(t) \/ RefreshRecheck(t) \/ RefreshDrop(t) \/ LoopRelock(t)

Next ==
    \/ \E t \in GameThreads, o \in Obj : Call(t, o)
    \/ \E t \in Threads : Continue(t)
    \/ Wake
    \/ Environment

Spec == Init /\ [][Next]_vars

\* Threads keep running and a thread that keeps asking for the mutex gets it;
\* the resolver loop never ends; time passes.
Fairness ==
    /\ \A t \in Threads : SF_vars(Continue(t))
    /\ WF_vars(Wake)
    /\ WF_vars(AgeStamp)

FairSpec == Spec /\ Fairness

(***************************************************************************)
(* Correctness.                                                            *)
(***************************************************************************)

\* However the callbacks interleave, the pointers known for the player all
\* belong to one object, also while another thread is storing them: six
\* discovery paths fill the snapshot in, each a different part of it.
PlayerOneOwner ==
    \A f, g \in Fields :
        LET known == {player[f], nextPlayer[f], player[g], nextPlayer[g]} \ {Null}
        IN  \A p, q \in known : p = q

\* No pointer of the mount snapshot leads into the player: the mount paths
\* compare with an unlocked copy of the player, and the player may be adopted
\* or completed between that test and the store.
MountNeverPlayer ==
    \A f, g \in Fields : mount[f] # Null => mount[f] # player[g]

\* The entries the relock is about to raise to the lock value are never the
\* player's, even when the copy it works from was torn.
RelockSparesPlayer ==
    \A t \in Threads, f, g \in Fields :
        pc[t] = "relockWrite" /\ snap[t][f] # Null => snap[t][f] # player[g]

\* The relock never writes through the entries of two mounts at once, although
\* it copies the mount snapshot while another thread may be replacing it.
RelockWritesOneMount ==
    \A t \in Threads :
        pc[t] = "relockWrite" =>
            \A f \in {"root", "health", "stamina", "spirit"} :
                snap[t][f] \in {Null, snap[t]["id"]}

\* What that rests on: the stores of a snapshot reach memory 16 bytes or more at a
\* time, so that the root arrives with the health entry and the stamina entry with the
\* spirit's (runtime_state.h:57-65).  Stored one pointer at a time they would not do.
Paired == \A B \in Blocks : /\ "root" \in B <=> "health" \in B
                            /\ "stamina" \in B <=> "spirit" \in B

\* Fix-13 (actor_resolve.cpp:460-470): no later callback replaces a pointer of the
\* player's that is already known by one into another object.  Which of two entries of
\* one kind the player's own component shows may still change (AssignCommit).
PlayerSticky ==
    [][\A f \in Fields : player[f] # Null => player'[f] = player[f]]_vars

\* A hook callback always returns to the game: it never waits for a mutex its
\* own thread holds (mod_logic.cpp:698-700) and never relocks for ever.
CallsReturn == \A t \in Threads : pc[t] # "idle" ~> pc[t] = "idle"

\* While the player stays on a mount the chain and its memory agree on, that
\* mount is tracked again and again, whatever else is seen as a mount meanwhile.
Ridden(o) ==
    /\ Valid(player) /\ player["id"] # o
    /\ chain = o
    /\ Resolves(o) /\ profile[o] \in {"dragon", "ground"}

MountTracked ==
    \A o \in ChainTargets : <>[]Ridden(o) => []<>(mount["id"] = o)

\* A mount whose memory is gone for good is not tracked for ever: stale
\* component eviction, although relocks renew the stamp it tests.
GoneMountForgotten ==
    \A o \in Obj : <>[](profile[o] = "gone") => <>[](mount["id"] # o)

\* What remains of all this for a caller: see TrackedIdentity.  An identity is
\* taken over when the lock holder has decided it; a thread between MountCheck
\* and its critical section holds a detected mount.
Identity == INSTANCE TrackedIdentity WITH
    player <- nextPlayer["id"],
    mount <- nextMount["id"],
    detected <- [t \in Threads |-> IF pc[t] = "mountCommit" THEN cand[t] ELSE Null]

\* The relock's refresh, the fallback that keeps a cached mount alive and the
\* eviction never bring back a mount another thread has dropped or replaced.
ImplementsIdentity == Identity!Spec

(***************************************************************************)
(* Claims of the repository the code does not keep; see README.md.         *)
(***************************************************************************)

\* README.md:88: incoming damage is recognised by the player's resolved target
\* owner, so a player tracked completely must have one.
TargetOwnerResolved ==
    mutex = Null /\ Valid(player) => player["damage"] = player["id"]
=============================================================================
