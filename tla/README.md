# TLA+ verification of player-status-modifier

`player-status-modifier` is a DLL loaded into the game: hooks in the game's code
call back into it, on the game's own threads, and a few threads of its own watch
the configuration file, poll keys and look for the player's mount. This
directory holds TLA+ models of that program, TLC configurations that check them,
and proofs for TLAPS. Source paths below are relative to the repository.

## 1. The system

| Part | State | Operations | Source |
|---|---|---|---|
| Player and mount tracking | `g_player_resolve`, `g_mount_resolve`, `g_state_mutex`, `g_mount_last_seen_tick`, `g_runtime_enabled` | adopt and complete the player; detect, refresh, relock and evict the mount; disable | `src/runtime/runtime_state.*`, `src/runtime/actor_resolve.cpp`, `src/runtime/mount_resolver.cpp`, `src/mod_logic.cpp` |
| Player hook callbacks | (tracking's) | player pointer, stats, stat-write, stamina-ab00, spirit-delta, damage | `src/hooks/player_hooks.cpp` |
| Stat adjustment | log counters only | scale and clamp the deltas and values the game is about to write | `src/runtime/stat_logic.cpp` |
| Damage scaling | ring of damage participants | classify an event, scale it | `src/runtime/damage_logic.cpp` |
| Configuration | `g_config` (atomic snapshot), `g_config_path` | read and merge the INI layers, publish, copy | `src/config.*` |
| Config watcher | thread, last settled timestamp | poll, settle, read, apply, publish | `src/config_watcher.cpp` |
| Damage toggle | listener, started flag | start, stop, rebind, flip the outgoing switch | `src/damage_toggle.cpp` |
| Key listeners, position control | threads, pending height ticks, horizontal flag | start, stop, rebind, consume | `src/key_listener.cpp`, `src/position_control.cpp` |
| Init and detach | module handle | start everything in order, clean up, stop everything | `src/dllmain.cpp` |
| Hook installation | installed hooks | install by configuration, remove | `src/hooks/install_hooks.cpp` |
| Durability, items, affinity, dragon limits | per-thread scratch records, a code cave | rewrite call arguments and results | `src/hooks/*`, `src/runtime/*` |
| Logger | file, line ring | append, trim, reconfigure | `src/logger.cpp` |
| Scanner, pointer chains | none | search code, read pointers | `src/scanner.cpp`, `src/ptrchain*.cpp` |

How they meet: every callback copies the configuration (`GetConfig` returns by
value) and reads the tracking snapshots; the config watcher publishes a new
configuration; the damage toggle's own thread publishes one too; position
control and damage toggle run a listener thread each that the watcher starts and
stops. All writes of the two snapshots happen under `g_state_mutex`; **nearly all
reads happen without it**, on structures of 64 bytes.

What is hard here: several game threads and the resolver thread interleave inside
one decision; snapshots are read while they are being stored; a mount's memory
may be freed or reused at any moment; the mutex is not recursive and a callback
calls back into code that takes it; six discovery paths complete one snapshot in
any order; eviction depends on a time stamp that the relock renews.

What makes each part correct:

* tracking: one player, adopted once, whose pointers belong to one object; a
  mount that is never the player and never comes back without being detected
  again; the mount's lock value is never written into the player or through a
  mixture of two mounts; the ridden mount is found, a gone one forgotten; no
  callback hangs;
* configuration: the published snapshot is a version of the file; a reload is
  not lost; listeners agree with it; no key press of a disabled control counts;
* arithmetic: deltas saturate instead of wrapping, results stay in 0..max;
* damage: no hit of the player's side is taken for a stranger's, however the ring of
  participants is overrun (the converse is claimed and not kept, section 4);
* gains: scaled once at the legacy sites, kept in the cap, never shrunk by a multiplier that raises them;
* life cycle: a failed start leaves nothing running; nothing outlives detach; hooks
  that belong together are installed together; a feature without its hook is reported.

`PROJECT.json` lists the hazards, each at its line.

## 2. Modules

| Module | What it is |
|---|---|
| `TrackedIdentity` | abstract specification: which player, which mount, what a thread has detected |
| `Tracking` | the callbacks, the resolver loop and the memory they share |
| `MCTracking` | instances for TLC |
| `TrackingProofs` | theorems about `Tracking` for all constants |
| `ConfigReload` | the configuration file, the watcher that reloads it, and the listeners and the toggle that follow it |
| `MCReload` | instances for TLC |
| `ConfigReloadProofs` | theorems about `ConfigReload` for all constants |
| `StatChange` | what becomes of one change of a stat: delta hook, the game's computation, stat-write hook, store, and the relock beside them |
| `MCStat` | an instance for TLC |
| `StatChangeProofs` | theorems about `StatChange` for all constants |
| `DamageSource` | whose hit a damage event is: the search from its source context and the ring of participants |
| `MCSource` | an instance for TLC |
| `DamageSourceProofs` | theorems about `DamageSource` for all constants |
| `HookLoadout` | which hooks a configuration needs, how they are installed, fail and are removed, and the start and stop of everything |
| `MCLoadout` | instances for TLC |
| `HookLoadoutProofs` | theorems about `HookLoadout` for all constants |
| `GameValues` | gains of affinity and items, and wear, as the hooks rewrite them |
| `MCValues` | an instance for TLC |
| `GameValuesProofs` | theorems about `GameValues` for all constants |

`Tracking` implements `TrackedIdentity` (`ImplementsIdentity`). `StatChange` takes
from `Tracking` only its result, who owns an entry; the two share no state.
`ConfigReload` produces the configurations that the others take as given. `DamageSource`
answers what `StatChange` takes as any answer, whose hit it is. `HookLoadout` says which
hooks there are for the others' callbacks to be called; it takes a reload as one step,
whose inside is `ConfigReload`.

### Tracking

A game *object* stands for an actor with its marker, root and stat entries. A
snapshot (`ActorResolveSnapshot`) is a function from `Fields` to objects: `id` is
actor and marker, `root`, `health`, `stamina`, `spirit` the entries, `damage` the
damage source and target. A snapshot stitched together from two objects is then
visible as one, which is what most of the properties are about.

`profile[o]` is what the stat maxima of `o` say (`ground`, `dragon`, `proxy`,
`other`) or `gone` when its memory cannot be read; `linked` holds the objects whose
marker and root still point at each other. `Resolve(o)` is what
`TryResolveActorResolveFromMarker` fills in, `Resolves(o)` when it succeeds.

Each thread runs one call at a time. `pc` is the next step, `cand` the object the
call is about, `snap` the copy of the mount snapshot that the relock works from,
`ret` where the running helper returns to. A step is what happens between two
accesses to shared state another thread could notice: an unlocked test and the
critical section that follows it are two steps, in between which anything can
happen (`MountCheck`/`MountCommit`, `Reresolve`/`RefreshCommit`,
`RefreshRecheck`/`RefreshDrop`, ...).

A critical section decides on the new snapshots at once (`Locked` sets `nextPlayer`,
`nextMount` and `nextSeen`), and the stores then reach memory block by block
(`StoreMount`, `StorePlayer`) until `Unlock`. Unlocked readers see `player` and
`mount`, torn copies included. `Blocks` says which fields one store writes: 16 bytes
(`WordPairs`, `StatPairs`) as the compiler emits for a 64-byte copy, or the whole (`Whole`) where
a run is about something else.

`AssignFault` is the access fault of `stat_logic.cpp:549`, the only unguarded read
of game memory inside a critical section: the mutex may or may not be released,
since the build uses `/EHsc`. A fault outside the critical sections is `Disable`.

`Environment` is the game and the user: `World` frees, reuses or unlinks an
object, `Chain` is the mounted-dragon pointer chain, `AgeStamp` lets
StaleComponentMs go by, `Reload` publishes another configuration.

Abstractions:

* A reader whose copy overlaps more than one critical section is not modelled;
  a reader overlapping one is.
* Stat blocks and search windows of two objects do not overlap.
* The time stamp is stored at the end of the critical section that sets it. Its
  age is nondeterministic (`never`, `fresh`, `stale`).
* The context root and the entry of one stamina call belong to the same object.
* Deltas, log lines and diagnostic counters are left out.
* `Reload` and `Disable` may happen between any two steps.
* A field names an object, so that exchanging one stamina or spirit entry of the player for
  another of the same component (`actor_resolve.cpp:401-411`) changes nothing:
  `PlayerSticky` says that no pointer comes to lead into another object, not that it stays
  the same pointer.

### ConfigReload

`file` and `stamp` are what is on disk, `config` the published snapshot, `pc` the step of
the thread that reads the file: the start-up sequence of `InitializeModUnchecked`,
then `ConfigWatcherLoop` in the thread it hands over to (`booting` says which it is).
For each of the three `KeyListener`s (`height`, `horizontal`, `toggle`) there is its
key, `running`, the module's started flag, what its thread does next and the key state
it saw last. `ReadFirst` and `ReadSecond` are two halves of reading the file, so that an
edit can fall between them. `Poll`, `Settle`, `Copy`, `Read`, `ReadPosition`, `Apply`
and `Publish` are a turn of the watcher; `ToggleKey` and `Flip` the toggle's, which
publishes a copy of its own. `Reconfigure`, `Join`, `Start` and `Halt` are how a
listener follows a configuration, in the order of the code, roll-back included.

Abstractions:

* A configuration is the key of each control or `Off`, the outgoing switch, and
  `rest`, a version number for all other settings.
* Every edit has a new time stamp. Parsing, merging of layers and clamping, the
  logger's settings are left out; the restart warning and shutdown are `HookLoadout`'s.
* `MaxEdits` bounds the edits and `MaxTicks` the height ticks not consumed yet.
* A start-up that fails stops (`failed`): nothing is running that would need
  cleaning up.

### StatChange

An entry has an owner (player, mount, other), a stat and a maximum; `current` is its
value in memory. A game thread's change goes through

    Damage | Cost | SpiritCost | Change      the game begins it
    RelockRead RelockWrite RelockDone        only a negative damage event, when health is locked
    DamageCallback | StaminaAb00Callback | SpiritDeltaCallback
    Apply                                    the game computes the new value
    StatWriteCallback                        when the hook is installed
    Store                                    the instruction the hook stands before

Which steps exist depends on the hooks the configuration has installed (`DamageHook`,
`Ab00Hook`, `SpiritHook`, `WriteHook`, the `ShouldInstall...` functions of
`config.h`). The resolver polls and relocks beside it; a relock reads, and later
writes, without a lock. `DamageDelta`, `StaminaDelta`, `SpiritDelta`, `StatWrite`
are the functions of `damage_logic.cpp` and `stat_logic.cpp` with their guards in
their order.

Abstractions:

* Multipliers are exact, non-negative ratios instead of doubles; a disabled section
  has the multiplier 1, as `SanitizeConfig` makes it (for the damage channels, whose
  `enabled` the code tests next to the multiplier, it is the same). The three
  resistances are the greatest of them, in percent.
* Player and mount are tracked already and the configuration stays the same.
* Whether a hit is the player's (`IsOutgoingPlayerDamageSource`) is any answer.
* The game, which is not part of the repository, makes one change of an entry at a
  time, each by one delta path or none, and clamps what it computes to 0..max. The
  stat-write hook is the "main stat commit point" of
  `researches/damage_research.md`.
* An entry's maximum does not change and the entry can be read.

### DamageSource

`Objects` are addresses, `Words[o]` what can be read in the first eight words of `o` (an
object outside its domain faults), `SourceOf` and `MarkerOf` the two fields the code
reads by name. A thread judging an event goes through `ReadActor`, `ComparePlayer`,
`CompareMount` and `Relate`, as `IsOutgoingPlayerDamageSource` does, for
`IsRelevantDamageEvent`, which only logs the event, for `TryScalePlayerDamage`, or for the
one and then the other (`asks`). Entering a participant takes two steps, claiming the slot
(`Claim`) and storing (`StoreActor`, `StoreMount`, `StoreMarker`), so that another thread
can overtake the cursor in between. Meanwhile the player becomes known (`Learn`), with its
actor or, after a health write, without; the ring is cleared once; and the mount comes and
goes. `kept` remembers whether a mount has been tracked since the event began.

Abstractions:

* The search for a relation reads memory and ring in one step, and so does the clearing.
* Object memory does not change, and an object can be read wholly or not at all.
* There is one player and one mount, whose actor and marker are distinct objects.

### HookLoadout

`live` is the set of hooks in the game's code, threads of the mod, and the code cave of
the flying restriction. The thread that starts or stops the mod walks through
`StartOrder` or `StopOrder` (`at`), which are the order of the calls in
`InitializeModUnchecked` with `InstallHooks`, and in `CleanupAfterInitializationFailure`
and `DllMain` with `RemoveHooks`. Each step installs one thing (`Start`), or it fails:
what is essential ends the start-up (`StartEssentialFails`), the rest is done without
(`StartOptionalFails`). The affinity sites are a pair of one kind or the other
(`ChooseAffinity`); where the second fails the first is taken back (`AffinityFails`,
`RemoveAffinityHooks`). `Throw` is a C++ exception. `Reload` and `ToggleOutgoingDamage`
happen whenever their threads are alive, also while the mod is being stopped.

A configuration is the set of what is switched on in it and not neutral (`Settings`);
`Needed` are the `ShouldInstall...` functions, `Requirements` the questions
`DidHookRequirementsChange` compares.

Abstractions:

* The model begins after the file has been read; a hook's pattern and its creation are one
  step that may fail at any time.
* A reload is one step, and so is a use of the toggle; a listener that fails to restart in
  a reload is left out (`ConfigReload` has it). Logging is on.
* No structured exception, and no detach while the start-up still runs.
* The code cave counts from the moment its pointer is stored. A C++ exception between its
  allocation and that store (`dragon_limit_hooks.cpp:128-169`) leaks the page in the code;
  in the model nothing is left.
* A thread of the game inside a callback or the cave as it is removed is left to the hooking
  library.

### GameValues

`level` is one character's affinity. At the legacy sites a change is prepared and
committed later (`Prepare`, `Commit`), and both hooks scale it; the first may fail to store
what it has scaled. At the friendly sites a
call gets the address of its data (`Vary`, or `PassOn` for one that hands on what it was
given), the hook puts a scaled copy in its place, taken from a ring of records
(`TakeCopy`, `ring`, `cursor`), and calls nest until they `Return`. `CopyFails` is a
copy that faults. `ItemGain` and `DurabilityDelta` are single decisions. `booked` is what
the step booked. Configurations change, the player is lost and processing disabled at any
time in between.

Abstractions:

* Multipliers are exact ratios; the roll for wear is any outcome the chance allows.
* One legacy change is under way at a time. The game commits the prepared value or one
  it has computed itself, and keeps what it stores between 0 and its cap.
* The game nests friendly calls up to `Depth`.
* `TryAdjustDurabilityWrite` is left out, as its hook is never installed.

## 3. Runs

| Run | Shows |
|---|---|
| `discovery` | six discovery paths on two threads and the resolver with torn stores: the player is one object, stays it (`PlayerOneOwner`, `PlayerSticky`), and the mount never leads into it (`MountNeverPlayer`) |
| `mounts` | a dragon replaces a ground mount whose memory may be freed, copies are torn, the player-pointer hook sees the mount's marker too, and reloads switch the locks off and on: nothing is written through a mixture of two mounts or into the player (`RelockWritesOneMount`, `RelockSparesPlayer`), and tracking refines `TrackedIdentity` (`ImplementsIdentity`) |
| `eviction` | while a dragon keeps being taken for the mount, processing may be disabled and the mount's memory is freed: a gone mount is forgotten (`GoneMountForgotten`), the ridden one comes back again and again (`MountTracked`), and every call returns (`CallsReturn`) |
| `reload` | controls and toggle are enabled, swapped and disabled by edits, in the start-up too, while the toggle publishes: listeners agree with the configuration (`ListenersMatch`), a control switched off has no effect left over (`ControlsIdle`), the published configuration ends up as the file is left, which need not be the one at the start, if the toggle was never bound (`FollowsFileUntoggled`), no live thread is replaced and every reload, one that fails and is rolled back included, returns (`NoThreadReplaced`, `WatcherReturns`) |
| `changes` | changes of the mount's, the player's and a foe's stats go through the hooks of six configurations while the resolver's relocks and the game's writes undo each other: no change takes locked health from its lock or above to below it (`LockKept`), every locked stat of the mount gets back to its lock (`LockReturns`), and scaling twice never reverses a change, never makes a reduced hit dearer, never loses a hit (`Direction`, `HarmReduced`, `HitsCount`) |
| `source` | two threads judge hits while a ring of two slots is overrun and cleared and the mount comes and goes: no hit of the player's, or of the side of a mount that stays tracked, is missed (`OwnHitsCount`) |
| `loadout` | six configurations, every failure, reloads and the toggle throughout: nothing is left behind (`NothingLeft`), affinity sites come in pairs (`PairsComplete`), the cave outlives its hook (`CaveOutlivesHook`), controls never run without theirs (`ControlsHooked`), a missing hook has been reported (`NothingMissedSilently`), the start-up ends (`StartUpEnds`) |
| `values` | nested friendly calls on two records, failing copies, reloads between two sites: a call keeps its data while its thread takes fewer copies than it has records (`FriendlyKept`), a gain at the legacy sites is scaled once (`AffinityScaledOnce`) and never shrunk by a multiplier that raises it (`GainsNeverShrink`) |
| `incoming`, `fault`, `lost`, `stranger` | four disagreements between code and documentation, section 4 |

Every property of a passing run has a mutant in the module, named in `PROJECT.json`:
the definition changed as a plausible bug would change it, and violating the property.

Bounds and why they suffice:

* Tracking: two or three objects (player, mount, a rival), since a snapshot is wrong
  when it mixes two and a third adds a change of mount in between; one or two game
  threads beside the resolver, since every race of the code is between two critical
  sections and a reader (`discovery`, where two callbacks complete the player at once, has
  two). Safety runs use 16-byte stores, so a reader sees torn copies: `WordPairs`, and in
  `mounts`, where nobody reads the damage pointers of a copy, `StatPairs` (`MCTracking` has
  TLC evaluate that they keep pairs together, `Paired`); the liveness runs use `Whole`, as
  tearing does not matter to them. The
  configuration stays the same but in `mounts`, which reloads it between any two steps. The
  hooks of a run are those whose interleaving its properties are about; together the
  runs have all six.
* ConfigReload: two edits (`MaxEdits`) make one during the start-up and one after it, or a
  reload during which the file changes again; two keys make a rebinding and a clash; one
  unconsumed tick (`MaxTicks`) is all `ControlsIdle` needs. Of the three files saved the first
  switches both position controls on, the second rebinds one and drops the other, and
  neither binds the toggle, so that a behaviour in which nothing is toggled may end with either
  of them; the third binds the toggle, to a key a control has used, and rebinds the other
  control. The toggle may then store back the second file over the third, and the next
  reload finds a listener running that the configuration does not know of: its start fails
  and is rolled back.
* StatChange: maxima up to 3 and changes of -2 to 1 reach 0, the maximum, the lock
  from both sides and a rounding to 0; one of the locks is beyond every maximum. One game thread
  changes stats beside the resolver: what overtakes a change under way is a write of the same
  entry by somebody else, and as the game makes one change of an entry at a time those are relocks,
  which a second thread makes with the same steps as the resolver. The theorems hold for any
  number of threads. `MaxInt` 127 stands for `INT64_MAX`, which no instance overflows
  (`MCStat` has TLC evaluate that assumption, `NoOverflow`). The fall-back for untracked
  entries of `LargeHealth` or more is beyond the instance: the theorems of section 5, which
  hold for every maximum, cover it.
* DamageSource: a ring of two slots, which one other thread fills and overruns; contexts of
  the player, the mount, an arrow that leads to the mount's marker, and a foe, all but the
  mount's leading back to their source; one level of the search (`Depth` 1). The theorems hold for the code's 16 and 6.
* HookLoadout: six configurations that together ask for everything and pairwise differ in
  each question `DidHookRequirementsChange` compares; nothing else is bounded.
* GameValues: two records, so that a second nested call reuses the first one's; a cap of 3 and
  `MaxInt` 5, which a doubled gain of 2 and of 4 pass. Copies are per thread, so one thread
  shows all; the theorems hold for any number.
* `LockKept` and `HarmReduced` are safety statements about the moment before the
  store; `current` may still dip below the lock when a change that found it there
  already is stored after a relock. That is what `LockReturns` is for.

Fairness:

* Tracking: each thread's continuation strongly (`SF_vars(Continue(t))`): the operating
  system schedules every thread, and a thread waiting for the mutex gets it in the end
  if it is free again and again. The resolver's next poll weakly (`Wake`): its loop only
  sleeps. The passing of `stale_component_ms` weakly (`AgeStamp`).
* ConfigReload: the watcher's thread and each listener's weakly; all are loops around a
  sleep.
* StatChange: each change under way and the resolver's loop weakly.
* HookLoadout: the thread that starts or stops the mod, weakly (`Main`). DamageSource and
  GameValues state no liveness.
* The game and the user owe nothing: no hook must ever be called, no key pressed, no
  file edited.

Deadlock is checked in every run but `loadout`, where the module may be gone for good.

## 4. Findings

Where code and documentation disagree; `PROJECT.json` quotes both sides.

| Run | Property | What happens |
|---|---|---|
| `incoming` | `TargetOwnerResolved` | a player found by a health write never gets its damage owners, so incoming damage is not scaled |
| `fault` | `CallsReturn` | an access fault inside the critical section may leave the mutex locked |
| `lost` | `FollowsFile` | the toggle publishes a copy older than a reload and undoes it |
| `stranger` | `OnlyOwnHitsCount` | a foe is remembered as a participant before its hit is judged, and the hit, found to be related to it, is scaled as the player's while a mount is tracked |

The first two have a theorem that says where they end: without the stat-write and
stamina-ab00 hooks every complete player has its owners (`OwnerResolved`), and an orphaned
mutex is found only after processing has been disabled (`Exclusion`). For the third,
`FileIsPublished` shows that without the toggle nothing is lost.

Seen while modelling, without a run of their own:

* Any component with a mount-like profile becomes the mount and is locked, ridden or not
  (`mod_logic.cpp:533`), while README.md:190 locks stats "after the async resolver
  validates the current mount / dragon marker". `StatComponent` is the guard of such a
  step.
* An edit between the start-up's reading (`dllmain.cpp:142`) and the watcher's first time
  stamp (`config_watcher.cpp:88`) is not loaded until the next one. `FollowsFileUntoggled`
  sets this aside (`Quiet`).
* A heal of the player is multiplied by the damage hook (`damage_logic.cpp:308`) and
  again by the stat-write hook (`stat_logic.cpp:812`); both are installed whenever the
  health section is not neutral.
* Nothing bounds a heal multiplier from above (`SanitizeConfig`): a heal whose scaled value
  passes `INT64_MAX` would wrap into harm and empty the bar (`stat_logic.cpp:810-815`). With a
  `MaxInt` of 4 TLC finds this; `Direction` is therefore stated under `NoOverflow`, which asks
  that multiplier and maxima stay in proportion to 64 bits, as those of the game do. Harm
  never heals without any such assumption (`HarmHealsNobody`).
* A resistance alone installs no hook that applies it: `ShouldInstallLegacyStatWriteHook`
  (`config.h:167`) does not look at it and `IsResistanceEnabled` (`config.h:141`) has no
  caller.
* While a mount is tracked and its stamina locked, `stamina-ab00` drops anybody's spirit
  costs (`player_hooks.cpp:300`).
* README.md:70 installs `stamina-ab00` for a stamina section that is not neutral or for the
  mount's stamina lock; `ShouldInstallMountStaminaHook` (`config.h:159`) looks at the lock
  alone, and `Needed` with it.
* README.md:32-33 reads as if the player's stamina were scaled at the stat-write commit only,
  and `stamina-ab00` were there for the mount's lock alone. Where the lock has installed it,
  `TryAdjustStaminaDelta` scales the player's costs as well (`stat_logic.cpp:614`), and
  `TryAdjustStatWrite` scales them again: at 0.5 a cost of 2 becomes free.
* README.md:72 logs a restart warning whenever an edit changes the hooks required.
  `DidHookRequirementsChange` asks one question for the stats, spirit, stat-write and
  stamina-ab00 hooks together, and one for affinity and its diagnostics: trading the stamina
  multipliers for the spirit ones needs another hook and logs nothing.
  `NothingMissedSilently` therefore leaves these hooks out.
* The toggle key switches the outgoing damage on at once in the configuration
  (README.md:171-172, "toggle outgoing damage live"), but if it was off at the start and
  nothing else asked for the damage hook there is none, and nothing is logged
  (`damage_toggle.cpp:16`). `NothingMissedSilently` excepts it (`flipped`).
* `durability.md:122` leaves alone what repairs or increases durability; `TryAdjustDurabilityDelta`
  (`durability_logic.cpp:101`) lets only a delta of 0 pass and drops repairs as it drops wear.
* README.md:162-163 and `durability.md` describe the maintenance write; its hook is never
  installed (`durability_hooks.cpp:173`).
* README.md:185 clamps the affinity to 100; the friendly path (`affinity_logic.cpp:92`) clamps
  neither the delta nor the result.
* README.md:80 keeps all three dragon-limit hooks passive until the player is known; the code
  cave of the flying restriction (`dragon_limit_hooks.cpp:141`) has no such test.
* `EnableStatChanges`, `Items.Enable` and `Durability.Enable` (README.md:165, 173-176) are not
  read by `config.cpp`.

## 5. Proofs

TLAPS proves, for every value of the constants that satisfies the named assumptions:

| Theorem | States |
|---|---|
| `TypeCorrect` | `Spec => []TypeOK` of Tracking |
| `Inductive` | the invariant `IInv` of Tracking |
| `OneOwner`, `NeverPlayer`, `SparesPlayer` | `PlayerOneOwner`, `MountNeverPlayer`, `RelockSparesPlayer` |
| `Sticky` | `PlayerSticky` |
| `WritesOneMount` | `RelockWritesOneMount`, if `Paired` |
| `Exclusion` | the critical sections exclude each other, start from what the last one stored, and leave the mutex locked only once processing is disabled (`SectionsExclusive`) |
| `OwnerResolved` | `TargetOwnerResolved`, if neither hook that takes a player without resolving an actor is there (`Resolving`) |
| `Refinement` | Tracking implements `TrackedIdentity` |
| `StatInductive` | the invariant `IInv` of StatChange |
| `StatTypes` | `Spec => []TypeOK` of StatChange |
| `LockKeeps` | `Spec => []LockKept` |
| `ChangesKeepTheirMeaning` | the invariant `MeaningInv` of StatChange |
| `HarmIsReduced`, `HitsDoCount` | `HarmReduced`, `HitsCount` |
| `HarmHealsNobody` | `HarmNeverHeals`: harm is never turned into a heal, overflow or not |
| `ChangesKeepDirection` | `Direction`, if `NoOverflow` |
| `ReloadInductive` | the invariant `IInv` of ConfigReload |
| `TypeCorrect`, `ControlsLeaveNothing`, `ListenersFollow`, `ThreadsEndFirst` | `TypeOK`, `ControlsIdle`, `ListenersMatch`, `NoThreadReplaced` of ConfigReload |
| `FileIsPublished` | the published configuration, whenever the watcher has nothing to do, is the file's (`PublishedIsFile`) |
| `TypeCorrect`, `OwnHitsRecognised` | `TypeOK`, `OwnHitsCount` of DamageSource |
| `TypeCorrect`, `NothingIsLeft`, `AffinityInPairs`, `CaveIsThere`, `ControlsAreHooked`, `MissingIsReported` | `TypeOK`, `NothingLeft`, `PairsComplete`, `CaveOutlivesHook`, `ControlsHooked`, `NothingMissedSilently` of HookLoadout |
| `TypeCorrect`, `CallsKeepTheirData`, `AffinityIsScaledOnce`, `NoGainShrinks` | `TypeOK`, `FriendlyKept`, `AffinityScaledOnce`, `GainsNeverShrink` of GameValues |

**Tracking.** The assumptions say only that `Null` is no object, that the resolver is no
game thread, that the sets of objects are objects, and that the store blocks cover the
fields; nothing is assumed of their number or of how stores are cut into blocks, so all
theorems but `WritesOneMount` hold for any compiler's copy. `PlayerOneOwner` is not
inductive: a thread that has decided on a merge stores it later, in pieces. `IInv`
therefore adds that the decided player belongs to one object (`Anchored`), that what
readers see of it lags behind what is decided (`Stored`), that no mount, visible, decided
or copied, leads into the player although the player may be completed while the copy is
held (`Apart`), and what a thread about to install a mount has compared (`Informed`). Each
action then has a step, and under it one step per conjunct it can disturb. `Sticky` and
`Refinement` follow from `IInv` step by step.

`RelockWritesOneMount` speaks of a copy that may be torn. Its entries agree because `health`
travels with `root` and `stamina` with `spirit` (`Paired`: the pairs share 16 bytes of
`ActorResolveSnapshot`), so a copy consists of halves that are one mount's each (`Halves`),
and because every path to a relock compares the halves (`SameMount`) or takes a snapshot
just resolved (`AboutToWrite`, `OneObject`). Stores cut one field at a time violate it, as
TLC shows; the code depends on how its structure copies are compiled.

**StatChange.** `TypeOK` is not inductive alone: a value about to be stored has to fit
its entry (`InRange`), which holds because the game clamps it and every branch of
`TryAdjustStatWrite` clamps again; sums may wrap around without harm to this. `LockKept`
needs that the value a change found at the lock is still there when it arrives at the
stat-write hook (`Held`): only changes of the same entry and relocks write it, there is
one change at a time (`Exclusive`), and a relock writes the lock. The hook is there
because locking health installs it. Nothing is assumed about multipliers.

What two hooks in a row make of one change is an invariant of its own, `MeaningInv`: it
says that the value a change has begun from is still there (`Unmoved`: only a mount's can
move), that its delta is the game's until the hook for that stat has seen it (`Unseen`),
and how delta and value relate to what the game asked for from then on (`Seen`, `Meant`),
however many roundings came in between. It rests on lemmas about products and floors: a ratio
up to 1 makes nothing larger, a negative product has a negative floor. Harm never becomes a
heal, because a scaled loss saturates; a heal saturates too but is then added to the value, and
remains one only if that sum does not wrap (`NoOverflow`).

**ConfigReload.** `ControlsIdle` and `ListenersMatch` fail between the steps of a reload,
which stops a listener, waits for its thread and starts another. `IInv` adds that a listener
told to stop has a thread only while that is waited for (`Ended`, which is why no live thread
is replaced), that a listener's two flags agree (`FlagsAgree`), which configuration each
listener follows at each step (`Followed`) and what the configurations at hand are copies of
(`Copies`). `PublishedIsFile` needs one more (`Promised`): as long as the file still has the
time stamp the watcher has taken, what has been read, planned or published since is that
file's. It sets aside what `FollowsFileUntoggled` does (`Quiet`): an edit before the first
stamp, and a bound toggle.

**DamageSource.** The assumptions say what is an object and that `Words`, `MarkerOf` and
`SourceOf` are functions on objects; the ring has any positive size. A hit is judged with
what a thread has found out several steps earlier, so `IInv` adds what it still knows at
each step (`Past`): that the player was known, that the source is not the player's and,
while the mount has been tracked throughout (`kept`), not the mount's; `Missed` is what an
answer of "foreign" must not be. Nothing need be known of the ring: the last step compares the
mount's marker itself, and a context that leads to the player is found to do so whatever the
ring holds, as the player's actor and marker always count as participants.

**HookLoadout.** `NothingLeft` is not inductive: `IInv` adds that what has still to be started
is not there (`Ahead`), and that what has been stopped is gone (`Behind`). The latter
depends on the watcher being stopped before the controls and the toggle it restarts, and
is where the order of the code matters. `PairsComplete` needs which side of a pair may
be alone in which step (`OnePair`, `FirstSide`, `SecondSide`), `ControlsHooked` that
configuration, hook and listeners agree from the fix-up on (`Tied`), and
`NothingMissedSilently` that a hook which is absent was not needed at the start, or failed,
or was asked for by a reload that said so (`Reported`), across all reloads in between. Any
set of configurations will do.

**GameValues.** For `FriendlyKept` a call's record is as many slots behind the cursor as
copies have been taken since (`Kept`, a distance modulo the number of records), so the
next copy meets another record as long as that is fewer than the ring has.
`AffinityScaledOnce` follows from what a prepared change may hold (`Prepared`): the game's
value, or that value scaled once. Both rest on lemmas about `Scale`: it is a natural
number, at least the gain for a ratio of at least 1, and the identity for 1.

Only model-checked: the liveness properties (`GoneMountForgotten`, `MountTracked`,
`CallsReturn`, `FollowsFileUntoggled`, `WatcherReturns`, `LockReturns`, `StartUpEnds`), which
are out of the prover's reach. Every safety property of a passing run is a theorem; the two
that need an assumption on the constants name it, and TLC evaluates it in their runs.

## 6. Not modelled

* The logger: a ring of lines and its trimming, on which nothing else depends.
* What the two dragon-limit callbacks do: they set a register or a flag once the player is
  known, from nothing but the event itself.
* The item-event probes and pet diagnostics, which only log.
* Parsing the INI files and merging their layers: which value a setting has is data for
  the models, `SanitizeConfig`'s results are in the types of the configurations.
* Structured exceptions in the start-up, a detach while it still runs, and game threads
  inside a hook as it is removed: they depend on the compiler's unwinding, the loader and
  the hooking library.
* The pattern scanner and the pointer chains: searches and reads without state.
* The hooking library and the game, which call the code that is modelled.

## 7. Plan

Next modules:

1. `ConfigLayers`: the layers of INI files, which of them are read, and the time stamp that is
   to tell that one has changed (`config.cpp:178-425`, `config_watcher.cpp:34-82`).
2. `StatChange` with configurations changing during a change, as `ConfigReload` allows.
3. `Logger`: the ring of lines, trimming, and reconfiguring while other threads log.

Next proofs:

1. `Direction` and `HitsCount` with configurations that change during a change.
2. The safety half of the liveness properties: that a thread which is not blocked by the mutex
   can always take a step, as an invariant on `pc` and the locals.
3. `TrackedIdentity` on its own: what its steps say of the player and the mount, carried over
   to `Tracking` by `Refinement`.
