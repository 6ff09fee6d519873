---------------------------- MODULE DamageSource ----------------------------
(***************************************************************************)
(* Whose hit a damage event is: IsOutgoingPlayerDamageSource, which walks  *)
(* the game's memory from the event's source context, and the ring of      *)
(* participants it remembers on the way.  A hit that counts as the         *)
(* player's is scaled by the OutgoingDamage multiplier.                    *)
(*                                                                         *)
(* Sources: runtime/damage_logic.cpp, runtime/runtime_state.cpp and the    *)
(* damage callback of hooks/economy_hooks.cpp.                             *)
(***************************************************************************)
EXTENDS Naturals

CONSTANTS
    Threads,       \* game threads
    Objects,       \* addresses of the game's objects
    Contexts,      \* those that are source contexts of damage events
    SourceOf,      \* [Contexts -> Objects \cup {Null}]: the word at +0x68
    Words,         \* the first eight words of each object that can be read
    MarkerOf,      \* the word at +0x20 of each object that can be read
    Player,        \* the player's actor, which deals its damage
    PlayerMarker,  \* its status marker
    Mount,         \* the mount's actor
    MountMarker,   \* its status marker
    Null,
    Count,         \* kTrackedDamageParticipantCount
    Depth          \* kDamageRelationDepth

ASSUME NullAssumption == Null \notin Objects
ASSUME ObjectsAssumption ==
    /\ Contexts \subseteq Objects /\ Contexts # {}
    /\ {Player, PlayerMarker, Mount, MountMarker} \subseteq Objects
ASSUME MemoryAssumption ==
    /\ SourceOf \in [Contexts -> Objects \cup {Null}]
    /\ DOMAIN Words \subseteq Objects
    /\ Words \in [DOMAIN Words -> SUBSET (Objects \cup {Null})]
    /\ MarkerOf \in [DOMAIN Words -> Objects \cup {Null}]
ASSUME NumbersAssumption == Count \in Nat \ {0} /\ Depth \in Nat

VARIABLES
    ready,     \* IsPlayerRuntimeReady: the player has been resolved
    source,    \* g_player_resolve.damage_source
    cleaned,   \* the resolution has cleared the ring
    mount,     \* a mount is tracked in g_mount_resolve
    ring,      \* g_tracked_damage_participants
    cursor,    \* g_tracked_damage_participant_cursor, modulo Count
    pc,        \* per thread: the next step
    call,      \* per thread: the event and the locals of the evaluation
    verdict    \* per thread: what became of its last event

player == <<ready, source, cleaned>>
participants == <<ring, cursor>>
vars == <<player, mount, participants, pc, call, verdict>>

Slots == 0 .. Count - 1
Pcs == {"idle", "actor", "storeActor", "player", "mount", "storeMount", "storeMarker",
        "relate"}

\* Who asks whose hit it is: IsRelevantDamageEvent, which only logs the event,
\* TryScalePlayerDamage, which scales it, or both, the one after the other.
Askers == {"log", "scale", "both"}

Call == [context : Contexts,
         asks : Askers,     \* who still has to be answered
         slot : Slots,      \* the slot claimed
         kept : BOOLEAN]    \* history: a mount has been tracked since the event began

TypeOK ==
    /\ ready \in BOOLEAN /\ source \in {Player, Null} /\ cleaned \in BOOLEAN
    /\ mount \in BOOLEAN
    /\ ring \in [Slots -> Objects \cup {Null}] /\ cursor \in Slots
    /\ pc \in [Threads -> Pcs]
    /\ call \in [Threads -> Call]
    /\ verdict \in [Threads -> {"none", "ours", "foreign"}]

NewCall(c, who, tracked) == [context |-> c, asks |-> who, slot |-> 0, kept |-> tracked]
NoCall == NewCall(CHOOSE c \in Contexts : TRUE, "log", FALSE)

Init ==
    /\ ready = FALSE /\ source = Null /\ cleaned = TRUE
    /\ mount = FALSE
    /\ ring = [i \in Slots |-> Null] /\ cursor = 0
    /\ pc = [t \in Threads |-> "idle"]
    /\ call = [t \in Threads |-> NoCall]
    /\ verdict = [t \in Threads |-> "none"]

(***************************************************************************)
(* The ring of participants.                                               *)
(***************************************************************************)
Ours == {Player, PlayerMarker}

IsTracked(o) == o # Null /\ (o \in Ours \/ \E i \in Slots : ring[i] = o)

Goto(t, s) == pc' = [pc EXCEPT ![t] = s]

\* Mutant: the cursor never taken modulo the number of slots.
ClaimUnwrapped(t, store) ==
    /\ Goto(t, store)
    /\ call' = [call EXCEPT ![t].slot = cursor]
    /\ cursor' = cursor + 1
    /\ UNCHANGED ring

\* The slot at the cursor is claimed; the store is a step of its own.
Claim(t, store) ==
    /\ Goto(t, store)
    /\ call' = [call EXCEPT ![t].slot = cursor]
    /\ cursor' = (cursor + 1) % Count
    /\ UNCHANGED ring

\* TrackDamageParticipant: an object that is not in the ring is entered.
Track(t, o, store, next) ==
    IF o = Null \/ IsTracked(o)
    THEN /\ Goto(t, next)
         /\ UNCHANGED <<participants, call>>
    ELSE Claim(t, store)

Store(t, o, here, next) ==
    /\ pc[t] = here
    /\ ring' = [ring EXCEPT ![call[t].slot] = o]
    /\ Goto(t, next)
    /\ UNCHANGED <<player, mount, cursor, call, verdict>>

(***************************************************************************)
(* IsRelatedDamageParticipant looks at the candidate and at whatever is    *)
(* reached from it by at most Depth + 1 reads of words.                    *)
(***************************************************************************)
Readable == DOMAIN Words
WordsOf(S) == UNION {Words[o] : o \in S \cap Readable}

Examined(candidate) ==
    LET layers[d \in 0 .. Depth + 1] ==
            IF d = 0 THEN {candidate} ELSE layers[d - 1] \cup WordsOf(layers[d - 1])
    IN  layers[Depth + 1]

IsRelated(candidate) == \E o \in Examined(candidate) : IsTracked(o)

(***************************************************************************)
(* A damage event on a game thread.                                        *)
(***************************************************************************)
SourceActor(t) == SourceOf[call[t].context]
SourceMarker(t) == MarkerOf[SourceActor(t)]

\* The callback for a change of the health of anyone but the player.  Both ask about a
\* loss; about a heal, or while the mod is switched off, IsRelevantDamageEvent alone;
\* about a loss of the mount's TryScalePlayerDamage alone.
Hit(t, c, who) ==
    /\ ready
    /\ pc[t] = "idle"
    /\ call' = [call EXCEPT ![t] = NewCall(c, who, mount)]
    /\ verdict' = [verdict EXCEPT ![t] = "none"]
    /\ Goto(t, "actor")
    /\ UNCHANGED <<player, mount, participants>>

\* The answer, to whoever asked; what is only logged gets no verdict.
Answer(t, yes) ==
    \/ /\ call[t].asks = "both"
       /\ Goto(t, "actor")
       /\ call' = [call EXCEPT ![t] = NewCall(call[t].context, "scale", call[t].kept)]
       /\ UNCHANGED verdict
    \/ /\ call[t].asks = "log"
       /\ Goto(t, "idle")
       /\ UNCHANGED <<call, verdict>>
    \/ /\ call[t].asks = "scale"
       /\ Goto(t, "idle")
       /\ verdict' = [verdict EXCEPT ![t] = IF yes THEN "ours" ELSE "foreign"]
       /\ UNCHANGED call

\* The source actor is read and remembered, whoever it is.
ReadActor(t) ==
    /\ pc[t] = "actor"
    /\ \/ /\ SourceActor(t) = Null
          /\ Answer(t, FALSE) /\ UNCHANGED participants
       \/ /\ SourceActor(t) # Null
          /\ Track(t, SourceActor(t), "storeActor", "player") /\ UNCHANGED verdict
    /\ UNCHANGED <<player, mount>>

StoreActor(t) == Store(t, SourceActor(t), "storeActor", "player")

\* The player's own hit; without a mount nothing else counts.
ComparePlayer(t) ==
    /\ pc[t] = "player"
    /\ \/ /\ SourceActor(t) = source
          /\ Answer(t, TRUE)
       \/ /\ SourceActor(t) # source /\ ~mount
          /\ Answer(t, FALSE)
       \/ /\ SourceActor(t) # source /\ mount
          /\ Goto(t, "mount") /\ UNCHANGED <<call, verdict>>
    /\ UNCHANGED <<player, mount, participants>>

\* Mutant: the marker is read before the actor is compared.
CompareMountLate(t) ==
    /\ pc[t] = "mount"
    /\ \/ /\ SourceActor(t) \notin Readable
          /\ Answer(t, FALSE) /\ UNCHANGED participants
       \/ /\ SourceActor(t) \in Readable
          /\ Track(t, SourceMarker(t), "storeMarker", "relate") /\ UNCHANGED verdict
    /\ UNCHANGED <<player, mount>>

\* The mount's own hit, if it still is the tracked one, enters the mount again where
\* its slot has been overwritten or cleared; otherwise the word at +0x20 of the source
\* actor is taken for its marker and remembered.
CompareMount(t) ==
    LET own == mount /\ SourceActor(t) = Mount IN
    /\ pc[t] = "mount"
    /\ \/ /\ own /\ IsTracked(Mount)
          /\ Answer(t, TRUE) /\ UNCHANGED participants
       \/ /\ own /\ ~IsTracked(Mount)
          /\ Claim(t, "storeMount") /\ UNCHANGED verdict
       \/ /\ ~own /\ SourceActor(t) \notin Readable
          /\ Answer(t, FALSE) /\ UNCHANGED participants
       \/ /\ ~own /\ SourceActor(t) \in Readable
          /\ Track(t, SourceMarker(t), "storeMarker", "relate") /\ UNCHANGED verdict
    /\ UNCHANGED <<player, mount>>

StoreMount(t) ==
    /\ pc[t] = "storeMount"
    /\ ring' = [ring EXCEPT ![call[t].slot] = Mount]
    /\ Answer(t, TRUE)
    /\ UNCHANGED <<player, mount, cursor>>

StoreMarker(t) == Store(t, SourceMarker(t), "storeMarker", "relate")

\* The marker of the mount, or anything remembered within reach of the context.
Relate(t) ==
    /\ pc[t] = "relate"
    /\ Answer(t, SourceMarker(t) = MountMarker \/ IsRelated(call[t].context))
    /\ UNCHANGED <<player, mount, participants>>

(***************************************************************************)
(* The resolution of the player and of the mount, by other hooks.          *)
(***************************************************************************)

\* The player becomes known, at once with its actor or, after a health write has
\* identified it, without a damage source.  One of the paths clears the ring when
\* the player is visible already.
Learn ==
    /\ ~ready
    /\ ready' = TRUE
    /\ \/ source' = Player /\ cleaned' \in BOOLEAN
       \/ UNCHANGED <<source, cleaned>>
    /\ UNCHANGED <<mount, participants, pc, call, verdict>>

ResetTrackedDamageParticipants ==
    /\ ~cleaned
    /\ cleaned' = TRUE
    /\ ring' = [i \in Slots |-> Null] /\ cursor' = 0
    /\ UNCHANGED <<ready, source, mount, pc, call, verdict>>

TrackOrLoseMount ==
    /\ mount' = ~mount
    /\ call' = [t \in Threads |-> IF pc[t] = "idle" THEN call[t]
                                   ELSE [call[t] EXCEPT !.kept = FALSE]]
    /\ UNCHANGED <<player, participants, pc, verdict>>

Evaluate(t) ==
    \/ ReadActor(t) \/ StoreActor(t)
    \/ ComparePlayer(t)
    \/ CompareMount(t) \/ StoreMount(t) \/ StoreMarker(t)
    \/ Relate(t)

Next ==
    \/ Learn \/ ResetTrackedDamageParticipants \/ TrackOrLoseMount
    \/ \E t \in Threads, c \in Contexts, who \in Askers : Hit(t, c, who)
    \/ \E t \in Threads : Evaluate(t)

Spec == Init /\ [][Next]_vars

(***************************************************************************)
(* Correctness.                                                            *)
(***************************************************************************)

\* A hit of the mount's side, for anyone who knows the tracked mount: dealt by the mount,
\* by something with its marker, or in a context that leads to the player.
OfTheMount(c) ==
    \/ SourceOf[c] = Mount
    \/ /\ SourceOf[c] \in Readable
       /\ MarkerOf[SourceOf[c]] = MountMarker \/ Examined(c) \cap Ours # {}

\* The hits of a player whose actor is known, and of the mount's side while a mount stays
\* tracked, are never taken for a stranger's, though other threads empty the ring, fill it
\* up or overwrite a slot late (damage_logic.cpp:160-214).
OwnHitsCount ==
    \A t \in Threads :
        verdict[t] = "foreign" =>
            /\ SourceActor(t) # source \/ source = Null
            /\ ~(call[t].kept /\ OfTheMount(call[t].context))

(***************************************************************************)
(* A claim of the documentation that the code does not keep.               *)
(***************************************************************************)

\* Everything a hit is known by: its source, the source's marker, and what its context
\* leads to.
Involved(c) == Examined(c) \cup {SourceOf[c]}
               \cup (IF SourceOf[c] \in Readable THEN {MarkerOf[SourceOf[c]]} ELSE {})

\* README.md:87: "`OutgoingDamage` scales negative health deltas caused by the player or
\* the currently resolved mount / dragon actor".  Every source is remembered before it is
\* judged (damage_logic.cpp:180), so that a stranger's context may lead to a participant.
OnlyOwnHitsCount ==
    \A t \in Threads :
        verdict[t] = "ours" =>
            Involved(call[t].context) \cap {Player, PlayerMarker, Mount, MountMarker} # {}
=============================================================================
