------------------------- MODULE DamageSourceProofs -------------------------
(***************************************************************************)
(* Proofs about DamageSource for every set of threads, objects and         *)
(* contexts, every memory, every size of the ring and every depth.         *)
(***************************************************************************)
EXTENDS DamageSource, TLAPS

\* What a thread knows as it goes through the steps of an evaluation.
Past(t) ==
    /\ pc[t] # "idle" => ready /\ verdict[t] = "none"
    /\ verdict[t] # "none" => ready
    /\ pc[t] \in Pcs \ {"idle", "actor"} => SourceActor(t) # Null
    /\ pc[t] \in {"mount", "storeMarker", "relate"} => SourceActor(t) # source
    /\ pc[t] \in {"storeMarker", "relate"} =>
           SourceActor(t) \in Readable /\ ~(call[t].kept /\ SourceActor(t) = Mount)
    /\ pc[t] # "idle" /\ call[t].kept => mount

Missed(t) == \/ SourceActor(t) = source /\ source # Null
             \/ call[t].kept /\ OfTheMount(call[t].context)

Good(t) == Past(t) /\ (verdict[t] = "foreign" => ~Missed(t))

IInv == TypeOK /\ \A t \in Threads : Good(t)

(***************************************************************************)
(* The memory.                                                             *)
(***************************************************************************)

\* The source actor of an event is an object unless it is null.
LEMMA SourceObject ==
    ASSUME TypeOK, NEW t \in Threads
    PROVE  /\ call[t].context \in Contexts /\ call[t].slot \in Slots
           /\ call[t].asks \in Askers /\ call[t].kept \in BOOLEAN
           /\ SourceActor(t) \in Objects \cup {Null}
           /\ SourceActor(t) \in Readable => SourceMarker(t) \in Objects \cup {Null}
<1>1. call[t] \in Call
  BY DEF TypeOK
<1>2. call[t].context \in Contexts
  BY <1>1 DEF Call
<1>3. SourceActor(t) \in Objects \cup {Null}
  BY <1>2, MemoryAssumption DEF SourceActor
<1>4. SourceActor(t) \in Readable => SourceMarker(t) \in Objects \cup {Null}
  BY MemoryAssumption DEF SourceMarker, Readable
<1> QED BY <1>1, <1>2, <1>3, <1>4 DEF Call

\* A source that is not of the mount's side by actor or by what can be read of it.
LEMMA NotOfTheMount ==
    ASSUME NEW t \in Threads, SourceActor(t) # Mount,
           SourceActor(t) \in Readable =>
               /\ SourceMarker(t) # MountMarker
               /\ Examined(call[t].context) \cap Ours = {}
    PROVE  ~OfTheMount(call[t].context)
BY DEF OfTheMount, SourceActor, SourceMarker

\* The player is always among the participants.
LEMMA PlayerTracked == ASSUME NEW o \in Ours PROVE IsTracked(o)
BY NullAssumption, ObjectsAssumption DEF Ours, IsTracked

\* The cursor stays within the ring.
LEMMA CursorWraps == ASSUME cursor \in Slots PROVE (cursor + 1) % Count \in Slots
BY NumbersAssumption DEF Slots

\* A call begun afresh is a call.
LEMMA NewCallType ==
    ASSUME NEW c \in Contexts, NEW who \in Askers, NEW k \in BOOLEAN
    PROVE  /\ NewCall(c, who, k) \in Call
           /\ NewCall(c, who, k).context = c /\ NewCall(c, who, k).kept = k
BY NumbersAssumption DEF NewCall, Call, Slots

LEMMA NoCallType == NoCall \in Call
<1>1. (CHOOSE c \in Contexts : TRUE) \in Contexts /\ "log" \in Askers
  BY ObjectsAssumption DEF Askers
<1> QED BY <1>1, NewCallType DEF NoCall

(***************************************************************************)
(* What an evaluation leaves alone.                                        *)
(***************************************************************************)

\* A thread that does nothing keeps what it knows.
LEMMA OtherThread ==
    ASSUME NEW u \in Threads, Good(u), UNCHANGED <<player, mount>>,
           pc'[u] = pc[u], call'[u] = call[u], verdict'[u] = verdict[u]
    PROVE  Good(u)'
<1>1. SourceActor(u)' = SourceActor(u)
  BY DEF SourceActor
<1> QED BY <1>1 DEF Good, Past, Missed, player

\* A step of an evaluation keeps the invariant when it does so for its own thread.
LEMMA OtherThreads ==
    ASSUME IInv, NEW t \in Threads, UNCHANGED <<player, mount>>, Good(t)',
           \A u \in Threads \ {t} :
               pc'[u] = pc[u] /\ call'[u] = call[u] /\ verdict'[u] = verdict[u]
    PROVE  \A u \in Threads : Good(u)'
<1>1. SUFFICES ASSUME NEW u \in Threads, u # t PROVE Good(u)'
  OBVIOUS
<1>2. Good(u)
  BY DEF IInv
<1> QED BY <1>1, <1>2, OtherThread

(***************************************************************************)
(* TrackDamageParticipant.                                                 *)
(***************************************************************************)

\* A slot is claimed; what the evaluation is about stays.
LEMMA ClaimStep ==
    ASSUME TypeOK, NEW t \in Threads, NEW store \in Pcs, Claim(t, store)
    PROVE  /\ ring' = ring /\ cursor' \in Slots
           /\ pc' \in [Threads -> Pcs] /\ pc'[t] = store
           /\ call' \in [Threads -> Call]
           /\ call'[t].context = call[t].context /\ call'[t].kept = call[t].kept
           /\ \A u \in Threads \ {t} : pc'[u] = pc[u] /\ call'[u] = call[u]
<1>1. cursor' \in Slots
  BY CursorWraps DEF Claim, TypeOK
<1>2. call[t] \in Call /\ cursor \in Slots
  BY DEF TypeOK
<1>3. [call[t] EXCEPT !.slot = cursor] \in Call
  BY <1>2 DEF Call
<1>4. call' = [call EXCEPT ![t] = [call[t] EXCEPT !.slot = cursor]]
  BY DEF Claim
<1>5. call'[t] = [call[t] EXCEPT !.slot = cursor]
  BY <1>4 DEF TypeOK
<1>6. call' \in [Threads -> Call] /\ \A u \in Threads \ {t} : call'[u] = call[u]
  BY <1>3, <1>4 DEF TypeOK
<1>7. call'[t].context = call[t].context /\ call'[t].kept = call[t].kept
  BY <1>2, <1>5 DEF Call
<1>8. pc' = [pc EXCEPT ![t] = store] /\ ring' = ring
  BY DEF Claim, Goto
<1> QED BY <1>1, <1>6, <1>7, <1>8 DEF TypeOK

\* A participant claims a slot or is there already.
LEMMA TrackStep ==
    ASSUME TypeOK, NEW t \in Threads, NEW o,
           NEW store \in Pcs, NEW next \in Pcs, Track(t, o, store, next)
    PROVE  /\ ring' = ring /\ cursor' \in Slots
           /\ pc' \in [Threads -> Pcs] /\ pc'[t] \in {store, next}
           /\ call' \in [Threads -> Call]
           /\ call'[t].context = call[t].context /\ call'[t].kept = call[t].kept
           /\ \A u \in Threads \ {t} : pc'[u] = pc[u] /\ call'[u] = call[u]
<1>1. CASE o = Null \/ IsTracked(o)
  BY <1>1 DEF Track, Goto, TypeOK, participants
<1>2. CASE ~(o = Null \/ IsTracked(o))
  BY <1>2, ClaimStep DEF Track
<1> QED BY <1>1, <1>2

\* The late store writes an object into the slot claimed.
LEMMA StoreType ==
    ASSUME TypeOK, NEW t \in Threads, NEW o \in Objects \cup {Null},
           ring' = [ring EXCEPT ![call[t].slot] = o]
    PROVE  ring' \in [Slots -> Objects \cup {Null}]
BY SourceObject DEF TypeOK

LEMMA StoreStep ==
    ASSUME IInv, NEW t \in Threads, NEW o \in Objects \cup {Null},
           NEW here \in Pcs, NEW next \in Pcs, Store(t, o, here, next)
    PROVE  /\ TypeOK'
           /\ pc'[t] = next
           /\ \A u \in Threads \ {t} : pc'[u] = pc[u]
<1>1. ring' \in [Slots -> Objects \cup {Null}]
  BY StoreType DEF Store, IInv
<1>2. TypeOK'
  BY <1>1 DEF Store, Goto, IInv, TypeOK, player
<1> QED BY <1>2 DEF Store, Goto, IInv, TypeOK

(***************************************************************************)
(* The answer of an evaluation.                                            *)
(***************************************************************************)
LEMMA AnswerStep ==
    ASSUME IInv, NEW t \in Threads, NEW yes \in BOOLEAN, Answer(t, yes), pc[t] # "idle",
           UNCHANGED <<player, mount>>,
           ring' \in [Slots -> Objects \cup {Null}], cursor' \in Slots,
           ~yes => ~Missed(t)
    PROVE  IInv'
<1>1. call[t] \in Call /\ ready /\ verdict[t] = "none" /\ (call[t].kept => mount)
  BY DEF IInv, TypeOK, Good, Past
<1>2. CASE call[t].asks = "both"
  <2> DEFINE again == NewCall(call[t].context, "scale", call[t].kept)
  <2>1. again \in Call /\ again.context = call[t].context /\ again.kept = call[t].kept
    <3>1. "scale" \in Askers /\ call[t].context \in Contexts /\ call[t].kept \in BOOLEAN
      BY <1>1 DEF Call, Askers
    <3> QED BY <3>1, NewCallType
  <2>2. call' = [call EXCEPT ![t] = again] /\ pc' = [pc EXCEPT ![t] = "actor"]
        /\ verdict' = verdict
    BY <1>2 DEF Answer, Goto
  <2> HIDE DEF again
  <2>3. TypeOK' /\ call'[t] = again /\ pc'[t] = "actor"
    BY <2>1, <2>2 DEF IInv, TypeOK, player, Pcs
  <2>4. Good(t)'
    BY <1>1, <2>1, <2>2, <2>3 DEF Good, Past, player, Pcs
  <2>5. \A u \in Threads \ {t} :
            pc'[u] = pc[u] /\ call'[u] = call[u] /\ verdict'[u] = verdict[u]
    BY <2>2 DEF IInv, TypeOK
  <2> QED BY <2>3, <2>4, <2>5, OtherThreads DEF IInv
<1>3. CASE call[t].asks = "log"
  <2>1. call' = call /\ pc' = [pc EXCEPT ![t] = "idle"] /\ verdict' = verdict
    BY <1>3 DEF Answer, Goto
  <2>2. TypeOK' /\ pc'[t] = "idle"
    BY <2>1 DEF IInv, TypeOK, player, Pcs
  <2>3. Good(t)'
    BY <1>1, <2>1, <2>2 DEF Good, Past, player, Pcs
  <2>4. \A u \in Threads \ {t} :
            pc'[u] = pc[u] /\ call'[u] = call[u] /\ verdict'[u] = verdict[u]
    BY <2>1 DEF IInv, TypeOK
  <2> QED BY <2>2, <2>3, <2>4, OtherThreads DEF IInv
<1>4. CASE call[t].asks = "scale"
  <2>1. call' = call /\ pc' = [pc EXCEPT ![t] = "idle"]
        /\ verdict' = [verdict EXCEPT ![t] = IF yes THEN "ours" ELSE "foreign"]
    BY <1>4 DEF Answer, Goto
  <2>2. TypeOK' /\ pc'[t] = "idle" /\ verdict'[t] = IF yes THEN "ours" ELSE "foreign"
    BY <2>1 DEF IInv, TypeOK, player, Pcs
  <2>3. Missed(t)' = Missed(t)
    BY <2>1 DEF Missed, SourceActor, player
  <2>4. Good(t)'
    BY <1>1, <2>2, <2>3 DEF Good, Past, player, Pcs
  <2>5. \A u \in Threads \ {t} :
            pc'[u] = pc[u] /\ call'[u] = call[u] /\ verdict'[u] = verdict[u]
    BY <2>1 DEF IInv, TypeOK
  <2> QED BY <2>2, <2>4, <2>5, OtherThreads DEF IInv
<1> QED BY <1>1, <1>2, <1>3, <1>4 DEF Call, Askers

(***************************************************************************)
(* The steps of an evaluation.                                             *)
(***************************************************************************)
LEMMA ReadActorStep == ASSUME IInv, NEW t \in Threads, ReadActor(t) PROVE IInv'
<1>1. pc[t] = "actor" /\ UNCHANGED <<player, mount>>
  BY DEF ReadActor
<1>2. CASE SourceActor(t) = Null
  <2>1. Null # Mount /\ Null \notin Readable
    BY NullAssumption, ObjectsAssumption, MemoryAssumption DEF Readable
  <2>2. ~Missed(t)
    BY <1>2, <2>1, NotOfTheMount DEF Missed
  <2>3. Answer(t, FALSE) /\ UNCHANGED participants
    BY <1>2 DEF ReadActor
  <2> QED BY <1>1, <2>2, <2>3, AnswerStep DEF IInv, TypeOK, participants
<1>3. CASE SourceActor(t) # Null
  <2>1. Track(t, SourceActor(t), "storeActor", "player") /\ verdict' = verdict
    BY <1>3 DEF ReadActor
  <2>2. /\ ring' = ring /\ cursor' \in Slots
        /\ pc' \in [Threads -> Pcs] /\ pc'[t] \in {"storeActor", "player"}
        /\ call' \in [Threads -> Call]
        /\ call'[t].context = call[t].context /\ call'[t].kept = call[t].kept
        /\ \A u \in Threads \ {t} : pc'[u] = pc[u] /\ call'[u] = call[u]
    <3>1. "storeActor" \in Pcs /\ "player" \in Pcs
      BY DEF Pcs
    <3> QED BY <2>1, <3>1, TrackStep DEF IInv
  <2>3. TypeOK'
    BY <1>1, <2>1, <2>2 DEF IInv, TypeOK, player
  <2>4. SourceActor(t)' = SourceActor(t)
    BY <2>2 DEF SourceActor
  <2>5. Good(t)'
    BY <1>1, <1>3, <2>1, <2>2, <2>4 DEF IInv, Good, Past, player
  <2>6. \A u \in Threads : Good(u)'
    BY <1>1, <2>1, <2>2, <2>5, OtherThreads
  <2> QED BY <2>3, <2>6 DEF IInv
<1> QED BY <1>2, <1>3

LEMMA StoreActorStep == ASSUME IInv, NEW t \in Threads, StoreActor(t) PROVE IInv'
<1>1. Store(t, SourceActor(t), "storeActor", "player") /\ pc[t] = "storeActor"
  BY DEF StoreActor, Store
<1>2. SourceActor(t) \in Objects \cup {Null}
  BY SourceObject DEF IInv
<1>3. TypeOK' /\ pc'[t] = "player" /\ \A u \in Threads \ {t} : pc'[u] = pc[u]
  BY <1>1, <1>2, StoreStep DEF Pcs
<1>4. UNCHANGED <<player, mount, cursor, call, verdict>>
  BY <1>1 DEF Store
<1>5. SourceActor(t)' = SourceActor(t)
  BY <1>4 DEF SourceActor
<1>6. Good(t)'
  BY <1>1, <1>3, <1>4, <1>5 DEF IInv, Good, Past, player, Pcs
<1>7. \A u \in Threads : Good(u)'
  BY <1>3, <1>4, <1>6, OtherThreads
<1> QED BY <1>3, <1>7 DEF IInv

LEMMA ComparePlayerStep == ASSUME IInv, NEW t \in Threads, ComparePlayer(t) PROVE IInv'
<1>1. pc[t] = "player" /\ UNCHANGED <<player, mount, participants>>
  BY DEF ComparePlayer
<1>2. (call[t].kept => mount) /\ ready /\ verdict[t] = "none" /\ SourceActor(t) # Null
  BY <1>1 DEF IInv, Good, Past, Pcs
<1>3. ring' \in [Slots -> Objects \cup {Null}] /\ cursor' \in Slots
  BY <1>1 DEF IInv, TypeOK, participants
<1>4. CASE SourceActor(t) = source /\ Answer(t, TRUE)
  BY <1>1, <1>3, <1>4, AnswerStep
<1>5. CASE SourceActor(t) # source /\ ~mount /\ Answer(t, FALSE)
  <2>1. ~Missed(t)
    BY <1>2, <1>5 DEF Missed
  <2> QED BY <1>1, <1>3, <1>5, <2>1, AnswerStep
<1>6. CASE SourceActor(t) # source /\ mount /\ Goto(t, "mount") /\ UNCHANGED <<call, verdict>>
  <2>1. pc' = [pc EXCEPT ![t] = "mount"]
    BY <1>6 DEF Goto
  <2>2. TypeOK' /\ pc'[t] = "mount"
    BY <1>1, <1>6, <2>1 DEF IInv, TypeOK, player, participants, Pcs
  <2>3. SourceActor(t)' = SourceActor(t)
    BY <1>6 DEF SourceActor
  <2>4. Good(t)'
    BY <1>1, <1>2, <1>6, <2>2, <2>3 DEF Good, Past, player, Pcs
  <2>5. \A u \in Threads \ {t} :
            pc'[u] = pc[u] /\ call'[u] = call[u] /\ verdict'[u] = verdict[u]
    BY <1>6, <2>1 DEF IInv, TypeOK
  <2> QED BY <1>1, <2>2, <2>4, <2>5, OtherThreads DEF IInv
<1> QED BY <1>4, <1>5, <1>6 DEF ComparePlayer

LEMMA CompareMountStep == ASSUME IInv, NEW t \in Threads, CompareMount(t) PROVE IInv'
<1> DEFINE own == mount /\ SourceActor(t) = Mount
<1>1. pc[t] = "mount" /\ UNCHANGED <<player, mount>>
  BY DEF CompareMount
<1>2. /\ SourceActor(t) # Null /\ SourceActor(t) # source
      /\ (call[t].kept => mount) /\ ready /\ verdict[t] = "none"
  BY <1>1 DEF IInv, Good, Past, Pcs
<1>3. ring \in [Slots -> Objects \cup {Null}] /\ cursor \in Slots
  BY DEF IInv, TypeOK
<1>4. CASE Answer(t, TRUE) /\ UNCHANGED participants
  BY <1>1, <1>3, <1>4, AnswerStep DEF participants
<1>5. CASE ~own /\ SourceActor(t) \notin Readable /\ Answer(t, FALSE) /\ UNCHANGED participants
  <2>1. ~Missed(t)
    BY <1>2, <1>5, NotOfTheMount DEF Missed
  <2> QED BY <1>1, <1>3, <1>5, <2>1, AnswerStep DEF participants
<1>6. CASE Claim(t, "storeMount") /\ UNCHANGED verdict
  <2>1. /\ ring' = ring /\ cursor' \in Slots
        /\ pc' \in [Threads -> Pcs] /\ pc'[t] = "storeMount"
        /\ call' \in [Threads -> Call]
        /\ call'[t].context = call[t].context /\ call'[t].kept = call[t].kept
        /\ \A u \in Threads \ {t} : pc'[u] = pc[u] /\ call'[u] = call[u]
    BY <1>6, ClaimStep DEF IInv, Pcs
  <2>2. TypeOK'
    BY <1>1, <1>6, <2>1 DEF IInv, TypeOK, player
  <2>3. SourceActor(t)' = SourceActor(t)
    BY <2>1 DEF SourceActor
  <2>4. Good(t)'
    BY <1>1, <1>2, <1>6, <2>1, <2>3 DEF Good, Past, player, Pcs
  <2> QED BY <1>1, <1>6, <2>1, <2>2, <2>4, OtherThreads DEF IInv
<1>7. CASE /\ ~own /\ SourceActor(t) \in Readable
           /\ Track(t, SourceMarker(t), "storeMarker", "relate") /\ UNCHANGED verdict
  <2>1. /\ ring' = ring /\ cursor' \in Slots
        /\ pc' \in [Threads -> Pcs] /\ pc'[t] \in {"storeMarker", "relate"}
        /\ call' \in [Threads -> Call]
        /\ call'[t].context = call[t].context /\ call'[t].kept = call[t].kept
        /\ \A u \in Threads \ {t} : pc'[u] = pc[u] /\ call'[u] = call[u]
    BY <1>7, TrackStep DEF IInv, Pcs
  <2>2. TypeOK'
    BY <1>1, <1>7, <2>1 DEF IInv, TypeOK, player
  <2>3. SourceActor(t)' = SourceActor(t)
    BY <2>1 DEF SourceActor
  <2>4. Good(t)'
    BY <1>1, <1>2, <1>7, <2>1, <2>3 DEF Good, Past, player, Pcs, Readable
  <2> QED BY <1>1, <1>7, <2>1, <2>2, <2>4, OtherThreads DEF IInv
<1> QED BY <1>4, <1>5, <1>6, <1>7 DEF CompareMount

LEMMA StoreMountStep == ASSUME IInv, NEW t \in Threads, StoreMount(t) PROVE IInv'
<1>1. /\ pc[t] = "storeMount" /\ Answer(t, TRUE) /\ UNCHANGED <<player, mount, cursor>>
      /\ ring' = [ring EXCEPT ![call[t].slot] = Mount]
  BY DEF StoreMount
<1>2. ring' \in [Slots -> Objects \cup {Null}] /\ cursor' \in Slots
  BY <1>1, StoreType, ObjectsAssumption DEF IInv, TypeOK
<1> QED BY <1>1, <1>2, AnswerStep

LEMMA StoreMarkerStep == ASSUME IInv, NEW t \in Threads, StoreMarker(t) PROVE IInv'
<1>1. Store(t, SourceMarker(t), "storeMarker", "relate") /\ pc[t] = "storeMarker"
  BY DEF StoreMarker, Store
<1>2. SourceActor(t) \in Readable /\ SourceMarker(t) \in Objects \cup {Null}
  BY <1>1, SourceObject DEF IInv, Good, Past
<1>3. TypeOK' /\ pc'[t] = "relate" /\ \A u \in Threads \ {t} : pc'[u] = pc[u]
  BY <1>1, <1>2, StoreStep DEF Pcs
<1>4. UNCHANGED <<player, mount, cursor, call, verdict>>
  BY <1>1 DEF Store
<1>5. SourceActor(t)' = SourceActor(t)
  BY <1>4 DEF SourceActor
<1>6. Good(t)'
  BY <1>1, <1>3, <1>4, <1>5 DEF IInv, Good, Past, player, Pcs, Readable
<1>7. \A u \in Threads : Good(u)'
  BY <1>3, <1>4, <1>6, OtherThreads
<1> QED BY <1>3, <1>7 DEF IInv

\* What the search does not find does not lead to the player.
LEMMA RelateStep == ASSUME IInv, NEW t \in Threads, Relate(t) PROVE IInv'
<1> DEFINE yes == SourceMarker(t) = MountMarker \/ IsRelated(call[t].context)
<1>1. pc[t] = "relate" /\ Answer(t, yes) /\ UNCHANGED <<player, mount, participants>>
  BY DEF Relate
<1>2. /\ SourceActor(t) # source
      /\ ~(call[t].kept /\ SourceActor(t) = Mount)
  BY <1>1 DEF IInv, Good, Past
<1>3. ASSUME ~yes PROVE ~Missed(t)
  <2>1. Examined(call[t].context) \cap Ours = {}
    BY <1>3, PlayerTracked DEF IsRelated
  <2> QED BY <1>2, <1>3, <2>1, NotOfTheMount DEF Missed
<1>4. yes \in BOOLEAN
  BY DEF IsRelated
<1>5. ring' \in [Slots -> Objects \cup {Null}] /\ cursor' \in Slots
  BY <1>1 DEF IInv, TypeOK, participants
<1> HIDE DEF yes
<1> QED BY <1>1, <1>3, <1>4, <1>5, AnswerStep

LEMMA HitStep ==
    ASSUME IInv, NEW t \in Threads, NEW c \in Contexts, NEW who \in Askers, Hit(t, c, who)
    PROVE  IInv'
<1> DEFINE new == NewCall(c, who, mount)
<1>1. new \in Call /\ new.context = c /\ new.kept = mount
  <2>1. mount \in BOOLEAN
    BY DEF IInv, TypeOK
  <2> QED BY <2>1, NewCallType
<1>2. /\ call' = [call EXCEPT ![t] = new] /\ verdict' = [verdict EXCEPT ![t] = "none"]
      /\ pc' = [pc EXCEPT ![t] = "actor"] /\ UNCHANGED <<player, mount, participants>> /\ ready
  BY DEF Hit, Goto
<1> HIDE DEF new
<1>3. TypeOK' /\ call'[t] = new /\ verdict'[t] = "none" /\ pc'[t] = "actor"
  BY <1>1, <1>2 DEF IInv, TypeOK, player, participants, Pcs
<1>4. Good(t)'
  BY <1>1, <1>2, <1>3 DEF Good, Past, player, Pcs
<1>5. \A u \in Threads \ {t} :
          pc'[u] = pc[u] /\ call'[u] = call[u] /\ verdict'[u] = verdict[u]
  BY <1>2 DEF IInv, TypeOK
<1> QED BY <1>2, <1>3, <1>4, <1>5, OtherThreads DEF IInv

(***************************************************************************)
(* The steps of others.                                                    *)
(***************************************************************************)

\* No event is looked at before the player is known.
LEMMA LearnStep == ASSUME IInv, Learn PROVE IInv'
<1>1. /\ ~ready /\ ready' = TRUE /\ UNCHANGED <<mount, participants, pc, call, verdict>>
      /\ source' \in {Player, Null} /\ cleaned' \in BOOLEAN
  BY DEF Learn, IInv, TypeOK
<1>2. TypeOK'
  BY <1>1 DEF IInv, TypeOK, participants
<1>3. \A t \in Threads : pc[t] = "idle" /\ verdict[t] = "none"
  BY <1>1 DEF IInv, Good, Past, TypeOK
<1>4. \A t \in Threads : Good(t)'
  BY <1>1, <1>3 DEF Good, Past, Pcs
<1> QED BY <1>2, <1>4 DEF IInv

LEMMA ResetStep == ASSUME IInv, ResetTrackedDamageParticipants PROVE IInv'
<1>1. /\ UNCHANGED <<ready, source, mount, pc, call, verdict>> /\ cleaned' = TRUE
      /\ ring' = [i \in Slots |-> Null] /\ cursor' = 0
  BY DEF ResetTrackedDamageParticipants
<1>2. TypeOK'
  BY <1>1, NumbersAssumption DEF IInv, TypeOK, Slots
<1>3. \A t \in Threads : Good(t)'
  BY <1>1 DEF IInv, Good, Past, Missed, SourceActor
<1> QED BY <1>2, <1>3 DEF IInv

LEMMA MountStep == ASSUME IInv, TrackOrLoseMount PROVE IInv'
<1>1. /\ UNCHANGED <<player, participants, pc, verdict>> /\ mount' \in BOOLEAN
      /\ call' = [t \in Threads |-> IF pc[t] = "idle" THEN call[t]
                                    ELSE [call[t] EXCEPT !.kept = FALSE]]
  BY DEF TrackOrLoseMount, IInv, TypeOK
<1>2. \A t \in Threads :
          /\ call'[t] \in Call /\ call'[t].context = call[t].context
          /\ pc[t] = "idle" => call'[t].kept = call[t].kept
          /\ pc[t] # "idle" => ~call'[t].kept
  <2>1. SUFFICES ASSUME NEW t \in Threads
                 PROVE  /\ call'[t] \in Call /\ call'[t].context = call[t].context
                        /\ pc[t] = "idle" => call'[t].kept = call[t].kept
                        /\ pc[t] # "idle" => ~call'[t].kept
    OBVIOUS
  <2>2. call[t] \in Call
    BY DEF IInv, TypeOK
  <2> QED BY <1>1, <2>2 DEF Call
<1>3. call' \in [Threads -> Call]
  BY <1>1, <1>2
<1>4. TypeOK'
  BY <1>1, <1>3 DEF IInv, TypeOK, player, participants
<1>5. ASSUME NEW t \in Threads PROVE Good(t)'
  <2>1. SourceActor(t)' = SourceActor(t)
    BY <1>2 DEF SourceActor
  <2>2. Good(t)
    BY DEF IInv
  <2>3. verdict[t] # "none" => pc[t] = "idle"
    BY <2>2 DEF Good, Past
  <2> QED BY <1>1, <1>2, <2>1, <2>2, <2>3 DEF Good, Past, Missed, player
<1> QED BY <1>4, <1>5 DEF IInv

(***************************************************************************)
(* The theorems.                                                           *)
(***************************************************************************)
LEMMA Initially == Init => IInv
<1> SUFFICES ASSUME Init PROVE IInv
  OBVIOUS
<1>1. TypeOK
  <2>1. 0 \in Slots
    BY NumbersAssumption DEF Slots
  <2>2. call \in [Threads -> Call] /\ pc \in [Threads -> Pcs]
    BY NoCallType DEF Init, Pcs
  <2> QED BY <2>1, <2>2 DEF Init, TypeOK
<1>2. \A t \in Threads : Good(t)
  BY DEF Init, Good, Past, Pcs
<1> QED BY <1>1, <1>2 DEF IInv

LEMMA Inductive == IInv /\ [Next]_vars => IInv'
<1> SUFFICES ASSUME IInv, [Next]_vars PROVE IInv'
  OBVIOUS
<1>1. CASE UNCHANGED vars
  BY <1>1 DEF vars, player, participants, IInv, TypeOK, Good, Past, Missed, SourceActor
<1>2. CASE Learn \/ ResetTrackedDamageParticipants \/ TrackOrLoseMount
  BY <1>2, LearnStep, ResetStep, MountStep
<1>3. CASE \E t \in Threads, c \in Contexts, who \in Askers : Hit(t, c, who)
  BY <1>3, HitStep
<1>4. CASE \E t \in Threads : Evaluate(t)
  BY <1>4, ReadActorStep, StoreActorStep, ComparePlayerStep, CompareMountStep,
     StoreMountStep, StoreMarkerStep, RelateStep DEF Evaluate
<1> QED BY <1>1, <1>2, <1>3, <1>4 DEF Next

\* Every variable keeps its type: the cursor and the slots claimed stay within the
\* ring, whatever is stored late.
THEOREM TypeCorrect == Spec => []TypeOK
<1>1. IInv => TypeOK
  BY DEF IInv
<1> QED BY Initially, Inductive, <1>1, PTL DEF Spec

\* IsOutgoingPlayerDamageSource never misses a hit of the player whose actor is
\* known, nor one of the mount's side while a mount stays tracked.
THEOREM OwnHitsRecognised == Spec => []OwnHitsCount
<1>1. IInv => OwnHitsCount
  BY DEF IInv, Good, Missed, OwnHitsCount
<1> QED BY Initially, Inductive, <1>1, PTL DEF Spec
=============================================================================
