--------------------------- MODULE TrackingProofs ---------------------------
(***************************************************************************)
(* Theorems of Tracking for any number of objects and game threads, any    *)
(* set of installed hooks, any stat profiles and any order in which the    *)
(* stores of a snapshot become visible.                                    *)
(***************************************************************************)
EXTENDS Tracking, TLAPS

USE NullAssumption, ThreadAssumption

LEMMA ConstantsTyped ==
    /\ PointerSources \subseteq Obj /\ ChainTargets \subseteq Obj
    /\ \A o \in Obj : Profiles[o] \subseteq ProfileKinds
BY SubsetAssumption, ProfilesAssumption

(***************************************************************************)
(* Type correctness.                                                       *)
(***************************************************************************)
LEMMA SnapshotTypes ==
    /\ Empty \in Snapshot
    /\ \A o \in Pointer : Resolve(o) \in Snapshot
    /\ \A s \in Snapshot, o \in Pointer : Merge(s, o) \in Snapshot
    /\ \A s, u \in Snapshot : \A B : Overlay(s, u, B) \in Snapshot
BY DEF Empty, Resolve, Merge, Overlay, Snapshot, Pointer

\* A step of one thread's locals.
LEMMA GotoType ==
    ASSUME TypeOK, NEW t \in Threads, NEW l \in Labels, NEW c \in Pointer,
           NEW s \in Snapshot, NEW r \in Returns, Goto(t, l, c, s, r)
    PROVE  /\ pc' \in [Threads -> Labels]
           /\ cand' \in [Threads -> Pointer]
           /\ snap' \in [Threads -> Snapshot]
           /\ ret' \in [Threads -> Returns]
BY SnapshotTypes DEF TypeOK, Goto, Returns, Pointer

LEMMA JumpType ==
    ASSUME TypeOK, NEW t \in Threads, NEW l \in Labels, Jump(t, l)
    PROVE  /\ pc' \in [Threads -> Labels]
           /\ cand' \in [Threads -> Pointer]
           /\ snap' \in [Threads -> Snapshot]
           /\ ret' \in [Threads -> Returns]
<1>1. cand[t] \in Pointer /\ snap[t] \in Snapshot /\ ret[t] \in Returns
  BY DEF TypeOK
<1> QED BY <1>1, GotoType DEF Jump

\* A critical section.
LEMMA LockedType ==
    ASSUME TypeOK, NEW t \in Threads, NEW l \in Resumes,
           NEW p \in Snapshot, NEW m \in Snapshot, NEW seen \in Stamps \cup {"keep"},
           Locked(t, l, p, m, seen), KeepLocals
    PROVE  TypeOK'
BY DEF TypeOK, Locked, KeepLocals, world, Labels

LEMMA LabelSets == Returns \subseteq Labels /\ Resumes \subseteq Labels
BY DEF Returns, Resumes, Labels, Unlocked

\* A step that leaves the shared state alone keeps the types.
LEMMA LocalType ==
    ASSUME TypeOK, NEW t \in Threads, NEW l \in Labels, NEW c \in Pointer,
           NEW s \in Snapshot, NEW r \in Returns, Goto(t, l, c, s, r),
           UNCHANGED <<shared, world, after>>
    PROVE  TypeOK'
BY GotoType DEF TypeOK, shared, world

LEMMA StepType ==
    ASSUME TypeOK, NEW t \in Threads, NEW l \in Labels, Jump(t, l),
           UNCHANGED <<shared, world, after>>
    PROVE  TypeOK'
BY JumpType DEF TypeOK, shared, world

LEMMA CallType ==
    ASSUME TypeOK, NEW t \in GameThreads, NEW o \in Obj, Call(t, o)
    PROVE  TypeOK'
<1>1. \A l \in Labels, r \in Returns :
          Goto(t, l, o, Empty, r) /\ UNCHANGED <<shared, world, after>> => TypeOK'
  BY LocalType, SnapshotTypes DEF Threads, Pointer
<1>2. /\ {"playerCommit", "bootstrapCommit", "mountCheck", "assignCommit",
          "healthCommit", "staminaCommit", "ab00Mount", "spiritCommit",
          "damageRelock"} \subseteq Labels
      /\ {"idle", "ab00Mount", "damageRelock"} \subseteq Returns
  BY DEF Labels, Locks, Unlocked, Returns
<1>3. CASE PlayerPointer(t, o)
  BY <1>1, <1>2, <1>3 DEF PlayerPointer
<1>4. CASE \E stat \in {"health", "stamina", "spirit"} : Stats(t, o, stat)
  BY <1>1, <1>2, <1>4 DEF Stats
<1>5. CASE HealthWrite(t, o)
  BY <1>1, <1>2, <1>5 DEF HealthWrite
<1>6. CASE Ab00(t, o)
  BY <1>1, <1>2, <1>6 DEF Ab00
<1>7. CASE SpiritDelta(t, o)
  BY <1>1, <1>2, <1>7 DEF SpiritDelta
<1>8. CASE Damage(t, o)
  BY <1>1, <1>2, <1>8 DEF Damage
<1> QED
  BY <1>3, <1>4, <1>5, <1>6, <1>7, <1>8 DEF Call

\* The critical sections, whatever they decide to store.
LEMMA CommitType ==
    ASSUME TypeOK, NEW t \in Threads,
           \/ PlayerCommit(t) \/ BootstrapCommit(t) \/ AssignCommit(t)
           \/ HealthCommit(t) \/ StaminaCommit(t) \/ SpiritCommit(t)
           \/ MountCommit(t) \/ KeepAliveCommit(t) \/ ResetCommit(t)
           \/ RefreshDrop(t)
    PROVE  TypeOK'
<1> DEFINE o == cand[t]
<1>0. /\ o \in Pointer /\ ret[t] \in Resumes /\ RefreshRet(t) \in Resumes
      /\ nextPlayer \in Snapshot /\ nextMount \in Snapshot
      /\ {"idle", "refresh", "relock", "relockWrite"} \subseteq Resumes
      /\ {"keep", "never", "fresh"} \subseteq Stamps \cup {"keep"}
  BY DEF TypeOK, Resumes, Returns, RefreshRet, Stamps
<1>1. \A l \in Resumes, p, m \in Snapshot, seen \in Stamps \cup {"keep"} :
          Locked(t, l, p, m, seen) /\ KeepLocals => TypeOK'
  BY LockedType
<1>2. \A l \in Resumes : LockedNoChange(t, l) /\ KeepLocals => TypeOK'
  BY <1>0, <1>1 DEF LockedNoChange
<1>3. /\ Empty \in Snapshot /\ Resolve(o) \in Snapshot
      /\ Merge(nextPlayer, o) \in Snapshot
      /\ \A f \in Fields : [nextPlayer EXCEPT ![f] = o] \in Snapshot
  BY <1>0, SnapshotTypes DEF Snapshot
<1>4. CASE PlayerCommit(t)
  BY <1>0, <1>1, <1>2, <1>3, <1>4 DEF PlayerCommit
<1>5. CASE BootstrapCommit(t)
  BY <1>0, <1>1, <1>2, <1>3, <1>5 DEF BootstrapCommit
<1>6. CASE AssignCommit(t)
  <2>1. CASE LockedNoChange(t, "idle") /\ KeepLocals
    BY <1>0, <1>2, <2>1
  <2>2. ASSUME NEW stat \in {"stamina"} \cup (IF o \in HasSpirit THEN {"spirit"} ELSE {}),
               Locked(t, "idle", [nextPlayer EXCEPT ![stat] = o], nextMount, "keep"),
               KeepLocals
        PROVE  TypeOK'
    <3>1. stat \in Fields
      BY DEF Fields
    <3> QED BY <1>0, <1>1, <1>3, <2>2, <3>1
  <2> QED BY <1>6, <2>1, <2>2 DEF AssignCommit
<1>7. CASE HealthCommit(t)
  <2>1. \A st \in {Null, o}, sp \in SpiritNear(o) :
           [nextPlayer EXCEPT !["health"] = o, !["stamina"] = st, !["spirit"] = sp] \in Snapshot
    BY <1>0 DEF Snapshot, SpiritNear, Pointer
  <2> QED BY <1>0, <1>1, <1>2, <1>7, <2>1 DEF HealthCommit
<1>8. CASE StaminaCommit(t)
  <2>1. \A sp \in SpiritNear(o) :
           [nextPlayer EXCEPT !["health"] = o, !["stamina"] = o, !["spirit"] = sp] \in Snapshot
    BY <1>0 DEF Snapshot, SpiritNear, Pointer
  <2>2. [nextPlayer EXCEPT !["stamina"] = o] \in Snapshot
    BY <1>3 DEF Fields
  <2> QED BY <1>0, <1>1, <1>2, <1>8, <2>1, <2>2 DEF StaminaCommit
<1>9. CASE SpiritCommit(t)
  <2>1. [nextPlayer EXCEPT !["spirit"] = o] \in Snapshot
    BY <1>3 DEF Fields
  <2> QED BY <1>0, <1>1, <1>2, <1>9, <2>1 DEF SpiritCommit
<1>10. CASE MountCommit(t)
  BY <1>0, <1>1, <1>3, <1>10 DEF MountCommit
<1>11. CASE KeepAliveCommit(t)
  BY <1>0, <1>1, <1>2, <1>11 DEF KeepAliveCommit
<1>12. CASE ResetCommit(t)
  BY <1>0, <1>1, <1>2, <1>3, <1>12 DEF ResetCommit
<1>13. CASE RefreshDrop(t)
  BY <1>0, <1>1, <1>2, <1>3, <1>13 DEF RefreshDrop
<1> QED
  BY <1>4, <1>5, <1>6, <1>7, <1>8, <1>9, <1>10, <1>11, <1>12, <1>13

\* The steps between the critical sections.
LEMMA WalkType ==
    ASSUME TypeOK, NEW t \in Threads,
           \/ Ab00Mount(t) \/ Ab00Adjust(t) \/ DamageRelock(t)
           \/ MountCheck(t) \/ Relock(t) \/ Reresolve(t) \/ KeepAlive(t)
           \/ RelockWrite(t) \/ Refresh(t) \/ RefreshRecheck(t) \/ LoopRelock(t)
    PROVE  TypeOK'
<1>0. /\ cand[t] \in Pointer /\ snap[t] \in Snapshot /\ ret[t] \in Returns
      /\ mount \in Snapshot /\ chain \in Pointer
      /\ Empty \in Snapshot /\ Null \in Pointer
      /\ RefreshRet(t) \in Returns
  BY SnapshotTypes DEF TypeOK, Pointer, Returns, RefreshRet
<1>1. /\ {"mountCheck", "staminaCommit", "relock", "mountTouch", "mountCommit",
          "reresolve", "resetCommit", "refreshCommit", "keepAlive",
          "keepAliveCommit", "refreshDrop"} \subseteq Labels
      /\ {"idle", "ab00Adjust", "refreshRecheck", "loopRelock"} \subseteq Returns
      /\ Returns \subseteq Labels
  BY DEF Labels, Locks, Unlocked, Returns
<1>2. \A l \in Labels, c \in Pointer, s \in Snapshot, r \in Returns :
          Goto(t, l, c, s, r) /\ UNCHANGED <<shared, world, after>> => TypeOK'
  BY LocalType
<1>3. \A l \in Labels : Jump(t, l) /\ UNCHANGED <<shared, world, after>> => TypeOK'
  BY StepType
<1>4. CASE Ab00Mount(t)
  BY <1>0, <1>1, <1>2, <1>3, <1>4 DEF Ab00Mount
<1>5. CASE Ab00Adjust(t)
  BY <1>0, <1>1, <1>2, <1>3, <1>5 DEF Ab00Adjust
<1>6. CASE DamageRelock(t)
  BY <1>0, <1>1, <1>2, <1>3, <1>6 DEF DamageRelock
<1>7. CASE MountCheck(t)
  BY <1>0, <1>1, <1>3, <1>7 DEF MountCheck, Step
<1>8. CASE Relock(t)
  BY <1>0, <1>1, <1>2, <1>3, <1>8 DEF Relock
<1>9. CASE Reresolve(t)
  BY <1>1, <1>3, <1>9 DEF Reresolve, Step
<1>10. CASE KeepAlive(t)
  BY <1>1, <1>3, <1>10 DEF KeepAlive, Step
<1>11. CASE RelockWrite(t)
  BY <1>0, <1>1, <1>3, <1>11 DEF RelockWrite, Step
<1>12. CASE Refresh(t)
  BY <1>0, <1>1, <1>2, <1>3, <1>12 DEF Refresh
<1>13. CASE RefreshRecheck(t)
  BY <1>0, <1>1, <1>3, <1>13 DEF RefreshRecheck, Step
<1>14. CASE LoopRelock(t)
  BY <1>0, <1>1, <1>2, <1>14 DEF LoopRelock
<1> QED
  BY <1>4, <1>5, <1>6, <1>7, <1>8, <1>9, <1>10, <1>11, <1>12, <1>13, <1>14

\* The steps that touch the shared state without deciding anything.
LEMMA StoreType ==
    ASSUME TypeOK, NEW t \in Threads,
           \/ StoreMount(t) \/ StorePlayer(t) \/ Unlock(t) \/ MountTouch(t)
           \/ RefreshCommit(t) \/ AssignFault(t)
    PROVE  TypeOK'
<1>1. CASE StoreMount(t)
  <2>1. mount' \in Snapshot
    BY <1>1, SnapshotTypes DEF StoreMount, TypeOK
  <2> QED BY <1>1, <2>1 DEF StoreMount, TypeOK, world, locals
<1>2. CASE StorePlayer(t)
  <2>1. player' \in Snapshot
    BY <1>2, SnapshotTypes DEF StorePlayer, TypeOK
  <2> QED BY <1>2, <2>1 DEF StorePlayer, TypeOK, world, locals
<1>3. CASE Unlock(t)
  <2>1. after[t] \in Labels
    BY LabelSets DEF TypeOK
  <2>2. /\ pc' \in [Threads -> Labels] /\ cand' \in [Threads -> Pointer]
        /\ snap' \in [Threads -> Snapshot] /\ ret' \in [Threads -> Returns]
    BY <1>3, <2>1, JumpType DEF Unlock
  <2>3. after' \in [Threads -> Resumes]
    BY <1>3 DEF Unlock, TypeOK, Resumes, Returns
  <2> QED
    BY <1>3, <2>2, <2>3 DEF Unlock, TypeOK, world
<1>4. CASE MountTouch(t)
  <2>1. "relock" \in Labels
    BY DEF Labels, Unlocked
  <2>2. /\ pc' \in [Threads -> Labels] /\ cand' \in [Threads -> Pointer]
        /\ snap' \in [Threads -> Snapshot] /\ ret' \in [Threads -> Returns]
    BY <1>4, <2>1, JumpType DEF MountTouch
  <2> QED
    BY <1>4, <2>2 DEF MountTouch, TypeOK, world, Stamps
<1>5. CASE RefreshCommit(t)
  <2> DEFINE latest == Resolve(snap[t]["id"])
  <2>1. latest \in Snapshot /\ ret[t] \in Resumes /\ "relockWrite" \in Resumes
    <3>1. snap[t]["id"] \in Pointer
      BY DEF TypeOK, Snapshot, Fields
    <3> QED BY <3>1, SnapshotTypes DEF TypeOK, Resumes
  <2>2. CASE LockedNoChange(t, ret[t]) /\ KeepLocals
    BY <2>1, <2>2, LockedType DEF LockedNoChange, TypeOK
  <2>3. CASE /\ Locked(t, "relockWrite", nextPlayer, latest, "fresh")
             /\ snap' = [snap EXCEPT ![t] = latest]
             /\ UNCHANGED <<cand, ret>>
    BY <2>1, <2>3 DEF Locked, TypeOK, world, Labels, Stamps
  <2> QED BY <1>5, <2>2, <2>3 DEF RefreshCommit
<1>6. CASE AssignFault(t)
  <2>1. "idle" \in Labels
    BY DEF Labels, Unlocked
  <2>2. /\ pc' \in [Threads -> Labels] /\ cand' \in [Threads -> Pointer]
        /\ snap' \in [Threads -> Snapshot] /\ ret' \in [Threads -> Returns]
    BY <1>6, <2>1, JumpType DEF AssignFault
  <2> QED
    BY <1>6, <2>2 DEF AssignFault, TypeOK
<1> QED
  BY <1>1, <1>2, <1>3, <1>4, <1>5, <1>6

LEMMA EnvironmentType ==
    ASSUME TypeOK, Environment
    PROVE  TypeOK'
<1>1. CASE AgeStamp
  BY <1>1 DEF AgeStamp, TypeOK, world, locals, Stamps
<1>2. ASSUME NEW o \in Obj, World(o)
      PROVE  TypeOK'
  BY <1>2, ConstantsTyped DEF World, TypeOK, shared, locals
<1>3. ASSUME NEW o \in ChainTargets \cup {Null}, Chain(o)
      PROVE  TypeOK'
  BY <1>3, ConstantsTyped DEF Chain, TypeOK, shared, locals, Pointer
<1>4. ASSUME NEW c \in Configs, Reload(c)
      PROVE  TypeOK'
  BY <1>4 DEF Reload, TypeOK, shared, locals
<1>5. CASE Disable
  BY <1>5 DEF Disable, TypeOK, shared, locals
<1> QED
  BY <1>1, <1>2, <1>3, <1>4, <1>5 DEF Environment

LEMMA NextType == TypeOK /\ [Next]_vars => TypeOK'
<1> SUFFICES ASSUME TypeOK, [Next]_vars PROVE TypeOK'
  OBVIOUS
<1>1. ASSUME NEW t \in GameThreads, NEW o \in Obj, Call(t, o)
      PROVE  TypeOK'
  BY <1>1, CallType
<1>2. ASSUME NEW t \in Threads, Continue(t)
      PROVE  TypeOK'
  BY <1>2, CommitType, WalkType, StoreType DEF Continue
<1>3. CASE Wake
  BY <1>3, StepType DEF Wake, Step, Threads, Labels, Unlocked
<1>4. CASE Environment
  BY <1>4, EnvironmentType
<1>5. CASE UNCHANGED vars
  BY <1>5 DEF vars, shared, world, locals, TypeOK
<1> QED
  BY <1>1, <1>2, <1>3, <1>4, <1>5 DEF Next

\* Every variable keeps its type, and a call only ever returns to one of the
\* places a caller waits at (Returns, Resumes).
THEOREM TypeCorrect == Spec => []TypeOK
<1>1. Init => TypeOK
  BY SnapshotTypes, ConstantsTyped
     DEF Init, TypeOK, Stamps, Pointer, Labels, Unlocked, Returns, Resumes
<1> QED
  BY <1>1, NextType, PTL DEF Spec

(***************************************************************************)
(* Who is who.  The properties speak of what unlocked readers see; they are*)
(* inductive only together with what the lock holder is about to store,    *)
(* with the copies the threads took, and with what a thread between its    *)
(* test and its critical section still knows.                              *)
(***************************************************************************)

\* Every discovery path sets the player's health entry no later than the rest.
Anchored == \A f \in Fields : nextPlayer[f] # Null => nextPlayer[f] = nextPlayer["health"]

\* What a reader sees of the player is what will be there after the unlock.
Stored == \A f \in Fields : player[f] # Null => player[f] = nextPlayer[f]

\* A snapshot that exists only once the player is known, and leads elsewhere.
Apart(s) == \A f \in Fields :
    s[f] # Null => nextPlayer["id"] # Null /\ s[f] # nextPlayer["id"]

\* A thread on its way to install a mount knew the player when it set out, and
\* has compared its candidate with the player before it asks for the mutex.
Informed(t) ==
    /\ pc[t] \in {"mountCheck", "mountCommit"} => player["id"] # Null
    /\ pc[t] = "mountCommit" => cand[t] \notin {Null, player["id"]}

IInv ==
    /\ TypeOK
    /\ Anchored /\ Stored
    /\ Apart(mount) /\ Apart(nextMount)
    /\ \A t \in Threads : Apart(snap[t]) /\ Informed(t)

LEMMA FieldNames ==
    {"id", "root", "health", "stamina", "spirit", "damage"} \subseteq Fields
BY DEF Fields

\* A step of one thread's locals keeps IInv if the copy it takes is apart from
\* the player and a candidate it carries to the mutex has been compared.
LEMMA LocalIInv ==
    ASSUME IInv, TypeOK', UNCHANGED <<player, mount, nextPlayer, nextMount>>,
           NEW t \in Threads, NEW l, NEW c, NEW s, NEW r,
           Goto(t, l, c, s, r), Apart(s),
           l \in {"mountCheck", "mountCommit"} => player["id"] # Null,
           l = "mountCommit" => c \notin {Null, player["id"]}
    PROVE  IInv'
<1>1. UNCHANGED <<player, mount, nextPlayer, nextMount>>
  OBVIOUS
<1>2. /\ Anchored' /\ Stored' /\ Apart(mount)' /\ Apart(nextMount)'
      /\ \A u \in Threads : Apart(snap[u])
  BY <1>1 DEF IInv, Anchored, Stored, Apart
<1>3. ASSUME NEW u \in Threads PROVE Apart(snap[u])'
  <2>1. snap'[u] \in {Empty, s, snap[u]}
    BY DEF Goto, IInv, TypeOK
  <2>2. Apart(Empty)
    BY DEF Apart, Empty
  <2> QED BY <1>1, <1>2, <2>1, <2>2 DEF Apart
<1>4. ASSUME NEW u \in Threads PROVE Informed(u)'
  <2>1. CASE u = t
    BY <1>1, <2>1 DEF Goto, IInv, TypeOK, Informed
  <2>2. CASE u # t
    BY <1>1, <2>2 DEF Goto, IInv, TypeOK, Informed
  <2> QED BY <2>1, <2>2
<1> QED
  BY <1>2, <1>3, <1>4 DEF IInv

\* A critical section keeps IInv if it leaves what is known of the player, adds
\* only what belongs to the same object, and installs a mount that is apart.
LEMMA LockedIInv ==
    ASSUME IInv, TypeOK',
           NEW t \in Threads, NEW l, NEW p, NEW m, NEW seen,
           Locked(t, l, p, m, seen), UNCHANGED cand,
           \A f \in Fields : nextPlayer[f] # Null => p[f] = nextPlayer[f],
           \A f \in Fields : p[f] # Null => p[f] = p["health"],
           Apart(m),
           \A u \in Threads : Apart(snap'[u])
    PROVE  IInv'
<1>1. nextPlayer' = p /\ nextMount' = m /\ UNCHANGED <<player, mount>>
  BY DEF Locked
<1>2. Anchored' /\ Stored'
  BY <1>1 DEF IInv, Anchored, Stored
<1>3. ASSUME NEW s, Apart(s)
      PROVE  \A f \in Fields : s[f] # Null => p["id"] # Null /\ s[f] # p["id"]
  BY <1>3, FieldNames DEF Apart
<1>4. Apart(mount)' /\ Apart(nextMount)' /\ \A u \in Threads : Apart(snap[u])'
  BY <1>1, <1>3 DEF IInv, Apart
<1>5. ASSUME NEW u \in Threads PROVE Informed(u)'
  <2>1. CASE u = t
    BY <1>1, <2>1 DEF Locked, IInv, TypeOK, Informed
  <2>2. CASE u # t
    BY <1>1, <2>2 DEF Locked, IInv, TypeOK, Informed
  <2> QED BY <2>1, <2>2
<1> QED
  BY <1>2, <1>4, <1>5 DEF IInv

\* The same for a section that does not touch the player.
LEMMA MountIInv ==
    ASSUME IInv, TypeOK', NEW t \in Threads, NEW l, NEW m, NEW seen,
           Locked(t, l, nextPlayer, m, seen), UNCHANGED cand, Apart(m),
           \A u \in Threads : Apart(snap'[u])
    PROVE  IInv'
BY LockedIInv DEF IInv, Anchored

\* ... and for one that changes nothing.
LEMMA NoChangeIInv ==
    ASSUME IInv, TypeOK', NEW t \in Threads, NEW l, LockedNoChange(t, l), KeepLocals
    PROVE  IInv'
<1>1. \A u \in Threads : Apart(snap'[u])
  BY DEF KeepLocals, IInv
<1> QED
  BY <1>1, MountIInv DEF LockedNoChange, KeepLocals, IInv

\* What a discovery path stores: the pointers already known, completed with
\* pointers into the object that owns the health entry.
Completes(p, o) ==
    /\ p["health"] = o
    /\ nextPlayer["health"] \in {Null, o}
    /\ \A f \in Fields :
          \/ p[f] = nextPlayer[f]
          \/ nextPlayer[f] = Null /\ p[f] \in {Null, o}

LEMMA PlayerIInv ==
    ASSUME IInv, TypeOK', NEW t \in Threads, NEW l, NEW p, NEW m, NEW seen,
           Locked(t, l, p, m, seen), KeepLocals,
           NEW o, Completes(p, o), m \in {nextMount, Empty}
    PROVE  IInv'
<1>1. \A f \in Fields : nextPlayer[f] # Null => p[f] = nextPlayer[f]
  BY DEF Completes
<1>2. \A f \in Fields : p[f] # Null => p[f] = p["health"]
  BY DEF Completes, IInv, Anchored
<1>3. Apart(m)
  BY DEF IInv, Apart, Empty
<1>4. \A u \in Threads : Apart(snap'[u])
  BY DEF KeepLocals, IInv
<1> QED
  BY <1>1, <1>2, <1>3, <1>4, LockedIInv DEF KeepLocals

\* A resolve, a merge and the single entries complete the snapshot.
LEMMA Completion ==
    ASSUME IInv, NEW o \in Pointer
    PROVE  /\ nextPlayer["health"] = Null => Completes(Resolve(o), o)
           /\ nextPlayer["health"] = o => Completes(Merge(nextPlayer, o), o)
           /\ nextPlayer["health"] = o => \A f \in Fields :
                  Completes([nextPlayer EXCEPT ![f] = o], o)
           /\ nextPlayer["health"] = Null => \A st, sp \in {Null, o} :
                  Completes([nextPlayer EXCEPT !["health"] = o, !["stamina"] = st,
                                               !["spirit"] = sp], o)
<1>1. nextPlayer \in Snapshot /\ "health" \in Fields
  BY FieldNames DEF IInv, TypeOK
<1>2. ASSUME nextPlayer["health"] = Null
      PROVE  \A f \in Fields : nextPlayer[f] = Null
  BY <1>2 DEF IInv, Anchored
<1>3. ASSUME nextPlayer["health"] = o
      PROVE  \A f \in Fields : nextPlayer[f] \in {Null, o}
  BY <1>3 DEF IInv, Anchored
<1>4. nextPlayer["health"] = Null => Completes(Resolve(o), o)
  BY <1>1, <1>2 DEF Completes, Resolve
<1>5. nextPlayer["health"] = o => Completes(Merge(nextPlayer, o), o)
  BY <1>1, <1>3 DEF Completes, Merge, Resolve
<1>6. ASSUME nextPlayer["health"] = o, NEW f \in Fields
      PROVE  Completes([nextPlayer EXCEPT ![f] = o], o)
  BY <1>1, <1>3, <1>6 DEF Completes, Snapshot
<1>7. ASSUME nextPlayer["health"] = Null, NEW st \in {Null, o}, NEW sp \in {Null, o}
      PROVE  Completes([nextPlayer EXCEPT !["health"] = o, !["stamina"] = st,
                                          !["spirit"] = sp], o)
  BY <1>1, <1>2, <1>7 DEF Completes, Snapshot
<1> QED
  BY <1>4, <1>5, <1>6, <1>7

\* The calls of the game, and the steps between the critical sections.
LEMMA CallIInv ==
    ASSUME IInv, NEW t \in GameThreads, NEW o \in Obj, Call(t, o)
    PROVE  IInv'
<1>1. TypeOK' /\ t \in Threads
  BY CallType DEF IInv, Threads
<1>2. Apart(Empty)
  BY DEF Apart, Empty
<1>3. ASSUME NEW l, NEW r, Goto(t, l, o, Empty, r), UNCHANGED <<shared, world, after>>,
             l \in {"mountCheck", "mountCommit"} => l = "mountCheck" /\ player["id"] # Null
      PROVE  IInv'
  BY <1>1, <1>2, <1>3, LocalIInv DEF shared
<1>4. Valid(player) => player["id"] # Null
  BY DEF Valid
<1>5. CASE PlayerPointer(t, o)
  BY <1>3, <1>5 DEF PlayerPointer
<1>6. CASE \E stat \in {"health", "stamina", "spirit"} : Stats(t, o, stat)
  BY <1>3, <1>6 DEF Stats
<1>7. CASE HealthWrite(t, o)
  BY <1>3, <1>7 DEF HealthWrite
<1>8. CASE Ab00(t, o)
  BY <1>3, <1>8 DEF Ab00
<1>9. CASE SpiritDelta(t, o)
  BY <1>3, <1>9 DEF SpiritDelta
<1>10. CASE Damage(t, o)
  BY <1>3, <1>4, <1>10 DEF Damage
<1> QED
  BY <1>5, <1>6, <1>7, <1>8, <1>9, <1>10 DEF Call

LEMMA WalkIInv ==
    ASSUME IInv, NEW t \in Threads,
           \/ Ab00Mount(t) \/ Ab00Adjust(t) \/ DamageRelock(t)
           \/ MountCheck(t) \/ Relock(t) \/ Reresolve(t) \/ KeepAlive(t)
           \/ RelockWrite(t) \/ Refresh(t) \/ RefreshRecheck(t) \/ LoopRelock(t)
    PROVE  IInv'
<1>1. TypeOK'
  BY WalkType DEF IInv
<1>2. /\ Apart(Empty) /\ Apart(mount) /\ Apart(snap[t])
      /\ ret[t] \notin {"mountCheck", "mountCommit"}
      /\ RefreshRet(t) \notin {"mountCheck", "mountCommit"}
  BY DEF IInv, TypeOK, Returns, Apart, Empty, RefreshRet
<1>3. ASSUME NEW l, NEW c, NEW s, NEW r, Goto(t, l, c, s, r),
             UNCHANGED <<shared, world, after>>, Apart(s),
             l \in {"mountCheck", "mountCommit"} => player["id"] # Null,
             l = "mountCommit" => c \notin {Null, player["id"]}
      PROVE  IInv'
  BY <1>1, <1>3, LocalIInv DEF shared
<1>4. ASSUME NEW l, Jump(t, l), UNCHANGED <<shared, world, after>>,
             l \notin {"mountCheck", "mountCommit"}
      PROVE  IInv'
  BY <1>2, <1>3, <1>4 DEF Jump
<1>5. Valid(player) => player["id"] # Null
  BY DEF Valid
<1>6. CASE Ab00Mount(t)
  BY <1>2, <1>3, <1>4, <1>5, <1>6 DEF Ab00Mount, MountContext
<1>7. CASE Ab00Adjust(t)
  BY <1>2, <1>3, <1>4, <1>7 DEF Ab00Adjust
<1>8. CASE DamageRelock(t)
  BY <1>2, <1>3, <1>4, <1>8 DEF DamageRelock
<1>9. CASE MountCheck(t)
  <2>1. player["id"] # Null
    BY <1>9 DEF MountCheck, IInv, Informed
  <2>2. CASE Step(t, "mountCommit") /\ ContextRoot(cand[t])
    <3>1. cand[t] # Null
      BY <2>2 DEF ContextRoot, Resolves, IInv, TypeOK
    <3> QED BY <1>2, <1>3, <2>1, <2>2, <3>1 DEF Step, Jump, ContextRoot, NotPlayer
  <2>3. CASE \E l \in {ret[t], "mountTouch"} : Step(t, l)
    BY <1>2, <1>4, <2>3 DEF Step
  <2> QED BY <1>9, <2>2, <2>3 DEF MountCheck
<1>10. CASE Relock(t)
  <2>1. ASSUME NEW l \in {"reresolve", "resetCommit"}, Goto(t, l, cand[t], mount, ret[t]),
               UNCHANGED <<shared, world, after>>
        PROVE  IInv'
    BY <1>2, <1>3, <2>1
  <2> QED BY <1>2, <1>4, <1>10, <2>1 DEF Relock
<1>11. CASE Reresolve(t)
  BY <1>4, <1>11 DEF Reresolve, Step
<1>12. CASE KeepAlive(t)
  BY <1>4, <1>12 DEF KeepAlive, Step
<1>13. CASE RelockWrite(t)
  BY <1>2, <1>4, <1>13 DEF RelockWrite, Step
<1>14. CASE Refresh(t)
  BY <1>2, <1>3, <1>4, <1>5, <1>14 DEF Refresh
<1>15. CASE RefreshRecheck(t)
  BY <1>2, <1>4, <1>15 DEF RefreshRecheck, Step
<1>16. CASE LoopRelock(t)
  BY <1>2, <1>3, <1>16 DEF LoopRelock
<1> QED
  BY <1>6, <1>7, <1>8, <1>9, <1>10, <1>11, <1>12, <1>13, <1>14, <1>15, <1>16

\* The critical sections that may adopt or complete the player.
LEMMA PlayerCommitIInv ==
    ASSUME IInv, NEW t \in Threads,
           \/ PlayerCommit(t) \/ BootstrapCommit(t) \/ AssignCommit(t)
           \/ HealthCommit(t) \/ StaminaCommit(t) \/ SpiritCommit(t)
    PROVE  IInv'
<1> DEFINE o == cand[t]
<1>1. TypeOK' /\ o \in Pointer
  BY CommitType DEF IInv, TypeOK
<1>2. ASSUME NEW l, LockedNoChange(t, l), KeepLocals
      PROVE  IInv'
  BY <1>1, <1>2, NoChangeIInv
<1>3. ASSUME NEW l, NEW p, NEW m \in {nextMount, Empty}, NEW seen,
             Locked(t, l, p, m, seen), KeepLocals, Completes(p, o)
      PROVE  IInv'
  BY <1>1, <1>3, PlayerIInv
<1>4. \A sp \in SpiritNear(o) : sp \in {Null, o}
  BY DEF SpiritNear
<1>5. CASE PlayerCommit(t)
  BY <1>1, <1>2, <1>3, <1>5, Completion DEF PlayerCommit
<1>6. CASE BootstrapCommit(t)
  BY <1>1, <1>2, <1>3, <1>6, Completion DEF BootstrapCommit
<1>7. CASE AssignCommit(t)
  <2>1. ASSUME nextPlayer["id"] = o, Valid(nextPlayer)
        PROVE  nextPlayer["health"] = o
    BY <2>1, FieldNames DEF Valid, IInv, Anchored
  <2>2. ASSUME nextPlayer["id"] = o, Valid(nextPlayer),
               NEW stat \in {"stamina"} \cup (IF o \in HasSpirit THEN {"spirit"} ELSE {}),
               Locked(t, "idle", [nextPlayer EXCEPT ![stat] = o], nextMount, "keep"),
               KeepLocals
        PROVE  IInv'
    <3>1. stat \in Fields
      BY DEF Fields
    <3>2. Completes([nextPlayer EXCEPT ![stat] = o], o)
      BY <1>1, <2>1, <2>2, <3>1, Completion
    <3> QED BY <1>3, <2>2, <3>2
  <2> QED BY <1>2, <1>7, <2>2 DEF AssignCommit
<1>8. CASE HealthCommit(t)
  BY <1>1, <1>2, <1>3, <1>4, <1>8, Completion DEF HealthCommit
<1>9. CASE StaminaCommit(t)
  BY <1>1, <1>2, <1>3, <1>4, <1>9, Completion, FieldNames DEF StaminaCommit
<1>10. CASE SpiritCommit(t)
  BY <1>1, <1>2, <1>3, <1>10, Completion, FieldNames DEF SpiritCommit
<1> QED
  BY <1>5, <1>6, <1>7, <1>8, <1>9, <1>10

\* The critical sections that install, refresh or drop the mount.
LEMMA MountCommitIInv ==
    ASSUME IInv, NEW t \in Threads,
           \/ MountCommit(t) \/ RefreshCommit(t) \/ KeepAliveCommit(t)
           \/ ResetCommit(t) \/ RefreshDrop(t)
    PROVE  IInv'
<1>1. TypeOK'
  BY CommitType, StoreType DEF IInv
<1>2. Apart(Empty) /\ Apart(nextMount) /\ \A u \in Threads : Apart(snap[u])
  BY DEF IInv, Apart, Empty
<1>3. ASSUME NEW l, LockedNoChange(t, l), KeepLocals
      PROVE  IInv'
  BY <1>1, <1>3, NoChangeIInv
<1>4. ASSUME NEW l, NEW m, NEW seen, Locked(t, l, nextPlayer, m, seen),
             KeepLocals, Apart(m)
      PROVE  IInv'
  BY <1>1, <1>2, <1>4, MountIInv DEF KeepLocals
<1>5. CASE MountCommit(t)
  <2>1. nextPlayer["id"] # Null /\ cand[t] # nextPlayer["id"]
    BY <1>5, FieldNames DEF MountCommit, IInv, Informed, Stored
  <2>2. Apart(Resolve(cand[t]))
    BY <2>1 DEF Apart, Resolve
  <2> QED BY <1>2, <1>4, <1>5, <2>2 DEF MountCommit
<1>6. CASE RefreshCommit(t)
  <2> DEFINE latest == Resolve(snap[t]["id"])
  <2>1. Apart(latest)
    <3>1. snap[t]["id"] # Null => nextPlayer["id"] # Null /\ snap[t]["id"] # nextPlayer["id"]
      BY <1>2, FieldNames DEF Apart
    <3> QED BY <3>1 DEF Apart, Resolve
  <2>2. CASE /\ Locked(t, "relockWrite", nextPlayer, latest, "fresh")
             /\ snap' = [snap EXCEPT ![t] = latest]
             /\ UNCHANGED <<cand, ret>>
    <3>1. ASSUME NEW u \in Threads PROVE snap'[u] \in {latest, snap[u]}
      BY <2>2 DEF IInv, TypeOK
    <3>2. \A u \in Threads : Apart(snap'[u])
      BY <1>2, <2>1, <3>1
    <3> QED BY <1>1, <2>1, <2>2, <3>2, MountIInv
  <2> QED BY <1>3, <1>6, <2>2 DEF RefreshCommit
<1>7. CASE KeepAliveCommit(t)
  BY <1>2, <1>3, <1>4, <1>7 DEF KeepAliveCommit
<1>8. CASE ResetCommit(t)
  BY <1>2, <1>3, <1>4, <1>8 DEF ResetCommit
<1>9. CASE RefreshDrop(t)
  BY <1>2, <1>3, <1>4, <1>9 DEF RefreshDrop
<1> QED
  BY <1>5, <1>6, <1>7, <1>8, <1>9

\* The stores of the lock holder, its unlock, a fault, and the unlocked stamp.
LEMMA StoreIInv ==
    ASSUME IInv, NEW t \in Threads,
           \/ StoreMount(t) \/ StorePlayer(t) \/ Unlock(t) \/ MountTouch(t)
           \/ AssignFault(t)
    PROVE  IInv'
<1>1. TypeOK'
  BY StoreType DEF IInv
<1>2. CASE StoreMount(t)
  <2>1. UNCHANGED <<player, nextPlayer, nextMount, pc, cand, snap>>
    BY <1>2 DEF StoreMount, locals
  <2>2. \A f \in Fields : mount'[f] \in {mount[f], nextMount[f]}
    BY <1>2 DEF StoreMount, Overlay
  <2>3. Apart(mount)'
    BY <2>1, <2>2 DEF IInv, Apart
  <2> QED BY <1>1, <2>1, <2>3 DEF IInv, Anchored, Stored, Apart, Informed
<1>3. CASE StorePlayer(t)
  <2>1. UNCHANGED <<mount, nextPlayer, nextMount, pc, cand, snap>>
    BY <1>3 DEF StorePlayer, locals
  <2>2. \A f \in Fields : player'[f] \in {player[f], nextPlayer[f]}
    BY <1>3 DEF StorePlayer, Overlay
  <2>3. Stored'
    BY <2>1, <2>2 DEF IInv, Stored
  <2>4. player["id"] # Null => player'["id"] = player["id"]
    BY <2>2, FieldNames DEF IInv, Stored
  <2>5. \A u \in Threads : Informed(u)'
    BY <2>1, <2>4 DEF IInv, Informed
  <2> QED BY <1>1, <2>1, <2>3, <2>5 DEF IInv, Anchored, Apart
<1>4. ASSUME NEW l, Jump(t, l), l \notin {"mountCheck", "mountCommit"},
             UNCHANGED <<player, mount, nextPlayer, nextMount>>
      PROVE  IInv'
  <2>1. Apart(snap[t])
    BY DEF IInv
  <2> QED BY <1>1, <1>4, <2>1, LocalIInv DEF Jump
<1>5. CASE Unlock(t)
  <2>1. after[t] \notin {"mountCheck", "mountCommit"}
    BY DEF IInv, TypeOK, Resumes, Returns
  <2> QED BY <1>4, <1>5, <2>1 DEF Unlock
<1>6. CASE MountTouch(t) \/ AssignFault(t)
  BY <1>4, <1>6 DEF MountTouch, AssignFault
<1> QED
  BY <1>2, <1>3, <1>5, <1>6

\* The game and the user never touch what IInv speaks of.
LEMMA StutterIInv ==
    ASSUME IInv, Environment \/ UNCHANGED vars
    PROVE  IInv'
<1>1. TypeOK'
  BY NextType DEF IInv, Next
<1>2. UNCHANGED <<player, mount, nextPlayer, nextMount, pc, cand, snap>>
  BY DEF Environment, AgeStamp, World, Chain, Reload, Disable, vars, shared, locals
<1> QED
  BY <1>1, <1>2 DEF IInv, Anchored, Stored, Apart, Informed

LEMMA NextIInv == IInv /\ [Next]_vars => IInv'
<1> SUFFICES ASSUME IInv, [Next]_vars PROVE IInv'
  OBVIOUS
<1>1. ASSUME NEW t \in GameThreads, NEW o \in Obj, Call(t, o)
      PROVE  IInv'
  BY <1>1, CallIInv
<1>2. ASSUME NEW t \in Threads, Continue(t)
      PROVE  IInv'
  BY <1>2, WalkIInv, PlayerCommitIInv, MountCommitIInv, StoreIInv DEF Continue
<1>3. CASE Wake
  <2>1. TypeOK' /\ Resolver \in Threads /\ Apart(snap[Resolver])
    BY NextType DEF IInv, Next, Threads
  <2> QED BY <1>3, <2>1, LocalIInv DEF Wake, Step, Jump, shared
<1>4. CASE Environment \/ UNCHANGED vars
  BY <1>4, StutterIInv
<1> QED
  BY <1>1, <1>2, <1>3, <1>4 DEF Next

\* The inductive invariant behind the safety properties: every pointer known of
\* the player belongs to the owner of its health entry, every reader's view lags
\* behind one final value, and every mount pointer, stored or copied, was taken
\* after the player was known and compared with it.
THEOREM Inductive == Spec => []IInv
<1>1. Init => IInv
  <2> SUFFICES ASSUME Init PROVE IInv
    OBVIOUS
  <2>1. TypeOK
    BY SnapshotTypes, ConstantsTyped
       DEF Init, TypeOK, Stamps, Pointer, Labels, Unlocked, Returns, Resumes
  <2>2. /\ Anchored /\ Stored /\ Apart(mount) /\ Apart(nextMount)
        /\ \A t \in Threads : Apart(snap[t])
    BY DEF Init, Anchored, Stored, Apart, Empty
  <2>3. \A t \in Threads : Informed(t)
    BY DEF Init, Informed
  <2> QED BY <2>1, <2>2, <2>3 DEF IInv
<1> QED
  BY <1>1, NextIInv, PTL DEF Spec

\* Six discovery paths fill the player in, three of them without resolving an
\* actor: whatever their order and however their stores become visible, no
\* reader ever sees the entries of two objects mixed.
THEOREM OneOwner == Spec => []PlayerOneOwner
<1>1. IInv => PlayerOneOwner
  BY FieldNames DEF IInv, Anchored, Stored, PlayerOneOwner
<1> QED
  BY <1>1, Inductive, PTL

\* The player is compared before the lock is taken and may be completed before
\* it is granted: the mount snapshot still never leads into the player.
THEOREM NeverPlayer == Spec => []MountNeverPlayer
<1>1. IInv => MountNeverPlayer
  BY FieldNames DEF IInv, Anchored, Stored, Apart, MountNeverPlayer
<1> QED
  BY <1>1, Inductive, PTL

\* The relock raises stats through a copy of the mount snapshot that it took
\* without the lock: it never raises the player's.
THEOREM SparesPlayer == Spec => []RelockSparesPlayer
<1>1. IInv => RelockSparesPlayer
  BY FieldNames DEF IInv, Anchored, Stored, Apart, RelockSparesPlayer
<1> QED
  BY <1>1, Inductive, PTL

\* Only the stores of a lock holder change the player, and they keep to what is
\* already visible: a pointer once known is never replaced or lost.
THEOREM Sticky == Spec => PlayerSticky
<1>1. IInv /\ [Next]_vars => [\A f \in Fields : player[f] # Null => player'[f] = player[f]]_vars
  <2> SUFFICES ASSUME IInv, Next
               PROVE  \A f \in Fields : player[f] # Null => player'[f] = player[f]
    BY DEF vars
  <2>1. ASSUME NEW t \in Threads, StorePlayer(t)
        PROVE  \A f \in Fields : player'[f] \in {player[f], nextPlayer[f]}
    BY <2>1 DEF StorePlayer, Overlay
  <2>2. CASE player' = player
    BY <2>2
  <2>3. ASSUME NEW t \in GameThreads, NEW o \in Obj, Call(t, o)
        PROVE  player' = player
    BY <2>3 DEF Call, PlayerPointer, Stats, HealthWrite, Ab00, SpiritDelta, Damage, shared
  <2>4. ASSUME NEW t \in Threads, Continue(t), ~StorePlayer(t)
        PROVE  player' = player
    BY <2>4 DEF Continue, StoreMount, Unlock, PlayerCommit, BootstrapCommit, AssignCommit,
       AssignFault, HealthCommit, StaminaCommit, SpiritCommit, Ab00Mount, Ab00Adjust, DamageRelock,
       MountCheck, MountTouch, MountCommit, Relock, Reresolve, RefreshCommit, KeepAlive,
       KeepAliveCommit, ResetCommit, RelockWrite, Refresh, RefreshRecheck, RefreshDrop,
       LoopRelock, Step, Locked, LockedNoChange, shared
  <2>5. CASE Wake \/ Environment
    BY <2>5 DEF Wake, Step, Environment, AgeStamp, World, Chain, Reload, Disable, shared
  <2> QED
    BY <2>1, <2>2, <2>3, <2>4, <2>5 DEF Next, IInv, Stored
<1> QED
  BY <1>1, Inductive, PTL DEF Spec, PlayerSticky

(***************************************************************************)
(* Tracking implements TrackedIdentity.                                    *)
(***************************************************************************)
Detected == [t \in Threads |-> IF pc[t] = "mountCommit" THEN cand[t] ELSE Null]

\* A step that moves no identity and leads no thread to or from the mutex with a
\* mount it detected is a stutter of the abstract specification.
LEMMA Stutters ==
    ASSUME nextPlayer'["id"] = nextPlayer["id"], nextMount'["id"] = nextMount["id"],
           Detected' = Detected
    PROVE  UNCHANGED Identity!vars
BY DEF Identity!vars, Detected

\* Nothing is detected or installed by a thread that is elsewhere.
LEMMA SameDetected ==
    ASSUME TypeOK, NEW t \in Threads, NEW l, NEW c,
           pc' = [pc EXCEPT ![t] = l], cand' = [cand EXCEPT ![t] = c],
           pc[t] # "mountCommit", l # "mountCommit"
    PROVE  Detected' = Detected
<1>1. ASSUME NEW u \in Threads
      PROVE  (IF pc'[u] = "mountCommit" THEN cand'[u] ELSE Null)
             = (IF pc[u] = "mountCommit" THEN cand[u] ELSE Null)
  BY DEF TypeOK
<1> QED
  BY <1>1 DEF Detected

LEMMA CallMaps ==
    ASSUME IInv, NEW t \in GameThreads, NEW o \in Obj, Call(t, o)
    PROVE  UNCHANGED Identity!vars
<1>1. \E l \in Labels \ {"mountCommit"}, r \in Returns : Goto(t, l, o, Empty, r)
  BY DEF Call, PlayerPointer, Stats, HealthWrite, Ab00, SpiritDelta, Damage,
     Labels, Locks, Unlocked, Returns
<1>2. UNCHANGED shared /\ pc[t] # "mountCommit"
  BY DEF Call, PlayerPointer, Stats, HealthWrite, Ab00, SpiritDelta, Damage
<1>3. Detected' = Detected
  BY <1>1, <1>2, SameDetected DEF Goto, IInv, Threads
<1> QED
  BY <1>2, <1>3, Stutters DEF shared

\* Only MountCheck leads to the mutex with a mount: that is its detection.
LEMMA WalkMaps ==
    ASSUME IInv, NEW t \in Threads,
           \/ Ab00Mount(t) \/ Ab00Adjust(t) \/ DamageRelock(t)
           \/ MountCheck(t) \/ Relock(t) \/ Reresolve(t) \/ KeepAlive(t)
           \/ RelockWrite(t) \/ Refresh(t) \/ RefreshRecheck(t) \/ LoopRelock(t)
           \/ Unlock(t) \/ MountTouch(t) \/ AssignFault(t)
    PROVE  [Identity!Next]_Identity!vars
<1>1. /\ ret[t] # "mountCommit" /\ RefreshRet(t) # "mountCommit"
      /\ after[t] # "mountCommit" /\ TypeOK
  BY DEF IInv, TypeOK, Returns, Resumes, RefreshRet
<1>2. ASSUME NEW l, NEW c, NEW s, NEW r, Goto(t, l, c, s, r),
             l # "mountCommit", pc[t] # "mountCommit",
             UNCHANGED <<nextPlayer, nextMount>>
      PROVE  UNCHANGED Identity!vars
  <2>1. Detected' = Detected
    BY <1>1, <1>2, SameDetected DEF Goto
  <2> QED BY <1>2, <2>1, Stutters
<1>3. CASE MountCheck(t) /\ Step(t, "mountCommit")
  <2> DEFINE o == cand[t]
  <2>1. NotPlayer(o) /\ o \in Obj
    BY <1>1, <1>3 DEF MountCheck, Step, Jump, Goto, ContextRoot, Resolves, TypeOK
  <2>2. nextPlayer["id"] \notin {Null, o}
    BY <1>3, <2>1, FieldNames DEF MountCheck, NotPlayer, IInv, Informed, Stored
  <2>3. Detected' = [Detected EXCEPT ![t] = o] /\ Detected[t] = Null
    <3>1. pc[t] = "mountCheck" /\ pc' = [pc EXCEPT ![t] = "mountCommit"]
      BY <1>3 DEF MountCheck, Step, Jump, Goto
    <3>2. cand' = cand
      BY <1>1, <1>3 DEF Step, Jump, Goto, TypeOK
    <3> QED BY <1>1, <3>1, <3>2 DEF Detected, TypeOK
  <2>4. UNCHANGED <<nextPlayer, nextMount>>
    BY <1>3 DEF Step, shared
  <2>5. PICK q \in Obj : q = o
    BY <2>1
  <2>6. Identity!Detect(t, q)
    BY <2>2, <2>3, <2>4, <2>5 DEF Identity!Detect, Detected
  <2> QED BY <2>6 DEF Identity!Next
<1>4. CASE MountCheck(t) /\ ~Step(t, "mountCommit")
  <2>1. PICK l \in {ret[t], "mountTouch"} : Step(t, l)
    BY <1>4 DEF MountCheck
  <2>2. pc[t] # "mountCommit"
    BY <1>4 DEF MountCheck
  <2>3. UNCHANGED <<nextPlayer, nextMount>> /\ Goto(t, l, cand[t], snap[t], ret[t])
    BY <2>1 DEF Step, Jump, shared
  <2> QED BY <1>1, <1>2, <2>2, <2>3
<1>5. CASE Ab00Mount(t) \/ Ab00Adjust(t) \/ DamageRelock(t)
  BY <1>1, <1>2, <1>5 DEF Ab00Mount, Ab00Adjust, DamageRelock, Jump, shared
<1>6. CASE Relock(t) \/ Reresolve(t) \/ KeepAlive(t) \/ RelockWrite(t)
  BY <1>1, <1>2, <1>6 DEF Relock, Reresolve, KeepAlive, RelockWrite, Step, Jump, shared
<1>7. CASE Refresh(t) \/ RefreshRecheck(t) \/ LoopRelock(t)
  BY <1>1, <1>2, <1>7 DEF Refresh, RefreshRecheck, LoopRelock, Step, Jump, shared
<1>8. CASE Unlock(t) \/ MountTouch(t) \/ AssignFault(t)
  BY <1>1, <1>2, <1>8 DEF Unlock, MountTouch, AssignFault, Jump
<1> QED
  BY <1>3, <1>4, <1>5, <1>6, <1>7, <1>8

\* A critical section of another kind than MountCommit detects nothing.
LEMMA LockedDetected ==
    ASSUME IInv, NEW t \in Threads, pc[t] # "mountCommit",
           NEW l, NEW p, NEW m, NEW seen,
           Locked(t, l, p, m, seen), UNCHANGED cand
    PROVE  Detected' = Detected
<1>1. cand' = [cand EXCEPT ![t] = cand[t]]
  BY DEF IInv, TypeOK
<1> QED
  BY <1>1, SameDetected DEF Locked, IInv

\* The player is adopted when its marker becomes known, and only then.
LEMMA PlayerMaps ==
    ASSUME IInv, NEW t \in Threads,
           \/ PlayerCommit(t) \/ BootstrapCommit(t) \/ AssignCommit(t)
           \/ HealthCommit(t) \/ StaminaCommit(t) \/ SpiritCommit(t)
    PROVE  [Identity!Next]_Identity!vars
<1> DEFINE o == cand[t]
<1>1. pc[t] # "mountCommit" /\ UNCHANGED cand /\ o \in Pointer
  BY DEF PlayerCommit, BootstrapCommit, AssignCommit, HealthCommit, StaminaCommit,
     SpiritCommit, KeepLocals, IInv, TypeOK
<1>2. ASSUME NEW l, NEW p, NEW m, NEW seen, Locked(t, l, p, m, seen),
             p["id"] = nextPlayer["id"], m = nextMount
      PROVE  UNCHANGED Identity!vars
  <2>1. Detected' = Detected
    BY <1>1, <1>2, LockedDetected
  <2> QED BY <1>2, <2>1, Stutters DEF Locked
<1>3. ASSUME NEW l, NEW p, NEW m \in {nextMount, Empty}, NEW seen,
             Locked(t, l, p, m, seen), nextPlayer["id"] = Null, p["id"] \in {Null, o}
      PROVE  [Identity!Next]_Identity!vars
  <2>1. Detected' = Detected
    BY <1>1, <1>3, LockedDetected
  <2>2. nextMount["id"] = Null /\ m["id"] = Null
    BY <1>3, FieldNames DEF IInv, Apart, Empty
  <2>3. CASE p["id"] = Null
    BY <1>3, <2>1, <2>2, <2>3, Stutters DEF Locked
  <2>4. CASE p["id"] # Null
    <3>1. o \in Obj /\ Identity!Adopt(o)
      BY <1>1, <1>3, <2>1, <2>2, <2>4 DEF Identity!Adopt, Locked, Detected, Pointer
    <3> QED BY <3>1 DEF Identity!Next
  <2> QED BY <2>3, <2>4
<1>4. ASSUME NEW l, LockedNoChange(t, l)
      PROVE  UNCHANGED Identity!vars
  BY <1>2, <1>4 DEF LockedNoChange
<1>5. /\ nextPlayer["health"] = Null => nextPlayer["id"] = Null
      /\ Resolve(o)["id"] = o
      /\ nextPlayer["id"] # Null => Merge(nextPlayer, o)["id"] = nextPlayer["id"]
      /\ nextPlayer["id"] = Null => Merge(nextPlayer, o)["id"] = o
      /\ \A f \in Fields \ {"id"} : [nextPlayer EXCEPT ![f] = o]["id"] = nextPlayer["id"]
  BY FieldNames DEF IInv, Anchored, TypeOK, Snapshot, Resolve, Merge
<1>6. \A st, sp : [nextPlayer EXCEPT !["health"] = o, !["stamina"] = st,
                                    !["spirit"] = sp]["id"] = nextPlayer["id"]
  BY FieldNames DEF IInv, TypeOK, Snapshot
<1>7. CASE PlayerCommit(t)
  BY <1>2, <1>3, <1>4, <1>5, <1>7 DEF PlayerCommit
<1>8. CASE BootstrapCommit(t)
  BY <1>2, <1>3, <1>4, <1>5, <1>8 DEF BootstrapCommit
<1>9. CASE AssignCommit(t)
  <2>1. {"stamina"} \cup (IF o \in HasSpirit THEN {"spirit"} ELSE {}) \subseteq Fields \ {"id"}
    BY DEF Fields
  <2> QED BY <1>2, <1>4, <1>5, <1>9, <2>1 DEF AssignCommit
<1>10. CASE HealthCommit(t)
  BY <1>2, <1>4, <1>6, <1>10 DEF HealthCommit
<1>11. CASE StaminaCommit(t) \/ SpiritCommit(t)
  BY <1>2, <1>4, <1>5, <1>6, <1>11, FieldNames DEF StaminaCommit, SpiritCommit
<1> QED
  BY <1>7, <1>8, <1>9, <1>10, <1>11

\* Installing uses up the detection; a refresh and a kept snapshot bring nothing
\* back; a reset forgets.
LEMMA MountMaps ==
    ASSUME IInv, NEW t \in Threads,
           \/ MountCommit(t) \/ RefreshCommit(t) \/ KeepAliveCommit(t)
           \/ ResetCommit(t) \/ RefreshDrop(t)
    PROVE  [Identity!Next]_Identity!vars
<1>1. CASE MountCommit(t)
  <2> DEFINE o == cand[t]
  <2>1. o # Null /\ pc[t] = "mountCommit"
    BY <1>1 DEF MountCommit, IInv, Informed
  <2>2. nextMount'["id"] = o /\ nextPlayer' = nextPlayer
    BY <1>1, FieldNames DEF MountCommit, Locked, Resolve
  <2>3. Detected[t] = o /\ Detected' = [Detected EXCEPT ![t] = Null]
    BY <1>1, <2>1 DEF MountCommit, Locked, KeepLocals, Detected, IInv, TypeOK
  <2>4. Identity!Install(t)
    BY <2>1, <2>2, <2>3 DEF Identity!Install, Detected
  <2> QED BY <2>4 DEF Identity!Next
<1>2. ASSUME NEW l, NEW m, NEW seen, Locked(t, l, nextPlayer, m, seen), UNCHANGED cand,
             pc[t] # "mountCommit", m["id"] \in {nextMount["id"], Null}
      PROVE  [Identity!Next]_Identity!vars
  <2>1. Detected' = Detected /\ nextPlayer' = nextPlayer /\ nextMount' = m
    BY <1>2, LockedDetected DEF Locked
  <2>2. CASE m["id"] = nextMount["id"]
    BY <2>1, <2>2, Stutters
  <2>3. CASE m["id"] = Null /\ nextMount["id"] # Null
    <3>1. Identity!Forget
      BY <2>1, <2>3 DEF Identity!Forget, Detected
    <3> QED BY <3>1 DEF Identity!Next
  <2> QED BY <1>2, <2>2, <2>3
<1>3. Empty["id"] = Null /\ \A o : Resolve(o)["id"] = o
  BY FieldNames DEF Empty, Resolve
<1>4. CASE RefreshCommit(t)
  BY <1>2, <1>3, <1>4 DEF RefreshCommit, LockedNoChange, KeepLocals
<1>5. CASE KeepAliveCommit(t)
  BY <1>2, <1>5 DEF KeepAliveCommit, LockedNoChange, KeepLocals
<1>6. CASE ResetCommit(t)
  BY <1>2, <1>3, <1>6 DEF ResetCommit, LockedNoChange, KeepLocals
<1>7. CASE RefreshDrop(t)
  BY <1>2, <1>3, <1>7 DEF RefreshDrop, LockedNoChange, KeepLocals
<1> QED
  BY <1>1, <1>4, <1>5, <1>6, <1>7

\* Every step of the callbacks, the resolver, the game and the user adopts the
\* player once, detects, installs or forgets a mount, or moves no identity: no
\* refresh, kept snapshot or eviction brings a dropped mount back.
THEOREM Refinement == Spec => ImplementsIdentity
<1>1. Init => Identity!Init
  BY FieldNames DEF Init, Empty, Identity!Init
<1>2. IInv /\ [Next]_vars => [Identity!Next]_Identity!vars
  <2> SUFFICES ASSUME IInv, [Next]_vars PROVE [Identity!Next]_Identity!vars
    OBVIOUS
  <2>1. ASSUME NEW t \in GameThreads, NEW o \in Obj, Call(t, o)
        PROVE  [Identity!Next]_Identity!vars
    BY <2>1, CallMaps
  <2>2. ASSUME NEW t \in Threads, StoreMount(t) \/ StorePlayer(t)
        PROVE  [Identity!Next]_Identity!vars
    BY <2>2, Stutters DEF StoreMount, StorePlayer, locals, Detected
  <2>3. ASSUME NEW t \in Threads, Continue(t)
        PROVE  [Identity!Next]_Identity!vars
    BY <2>2, <2>3, WalkMaps, PlayerMaps, MountMaps DEF Continue
  <2>4. CASE Wake
    <3>1. Goto(Resolver, "refresh", cand[Resolver], snap[Resolver], ret[Resolver])
      BY <2>4 DEF Wake, Step, Jump
    <3>2. Detected' = Detected
      BY <2>4, <3>1, SameDetected DEF Wake, Goto, IInv, Threads
    <3> QED BY <2>4, <3>2, Stutters DEF Wake, Step, shared
  <2>5. CASE Environment \/ UNCHANGED vars
    <3>1. UNCHANGED <<nextPlayer, nextMount, pc, cand>>
      BY <2>5 DEF Environment, AgeStamp, World, Chain, Reload, Disable, vars, shared, locals
    <3> QED BY <3>1, Stutters DEF Detected
  <2> QED
    BY <2>1, <2>3, <2>4, <2>5 DEF Next
<1> QED
  BY <1>1, <1>2, Inductive, PTL DEF Spec, ImplementsIdentity, Identity!Spec

(***************************************************************************)
(* One mount.  The relock works from a copy of the mount's snapshot that   *)
(* was taken without the lock and may be stitched from two mounts; what    *)
(* keeps it from writing through both is that a kept copy must still agree *)
(* with the snapshot in two pointers, and in itself in two more.           *)
(***************************************************************************)

\* A copy is of one object in each half ...
Halves(s) == s["health"] = s["root"] /\ s["spirit"] \in {Null, s["stamina"]}

\* ... and of one altogether where the relock is about to write through it.
OneObject(s) == \A f \in {"root", "health", "stamina", "spirit"} : s[f] \in {Null, s["id"]}

AboutToWrite(t) == pc[t] = "relockWrite" \/ (pc[t] = "unlock" /\ after[t] = "relockWrite")

OneMountInv ==
    /\ Halves(mount) /\ Halves(nextMount) /\ nextMount["root"] = nextMount["id"]
    /\ \A t \in Threads :
          /\ Halves(snap[t])
          /\ pc[t] = "keepAliveCommit" => snap[t]["stamina"] = snap[t]["health"]
          /\ AboutToWrite(t) => OneObject(snap[t])

LEMMA WholeObject ==
    /\ Halves(Empty) /\ Empty["root"] = Empty["id"]
    /\ \A o : Halves(Resolve(o)) /\ Resolve(o)["root"] = Resolve(o)["id"] /\ OneObject(Resolve(o))
BY FieldNames DEF Halves, OneObject, Empty, Resolve

\* A step of one thread's locals.
LEMMA LocalOne ==
    ASSUME TypeOK, OneMountInv, UNCHANGED <<mount, nextMount, after>>,
           NEW t \in Threads, NEW l, NEW c, NEW s, NEW r, Goto(t, l, c, s, r), Halves(s),
           l \notin {"unlock", "relockWrite"},
           l = "keepAliveCommit" => s["stamina"] = s["health"]
    PROVE  OneMountInv'
<1>1. ASSUME NEW u \in Threads
      PROVE  /\ Halves(snap'[u])
             /\ pc'[u] = "keepAliveCommit" => snap'[u]["stamina"] = snap'[u]["health"]
             /\ AboutToWrite(u)' => OneObject(snap'[u])
  <2>1. CASE u = t
    <3>1. pc'[u] = l /\ snap'[u] = IF l = "idle" THEN Empty ELSE s
      BY <2>1 DEF Goto, TypeOK
    <3> QED BY <3>1, WholeObject DEF AboutToWrite
  <2>2. CASE u # t
    <3>1. pc'[u] = pc[u] /\ snap'[u] = snap[u] /\ after'[u] = after[u]
      BY <2>2 DEF Goto, TypeOK
    <3> QED BY <3>1 DEF OneMountInv, AboutToWrite
  <2> QED BY <2>1, <2>2
<1> QED BY <1>1 DEF OneMountInv, Halves, OneObject

LEMMA JumpOne ==
    ASSUME TypeOK, OneMountInv, UNCHANGED <<mount, nextMount, after>>,
           NEW t \in Threads, NEW l, Jump(t, l),
           l \notin {"unlock", "relockWrite", "keepAliveCommit"}
    PROVE  OneMountInv'
BY LocalOne DEF Jump, OneMountInv

\* A critical section.
LEMMA LockedOne ==
    ASSUME TypeOK, OneMountInv,
           NEW t \in Threads, NEW l, NEW p, NEW m, NEW seen, Locked(t, l, p, m, seen),
           Halves(m), m["root"] = m["id"],
           \A u \in Threads : u # t => snap'[u] = snap[u],
           Halves(snap'[t]), l = "relockWrite" => OneObject(snap'[t])
    PROVE  OneMountInv'
<1>1. ASSUME NEW u \in Threads
      PROVE  /\ Halves(snap'[u])
             /\ pc'[u] = "keepAliveCommit" => snap'[u]["stamina"] = snap'[u]["health"]
             /\ AboutToWrite(u)' => OneObject(snap'[u])
  <2>1. CASE u = t
    <3>1. pc'[u] = "unlock" /\ after'[u] = l
      BY <2>1 DEF Locked, TypeOK
    <3> QED BY <2>1, <3>1 DEF AboutToWrite
  <2>2. CASE u # t
    <3>1. pc'[u] = pc[u] /\ snap'[u] = snap[u] /\ after'[u] = after[u]
      BY <2>2 DEF Locked, TypeOK
    <3> QED BY <3>1 DEF OneMountInv, AboutToWrite
  <2> QED BY <2>1, <2>2
<1>2. mount' = mount /\ nextMount' = m
  BY DEF Locked
<1> QED BY <1>1, <1>2 DEF OneMountInv, Halves, OneObject

LEMMA SectionOne ==
    ASSUME TypeOK, OneMountInv, NEW t \in Threads, NEW l, NEW p, NEW m, NEW seen,
           Locked(t, l, p, m, seen), KeepLocals, Halves(m), m["root"] = m["id"],
           l = "relockWrite" => OneObject(snap[t])
    PROVE  OneMountInv'
BY LockedOne DEF KeepLocals, OneMountInv

LEMMA NoChangeOne ==
    ASSUME TypeOK, OneMountInv, NEW t \in Threads, NEW l, LockedNoChange(t, l), KeepLocals,
           l # "relockWrite"
    PROVE  OneMountInv'
BY SectionOne DEF LockedNoChange, OneMountInv

LEMMA CallOne ==
    ASSUME TypeOK, OneMountInv, NEW t \in GameThreads, NEW o \in Obj, Call(t, o)
    PROVE  OneMountInv'
<1>1. PICK l \in {"playerCommit", "bootstrapCommit", "mountCheck", "assignCommit",
                  "healthCommit", "staminaCommit", "ab00Mount", "spiritCommit",
                  "damageRelock"}, r \in Returns : Goto(t, l, o, Empty, r)
  BY DEF Call, PlayerPointer, Stats, HealthWrite, Ab00, SpiritDelta, Damage, Returns
<1>2. UNCHANGED <<mount, nextMount, after>>
  BY DEF Call, PlayerPointer, Stats, HealthWrite, Ab00, SpiritDelta, Damage, shared
<1> QED BY <1>1, <1>2, LocalOne, WholeObject DEF Threads

\* The sections that complete the player leave the mount or drop it.
LEMMA PlayerOne ==
    ASSUME TypeOK, OneMountInv, NEW t \in Threads,
           \/ PlayerCommit(t) \/ BootstrapCommit(t) \/ AssignCommit(t)
           \/ HealthCommit(t) \/ StaminaCommit(t) \/ SpiritCommit(t)
    PROVE  OneMountInv'
<1>1. \A l, p, m, seen : Locked(t, l, p, m, seen) /\ KeepLocals /\ m \in {nextMount, Empty}
                         /\ l # "relockWrite" => OneMountInv'
  <2> SUFFICES ASSUME NEW l, NEW p, NEW m, NEW seen, Locked(t, l, p, m, seen), KeepLocals,
                      m \in {nextMount, Empty}, l # "relockWrite"
               PROVE  OneMountInv'
    OBVIOUS
  <2>1. Halves(m) /\ m["root"] = m["id"]
    BY WholeObject DEF OneMountInv
  <2> QED BY <2>1, SectionOne
<1>2. \A l : LockedNoChange(t, l) /\ KeepLocals /\ l # "relockWrite" => OneMountInv'
  BY NoChangeOne
<1>3. ret[t] # "relockWrite" /\ RefreshRet(t) # "relockWrite"
  BY DEF TypeOK, Returns, RefreshRet
<1>4. CASE PlayerCommit(t)
  BY <1>1, <1>2, <1>4 DEF PlayerCommit
<1>5. CASE BootstrapCommit(t)
  BY <1>1, <1>2, <1>5 DEF BootstrapCommit
<1>6. CASE AssignCommit(t)
  BY <1>1, <1>2, <1>6 DEF AssignCommit
<1>7. CASE HealthCommit(t)
  BY <1>1, <1>2, <1>7 DEF HealthCommit
<1>8. CASE StaminaCommit(t)
  BY <1>1, <1>2, <1>3, <1>8 DEF StaminaCommit
<1>9. CASE SpiritCommit(t)
  BY <1>1, <1>2, <1>9 DEF SpiritCommit
<1> QED BY <1>4, <1>5, <1>6, <1>7, <1>8, <1>9

\* The sections of the mount install what was resolved from one object; a kept copy
\* agrees with the snapshot in its marker and root.
LEMMA MountOne ==
    ASSUME TypeOK, OneMountInv, NEW t \in Threads,
           \/ MountCommit(t) \/ RefreshCommit(t) \/ KeepAliveCommit(t)
           \/ ResetCommit(t) \/ RefreshDrop(t)
    PROVE  OneMountInv'
<1>1. /\ ret[t] # "relockWrite" /\ RefreshRet(t) # "relockWrite"
      /\ Halves(nextMount) /\ nextMount["root"] = nextMount["id"]
  BY DEF TypeOK, Returns, RefreshRet, OneMountInv
<1>2. CASE MountCommit(t)
  <2> DEFINE m == IF nextMount["id"] = cand[t] THEN nextMount ELSE Resolve(cand[t])
  <2>1. Halves(m) /\ m["root"] = m["id"]
    BY <1>1, WholeObject
  <2>2. Locked(t, "relock", nextPlayer, m, "fresh") /\ KeepLocals
    BY <1>2 DEF MountCommit
  <2> HIDE DEF m
  <2> QED BY <2>1, <2>2, SectionOne
<1>3. CASE RefreshCommit(t)
  <2> DEFINE latest == Resolve(snap[t]["id"])
  <2>1. CASE LockedNoChange(t, ret[t]) /\ KeepLocals
    BY <1>1, <2>1, NoChangeOne
  <2>2. CASE /\ Locked(t, "relockWrite", nextPlayer, latest, "fresh")
             /\ snap' = [snap EXCEPT ![t] = latest]
    <3>1. Halves(latest) /\ latest["root"] = latest["id"] /\ OneObject(latest)
      BY WholeObject
    <3>2. snap'[t] = latest /\ \A u \in Threads : u # t => snap'[u] = snap[u]
      BY <2>2 DEF TypeOK
    <3> HIDE DEF latest
    <3> QED BY <2>2, <3>1, <3>2, LockedOne
  <2> QED BY <1>3, <2>1, <2>2 DEF RefreshCommit
<1>4. CASE KeepAliveCommit(t)
  <2>1. CASE LockedNoChange(t, ret[t]) /\ KeepLocals
    BY <1>1, <2>1, NoChangeOne
  <2>2. CASE SameMount(snap[t]) /\ Locked(t, "relockWrite", nextPlayer, nextMount, "fresh")
    <3>1. snap[t]["root"] = snap[t]["id"]
      BY <1>1, <2>2 DEF SameMount
    <3>2. Halves(snap[t]) /\ snap[t]["stamina"] = snap[t]["health"]
      BY <1>4 DEF KeepAliveCommit, OneMountInv
    <3>3. OneObject(snap[t])
      BY <3>1, <3>2 DEF Halves, OneObject
    <3> QED BY <1>1, <1>4, <2>2, <3>3, SectionOne DEF KeepAliveCommit
  <2> QED BY <1>4, <2>1, <2>2 DEF KeepAliveCommit
<1>5. CASE ResetCommit(t)
  BY <1>1, <1>5, SectionOne, NoChangeOne, WholeObject DEF ResetCommit
<1>6. CASE RefreshDrop(t)
  BY <1>1, <1>6, SectionOne, NoChangeOne, WholeObject DEF RefreshDrop
<1> QED BY <1>2, <1>3, <1>4, <1>5, <1>6

\* Between the sections a copy is taken of whatever the snapshot shows by then, and
\* goes on to be kept only if its two halves agree.
LEMMA WalkOne ==
    ASSUME TypeOK, OneMountInv, NEW t \in Threads,
           \/ Ab00Mount(t) \/ Ab00Adjust(t) \/ DamageRelock(t)
           \/ MountCheck(t) \/ MountTouch(t) \/ Relock(t) \/ Reresolve(t) \/ KeepAlive(t)
           \/ RelockWrite(t) \/ Refresh(t) \/ RefreshRecheck(t) \/ LoopRelock(t)
           \/ AssignFault(t)
    PROVE  OneMountInv'
<1>1. /\ ret[t] \in Returns /\ RefreshRet(t) \in Returns
      /\ \A l \in Returns : l \notin {"unlock", "relockWrite", "keepAliveCommit"}
      /\ Halves(snap[t]) /\ Halves(mount) /\ Halves(Empty)
  BY WholeObject DEF TypeOK, Returns, RefreshRet, OneMountInv
<1>2. UNCHANGED <<mount, nextMount, after>>
  BY DEF Ab00Mount, Ab00Adjust, DamageRelock, MountCheck, MountTouch, Relock, Reresolve,
     KeepAlive, RelockWrite, Refresh, RefreshRecheck, LoopRelock, AssignFault, Step, shared
<1>3. \A l, c, s, r : Goto(t, l, c, s, r) /\ Halves(s)
                      /\ l \notin {"unlock", "relockWrite", "keepAliveCommit"} => OneMountInv'
  BY <1>2, LocalOne
<1>4. \A l : Jump(t, l) /\ l \notin {"unlock", "relockWrite", "keepAliveCommit"} => OneMountInv'
  BY <1>2, JumpOne
<1>5. CASE Ab00Mount(t) \/ Ab00Adjust(t) \/ DamageRelock(t)
  BY <1>1, <1>3, <1>4, <1>5 DEF Ab00Mount, Ab00Adjust, DamageRelock
<1>6. CASE MountCheck(t) \/ MountTouch(t)
  BY <1>1, <1>4, <1>6 DEF MountCheck, MountTouch, Step
<1>7. CASE Relock(t)
  BY <1>1, <1>3, <1>4, <1>7 DEF Relock
<1>8. CASE Reresolve(t) \/ RelockWrite(t) \/ RefreshRecheck(t)
  BY <1>1, <1>4, <1>8 DEF Reresolve, RelockWrite, RefreshRecheck, Step
<1>9. CASE Refresh(t) \/ LoopRelock(t)
  BY <1>1, <1>3, <1>4, <1>9 DEF Refresh, LoopRelock
<1>10. CASE AssignFault(t)
  BY <1>4, <1>10 DEF AssignFault
<1>11. CASE KeepAlive(t)
  <2>1. CASE Step(t, "resetCommit")
    BY <1>4, <2>1 DEF Step
  <2>2. CASE SupportedTracked(snap[t]) /\ Step(t, "keepAliveCommit")
    <3>1. ProfileOf(snap[t]) # "gone"
      BY <2>2 DEF SupportedTracked, Supported, TrackedProxy
    <3>2. snap[t]["stamina"] = snap[t]["health"]
      BY <3>1 DEF ProfileOf
    <3>3. Goto(t, "keepAliveCommit", cand[t], snap[t], ret[t])
      BY <2>2 DEF Step, Jump
    <3> QED BY <1>1, <1>2, <3>2, <3>3, LocalOne
  <2> QED BY <1>11, <2>1, <2>2 DEF KeepAlive
<1> QED BY <1>5, <1>6, <1>7, <1>8, <1>9, <1>10, <1>11

\* A store under way brings both pointers of a half at once.
LEMMA StoreOne ==
    ASSUME Paired, TypeOK, OneMountInv, NEW t \in Threads,
           StoreMount(t) \/ StorePlayer(t) \/ Unlock(t)
    PROVE  OneMountInv'
<1>1. CASE StoreMount(t)
  <2>1. PICK B \in Blocks : mount' = Overlay(mount, nextMount, B)
    BY <1>1 DEF StoreMount
  <2>2. Halves(mount')
    BY <2>1, FieldNames DEF Paired, Overlay, Halves, OneMountInv
  <2>3. UNCHANGED <<nextMount, snap, pc, after>>
    BY <1>1 DEF StoreMount, locals
  <2> QED BY <2>2, <2>3 DEF OneMountInv, AboutToWrite, Halves, OneObject
<1>2. CASE StorePlayer(t)
  BY <1>2 DEF StorePlayer, locals, OneMountInv, AboutToWrite, Halves, OneObject
<1>3. CASE Unlock(t)
  <2>1. UNCHANGED <<mount, nextMount>> /\ after[t] \in Resumes
    BY <1>3 DEF Unlock, TypeOK
  <2>2. ASSUME NEW u \in Threads
        PROVE  /\ Halves(snap'[u])
               /\ pc'[u] = "keepAliveCommit" => snap'[u]["stamina"] = snap'[u]["health"]
               /\ AboutToWrite(u)' => OneObject(snap'[u])
    <3>1. CASE u # t
      <4>1. pc'[u] = pc[u] /\ snap'[u] = snap[u] /\ after'[u] = after[u]
        BY <1>3, <3>1 DEF Unlock, Jump, Goto, TypeOK
      <4> QED BY <4>1 DEF OneMountInv, AboutToWrite
    <3>2. CASE u = t
      <4>1. /\ pc[u] = "unlock" /\ pc'[u] = after[u]
            /\ snap'[u] = IF after[u] = "idle" THEN Empty ELSE snap[u]
        BY <1>3, <3>2 DEF Unlock, Jump, Goto, TypeOK
      <4>2. pc'[u] \notin {"keepAliveCommit", "unlock"}
        BY <2>1, <3>2, <4>1 DEF Resumes, Returns
      <4> QED BY <4>1, <4>2, WholeObject DEF OneMountInv, AboutToWrite
    <3> QED BY <3>1, <3>2
  <2> QED BY <2>1, <2>2 DEF OneMountInv, Halves, OneObject
<1> QED BY <1>1, <1>2, <1>3

LEMMA NextOne ==
    ASSUME Paired, TypeOK, OneMountInv, [Next]_vars
    PROVE  OneMountInv'
<1>1. ASSUME NEW t \in GameThreads, NEW o \in Obj, Call(t, o) PROVE OneMountInv'
  BY <1>1, CallOne
<1>2. ASSUME NEW t \in Threads, Continue(t) PROVE OneMountInv'
  BY <1>2, PlayerOne, MountOne, WalkOne, StoreOne DEF Continue
<1>3. CASE Wake
  <2>1. Resolver \in Threads /\ UNCHANGED <<mount, nextMount, after>> /\ Jump(Resolver, "refresh")
    BY <1>3 DEF Wake, Step, Threads, shared
  <2> QED BY <2>1, JumpOne
<1>4. CASE Environment \/ UNCHANGED vars
  <2>1. UNCHANGED <<mount, nextMount, snap, pc, after>>
    BY <1>4 DEF Environment, AgeStamp, World, Chain, Reload, Disable, vars, shared, locals
  <2> QED BY <2>1 DEF OneMountInv, AboutToWrite, Halves, OneObject
<1> QED BY <1>1, <1>2, <1>3, <1>4 DEF Next

\* However the mount is replaced, dropped or refreshed while a relock is under way,
\* and however its copy was torn, the relock writes through the entries of one mount:
\* for stores that become visible 16 bytes or more at a time.
THEOREM WritesOneMount == ASSUME Paired PROVE Spec => []RelockWritesOneMount
<1>1. Init => OneMountInv
  BY WholeObject DEF Init, OneMountInv, AboutToWrite
<1>2. TypeOK /\ OneMountInv /\ [Next]_vars => OneMountInv'
  BY NextOne, Paired
<1>3. OneMountInv => RelockWritesOneMount
  BY DEF OneMountInv, AboutToWrite, OneObject, RelockWritesOneMount
<1> QED BY <1>1, <1>2, <1>3, TypeCorrect, PTL DEF Spec

(***************************************************************************)
(* The critical sections.                                                  *)
(***************************************************************************)

\* One thread at a time is in one; and one that begins finds the snapshots as every
\* reader sees them, so that what it decides from nextPlayer and nextMount it decides
\* from g_player_resolve and g_mount_resolve.  An access fault in a section
\* (AssignFault) changes nothing of that; it is the only way to leave the mutex
\* locked behind, and by then processing has been disabled.
SectionsExclusive ==
    /\ \A t, u \in Threads : pc[t] = "unlock" /\ pc[u] = "unlock" => t = u
    /\ mutex = Null => player = nextPlayer /\ mount = nextMount /\ nextSeen = "keep"
    /\ mutex # Null /\ enabled => \E t \in Threads : mutex = t /\ pc[t] = "unlock"

Settled == player = nextPlayer /\ mount = nextMount /\ nextSeen = "keep"

SectionInv == /\ \A t \in Threads : pc[t] = "unlock" => mutex = t
              /\ Settled \/ \E t \in Threads : pc[t] = "unlock"
              /\ mutex # Null /\ enabled => \E t \in Threads : mutex = t /\ pc[t] = "unlock"

\* A step outside of the sections.
LEMMA OutsideSection ==
    ASSUME TypeOK, SectionInv, NEW t \in Threads, pc[t] # "unlock", NEW l, l # "unlock",
           pc' = [pc EXCEPT ![t] = l],
           UNCHANGED <<player, mount, nextPlayer, nextMount, nextSeen, mutex, enabled>>
    PROVE  SectionInv'
<1>1. \A u \in Threads : pc'[u] = "unlock" <=> pc[u] = "unlock"
  BY DEF TypeOK
<1> QED BY <1>1 DEF SectionInv, Settled

\* A section begins.
LEMMA SectionBegins ==
    ASSUME TypeOK, SectionInv, NEW t \in Threads, NEW l, NEW p, NEW m, NEW seen,
           Locked(t, l, p, m, seen)
    PROVE  SectionInv'
<1>1. \A u \in Threads : pc[u] # "unlock"
  BY DEF Locked, SectionInv, Threads
<1>2. mutex' = t /\ pc'[t] = "unlock" /\ \A u \in Threads : u # t => pc'[u] = pc[u]
  BY DEF Locked, TypeOK
<1> QED BY <1>1, <1>2 DEF SectionInv

LEMMA SectionStep == ASSUME TypeOK, SectionInv, [Next]_vars PROVE SectionInv'
<1>1. ASSUME NEW t \in GameThreads, NEW o \in Obj, Call(t, o) PROVE SectionInv'
  <2>1. PICK l, r : l # "unlock" /\ Goto(t, l, o, Empty, r)
    BY <1>1 DEF Call, PlayerPointer, Stats, HealthWrite, Ab00, SpiritDelta, Damage,
       Labels, Locks, Unlocked
  <2>2. UNCHANGED <<shared, enabled>> /\ pc[t] = "idle" /\ t \in Threads
    BY <1>1 DEF Call, PlayerPointer, Stats, HealthWrite, Ab00, SpiritDelta, Damage, Threads, world
  <2> QED BY <2>1, <2>2, OutsideSection DEF Goto, shared
<1>2. ASSUME NEW t \in Threads,
             \/ Ab00Mount(t) \/ Ab00Adjust(t) \/ DamageRelock(t)
             \/ MountCheck(t) \/ MountTouch(t) \/ Relock(t) \/ Reresolve(t) \/ KeepAlive(t)
             \/ RelockWrite(t) \/ Refresh(t) \/ RefreshRecheck(t) \/ LoopRelock(t)
      PROVE  SectionInv'
  <2>1. ret[t] # "unlock" /\ RefreshRet(t) # "unlock"
    BY DEF TypeOK, Returns, RefreshRet
  <2>2. PICK l : l # "unlock" /\ pc' = [pc EXCEPT ![t] = l]
    BY <1>2, <2>1 DEF Ab00Mount, Ab00Adjust, DamageRelock, MountCheck, MountTouch, Relock,
       Reresolve, KeepAlive, RelockWrite, Refresh, RefreshRecheck, LoopRelock, Step, Jump, Goto
  <2>3. /\ pc[t] # "unlock"
        /\ UNCHANGED <<player, mount, nextPlayer, nextMount, nextSeen, mutex, enabled>>
    BY <1>2 DEF Ab00Mount, Ab00Adjust, DamageRelock, MountCheck, MountTouch, Relock,
       Reresolve, KeepAlive, RelockWrite, Refresh, RefreshRecheck, LoopRelock, Step, shared, world
  <2> QED BY <2>2, <2>3, OutsideSection
<1>3. ASSUME NEW t \in Threads,
             \/ PlayerCommit(t) \/ BootstrapCommit(t) \/ AssignCommit(t)
             \/ HealthCommit(t) \/ StaminaCommit(t) \/ SpiritCommit(t)
             \/ MountCommit(t) \/ RefreshCommit(t) \/ KeepAliveCommit(t)
             \/ ResetCommit(t) \/ RefreshDrop(t)
      PROVE  SectionInv'
  <2>1. \E l, p, m, seen : Locked(t, l, p, m, seen)
    BY <1>3 DEF PlayerCommit, BootstrapCommit, AssignCommit, HealthCommit, StaminaCommit,
       SpiritCommit, MountCommit, RefreshCommit, KeepAliveCommit, ResetCommit, RefreshDrop,
       LockedNoChange
  <2> QED BY <2>1, SectionBegins
<1>4. ASSUME NEW t \in Threads, StoreMount(t) \/ StorePlayer(t) PROVE SectionInv'
  BY <1>4 DEF StoreMount, StorePlayer, locals, world, SectionInv
<1>5. ASSUME NEW t \in Threads, Unlock(t) PROVE SectionInv'
  <2>1. mutex = t /\ mutex' = Null /\ Settled'
    BY <1>5 DEF Unlock, SectionInv, Settled
  <2>2. \A u \in Threads : pc'[u] # "unlock"
    <3>1. \A u \in Threads : u # t => pc'[u] = pc[u] /\ pc[u] # "unlock"
      BY <1>5, <2>1 DEF Unlock, Jump, Goto, TypeOK, SectionInv
    <3>2. pc'[t] = after[t] /\ after[t] # "unlock"
      BY <1>5 DEF Unlock, Jump, Goto, TypeOK, Resumes, Returns
    <3> QED BY <3>1, <3>2
  <2> QED BY <2>1, <2>2 DEF SectionInv
<1>6. ASSUME NEW t \in Threads, AssignFault(t) PROVE SectionInv'
  <2>1. \A u \in Threads : pc[u] # "unlock"
    BY <1>6 DEF AssignFault, SectionInv, Threads
  <2>2. \A u \in Threads : pc'[u] # "unlock"
    BY <1>6, <2>1 DEF AssignFault, Jump, Goto, TypeOK
  <2>3. UNCHANGED <<player, mount, nextPlayer, nextMount, nextSeen>> /\ ~enabled'
    BY <1>6 DEF AssignFault
  <2> QED BY <2>1, <2>2, <2>3 DEF SectionInv, Settled
<1>7. CASE Wake
  <2>1. pc' = [pc EXCEPT ![Resolver] = "refresh"] /\ pc[Resolver] = "idle" /\ UNCHANGED <<shared, enabled>>
    BY <1>7 DEF Wake, Step, Jump, Goto, world
  <2> QED BY <2>1, OutsideSection DEF shared, Threads
<1>8. CASE Environment \/ UNCHANGED vars
  BY <1>8 DEF Environment, AgeStamp, World, Chain, Reload, Disable, vars, shared, locals,
     world, SectionInv, Settled
<1> QED
  BY <1>1, <1>2, <1>3, <1>4, <1>5, <1>6, <1>7, <1>8 DEF Next, Continue

\* The critical sections exclude each other, and whoever begins one starts from what
\* the last one has stored.
THEOREM Exclusion == Spec => []SectionsExclusive
<1>1. Init => SectionInv
  BY DEF Init, SectionInv, Settled
<1>2. TypeOK /\ SectionInv /\ [Next]_vars => SectionInv'
  BY SectionStep
<1>3. SectionInv => SectionsExclusive
  BY DEF SectionInv, Settled, SectionsExclusive, Threads
<1> QED BY <1>1, <1>2, <1>3, TypeCorrect, PTL DEF Spec

(***************************************************************************)
(* The damage owners.  TargetOwnerResolved fails where a health write or a *)
(* stamina cost is the first to tell of the player; these are the only     *)
(* ways.                                                                   *)
(***************************************************************************)

\* Neither of the two hooks that take a player without resolving an actor is there.
Resolving == {"stat-write", "stamina-ab00"} \cap Hooks = {}

\* What is known of the player has its damage owners.
Owned(s) == /\ s["damage"] = s["id"]
            /\ s["health"] = s["id"]

\* The steps that only those hooks lead to.
Foreign == {"healthCommit", "staminaCommit", "ab00Mount", "ab00Adjust"}

OwnersInv == /\ Owned(nextPlayer)
             /\ \A t \in Threads : {pc[t], ret[t], after[t]} \cap Foreign = {}

\* A step that decides nothing.
LEMMA OwnersMove ==
    ASSUME TypeOK, OwnersInv, NEW t \in Threads, NEW l, NEW c, NEW s, NEW r,
           Goto(t, l, c, s, r), l \notin Foreign, r \notin Foreign,
           UNCHANGED <<nextPlayer, after>>
    PROVE  OwnersInv'
<1>1. \A u \in Threads : pc'[u] \in {pc[u], l} /\ ret'[u] \in {ret[u], r, "idle"}
  BY DEF Goto, TypeOK
<1> QED BY <1>1 DEF OwnersInv, Owned, Foreign

\* A critical section that leaves a player with its owners, if any.
LEMMA OwnersDecided ==
    ASSUME TypeOK, OwnersInv, NEW t \in Threads, NEW l, NEW p, NEW m, NEW seen,
           Locked(t, l, p, m, seen), l \notin Foreign, Owned(p), UNCHANGED ret
    PROVE  OwnersInv'
<1>1. \A u \in Threads : pc'[u] \in {pc[u], "unlock"} /\ after'[u] \in {after[u], l}
  BY DEF Locked, TypeOK
<1> QED BY <1>1 DEF OwnersInv, Owned, Foreign, Locked

LEMMA OwnersStep == ASSUME Resolving, TypeOK, OwnersInv, [Next]_vars PROVE OwnersInv'
<1>0. \A t \in Threads : /\ ret[t] \notin Foreign /\ RefreshRet(t) \notin Foreign
                         /\ after[t] \notin Foreign /\ pc[t] \notin Foreign
  BY DEF OwnersInv, RefreshRet, Foreign
<1>1. ASSUME NEW t \in GameThreads, NEW o \in Obj, Call(t, o) PROVE OwnersInv'
  <2>1. ~HealthWrite(t, o) /\ ~Ab00(t, o)
    BY DEF Resolving, HealthWrite, Ab00
  <2>2. PICK l, r : l \notin Foreign /\ r \notin Foreign /\ Goto(t, l, o, Empty, r)
    BY <1>1, <2>1 DEF Call, PlayerPointer, Stats, SpiritDelta, Damage, Foreign
  <2>3. UNCHANGED <<nextPlayer, after>> /\ t \in Threads
    BY <1>1, <2>1 DEF Call, PlayerPointer, Stats, SpiritDelta, Damage, Threads, shared
  <2> QED BY <2>2, <2>3, OwnersMove
<1>2. ASSUME NEW t \in Threads,
             \/ Ab00Mount(t) \/ Ab00Adjust(t) \/ HealthCommit(t) \/ StaminaCommit(t)
      PROVE  OwnersInv'
  BY <1>0, <1>2 DEF Ab00Mount, Ab00Adjust, HealthCommit, StaminaCommit, Foreign
<1>3. ASSUME NEW t \in Threads,
             \/ DamageRelock(t) \/ MountCheck(t) \/ Relock(t) \/ Reresolve(t) \/ KeepAlive(t)
             \/ RelockWrite(t) \/ Refresh(t) \/ RefreshRecheck(t) \/ LoopRelock(t)
             \/ MountTouch(t) \/ AssignFault(t)
      PROVE  OwnersInv'
  <2>1. UNCHANGED <<nextPlayer, after>>
    BY <1>3 DEF DamageRelock, MountCheck, Relock, Reresolve, KeepAlive, RelockWrite, Refresh,
       RefreshRecheck, LoopRelock, MountTouch, AssignFault, Step, shared
  <2>2. CASE DamageRelock(t) \/ MountCheck(t) \/ MountTouch(t) \/ AssignFault(t)
    BY <1>0, <2>1, <2>2, OwnersMove
       DEF DamageRelock, MountCheck, MountTouch, AssignFault, Step, Jump, Foreign
  <2>3. CASE Relock(t) \/ Reresolve(t) \/ KeepAlive(t) \/ RelockWrite(t)
    BY <1>0, <2>1, <2>3, OwnersMove DEF Relock, Reresolve, KeepAlive, RelockWrite, Step, Jump, Foreign
  <2>4. CASE Refresh(t) \/ RefreshRecheck(t) \/ LoopRelock(t)
    BY <1>0, <2>1, <2>4, OwnersMove DEF Refresh, RefreshRecheck, LoopRelock, Step, Jump, Foreign
  <2> QED BY <1>3, <2>2, <2>3, <2>4
<1>4. ASSUME NEW t \in Threads, Unlock(t) PROVE OwnersInv'
  <2>1. \A u \in Threads : /\ pc'[u] \in {pc[u], after[t]}
                           /\ ret'[u] \in {ret[u], "idle"} /\ after'[u] \in {after[u], "idle"}
    BY <1>4 DEF Unlock, Jump, Goto, TypeOK
  <2> QED BY <1>0, <1>4, <2>1 DEF OwnersInv, Unlock, Foreign
<1>5. ASSUME NEW t \in Threads,
             \/ MountCommit(t) \/ RefreshCommit(t) \/ KeepAliveCommit(t)
             \/ ResetCommit(t) \/ RefreshDrop(t)
      PROVE  OwnersInv'
  <2>1. UNCHANGED ret /\ Owned(nextPlayer)
    BY <1>5 DEF MountCommit, RefreshCommit, KeepAliveCommit, ResetCommit, RefreshDrop,
       KeepLocals, OwnersInv
  <2>2. \E l, m, seen : l \notin Foreign /\ Locked(t, l, nextPlayer, m, seen)
    BY <1>0, <1>5 DEF MountCommit, RefreshCommit, KeepAliveCommit, ResetCommit, RefreshDrop,
       LockedNoChange, Foreign
  <2> QED BY <2>1, <2>2, OwnersDecided
<1>6. ASSUME NEW t \in Threads,
             \/ PlayerCommit(t) \/ BootstrapCommit(t) \/ AssignCommit(t) \/ SpiritCommit(t)
      PROVE  OwnersInv'
  <2>1. nextPlayer \in Snapshot /\ cand[t] \in Pointer
    BY DEF TypeOK
  <2>2. Owned(Resolve(cand[t])) /\ Owned(nextPlayer)
    BY FieldNames DEF Owned, Resolve, OwnersInv
  <2>3. nextPlayer["health"] = cand[t] => Owned(Merge(nextPlayer, cand[t]))
    BY <2>1, FieldNames DEF OwnersInv, Owned, Merge, Resolve, Snapshot
  <2>4. \A st \in {"stamina", "spirit"} : Owned([nextPlayer EXCEPT ![st] = cand[t]])
    BY <2>1, FieldNames DEF OwnersInv, Owned, Snapshot
  <2>5. UNCHANGED ret
    BY <1>6 DEF PlayerCommit, BootstrapCommit, AssignCommit, SpiritCommit, KeepLocals
  <2>6. \E l, p, m, seen : l \notin Foreign /\ Owned(p) /\ Locked(t, l, p, m, seen)
    BY <1>6, <2>2, <2>3, <2>4
       DEF PlayerCommit, BootstrapCommit, AssignCommit, SpiritCommit, LockedNoChange, Foreign
  <2> QED BY <2>5, <2>6, OwnersDecided
<1>7. ASSUME NEW t \in Threads, StoreMount(t) \/ StorePlayer(t) PROVE OwnersInv'
  BY <1>7 DEF StoreMount, StorePlayer, locals, OwnersInv
<1>8. CASE Wake
  <2>1. Jump(Resolver, "refresh") /\ UNCHANGED <<nextPlayer, after>> /\ Resolver \in Threads
    BY <1>8 DEF Wake, Step, shared, Threads
  <2> QED BY <1>0, <2>1, OwnersMove DEF Jump, Foreign
<1>9. CASE Environment \/ UNCHANGED vars
  BY <1>9 DEF Environment, AgeStamp, World, Chain, Reload, Disable, vars, shared, locals, OwnersInv
<1> QED
  BY <1>1, <1>2, <1>3, <1>4, <1>5, <1>6, <1>7, <1>8, <1>9 DEF Next, Continue

\* README.md:88 holds of every player found by the player-pointer or the stats hook,
\* whatever completes it later, and whatever is stored meanwhile.
THEOREM OwnerResolved == ASSUME Resolving PROVE Spec => []TargetOwnerResolved
<1>1. Init => OwnersInv
  BY FieldNames DEF Init, OwnersInv, Owned, Empty, Foreign
<1>2. TypeOK /\ OwnersInv /\ [Next]_vars => OwnersInv'
  BY OwnersStep, Resolving
<1>3. SectionsExclusive /\ OwnersInv => TargetOwnerResolved
  BY FieldNames DEF SectionsExclusive, OwnersInv, Owned, TargetOwnerResolved
<1> QED BY <1>1, <1>2, <1>3, TypeCorrect, Exclusion, PTL DEF Spec
=============================================================================
