-------------------------- MODULE StatChangeProofs --------------------------
(***************************************************************************)
(* Proofs about StatChange for every set of threads and entries, every     *)
(* maximum, every change and every configuration.                          *)
(***************************************************************************)
EXTENDS StatChange, TLAPS

Busy(t) == pc[t] # "idle"

\* Once computed, a value fits the entry.
InRange == \A t \in Threads : pc[t] \in {"write", "store"} =>
               call[t].value \in 0 .. Maximum[call[t].entry]

\* A relock about to write knows for which stat.
Pending == \A p \in Threads \cup {Resolver} : pc[p] = "relockWrite" => todo[p] # <<>>

\* The game makes one change of an entry at a time.
Exclusive == \A t, u \in Threads : t # u /\ Busy(t) /\ Busy(u) =>
                 call[t].entry # call[u].entry

\* What a change found at the lock stays there until the change is stored ...
Shielded(t) == LET e == call[t].entry IN
               /\ Owner[e] = "mount" /\ Stat[e] = "health" /\ config.lockHealth
               /\ call[t].was >= Lock(e)

Held == \A t \in Threads : Busy(t) /\ Shielded(t) =>
            current[call[t].entry] >= Lock(call[t].entry)

\* ... and so does what is going to be stored.
Guarded == \A t \in Threads : pc[t] = "store" /\ Shielded(t) =>
               call[t].value >= Lock(call[t].entry)

IInv == TypeOK /\ InRange /\ Pending /\ Exclusive /\ Held /\ Guarded

(***************************************************************************)
(* The arithmetic.                                                         *)
(***************************************************************************)

\* A product of ratios is a ratio.
LEMMA TimesRatio == ASSUME NEW p \in Ratio, NEW q \in Ratio PROVE Times(p, q) \in Ratio
<1>1. p.num * q.num \in Nat
  BY DEF Ratio
<1>2. p.den * q.den \in Nat \ {0}
  BY DEF Ratio
<1> QED BY <1>1, <1>2 DEF Times, Ratio

\* Scaling and rounding down an integer gives an integer (std::floor).
LEMMA FloorInt == ASSUME NEW x \in Int, NEW r \in Ratio PROVE Floor(x, r) \in Int
<1>1. x * r.num \in Int /\ r.den \in Nat \ {0}
  BY DEF Ratio
<1> QED BY <1>1 DEF Floor

\* ScaleDelta gives a magnitude, ClampScaledSignedDelta an integer.
LEMMA ScaleRange ==
    ASSUME NEW x \in Int, NEW r \in Ratio
    PROVE  ScaleDelta(x, r) \in 0 .. MaxInt /\ ScaleSigned(x, r) \in Int
<1>1. MaxInt \in Nat /\ MinInt \in Int /\ MinInt <= MaxInt /\ 0 <= MaxInt
  BY NumbersAssumption DEF MinInt
<1>2. Floor(x, r) \in Int
  BY FloorInt
<1>3. ScaleDelta(x, r) \in 0 .. MaxInt
  BY <1>1, <1>2 DEF ClampToRange, ScaleDelta
<1>4. ScaleSigned(x, r) \in MinInt .. MaxInt
  BY <1>1, <1>2 DEF ClampToRange, ScaleSigned
<1> QED BY <1>1, <1>3, <1>4

\* Addition that wraps around gives an integer.
LEMMA WrapInt == ASSUME NEW x \in Int PROVE Wrap(x) \in Int
<1>1. MaxInt \in Nat
  BY NumbersAssumption
<1>2. (x - MinInt) % (MaxInt - MinInt + 1) \in Int
  BY <1>1 DEF MinInt
<1> QED BY <1>1, <1>2 DEF Wrap, MinInt

\* The lock of an entry is a value the entry can have (ClampMountLockValue).
LEMMA LockRange ==
    ASSUME config \in Configs, NEW e \in Entries
    PROVE  Lock(e) \in 1 .. Maximum[e]
BY ConfigsAssumption, EntriesAssumption DEF Lock, Config

(***************************************************************************)
(* What the hooks hand back to the game.                                   *)
(***************************************************************************)

\* The multipliers of a configuration.
LEMMA ConfigTypes ==
    ASSUME config \in Configs
    PROVE  /\ \A s \in Stats : config.consume[s] \in Ratio /\ config.heal[s] \in Ratio
           /\ config.incoming \in Ratio /\ config.outgoing \in Ratio
           /\ One \in Ratio /\ Resisted \in Ratio
           /\ "health" \in Stats /\ "stamina" \in Stats /\ "spirit" \in Stats
<1>1. config \in Config
  BY ConfigsAssumption
<1>2. 100 - config.resist \in Nat
  BY <1>1 DEF Config
<1>3. Resisted \in Ratio
  BY <1>2 DEF Resisted, Ratio
<1> QED BY <1>1, <1>3 DEF Config, Stats, One, Ratio

\* The combined consumption multiplier of the stat-write hook is one.
LEMMA ConsumptionRatio ==
    ASSUME config \in Configs, NEW s \in Stats PROVE Consumption(s) \in Ratio
<1>1. config.consume[s] \in Ratio /\ Resisted \in Ratio
      /\ (IF config.incomingFallback THEN config.incoming ELSE One) \in Ratio
  BY ConfigTypes
<1>2. Times(config.consume[s], IF config.incomingFallback THEN config.incoming ELSE One) \in Ratio
  BY <1>1, TimesRatio
<1> QED BY <1>1, <1>2, TimesRatio DEF Consumption

\* Whatever the delta hooks make of a change, it is an integer.
LEMMA ScaledTypes ==
    ASSUME config \in Configs, NEW s \in Stats, NEW d \in Int
    PROVE  ScaledChange(s, d) \in Int /\ ScaledHit(d) \in Int
<1>1. ScaleDelta(-d, config.consume[s]) \in Int /\ ScaleDelta(d, config.heal[s]) \in Int
  <2>1. -d \in Int
    OBVIOUS
  <2> QED BY <2>1, ConfigTypes, ScaleRange
<1>2. Times(config.consume["health"], config.incoming) \in Ratio
  BY ConfigTypes, TimesRatio
<1>3. ScaledHit(d) \in Int
  BY <1>2, ScaleRange DEF ScaledHit
<1> QED BY <1>1, <1>3 DEF ScaledChange

LEMMA DeltaTypes ==
    ASSUME TypeOK, NEW c \in Call
    PROVE  DamageDelta(c) \in Int /\ Ab00Delta(c) \in Int /\ SpiritDelta(c) \in Int
<1>1. c.entry \in Entries /\ c.delta \in Int /\ current[c.entry] \in Int
  BY DEF Call, TypeOK
<1>2. Lock(c.entry) \in Int
  BY <1>1, LockRange DEF TypeOK
<1>3. \A s \in Stats : ScaledChange(s, c.delta) \in Int
  BY <1>1, ScaledTypes DEF TypeOK
<1>4. ScaledHit(c.delta) \in Int
  BY <1>1, ScaledTypes, ConfigTypes DEF TypeOK
<1>5. ScaleSigned(c.delta, config.outgoing) \in Int
  BY <1>1, ScaleRange, ConfigTypes DEF TypeOK
<1>6. Lock(c.entry) - current[c.entry] \in Int
  BY <1>1, <1>2
<1>7. DamageDelta(c) \in Int
  BY <1>1, <1>3, <1>4, <1>5, <1>6 DEF DamageDelta, Stats
<1>8. SpiritDelta(c) \in Int
  BY <1>1, <1>3, <1>6 DEF SpiritDelta, Stats
<1>9. StaminaDelta(c) \in Int
  BY <1>1, <1>3, <1>6 DEF StaminaDelta, Stats
<1> QED BY <1>1, <1>7, <1>8, <1>9 DEF Ab00Delta

\* A value in the entry's range stays in it through the stat-write hook.
LEMMA StatWriteRange ==
    ASSUME TypeOK, NEW e \in Entries, NEW v \in 0 .. Maximum[e]
    PROVE  StatWrite(e, current[e], v) \in 0 .. Maximum[e]
<1> DEFINE old == current[e]
<1>1. Maximum[e] \in Nat /\ old \in Nat /\ v \in Int
  BY EntriesAssumption DEF TypeOK
<1>2. MountWrite(e, old, v) \in 0 .. Maximum[e]
  <2>1. Lock(e) \in Int
    BY LockRange DEF TypeOK
  <2>2. ClampToRange(Lock(e), v, Maximum[e]) \in v .. Maximum[e]
    BY <1>1, <2>1 DEF ClampToRange
  <2> QED BY <1>1, <2>2 DEF MountWrite
<1>3. PlayerWrite(e, old, v) \in 0 .. Maximum[e]
  <2>1. Stat[e] \in Stats
    BY EntriesAssumption
  <2> DEFINE kept == (old - v) - ScaleDelta(old - v, Consumption(Stat[e]))
             more == ScaleDelta(v - old, config.heal[Stat[e]]) - (v - old)
  <2>2. old - v \in Int /\ v - old \in Int
    BY <1>1
  <2>3. ScaleDelta(old - v, Consumption(Stat[e])) \in Int
    BY <2>1, <2>2, ConsumptionRatio, ScaleRange DEF TypeOK
  <2>4. ScaleDelta(v - old, config.heal[Stat[e]]) \in Int
    BY <2>1, <2>2, ConfigTypes, ScaleRange DEF TypeOK
  <2>5. v + kept \in Int /\ v + more \in Int
    BY <1>1, <2>3, <2>4
  <2>6. Wrap(v + kept) \in Int /\ Wrap(v + more) \in Int
    BY <2>5, WrapInt
  <2> HIDE DEF kept, more
  <2>7. /\ ClampToRange(Wrap(v + kept), 0, Maximum[e]) \in 0 .. Maximum[e]
        /\ ClampToRange(Wrap(v + more), 0, Maximum[e]) \in 0 .. Maximum[e]
    BY <1>1, <2>6 DEF ClampToRange
  <2> QED BY <2>7 DEF PlayerWrite, kept, more
<1>4. OutgoingWrite(e, old, v) \in 0 .. Maximum[e]
  <2> DEFINE scaled == ScaleDelta(old - v, config.outgoing)
             damage == IF scaled = 0 /\ config.outgoing.num > 0 THEN 1 ELSE scaled
  <2>1. old - v \in Int
    BY <1>1
  <2>2. scaled \in Int
    BY <2>1, ConfigTypes, ScaleRange DEF TypeOK
  <2> HIDE DEF scaled
  <2>3. old - damage \in Int
    BY <1>1, <2>2
  <2> HIDE DEF damage
  <2>4. ClampToRange(old - damage, 0, Maximum[e]) \in 0 .. Maximum[e]
    BY <1>1, <2>3 DEF ClampToRange
  <2> QED BY <2>4 DEF OutgoingWrite, scaled, damage
<1> QED BY <1>2, <1>3, <1>4 DEF StatWrite

(***************************************************************************)
(* The inductive invariant.  What a change of an entry does touches        *)
(* nobody else's entry; a relock only ever writes the lock.                *)
(***************************************************************************)

\* A hit of a shielded entry is stored at its lock or above: the stat-write hook,
\* installed by the lock itself, sees the value last (TryAdjustMountHealthWrite).
LEMMA StatWriteLocks ==
    ASSUME TypeOK, NEW e \in Entries, NEW v \in 0 .. Maximum[e],
           Owner[e] = "mount", Stat[e] = "health", config.lockHealth, current[e] >= Lock(e)
    PROVE  StatWrite(e, current[e], v) >= Lock(e)
<1>1. Lock(e) \in 1 .. Maximum[e] /\ Maximum[e] \in Nat /\ current[e] \in Nat /\ v \in Int
  BY LockRange, EntriesAssumption DEF TypeOK
<1>2. MountWrite(e, current[e], v) >= Lock(e)
  BY <1>1 DEF MountWrite, ClampToRange
<1>3. StatWrite(e, current[e], v) = MountWrite(e, current[e], v)
  BY <1>1 DEF StatWrite, OutgoingWrite
<1> QED BY <1>2, <1>3

\* Every initial state satisfies the invariant.
LEMMA InitInvariant == Init => IInv
<1> SUFFICES ASSUME Init PROVE IInv
  OBVIOUS
<1>1. NoCall \in Call
  BY EntriesAssumption DEF NoCall, Call
<1>2. current \in [Entries -> Nat] /\ \A e \in Entries : current[e] <= Maximum[e]
  <2>1. Values \subseteq Nat
    BY EntriesAssumption DEF Values
  <2> QED BY <2>1 DEF Init
<1>3. TypeOK
  BY <1>1, <1>2 DEF Init, TypeOK, Pcs
<1> QED BY <1>3, ThreadsAssumption DEF Init, IInv, InRange, Pending, Exclusive, Held, Guarded, Busy

\* A step that begins a change.
LEMMA BeginStep ==
    ASSUME IInv, NEW t \in Threads, NEW e \in Entries, NEW d \in Deltas,
           NEW outgoing \in BOOLEAN, NEW s \in {"relock", "damage", "ab00", "spirit", "apply"},
           Begin(t, e, d, outgoing), Goto(t, s),
           todo' \in [Threads \cup {Resolver} -> Seq(Stats)],
           \A p \in Threads \cup {Resolver} : p # t => todo'[p] = todo[p]
    PROVE  IInv'
<1> USE DEF IInv
<1>1. [entry |-> e, asked |-> d, was |-> current[e], outgoing |-> outgoing,
       delta |-> d, value |-> 0] \in Call
  BY NumbersAssumption DEF TypeOK, Call
<1>2. TypeOK'
  BY <1>1 DEF TypeOK, Begin, Goto, Pcs
<1>3. \A u \in Threads : u # t => pc'[u] = pc[u] /\ call'[u] = call[u]
  BY DEF TypeOK, Begin, Goto
<1>4. /\ pc'[t] = s /\ call'[t].entry = e /\ call'[t].was = current[e]
      /\ config' = config /\ current' = current
  BY DEF TypeOK, Begin, Goto
<1>5. InRange'
  BY <1>3, <1>4 DEF InRange
<1>6. Pending'
  <2>1. \A p \in Threads \cup {Resolver} : p # t => pc'[p] = pc[p]
    BY DEF TypeOK, Goto
  <2> QED BY <1>4, <2>1 DEF Pending
<1>7. Exclusive'
  BY <1>3, <1>4 DEF Exclusive, Busy, Begin, Free
<1>8. Held'
  BY <1>3, <1>4 DEF Held, Shielded, Busy, Lock
<1>9. Guarded'
  BY <1>3, <1>4 DEF Guarded, Shielded, Lock
<1> QED BY <1>2, <1>5, <1>6, <1>7, <1>8, <1>9

\* A step that replaces the delta.
LEMMA AdjustStep ==
    ASSUME IInv, NEW t \in Threads, NEW s \in {"damage", "ab00", "spirit"}, NEW d \in Int,
           Adjust(t, s, d)
    PROVE  IInv'
<1> USE DEF IInv
<1>1. TypeOK'
  BY DEF TypeOK, Adjust, Goto, Pcs, Call
<1>2. \A u \in Threads : u # t => pc'[u] = pc[u] /\ call'[u] = call[u]
  BY DEF TypeOK, Adjust, Goto
<1>3. /\ pc[t] = s /\ pc'[t] = "apply"
      /\ call'[t].entry = call[t].entry /\ call'[t].was = call[t].was
      /\ config' = config /\ current' = current /\ todo' = todo
  BY DEF TypeOK, Adjust, Goto, Call
<1>4. InRange'
  BY <1>2, <1>3 DEF InRange
<1>5. Pending'
  <2>1. \A p \in Threads \cup {Resolver} : p # t => pc'[p] = pc[p]
    BY DEF TypeOK, Adjust, Goto
  <2> QED BY <1>3, <2>1 DEF Pending
<1>6. Exclusive'
  BY <1>2, <1>3 DEF Exclusive, Busy
<1>7. Held'
  BY <1>2, <1>3 DEF Held, Shielded, Busy, Lock
<1>8. Guarded'
  BY <1>2, <1>3 DEF Guarded, Shielded, Lock
<1> QED BY <1>1, <1>4, <1>5, <1>6, <1>7, <1>8

\* A step that computes the value to be stored, under the two cases of the guard.
LEMMA ValueStep ==
    ASSUME IInv, NEW t \in Threads, NEW s \in {"write", "store"},
           NEW v \in 0 .. Maximum[call[t].entry], Busy(t),
           call' = [call EXCEPT ![t].value = v], Goto(t, s),
           UNCHANGED <<config, current, todo>>,
           s = "store" /\ Shielded(t) => v >= Lock(call[t].entry)
    PROVE  IInv'
<1> USE DEF IInv
<1>1. call[t].entry \in Entries /\ v \in Int
  BY EntriesAssumption DEF TypeOK, Call
<1>2. TypeOK'
  BY <1>1 DEF TypeOK, Goto, Pcs, Call
<1>3. \A u \in Threads : u # t => pc'[u] = pc[u] /\ call'[u] = call[u]
  BY DEF TypeOK, Goto
<1>4. /\ pc'[t] = s /\ call'[t].value = v
      /\ call'[t].entry = call[t].entry /\ call'[t].was = call[t].was
      /\ config' = config /\ current' = current /\ todo' = todo
  BY DEF TypeOK, Goto, Call
<1>5. InRange'
  BY <1>3, <1>4 DEF InRange
<1>6. Pending'
  <2>1. \A p \in Threads \cup {Resolver} : p # t => pc'[p] = pc[p]
    BY DEF TypeOK, Goto
  <2> QED BY <1>4, <2>1 DEF Pending
<1>7. Exclusive'
  BY <1>3, <1>4 DEF Exclusive, Busy
<1>8. Held'
  BY <1>3, <1>4 DEF Held, Shielded, Busy, Lock
<1>9. Guarded'
  BY <1>3, <1>4 DEF Guarded, Shielded, Lock
<1> QED BY <1>2, <1>5, <1>6, <1>7, <1>8, <1>9

\* The game's own value fits the entry, and is not stored before the stat-write hook
\* where health is locked.
LEMMA ApplyStep == ASSUME IInv, NEW t \in Threads, Apply(t) PROVE IInv'
<1> DEFINE e == call[t].entry
           v == ClampToRange(current[e] + call[t].delta, 0, Maximum[e])
<1>1. e \in Entries /\ current[e] \in Nat /\ call[t].delta \in Int /\ Maximum[e] \in Nat
  BY EntriesAssumption DEF IInv, TypeOK, Call
<1>2. v \in 0 .. Maximum[e]
  BY <1>1 DEF ClampToRange
<1>3. Busy(t)
  BY DEF Apply, Busy
<1>4. CASE WriteHook
  <2>1. call' = [call EXCEPT ![t].value = v] /\ Goto(t, "write")
        /\ UNCHANGED <<config, current, todo>>
    BY <1>4 DEF Apply
  <2> HIDE DEF v
  <2> QED BY <1>2, <1>3, <2>1, ValueStep
<1>5. CASE ~WriteHook
  <2>1. call' = [call EXCEPT ![t].value = v] /\ Goto(t, "store")
        /\ UNCHANGED <<config, current, todo>>
    BY <1>5 DEF Apply
  <2>2. ~Shielded(t)
    BY <1>5 DEF WriteHook, Shielded
  <2> HIDE DEF v
  <2> QED BY <1>2, <1>3, <2>1, <2>2, ValueStep
<1> QED BY <1>4, <1>5

LEMMA WriteStep == ASSUME IInv, NEW t \in Threads, StatWriteCallback(t) PROVE IInv'
<1> DEFINE e == call[t].entry
           v == StatWrite(e, current[e], call[t].value)
<1>1. e \in Entries /\ call[t].value \in 0 .. Maximum[e] /\ Busy(t)
  BY DEF IInv, TypeOK, Call, InRange, StatWriteCallback, Busy
<1>2. v \in 0 .. Maximum[e]
  BY <1>1, StatWriteRange DEF IInv
<1>3. Shielded(t) => v >= Lock(e)
  <2> SUFFICES ASSUME Shielded(t) PROVE v >= Lock(e)
    OBVIOUS
  <2>1. current[e] >= Lock(e)
    BY <1>1 DEF IInv, Held
  <2> QED BY <1>1, <2>1, StatWriteLocks DEF IInv, Shielded
<1>4. call' = [call EXCEPT ![t].value = v]
  BY DEF StatWriteCallback, IInv, TypeOK
<1>5. Goto(t, "store") /\ UNCHANGED <<config, current, todo>>
  BY DEF StatWriteCallback
<1> HIDE DEF v
<1> QED BY <1>1, <1>2, <1>3, <1>4, <1>5, ValueStep

\* The store ends the change; no other change under way is of the same entry.
LEMMA StoreStep == ASSUME IInv, NEW t \in Threads, Store(t) PROVE IInv'
<1> USE DEF IInv
<1> DEFINE e == call[t].entry
<1>1. e \in Entries /\ call[t].value \in 0 .. Maximum[e] /\ Maximum[e] \in Nat
  BY EntriesAssumption DEF TypeOK, Call, InRange, Store
<1>2. NoCall \in Call
  BY EntriesAssumption DEF NoCall, Call
<1>3. TypeOK'
  BY <1>1, <1>2 DEF TypeOK, Store, Goto, Pcs
<1>4. \A u \in Threads : u # t => pc'[u] = pc[u] /\ call'[u] = call[u]
  BY DEF TypeOK, Store, Goto
<1>5. pc'[t] = "idle" /\ config' = config /\ todo' = todo
  BY DEF TypeOK, Store, Goto
<1>6. InRange'
  BY <1>4, <1>5 DEF InRange
<1>7. Pending'
  <2>1. \A p \in Threads \cup {Resolver} : p # t => pc'[p] = pc[p]
    BY DEF TypeOK, Store, Goto
  <2> QED BY <1>5, <2>1 DEF Pending
<1>8. Exclusive'
  BY <1>4, <1>5 DEF Exclusive, Busy
<1>9. \A u \in Threads : u # t /\ Busy(u) => current'[call[u].entry] = current[call[u].entry]
  BY DEF Exclusive, Busy, Store, TypeOK, Call
<1>10. Held'
  BY <1>4, <1>5, <1>9 DEF Held, Shielded, Busy, Lock
<1>11. Guarded'
  BY <1>4, <1>5 DEF Guarded, Shielded, Lock
<1> QED BY <1>3, <1>6, <1>7, <1>8, <1>10, <1>11

\* The relock writes nothing below the lock.
LEMMA RelockStep == ASSUME IInv, NEW p \in Threads \cup {Resolver}, Relock(p) PROVE IInv'
<1> USE DEF IInv
<1>1. config' = config /\ call' = call
  BY DEF Relock, RelockRead, RelockWrite, RelockDone
<1>2. /\ pc[p] \in {"relock", "relockWrite"}
      /\ pc'[p] \in {"relock", "relockWrite", "damage"} \/ (pc'[p] = "idle" /\ p = Resolver)
      /\ \A q \in Threads \cup {Resolver} : q # p => pc'[q] = pc[q] /\ todo'[q] = todo[q]
      /\ pc'[p] = "relockWrite" => todo'[p] # <<>>
      /\ pc' \in [Threads \cup {Resolver} -> Pcs]
      /\ todo' \in [Threads \cup {Resolver} -> Seq(Stats)]
  <2>1. CASE RelockRead(p)
    <3>1. /\ pc[p] = "relock" /\ todo[p] # <<>>
          /\ \/ pc' = [pc EXCEPT ![p] = "relockWrite"] /\ todo' = todo
             \/ todo' = [todo EXCEPT ![p] = Tail(@)] /\ pc' = pc
      BY <2>1 DEF RelockRead, Goto
    <3>2. todo[p] \in Seq(Stats)
      BY DEF TypeOK
    <3>3. Tail(todo[p]) \in Seq(Stats)
      BY <3>1, <3>2
    <3>4. CASE pc' = [pc EXCEPT ![p] = "relockWrite"] /\ todo' = todo
      BY <3>1, <3>4 DEF TypeOK, Pcs
    <3>5. CASE todo' = [todo EXCEPT ![p] = Tail(@)] /\ pc' = pc
      BY <3>1, <3>3, <3>5 DEF TypeOK, Pcs
    <3> QED BY <3>1, <3>4, <3>5
  <2>2. CASE RelockWrite(p)
    BY <2>2 DEF TypeOK, RelockWrite, Goto, Pcs, Pending
  <2>3. CASE RelockDone(p)
    BY <2>3 DEF TypeOK, RelockDone, Goto, Pcs
  <2> QED BY <2>1, <2>2, <2>3 DEF Relock
<1>3. \/ current' = current
      \/ \E e \in Entries : current' = [current EXCEPT ![e] = Lock(e)]
  BY DEF Relock, RelockRead, RelockWrite, RelockDone
<1>4. \A e \in Entries : Lock(e) \in 1 .. Maximum[e] /\ Maximum[e] \in Nat
  BY LockRange, EntriesAssumption DEF TypeOK
<1>5. TypeOK'
  <2>1. current' \in [Entries -> Nat] /\ \A e \in Entries : current'[e] <= Maximum[e]
    <3>1. CASE current' = current
      BY <3>1 DEF TypeOK
    <3>2. ASSUME NEW e \in Entries, current' = [current EXCEPT ![e] = Lock(e)]
          PROVE  current' \in [Entries -> Nat] /\ \A x \in Entries : current'[x] <= Maximum[x]
      <4>1. Lock(e) \in Nat /\ Lock(e) <= Maximum[e]
        BY <1>4
      <4> QED BY <3>2, <4>1 DEF TypeOK
    <3> QED BY <1>3, <3>1, <3>2
  <2> QED BY <1>1, <1>2, <2>1 DEF TypeOK
<1>6. \A t \in Threads : /\ pc'[t] \in {"write", "store"} => pc[t] = pc'[t]
                         /\ pc'[t] # "idle" => pc[t] # "idle"
  BY <1>2, ThreadsAssumption
<1>7. InRange'
  BY <1>1, <1>6 DEF InRange
<1>8. Pending'
  BY <1>2 DEF Pending
<1>9. Exclusive'
  BY <1>1, <1>6 DEF Exclusive, Busy
<1>10. \A e \in Entries : current[e] >= Lock(e) => current'[e] >= Lock(e)
  BY <1>3, <1>4 DEF TypeOK
<1>11. \A t \in Threads : call[t].entry \in Entries
  BY DEF TypeOK, Call
<1>12. Held'
  BY <1>1, <1>6, <1>10, <1>11 DEF Held, Shielded, Busy, Lock
<1>13. Guarded'
  BY <1>1, <1>6 DEF Guarded, Shielded, Lock
<1> QED BY <1>5, <1>7, <1>8, <1>9, <1>12, <1>13

\* What a relock looks at are stats.
LEMMA ToRelockType == ToRelock \in Seq(Stats) /\ <<>> \in Seq(Stats)
<1>1. <<>> \in Seq(Stats) /\ <<"health">> \in Seq(Stats)
  BY DEF Stats
<1>2. <<"stamina", "spirit">> \in Seq(Stats)
  BY DEF Stats
<1> DEFINE a == IF config.lockHealth THEN <<"health">> ELSE <<>>
           b == IF config.lockStamina THEN <<"stamina", "spirit">> ELSE <<>>
<1>3. a \in Seq(Stats) /\ b \in Seq(Stats)
  BY <1>1, <1>2
<1>4. ToRelock = a \o b
  BY DEF ToRelock
<1> HIDE DEF a, b
<1>5. a \o b \in Seq(Stats)
  BY <1>3
<1> QED BY <1>1, <1>4, <1>5

\* The resolver's poll begins a relock.
LEMMA PollStep == ASSUME IInv, Poll PROVE IInv'
<1> USE DEF IInv
<1>1. \A t \in Threads : pc'[t] = pc[t] /\ todo'[t] = todo[t]
  BY ThreadsAssumption DEF Poll, Goto, TypeOK
<1>2. config' = config /\ current' = current /\ call' = call /\ pc'[Resolver] = "relock"
  BY DEF Poll, Goto, TypeOK
<1>3. TypeOK'
  <2>1. ToRelock \in Seq(Stats)
    BY ToRelockType
  <2> QED BY <2>1 DEF Poll, Goto, TypeOK, Pcs
<1>4. InRange' /\ Exclusive'
  BY <1>1, <1>2 DEF InRange, Exclusive, Busy
<1>5. Pending'
  BY <1>1, <1>2 DEF Pending
<1>6. Held' /\ Guarded'
  BY <1>1, <1>2 DEF Held, Guarded, Shielded, Busy, Lock
<1> QED BY <1>3, <1>4, <1>5, <1>6

\* The game begins a change.
LEMMA GameStep == ASSUME IInv, NEW t \in Threads, Game(t) PROVE IInv'
<1> DEFINE Kept == /\ todo' \in [Threads \cup {Resolver} -> Seq(Stats)]
                   /\ \A p \in Threads \cup {Resolver} : p # t => todo'[p] = todo[p]
<1>1. PICK e \in Entries, d \in Deltas :
          \/ \E outgoing \in BOOLEAN : Damage(t, e, d, outgoing)
          \/ Cost(t, e, d) \/ SpiritCost(t, e, d) \/ Change(t, e, d)
  BY DEF Game
<1>2. UNCHANGED todo => Kept
  BY DEF IInv, TypeOK
<1>3. CASE \E outgoing \in BOOLEAN : Damage(t, e, d, outgoing)
  <2>1. PICK outgoing \in BOOLEAN : Damage(t, e, d, outgoing)
    BY <1>3
  <2>2. Kept
    <3>1. ToRelock \in Seq(Stats) /\ <<>> \in Seq(Stats)
      BY ToRelockType
    <3>2. PICK q \in Seq(Stats) : todo' = [todo EXCEPT ![t] = q]
      BY <2>1, <3>1 DEF Damage
    <3> QED BY <3>2 DEF IInv, TypeOK
  <2>3. PICK s \in {"relock", "damage", "apply"} : Goto(t, s)
    BY <2>1 DEF Damage
  <2> QED BY <2>1, <2>2, <2>3, BeginStep DEF Damage
<1>4. CASE Cost(t, e, d)
  <2>1. PICK s \in {"ab00", "apply"} : Goto(t, s)
    BY <1>4 DEF Cost
  <2> QED BY <1>2, <1>4, <2>1, BeginStep DEF Cost
<1>5. CASE SpiritCost(t, e, d)
  <2>1. PICK s \in {"spirit", "apply"} : Goto(t, s)
    BY <1>5 DEF SpiritCost
  <2> QED BY <1>2, <1>5, <2>1, BeginStep DEF SpiritCost
<1>6. CASE Change(t, e, d)
  BY <1>2, <1>6, BeginStep DEF Change
<1> QED BY <1>1, <1>3, <1>4, <1>5, <1>6

\* The mod's hooks and the game finish it.
LEMMA ContinueStep == ASSUME IInv, NEW t \in Threads, Continue(t) PROVE IInv'
<1>1. call[t] \in Call
  BY DEF IInv, TypeOK
<1>2. CASE Relock(t)
  BY <1>2, RelockStep
<1>3. CASE DamageCallback(t)
  <2>1. DamageDelta(call[t]) \in Int
    BY <1>1, DeltaTypes DEF IInv
  <2> QED BY <1>3, <2>1, AdjustStep DEF DamageCallback
<1>4. CASE StaminaAb00Callback(t)
  <2>1. Ab00Delta(call[t]) \in Int
    BY <1>1, DeltaTypes DEF IInv
  <2> QED BY <1>4, <2>1, AdjustStep DEF StaminaAb00Callback
<1>5. CASE SpiritDeltaCallback(t)
  <2>1. SpiritDelta(call[t]) \in Int
    BY <1>1, DeltaTypes DEF IInv
  <2> QED BY <1>5, <2>1, AdjustStep DEF SpiritDeltaCallback
<1>6. CASE Apply(t)
  BY <1>6, ApplyStep
<1>7. CASE StatWriteCallback(t)
  BY <1>7, WriteStep
<1>8. CASE Store(t)
  BY <1>8, StoreStep
<1> QED BY <1>2, <1>3, <1>4, <1>5, <1>6, <1>7, <1>8 DEF Continue

\* Stuttering keeps the invariant.
LEMMA StutterStep == ASSUME IInv, UNCHANGED vars PROVE IInv'
BY DEF IInv, vars, TypeOK, InRange, Pending, Exclusive, Held, Guarded, Shielded, Busy, Lock

\* IInv holds in every reachable state.
THEOREM StatInductive == Spec => []IInv
<1>1. IInv /\ [Next]_vars => IInv'
  <2> SUFFICES ASSUME IInv, [Next]_vars PROVE IInv'
    OBVIOUS
  <2>1. CASE MountResolverLoop
    BY <2>1, PollStep, RelockStep DEF MountResolverLoop
  <2>2. ASSUME NEW t \in Threads, Game(t) \/ Continue(t) PROVE IInv'
    BY <2>2, GameStep, ContinueStep
  <2>3. CASE UNCHANGED vars
    BY <2>3, StutterStep
  <2> QED BY <2>1, <2>2, <2>3 DEF Next
<1> QED BY <1>1, InitInvariant, PTL DEF Spec

\* What the hooks hand to the game fits the entry it is for: no value is ever stored
\* outside 0 .. maximum, whatever the multipliers, also where sums wrap around.
THEOREM StatTypes == Spec => []TypeOK
<1>1. IInv => TypeOK
  BY DEF IInv
<1> QED BY <1>1, StatInductive, PTL

\* No change brings a mount's health from its lock or above to below it: the
\* stat-write hook sees every value last, and the relock only ever raises.
THEOREM LockKeeps == Spec => []LockKept
<1>1. IInv => LockKept
  BY DEF IInv, Guarded, LockKept, Shielded, Stored
<1> QED BY <1>1, StatInductive, PTL

(***************************************************************************)
(* Changes of the player, and hits of the player's side: they are adjusted *)
(* up to twice, by hooks that do not know of each other, and what comes of *)
(* them still has the game's meaning.                                      *)
(***************************************************************************)

\* What the delta hooks are to make of the change that t is making ...
MeantDelta(t, d) ==
    LET c == call[t]
        e == c.entry
    IN  /\ Owner[e] = "player" /\ c.asked < 0 => d <= 0
        /\ Owner[e] = "player" /\ c.asked < 0 /\ Reducing(Stat[e]) => d >= c.asked
        /\ Owner[e] = "player" /\ c.asked > 0 => d >= 0
        /\ Owner[e] = "other" /\ c.outgoing /\ c.asked < 0 /\ config.outgoing.num > 0 => d < 0

\* ... and what its new value is to be.
Meant(t, v) ==
    LET c == call[t]
        e == c.entry
    IN  /\ Owner[e] = "player" /\ c.asked < 0 => v <= c.was
        /\ Owner[e] = "player" /\ c.asked < 0 /\ Reducing(Stat[e]) => v >= c.was + c.asked
        /\ Owner[e] = "player" /\ c.asked > 0 /\ NoOverflow => v >= c.was
        /\ /\ Owner[e] = "other" /\ c.outgoing /\ c.asked < 0 /\ c.was > 0
           /\ config.outgoing.num > 0 /\ Maximum[e] < LargeHealth
           => v < c.was

\* Only a mount's stat can move under a change: what has begun from a value ...
Unmoved(t) == Owner[call[t].entry] # "mount" => current[call[t].entry] = call[t].was

\* ... is the game's until a delta hook has seen it, the hook that is for its stat ...
Unseen(t) == LET s == Stat[call[t].entry] IN
    /\ pc[t] \in {"relock", "relockWrite", "damage", "ab00", "spirit"} =>
           call[t].delta = call[t].asked
    /\ pc[t] \in {"relock", "relockWrite", "damage"} \/ call[t].outgoing => s = "health"
    /\ pc[t] = "ab00" => s \in {"stamina", "spirit"}
    /\ pc[t] = "spirit" => s = "spirit"

\* ... and has the game's meaning from then on.
Seen(t) == /\ pc[t] = "apply" => MeantDelta(t, call[t].delta)
           /\ pc[t] \in {"write", "store"} => Meant(t, call[t].value)

Course(t) == Busy(t) => Unmoved(t) /\ Unseen(t) /\ Seen(t)

MeaningInv == \A t \in Threads : Course(t)
\* Facts about products and quotients.
LEMMA DivLow == ASSUME NEW x \in Int, NEW d \in Int, NEW n \in Nat \ {0}, d * n <= x
                PROVE  d <= x \div n
OBVIOUS

LEMMA DivNeg == ASSUME NEW x \in Int, NEW n \in Nat \ {0}, x < 0 PROVE x \div n < 0
OBVIOUS

LEMMA DivUp == ASSUME NEW x \in Int, NEW d \in Int, NEW n \in Nat \ {0}, x <= d * n
               PROVE  x \div n <= d
OBVIOUS

LEMMA TimesUp == ASSUME NEW x \in Nat, NEW a \in Nat, NEW b \in Nat, a <= b
                 PROVE  x * a <= x * b
OBVIOUS

LEMMA TimesDown == ASSUME NEW x \in Int, x <= 0, NEW a \in Nat, NEW b \in Nat, a <= b
                   PROVE  x * b <= x * a
OBVIOUS

LEMMA TimesNeg == ASSUME NEW x \in Int, x < 0, NEW a \in Nat
                  PROVE  x * a <= 0 /\ (a > 0 => x * a < 0)
OBVIOUS

LEMMA TimesBoth == ASSUME NEW a \in Nat, NEW b \in Nat, NEW c \in Nat, NEW d \in Nat,
                          a <= b, c <= d
                   PROVE  a * c <= b * d
OBVIOUS

LEMMA ModId == ASSUME NEW y \in Nat, NEW n \in Nat \ {0}, y < n PROVE y % n = y
OBVIOUS

\* A sum that stays in the range does not wrap around.
LEMMA WrapId == ASSUME NEW x \in MinInt .. MaxInt PROVE Wrap(x) = x
<1> DEFINE y == x - MinInt
           n == MaxInt - MinInt + 1
<1>1. MaxInt \in Nat /\ MinInt \in Int /\ n \in Nat \ {0} /\ y \in Nat /\ y < n
  BY NumbersAssumption DEF MinInt
<1>2. Wrap(x) = (y % n) + MinInt
  BY DEF Wrap
<1> HIDE DEF y, n
<1>3. y % n = y
  BY <1>1, ModId
<1> QED BY <1>1, <1>2, <1>3 DEF y

\* Scaling keeps the sign, and a multiplier of at most one never takes the result
\* further from zero than x (ScaleDelta and ClampScaledSignedDelta).
LEMMA FloorSign ==
    ASSUME NEW x \in Int, NEW r \in Ratio
    PROVE  /\ x >= 0 => Floor(x, r) >= 0
           /\ x < 0 => Floor(x, r) <= 0 /\ (r.num > 0 => Floor(x, r) < 0)
<1>1. r.num \in Nat /\ r.den \in Nat \ {0}
  BY DEF Ratio
<1> DEFINE y == x * r.num
<1>2. y \in Int /\ (x >= 0 => y >= 0) /\ (x < 0 => y <= 0 /\ (r.num > 0 => y < 0))
  BY <1>1, TimesNeg
<1>3. Floor(x, r) = y \div r.den
  BY DEF Floor
<1> HIDE DEF y
<1>4. x >= 0 => y \div r.den >= 0
  <2>1. y >= 0 => 0 * r.den <= y
    BY <1>1, <1>2
  <2> QED BY <1>1, <1>2, <2>1, DivLow
<1>5. x < 0 => y \div r.den <= 0
  <2>1. y <= 0 => y <= 0 * r.den
    BY <1>1, <1>2
  <2> QED BY <1>1, <1>2, <2>1, DivUp
<1>6. x < 0 /\ r.num > 0 => y \div r.den < 0
  BY <1>1, <1>2, DivNeg
<1> QED BY <1>3, <1>4, <1>5, <1>6

LEMMA FloorReduces ==
    ASSUME NEW x \in Int, NEW r \in Ratio, AtMostOne(r)
    PROVE  (x >= 0 => Floor(x, r) <= x) /\ (x < 0 => Floor(x, r) >= x)
<1>1. r.num \in Nat /\ r.den \in Nat \ {0} /\ r.num <= r.den
  BY DEF Ratio, AtMostOne
<1> DEFINE y == x * r.num
<1>2. y \in Int
  BY <1>1
<1>3. x >= 0 => y <= x * r.den
  BY <1>1, TimesUp
<1>4. x < 0 => x * r.den <= y
  BY <1>1, TimesDown
<1>5. Floor(x, r) = y \div r.den
  BY DEF Floor
<1> HIDE DEF y
<1> QED BY <1>1, <1>2, <1>3, <1>4, <1>5, DivLow, DivUp

LEMMA FloorMonotone ==
    ASSUME NEW x \in Nat, NEW z \in Nat, x <= z, NEW r \in Ratio
    PROVE  Floor(x, r) <= Floor(z, r)
<1>1. r.num \in Nat /\ r.den \in Nat \ {0}
  BY DEF Ratio
<1> DEFINE a == x * r.num
           b == z * r.num
<1>2. a \in Int /\ b \in Int
  BY <1>1
<1>3. a <= b
  <2>1. r.num * x <= r.num * z
    BY <1>1, TimesUp
  <2> QED BY <1>1, <2>1
<1>4. Floor(x, r) = a \div r.den /\ Floor(z, r) = b \div r.den
  BY DEF Floor
<1> HIDE DEF a, b
<1>5. a \div r.den \in Int /\ (a \div r.den) * r.den <= a
  BY <1>1, <1>2
<1>6. (a \div r.den) * r.den <= b /\ b \in Int /\ a \div r.den \in Int
  <2> DEFINE q == (a \div r.den) * r.den
  <2>1. q \in Int
    BY <1>1, <1>5
  <2> HIDE DEF q
  <2>2. q <= a
    BY <1>5 DEF q
  <2>3. q <= b
    BY <1>2, <1>3, <2>1, <2>2
  <2> QED BY <1>2, <1>5, <2>3 DEF q
<1>7. a \div r.den <= b \div r.den
  BY <1>1, <1>6, DivLow
<1> QED BY <1>4, <1>7

\* The same of what the hooks use, which saturate.
LEMMA ScaledMagnitude ==
    ASSUME NEW x \in Nat, NEW r \in Ratio
    PROVE  /\ ScaleDelta(x, r) \in 0 .. MaxInt /\ ScaleDelta(x, r) <= Floor(x, r)
           /\ AtMostOne(r) => ScaleDelta(x, r) <= x
<1>1. MaxInt \in Nat /\ Floor(x, r) \in Int /\ Floor(x, r) >= 0
  BY NumbersAssumption, FloorInt, FloorSign
<1>2. AtMostOne(r) => Floor(x, r) <= x
  BY FloorReduces
<1> QED BY <1>1, <1>2 DEF ScaleDelta, ClampToRange

LEMMA ScaledHarm ==
    ASSUME NEW x \in Int, x < 0, NEW r \in Ratio
    PROVE  /\ ScaleSigned(x, r) \in Int /\ ScaleSigned(x, r) <= 0
           /\ r.num > 0 => ScaleSigned(x, r) < 0
           /\ AtMostOne(r) => ScaleSigned(x, r) >= x
<1>1. MaxInt \in Nat /\ MinInt \in Int /\ MinInt < 0 /\ Floor(x, r) \in Int
      /\ Floor(x, r) <= 0 /\ (r.num > 0 => Floor(x, r) < 0)
  BY NumbersAssumption, FloorInt, FloorSign DEF MinInt
<1>2. AtMostOne(r) => Floor(x, r) >= x
  BY FloorReduces
<1> QED BY <1>1, <1>2 DEF ScaleSigned, ClampToRange

\* Multipliers of at most one have a product of at most one.
LEMMA TimesReduces ==
    ASSUME NEW p \in Ratio, NEW q \in Ratio, AtMostOne(p), AtMostOne(q)
    PROVE  AtMostOne(Times(p, q))
<1>1. p.num * q.num <= p.den * q.den
  BY TimesBoth DEF Ratio, AtMostOne
<1> QED BY <1>1 DEF AtMostOne, Times

\* A player spared by every multiplier is spared by the stat-write hook as well:
\* resistances are at most 99 percent.
LEMMA ConsumptionReduces ==
    ASSUME config \in Configs, NEW s \in Stats, Reducing(s)
    PROVE  AtMostOne(Consumption(s))
<1> DEFINE fallback == IF config.incomingFallback THEN config.incoming ELSE One
           both == Times(config.consume[s], fallback)
<1>1. config.consume[s] \in Ratio /\ fallback \in Ratio /\ Resisted \in Ratio
      /\ both \in Ratio
  BY ConfigTypes, TimesRatio
<1>2. config.resist \in 0 .. 99
  BY ConfigsAssumption DEF Config
<1>3. AtMostOne(config.consume[s]) /\ AtMostOne(fallback) /\ AtMostOne(Resisted)
  BY <1>2 DEF Reducing, AtMostOne, One, Resisted
<1> HIDE DEF fallback
<1>4. AtMostOne(both)
  BY <1>1, <1>3, TimesReduces
<1>5. Consumption(s) = IF s # "health" THEN config.consume[s] ELSE Times(both, Resisted)
  BY DEF Consumption, both, fallback
<1> HIDE DEF both
<1> QED BY <1>1, <1>3, <1>4, <1>5, TimesReduces

\* The delta hooks give a change the game's meaning.
LEMMA CallType ==
    ASSUME TypeOK, NEW t \in Threads
    PROVE  LET c == call[t] IN
           /\ c.entry \in Entries /\ c.asked \in Int /\ c.was \in Nat /\ c.delta \in Int
           /\ c.value \in Int /\ Stat[c.entry] \in Stats
           /\ Maximum[c.entry] \in Nat \ {0} /\ Maximum[c.entry] <= MaxInt
           /\ current[c.entry] \in 0 .. Maximum[c.entry]
BY EntriesAssumption, NumbersAssumption DEF TypeOK, Call

LEMMA ChangeMeant ==
    ASSUME TypeOK, NEW s \in Stats, NEW d \in Int
    PROVE  /\ d < 0 => ScaledChange(s, d) <= 0
           /\ d < 0 /\ AtMostOne(config.consume[s]) => ScaledChange(s, d) >= d
           /\ d > 0 => ScaledChange(s, d) >= 0
<1>1. config.consume[s] \in Ratio /\ config.heal[s] \in Ratio
  BY ConfigTypes DEF TypeOK
<1>2. CASE d < 0
  <2>1. -d \in Nat
    BY <1>2
  <2> DEFINE m == ScaleDelta(-d, config.consume[s])
  <2>2. m \in 0 .. MaxInt /\ (AtMostOne(config.consume[s]) => m <= -d)
    BY <1>1, <2>1, ScaledMagnitude
  <2>3. ScaledChange(s, d) = -m
    BY <1>2 DEF ScaledChange
  <2> HIDE DEF m
  <2> QED BY <1>2, <2>2, <2>3, NumbersAssumption
<1>3. CASE d >= 0
  <2>1. ScaleDelta(d, config.heal[s]) \in 0 .. MaxInt
    BY <1>1, <1>3, ScaledMagnitude
  <2> QED BY <1>3, <2>1, NumbersAssumption DEF ScaledChange
<1> QED BY <1>2, <1>3

LEMMA DamageMeant ==
    ASSUME TypeOK, NEW t \in Threads, pc[t] = "damage", Unseen(t)
    PROVE  MeantDelta(t, DamageDelta(call[t]))
<1> DEFINE c == call[t]
           e == c.entry
           r == Times(config.consume["health"], config.incoming)
<1>1. c.delta = c.asked /\ c.asked \in Int /\ Stat[e] = "health" /\ "health" \in Stats
  BY CallType DEF Unseen, Stats
<1>2. config.outgoing \in Ratio /\ r \in Ratio
  BY ConfigTypes, TimesRatio DEF TypeOK
<1>3. CASE Owner[e] = "player" /\ c.asked < 0
  <2>1. DamageDelta(c) = ScaleSigned(c.asked, r)
    BY <1>1, <1>3 DEF DamageDelta, ScaledHit
  <2>2. Reducing("health") => AtMostOne(r)
    BY <1>1, ConfigTypes, TimesReduces DEF TypeOK, Reducing
  <2> HIDE DEF r
  <2> QED BY <1>1, <1>2, <1>3, <2>1, <2>2, ScaledHarm DEF MeantDelta
<1>4. CASE Owner[e] = "player" /\ c.asked > 0
  <2>1. DamageDelta(c) = ScaledChange("health", c.asked)
    BY <1>1, <1>4 DEF DamageDelta
  <2> QED BY <1>1, <1>4, <2>1, ChangeMeant DEF MeantDelta
<1>5. CASE Owner[e] = "other" /\ c.outgoing /\ c.asked < 0
  <2>1. DamageDelta(c) = ScaleSigned(c.asked, config.outgoing)
    BY <1>1, <1>5 DEF DamageDelta
  <2> QED BY <1>1, <1>2, <1>5, <2>1, ScaledHarm DEF MeantDelta
<1> QED BY <1>3, <1>4, <1>5 DEF MeantDelta

LEMMA SpiritMeant ==
    ASSUME TypeOK, NEW t \in Threads, pc[t] \in {"ab00", "spirit"}, Unseen(t),
           Stat[call[t].entry] = "spirit"
    PROVE  MeantDelta(t, SpiritDelta(call[t]))
<1> DEFINE c == call[t]
           d == SpiritDelta(c)
<1>1. c.delta = c.asked /\ c.asked \in Int /\ ~c.outgoing /\ "spirit" \in Stats
  BY CallType DEF Unseen, Stats
<1>2. Owner[c.entry] = "player" => d = c.asked \/ d = ScaledChange("spirit", c.asked)
  BY <1>1 DEF SpiritDelta
<1> HIDE DEF d
<1> QED BY <1>1, <1>2, ChangeMeant DEF MeantDelta, Reducing, d

LEMMA Ab00Meant ==
    ASSUME TypeOK, NEW t \in Threads, pc[t] = "ab00", Unseen(t)
    PROVE  MeantDelta(t, Ab00Delta(call[t]))
<1> DEFINE c == call[t]
<1>1. c.delta = c.asked /\ c.asked \in Int /\ ~c.outgoing /\ "stamina" \in Stats
  BY CallType DEF Unseen, Stats
<1>2. CASE Stat[c.entry] = "stamina"
  <2> DEFINE d == StaminaDelta(c)
  <2>1. Owner[c.entry] = "player" => d = ScaledChange("stamina", c.asked)
    BY <1>1 DEF StaminaDelta
  <2>2. Ab00Delta(c) = d
    BY <1>2 DEF Ab00Delta
  <2> HIDE DEF d
  <2> QED BY <1>1, <1>2, <2>1, <2>2, ChangeMeant DEF MeantDelta, Reducing
<1>3. CASE Stat[c.entry] = "spirit"
  <2>1. Ab00Delta(c) = SpiritDelta(c) \/ (c.asked < 0 /\ Ab00Delta(c) = 0)
    BY <1>1, <1>3 DEF Ab00Delta
  <2>2. MeantDelta(t, SpiritDelta(c))
    BY <1>3, SpiritMeant
  <2>3. c.asked < 0 => MeantDelta(t, 0)
    BY <1>1 DEF MeantDelta
  <2> QED BY <2>1, <2>2, <2>3
<1> QED BY <1>2, <1>3 DEF Unseen

\* The game's sum keeps it ...
LEMMA ApplyMeant ==
    ASSUME TypeOK, NEW t \in Threads, Unmoved(t), MeantDelta(t, call[t].delta)
    PROVE  LET e == call[t].entry IN
           Meant(t, ClampToRange(current[e] + call[t].delta, 0, Maximum[e]))
BY CallType DEF Unmoved, MeantDelta, Meant, ClampToRange

\* ... and so does the stat-write hook, which scales what the delta hooks have scaled.
LEMMA PlayerHarmMeant ==
    ASSUME TypeOK, NEW e \in Entries, NEW old \in 0 .. Maximum[e], NEW v \in Nat, v < old
    PROVE  /\ PlayerWrite(e, old, v) <= old
           /\ Reducing(Stat[e]) => PlayerWrite(e, old, v) >= v
<1>1. /\ Maximum[e] \in Nat /\ Maximum[e] <= MaxInt /\ MaxInt \in Nat /\ MinInt \in Int
      /\ MinInt < 0 /\ old \in Nat /\ old <= Maximum[e] /\ Stat[e] \in Stats /\ old - v \in Nat
  BY EntriesAssumption, NumbersAssumption DEF MinInt
<1> DEFINE s == ScaleDelta(old - v, Consumption(Stat[e]))
<1>2. Consumption(Stat[e]) \in Ratio /\ (Reducing(Stat[e]) => AtMostOne(Consumption(Stat[e])))
  BY <1>1, ConsumptionRatio, ConsumptionReduces DEF TypeOK
<1>3. s \in 0 .. MaxInt /\ (Reducing(Stat[e]) => s <= old - v)
  BY <1>1, <1>2, ScaledMagnitude
<1>4. PlayerWrite(e, old, v) = ClampToRange(Wrap(v + ((old - v) - s)), 0, Maximum[e])
  BY DEF PlayerWrite
<1> HIDE DEF s
<1>5. v + ((old - v) - s) = old - s
  BY <1>1, <1>3
<1>6. old - s \in MinInt .. MaxInt
  BY <1>1, <1>3 DEF MinInt
<1>7. PlayerWrite(e, old, v) = ClampToRange(old - s, 0, Maximum[e])
  BY <1>4, <1>5, <1>6, WrapId
<1> QED BY <1>1, <1>3, <1>7 DEF ClampToRange

LEMMA PlayerHealMeant ==
    ASSUME TypeOK, NoOverflow, NEW e \in Entries, NEW old \in Nat,
           NEW v \in 0 .. Maximum[e], v > old
    PROVE  PlayerWrite(e, old, v) >= old
<1>1. /\ Maximum[e] \in Nat /\ Maximum[e] <= MaxInt /\ MaxInt \in Nat /\ MinInt \in Int
      /\ MinInt < 0 /\ v \in Nat /\ Stat[e] \in Stats
      /\ v - old \in Nat /\ v - old <= Maximum[e]
  BY EntriesAssumption, NumbersAssumption DEF MinInt
<1> DEFINE r == config.heal[Stat[e]]
           s == ScaleDelta(v - old, r)
<1>2. r \in Ratio
  BY <1>1, ConfigTypes DEF TypeOK
<1>3. s \in 0 .. MaxInt /\ s <= Floor(v - old, r)
  BY <1>1, <1>2, ScaledMagnitude
<1>4. Floor(v - old, r) <= Floor(Maximum[e], r) /\ Floor(v - old, r) \in Int
      /\ Floor(Maximum[e], r) \in Int
  BY <1>1, <1>2, FloorMonotone, FloorInt
<1>5. Maximum[e] + Floor(Maximum[e], r) <= MaxInt
  BY DEF NoOverflow, TypeOK
<1>6. PlayerWrite(e, old, v) = ClampToRange(Wrap(v + (s - (v - old))), 0, Maximum[e])
  BY <1>1 DEF PlayerWrite
<1> HIDE DEF s, r
<1>7. v + (s - (v - old)) = old + s
  BY <1>1, <1>3
<1>8. old + s \in MinInt .. MaxInt
  BY <1>1, <1>3, <1>4, <1>5
<1>9. PlayerWrite(e, old, v) = ClampToRange(old + s, 0, Maximum[e])
  BY <1>6, <1>7, <1>8, WrapId
<1> QED BY <1>1, <1>3, <1>9 DEF ClampToRange

LEMMA HitMeant ==
    ASSUME TypeOK, NEW e \in Entries, NEW old \in 0 .. Maximum[e], NEW v \in Nat, v < old,
           config.outgoing.num > 0
    PROVE  OutgoingWrite(e, old, v) < old
<1>1. Maximum[e] \in Nat /\ old \in Nat /\ old <= Maximum[e] /\ old - v \in Nat /\ MaxInt \in Nat
  BY EntriesAssumption, NumbersAssumption
<1> DEFINE s == ScaleDelta(old - v, config.outgoing)
           damage == IF s = 0 THEN 1 ELSE s
<1>2. s \in 0 .. MaxInt
  BY <1>1, ConfigTypes, ScaledMagnitude DEF TypeOK
<1>3. \/ OutgoingWrite(e, old, v) = v
      \/ OutgoingWrite(e, old, v) = ClampToRange(old - damage, 0, Maximum[e])
  BY DEF OutgoingWrite
<1> HIDE DEF s
<1>4. damage \in Nat /\ damage > 0
  BY <1>1, <1>2
<1> HIDE DEF damage
<1> QED BY <1>1, <1>3, <1>4 DEF ClampToRange

LEMMA WriteMeant ==
    ASSUME TypeOK, NEW t \in Threads, Unmoved(t), Unseen(t),
           NEW v \in 0 .. Maximum[call[t].entry], Meant(t, v)
    PROVE  Meant(t, StatWrite(call[t].entry, current[call[t].entry], v))
<1> DEFINE c == call[t]
           e == c.entry
           old == current[e]
<1>1. /\ e \in Entries /\ c.asked \in Int /\ c.was \in Nat /\ old \in 0 .. Maximum[e]
      /\ Maximum[e] \in Nat /\ v \in Nat /\ old \in Nat
  BY CallType
<1>2. CASE Owner[e] = "player"
  <2>1. old = c.was
    BY <1>2 DEF Unmoved
  <2>2. StatWrite(e, old, v) = PlayerWrite(e, old, v)
    BY <1>1, <1>2 DEF StatWrite, MountWrite
  <2> DEFINE w == PlayerWrite(e, old, v)
  <2>3. v < old => w <= old /\ (Reducing(Stat[e]) => w >= v)
    BY <1>1, PlayerHarmMeant
  <2>4. v > old /\ NoOverflow => w >= old
    BY <1>1, PlayerHealMeant
  <2>5. v = old => w = v
    BY <1>1 DEF PlayerWrite
  <2>6. w \in Int
    <3>1. StatWrite(e, old, v) \in 0 .. Maximum[e]
      BY <1>1, StatWriteRange
    <3> QED BY <2>2, <3>1
  <2> HIDE DEF w
  <2>7. Meant(t, w)
    BY <1>1, <1>2, <2>1, <2>3, <2>4, <2>5, <2>6 DEF Meant
  <2> QED BY <2>2, <2>7 DEF w
<1>3. CASE Owner[e] = "other"
  <2> SUFFICES ASSUME c.outgoing, c.asked < 0, c.was > 0, config.outgoing.num > 0,
                      Maximum[e] < LargeHealth
               PROVE  StatWrite(e, old, v) < c.was
    BY <1>3 DEF Meant
  <2>1. old = c.was /\ v < old
    BY <1>3 DEF Unmoved, Meant
  <2>2. StatWrite(e, old, v) = OutgoingWrite(e, old, v)
    BY <1>1, <1>3, NumbersAssumption DEF StatWrite, MountWrite
  <2> QED BY <1>1, <2>1, <2>2, HitMeant
<1> QED BY <1>2, <1>3 DEF Meant

\* What happens to other entries, and to a mount's, is of no concern to a change.
LEMMA CourseKept ==
    ASSUME NEW t \in Threads, Course(t),
           pc'[t] = pc[t], call'[t] = call[t], config' = config,
           Busy(t) /\ Owner[call[t].entry] # "mount" =>
               current'[call[t].entry] = current[call[t].entry]
    PROVE  Course(t)'
BY DEF Course, Busy, Unmoved, Unseen, Seen, MeantDelta, Meant, Reducing

LEMMA CourseInit == Init => MeaningInv
BY DEF Init, MeaningInv, Course, Busy

\* A change begins unseen, or unseen by any delta hook at all.
LEMMA CourseGame == ASSUME IInv, MeaningInv, NEW t \in Threads, Game(t) PROVE MeaningInv'
<1>1. PICK e \in Entries, d \in Deltas :
          \/ \E outgoing \in BOOLEAN : Damage(t, e, d, outgoing)
          \/ Cost(t, e, d) \/ SpiritCost(t, e, d) \/ Change(t, e, d)
  BY DEF Game
<1>2. PICK outgoing \in BOOLEAN : /\ Begin(t, e, d, outgoing)
                                  /\ outgoing => Stat[e] = "health"
  BY <1>1 DEF Damage, Cost, SpiritCost, Change
<1>3. /\ config' = config /\ current' = current /\ d \in Int
      /\ call'[t] = [entry |-> e, asked |-> d, was |-> current[e],
                     outgoing |-> outgoing, delta |-> d, value |-> 0]
      /\ \A u \in Threads : u # t => call'[u] = call[u]
  BY <1>2, NumbersAssumption DEF Begin, IInv, TypeOK
<1>4. /\ \A u \in Threads : u # t => pc'[u] = pc[u]
      /\ \/ pc'[t] \in {"relock", "damage"} /\ Stat[e] = "health"
         \/ pc'[t] = "ab00" /\ Stat[e] \in {"stamina", "spirit"}
         \/ pc'[t] = "spirit" /\ Stat[e] = "spirit"
         \/ pc'[t] = "apply"
  BY <1>1 DEF Damage, Cost, SpiritCost, Change, Goto, IInv, TypeOK
<1>5. Course(t)'
  <2>1. Unmoved(t)'
    BY <1>3 DEF Unmoved
  <2>2. Unseen(t)'
    BY <1>2, <1>3, <1>4 DEF Unseen
  <2>3. MeantDelta(t, d)'
    BY <1>3 DEF MeantDelta
  <2>4. Seen(t)'
    <3>1. pc'[t] \notin {"write", "store"} /\ call'[t].delta = d
      BY <1>3, <1>4
    <3> QED BY <2>3, <3>1 DEF Seen, MeantDelta
  <2> QED BY <2>1, <2>2, <2>4 DEF Course
<1>6. ASSUME NEW u \in Threads, u # t PROVE Course(u)'
  BY <1>3, <1>4, <1>6, CourseKept DEF MeaningInv
<1> QED BY <1>5, <1>6 DEF MeaningInv

\* A relock only ever writes a mount's stat, and leaves the change that waits for it
\* unseen.
LEMMA CourseRelock ==
    ASSUME IInv, MeaningInv, NEW p \in Threads \cup {Resolver}, Relock(p)
    PROVE  MeaningInv'
<1>1. config' = config /\ call' = call
  BY DEF Relock, RelockRead, RelockWrite, RelockDone
<1>2. \A e \in Entries : Owner[e] # "mount" => current'[e] = current[e]
  BY DEF Relock, RelockRead, RelockWrite, RelockDone, MountEntry, IInv, TypeOK
<1>3. /\ pc[p] \in {"relock", "relockWrite"}
      /\ pc'[p] \in {"relock", "relockWrite", "damage"} \/ p = Resolver
      /\ \A q \in Threads \cup {Resolver} : q # p => pc'[q] = pc[q]
  BY DEF Relock, RelockRead, RelockWrite, RelockDone, Goto, IInv, TypeOK
<1>4. \A t \in Threads : call[t].entry \in Entries
  BY CallType DEF IInv
<1>5. ASSUME NEW t \in Threads PROVE Course(t)'
  <2>1. CASE t # p
    BY <1>1, <1>2, <1>3, <1>4, <2>1, CourseKept DEF MeaningInv
  <2>2. CASE t = p
    <3>1. pc[t] \in {"relock", "relockWrite"} /\ pc'[t] \in {"relock", "relockWrite", "damage"}
      BY <1>3, <2>2, ThreadsAssumption
    <3>2. Unmoved(t) /\ Unseen(t)
      BY <3>1 DEF MeaningInv, Course, Busy
    <3>3. Unmoved(t)' /\ Unseen(t)' /\ Seen(t)'
      BY <1>1, <1>2, <1>4, <3>1, <3>2 DEF Unmoved, Unseen, Seen
    <3> QED BY <3>3 DEF Course
  <2> QED BY <2>1, <2>2
<1> QED BY <1>5 DEF MeaningInv

\* A delta hook.
LEMMA CourseAdjust ==
    ASSUME IInv, MeaningInv, NEW t \in Threads, NEW s \in {"damage", "ab00", "spirit"},
           NEW d \in Int, Adjust(t, s, d), MeantDelta(t, d)
    PROVE  MeaningInv'
<1>1. /\ pc[t] = s /\ pc'[t] = "apply" /\ config' = config /\ current' = current
      /\ \A u \in Threads : u # t => pc'[u] = pc[u] /\ call'[u] = call[u]
      /\ call'[t] = [call[t] EXCEPT !.delta = d] /\ call[t] \in Call
  BY DEF Adjust, Goto, IInv, TypeOK
<1>2. /\ call'[t].entry = call[t].entry /\ call'[t].was = call[t].was
      /\ call'[t].asked = call[t].asked /\ call'[t].outgoing = call[t].outgoing
      /\ call'[t].delta = d
  BY <1>1 DEF Call
<1>3. Unmoved(t) /\ Unseen(t)
  BY <1>1 DEF MeaningInv, Course, Busy
<1>4. Unmoved(t)' /\ Unseen(t)'
  BY <1>1, <1>2, <1>3 DEF Unmoved, Unseen
<1>5. Seen(t)'
  BY <1>1, <1>2 DEF Seen, MeantDelta, Reducing
<1>6. ASSUME NEW u \in Threads, u # t PROVE Course(u)'
  BY <1>1, <1>6, CourseKept DEF MeaningInv
<1> QED BY <1>4, <1>5, <1>6 DEF MeaningInv, Course

\* The value computed, by the game or by the stat-write hook.
LEMMA CourseValue ==
    ASSUME IInv, MeaningInv, NEW t \in Threads, Busy(t), NEW s \in {"write", "store"},
           NEW v \in Int, call' = [call EXCEPT ![t].value = v], Goto(t, s),
           UNCHANGED <<config, current, todo>>, Meant(t, v)
    PROVE  MeaningInv'
<1>1. /\ pc'[t] = s /\ config' = config /\ current' = current
      /\ \A u \in Threads : u # t => pc'[u] = pc[u] /\ call'[u] = call[u]
      /\ call'[t] = [call[t] EXCEPT !.value = v] /\ call[t] \in Call
  BY DEF Goto, IInv, TypeOK
<1>2. /\ call'[t].entry = call[t].entry /\ call'[t].was = call[t].was
      /\ call'[t].asked = call[t].asked /\ call'[t].outgoing = call[t].outgoing
      /\ call'[t].value = v
  BY <1>1 DEF Call
<1>3. Unmoved(t) /\ Unseen(t)
  BY DEF MeaningInv, Course
<1>4. Unmoved(t)' /\ Unseen(t)'
  BY <1>1, <1>2, <1>3 DEF Unmoved, Unseen
<1>5. Seen(t)'
  BY <1>1, <1>2 DEF Seen, Meant, Reducing
<1>6. ASSUME NEW u \in Threads, u # t PROVE Course(u)'
  BY <1>1, <1>6, CourseKept DEF MeaningInv
<1> QED BY <1>4, <1>5, <1>6 DEF MeaningInv, Course

LEMMA CourseApply == ASSUME IInv, MeaningInv, NEW t \in Threads, Apply(t) PROVE MeaningInv'
<1> DEFINE e == call[t].entry
           v == ClampToRange(current[e] + call[t].delta, 0, Maximum[e])
<1>1. Busy(t) /\ Unmoved(t) /\ MeantDelta(t, call[t].delta)
  BY DEF Apply, Busy, MeaningInv, Course, Seen
<1>2. Meant(t, v)
  BY <1>1, ApplyMeant DEF IInv
<1>3. v \in Int
  BY CallType DEF ClampToRange, IInv
<1>4. call' = [call EXCEPT ![t].value = v] /\ UNCHANGED <<config, current, todo>>
  BY DEF Apply
<1>5. PICK s \in {"write", "store"} : Goto(t, s)
  BY DEF Apply
<1> HIDE DEF v
<1> QED BY <1>1, <1>2, <1>3, <1>4, <1>5, CourseValue

LEMMA CourseWrite ==
    ASSUME IInv, MeaningInv, NEW t \in Threads, StatWriteCallback(t)
    PROVE  MeaningInv'
<1> DEFINE e == call[t].entry
           v == StatWrite(e, current[e], call[t].value)
<1>1. /\ Busy(t) /\ Unmoved(t) /\ Unseen(t) /\ Meant(t, call[t].value)
      /\ e \in Entries /\ call[t].value \in 0 .. Maximum[e]
  BY CallType DEF StatWriteCallback, Busy, MeaningInv, Course, Seen, IInv, InRange
<1>2. Meant(t, v)
  BY <1>1, WriteMeant DEF IInv
<1>3. v \in 0 .. Maximum[e] /\ Maximum[e] \in Nat
  BY <1>1, StatWriteRange, EntriesAssumption DEF IInv
<1>4. call' = [call EXCEPT ![t].value = v] /\ Goto(t, "store")
      /\ UNCHANGED <<config, current, todo>>
  BY DEF StatWriteCallback, IInv, TypeOK
<1> HIDE DEF v
<1>5. v \in Int
  BY <1>3
<1> QED BY <1>1, <1>2, <1>4, <1>5, CourseValue

\* The store is of an entry no other change is of.
LEMMA CourseStore == ASSUME IInv, MeaningInv, NEW t \in Threads, Store(t) PROVE MeaningInv'
<1>1. /\ pc[t] = "store" /\ pc'[t] = "idle" /\ config' = config
      /\ \A u \in Threads : u # t => pc'[u] = pc[u] /\ call'[u] = call[u]
      /\ \A e \in Entries : e # call[t].entry => current'[e] = current[e]
  BY DEF Store, Goto, IInv, TypeOK
<1>2. Course(t)'
  BY <1>1 DEF Course, Busy
<1>3. ASSUME NEW u \in Threads, u # t PROVE Course(u)'
  <2>1. Busy(u) => call[u].entry # call[t].entry /\ call[u].entry \in Entries
    BY <1>1, <1>3, CallType DEF IInv, Exclusive, Busy
  <2> QED BY <1>1, <1>3, <2>1, CourseKept DEF MeaningInv
<1> QED BY <1>2, <1>3 DEF MeaningInv

LEMMA CourseStep == ASSUME IInv, MeaningInv, [Next]_vars PROVE MeaningInv'
<1>1. CASE Poll
  <2>1. /\ config' = config /\ call' = call /\ current' = current
        /\ \A t \in Threads : pc'[t] = pc[t]
    BY <1>1, ThreadsAssumption DEF Poll, Goto, IInv, TypeOK
  <2> QED BY <2>1, CourseKept DEF MeaningInv
<1>2. ASSUME NEW p \in Threads \cup {Resolver}, Relock(p) PROVE MeaningInv'
  BY <1>2, CourseRelock
<1>3. ASSUME NEW t \in Threads, Game(t) PROVE MeaningInv'
  BY <1>3, CourseGame
<1>4. ASSUME NEW t \in Threads,
             DamageCallback(t) \/ StaminaAb00Callback(t) \/ SpiritDeltaCallback(t)
      PROVE  MeaningInv'
  <2>1. /\ DamageDelta(call[t]) \in Int /\ Ab00Delta(call[t]) \in Int
        /\ SpiritDelta(call[t]) \in Int
    BY DeltaTypes DEF IInv, TypeOK
  <2>2. Unseen(t) /\ TypeOK
    BY <1>4 DEF DamageCallback, StaminaAb00Callback, SpiritDeltaCallback, Adjust,
                MeaningInv, Course, Busy, IInv
  <2>3. CASE DamageCallback(t)
    <3>1. MeantDelta(t, DamageDelta(call[t]))
      BY <2>2, <2>3, DamageMeant DEF DamageCallback, Adjust
    <3> QED BY <2>1, <2>3, <3>1, CourseAdjust DEF DamageCallback
  <2>4. CASE StaminaAb00Callback(t)
    <3>1. MeantDelta(t, Ab00Delta(call[t]))
      BY <2>2, <2>4, Ab00Meant DEF StaminaAb00Callback, Adjust
    <3> QED BY <2>1, <2>4, <3>1, CourseAdjust DEF StaminaAb00Callback
  <2>5. CASE SpiritDeltaCallback(t)
    <3>1. pc[t] = "spirit"
      BY <2>5 DEF SpiritDeltaCallback, Adjust
    <3>2. Stat[call[t].entry] = "spirit"
      BY <2>2, <3>1 DEF Unseen
    <3>3. MeantDelta(t, SpiritDelta(call[t]))
      BY <2>2, <3>1, <3>2, SpiritMeant
    <3> QED BY <2>1, <2>5, <3>3, CourseAdjust DEF SpiritDeltaCallback
  <2> QED BY <1>4, <2>3, <2>4, <2>5
<1>5. ASSUME NEW t \in Threads, Apply(t) \/ StatWriteCallback(t) \/ Store(t)
      PROVE  MeaningInv'
  BY <1>5, CourseApply, CourseWrite, CourseStore
<1>6. CASE UNCHANGED vars
  BY <1>6, CourseKept DEF vars, MeaningInv
<1> QED BY <1>1, <1>2, <1>3, <1>4, <1>5, <1>6 DEF Next, MountResolverLoop, Continue

\* Whatever the hooks make of a change, and whatever else happens to the player's
\* stats and the foe's meanwhile, its value keeps the meaning of the game's.
THEOREM ChangesKeepTheirMeaning == Spec => []MeaningInv
<1>1. IInv /\ MeaningInv /\ [Next]_vars => MeaningInv'
  BY CourseStep
<1> QED BY <1>1, CourseInit, StatInductive, PTL DEF Spec

\* No hit and no cost is stored that cost the player more than the game asked for,
\* where no multiplier raises them.
THEOREM HarmIsReduced == Spec => []HarmReduced
<1>1. MeaningInv => HarmReduced
  BY DEF MeaningInv, Course, Busy, Seen, Meant, HarmReduced, Stored
<1> QED BY <1>1, ChangesKeepTheirMeaning, PTL

\* A hit of the player's side takes something off, however small the multiplier.
THEOREM HitsDoCount == Spec => []HitsCount
<1>1. MeaningInv => HitsCount
  BY DEF MeaningInv, Course, Busy, Seen, Meant, HitsCount, Stored
<1> QED BY <1>1, ChangesKeepTheirMeaning, PTL

\* The half of Direction that is about harm: no hit and no cost is stored that leaves
\* the player with more than there was.
HarmNeverHeals ==
    \A t \in Threads : Stored(t, "player") /\ call[t].asked < 0 => call[t].value <= call[t].was

\* It needs no bound on the multipliers.
THEOREM HarmHealsNobody == Spec => []HarmNeverHeals
<1>1. MeaningInv => HarmNeverHeals
  BY DEF MeaningInv, Course, Busy, Seen, Meant, HarmNeverHeals, Stored
<1> QED BY <1>1, ChangesKeepTheirMeaning, PTL

\* No heal leaves the player with less, as long as no scaled heal overflows.
THEOREM ChangesKeepDirection == ASSUME NoOverflow PROVE Spec => []Direction
<1>1. MeaningInv => Direction
  BY NoOverflow DEF MeaningInv, Course, Busy, Seen, Meant, Direction, Stored
<1> QED BY <1>1, ChangesKeepTheirMeaning, PTL
=============================================================================
