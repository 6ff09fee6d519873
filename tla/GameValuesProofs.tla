-------------------------- MODULE GameValuesProofs --------------------------
(***************************************************************************)
(* Theorems about GameValues, for every number of threads and of scratch   *)
(* records, every depth of nesting and every set of configurations.        *)
(***************************************************************************)
EXTENDS GameValues, TLAPS

USE NumbersAssumption

(***************************************************************************)
(* Types.                                                                  *)
(***************************************************************************)
LEMMA RatioType ==
    ASSUME TypeOK
    PROVE  config.affinity \in Ratio /\ config.items \in Ratio
BY ConfigsAssumption DEF TypeOK, Config

LEMMA ScaleType ==
    ASSUME NEW x \in Int, NEW r \in Ratio
    PROVE  Scale(x, r) \in Int
<1>1. r.num \in Nat /\ r.den \in Nat /\ r.den > 0
  BY DEF Ratio
<1> DEFINE y == x * r.num
<1>2. y \in Int
  BY <1>1
<1> HIDE DEF y
<1>3. y \div r.den \in Int
  BY <1>1, <1>2
<1> QED
  BY <1>3 DEF Scale, AtMost, y

LEMMA ScaleLegacyType ==
    ASSUME TypeOK, NEW old \in Int, NEW delta \in Int, NEW new \in Int
    PROVE  ScaleLegacy(old, delta, new) \in Int
<1>1. Scale(delta, config.affinity) \in Int
  BY RatioType, ScaleType
<1> QED
  BY <1>1 DEF ScaleLegacy, AtMost

LEMMA ScaleFriendlyType ==
    ASSUME TypeOK, NEW d \in Int
    PROVE  ScaleFriendly(d) \in Int
<1>1. Scale(d, config.affinity) \in Int
  BY RatioType, ScaleType
<1> QED
  BY <1>1 DEF ScaleFriendly

LEMMA UnderType == TypeOK => Under \in SUBSET Ratio
BY RatioType DEF Under

LEMMA BookType ==
    ASSUME NEW what \in {"nothing", "affinity", "friendly", "item", "wear"},
           NEW from \in Int, NEW asked \in Int, NEW got \in Int,
           NEW under \in SUBSET Ratio, Book(what, from, asked, got, under)
    PROVE  booked' \in Booked
BY DEF Book, Booked

LEMMA NothingType == Nothing \in Booked
BY DEF Nothing, Booked

LEMMA NextSlotType ==
    ASSUME NEW s \in Slots
    PROVE  NextSlot(s) \in Slots
BY DEF NextSlot, Slots

LEMMA OlderType ==
    ASSUME NEW c \in Calls
    PROVE  /\ Older(c) \in Calls
           /\ Older(c).slot = c.slot /\ Older(c).delta = c.delta
           /\ Older(c).later = IF c.later < Copies THEN c.later + 1 ELSE Copies
BY DEF Older, Calls, AtMost

LEMMA AgeType ==
    ASSUME NEW cs \in Seq(Calls)
    PROVE  /\ Age(cs) \in Seq(Calls)
           /\ Len(Age(cs)) = Len(cs)
           /\ \A i \in 1 .. Len(cs) : Age(cs)[i] = Older(cs[i])
<1>1. \A i \in 1 .. Len(cs) : Older(cs[i]) \in Calls
  BY OlderType
<1> QED
  BY <1>1 DEF Age

LEMMA ReadsType ==
    ASSUME TypeOK, NEW t \in Threads, NEW c \in Calls
    PROVE  Reads(t, c) \in Int
BY DEF TypeOK, Reads, Calls, Slots, Own

LEMMA TakeCopyType ==
    ASSUME TypeOK, NEW t \in Threads, NEW d \in Int, TakeCopy(t, d)
    PROVE  /\ calls' \in [Threads -> Seq(Calls)]
           /\ ring' \in [Threads -> [Slots -> Int]]
           /\ cursor' \in [Threads -> Slots]
<1> DEFINE s == cursor[t]
           new == [slot |-> s, delta |-> ScaleFriendly(d), later |-> 0]
<1>1. s \in Slots /\ ScaleFriendly(d) \in Int /\ NextSlot(s) \in Slots
  BY ScaleFriendlyType, NextSlotType DEF TypeOK
<1>2. new \in Calls
  BY <1>1 DEF Calls
<1>3. Age(calls[t]) \in Seq(Calls)
  BY AgeType DEF TypeOK
<1>4. calls' = [calls EXCEPT ![t] = Append(Age(calls[t]), new)]
  BY DEF TakeCopy
<1> HIDE DEF new
<1>5. calls' \in [Threads -> Seq(Calls)]
  BY <1>2, <1>3, <1>4 DEF TypeOK
<1> QED
  BY <1>1, <1>5 DEF TypeOK, TakeCopy

LEMMA TypeStep ==
    ASSUME TypeOK, [Next]_vars
    PROVE  TypeOK'
<1> USE DEF TypeOK, player, legacy, friendly
<1>d. Deltas \subseteq Int
  OBVIOUS
<1>1. ASSUME NEW d \in Deltas, Prepare(d) PROVE TypeOK'
  <2>1. ScaleLegacy(level, d, level + d) \in Int
    BY <1>d, ScaleLegacyType
  <2>2. PICK stored \in {ScaleLegacy(level, d, level + d), level + d} :
            change' = {[delta |-> d, value |-> stored, under |-> Under]}
    BY <1>1 DEF Prepare
  <2>3. d \in Int /\ stored \in Int
    BY <2>1, <2>2, <1>d
  <2>4. [delta |-> d, value |-> stored, under |-> Under] \in Changes
    BY <2>3, UnderType DEF Changes
  <2> QED
    BY <1>1, <2>2, <2>4, NothingType DEF Prepare
<1>2. ASSUME NEW d \in Deltas, ItemGain(d) PROVE TypeOK'
  <2>1. Scale(d, config.items) \in Int
    BY <1>d, RatioType, ScaleType
  <2>2. booked' \in Booked
    BY <1>2, <1>d, <2>1, RatioType, BookType DEF ItemGain
  <2> QED
    BY <1>2, <2>2 DEF ItemGain
<1>3. ASSUME NEW d \in Deltas, DurabilityDelta(d) PROVE TypeOK'
  <2>1. booked' \in Booked
    BY <1>3, <1>d, BookType DEF DurabilityDelta
  <2> QED
    BY <1>3, <2>1 DEF DurabilityDelta
<1>4. CASE Commit
  <2>1. PICK c \in change : \E rax \in {c.value, level + c.delta} :
            /\ level' = AtLeast(AtMost(CurrentWrite(c, rax), Cap), 0)
            /\ Book("affinity", level, c.delta, level' - level, c.under \cup Under)
    BY <1>4 DEF Commit
  <2>2. PICK rax \in {c.value, level + c.delta} :
            /\ level' = AtLeast(AtMost(CurrentWrite(c, rax), Cap), 0)
            /\ Book("affinity", level, c.delta, level' - level, c.under \cup Under)
    BY <2>1
  <2>3. c.delta \in Int /\ c.value \in Int /\ c.under \in SUBSET Ratio
    BY DEF Changes
  <2>4. CurrentWrite(c, rax) \in Int
    <3>1. rax \in Int /\ level \in Int
      BY <2>3
    <3> QED
      BY <2>3, <3>1, ScaleLegacyType DEF CurrentWrite
  <2>5. level' \in 0 .. Cap
    BY <2>2, <2>4 DEF AtLeast, AtMost
  <2>6. booked' \in Booked
    BY <2>2, <2>3, <2>5, UnderType, BookType
  <2> QED
    BY <1>4, <2>5, <2>6 DEF Commit
<1>5. ASSUME NEW t \in Threads, NEW d \in Deltas, Vary(t, d) PROVE TypeOK'
  <2>1. /\ calls' \in [Threads -> Seq(Calls)]
        /\ ring' \in [Threads -> [Slots -> Int]]
        /\ cursor' \in [Threads -> Slots]
    <3>1. CASE ScaleFriendly(d) # d
      BY <1>5, <1>d, <3>1, TakeCopyType DEF Vary
    <3>2. CASE ScaleFriendly(d) = d
      <4> DEFINE new == [slot |-> Own, delta |-> d, later |-> 0]
      <4>1. new \in Calls
        BY <1>d DEF Calls
      <4>2. calls' = [calls EXCEPT ![t] = Append(calls[t], new)]
        BY <1>5, <3>2 DEF Vary
      <4> HIDE DEF new
      <4>3. calls' \in [Threads -> Seq(Calls)]
        BY <4>1, <4>2
      <4> QED
        BY <1>5, <3>2, <4>3 DEF Vary
    <3> QED
      BY <3>1, <3>2
  <2>2. booked' \in Booked
    <3>1. ScaleFriendly(d) \in Int /\ d \in Int
      BY <1>d, ScaleFriendlyType
    <3>2. Book("friendly", 0, d, ScaleFriendly(d), Under)
      BY <1>5 DEF Vary
    <3> QED
      BY <3>1, <3>2, UnderType, BookType
  <2> QED
    BY <1>5, <2>1, <2>2 DEF Vary
<1>6. ASSUME NEW t \in Threads, NEW d \in Deltas, CopyFails(t, d) PROVE TypeOK'
  <2> DEFINE new == [slot |-> Own, delta |-> d, later |-> 0]
  <2>1. new \in Calls
    BY <1>d DEF Calls
  <2>2. calls' \in [Threads -> Seq(Calls)]
    <3>1. calls' = [calls EXCEPT ![t] = Append(Age(calls[t]), new)]
      BY <1>6 DEF CopyFails
    <3> HIDE DEF new
    <3> QED
      BY <2>1, <3>1, AgeType
  <2>3. cursor' \in [Threads -> Slots]
    BY <1>6, NextSlotType DEF CopyFails
  <2>4. ring' \in [Threads -> [Slots -> Int]]
    BY <1>6, <1>d DEF CopyFails
  <2> QED
    BY <1>6, <2>2, <2>3, <2>4, NothingType DEF CopyFails
<1>7. ASSUME NEW t \in Threads, PassOn(t) PROVE TypeOK'
  <2> DEFINE c == Last(calls[t])
  <2>1. c \in Calls
    BY <1>7 DEF PassOn, Last
  <2>2. Reads(t, c) \in Int
    BY <2>1, ReadsType
  <2>3. /\ calls' \in [Threads -> Seq(Calls)]
        /\ ring' \in [Threads -> [Slots -> Int]]
        /\ cursor' \in [Threads -> Slots]
    <3>1. CASE ScaleFriendly(Reads(t, c)) # Reads(t, c)
      BY <1>7, <2>2, <3>1, TakeCopyType DEF PassOn
    <3>2. CASE ScaleFriendly(Reads(t, c)) = Reads(t, c)
      <4>1. /\ calls' = [calls EXCEPT ![t] = Append(calls[t], c)]
            /\ UNCHANGED <<ring, cursor>>
        BY <1>7, <3>2 DEF PassOn
      <4> HIDE DEF c
      <4> QED
        BY <2>1, <4>1
    <3> QED
      BY <3>1, <3>2
  <2> QED
    BY <1>7, <2>3, NothingType DEF PassOn
<1>8. ASSUME NEW t \in Threads, Return(t) PROVE TypeOK'
  <2>1. Front(calls[t]) \in Seq(Calls)
    BY <1>8 DEF Return, Front
  <2> QED
    BY <1>8, <2>1, NothingType DEF Return
<1>9. ASSUME NEW c \in Configs, Reload(c) PROVE TypeOK'
  BY <1>9, NothingType DEF Reload
<1>10. CASE TrackOrLosePlayer
  BY <1>10, NothingType DEF TrackOrLosePlayer
<1>11. CASE DisableRuntimeProcessing
  BY <1>11, NothingType DEF DisableRuntimeProcessing
<1>12. CASE UNCHANGED vars
  BY <1>12 DEF vars
<1> QED
  BY <1>1, <1>2, <1>3, <1>4, <1>5, <1>6, <1>7, <1>8, <1>9, <1>10, <1>11, <1>12 DEF Next

\* Every variable keeps its type: in particular the affinity stays within the cap
\* and the index of the scratch records within them.
THEOREM TypeCorrect == Spec => []TypeOK
<1>1. Init => TypeOK
  <2> SUFFICES ASSUME Init PROVE TypeOK
    OBVIOUS
  <2>1. 0 \in Slots
    BY DEF Slots
  <2>2. calls \in [Threads -> Seq(Calls)]
    BY DEF Init
  <2>3. ring \in [Threads -> [Slots -> Int]] /\ cursor \in [Threads -> Slots]
    BY <2>1 DEF Init
  <2> QED
    BY <2>2, <2>3, NothingType DEF Init, TypeOK
<1>2. TypeOK /\ [Next]_vars => TypeOK'
  BY TypeStep
<1> QED
  BY <1>1, <1>2, PTL DEF Spec

(***************************************************************************)
(* The scratch records.                                                    *)
(***************************************************************************)

\* How many records the cursor k is ahead of the record s.
Ahead(s, k) == IF s < k THEN k - s ELSE k + Copies - s

LEMMA NextAhead ==
    ASSUME NEW s \in Slots, NEW k \in Slots, s # k
    PROVE  Ahead(s, NextSlot(k)) = Ahead(s, k) + 1
BY DEF Ahead, NextSlot, Slots

LEMMA SelfAhead ==
    ASSUME NEW s \in Slots
    PROVE  Ahead(s, s) = Copies /\ Ahead(s, NextSlot(s)) = 1
BY DEF Ahead, NextSlot, Slots

\* The record of a call that is not too old is as far behind the cursor as copies
\* have been taken since, and so has not been met again.
Kept(c, k, r) ==
    c.slot # Own /\ c.later < Copies =>
        Ahead(c.slot, k) = c.later + 1 /\ r[c.slot] = c.delta

RingInv ==
    \A t \in Threads : \A i \in 1 .. Len(calls[t]) : Kept(calls[t][i], cursor[t], ring[t])

\* Writing the next record leaves alone those that are still kept.
LEMMA OlderKept ==
    ASSUME NEW c \in Calls, NEW k \in Slots, NEW r, NEW q, Kept(c, k, r),
           \A x \in Slots : x # k => q[x] = r[x]
    PROVE  Kept(Older(c), NextSlot(k), q)
<1>1. /\ Older(c).slot = c.slot /\ Older(c).delta = c.delta
      /\ Older(c).later = IF c.later < Copies THEN c.later + 1 ELSE Copies
  BY OlderType
<1>2. c.slot \in Slots \cup {Own} /\ c.later \in 0 .. Copies
  BY DEF Calls
<1>3. SUFFICES ASSUME c.slot # Own, c.later + 1 < Copies
               PROVE  /\ Ahead(c.slot, NextSlot(k)) = c.later + 2
                      /\ q[c.slot] = c.delta
  BY <1>1, <1>2 DEF Kept
<1>4. Ahead(c.slot, k) = c.later + 1 /\ r[c.slot] = c.delta
  BY <1>2, <1>3 DEF Kept
<1>5. c.slot \in Slots /\ c.slot # k
  BY <1>2, <1>3, <1>4, SelfAhead
<1>6. Ahead(c.slot, NextSlot(k)) = c.later + 2
  BY <1>2, <1>4, <1>5, NextAhead
<1> QED
  BY <1>4, <1>5, <1>6

\* A call begun by taking a copy, or begun beside a copy that failed.
LEMMA CallBegunKept ==
    ASSUME TypeOK, RingInv, NEW t \in Threads, NEW new \in Calls,
           calls' = [calls EXCEPT ![t] = Append(Age(calls[t]), new)],
           NEW v \in Int, ring' = [ring EXCEPT ![t][cursor[t]] = v],
           cursor' = [cursor EXCEPT ![t] = NextSlot(cursor[t])],
           Kept(new, cursor'[t], ring'[t])
    PROVE  RingInv'
<1> SUFFICES ASSUME NEW u \in Threads, NEW i \in 1 .. Len(calls'[u])
             PROVE  Kept(calls'[u][i], cursor'[u], ring'[u])
  BY DEF RingInv
<1>1. /\ calls \in [Threads -> Seq(Calls)]
      /\ ring \in [Threads -> [Slots -> Int]]
      /\ cursor \in [Threads -> Slots]
  BY DEF TypeOK
<1>2. CASE u # t
  <2>1. calls'[u] = calls[u] /\ ring'[u] = ring[u] /\ cursor'[u] = cursor[u]
    BY <1>1, <1>2
  <2> QED
    BY <2>1 DEF RingInv
<1>3. CASE u = t
  <2> DEFINE cs == calls[t]
  <2>1. cs \in Seq(Calls) /\ calls'[t] = Append(Age(cs), new)
    BY <1>1
  <2>2. /\ Age(cs) \in Seq(Calls) /\ Len(Age(cs)) = Len(cs)
        /\ \A j \in 1 .. Len(cs) : Age(cs)[j] = Older(cs[j])
    BY <2>1, AgeType
  <2>3. \A j \in 1 .. Len(cs) : Kept(cs[j], cursor[t], ring[t])
    BY DEF RingInv
  <2> HIDE DEF cs
  <2>4. CASE i = Len(cs) + 1
    <3>1. calls'[t][i] = new
      BY <2>1, <2>2, <2>4
    <3> QED
      BY <1>3, <3>1
  <2>5. CASE i # Len(cs) + 1
    <3>1. i \in 1 .. Len(cs)
      BY <1>3, <2>1, <2>2, <2>5
    <3>2. calls'[t][i] = Older(cs[i])
      BY <2>1, <2>2, <3>1
    <3>3. cs[i] \in Calls /\ Kept(cs[i], cursor[t], ring[t])
      BY <2>1, <2>3, <3>1
    <3>4. /\ \A x \in Slots : x # cursor[t] => ring'[t][x] = ring[t][x]
          /\ cursor'[t] = NextSlot(cursor[t]) /\ cursor[t] \in Slots
      BY <1>1
    <3>5. Kept(Older(cs[i]), NextSlot(cursor[t]), ring'[t])
      BY <3>3, <3>4, OlderKept
    <3> QED
      BY <1>3, <3>2, <3>4, <3>5
  <2> QED
    BY <2>4, <2>5
<1> QED
  BY <1>2, <1>3

LEMMA TakeCopyKept ==
    ASSUME TypeOK, RingInv, NEW t \in Threads, NEW d \in Int, TakeCopy(t, d)
    PROVE  RingInv'
<1> DEFINE s == cursor[t]
           v == ScaleFriendly(d)
           new == [slot |-> s, delta |-> v, later |-> 0]
<1>1. s \in Slots /\ v \in Int
  BY ScaleFriendlyType DEF TypeOK
<1>2. new \in Calls
  BY <1>1 DEF Calls
<1>3. /\ calls' = [calls EXCEPT ![t] = Append(Age(calls[t]), new)]
      /\ ring' = [ring EXCEPT ![t][s] = v]
      /\ cursor' = [cursor EXCEPT ![t] = NextSlot(s)]
  BY DEF TakeCopy
<1>4. Kept(new, cursor'[t], ring'[t])
  <2>1. cursor'[t] = NextSlot(s) /\ ring'[t][s] = v
    BY <1>1, <1>3 DEF TypeOK
  <2> QED
    BY <1>1, <2>1, SelfAhead DEF Kept
<1> HIDE DEF new
<1> QED
  BY <1>1, <1>2, <1>3, <1>4, CallBegunKept

\* A call begun without a copy, on data that is its own or still kept.
LEMMA CallAddedKept ==
    ASSUME TypeOK, RingInv, NEW t \in Threads, NEW new \in Calls,
           calls' = [calls EXCEPT ![t] = Append(calls[t], new)],
           UNCHANGED <<ring, cursor>>, Kept(new, cursor[t], ring[t])
    PROVE  RingInv'
<1> SUFFICES ASSUME NEW u \in Threads, NEW i \in 1 .. Len(calls'[u])
             PROVE  Kept(calls'[u][i], cursor[u], ring[u])
  BY DEF RingInv
<1>1. calls \in [Threads -> Seq(Calls)]
  BY DEF TypeOK
<1>2. CASE u = t /\ i = Len(calls[t]) + 1
  BY <1>1, <1>2
<1>3. CASE ~(u = t /\ i = Len(calls[t]) + 1)
  <2>1. i \in 1 .. Len(calls[u]) /\ calls'[u][i] = calls[u][i]
    BY <1>1, <1>3
  <2> QED
    BY <2>1 DEF RingInv
<1> QED
  BY <1>2, <1>3

LEMMA RingStep ==
    ASSUME TypeOK, RingInv, [Next]_vars
    PROVE  RingInv'
<1> USE DEF player, legacy, friendly
<1>d. Deltas \subseteq Int
  OBVIOUS
<1>s. ASSUME UNCHANGED friendly PROVE RingInv'
  BY <1>s DEF RingInv
<1>1. ASSUME NEW t \in Threads, NEW d \in Deltas, Vary(t, d) PROVE RingInv'
  <2>1. CASE ScaleFriendly(d) # d
    BY <1>1, <1>d, <2>1, TakeCopyKept DEF Vary
  <2>2. CASE ScaleFriendly(d) = d
    <3> DEFINE new == [slot |-> Own, delta |-> d, later |-> 0]
    <3>1. new \in Calls /\ Kept(new, cursor[t], ring[t])
      BY <1>d DEF Calls, Kept
    <3>2. /\ calls' = [calls EXCEPT ![t] = Append(calls[t], new)]
          /\ UNCHANGED <<ring, cursor>>
      BY <1>1, <2>2 DEF Vary
    <3> HIDE DEF new
    <3> QED
      BY <3>1, <3>2, CallAddedKept
  <2> QED
    BY <2>1, <2>2
<1>2. ASSUME NEW t \in Threads, NEW d \in Deltas, CopyFails(t, d) PROVE RingInv'
  <2> DEFINE new == [slot |-> Own, delta |-> d, later |-> 0]
  <2>1. new \in Calls /\ Kept(new, cursor'[t], ring'[t])
    BY <1>d DEF Calls, Kept
  <2>2. PICK v \in {d, ring[t][cursor[t]]} : ring' = [ring EXCEPT ![t][cursor[t]] = v]
    BY <1>2 DEF CopyFails
  <2>3. v \in Int
    BY <1>d DEF TypeOK
  <2>4. /\ calls' = [calls EXCEPT ![t] = Append(Age(calls[t]), new)]
        /\ cursor' = [cursor EXCEPT ![t] = NextSlot(cursor[t])]
    BY <1>2 DEF CopyFails
  <2> HIDE DEF new
  <2> QED
    BY <2>1, <2>2, <2>3, <2>4, CallBegunKept
<1>3. ASSUME NEW t \in Threads, PassOn(t) PROVE RingInv'
  <2> DEFINE c == Last(calls[t])
  <2>1. Len(calls[t]) \in 1 .. Len(calls[t]) /\ c = calls[t][Len(calls[t])]
    BY <1>3 DEF PassOn, Last, TypeOK
  <2>2. c \in Calls /\ Kept(c, cursor[t], ring[t])
    BY <2>1 DEF RingInv, TypeOK
  <2>3. Reads(t, c) \in Int
    BY <2>2, ReadsType
  <2>4. CASE ScaleFriendly(Reads(t, c)) # Reads(t, c)
    BY <1>3, <2>3, <2>4, TakeCopyKept DEF PassOn
  <2>5. CASE ScaleFriendly(Reads(t, c)) = Reads(t, c)
    <3>1. /\ calls' = [calls EXCEPT ![t] = Append(calls[t], c)]
          /\ UNCHANGED <<ring, cursor>>
      BY <1>3, <2>5 DEF PassOn
    <3> HIDE DEF c
    <3> QED
      BY <2>2, <3>1, CallAddedKept
  <2> QED
    BY <2>4, <2>5
<1>4. ASSUME NEW t \in Threads, Return(t) PROVE RingInv'
  <2>1. \A u \in Threads : /\ Len(calls'[u]) <= Len(calls[u])
                           /\ \A i \in 1 .. Len(calls'[u]) : calls'[u][i] = calls[u][i]
    BY <1>4 DEF Return, Front, TypeOK
  <2>2. \A u \in Threads : Len(calls'[u]) \in Nat /\ Len(calls[u]) \in Nat
    BY <1>4 DEF Return, Front, TypeOK
  <2>3. UNCHANGED <<ring, cursor>>
    BY <1>4 DEF Return
  <2> QED
    BY <2>1, <2>2, <2>3 DEF RingInv
<1>5. ASSUME \/ \E d \in Deltas : Prepare(d) \/ ItemGain(d) \/ DurabilityDelta(d)
             \/ Commit
             \/ \E c \in Configs : Reload(c)
             \/ TrackOrLosePlayer \/ DisableRuntimeProcessing
      PROVE  RingInv'
  BY <1>5, <1>s DEF Prepare, ItemGain, DurabilityDelta, Commit, Reload, TrackOrLosePlayer,
                    DisableRuntimeProcessing
<1>6. CASE UNCHANGED vars
  BY <1>6, <1>s DEF vars
<1> QED
  BY <1>1, <1>2, <1>3, <1>4, <1>5, <1>6 DEF Next

\* However the friendly calls of a thread nest, however deep, and whichever copies
\* fail, a call sees its own delta until all the scratch records have been taken
\* again.
THEOREM CallsKeepTheirData == Spec => []FriendlyKept
<1>1. Init => RingInv
  BY DEF Init, RingInv
<1>2. TypeOK /\ RingInv /\ [Next]_vars => RingInv'
  BY RingStep
<1>3. RingInv => FriendlyKept
  BY DEF RingInv, FriendlyKept, Kept, Reads
<1> QED
  BY <1>1, <1>2, <1>3, TypeCorrect, PTL DEF Spec

(***************************************************************************)
(* The legacy sites.                                                       *)
(***************************************************************************)

\* What the affinity v becomes by a gain of d, scaled once by r.
Gained(v, d, r) == AtMost(v + AtMost(Scale(d, r), Cap), Cap)

LEMMA ScaleNat ==
    ASSUME NEW x \in Nat, NEW r \in Ratio
    PROVE  Scale(x, r) \in Nat
<1>1. r.num \in Nat /\ r.den \in Nat /\ r.den > 0
  BY DEF Ratio
<1> DEFINE y == x * r.num
<1>2. y \in Nat
  BY <1>1
<1> HIDE DEF y
<1>3. y \div r.den \in Nat
  BY <1>1, <1>2
<1> QED
  BY <1>3 DEF Scale, AtMost, y

LEMMA ScaleOne ==
    ASSUME NEW x \in Int, x <= MaxInt
    PROVE  Scale(x, One) = x
BY DEF Scale, One, AtMost

LEMMA GainedWithinCap ==
    ASSUME NEW v \in 0 .. Cap, NEW d \in Nat, NEW r \in Ratio
    PROVE  Gained(v, d, r) \in 0 .. Cap
<1>1. Scale(d, r) \in Nat
  BY ScaleNat
<1> QED
  BY <1>1 DEF Gained, AtMost

\* A change prepared holds the game's value, or that value scaled once.
Prepared(c) ==
    /\ c.delta \in Deltas
    /\ \/ c.value = level + c.delta
       \/ c.delta > 0 /\ \E r \in c.under : c.value = Gained(level, c.delta, r)

LegacyInv == (\A c \in change : Prepared(c)) /\ AffinityScaledOnce

LEMMA PreparedStep ==
    ASSUME TypeOK, NEW d \in Deltas, Prepare(d)
    PROVE  LegacyInv'
<1>1. Deltas \subseteq Int
  OBVIOUS
<1>2. PICK c \in change' :
          /\ change' = {c} /\ c.delta = d /\ c.under = Under
          /\ c.value \in {ScaleLegacy(level, d, level + d), level + d}
  BY DEF Prepare
<1>3. level' = level /\ booked' = Nothing
  BY DEF Prepare
<1>4. c.value = level + d \/ (d > 0 /\ \E r \in c.under : c.value = Gained(level, d, r))
  BY <1>1, <1>2 DEF ScaleLegacy, Gained, Under
<1>5. Prepared(c)'
  BY <1>2, <1>3, <1>4 DEF Prepared
<1> QED
  BY <1>2, <1>3, <1>5 DEF LegacyInv, AffinityScaledOnce, Nothing

LEMMA CommitStep ==
    ASSUME TypeOK, LegacyInv, Commit
    PROVE  LegacyInv'
<1>1. PICK c \in change : \E rax \in {c.value, level + c.delta} :
          /\ level' = AtLeast(AtMost(CurrentWrite(c, rax), Cap), 0)
          /\ Book("affinity", level, c.delta, level' - level, c.under \cup Under)
  BY DEF Commit
<1>2. PICK rax \in {c.value, level + c.delta} :
          /\ level' = AtLeast(AtMost(CurrentWrite(c, rax), Cap), 0)
          /\ Book("affinity", level, c.delta, level' - level, c.under \cup Under)
  BY <1>1
<1>3. /\ Prepared(c) /\ c.delta \in Int /\ c.delta <= MaxInt /\ c.value \in Int
      /\ c.under \in SUBSET Ratio /\ level \in 0 .. Cap
  BY DEF LegacyInv, Prepared, TypeOK, Changes
<1>4. Under \in SUBSET Ratio /\ One \in Ratio
  BY UnderType DEF One, Ratio
<1>5. change' = {}
  BY DEF Commit
<1>6. /\ booked'.from = level /\ booked'.asked = c.delta /\ booked'.got = level' - level
      /\ booked'.under = c.under \cup Under
  BY <1>2 DEF Book
<1>7. ASSUME c.delta > 0
      PROVE  \E r \in c.under \cup Under \cup {One} : level' = Gained(level, c.delta, r)
  <2>1. SUFFICES \E r \in c.under \cup Under \cup {One} :
                     AtMost(CurrentWrite(c, rax), Cap) = Gained(level, c.delta, r)
    <3>1. \A r \in Ratio : Gained(level, c.delta, r) \in 0 .. Cap
      BY <1>3, <1>7, GainedWithinCap
    <3> QED
      BY <1>2, <1>3, <1>4, <3>1 DEF AtLeast
  <2>2. CASE rax = level + c.delta /\ CurrentWrite(c, rax) = rax
    <3>1. Gained(level, c.delta, One) = AtMost(level + c.delta, Cap)
      BY <1>3, <1>7, ScaleOne DEF Gained, AtMost
    <3> QED
      BY <2>2, <3>1
  <2>3. CASE rax # level + c.delta /\ CurrentWrite(c, rax) = rax
    <3>1. PICK r \in c.under : rax = Gained(level, c.delta, r)
      BY <1>3, <2>3 DEF Prepared
    <3>2. rax \in 0 .. Cap
      BY <1>3, <1>7, <3>1, GainedWithinCap
    <3>3. AtMost(rax, Cap) = rax
      BY <3>2 DEF AtMost
    <3> QED
      BY <2>3, <3>1, <3>3
  <2>4. CASE CurrentWrite(c, rax) # rax
    <3>1. /\ CurrentWrite(c, rax) = Gained(level, c.delta, config.affinity)
          /\ config.affinity \in Under
      BY <2>4 DEF CurrentWrite, ScaleLegacy, Gained, Under
    <3>2. Gained(level, c.delta, config.affinity) \in 0 .. Cap
      <4>1. c.delta \in Nat /\ config.affinity \in Ratio
        BY <1>3, <1>7, RatioType
      <4> QED
        BY <1>3, <4>1, GainedWithinCap
    <3>3. AtMost(Gained(level, c.delta, config.affinity), Cap)
              = Gained(level, c.delta, config.affinity)
      BY <3>2 DEF AtMost
    <3> QED
      BY <3>1, <3>3
  <2> QED
    BY <2>2, <2>3, <2>4
<1>8. level' \in 0 .. Cap
  BY TypeStep DEF Next, TypeOK
<1> QED
  BY <1>3, <1>5, <1>6, <1>7, <1>8 DEF LegacyInv, AffinityScaledOnce, Gained

LEMMA LegacyStep ==
    ASSUME TypeOK, LegacyInv, [Next]_vars
    PROVE  LegacyInv'
<1> USE DEF player, legacy, friendly
<1>s. ASSUME UNCHANGED legacy, booked'.what # "affinity" PROVE LegacyInv'
  BY <1>s DEF LegacyInv, Prepared, AffinityScaledOnce
<1>1. ASSUME NEW d \in Deltas, Prepare(d) PROVE LegacyInv'
  BY <1>1, PreparedStep
<1>2. CASE Commit
  BY <1>2, CommitStep
<1>3. ASSUME NEW d \in Deltas, ItemGain(d) PROVE LegacyInv'
  BY <1>3, <1>s DEF ItemGain, Book
<1>4. ASSUME NEW d \in Deltas, DurabilityDelta(d) PROVE LegacyInv'
  <2>1. booked'.what = "wear" /\ UNCHANGED legacy
    BY <1>4 DEF DurabilityDelta, Book
  <2> QED
    BY <2>1, <1>s
<1>5. ASSUME NEW t \in Threads, NEW d \in Deltas, Vary(t, d) PROVE LegacyInv'
  <2>1. booked'.what = "friendly" /\ UNCHANGED legacy
    BY <1>5 DEF Vary, Book
  <2> QED
    BY <2>1, <1>s
<1>6. ASSUME NEW t \in Threads,
             (\E d \in Deltas : CopyFails(t, d)) \/ PassOn(t) \/ Return(t)
      PROVE  LegacyInv'
  <2>1. booked' = Nothing /\ UNCHANGED legacy
    BY <1>6 DEF CopyFails, PassOn, Return
  <2> QED
    BY <2>1, <1>s DEF Nothing
<1>7. ASSUME (\E c \in Configs : Reload(c)) \/ TrackOrLosePlayer \/ DisableRuntimeProcessing
      PROVE  LegacyInv'
  BY <1>7, <1>s DEF Reload, TrackOrLosePlayer, DisableRuntimeProcessing, Nothing
<1>8. CASE UNCHANGED vars
  BY <1>8 DEF vars, LegacyInv, Prepared, AffinityScaledOnce
<1> QED
  BY <1>1, <1>2, <1>3, <1>4, <1>5, <1>6, <1>7, <1>8 DEF Next

\* Whatever is reloaded and whether or not the player is tracked between the two
\* sites, a gain of affinity is scaled once.
THEOREM AffinityIsScaledOnce == Spec => []AffinityScaledOnce
<1>1. Init => LegacyInv
  BY DEF Init, LegacyInv, AffinityScaledOnce, Nothing
<1>2. TypeOK /\ LegacyInv /\ [Next]_vars => LegacyInv'
  BY LegacyStep
<1>3. LegacyInv => AffinityScaledOnce
  BY DEF LegacyInv
<1> QED
  BY <1>1, <1>2, <1>3, TypeCorrect, PTL DEF Spec

(***************************************************************************)
(* No gain is lowered.                                                     *)
(***************************************************************************)
LEMMA ScaleRaises ==
    ASSUME NEW x \in Nat, x <= MaxInt, NEW r \in Ratio, Raising(r)
    PROVE  Scale(x, r) >= x
<1>1. r.num \in Nat /\ r.den \in Nat /\ r.den > 0 /\ r.num >= r.den
  BY DEF Ratio, Raising
<1> DEFINE y == x * r.num
           q == y \div r.den
<1>2. y \in Nat /\ x * r.den \in Nat /\ y >= x * r.den
  BY <1>1
<1> HIDE DEF y
<1>3. q \in Nat /\ y < r.den * (q + 1)
  BY <1>1, <1>2
<1> HIDE DEF q
<1>4. q >= x
  <2> SUFFICES ASSUME q + 1 <= x PROVE FALSE
    BY <1>3
  <2>1. r.den * (q + 1) <= r.den * x
    BY <1>1, <1>3
  <2> QED
    BY <1>1, <1>2, <1>3, <2>1
<1> QED
  BY <1>3, <1>4 DEF Scale, AtMost, q, y

\* A gain booked by the friendly sites, or of items, is the game's, or scaled once.
GainInv ==
    /\ booked.from \in Nat /\ booked.asked \in Int /\ booked.asked <= MaxInt
    /\ booked.what \in {"friendly", "item"} /\ booked.asked > 0 =>
           \E r \in booked.under \cup {One} : booked.got = Scale(booked.asked, r)

LEMMA GainStep ==
    ASSUME TypeOK, LegacyInv, GainInv, [Next]_vars
    PROVE  GainInv'
<1> USE DEF player, legacy, friendly
<1>d. \A d \in Deltas : d \in Int /\ d <= MaxInt /\ Scale(d, One) = d
  BY ScaleOne
<1>1. ASSUME NEW d \in Deltas, ItemGain(d) PROVE GainInv'
  BY <1>1, <1>d DEF ItemGain, Book, GainInv
<1>2. ASSUME NEW t \in Threads, NEW d \in Deltas, Vary(t, d) PROVE GainInv'
  <2>1. Book("friendly", 0, d, ScaleFriendly(d), Under)
    BY <1>2 DEF Vary
  <2>2. /\ booked'.from = 0 /\ booked'.asked = d /\ booked'.got = ScaleFriendly(d)
        /\ booked'.under = Under
    BY <2>1 DEF Book
  <2>3. ScaleFriendly(d) = d \/ (Under = {config.affinity} /\ ScaleFriendly(d) = Scale(d, config.affinity))
    BY DEF ScaleFriendly, Under
  <2> QED
    BY <1>d, <2>2, <2>3 DEF GainInv
<1>3. CASE Commit
  <2>1. PICK c \in change : \E rax \in {c.value, level + c.delta} :
            Book("affinity", level, c.delta, level' - level, c.under \cup Under)
    BY <1>3 DEF Commit
  <2>2. booked'.what = "affinity" /\ booked'.from = level /\ booked'.asked = c.delta
    BY <2>1 DEF Book
  <2>3. c.delta \in Deltas /\ level \in Nat
    BY DEF LegacyInv, Prepared, TypeOK
  <2> QED
    BY <1>d, <2>2, <2>3 DEF GainInv
<1>4. ASSUME NEW d \in Deltas, DurabilityDelta(d) PROVE GainInv'
  <2>1. booked'.what = "wear" /\ booked'.from = 0 /\ booked'.asked = d
    BY <1>4 DEF DurabilityDelta, Book
  <2> QED
    BY <1>d, <2>1 DEF GainInv
<1>5. ASSUME booked' = Nothing PROVE GainInv'
  BY <1>5 DEF GainInv, Nothing
<1>6. ASSUME \/ \E d \in Deltas : Prepare(d)
             \/ \E t \in Threads : (\E d \in Deltas : CopyFails(t, d)) \/ PassOn(t) \/ Return(t)
             \/ \E c \in Configs : Reload(c)
             \/ TrackOrLosePlayer \/ DisableRuntimeProcessing
      PROVE  GainInv'
  BY <1>5, <1>6 DEF Prepare, CopyFails, PassOn, Return, Reload, TrackOrLosePlayer,
                    DisableRuntimeProcessing
<1>7. CASE UNCHANGED vars
  BY <1>7 DEF vars, GainInv
<1> QED
  BY <1>1, <1>2, <1>3, <1>4, <1>6, <1>7 DEF Next

\* Multipliers of one or more lower no gain, on any path and of any size.
THEOREM NoGainShrinks == Spec => []GainsNeverShrink
<1>1. Init => LegacyInv /\ GainInv
  BY DEF Init, LegacyInv, AffinityScaledOnce, GainInv, Nothing
<1>2. TypeOK /\ LegacyInv /\ GainInv /\ [Next]_vars => LegacyInv' /\ GainInv'
  BY LegacyStep, GainStep
<1>3. TypeOK /\ LegacyInv /\ GainInv => GainsNeverShrink
  <2> SUFFICES ASSUME TypeOK, LegacyInv, GainInv, booked.asked > 0,
                      booked.what \in {"affinity", "friendly", "item"},
                      \A r \in booked.under : Raising(r)
               PROVE  booked.got >= Affordable
    BY DEF GainsNeverShrink
  <2>1. /\ booked.asked \in Nat /\ booked.asked <= MaxInt
        /\ booked.from \in Nat /\ booked.got \in Int /\ booked.under \in SUBSET Ratio
    BY DEF TypeOK, Booked, GainInv
  <2>2. \A r \in booked.under \cup {One} : Scale(booked.asked, r) >= booked.asked
    <3>1. One \in Ratio /\ Raising(One)
      BY DEF One, Ratio, Raising
    <3> QED
      BY <2>1, <3>1, ScaleRaises
  <2>3. CASE booked.what = "affinity"
    <3>1. PICK r \in booked.under \cup {One} :
              booked.from + booked.got =
                  AtMost(booked.from + AtMost(Scale(booked.asked, r), Cap), Cap)
      BY <2>3 DEF LegacyInv, AffinityScaledOnce
    <3>2. Scale(booked.asked, r) \in Int
      BY <2>1, ScaleType DEF One, Ratio
    <3> QED
      BY <2>1, <2>2, <2>3, <3>1, <3>2 DEF Affordable, AtMost
  <2>4. CASE booked.what \in {"friendly", "item"}
    BY <2>2, <2>4 DEF GainInv, Affordable
  <2> QED
    BY <2>3, <2>4
<1> QED
  BY <1>1, <1>2, <1>3, TypeCorrect, PTL DEF Spec
=============================================================================
