-------------------------- MODULE ArrayQueueProofs ---------------------------
(***************************************************************************)
(* Theorems about ArrayQueue, for every capacity, every number of values   *)
(* and every set of panicking destructors, also when the counters wrap.    *)
(***************************************************************************)
EXTENDS ArrayQueueProperties, SharedLemmas

(* What keeps the slots of a ring apart: a capacity that divides the range *)
(* of usize, such as a power of two, or counters that never wrap.          *)
SlotsFit == UsizeMod % N = 0 \/ MaxPushes < UsizeMod

(* The counters are as far apart as there are values inside.               *)
CountersInv ==
  /\ QueueLen = pushed - Left /\ QueueLen <= N /\ pushed <= MaxPushes
  /\ UsizeMod % N # 0 => head <= tail /\ tail <= pushed

(* The slots from head on hold them, oldest first.                         *)
RingInv == \A i \in 0 .. QueueLen - 1 : Get(i) = Left + i + 1

(* Only values that have left are used, each once.                         *)
HistoryInv ==
  /\ IsInjective(popped) /\ IsInjective(destroyed)
  /\ Range(popped) \cap Range(destroyed) = {}
  /\ Range(popped) \cup Range(destroyed) \subseteq 1 .. Left
  /\ ~panicked => Range(popped) \cup Range(destroyed) = 1 .. Left
  /\ status = "gone" => QueueLen = 0

Inv == CountersInv /\ RingInv /\ HistoryInv

-----------------------------------------------------------------------------
(* Arithmetic of the counters and of the slots.                            *)

LEMMA WrapCases ==
  ASSUME NEW n \in 0 .. UsizeMod + UsizeMod - 1
  PROVE  Wrap(n) = IF n < UsizeMod THEN n ELSE n - UsizeMod
<1>1. UsizeMod \in Nat \ {0} /\ n \in Nat
  BY ConstantsAssumption
<1>2. CASE n < UsizeMod
  BY <1>1, <1>2 DEF Wrap
<1>3. CASE ~(n < UsizeMod)
  <2>1. /\ n - UsizeMod \in 0 .. UsizeMod - 1 /\ 1 \in Int
        /\ UsizeMod * 1 + (n - UsizeMod) = n
    BY <1>1, <1>3
  <2>2. (UsizeMod * 1 + (n - UsizeMod)) % UsizeMod = n - UsizeMod
    BY <1>1, <2>1, Remainder
  <2> QED
    BY <1>3, <2>1, <2>2 DEF Wrap
<1> QED
  BY <1>2, <1>3

Counter == 0 .. UsizeMod - 1

Between(h, t) == Wrap(t + UsizeMod - h)

(* How far one counter is ahead of another, case by case.                  *)
LEMMA BetweenCases ==
  ASSUME NEW h \in Counter, NEW t \in Counter
  PROVE  /\ Between(h, t) = IF h <= t THEN t - h ELSE (t + UsizeMod) - h
         /\ Between(h, t) \in Counter
         /\ Wrap(h + Between(h, t)) = t
<1>1. UsizeMod \in Nat \ {0} /\ h \in Nat /\ t \in Nat /\ h < UsizeMod /\ t < UsizeMod
  BY ConstantsAssumption DEF Counter
<1>2. t + UsizeMod - h \in 0 .. UsizeMod + UsizeMod - 1
  BY <1>1
<1>3. Between(h, t) = IF t + UsizeMod - h < UsizeMod THEN t + UsizeMod - h
                                                      ELSE (t + UsizeMod - h) - UsizeMod
  BY <1>2, WrapCases DEF Between
<1>4. Between(h, t) = IF h <= t THEN t - h ELSE (t + UsizeMod) - h
  BY <1>1, <1>3
<1>5. h + Between(h, t) \in 0 .. UsizeMod + UsizeMod - 1
  BY <1>1, <1>4
<1>6. Wrap(h + Between(h, t)) = t
  BY <1>1, <1>4, <1>5, WrapCases
<1> QED
  BY <1>1, <1>4, <1>6 DEF Counter

(* One step of either counter.                                             *)
LEMMA CounterSteps ==
  ASSUME NEW h \in Counter, NEW t \in Counter
  PROVE  /\ Wrap(h + 1) \in Counter
         /\ Between(h, t) + 1 < UsizeMod
              => Between(h, Wrap(t + 1)) = Between(h, t) + 1
         /\ h # t => Between(Wrap(h + 1), t) = Between(h, t) - 1
         /\ (Between(h, t) = 0) <=> (h = t)
         /\ \A i \in 0 .. UsizeMod - 1 : Wrap(Wrap(h + 1) + i) = Wrap(h + (i + 1))
<1>1. UsizeMod \in Nat \ {0} /\ h \in Nat /\ t \in Nat /\ h < UsizeMod /\ t < UsizeMod
  BY ConstantsAssumption DEF Counter
<1>2. /\ Wrap(h + 1) = IF h + 1 < UsizeMod THEN h + 1 ELSE 0
      /\ Wrap(t + 1) = IF t + 1 < UsizeMod THEN t + 1 ELSE 0
  <2>1. ASSUME NEW n \in Nat, n < UsizeMod
        PROVE  Wrap(n + 1) = IF n + 1 < UsizeMod THEN n + 1 ELSE 0
    <3>1. n + 1 \in 0 .. UsizeMod + UsizeMod - 1
      BY <1>1, <2>1
    <3> QED
      BY <1>1, <2>1, <3>1, WrapCases
  <2> QED
    BY <1>1, <2>1
<1>3. Wrap(h + 1) \in Counter /\ Wrap(t + 1) \in Counter
  BY <1>1, <1>2 DEF Counter
<1>4. Between(h, t) = IF h <= t THEN t - h ELSE (t + UsizeMod) - h
  BY BetweenCases
<1>5. Between(h, t) + 1 < UsizeMod => Between(h, Wrap(t + 1)) = Between(h, t) + 1
  <2> DEFINE u == Wrap(t + 1)
  <2>1. u \in Counter /\ u = IF t + 1 < UsizeMod THEN t + 1 ELSE 0
    BY <1>2, <1>3
  <2> HIDE DEF u
  <2>2. Between(h, u) = IF h <= u THEN u - h ELSE (u + UsizeMod) - h
    BY <2>1, BetweenCases
  <2>3. Between(h, t) + 1 < UsizeMod => Between(h, u) = Between(h, t) + 1
    BY <1>1, <1>4, <2>1, <2>2
  <2> QED
    BY <2>3 DEF u
<1>6. h # t => Between(Wrap(h + 1), t) = Between(h, t) - 1
  <2> DEFINE g == Wrap(h + 1)
  <2>1. g \in Counter /\ g = IF h + 1 < UsizeMod THEN h + 1 ELSE 0
    BY <1>2, <1>3
  <2> HIDE DEF g
  <2>2. Between(g, t) = IF g <= t THEN t - g ELSE (t + UsizeMod) - g
    BY <2>1, BetweenCases
  <2>3. h # t => Between(g, t) = Between(h, t) - 1
    BY <1>1, <1>4, <2>1, <2>2
  <2> QED
    BY <2>3 DEF g
<1>7. (Between(h, t) = 0) <=> (h = t)
  BY <1>1, <1>4
<1>8. ASSUME NEW i \in 0 .. UsizeMod - 1
      PROVE  Wrap(Wrap(h + 1) + i) = Wrap(h + (i + 1))
  <2> DEFINE g == Wrap(h + 1)
  <2>1. g \in Counter /\ g = IF h + 1 < UsizeMod THEN h + 1 ELSE 0
    BY <1>2, <1>3
  <2> HIDE DEF g
  <2>2. /\ g + i \in 0 .. UsizeMod + UsizeMod - 1
        /\ h + (i + 1) \in 0 .. UsizeMod + UsizeMod - 1
    BY <1>1, <2>1
  <2>3. Wrap(g + i) = Wrap(h + (i + 1))
    BY <1>1, <2>1, <2>2, WrapCases
  <2> QED
    BY <2>3 DEF g
<1> QED
  BY <1>3, <1>5, <1>6, <1>7, <1>8

(* Any N consecutive positions of the stream have slots of their own, one  *)
(* after the other and around the end of data.                             *)
LEMMA RingSlots ==
  ASSUME NEW h \in Counter, NEW i \in 0 .. N - 1,
         UsizeMod % N = 0 \/ h + i < UsizeMod
  PROVE  /\ Slot(h) \in 0 .. N - 1
         /\ Slot(Wrap(h + i)) =
              IF Slot(h) + i < N THEN Slot(h) + i ELSE Slot(h) + i - N
<1> DEFINE q == h \div N
           r == h % N
           p == UsizeMod \div N
<1>1. /\ N \in Nat \ {0} /\ UsizeMod \in Nat \ {0} /\ h \in Nat /\ h < UsizeMod
      /\ i \in Nat /\ i < N /\ N < UsizeMod
  BY ConstantsAssumption DEF Counter
<1>2. h = N * q + r /\ q \in Int /\ r \in 0 .. N - 1
  BY <1>1
<1>3. UsizeMod % N = 0 => UsizeMod = N * p /\ p \in Int
  BY <1>1
<1> HIDE DEF q, r, p
<1>4. ASSUME NEW n \in Nat, NEW k \in Int, n = N * k + (r + i)
      PROVE  n % N = IF r + i < N THEN r + i ELSE r + i - N
  <2>1. CASE r + i < N
    <3>1. r + i \in 0 .. N - 1
      BY <1>1, <1>2, <2>1
    <3> QED
      BY <1>1, <1>4, <2>1, <3>1, Remainder
  <2>2. CASE ~(r + i < N)
    <3>1. /\ r + i - N \in 0 .. N - 1 /\ k + 1 \in Int
          /\ n = N * (k + 1) + (r + i - N)
      BY <1>1, <1>2, <1>4, <2>2
    <3> QED
      BY <1>1, <2>2, <3>1, Remainder
  <2> QED
    BY <2>1, <2>2
<1>5. h + i \in 0 .. UsizeMod + UsizeMod - 1 /\ h + i \in Nat
  BY <1>1
<1>6. Slot(Wrap(h + i)) = IF r + i < N THEN r + i ELSE r + i - N
  <2>1. CASE h + i < UsizeMod
    <3>1. Wrap(h + i) = h + i
      BY <1>5, <2>1, WrapCases
    <3>2. h + i = N * q + (r + i)
      BY <1>1, <1>2
    <3> QED
      BY <1>2, <1>4, <1>5, <3>1, <3>2 DEF Slot
  <2>2. CASE ~(h + i < UsizeMod)
    <3>1. UsizeMod = N * p /\ p \in Int
      BY <1>3, <2>2
    <3>2. Wrap(h + i) = h + i - UsizeMod /\ h + i - UsizeMod \in Nat
      BY <1>1, <1>5, <2>2, WrapCases
    <3>3. h + i - UsizeMod = N * (q - p) + (r + i) /\ q - p \in Int
      BY <1>1, <1>2, <3>1
    <3> QED
      BY <1>4, <3>2, <3>3 DEF Slot
  <2> QED
    BY <2>1, <2>2
<1> QED
  BY <1>2, <1>6 DEF Slot, r

-----------------------------------------------------------------------------
(* Types.  The queue is never longer than data, with or without SlotsFit.  *)
Bounded == QueueLen <= N

(* The counters and the slots they stand for are in range.                 *)
LEMMA Counters ==
  ASSUME TypeOK
  PROVE  /\ N \in Nat \ {0} /\ UsizeMod \in Nat \ {0} /\ N < UsizeMod
         /\ head \in Counter /\ tail \in Counter
         /\ QueueLen = Between(head, tail)
         /\ QueueLen \in 0 .. UsizeMod - 1
         /\ Slot(head) \in 0 .. N - 1 /\ Slot(tail) \in 0 .. N - 1
<1>1. N \in Nat \ {0} /\ UsizeMod \in Nat \ {0} /\ N < UsizeMod
  BY ConstantsAssumption
<1>2. head \in Counter /\ tail \in Counter
  BY DEF TypeOK, Counter
<1>3. QueueLen = Between(head, tail) /\ QueueLen \in 0 .. UsizeMod - 1
  BY <1>2, BetweenCases DEF QueueLen, Between, Counter
<1>4. Slot(head) \in 0 .. N - 1 /\ Slot(tail) \in 0 .. N - 1
  BY <1>1, <1>2 DEF Slot, Counter
<1> QED
  BY <1>1, <1>2, <1>3, <1>4

(* The two slices lie in data and have the values between them.            *)
LEMMA SliceTypes ==
  ASSUME TypeOK, Bounded
  PROVE  /\ head_len \in 0 .. QueueLen /\ head_len <= N - Slot(head)
         /\ head_len # QueueLen => head_len = N - Slot(head)
         /\ First \in Seq(Nat) /\ Len(First) = head_len
         /\ Second \in Seq(Nat) /\ Len(Second) = QueueLen - head_len
<1>1. /\ N \in Nat \ {0} /\ QueueLen \in 0 .. N /\ Slot(head) \in 0 .. N - 1
      /\ data \in [0 .. N - 1 -> Nat]
  BY Counters DEF Bounded, TypeOK
<1>2. /\ head_len \in 0 .. QueueLen /\ head_len <= N - Slot(head)
      /\ head_len # QueueLen => head_len = N - Slot(head)
  BY <1>1 DEF head_len, wrapped_head
<1>3. \A k \in 1 .. head_len : data[wrapped_head + k - 1] \in Nat
  <2>1. \A k \in 1 .. head_len : Slot(head) + k - 1 \in 0 .. N - 1
    BY <1>1, <1>2
  <2> QED
    BY <1>1, <2>1 DEF wrapped_head
<1>4. \A k \in 1 .. QueueLen - head_len : data[k - 1] \in Nat
  <2>1. \A k \in 1 .. QueueLen - head_len : k - 1 \in 0 .. N - 1
    BY <1>1, <1>2
  <2> QED
    BY <1>1, <2>1
<1>5. head_len \in Nat /\ QueueLen - head_len \in Nat
  BY <1>1, <1>2
<1>6. First \in Seq(Nat) /\ Len(First) = head_len
  BY <1>3, <1>5 DEF First
<1>7. Second \in Seq(Nat) /\ Len(Second) = QueueLen - head_len
  BY <1>4, <1>5 DEF Second
<1> QED
  BY <1>2, <1>6, <1>7

(* Writing a value with room left, and taking the oldest.                  *)
LEMMA WriteEffect ==
  ASSUME TypeOK, PushUnchecked, NEW h \in Counter, Between(h, tail) < N
  PROVE  /\ data' \in [0 .. N - 1 -> Nat] /\ pushed' = pushed + 1
         /\ tail' \in Counter /\ Between(h, tail') = Between(h, tail) + 1
         /\ data'[Slot(tail)] = pushed + 1
         /\ \A s \in 0 .. N - 1 : s # Slot(tail) => data'[s] = data[s]
<1>1. /\ Slot(tail) \in 0 .. N - 1 /\ tail \in Counter /\ N < UsizeMod
      /\ N \in Nat /\ UsizeMod \in Nat
      /\ data \in [0 .. N - 1 -> Nat] /\ pushed + 1 \in Nat
  BY Counters DEF TypeOK
<1>2. /\ data' = [data EXCEPT ![Slot(tail)] = pushed + 1]
      /\ tail' = Wrap(tail + 1) /\ pushed' = pushed + 1
  BY DEF PushUnchecked
<1>3. Between(h, tail) \in Counter /\ Between(h, tail) + 1 < UsizeMod
  <2>1. Between(h, tail) \in Counter
    BY <1>1, BetweenCases
  <2> QED
    BY <1>1, <2>1 DEF Counter
<1>4. tail' \in Counter /\ Between(h, tail') = Between(h, tail) + 1
  BY <1>1, <1>2, <1>3, CounterSteps
<1> QED
  BY <1>1, <1>2, <1>4

(* What taking the oldest value does to the counters.                      *)
LEMMA TakeEffect ==
  ASSUME TypeOK, head' = Wrap(head + 1), QueueLen # 0
  PROVE  /\ head' \in Counter /\ Between(head', tail) = QueueLen - 1
         /\ data[Slot(head)] \in Nat
         /\ \A i \in 0 .. UsizeMod - 1 : Wrap(head' + i) = Wrap(head + (i + 1))
<1>1. head \in Counter /\ tail \in Counter /\ head # tail
  BY Counters, CounterSteps
<1>2. data[Slot(head)] \in Nat
  BY Counters DEF TypeOK
<1> QED
  BY <1>1, <1>2, Counters, CounterSteps

(* What clear makes of the counters and of the histories.                  *)
LEMMA ClearEffect ==
  ASSUME TypeOK, Bounded, NEW then \in {"live", "gone"}, ClearThen(then)
  PROVE  /\ head' = 0 /\ tail' = 0 /\ QueueLen' = 0
         /\ data' = data /\ pushed' = pushed /\ popped' = popped
         /\ discarded' = discarded \o (First \o Second)
         /\ \/ destroyed' = destroyed \o (First \o Second)
            \/ destroyed' = destroyed \o First /\ panicked'
         /\ panicked => panicked'
         /\ panicked' \in BOOLEAN
         /\ status' \in {"live", "gone", "aborted"}
<1>1. /\ First \in Seq(Nat) /\ Second \in Seq(Nat) /\ discarded \in Seq(Nat)
      /\ destroyed \in Seq(Nat)
  BY SliceTypes DEF TypeOK
<1> DEFINE dropping == IF Panics(First) = {} THEN <<First, Second>> ELSE <<First, <<>>>>
           panics   == Cardinality(Panics(dropping[1])) + Cardinality(Panics(dropping[2]))
<1>2. /\ head' = 0 /\ tail' = 0
      /\ discarded' = discarded \o First \o Second
      /\ destroyed' = destroyed \o dropping[1] \o dropping[2]
      /\ panicked' = (panicked \/ panics > 0)
      /\ status' = IF panics > 1 THEN "aborted" ELSE then
      /\ data' = data /\ pushed' = pushed /\ popped' = popped
  BY DEF ClearThen
<1>3. QueueLen' = 0
  <2>1. UsizeMod % UsizeMod = 0 /\ 0 + UsizeMod - 0 = UsizeMod
    BY ConstantsAssumption
  <2> QED
    BY <1>2, <2>1 DEF QueueLen, Wrap
<1>a. \A s, u, v \in Seq(Nat) : (s \o u) \o v = s \o (u \o v)
  <2> DEFINE S == Nat
  <2> HIDE DEF S
  <2>1. \A s, u, v \in Seq(S) : (s \o u) \o v = s \o (u \o v)
    BY ConcatAssociative
  <2> QED
    BY <2>1 DEF S
<1>4. discarded' = discarded \o (First \o Second)
  <2>1. (discarded \o First) \o Second = discarded \o (First \o Second)
    BY <1>1, <1>a
  <2> QED
    BY <1>2, <2>1
<1>5. CASE Panics(First) = {}
  <2>1. destroyed' = (destroyed \o First) \o Second
    BY <1>2, <1>5
  <2>2. destroyed' = destroyed \o (First \o Second)
    BY <1>1, <1>a, <2>1
  <2> HIDE DEF panics
  <2>3. /\ panicked => panicked' /\ panicked' \in BOOLEAN
        /\ status' \in {"live", "gone", "aborted"}
    BY <1>2
  <2> QED
    BY <1>2, <1>3, <1>4, <2>2, <2>3
<1>6. CASE Panics(First) # {}
  <2>1. destroyed' = (destroyed \o First) \o <<>>
    BY <1>2, <1>6
  <2>2. destroyed \o First \in Seq(Nat)
    BY <1>1
  <2>3. destroyed' = destroyed \o First
    BY <2>1, <2>2
  <2>4. panics = Cardinality(Panics(First)) + Cardinality(Panics(<<>>))
    BY <1>6
  <2>5. Panics(<<>>) = {} /\ Cardinality({}) = 0
    BY FS_EmptySet DEF Panics
  <2>6. IsFiniteSet(Panics(First))
    <3>1. Panics(First) \subseteq 1 .. Len(First) /\ Len(First) \in Int
      BY <1>1 DEF Panics
    <3>2. IsFiniteSet(1 .. Len(First))
      BY <3>1, FS_Interval
    <3> QED
      BY <3>1, <3>2, FS_Subset
  <2>7. Cardinality(Panics(First)) \in Nat /\ Cardinality(Panics(First)) # 0
    BY <1>6, <2>6, FS_CardinalityType, FS_EmptySet
  <2>8. panics > 0
    <3>1. panics = Cardinality(Panics(First)) + 0
      BY <2>4, <2>5
    <3> HIDE DEF panics
    <3> QED
      BY <2>7, <3>1
  <2> HIDE DEF panics
  <2>9. panicked' /\ panicked' \in BOOLEAN
    BY <1>2, <2>8
  <2>10. status' \in {"live", "gone", "aborted"}
    BY <1>2
  <2> QED
    BY <1>2, <1>3, <1>4, <2>3, <2>9, <2>10
<1> QED
  BY <1>5, <1>6

(* The queue never holds more than N values.                               *)
LEMMA BoundedInvariant == Spec => [](TypeOK /\ Bounded)
<1>1. Init => TypeOK /\ Bounded
  <2> SUFFICES ASSUME Init PROVE TypeOK /\ Bounded
    OBVIOUS
  <2>1. UsizeMod % UsizeMod = 0 /\ 0 + UsizeMod - 0 = UsizeMod /\ N \in Nat
    BY ConstantsAssumption
  <2>2. QueueLen = 0
    BY <2>1 DEF Init, QueueLen, Wrap
  <2>3. TypeOK
    <3>1. 0 \in 0 .. UsizeMod - 1 /\ data \in [0 .. N - 1 -> Nat]
      BY ConstantsAssumption DEF Init
    <3>2. <<>> \in Seq(Nat) /\ 0 \in Nat
      OBVIOUS
    <3>3. /\ head = 0 /\ tail = 0 /\ status = "live" /\ pushed = 0
          /\ popped = <<>> /\ discarded = <<>> /\ destroyed = <<>> /\ panicked = FALSE
      BY DEF Init
    <3>4. panicked \in BOOLEAN /\ status \in {"live", "gone", "aborted"}
      BY <3>3
    <3> QED
      BY <3>1, <3>2, <3>3, <3>4 DEF TypeOK
  <2> QED
    BY <2>1, <2>2, <2>3 DEF Bounded
<1>2. TypeOK /\ Bounded /\ [Next]_vars => TypeOK' /\ Bounded'
  <2> SUFFICES ASSUME TypeOK, Bounded, [Next]_vars PROVE TypeOK' /\ Bounded'
    OBVIOUS
  <2>0. /\ data \in [0 .. N - 1 -> Nat]
        /\ head \in Counter /\ tail \in Counter
        /\ status \in {"live", "gone", "aborted"}
        /\ pushed \in Nat /\ panicked \in BOOLEAN
        /\ popped \in Seq(Nat) /\ discarded \in Seq(Nat) /\ destroyed \in Seq(Nat)
        /\ N \in Nat \ {0} /\ QueueLen \in 0 .. N
        /\ QueueLen = Between(head, tail)
    BY Counters DEF TypeOK, Bounded
  <2>1. QueueLen' = Between(head', tail')
    BY DEF QueueLen, Between
  <2>2. CASE Push
    <3>1. /\ PushUnchecked /\ QueueLen # N
          /\ head' = head /\ status' = status /\ popped' = popped
          /\ discarded' = discarded /\ destroyed' = destroyed /\ panicked' = panicked
      BY <2>2 DEF Push
    <3>2. /\ data' \in [0 .. N - 1 -> Nat] /\ pushed' = pushed + 1
          /\ tail' \in Counter /\ Between(head, tail') = QueueLen + 1
      BY <2>0, <3>1, WriteEffect
    <3>3. QueueLen' <= N
      BY <2>0, <2>1, <3>1, <3>2
    <3> QED
      BY <2>0, <3>1, <3>2, <3>3 DEF TypeOK, Bounded, Counter
  <2>3. CASE Pop
    <3>1. /\ head' = Wrap(head + 1) /\ head # tail
          /\ popped' = Append(popped, data[Slot(head)])
          /\ data' = data /\ tail' = tail /\ status' = status /\ pushed' = pushed
          /\ discarded' = discarded /\ destroyed' = destroyed /\ panicked' = panicked
      BY <2>3 DEF Pop
    <3>2. QueueLen # 0
      BY <2>0, <3>1, CounterSteps
    <3>3. /\ head' \in Counter /\ Between(head', tail) = QueueLen - 1
          /\ data[Slot(head)] \in Nat
      BY <3>1, <3>2, TakeEffect
    <3>4. QueueLen' <= N
      BY <2>0, <2>1, <3>1, <3>3
    <3> QED
      BY <2>0, <3>1, <3>3, <3>4 DEF TypeOK, Bounded, Counter
  <2>4. CASE ForcePush
    <3>1. /\ head' = Wrap(head + 1) /\ QueueLen = N
          /\ discarded' = Append(discarded, data[Slot(head)])
          /\ destroyed' = Append(destroyed, data[Slot(head)])
          /\ popped' = popped
      BY <2>4 DEF ForcePush
    <3>2. /\ head' \in Counter /\ Between(head', tail) = QueueLen - 1
          /\ data[Slot(head)] \in Nat
      BY <2>0, <3>1, TakeEffect
    <3>3. discarded' \in Seq(Nat) /\ destroyed' \in Seq(Nat)
      BY <2>0, <3>1, <3>2
    <3>4. CASE PushUnchecked /\ status' = status /\ panicked' = panicked
      <4>1. /\ data' \in [0 .. N - 1 -> Nat] /\ pushed' = pushed + 1
            /\ tail' \in Counter /\ Between(head', tail') = Between(head', tail) + 1
        BY <2>0, <3>1, <3>2, <3>4, WriteEffect
      <4>2. QueueLen' <= N
        BY <2>0, <2>1, <3>2, <4>1
      <4> QED
        BY <2>0, <3>1, <3>2, <3>3, <3>4, <4>1, <4>2 DEF TypeOK, Bounded, Counter
    <3>5. CASE /\ status' \in {"live", "aborted"} /\ panicked' = TRUE
               /\ data' = data /\ tail' = tail /\ pushed' = pushed
      <4>1. QueueLen' <= N
        BY <2>0, <2>1, <3>2, <3>5
      <4> QED
        BY <2>0, <3>1, <3>2, <3>3, <3>5, <4>1 DEF TypeOK, Bounded, Counter
    <3> QED
      BY <2>4, <3>4, <3>5 DEF ForcePush
  <2>5. ASSUME NEW then \in {"live", "gone"}, ClearThen(then)
        PROVE  TypeOK' /\ Bounded'
    <3>1. First \in Seq(Nat) /\ First \o Second \in Seq(Nat)
      BY SliceTypes
    <3>2. /\ head' = 0 /\ tail' = 0 /\ QueueLen' = 0
          /\ data' = data /\ pushed' = pushed /\ popped' = popped
          /\ discarded' = discarded \o (First \o Second)
          /\ \/ destroyed' = destroyed \o (First \o Second)
             \/ destroyed' = destroyed \o First
          /\ panicked' \in BOOLEAN
          /\ status' \in {"live", "gone", "aborted"}
      BY <2>5, ClearEffect
    <3>3. discarded' \in Seq(Nat) /\ destroyed' \in Seq(Nat)
      <4>1. \A s, u \in Seq(Nat) : s \o u \in Seq(Nat)
        OBVIOUS
      <4> QED
        BY <2>0, <3>1, <3>2, <4>1
    <3>4. 0 \in 0 .. UsizeMod - 1 /\ 0 <= N
      BY Counters
    <3> QED
      BY <2>0, <3>2, <3>3, <3>4 DEF TypeOK, Bounded
  <2>6. CASE UNCHANGED vars
    BY <2>6 DEF vars, history, TypeOK, Bounded, QueueLen
  <2> QED
    BY <2>2, <2>3, <2>4, <2>5, <2>6 DEF Next, Clear, DropQueue
<1> QED
  BY <1>1, <1>2, PTL DEF Spec

(* The variables keep their types and both counters stay in usize.         *)
THEOREM TypeCorrect == Spec => []TypeOK
<1>1. TypeOK /\ Bounded => TypeOK
  OBVIOUS
<1> QED
  BY <1>1, BoundedInvariant, PTL

-----------------------------------------------------------------------------
(* The invariant.                                                          *)

LEMMA Facts ==
  ASSUME TypeOK, CountersInv
  PROVE  /\ N \in Nat \ {0} /\ UsizeMod \in Nat \ {0} /\ N < UsizeMod
         /\ MaxPushes \in Nat
         /\ head \in Counter /\ tail \in Counter
         /\ QueueLen = Between(head, tail) /\ QueueLen \in 0 .. N
         /\ Left \in Nat /\ pushed \in Nat /\ pushed = Left + QueueLen
         /\ pushed <= MaxPushes
         /\ popped \in Seq(Nat) /\ discarded \in Seq(Nat) /\ destroyed \in Seq(Nat)
         /\ Left = Len(popped) + Len(discarded)
         /\ Bounded
<1>1. Left \in Nat /\ Left = Len(popped) + Len(discarded)
  BY DEF TypeOK, Left
<1>2. QueueLen \in 0 .. N /\ pushed \in Nat /\ pushed = Left + QueueLen
  BY <1>1, Counters DEF CountersInv, TypeOK
<1> QED
  BY <1>1, <1>2, Counters, ConstantsAssumption DEF TypeOK, CountersInv, Bounded

(* With room left, the slot at tail is not the slot of any value inside.   *)
LEMMA TailApart ==
  ASSUME NEW h \in Counter, NEW t \in Counter, Between(h, t) < N,
         UsizeMod % N = 0 \/ h <= t, NEW i \in 0 .. Between(h, t) - 1
  PROVE  Slot(Wrap(h + i)) \in 0 .. N - 1 /\ Slot(Wrap(h + i)) # Slot(t)
<1> DEFINE n == Between(h, t)
<1>1. /\ N \in Nat \ {0} /\ UsizeMod \in Nat \ {0} /\ h \in Nat /\ t \in Nat
      /\ h < UsizeMod /\ t < UsizeMod
  BY ConstantsAssumption DEF Counter
<1>2. /\ n = IF h <= t THEN t - h ELSE (t + UsizeMod) - h
      /\ Wrap(h + n) = t
  BY BetweenCases
<1>3. n \in Nat /\ n < N /\ i < n /\ i \in Nat
  BY <1>1, <1>2
<1> HIDE DEF n
<1>4. /\ UsizeMod % N = 0 \/ h + i < UsizeMod
      /\ UsizeMod % N = 0 \/ h + n < UsizeMod
      /\ i \in 0 .. N - 1 /\ n \in 0 .. N - 1
  BY <1>1, <1>2, <1>3
<1>5. /\ Slot(h) \in 0 .. N - 1
      /\ Slot(Wrap(h + i)) = IF Slot(h) + i < N THEN Slot(h) + i ELSE Slot(h) + i - N
      /\ Slot(t) = IF Slot(h) + n < N THEN Slot(h) + n ELSE Slot(h) + n - N
  BY <1>2, <1>4, RingSlots
<1> QED
  BY <1>1, <1>3, <1>4, <1>5

(* Writing at tail leaves the values inside where they are.                *)
LEMMA WriteInside ==
  ASSUME TypeOK, PushUnchecked, NEW h \in Counter, Between(h, tail) < N,
         UsizeMod % N = 0 \/ h <= tail
  PROVE  /\ \A i \in 0 .. Between(h, tail) - 1 :
              data'[Slot(Wrap(h + i))] = data[Slot(Wrap(h + i))]
         /\ data'[Slot(Wrap(h + Between(h, tail)))] = pushed + 1
<1>1. /\ data'[Slot(tail)] = pushed + 1
      /\ \A s \in 0 .. N - 1 : s # Slot(tail) => data'[s] = data[s]
  BY WriteEffect
<1>2. tail \in Counter
  BY Counters
<1>3. Wrap(h + Between(h, tail)) = tail
  BY <1>2, BetweenCases
<1>4. \A i \in 0 .. Between(h, tail) - 1 :
        Slot(Wrap(h + i)) \in 0 .. N - 1 /\ Slot(Wrap(h + i)) # Slot(tail)
  BY <1>2, TailApart
<1> QED
  BY <1>1, <1>3, <1>4

(* Without wrapping, the counters move up to what was pushed at most.      *)
LEMMA NoWrap ==
  ASSUME SlotsFit, TypeOK, CountersInv, UsizeMod % N # 0
  PROVE  /\ head \in Nat /\ tail \in Nat /\ head <= tail /\ tail <= pushed
         /\ QueueLen = tail - head
         /\ QueueLen # 0 => Wrap(head + 1) = head + 1
         /\ pushed < MaxPushes => Wrap(tail + 1) = tail + 1
<1>1. /\ head \in Nat /\ tail \in Nat /\ head < UsizeMod /\ tail < UsizeMod
      /\ head <= tail /\ tail <= pushed /\ pushed <= MaxPushes /\ MaxPushes < UsizeMod
      /\ UsizeMod \in Nat /\ MaxPushes \in Nat /\ pushed \in Nat
  <2>1. head <= tail /\ tail <= pushed
    BY DEF CountersInv
  <2>2. MaxPushes < UsizeMod
    BY DEF SlotsFit
  <2> QED
    BY <2>1, <2>2, Facts DEF Counter
<1>2. QueueLen = tail - head
  BY <1>1, Facts, BetweenCases
<1>3. \A n \in Nat : n + 1 < UsizeMod => Wrap(n + 1) = n + 1
  BY <1>1 DEF Wrap
<1> QED
  BY <1>1, <1>2, <1>3

(* push keeps the invariant,                                               *)
LEMMA PushInv ==
  ASSUME SlotsFit, TypeOK, Inv, Push
  PROVE  Inv'
<1>1. /\ PushUnchecked /\ QueueLen # N /\ pushed < MaxPushes /\ status = "live"
      /\ head' = head /\ status' = status /\ popped' = popped
      /\ discarded' = discarded /\ destroyed' = destroyed /\ panicked' = panicked
  BY DEF Push
<1>2. /\ QueueLen = Between(head, tail) /\ QueueLen \in 0 .. N - 1
      /\ head \in Counter /\ N \in Nat /\ Left \in Nat /\ pushed = Left + QueueLen
      /\ MaxPushes \in Nat
  BY <1>1, Facts DEF Inv
<1>3. /\ pushed' = pushed + 1 /\ QueueLen' = QueueLen + 1 /\ Left' = Left
      /\ tail' = Wrap(tail + 1)
  <2>1. QueueLen' = Between(head', tail')
    BY DEF QueueLen, Between
  <2>2. Left' = Left /\ tail' = Wrap(tail + 1)
    BY <1>1 DEF Left, PushUnchecked
  <2> QED
    BY <1>1, <1>2, <2>1, <2>2, WriteEffect
<1>4. UsizeMod % N = 0 \/ head <= tail
  BY DEF Inv, CountersInv
<1>5. CountersInv'
  <2>1. ASSUME UsizeMod % N # 0 PROVE head' <= tail' /\ tail' <= pushed'
    <3>1. /\ head \in Nat /\ tail \in Nat /\ head <= tail /\ tail <= pushed
          /\ Wrap(tail + 1) = tail + 1 /\ pushed \in Nat
      BY <1>1, <2>1, NoWrap, Facts DEF Inv
    <3> QED
      BY <1>1, <1>3, <3>1
  <2>2. QueueLen' = pushed' - Left' /\ QueueLen' <= N /\ pushed' <= MaxPushes
    <3>1. pushed \in Nat
      BY Facts DEF Inv
    <3> QED
      BY <1>1, <1>2, <1>3, <3>1
  <2> QED
    BY <2>1, <2>2 DEF CountersInv
<1>6. RingInv'
  <2> SUFFICES ASSUME NEW i \in 0 .. QueueLen' - 1 PROVE Get(i)' = Left' + i + 1
    BY DEF RingInv
  <2>1. Get(i)' = data'[Slot(Wrap(head + i))]
    BY <1>1 DEF Get
  <2>2. CASE i \in 0 .. QueueLen - 1
    <3>1. data'[Slot(Wrap(head + i))] = data[Slot(Wrap(head + i))]
      BY <1>1, <1>2, <1>4, <2>2, WriteInside
    <3>2. Get(i) = Left + i + 1
      BY <2>2 DEF Inv, RingInv
    <3> QED
      BY <1>3, <2>1, <3>1, <3>2 DEF Get
  <2>3. CASE i = QueueLen
    <3>1. data'[Slot(Wrap(head + i))] = pushed + 1
      BY <1>1, <1>2, <1>4, <2>3, WriteInside
    <3> QED
      BY <1>2, <1>3, <2>1, <2>3, <3>1
  <2> QED
    BY <1>2, <1>3, <2>2, <2>3
<1>7. HistoryInv'
  BY <1>1, <1>3 DEF Inv, HistoryInv
<1> QED
  BY <1>5, <1>6, <1>7 DEF Inv

(* The oldest value inside is the next number that leaves.                 *)
LEMMA Oldest ==
  ASSUME TypeOK, Inv, QueueLen # 0
  PROVE  data[Slot(head)] = Left + 1
<1>1. 0 \in 0 .. QueueLen - 1 /\ head \in 0 .. UsizeMod - 1 /\ UsizeMod \in Nat /\ Left \in Nat
  BY Facts DEF Inv, Counter
<1>2. Get(0) = Left + 0 + 1
  BY <1>1 DEF Inv, RingInv
<1>3. head + 0 = head /\ head \in 0 .. UsizeMod + UsizeMod - 1 /\ head < UsizeMod
  BY <1>1
<1>4. Wrap(head + 0) = head
  BY <1>3, WrapCases
<1> QED
  BY <1>1, <1>2, <1>4 DEF Get

(* Once the oldest has left, get(i) finds what get(i + 1) found before.    *)
LEMMA Advance ==
  ASSUME TypeOK, Inv, QueueLen # 0, head' = Wrap(head + 1)
  PROVE  \A i \in 0 .. QueueLen - 2 :
           data[Slot(Wrap(head' + i))] = Left + 1 + i + 1
<1> SUFFICES ASSUME NEW i \in 0 .. QueueLen - 2
             PROVE  data[Slot(Wrap(head' + i))] = Left + 1 + i + 1
  OBVIOUS
<1>1. i + 1 \in 0 .. QueueLen - 1 /\ i \in 0 .. UsizeMod - 1 /\ Left \in Nat
  BY Facts DEF Inv
<1>2. Get(i + 1) = Left + (i + 1) + 1
  BY <1>1 DEF Inv, RingInv
<1>3. Wrap(head' + i) = Wrap(head + (i + 1))
  BY <1>1, TakeEffect
<1> QED
  BY <1>1, <1>2, <1>3 DEF Get

(* pop keeps it,                                                           *)
LEMMA PopInv ==
  ASSUME SlotsFit, TypeOK, Inv, Pop
  PROVE  Inv'
<1>1. /\ head' = Wrap(head + 1) /\ head # tail /\ status = "live"
      /\ popped' = Append(popped, data[Slot(head)])
      /\ data' = data /\ tail' = tail /\ status' = status /\ pushed' = pushed
      /\ discarded' = discarded /\ destroyed' = destroyed /\ panicked' = panicked
  BY DEF Pop
<1>2. /\ QueueLen = Between(head, tail) /\ QueueLen \in 0 .. N
      /\ N \in Nat /\ Left \in Nat /\ pushed = Left + QueueLen
      /\ popped \in Seq(Nat) /\ discarded \in Seq(Nat) /\ pushed \in Nat
      /\ Left = Len(popped) + Len(discarded)
      /\ head \in Counter /\ tail \in Counter
  BY Facts DEF Inv
<1>3. QueueLen # 0
  BY <1>1, <1>2, CounterSteps
<1>4. /\ QueueLen' = QueueLen - 1 /\ data[Slot(head)] = Left + 1
      /\ popped' = Append(popped, Left + 1)
  <2>1. QueueLen' = Between(head', tail')
    BY DEF QueueLen, Between
  <2> QED
    BY <1>1, <1>3, <2>1, TakeEffect, Oldest
<1>5. Left' = Left + 1
  BY <1>1, <1>2, <1>4 DEF Left
<1>6. CountersInv'
  <2>1. ASSUME UsizeMod % N # 0 PROVE head' <= tail' /\ tail' <= pushed'
    <3>1. /\ head \in Nat /\ tail \in Nat /\ head <= tail /\ tail <= pushed
          /\ QueueLen = tail - head /\ Wrap(head + 1) = head + 1
      BY <1>3, <2>1, NoWrap DEF Inv
    <3> QED
      BY <1>1, <1>2, <1>3, <3>1
  <2>2. QueueLen' = pushed' - Left' /\ QueueLen' <= N /\ pushed' <= MaxPushes
    <3>1. pushed <= MaxPushes
      BY Facts DEF Inv
    <3> QED
      BY <1>1, <1>2, <1>4, <1>5, <3>1
  <2> QED
    BY <2>1, <2>2 DEF CountersInv
<1>7. RingInv'
  <2>1. \A i \in 0 .. QueueLen - 2 : data[Slot(Wrap(head' + i))] = Left + 1 + i + 1
    BY <1>1, <1>3, Advance
  <2>2. 0 .. QueueLen' - 1 = 0 .. QueueLen - 2
    BY <1>2, <1>4
  <2> QED
    BY <1>1, <1>5, <2>1, <2>2 DEF RingInv, Get
<1>8. HistoryInv'
  <2>1. Left + 1 \notin Range(popped) /\ Left + 1 \notin Range(destroyed) /\ Left + 1 \in Nat
    BY <1>2 DEF Inv, HistoryInv
  <2>2. Range(popped') = Range(popped) \cup {Left + 1} /\ IsInjective(popped')
    BY <1>2, <1>4, <2>1, AppendRange DEF Inv, HistoryInv
  <2>3. 1 .. Left' = 1 .. Left \cup {Left + 1}
    BY <1>2, <1>5
  <2> QED
    BY <1>1, <2>1, <2>2, <2>3 DEF Inv, HistoryInv
<1> QED
  BY <1>6, <1>7, <1>8 DEF Inv

(* force_push keeps it,                                                    *)
LEMMA ForcePushInv ==
  ASSUME SlotsFit, TypeOK, Inv, ForcePush
  PROVE  Inv'
<1>1. /\ head' = Wrap(head + 1) /\ QueueLen = N /\ status = "live" /\ pushed < MaxPushes
      /\ discarded' = Append(discarded, data[Slot(head)])
      /\ destroyed' = Append(destroyed, data[Slot(head)])
      /\ popped' = popped
  BY DEF ForcePush
<1>2. \/ PushUnchecked /\ status' = status /\ panicked' = panicked
      \/ /\ status' \in {"live", "aborted"} /\ panicked' = TRUE
         /\ data' = data /\ tail' = tail /\ pushed' = pushed
  BY DEF ForcePush
<1>3. /\ QueueLen = Between(head, tail) /\ N \in Nat \ {0} /\ QueueLen # 0
      /\ MaxPushes \in Nat
      /\ Left \in Nat /\ pushed = Left + QueueLen /\ pushed \in Nat /\ pushed <= MaxPushes
      /\ destroyed \in Seq(Nat) /\ discarded \in Seq(Nat)
      /\ Left = Len(popped) + Len(discarded) /\ Len(popped) \in Nat
  BY <1>1, Facts DEF Inv
<1>a. /\ N \in Nat \ {0} /\ Left \in Nat /\ pushed = Left + N /\ MaxPushes \in Nat
      /\ pushed + 1 <= MaxPushes
  BY <1>1, <1>3
<1>4. /\ data[Slot(head)] = Left + 1 /\ head' \in Counter
      /\ Between(head', tail) = N - 1
      /\ \A i \in 0 .. N - 2 : data[Slot(Wrap(head' + i))] = Left + 1 + i + 1
  BY <1>1, <1>3, Oldest, TakeEffect, Advance
<1>5. Left' = Left + 1
  <2>1. Len(discarded') = Len(discarded) + 1
    BY <1>1, <1>3, <1>4
  <2> QED
    BY <1>1, <1>3, <2>1 DEF Left
<1>6. ASSUME UsizeMod % N # 0
      PROVE  /\ head' <= tail /\ tail <= pushed /\ tail \in Nat /\ head' \in Nat
             /\ Wrap(tail + 1) = tail + 1
  <2>1. /\ head \in Nat /\ tail \in Nat /\ head <= tail /\ tail <= pushed
        /\ QueueLen = tail - head /\ Wrap(head + 1) = head + 1
        /\ Wrap(tail + 1) = tail + 1
    BY <1>1, <1>3, <1>6, NoWrap DEF Inv
  <2> QED
    BY <1>1, <1>3, <2>1
<1>7. QueueLen' = Between(head', tail')
  BY DEF QueueLen, Between
<1>8. HistoryInv'
  <2>1. Left + 1 \notin Range(popped) /\ Left + 1 \notin Range(destroyed) /\ Left + 1 \in Nat
    BY <1>3 DEF Inv, HistoryInv
  <2>2. Range(destroyed') = Range(destroyed) \cup {Left + 1} /\ IsInjective(destroyed')
    <3>1. IsInjective(destroyed)
      BY DEF Inv, HistoryInv
    <3> QED
      BY <1>1, <1>3, <1>4, <2>1, <3>1, AppendRange
  <2>3. 1 .. Left' = 1 .. Left \cup {Left + 1}
    BY <1>3, <1>5
  <2>4. status' # "gone" /\ (~panicked' => ~panicked)
    BY <1>1, <1>2
  <2> QED
    BY <1>1, <2>1, <2>2, <2>3, <2>4 DEF Inv, HistoryInv
<1>9. CASE PushUnchecked
  <2>0. UsizeMod % N = 0 \/ head' <= tail
    BY <1>6
  <2>1. /\ pushed' = pushed + 1 /\ Between(head', tail') = N /\ tail' = Wrap(tail + 1)
    <3>1. Between(head', tail) < N /\ Between(head', tail) + 1 = N
      BY <1>3, <1>4
    <3>2. pushed' = pushed + 1 /\ Between(head', tail') = Between(head', tail) + 1
      BY <1>4, <1>9, <3>1, WriteEffect
    <3> QED
      BY <1>9, <3>1, <3>2 DEF PushUnchecked
  <2>2. /\ \A i \in 0 .. N - 2 : data'[Slot(Wrap(head' + i))] = data[Slot(Wrap(head' + i))]
        /\ data'[Slot(Wrap(head' + (N - 1)))] = pushed + 1
    <3>1. Between(head', tail) < N /\ 0 .. Between(head', tail) - 1 = 0 .. N - 2
      BY <1>3, <1>4
    <3> QED
      BY <1>4, <1>9, <2>0, <3>1, WriteInside
  <2>3. CountersInv'
    <3>1. QueueLen' = pushed' - Left' /\ QueueLen' <= N /\ pushed' <= MaxPushes
      BY <1>a, <1>5, <1>7, <2>1
    <3>2. ASSUME UsizeMod % N # 0 PROVE head' <= tail' /\ tail' <= pushed'
      BY <1>3, <1>6, <2>1, <3>2
    <3> QED
      BY <3>1, <3>2 DEF CountersInv
  <2>4. RingInv'
    <3> SUFFICES ASSUME NEW i \in 0 .. N - 1
                 PROVE  data'[Slot(Wrap(head' + i))] = Left' + i + 1
      BY <1>7, <2>1 DEF RingInv, Get
    <3>1. CASE i \in 0 .. N - 2
      BY <1>4, <1>5, <2>2, <3>1
    <3>2. CASE i = N - 1
      <4>1. data'[Slot(Wrap(head' + i))] = pushed + 1
        BY <2>2, <3>2
      <4>2. pushed + 1 = Left' + i + 1
        BY <1>a, <1>5, <3>2
      <4> QED
        BY <4>1, <4>2
    <3> QED
      BY <1>3, <3>1, <3>2
  <2> QED
    BY <1>8, <2>3, <2>4 DEF Inv
<1>10. CASE data' = data /\ tail' = tail /\ pushed' = pushed
  <2>1. QueueLen' = N - 1
    BY <1>4, <1>7, <1>10
  <2>2. CountersInv'
    <3>1. QueueLen' = pushed' - Left' /\ QueueLen' <= N /\ pushed' <= MaxPushes
      BY <1>a, <1>5, <1>10, <2>1
    <3> QED
      BY <1>6, <1>10, <3>1 DEF CountersInv
  <2>3. RingInv'
    <3>1. 0 .. QueueLen' - 1 = 0 .. N - 2
      BY <1>3, <2>1
    <3> QED
      BY <1>4, <1>5, <1>10, <3>1 DEF RingInv, Get
  <2> QED
    BY <1>8, <2>2, <2>3 DEF Inv
<1> QED
  BY <1>2, <1>9, <1>10

(* The values inside are consecutive numbers, and so are the two slices.   *)
Queue == [k \in 1 .. QueueLen |-> Get(k - 1)]

(* What the invariant says about the values inside.                        *)
LEMMA Inside ==
  ASSUME TypeOK, Inv
  PROVE  /\ Queue = Run(Left, QueueLen)
         /\ First = Run(Left, head_len)
         /\ First \o Second = Run(Left, QueueLen)
<1>1. /\ N \in Nat \ {0} /\ UsizeMod \in Nat \ {0} /\ QueueLen \in 0 .. N /\ Left \in Nat
      /\ head \in Counter /\ QueueLen = Between(head, tail) /\ tail \in Counter
      /\ Bounded
  BY Facts DEF Inv
<1>2. /\ head_len \in 0 .. QueueLen /\ head_len <= N - Slot(head)
      /\ head_len # QueueLen => head_len = N - Slot(head)
      /\ First \in Seq(Nat) /\ Len(First) = head_len
      /\ Second \in Seq(Nat) /\ Len(Second) = QueueLen - head_len
  BY <1>1, SliceTypes
<1>3. \A i \in 0 .. QueueLen - 1 : Get(i) = Left + i + 1
  BY DEF Inv, RingInv
<1>4. ASSUME NEW i \in 0 .. QueueLen - 1
      PROVE  /\ Slot(head) \in 0 .. N - 1
             /\ Get(i) = data[IF Slot(head) + i < N THEN Slot(head) + i
                                                    ELSE Slot(head) + i - N]
  <2>1. UsizeMod % N = 0 \/ head <= tail
    BY DEF Inv, CountersInv
  <2>2. /\ QueueLen = IF head <= tail THEN tail - head ELSE (tail + UsizeMod) - head
        /\ head \in Nat /\ tail \in Nat /\ tail < UsizeMod
    <3>1. QueueLen = IF head <= tail THEN tail - head ELSE (tail + UsizeMod) - head
      BY <1>1, BetweenCases
    <3> QED
      BY <1>1, <3>1 DEF Counter
  <2>3. UsizeMod % N = 0 \/ head + i < UsizeMod
    <3>1. head <= tail => head + i < UsizeMod
      BY <1>1, <2>2
    <3> QED
      BY <2>1, <3>1
  <2>4. i \in 0 .. N - 1
    BY <1>1
  <2> QED
    BY <1>1, <2>3, <2>4, RingSlots DEF Get
<1>5. Queue = Run(Left, QueueLen)
  <2>1. ASSUME NEW k \in 1 .. QueueLen PROVE Get(k - 1) = Left + k
    <3>1. k - 1 \in 0 .. QueueLen - 1 /\ Left + (k - 1) + 1 = Left + k
      BY <1>1
    <3> QED
      BY <1>3, <3>1
  <2> QED
    BY <2>1 DEF Queue, Run
<1>6. First = Run(Left, head_len)
  <2>1. ASSUME NEW k \in 1 .. head_len PROVE First[k] = Left + k
    <3>1. /\ k - 1 \in 0 .. QueueLen - 1 /\ Left + (k - 1) + 1 = Left + k
      BY <1>1, <1>2
    <3>2. Slot(head) \in 0 .. N - 1
      BY <1>4, <3>1
    <3>3. Slot(head) + (k - 1) < N /\ Slot(head) + (k - 1) = Slot(head) + k - 1
      BY <1>1, <1>2, <3>2
    <3>4. Get(k - 1) = data[Slot(head) + k - 1]
      BY <1>4, <3>1, <3>3
    <3> QED
      BY <1>3, <3>1, <3>4 DEF First, wrapped_head
  <2> QED
    BY <1>1, <1>2, <2>1, IsRun
<1>7. Second = Run(Left + head_len, QueueLen - head_len)
  <2>0. Left + head_len \in Nat /\ QueueLen - head_len \in Nat /\ head_len \in Nat
    BY <1>1, <1>2
  <2>1. ASSUME NEW k \in 1 .. QueueLen - head_len
        PROVE  Second[k] = (Left + head_len) + k
    <3> DEFINE i == head_len + k - 1
    <3>1. /\ i \in 0 .. QueueLen - 1 /\ Left + i + 1 = (Left + head_len) + k
          /\ head_len # QueueLen
      BY <1>1, <1>2
    <3>2. Slot(head) \in 0 .. N - 1
      BY <1>4, <3>1
    <3>3. ~(Slot(head) + i < N) /\ Slot(head) + i - N = k - 1
      <4>1. head_len = N - Slot(head) /\ N \in Nat
        BY <1>1, <1>2, <3>1
      <4>2. k \in Nat /\ k >= 1
        OBVIOUS
      <4> QED
        BY <3>2, <4>1, <4>2
    <3> HIDE DEF i
    <3>4. Get(i) = data[k - 1]
      BY <1>4, <3>1, <3>3
    <3> QED
      BY <1>3, <3>1, <3>4 DEF Second
  <2> QED
    BY <1>2, <2>0, <2>1, IsRun
<1>8. First \o Second = Run(Left, QueueLen)
  <2> DEFINE n == head_len
             m == QueueLen - head_len
  <2>1. n \in Nat /\ m \in Nat /\ n + m = QueueLen
    BY <1>1, <1>2
  <2>2. First = Run(Left, n) /\ Second = Run(Left + n, m)
    BY <1>6, <1>7
  <2> HIDE DEF n, m
  <2>3. Run(Left, n) \o Run(Left + n, m) = Run(Left, n + m)
    BY <1>1, <2>1, RunConcat
  <2> QED
    BY <2>1, <2>2, <2>3
<1> QED
  BY <1>5, <1>6, <1>8

(* and clear keeps it, panicking destructors included.                     *)
LEMMA ClearInv ==
  ASSUME TypeOK, Inv, NEW then \in {"live", "gone"}, ClearThen(then)
  PROVE  Inv'
<1>1. /\ QueueLen \in 0 .. N /\ Left \in Nat /\ pushed = Left + QueueLen /\ pushed \in Nat
      /\ pushed <= MaxPushes /\ N \in Nat /\ Bounded
      /\ destroyed \in Seq(Nat) /\ discarded \in Seq(Nat)
      /\ Left = Len(popped) + Len(discarded) /\ Len(popped) \in Nat
  BY Facts DEF Inv, TypeOK
<1>2. /\ First \o Second = Run(Left, QueueLen) /\ First = Run(Left, head_len)
      /\ head_len \in 0 .. QueueLen
  BY <1>1, Inside, SliceTypes
<1>3. /\ head' = 0 /\ tail' = 0 /\ QueueLen' = 0 /\ pushed' = pushed /\ popped' = popped
      /\ discarded' = discarded \o Run(Left, QueueLen)
      /\ panicked => panicked'
  BY <1>1, <1>2, ClearEffect
<1>4. \/ destroyed' = destroyed \o Run(Left, QueueLen)
      \/ destroyed' = destroyed \o Run(Left, head_len) /\ panicked'
  BY <1>1, <1>2, ClearEffect
<1>5. Left' = pushed
  <2>1. Run(Left, QueueLen) \in Seq(Nat) /\ Len(Run(Left, QueueLen)) = QueueLen
    <3>1. QueueLen \in Nat /\ Left \in Nat
      BY <1>1
    <3> QED
      BY <3>1, RunSeq
  <2>2. Len(discarded') = Len(discarded) + QueueLen
    <3> DEFINE r == Run(Left, QueueLen)
    <3> HIDE DEF r
    <3>1. r \in Seq(Nat) /\ Len(r) = QueueLen /\ discarded' = discarded \o r
      BY <1>3, <2>1 DEF r
    <3>2. discarded \in Seq(Nat)
      BY <1>1
    <3> QED
      BY <3>1, <3>2, ConcatProperties
  <2> QED
    BY <1>1, <1>3, <2>2 DEF Left
<1>6. CountersInv'
  BY <1>1, <1>3, <1>5 DEF CountersInv
<1>7. RingInv'
  BY <1>3 DEF RingInv
<1>8. ASSUME NEW m \in 0 .. QueueLen, destroyed' = destroyed \o Run(Left, m),
             m = QueueLen \/ panicked'
      PROVE  HistoryInv'
  <2>1. /\ m \in Nat /\ Run(Left, m) \in Seq(Nat) /\ IsInjective(Run(Left, m))
        /\ Range(Run(Left, m)) = Left + 1 .. Left + m
    <3>1. m \in Nat /\ Left \in Nat
      BY <1>1
    <3>2. Run(Left, m) \in Seq(Nat)
      BY <3>1, RunSeq
    <3>3. IsInjective(Run(Left, m)) /\ Range(Run(Left, m)) = Left + 1 .. Left + m
      BY <3>1, RunRange
    <3> QED
      BY <3>1, <3>2, <3>3
  <2>2. /\ IsInjective(popped) /\ IsInjective(destroyed)
        /\ Range(popped) \cap Range(destroyed) = {}
        /\ Range(popped) \cup Range(destroyed) \subseteq 1 .. Left
        /\ ~panicked => Range(popped) \cup Range(destroyed) = 1 .. Left
    BY DEF Inv, HistoryInv
  <2>3. 1 .. Left \cap (Left + 1 .. Left + m) = {}
    BY <1>1
  <2>4. /\ Range(destroyed') = Range(destroyed) \cup (Left + 1 .. Left + m)
        /\ IsInjective(destroyed')
    <3> DEFINE r == Run(Left, m)
    <3> HIDE DEF r
    <3>1. /\ r \in Seq(Nat) /\ IsInjective(r) /\ Range(r) = Left + 1 .. Left + m
          /\ destroyed' = destroyed \o r
      <4>1. destroyed' = destroyed \o r
        BY <1>8 DEF r
      <4> QED
        BY <2>1, <4>1 DEF r
    <3>2. Range(destroyed) \cap Range(r) = {}
      BY <2>2, <2>3, <3>1
    <3> QED
      BY <1>1, <2>2, <3>1, <3>2, ConcatRange
  <2>5. 1 .. Left' = 1 .. Left \cup (Left + 1 .. Left + QueueLen)
    BY <1>1, <1>5
  <2>6. Left + 1 .. Left + m \subseteq Left + 1 .. Left + QueueLen
    BY <1>1
  <2>7. Range(popped) \cap Range(destroyed') = {}
    BY <2>2, <2>3, <2>4
  <2>8. Range(popped) \cup Range(destroyed') \subseteq 1 .. Left'
    BY <2>2, <2>4, <2>5, <2>6
  <2>9. ~panicked' => Range(popped) \cup Range(destroyed') = 1 .. Left'
    <3> SUFFICES ASSUME ~panicked' PROVE Range(popped) \cup Range(destroyed') = 1 .. Left'
      OBVIOUS
    <3>1. ~panicked /\ m = QueueLen
      BY <1>3, <1>8
    <3>2. Range(popped) \cup Range(destroyed) = 1 .. Left
      BY <2>2, <3>1
    <3>3. Range(destroyed') = Range(destroyed) \cup (Left + 1 .. Left + QueueLen)
      BY <2>4, <3>1
    <3> QED
      BY <2>5, <3>2, <3>3
  <2> QED
    BY <1>3, <2>2, <2>4, <2>7, <2>8, <2>9 DEF HistoryInv
<1>9. HistoryInv'
  <2>1. QueueLen \in 0 .. QueueLen /\ head_len \in 0 .. QueueLen
    BY <1>1, <1>2
  <2> QED
    BY <1>4, <1>8, <2>1
<1> QED
  BY <1>6, <1>7, <1>9 DEF Inv

(* The invariant holds in every state.                                     *)
LEMMA Invariant ==
  ASSUME SlotsFit
  PROVE  Spec => [](TypeOK /\ Inv)
<1>1. Init => Inv
  <2> SUFFICES ASSUME Init PROVE Inv
    OBVIOUS
  <2>1. UsizeMod % UsizeMod = 0 /\ 0 + UsizeMod - 0 = UsizeMod /\ N \in Nat /\ MaxPushes \in Nat
    BY ConstantsAssumption
  <2>2. /\ QueueLen = 0 /\ popped = <<>> /\ discarded = <<>> /\ destroyed = <<>>
        /\ pushed = 0 /\ head = 0 /\ tail = 0
    BY <2>1 DEF Init, QueueLen, Wrap
  <2>3. Left = 0
    BY <2>2 DEF Left
  <2>4. Range(<<>>) = {} /\ IsInjective(<<>>)
    BY DEF Range, IsInjective
  <2> QED
    BY <2>1, <2>2, <2>3, <2>4 DEF Inv, CountersInv, RingInv, HistoryInv
<1>2. TypeOK /\ Inv /\ [Next]_vars => Inv'
  <2> SUFFICES ASSUME TypeOK, Inv, [Next]_vars PROVE Inv'
    OBVIOUS
  <2>1. ASSUME UNCHANGED vars PROVE Inv'
    BY <2>1 DEF vars, history, Inv, CountersInv, RingInv, HistoryInv, QueueLen, Left, Get
  <2> QED
    BY <2>1, PushInv, PopInv, ForcePushInv, ClearInv DEF Next, Clear, DropQueue
<1> QED
  BY <1>1, <1>2, BoundedInvariant, PTL DEF Spec

-----------------------------------------------------------------------------
(* "Management of head means it always points to a valid location": get(i) *)
(* finds the i-th oldest value that has not left, after any pushes, pops,  *)
(* overwrites and clears, and however often the counters have wrapped.     *)
THEOREM HeadPointsToValid ==
  ASSUME SlotsFit
  PROVE  Spec => []HoldsInside
<1>1. Inv => HoldsInside
  BY DEF Inv, CountersInv, RingInv, HoldsInside
<1> QED
  BY <1>1, Invariant, PTL

(* as_slices lists what get() finds, in order, on both sides of the end of *)
(* data.                                                                   *)
THEOREM SlicesComplete ==
  ASSUME SlotsFit
  PROVE  Spec => []SlicesAgree
<1>1. TypeOK /\ Inv => SlicesAgree
  BY Inside DEF SlicesAgree, Queue
<1> QED
  BY <1>1, Invariant, PTL

(* No value is popped or destroyed twice or while still inside, whichever  *)
(* destructors panic in clear, force_push and drop.                        *)
THEOREM NoDoubleDrop ==
  ASSUME SlotsFit
  PROVE  Spec => []UsedOnce
<1>1. TypeOK /\ Inv => UsedOnce
  <2> SUFFICES ASSUME TypeOK, Inv PROVE UsedOnce
    OBVIOUS
  <2> DEFINE used == popped \o destroyed
  <2>1. /\ IsInjective(popped) /\ IsInjective(destroyed)
        /\ Range(popped) \cap Range(destroyed) = {}
        /\ Range(popped) \cup Range(destroyed) \subseteq 1 .. Left
    BY DEF Inv, HistoryInv
  <2>2. popped \in Seq(Nat) /\ destroyed \in Seq(Nat) /\ Left \in Nat
    BY Facts DEF Inv
  <2>3. used \in Seq(Nat) /\ IsInjective(used) /\ Range(used) \subseteq 1 .. Left
    BY <2>1, <2>2, ConcatRange
  <2> HIDE DEF used
  <2>4. SetOf(used) = Range(used)
    BY DEF SetOf, Range
  <2>5. Cardinality(SetOf(used)) = Len(used)
    BY <2>3, <2>4, InjectiveCardinality
  <2>6. ASSUME NEW i \in 0 .. QueueLen - 1 PROVE Get(i) \notin SetOf(used)
    <3>1. Get(i) = Left + i + 1
      BY DEF Inv, RingInv
    <3>2. Left + i + 1 \notin 1 .. Left
      BY <2>2
    <3> QED
      BY <2>3, <2>4, <3>1, <3>2
  <2> QED
    BY <2>5, <2>6 DEF UsedOnce, used
<1> QED
  BY <1>1, Invariant, PTL

(* Unless a destructor panicked, dropping the queue leaves no value behind *)
(* that was neither popped nor destroyed.                                  *)
THEOREM NoLeak ==
  ASSUME SlotsFit
  PROVE  Spec => []NothingLeaked
<1>1. TypeOK /\ Inv => NothingLeaked
  <2> SUFFICES ASSUME TypeOK, Inv, status = "gone", ~panicked
               PROVE  SetOf(popped \o destroyed) = 1 .. pushed
    BY DEF NothingLeaked
  <2>1. Range(popped) \cup Range(destroyed) = 1 .. Left /\ QueueLen = 0
    BY DEF Inv, HistoryInv
  <2>2. /\ popped \in Seq(Nat) /\ destroyed \in Seq(Nat)
        /\ Left \in Nat /\ pushed = Left + QueueLen
    BY Facts DEF Inv
  <2>3. Range(popped \o destroyed) = Range(popped) \cup Range(destroyed)
    BY <2>2, ConcatRange
  <2>4. SetOf(popped \o destroyed) = Range(popped \o destroyed)
    BY DEF SetOf, Range
  <2>5. pushed = Left
    BY <2>1, <2>2
  <2> QED
    BY <2>1, <2>3, <2>4, <2>5
<1> QED
  BY <1>1, Invariant, PTL

-----------------------------------------------------------------------------
(* The refinement.                                                         *)

(* A FIFO that holds a run gives up its oldest numbers, here one or all.   *)
LEMMA DiscardRun ==
  ASSUME NEW s \in Seq(Nat), NEW a \in Nat, NEW n \in Nat \ {0}
  PROVE  /\ SubSeq(Run(a, n), 1, n) = Run(a, n)
         /\ SubSeq(Run(a, n), n + 1, n) = <<>>
         /\ s \o SubSeq(Run(a, n), 1, 1) = Append(s, a + 1)
         /\ SubSeq(Run(a, n), 2, n) = Run(a + 1, n - 1)
<1>1. Run(a, n) \in Seq(Nat) /\ Len(Run(a, n)) = n /\ Run(a, n)[1] = a + 1
  <2>1. n \in Nat /\ 1 \in 1 .. n
    OBVIOUS
  <2> QED
    BY <2>1, RunSeq
<1>2. SubSeq(Run(a, n), 1, n) = Run(a, n)
  <2>1. 0 \in 0 .. n /\ n \in 0 .. n /\ n \in Nat /\ 0 + 1 = 1 /\ a + 0 = a /\ n - 0 = n
    OBVIOUS
  <2>2. SubSeq(Run(a, n), 0 + 1, n) = Run(a + 0, n - 0)
    BY <2>1, RunSub
  <2> QED
    BY <2>1, <2>2
<1>3. SubSeq(Run(a, n), n + 1, n) = <<>>
  BY <1>1
<1>4. SubSeq(Run(a, n), 2, n) = Run(a + 1, n - 1)
  <2>1. 1 \in 0 .. n /\ n \in 1 .. n /\ n \in Nat /\ 1 + 1 = 2
    OBVIOUS
  <2>2. SubSeq(Run(a, n), 1 + 1, n) = Run(a + 1, n - 1)
    BY <2>1, RunSub
  <2> QED
    BY <2>1, <2>2
<1>5. s \o SubSeq(Run(a, n), 1, 1) = Append(s, a + 1)
  <2> DEFINE u == SubSeq(Run(a, n), 1, 1)
  <2>1. u \in Seq(Nat) /\ Len(u) = 1 /\ u[1] = a + 1
    BY <1>1
  <2> HIDE DEF u
  <2>2. u = <<a + 1>>
    BY <2>1
  <2>3. s \o <<a + 1>> = Append(s, a + 1)
    OBVIOUS
  <2> QED
    BY <2>2, <2>3 DEF u
<1> QED
  BY <1>2, <1>3, <1>4, <1>5

QueueIsRun == Queue = Run(Left, QueueLen)

(* Every step is a step of the bounded FIFO, or invisible.                 *)
LEMMA StepRefines ==
  ASSUME TypeOK, Inv, TypeOK', Inv', [Next]_vars, QueueIsRun'
  PROVE  [Fifo!Next]_Fifo!fifoVars
<1>1. /\ QueueLen \in 0 .. N /\ N \in Nat \ {0} /\ Left \in Nat /\ pushed = Left + QueueLen
      /\ popped \in Seq(Nat) /\ discarded \in Seq(Nat) /\ MaxPushes \in Nat /\ QueueLen \in Nat
      /\ QueueLen = Between(head, tail) /\ head \in Counter /\ tail \in Counter
      /\ Bounded /\ pushed \in Nat
      /\ Left = Len(popped) + Len(discarded)
  BY Facts DEF Inv
<1>2. /\ Queue = Run(Left, QueueLen) /\ First \o Second = Run(Left, QueueLen)
      /\ Queue' = Run(Left', QueueLen')
  BY Inside DEF QueueIsRun
<1>3. Len(Queue) = QueueLen
  BY <1>1, <1>2, RunSeq
<1>4. QueueLen' = pushed' - Left' /\ Left' = Len(popped') + Len(discarded')
  BY DEF Inv, CountersInv, Left
<1>a. /\ QueueLen \in Nat /\ QueueLen <= N /\ N \in Nat /\ Left \in Nat
      /\ pushed = Left + QueueLen /\ MaxPushes \in Nat
      /\ Len(popped) \in Nat /\ Len(discarded) \in Nat
      /\ Left = Len(popped) + Len(discarded)
  BY <1>1
<1>5. CASE Push
  <2>1. /\ pushed' = pushed + 1 /\ popped' = popped /\ discarded' = discarded
        /\ QueueLen # N /\ pushed < MaxPushes
    BY <1>5 DEF Push, PushUnchecked
  <2>2. /\ Left' = Left /\ QueueLen' = QueueLen + 1
        /\ pushed + 1 = Left + QueueLen + 1 /\ QueueLen < N /\ pushed + 1 \in 1 .. MaxPushes
    <3>1. Left' = Left
      BY <1>a, <1>4, <2>1
    <3> QED
      BY <1>a, <1>4, <2>1, <3>1
  <2>3. Append(Run(Left, QueueLen), Left + QueueLen + 1) = Run(Left, QueueLen + 1)
    BY <1>1, RunAppend
  <2>4. Queue' = Append(Queue, pushed + 1)
    BY <1>2, <2>2, <2>3
  <2>5. Fifo!Put(pushed + 1)
    BY <1>3, <2>1, <2>2, <2>4 DEF Fifo!Put, Queue
  <2> QED
    BY <2>2, <2>5 DEF Fifo!Next
<1>6. CASE Pop
  <2>1. /\ popped' = Append(popped, data[Slot(head)]) /\ discarded' = discarded
        /\ pushed' = pushed /\ head # tail
    BY <1>6 DEF Pop
  <2>2. QueueLen # 0
    BY <1>1, <2>1, CounterSteps
  <2>3. popped' = Append(popped, Left + 1)
    BY <2>1, <2>2, Oldest
  <2>4. Len(popped') = Len(popped) + 1
    BY <1>1, <2>3
  <2>5. Left' = Left + 1 /\ QueueLen' = QueueLen - 1
    <3>1. Left' = Left + 1
      BY <1>a, <1>4, <2>1, <2>4
    <3>2. QueueLen' = pushed - (Left + 1)
      BY <1>4, <2>1, <3>1
    <3> QED
      BY <1>a, <3>1, <3>2
  <2>6. /\ Queue # <<>> /\ Head(Queue) = Left + 1
        /\ Tail(Queue) = Run(Left + 1, QueueLen - 1)
    BY <1>1, <1>2, <2>2, RunHead
  <2>7. Fifo!Take
    BY <1>2, <2>1, <2>3, <2>5, <2>6 DEF Fifo!Take, Queue
  <2> QED
    BY <2>7 DEF Fifo!Next
<1>7. CASE ForcePush
  <2>1. /\ QueueLen = N /\ pushed < MaxPushes /\ popped' = popped
        /\ discarded' = Append(discarded, data[Slot(head)])
        /\ PushUnchecked \/ pushed' = pushed
    BY <1>7 DEF ForcePush
  <2>2. discarded' = Append(discarded, Left + 1) /\ QueueLen \in Nat \ {0}
    BY <1>1, <2>1, Oldest
  <2>3. Len(discarded') = Len(discarded) + 1
    BY <1>1, <2>2
  <2>4. Left' = Left + 1
    BY <1>1, <1>4, <2>1, <2>3
  <2>5. Head(Queue) = Left + 1 /\ Tail(Queue) = Run(Left + 1, QueueLen - 1)
    BY <1>1, <1>2, <2>2, RunHead
  <2>6. CASE PushUnchecked
    <3>1. pushed' = pushed + 1
      BY <2>6 DEF PushUnchecked
    <3>2. /\ QueueLen' = QueueLen /\ pushed + 1 \in 1 .. MaxPushes
          /\ pushed + 1 = (Left + 1) + (QueueLen - 1) + 1
          /\ Left + 1 \in Nat /\ QueueLen - 1 \in Nat /\ (QueueLen - 1) + 1 = QueueLen
      BY <1>1, <1>4, <2>1, <2>2, <2>4, <3>1
    <3>3. Append(Run(Left + 1, QueueLen - 1), (Left + 1) + (QueueLen - 1) + 1)
            = Run(Left + 1, (QueueLen - 1) + 1)
      BY <3>2, RunAppend
    <3>4. Queue' = Append(Tail(Queue), pushed + 1)
      BY <1>2, <2>4, <2>5, <3>2, <3>3
    <3>5. Fifo!Replace(pushed + 1)
      BY <1>3, <2>1, <2>2, <2>5, <3>4 DEF Fifo!Replace, Queue
    <3> QED
      BY <3>2, <3>5 DEF Fifo!Next
  <2>7. CASE pushed' = pushed
    <3>1. QueueLen' = QueueLen - 1
      <4>1. QueueLen' = pushed - (Left + 1)
        BY <1>4, <2>4, <2>7
      <4> QED
        BY <1>a, <4>1
    <3>2. /\ discarded \o SubSeq(Queue, 1, 1) = Append(discarded, Left + 1)
          /\ SubSeq(Queue, 2, QueueLen) = Run(Left + 1, QueueLen - 1)
      <4>1. discarded \in Seq(Nat) /\ Left \in Nat /\ QueueLen \in Nat \ {0}
        BY <1>1, <2>2
      <4>2. /\ discarded \o SubSeq(Run(Left, QueueLen), 1, 1) = Append(discarded, Left + 1)
            /\ SubSeq(Run(Left, QueueLen), 2, QueueLen) = Run(Left + 1, QueueLen - 1)
        BY <4>1, DiscardRun
      <4> QED
        BY <1>2, <4>2
    <3>3. Queue' = SubSeq(Queue, 1 + 1, Len(Queue)) /\ 1 \in 1 .. Len(Queue) /\ 1 \in 1 .. N
      <4>1. 1 + 1 = 2 /\ 1 \in 1 .. QueueLen /\ 1 \in 1 .. N
        BY <1>a, <2>2
      <4>2. Queue' = SubSeq(Queue, 2, QueueLen)
        BY <1>2, <2>4, <3>1, <3>2
      <4> QED
        BY <1>3, <4>1, <4>2
    <3>4. Fifo!Discard(1)
      BY <2>1, <2>2, <3>2, <3>3 DEF Fifo!Discard, Queue
    <3> QED
      BY <3>3, <3>4 DEF Fifo!Next
  <2> QED
    BY <2>1, <2>6, <2>7
<1>8. ASSUME NEW then \in {"live", "gone"}, ClearThen(then)
      PROVE  Fifo!Next \/ UNCHANGED Fifo!fifoVars
  <2>1. /\ QueueLen' = 0 /\ popped' = popped
        /\ discarded' = discarded \o Run(Left, QueueLen)
    BY <1>1, <1>2, <1>8, ClearEffect
  <2>2. Queue' = <<>>
    BY <1>2, <2>1 DEF Run
  <2>3. CASE QueueLen = 0
    <3>1. Run(Left, QueueLen) = <<>>
      BY <2>3 DEF Run
    <3>2. discarded' = discarded /\ Queue = <<>>
      BY <1>1, <1>2, <2>1, <3>1
    <3> QED
      BY <2>1, <2>2, <3>2 DEF Fifo!fifoVars, Queue
  <2>4. CASE QueueLen # 0
    <3>1. /\ SubSeq(Queue, 1, QueueLen) = Run(Left, QueueLen)
          /\ SubSeq(Queue, QueueLen + 1, QueueLen) = <<>>
      <4>1. discarded \in Seq(Nat) /\ Left \in Nat /\ QueueLen \in Nat \ {0}
        BY <1>1, <2>4
      <4>2. /\ SubSeq(Run(Left, QueueLen), 1, QueueLen) = Run(Left, QueueLen)
            /\ SubSeq(Run(Left, QueueLen), QueueLen + 1, QueueLen) = <<>>
        BY <4>1, DiscardRun
      <4> QED
        BY <1>2, <4>2
    <3>2. /\ QueueLen \in 1 .. Len(Queue) /\ QueueLen \in 1 .. N
          /\ Queue' = SubSeq(Queue, QueueLen + 1, Len(Queue))
          /\ discarded' = discarded \o SubSeq(Queue, 1, QueueLen)
      <4>1. QueueLen \in 1 .. QueueLen /\ QueueLen \in 1 .. N
        BY <1>a, <2>4
      <4>2. Queue' = SubSeq(Queue, QueueLen + 1, Len(Queue))
        BY <1>3, <2>2, <3>1
      <4>3. discarded' = discarded \o SubSeq(Queue, 1, QueueLen)
        BY <2>1, <3>1
      <4> QED
        BY <1>3, <4>1, <4>2, <4>3
    <3>3. Fifo!Discard(QueueLen)
      BY <2>1, <3>2 DEF Fifo!Discard, Queue
    <3> QED
      BY <3>2, <3>3 DEF Fifo!Next
  <2> QED
    BY <2>3, <2>4
<1>9. ASSUME UNCHANGED vars PROVE UNCHANGED Fifo!fifoVars
  BY <1>9 DEF vars, history, Fifo!fifoVars, QueueLen, Get
<1> QED
  BY <1>5, <1>6, <1>7, <1>8, <1>9 DEF Next, Clear, DropQueue

(* ArrayQueue implements the bounded FIFO of capacity N: force_push into a *)
(* full queue replaces the oldest value, a panic discards it, clear and    *)
(* drop discard all.                                                       *)
THEOREM ImplementsBoundedFifo ==
  ASSUME SlotsFit
  PROVE  Spec => ImplementsFifo
<1>1. Init => Fifo!Init
  <2> SUFFICES ASSUME Init PROVE Fifo!Init
    OBVIOUS
  <2>1. UsizeMod % UsizeMod = 0 /\ 0 + UsizeMod - 0 = UsizeMod
    BY ConstantsAssumption
  <2>2. QueueLen = 0 /\ popped = <<>> /\ discarded = <<>>
    BY <2>1 DEF Init, QueueLen, Wrap
  <2> QED
    BY <2>2 DEF Fifo!Init
<1>2. TypeOK /\ Inv => QueueIsRun
  BY Inside DEF QueueIsRun
<1>3. (TypeOK /\ Inv)' => QueueIsRun'
  BY <1>2, PTL
<1>4. TypeOK /\ Inv /\ (TypeOK /\ Inv)' /\ [Next]_vars => [Fifo!Next]_Fifo!fifoVars
  BY <1>3, StepRefines
<1> QED
  BY <1>1, <1>4, Invariant, PTL DEF Spec, ImplementsFifo, Fifo!Spec

=============================================================================
