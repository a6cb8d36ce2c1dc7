---------------------------- MODULE SharedLemmas -----------------------------
(***************************************************************************)
(* Lemmas that the proofs about several components need: runs of           *)
(* consecutive numbers, sequences without repetition, the slots of a ring, *)
(* least elements and the size of an interval.                             *)
(***************************************************************************)
EXTENDS Integers, Sequences, Functions, SequenceTheorems, FiniteSetTheorems,
        FunctionTheorems, WellFoundedInduction, TLAPS

(* The numbers a + 1, ..., a + n in order.                                 *)
Run(a, n) == [k \in 1 .. n |-> a + k]

(* A run is a sequence.                                                    *)
LEMMA RunSeq ==
  ASSUME NEW a \in Nat, NEW n \in Nat
  PROVE  /\ Run(a, n) \in Seq(Nat) /\ Len(Run(a, n)) = n
         /\ \A k \in 1 .. n : Run(a, n)[k] = a + k
BY DEF Run

(* A sequence with the length and the elements of a run is that run.       *)
LEMMA IsRun ==
  ASSUME NEW s \in Seq(Nat), NEW a \in Nat, NEW n \in Nat, Len(s) = n,
         \A k \in 1 .. n : s[k] = a + k
  PROVE  s = Run(a, n)
BY DEF Run

(* A run grows at its end by the next number.                              *)
LEMMA RunAppend ==
  ASSUME NEW a \in Nat, NEW n \in Nat
  PROVE  Append(Run(a, n), a + n + 1) = Run(a, n + 1)
<1> DEFINE s == Append(Run(a, n), a + n + 1)
<1>1. Run(a, n) \in Seq(Nat) /\ Len(Run(a, n)) = n
  BY RunSeq
<1>2. s \in Seq(Nat) /\ Len(s) = n + 1
  BY <1>1
<1>3. ASSUME NEW k \in 1 .. n + 1 PROVE s[k] = a + k
  <2>1. CASE k = n + 1
    BY <1>1, <2>1
  <2>2. CASE k # n + 1
    <3>1. k \in 1 .. n
      BY <2>2
    <3>2. s[k] = Run(a, n)[k]
      BY <1>1, <3>1
    <3> QED
      BY <3>1, <3>2, RunSeq
  <2> QED
    BY <2>1, <2>2
<1> HIDE DEF s
<1>4. s = Run(a, n + 1)
  BY <1>2, <1>3, IsRun
<1> QED
  BY <1>4 DEF s

(* A part of a run is a run.                                               *)
LEMMA RunSub ==
  ASSUME NEW a \in Nat, NEW n \in Nat, NEW m \in 0 .. n, NEW k \in m .. n
  PROVE  SubSeq(Run(a, n), m + 1, k) = Run(a + m, k - m)
<1> DEFINE s == SubSeq(Run(a, n), m + 1, k)
<1>1. \A i \in m + 1 .. k : Run(a, n)[i] = a + i /\ Run(a, n)[i] \in Nat
  <2>1. \A i \in m + 1 .. k : i \in 1 .. n /\ a + i \in Nat
    OBVIOUS
  <2> QED
    BY <2>1, RunSeq
<1>2. /\ s \in Seq(Nat) /\ Len(s) = k - m
      /\ \A i \in 1 .. k - m : s[i] = Run(a, n)[m + 1 + i - 1]
  BY <1>1, SubSeqProperties
<1>3. ASSUME NEW i \in 1 .. k - m PROVE s[i] = (a + m) + i
  <2>1. m + 1 + i - 1 \in m + 1 .. k /\ a + (m + 1 + i - 1) = (a + m) + i
    OBVIOUS
  <2> QED
    BY <1>1, <1>2, <2>1
<1>4. a + m \in Nat /\ k - m \in Nat
  OBVIOUS
<1> HIDE DEF s
<1>5. s = Run(a + m, k - m)
  BY <1>2, <1>3, <1>4, IsRun
<1> QED
  BY <1>5 DEF s

(* A run shrinks at its front by its first number.                         *)
LEMMA RunHead ==
  ASSUME NEW a \in Nat, NEW n \in Nat \ {0}
  PROVE  /\ Run(a, n) # <<>> /\ Head(Run(a, n)) = a + 1
         /\ Tail(Run(a, n)) = Run(a + 1, n - 1)
<1>1. Run(a, n) \in Seq(Nat) /\ Len(Run(a, n)) = n /\ Run(a, n)[1] = a + 1
  BY RunSeq
<1>2. Run(a, n) # <<>> /\ Head(Run(a, n)) = a + 1
  BY <1>1
<1>3. /\ Tail(Run(a, n)) \in Seq(Nat) /\ Len(Tail(Run(a, n))) = n - 1
      /\ \A k \in 1 .. Len(Tail(Run(a, n))) : Tail(Run(a, n))[k] = Run(a, n)[k + 1]
  BY <1>1, <1>2, HeadTailProperties
<1>4. ASSUME NEW k \in 1 .. n - 1 PROVE Tail(Run(a, n))[k] = (a + 1) + k
  <2>1. k + 1 \in 1 .. n
    OBVIOUS
  <2>2. Run(a, n)[k + 1] = a + (k + 1)
    BY <2>1, RunSeq
  <2>3. Tail(Run(a, n))[k] = Run(a, n)[k + 1]
    BY <1>3
  <2>4. a + (k + 1) = (a + 1) + k
    OBVIOUS
  <2> QED
    BY <2>2, <2>3, <2>4
<1>5. Tail(Run(a, n)) = Run(a + 1, n - 1)
  <2>1. a + 1 \in Nat /\ n - 1 \in Nat
    OBVIOUS
  <2> QED
    BY <1>3, <1>4, <2>1, IsRun
<1> QED
  BY <1>2, <1>5

(* A run that goes on with the next one.                                   *)
LEMMA RunConcat ==
  ASSUME NEW a \in Nat, NEW n \in Nat, NEW m \in Nat
  PROVE  Run(a, n) \o Run(a + n, m) = Run(a, n + m)
<1> DEFINE s == Run(a, n) \o Run(a + n, m)
<1>1. /\ Run(a, n) \in Seq(Nat) /\ Len(Run(a, n)) = n
      /\ Run(a + n, m) \in Seq(Nat) /\ Len(Run(a + n, m)) = m
      /\ \A k \in 1 .. n : Run(a, n)[k] = a + k
      /\ \A k \in 1 .. m : Run(a + n, m)[k] = (a + n) + k
  <2>1. a + n \in Nat
    OBVIOUS
  <2> QED
    BY <2>1, RunSeq
<1>2. /\ s \in Seq(Nat) /\ Len(s) = n + m
      /\ \A k \in 1 .. n + m :
           s[k] = IF k <= n THEN Run(a, n)[k] ELSE Run(a + n, m)[k - n]
  <2> DEFINE u == Run(a, n)
             v == Run(a + n, m)
  <2>1. u \in Seq(Nat) /\ v \in Seq(Nat) /\ Len(u) = n /\ Len(v) = m
    BY <1>1
  <2> HIDE DEF u, v
  <2>2. /\ u \o v \in Seq(Nat) /\ Len(u \o v) = Len(u) + Len(v)
        /\ \A k \in 1 .. Len(u) + Len(v) :
             (u \o v)[k] = IF k <= Len(u) THEN u[k] ELSE v[k - Len(u)]
    BY <2>1, ConcatProperties
  <2> QED
    BY <2>1, <2>2 DEF u, v
<1>3. ASSUME NEW k \in 1 .. n + m PROVE s[k] = a + k
  <2>1. CASE k <= n
    BY <1>1, <1>2, <2>1
  <2>2. CASE ~(k <= n)
    <3>1. k - n \in 1 .. m /\ (a + n) + (k - n) = a + k
      BY <2>2
    <3> QED
      BY <1>1, <1>2, <2>2, <3>1
  <2> QED
    BY <2>1, <2>2
<1> HIDE DEF s
<1>4. s = Run(a, n + m)
  BY <1>2, <1>3, IsRun
<1> QED
  BY <1>4 DEF s

-----------------------------------------------------------------------------
(* What two sequences hold one after the other, and whether anything is    *)
(* held twice.                                                             *)
LEMMA ConcatRange ==
  ASSUME NEW S, NEW s \in Seq(S), NEW t \in Seq(S)
  PROVE  /\ s \o t \in Seq(S) /\ Len(s \o t) = Len(s) + Len(t)
         /\ Range(s \o t) = Range(s) \cup Range(t)
         /\ IsInjective(s) /\ IsInjective(t) /\ Range(s) \cap Range(t) = {}
              => IsInjective(s \o t)
<1> DEFINE n == Len(s)
           m == Len(t)
           u == s \o t
<1>1. /\ n \in Nat /\ m \in Nat /\ DOMAIN s = 1 .. n /\ DOMAIN t = 1 .. m
      /\ u \in Seq(S) /\ Len(u) = n + m /\ DOMAIN u = 1 .. n + m
      /\ \A k \in 1 .. n + m : u[k] = IF k <= n THEN s[k] ELSE t[k - n]
  BY ConcatProperties
<1> HIDE DEF n, m, u
<1>2. \A k \in 1 .. n : k \in 1 .. n + m /\ k <= n
  BY <1>1
<1>3. \A k \in 1 .. m : k + n \in 1 .. n + m /\ ~(k + n <= n) /\ (k + n) - n = k
  BY <1>1
<1>4. \A k \in 1 .. n + m : (k <= n /\ k \in 1 .. n) \/ (~(k <= n) /\ k - n \in 1 .. m)
  BY <1>1
<1>5. Range(u) = Range(s) \cup Range(t)
  <2>1. ASSUME NEW x \in Range(u) PROVE x \in Range(s) \cup Range(t)
    BY <1>1, <1>4 DEF Range
  <2>2. ASSUME NEW x \in Range(s) PROVE x \in Range(u)
    BY <1>1, <1>2 DEF Range
  <2>3. ASSUME NEW x \in Range(t) PROVE x \in Range(u)
    <3>1. PICK k \in 1 .. m : x = t[k]
      BY <1>1 DEF Range
    <3>2. k + n \in DOMAIN u /\ u[k + n] = x
      BY <1>1, <1>3, <3>1
    <3> QED
      BY <3>2 DEF Range
  <2> QED
    BY <2>1, <2>2, <2>3
<1>6. ASSUME IsInjective(s), IsInjective(t), Range(s) \cap Range(t) = {}
      PROVE  IsInjective(u)
  <2> SUFFICES ASSUME NEW j \in 1 .. n + m, NEW k \in 1 .. n + m, u[j] = u[k]
               PROVE  j = k
    BY <1>1 DEF IsInjective
  <2>1. CASE j <= n /\ k <= n
    BY <1>1, <1>4, <1>6, <2>1 DEF IsInjective
  <2>2. CASE ~(j <= n) /\ ~(k <= n)
    <3>1. j - n \in DOMAIN t /\ k - n \in DOMAIN t /\ t[j - n] = t[k - n]
      BY <1>1, <1>4, <2>2
    <3>2. j - n = k - n
      BY <1>6, <3>1 DEF IsInjective
    <3> QED
      BY <1>1, <3>2
  <2>3. \A i \in 1 .. n : s[i] \in Range(s)
    BY <1>1 DEF Range
  <2>4. \A i \in 1 .. m : t[i] \in Range(t)
    BY <1>1 DEF Range
  <2>5. CASE j <= n /\ ~(k <= n)
    <3>1. s[j] \in Range(s) /\ t[k - n] \in Range(t) /\ s[j] = t[k - n]
      BY <1>1, <1>4, <2>3, <2>4, <2>5
    <3> QED
      BY <1>6, <3>1
  <2>6. CASE ~(j <= n) /\ k <= n
    <3>1. s[k] \in Range(s) /\ t[j - n] \in Range(t) /\ s[k] = t[j - n]
      BY <1>1, <1>4, <2>3, <2>4, <2>6
    <3> QED
      BY <1>6, <3>1
  <2> QED
    BY <2>1, <2>2, <2>5, <2>6
<1> QED
  BY <1>1, <1>5, <1>6 DEF u, n, m

(* The same for one element more.                                          *)
LEMMA AppendRange ==
  ASSUME NEW S, NEW s \in Seq(S), NEW e \in S
  PROVE  /\ Append(s, e) \in Seq(S) /\ Len(Append(s, e)) = Len(s) + 1
         /\ Range(Append(s, e)) = Range(s) \cup {e}
         /\ IsInjective(s) /\ e \notin Range(s) => IsInjective(Append(s, e))
<1>1. <<e>> \in Seq(S) /\ Len(<<e>>) = 1 /\ Range(<<e>>) = {e} /\ IsInjective(<<e>>)
  BY DEF Range, IsInjective
<1>2. Append(s, e) = s \o <<e>>
  OBVIOUS
<1> DEFINE t == <<e>>
<1> HIDE DEF t
<1>3. t \in Seq(S) /\ Len(t) = 1 /\ Range(t) = {e} /\ IsInjective(t)
  BY <1>1 DEF t
<1>4. /\ s \o t \in Seq(S) /\ Len(s \o t) = Len(s) + Len(t)
      /\ Range(s \o t) = Range(s) \cup Range(t)
      /\ IsInjective(s) /\ IsInjective(t) /\ Range(s) \cap Range(t) = {}
           => IsInjective(s \o t)
  BY <1>3, ConcatRange
<1>5. Append(s, e) = s \o t
  BY <1>2 DEF t
<1>6. e \notin Range(s) => Range(s) \cap {e} = {}
  OBVIOUS
<1>7. Append(s, e) \in Seq(S) /\ Len(Append(s, e)) = Len(s) + 1
  OBVIOUS
<1> QED
  BY <1>3, <1>4, <1>5, <1>6, <1>7

(* A sequence without repetition holds as many elements as it is long.     *)
LEMMA InjectiveCardinality ==
  ASSUME NEW S, NEW s \in Seq(S)
  PROVE  /\ IsFiniteSet(Range(s))
         /\ IsInjective(s) => Cardinality(Range(s)) = Len(s)
<1>1. s \in Surjection(1 .. Len(s), Range(s)) /\ s \in [1 .. Len(s) -> Range(s)]
  <2>1. s \in [1 .. Len(s) -> Range(s)] /\ DOMAIN s = 1 .. Len(s)
    BY DEF Range
  <2> QED
    BY <2>1, Fun_IsSurj DEF Range
<1>2. IsFiniteSet(1 .. Len(s)) /\ Cardinality(1 .. Len(s)) = Len(s)
  <2>1. /\ 1 \in Int /\ Len(s) \in Int
        /\ Len(s) = IF 1 > Len(s) THEN 0 ELSE (Len(s) - 1) + 1
    OBVIOUS
  <2> HIDE <1>1
  <2> QED
    BY <2>1, FS_Interval
<1>3. IsFiniteSet(Range(s))
  BY <1>1, <1>2, FS_Surjection
<1>4. ASSUME IsInjective(s) PROVE Cardinality(Range(s)) = Len(s)
  <2>1. s \in Bijection(1 .. Len(s), Range(s))
    BY <1>1, <1>4, Fun_IsBij DEF IsInjective, Range
  <2> QED
    BY <1>2, <2>1, FS_Bijection DEF ExistsBijection
<1> QED
  BY <1>3, <1>4

(* A run holds its numbers once each.                                      *)
LEMMA RunRange ==
  ASSUME NEW a \in Nat, NEW n \in Nat
  PROVE  Range(Run(a, n)) = a + 1 .. a + n /\ IsInjective(Run(a, n))
<1>1. /\ DOMAIN Run(a, n) = 1 .. n /\ \A k \in 1 .. n : Run(a, n)[k] = a + k
  BY DEF Run
<1>2. ASSUME NEW x \in a + 1 .. a + n PROVE x \in Range(Run(a, n))
  <2>1. x - a \in 1 .. n /\ a + (x - a) = x
    OBVIOUS
  <2> QED
    BY <1>1, <2>1 DEF Range
<1>3. ASSUME NEW x \in Range(Run(a, n)) PROVE x \in a + 1 .. a + n
  <2>1. PICK k \in 1 .. n : x = a + k
    BY <1>1 DEF Range
  <2> QED
    BY <2>1
<1>4. IsInjective(Run(a, n))
  BY <1>1 DEF IsInjective
<1> QED
  BY <1>2, <1>3, <1>4

-----------------------------------------------------------------------------
(* Quotient and remainder are unique.                                      *)
LEMMA Remainder ==
  ASSUME NEW m \in Nat \ {0}, NEW q \in Int, NEW r \in 0 .. m - 1, m * q + r \in Nat
  PROVE  (m * q + r) % m = r
<1> DEFINE n == m * q + r
           p == n \div m
           s == n % m
<1>1. n = m * p + s /\ p \in Int /\ s \in 0 .. m - 1
  OBVIOUS
<1>2. m * (q - p) = s - r
  <2> HIDE DEF p, s
  <2> QED
    BY <1>1 DEF n
<1> HIDE DEF n, p, s
<1>3. q - p \in Int /\ s - r \in Int /\ -m < s - r /\ s - r < m
  BY <1>1
<1>4. q - p < 1
  <2>1. SUFFICES ASSUME q - p >= 1 PROVE FALSE
    BY <1>3
  <2>2. m * (q - p) >= m
    BY <1>3, <2>1
  <2> QED
    BY <1>2, <1>3, <2>2
<1>5. q - p > -1
  <2>1. SUFFICES ASSUME q - p <= -1 PROVE FALSE
    BY <1>3
  <2>2. m * (p - q) >= m
    BY <1>1, <2>1
  <2>3. m * (p - q) = r - s
    BY <1>1, <1>2
  <2>4. r - s < m
    BY <1>1
  <2> QED
    BY <1>1, <2>2, <2>3, <2>4
<1>6. q - p = 0
  BY <1>3, <1>4, <1>5
<1>7. s = r
  BY <1>1, <1>2, <1>6
<1> QED
  BY <1>7 DEF s, n

-----------------------------------------------------------------------------
(* A set of numbers that is not empty has a least one.                     *)
LEMMA LeastExists ==
  ASSUME NEW S \in SUBSET Nat, S # {}
  PROVE  \E x \in S : \A y \in S : x <= y
<1> DEFINE R == OpToRel(<, Nat)
<1>1. IsWellFoundedOn(R, Nat)
  BY NatLessThanWellFounded
<1>2. \A x, y \in S : y < x => <<y, x>> \in R
  BY DEF OpToRel
<1> HIDE DEF R
<1>3. PICK x \in S : \A y \in S : ~ (<<y, x>> \in R)
  BY <1>1, WFMin
<1>4. ASSUME NEW y \in S PROVE x <= y
  <2>1. x \in Nat /\ y \in Nat /\ ~ (y < x)
    BY <1>2, <1>3
  <2> QED
    BY <2>1
<1> QED
  BY <1>4

(* Multiplication is monotonic.                                            *)
LEMMA TimesMonotonic ==
  ASSUME NEW a \in Nat, NEW b \in Nat, a <= b, NEW m \in Nat
  PROVE  a * m <= b * m
<1>1. b - a \in Nat
  OBVIOUS
<1>2. (b - a) * m \in Nat
  BY <1>1
<1>3. b * m = a * m + (b - a) * m /\ a * m \in Nat
  BY <1>1
<1> QED
  BY <1>2, <1>3

(* The size of an interval that begins with 0.                             *)
LEMMA IntervalSize ==
  ASSUME NEW m \in Nat
  PROVE  Cardinality(0 .. m - 1) = m
<1>1. 0 \in Int /\ m - 1 \in Int
  OBVIOUS
<1>2. Cardinality(0 .. m - 1) = IF 0 > m - 1 THEN 0 ELSE m - 1 - 0 + 1
  BY <1>1, FS_Interval
<1> QED
  BY <1>2

=============================================================================
