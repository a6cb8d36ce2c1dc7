---------------------------- MODULE BitSetProofs -----------------------------
(***************************************************************************)
(* Theorems about BitSet, for every number of words and every width: the   *)
(* words are a set of indices, every operator is the operation on sets it  *)
(* is named after, the counts are those of the set, and the iterator lists *)
(* it in ascending order.                                                  *)
(***************************************************************************)
EXTENDS BitSetProperties, SharedLemmas

(* Min is the least element of a set of numbers.                           *)
LEMMA MinIsLeast ==
  ASSUME NEW S \in SUBSET Nat, S # {}
  PROVE  Min(S) \in S /\ \A y \in S : Min(S) <= y
<1>1. \E x \in S : \A y \in S : x <= y
  BY LeastExists
<1> QED
  BY <1>1 DEF Min

(* Where the index of a bit is, and which index a bit has.                 *)
LEMMA PlaceOf ==
  ASSUME NEW index \in All
  PROVE  /\ index \div W \in 0 .. L - 1 /\ index % W \in 0 .. W - 1
         /\ index = (index \div W) * W + (index % W)
<1>1. index \in Nat /\ W \in Nat \ {0} /\ L \in Nat \ {0}
  BY ConstantsAssumption DEF All, Size
<1> DEFINE q == index \div W
           r == index % W
<1>2. index = W * q + r /\ q \in Nat /\ r \in 0 .. W - 1
  BY <1>1
<1>3. W * q = q * W
  BY <1>1, <1>2
<1>4. index < L * W
  BY <1>1, ConstantsAssumption DEF All, Size
<1> HIDE DEF q, r
<1>5. q < L
  <2>1. SUFFICES ASSUME L <= q PROVE FALSE
    BY <1>1, <1>2
  <2>2. L * W <= q * W
    BY <1>1, <1>2, <2>1, TimesMonotonic
  <2>3. q * W <= index /\ L * W \in Nat /\ q * W \in Nat
    BY <1>1, <1>2, <1>3
  <2> QED
    BY <1>1, <1>4, <2>2, <2>3
<1>6. q \in 0 .. L - 1 /\ r \in 0 .. W - 1 /\ index = q * W + r
  BY <1>1, <1>2, <1>3, <1>5
<1> QED
  BY <1>6 DEF q, r

(* Bit j of word i is at the index i * W + j.                              *)
LEMMA IndexAt ==
  ASSUME NEW i \in 0 .. L - 1, NEW j \in 0 .. W - 1
  PROVE  /\ i * W + j \in All
         /\ (i * W + j) \div W = i /\ (i * W + j) % W = j
<1>1. i \in Nat /\ j \in Nat /\ W \in Nat \ {0} /\ L \in Nat \ {0}
  BY ConstantsAssumption
<1>2. i * W + j \in Nat /\ i * W \in Nat
  BY <1>1
<1>3. i * W + j < L * W
  <2>1. (i + 1) * W <= L * W
    BY <1>1, TimesMonotonic
  <2>2. (i + 1) * W = i * W + W /\ L * W \in Nat
    BY <1>1
  <2> QED
    BY <1>1, <1>2, <2>1, <2>2
<1>4. i * W + j \in All
  BY <1>1, <1>2, <1>3 DEF All, Size
<1>5. (i * W + j) % W = j
  BY <1>1, <1>2, Remainder
<1>6. (i * W + j) \div W = i
  <2> DEFINE n == i * W + j
             q == n \div W
  <2>1. n \in All /\ n % W = j
    BY <1>4, <1>5
  <2> HIDE DEF n
  <2>2. q \in 0 .. L - 1 /\ n = q * W + j
    BY <2>1, PlaceOf
  <2> HIDE DEF q
  <2>3. i * W + j = q * W + j
    BY <2>2 DEF n
  <2>4. i * W = q * W
    BY <1>1, <2>2, <2>3
  <2>5. q = i
    BY <1>1, <2>2, <2>4
  <2> QED
    BY <2>5 DEF q, n
<1> QED
  BY <1>4, <1>5, <1>6

-----------------------------------------------------------------------------
(* The words, read as a set of indices: bit j of word i is i * W + j.      *)
LEMMA MembersAt ==
  ASSUME NEW b \in BitSets
  PROVE  /\ Members(b) \subseteq All
         /\ \A index \in All : index \in Members(b) <=> index % W \in b[index \div W]
         /\ \A i \in 0 .. L - 1, j \in 0 .. W - 1 :
              i * W + j \in Members(b) <=> j \in b[i]
<1>1. /\ Members(b) \subseteq All
      /\ \A index \in All : index \in Members(b) <=> index % W \in b[index \div W]
  BY DEF Members, All, Size
<1>2. ASSUME NEW i \in 0 .. L - 1, NEW j \in 0 .. W - 1
      PROVE  i * W + j \in Members(b) <=> j \in b[i]
  BY <1>1, IndexAt
<1> QED
  BY <1>1, <1>2

(* Two words differ in a bit: words and sets of indices correspond.        *)
LEMMA MembersSubset ==
  ASSUME NEW b \in BitSets, NEW c \in BitSets
  PROVE  Members(b) \subseteq Members(c) <=> \A i \in 0 .. L - 1 : b[i] \subseteq c[i]
<1>1. ASSUME Members(b) \subseteq Members(c), NEW i \in 0 .. L - 1, NEW j \in b[i]
      PROVE  j \in c[i]
  <2>1. j \in 0 .. W - 1
    BY DEF BitSets, Words
  <2>2. i * W + j \in Members(b)
    BY <2>1, MembersAt
  <2> QED
    BY <1>1, <2>1, <2>2, MembersAt
<1>2. ASSUME \A i \in 0 .. L - 1 : b[i] \subseteq c[i], NEW index \in Members(b)
      PROVE  index \in Members(c)
  <2>1. index \in All
    BY MembersAt
  <2>2. index % W \in b[index \div W] /\ index \div W \in 0 .. L - 1
    BY <2>1, MembersAt, PlaceOf
  <2>3. index % W \in c[index \div W]
    BY <1>2, <2>2
  <2> QED
    BY <2>1, <2>3, MembersAt
<1> QED
  BY <1>1, <1>2

(* Bitsets with the same words are equal.                                  *)
LEMMA SameWords ==
  ASSUME NEW b \in BitSets, NEW c \in BitSets, \A i \in 0 .. L - 1 : b[i] = c[i]
  PROVE  b = c
<1> DEFINE D == 0 .. L - 1
<1>1. b \in [D -> Words] /\ c \in [D -> Words] /\ \A i \in D : b[i] = c[i]
  BY DEF BitSets
<1> HIDE DEF D
<1> QED
  BY <1>1

(* A bitset made from a set of indices holds them.                         *)
LEMMA BitsOfMembers ==
  ASSUME NEW indices \in SUBSET All
  PROVE  BitsOf(indices) \in BitSets /\ Members(BitsOf(indices)) = indices
<1>1. BitsOf(indices) \in BitSets
  BY DEF BitsOf, BitSets, Words
<1>2. ASSUME NEW index \in All
      PROVE  index \in Members(BitsOf(indices)) <=> index \in indices
  <2>1. index \div W \in 0 .. L - 1 /\ index % W \in 0 .. W - 1
    BY PlaceOf
  <2>2. index = (index \div W) * W + (index % W)
    BY PlaceOf
  <2>3. index % W \in BitsOf(indices)[index \div W]
          <=> (index \div W) * W + (index % W) \in indices
    BY <2>1 DEF BitsOf
  <2> QED
    BY <1>1, <2>2, <2>3, MembersAt
<1> QED
  BY <1>1, <1>2, MembersAt

(* An index is determined by the place of its bit.                         *)
LEMMA SamePlace ==
  ASSUME NEW k \in All, NEW index \in All,
         k \div W = index \div W, k % W = index % W
  PROVE  k = index
<1>1. k = (k \div W) * W + (k % W)
  BY PlaceOf
<1>2. index = (index \div W) * W + (index % W)
  BY PlaceOf
<1> QED
  BY <1>1, <1>2

(* Replacing the word of one index, by one that differs in its bit only.   *)
LEMMA UpdateMembers ==
  ASSUME NEW b \in BitSets, NEW index \in All, NEW word \in Words
  PROVE  /\ Update(b, index, word) \in BitSets
         /\ \A k \in All : k \in Members(Update(b, index, word)) <=>
              IF k \div W = index \div W THEN k % W \in word ELSE k \in Members(b)
<1> DEFINE c == Update(b, index, word)
<1>1. index \div W \in 0 .. L - 1
  BY PlaceOf
<1>2. c \in BitSets
  BY <1>1 DEF BitSets, Update
<1>3. \A i \in 0 .. L - 1 : c[i] = IF i = index \div W THEN word ELSE b[i]
  BY <1>1 DEF BitSets, Update
<1> HIDE DEF c
<1>4. ASSUME NEW k \in All
      PROVE  k \in Members(c) <=>
              IF k \div W = index \div W THEN k % W \in word ELSE k \in Members(b)
  <2>1. k \div W \in 0 .. L - 1
    BY PlaceOf
  <2>2. c[k \div W] = IF k \div W = index \div W THEN word ELSE b[k \div W]
    BY <1>3, <2>1
  <2>3. k \in Members(c) <=> k % W \in c[k \div W]
    BY <1>2, MembersAt
  <2>4. k \in Members(b) <=> k % W \in b[k \div W]
    BY MembersAt
  <2> QED
    BY <2>2, <2>3, <2>4
<1> QED
  BY <1>2, <1>4 DEF c

-----------------------------------------------------------------------------
(* The operations, on the set of indices.                                  *)
LEMMA BitWord ==
  ASSUME NEW b \in BitSets, NEW index \in All
  PROVE  /\ Word(b, index) \in Words /\ Bit(index) \in Words
         /\ \A k \in All : k \div W = index \div W =>
              /\ k % W \in Word(b, index) <=> k \in Members(b)
              /\ k % W \in Bit(index) <=> k = index
<1>1. index \div W \in 0 .. L - 1 /\ index % W \in 0 .. W - 1
  BY PlaceOf
<1>2. ASSUME NEW k \in All, k \div W = index \div W
      PROVE  /\ k % W \in Word(b, index) <=> k \in Members(b)
             /\ k % W \in Bit(index) <=> k = index
  BY <1>2, MembersAt, SamePlace DEF Word, Bit
<1> QED
  BY <1>1, <1>2 DEF Word, Bit, Words, BitSets

(* set adds the index,                                                     *)
LEMMA SetMembers ==
  ASSUME NEW b \in BitSets, NEW index \in All
  PROVE  Set(b, index) \in BitSets /\ Members(Set(b, index)) = Members(b) \cup {index}
<1> DEFINE word == Word(b, index) \cup Bit(index)
<1>1. word \in Words
  BY BitWord DEF Words
<1> HIDE DEF word
<1>2. /\ Update(b, index, word) \in BitSets
      /\ \A k \in All : k \in Members(Update(b, index, word)) <=>
           IF k \div W = index \div W THEN k % W \in word ELSE k \in Members(b)
  BY <1>1, UpdateMembers
<1>3. \A k \in All : k \div W = index \div W =>
        (k % W \in word <=> k \in Members(b) \/ k = index)
  BY BitWord DEF word
<1>4. Set(b, index) = Update(b, index, word)
  BY DEF Set, word
<1> QED
  BY <1>2, <1>3, <1>4, MembersAt

(* clear takes it out,                                                     *)
LEMMA ClearMembers ==
  ASSUME NEW b \in BitSets, NEW index \in All
  PROVE  /\ ClearBit(b, index) \in BitSets
         /\ Members(ClearBit(b, index)) = Members(b) \ {index}
<1> DEFINE word == Word(b, index) \ Bit(index)
<1>1. word \in Words
  BY BitWord DEF Words
<1> HIDE DEF word
<1>2. /\ Update(b, index, word) \in BitSets
      /\ \A k \in All : k \in Members(Update(b, index, word)) <=>
           IF k \div W = index \div W THEN k % W \in word ELSE k \in Members(b)
  BY <1>1, UpdateMembers
<1>3. \A k \in All : k \div W = index \div W =>
        (k % W \in word <=> k \in Members(b) /\ k # index)
  BY BitWord DEF word
<1>4. ClearBit(b, index) = Update(b, index, word)
  BY DEF ClearBit, word
<1> QED
  BY <1>2, <1>3, <1>4, MembersAt

(* test looks for it.                                                      *)
LEMMA TestMembers ==
  ASSUME NEW b \in BitSets, NEW index \in All
  PROVE  Test(b, index) = (index \in Members(b))
<1>1. index % W \in Word(b, index) <=> index \in Members(b)
  BY BitWord
<1> QED
  BY <1>1 DEF Test, Bit

(* A new bitset is empty, from_index makes a singleton.                    *)
LEMMA ZeroMembers ==
  Zero \in BitSets /\ Members(Zero) = {}
<1>1. Zero \in BitSets /\ \A i \in 0 .. L - 1 : Zero[i] = {}
  BY DEF Zero, BitSets, Words
<1> QED
  BY <1>1, MembersAt, PlaceOf

LEMMA FromIndexMembers ==
  ASSUME NEW index \in All
  PROVE  FromIndex(index) \in BitSets /\ Members(FromIndex(index)) = {index}
BY ZeroMembers, SetMembers DEF FromIndex

(* The operators work word by word.                                        *)
LEMMA OperatorMembers ==
  ASSUME NEW b \in BitSets, NEW c \in BitSets
  PROVE  /\ Not(b) \in BitSets /\ Members(Not(b)) = All \ Members(b)
         /\ And(b, c) \in BitSets /\ Members(And(b, c)) = Members(b) \cap Members(c)
         /\ Or(b, c) \in BitSets /\ Members(Or(b, c)) = Members(b) \cup Members(c)
         /\ Xor(b, c) \in BitSets
         /\ Members(Xor(b, c)) =
              (Members(b) \cup Members(c)) \ (Members(b) \cap Members(c))
<1>1. \A i \in 0 .. L - 1 : b[i] \in Words /\ c[i] \in Words
  BY DEF BitSets
<1>2. /\ Not(b) \in BitSets /\ And(b, c) \in BitSets /\ Or(b, c) \in BitSets
      /\ Xor(b, c) \in BitSets
  BY <1>1 DEF Not, And, Or, Xor, BitSets, Words
<1>3. ASSUME NEW index \in All
      PROVE  /\ index \in Members(Not(b)) <=> ~ (index \in Members(b))
             /\ index \in Members(And(b, c)) <=> index \in Members(b) /\ index \in Members(c)
             /\ index \in Members(Or(b, c)) <=> index \in Members(b) \/ index \in Members(c)
             /\ index \in Members(Xor(b, c)) <=> ~ (index \in Members(b) <=> index \in Members(c))
  <2> DEFINE i == index \div W
             j == index % W
  <2>1. i \in 0 .. L - 1 /\ j \in 0 .. W - 1
    BY PlaceOf
  <2>2. \A d \in BitSets : index \in Members(d) <=> j \in d[i]
    BY MembersAt
  <2> HIDE DEF i, j
  <2>3. /\ j \in Not(b)[i] <=> ~ (j \in b[i])
        /\ j \in And(b, c)[i] <=> j \in b[i] /\ j \in c[i]
        /\ j \in Or(b, c)[i] <=> j \in b[i] \/ j \in c[i]
        /\ j \in Xor(b, c)[i] <=> ~ (j \in b[i] <=> j \in c[i])
    BY <2>1 DEF Not, And, Or, Xor
  <2> QED
    BY <1>2, <2>2, <2>3
<1>4. /\ Members(b) \subseteq All /\ Members(c) \subseteq All
      /\ Members(Not(b)) \subseteq All /\ Members(And(b, c)) \subseteq All
      /\ Members(Or(b, c)) \subseteq All /\ Members(Xor(b, c)) \subseteq All
  BY <1>2, MembersAt
<1> QED
  BY <1>2, <1>3, <1>4

(* difference is an and with the complement.                               *)
LEMMA DifferenceMembers ==
  ASSUME NEW b \in BitSets, NEW c \in BitSets
  PROVE  /\ Difference(b, c) \in BitSets
         /\ Members(Difference(b, c)) = Members(b) \ Members(c)
<1>1. Not(c) \in BitSets /\ Members(Not(c)) = All \ Members(c)
  BY OperatorMembers
<1>2. /\ And(b, Not(c)) \in BitSets
      /\ Members(And(b, Not(c))) = Members(b) \cap Members(Not(c))
  BY <1>1, OperatorMembers
<1> QED
  BY <1>1, <1>2, MembersAt DEF Difference

(* A bitset whose words are all 0 is the empty set.                        *)
LEMMA EmptyMembers ==
  ASSUME NEW b \in BitSets
  PROVE  IsEmpty(b) <=> Members(b) = {}
<1>1. Zero \in BitSets /\ Members(Zero) = {} /\ \A i \in 0 .. L - 1 : Zero[i] = {}
  BY ZeroMembers DEF Zero
<1>2. Members(b) \subseteq Members(Zero) <=> \A i \in 0 .. L - 1 : b[i] \subseteq Zero[i]
  BY <1>1, MembersSubset
<1> QED
  BY <1>1, <1>2 DEF IsEmpty

(* contains compares the union with the larger operand.                    *)
LEMMA ContainsMembers ==
  ASSUME NEW b \in BitSets, NEW c \in BitSets
  PROVE  Contains(b, c) <=> Members(c) \subseteq Members(b)
<1>1. Or(b, c) \in BitSets
  BY OperatorMembers
<1>2. \A i \in 0 .. L - 1 : Or(b, c)[i] = b[i] \cup c[i]
  BY DEF Or
<1>3. Or(b, c) = b <=> \A i \in 0 .. L - 1 : Or(b, c)[i] = b[i]
  BY <1>1, SameWords
<1>4. Or(b, c) = b <=> \A i \in 0 .. L - 1 : c[i] \subseteq b[i]
  BY <1>2, <1>3
<1> QED
  BY <1>4, MembersSubset DEF Contains

-----------------------------------------------------------------------------
(* The iterator is a record, and next leaves it behind the bit it took.    *)
Iters == [slice_index : Nat, current_bits : Words, slices : Nat]

Inv == TypeOK /\ iter \in Iters

(* The two counters of the iterator are in step.                           *)
LEMMA IteratingInv ==
  ASSUME Inv
  PROVE  /\ Iterating <=> iter.slices # 0
         /\ Iterating => iter.slices = iter.slice_index + 1
<1>1. ASSUME iter.slices = 0 PROVE iter = NoIter
  <2>1. iter = [slice_index |-> iter.slice_index, current_bits |-> iter.current_bits,
                slices |-> iter.slices]
    BY DEF Inv, Iters
  <2>2. ASSUME Iterating PROVE FALSE
    BY <1>1, <2>2 DEF Inv, TypeOK, Iters
  <2> QED
    BY <2>2 DEF Iterating
<1>2. iter = NoIter => iter.slices = 0
  BY DEF NoIter
<1> QED
  BY <1>1, <1>2 DEF Inv, TypeOK, Iterating

(* word & (word - 1) clears the lowest bit of a word that is not 0.        *)
LEMMA MinusOneBits ==
  ASSUME NEW word \in Words, word # {}
  PROVE  /\ Min(word) \in word /\ \A j \in word : Min(word) <= j
         /\ word \cap MinusOne(word) = word \ {Min(word)}
<1>1. word \in SUBSET Nat
  BY ConstantsAssumption DEF Words
<1>2. Min(word) \in word /\ \A j \in word : Min(word) <= j
  BY <1>1, MinIsLeast
<1>3. ASSUME NEW j \in word PROVE ~ (j \in 0 .. Min(word) - 1)
  <2> DEFINE m == Min(word)
  <2>1. m \in Nat /\ j \in Nat /\ m <= j
    BY <1>1, <1>2
  <2> HIDE DEF m
  <2>2. ~ (j \in 0 .. m - 1)
    BY <2>1
  <2> QED
    BY <2>2 DEF m
<1> QED
  BY <1>2, <1>3 DEF MinusOne

(* Where the iterator is after it took a bit.                              *)
LEMMA YieldStep ==
  ASSUME Inv, Iterating, NEW word \in Words, word # {}, NEW index \in 0 .. L - 1,
         Yield(word, index)
  PROVE  /\ iter' = [slice_index |-> index, current_bits |-> word \ {Min(word)},
                     slices |-> index + 1]
         /\ answer' = <<"next", index * W + Min(word)>>
<1>1. iter' = [iter EXCEPT !.current_bits = word \ {Min(word)}, !.slice_index = index,
                           !.slices = iter.slices + (index - iter.slice_index)]
  BY MinusOneBits DEF Yield
<1>2. iter.slices + (index - iter.slice_index) = index + 1
  <2>1. iter.slices = iter.slice_index + 1
    BY IteratingInv
  <2>2. iter.slice_index \in Nat /\ index \in Nat
    BY ConstantsAssumption DEF Inv, Iters
  <2> QED
    BY <2>1, <2>2
<1>3. iter' = [iter EXCEPT !.current_bits = word \ {Min(word)}, !.slice_index = index,
                           !.slices = index + 1]
  BY <1>1, <1>2
<1> QED
  BY <1>3 DEF Inv, Iters, Yield

(* The two ways next finds a bit.                                          *)
LEMMA NextIndexCases ==
  ASSUME Inv, NextIndex
  PROVE  \E word \in Words, index \in 0 .. L - 1 :
           /\ word # {} /\ Yield(word, index)
           /\ \/ word = iter.current_bits /\ index = iter.slice_index
              \/ /\ iter.current_bits = {} /\ word = bits[index]
                 /\ index \in NonZero /\ \A i \in NonZero : index <= i
<1>1. CASE iter.current_bits # {} /\ Yield(iter.current_bits, iter.slice_index)
  BY <1>1 DEF Inv, TypeOK
<1>2. CASE /\ iter.current_bits = {} /\ NonZero # {}
           /\ Yield(bits[Min(NonZero)],
                    iter.slice_index + (Min(NonZero) + 1 - iter.slices))
  <2> DEFINE m == Min(NonZero)
  <2>1. NonZero \in SUBSET Nat /\ NonZero \subseteq 0 .. L - 1
    <3>1. iter.slices \in Nat
      BY DEF Inv, Iters
    <3> QED
      BY <3>1, ConstantsAssumption DEF NonZero
  <2>2. m \in NonZero /\ \A i \in NonZero : m <= i
    BY <1>2, <2>1, MinIsLeast
  <2>3. iter.slices = iter.slice_index + 1 /\ iter.slice_index \in Nat
    BY IteratingInv DEF NextIndex, Inv, Iters
  <2>4. m \in 0 .. L - 1 /\ m \in Nat /\ bits[m] # {}
    BY <2>1, <2>2 DEF NonZero
  <2>5. bits[m] \in Words
    BY <2>4 DEF Inv, TypeOK, BitSets
  <2>6. Yield(bits[m], iter.slice_index + (m + 1 - iter.slices))
    BY <1>2
  <2> HIDE DEF m
  <2>7. iter.slice_index + (m + 1 - iter.slices) = m
    BY <2>3, <2>4
  <2>8. Yield(bits[m], m)
    BY <2>6, <2>7
  <2> QED
    BY <1>2, <2>2, <2>4, <2>5, <2>8
<1> QED
  BY <1>1, <1>2 DEF NextIndex

-----------------------------------------------------------------------------
(* An iterator at a word that exists keeps the invariant.                  *)
LEMMA IterInv ==
  ASSUME bits' \in BitSets,
         NEW index \in 0 .. L - 1, NEW word \in Words,
         iter' = [slice_index |-> index, current_bits |-> word, slices |-> index + 1]
  PROVE  Inv' /\ Iterating'
<1>1. index \in Nat
  BY ConstantsAssumption
<1>2. iter' \in Iters
  BY <1>1 DEF Iters
<1>3. iter'.slices # 0 /\ iter'.slices = index + 1 /\ iter'.slice_index = index
      /\ iter'.current_bits = word
  BY <1>1
<1>4. Iterating'
  BY <1>3 DEF Iterating, NoIter
<1> QED
  BY <1>2, <1>3, <1>4 DEF Inv, TypeOK

(* A call that leaves the iterator alone keeps the invariant.              *)
LEMMA SameIterInv ==
  ASSUME Inv, bits' \in BitSets, iter' = iter
  PROVE  Inv'
BY DEF Inv, TypeOK, Iterating

(* The invariant holds at first, and every step keeps it.                  *)
LEMMA InitInv == Init => Inv
<1> SUFFICES ASSUME Init PROVE Inv
  OBVIOUS
<1>1. iter = NoIter /\ ~Iterating
  BY DEF Init, Iterating
<1>2. iter \in Iters /\ iter.slices = 0 /\ iter.slice_index = 0 /\ iter.current_bits = {}
  BY <1>1 DEF NoIter, Iters, Words
<1>3. 0 \in 0 .. L - 1 /\ {} \in Words
  BY ConstantsAssumption DEF Words
<1>4. bits \in BitSets
  BY ZeroMembers DEF Init
<1> QED
  BY <1>1, <1>2, <1>3, <1>4 DEF Inv, TypeOK

LEMMA NextInv == Inv /\ [Next]_vars => Inv'
<1> SUFFICES ASSUME Inv, [Next]_vars PROVE Inv'
  OBVIOUS
<1>0. bits \in BitSets
  BY DEF Inv, TypeOK
<1>1. ASSUME NEW index \in 0 .. L * W - 1, ChangeBit(index) PROVE Inv'
  <2>1. index \in All
    BY DEF All, Size
  <2> QED
    BY <1>0, <1>1, <2>1, SetMembers, ClearMembers, FromIndexMembers, SameIterInv
       DEF ChangeBit, Become
<1>2. ASSUME NEW other \in Operands, Combine(other) PROVE Inv'
  <2>1. BitsOf(other) \in BitSets
    BY ConstantsAssumption, BitsOfMembers DEF All, Size
  <2>2. /\ And(bits, BitsOf(other)) \in BitSets /\ Or(bits, BitsOf(other)) \in BitSets
        /\ Xor(bits, BitsOf(other)) \in BitSets
        /\ Difference(bits, BitsOf(other)) \in BitSets
    BY <1>0, <2>1, OperatorMembers, DifferenceMembers
  <2>3. iter' = iter /\ bits' \in BitSets
    BY <1>2, <2>2 DEF Combine, Become
  <2> QED
    BY <2>3, SameIterInv
<1>3. CASE Negate
  BY <1>0, <1>3, OperatorMembers, SameIterInv DEF Negate, Become
<1>4. ASSUME NEW index \in 0 .. L * W - 1, Ask(index) PROVE Inv'
  BY <1>0, <1>4, SameIterInv DEF Ask, Tell
<1>5. CASE IterIndices
  <2>1. 0 \in 0 .. L - 1 /\ 0 + 1 = 1
    BY ConstantsAssumption
  <2>2. bits[0] \in Words
    BY <1>0, <2>1 DEF BitSets
  <2> QED
    BY <1>0, <1>5, <2>1, <2>2, IterInv DEF IterIndices
<1>6. CASE NextIndex
  <2>1. PICK word \in Words, index \in 0 .. L - 1 : word # {} /\ Yield(word, index)
    BY <1>6, NextIndexCases
  <2>2. word \ {Min(word)} \in Words /\ bits' = bits /\ Iterating
    BY <1>6 DEF Words, NextIndex
  <2> QED
    BY <1>0, <2>1, <2>2, YieldStep, IterInv
<1>7. CASE NoIndex
  <2>1. iter.slice_index + (L - iter.slices) = L - 1 /\ L - 1 \in 0 .. L - 1
    BY <1>7, IteratingInv, ConstantsAssumption DEF NoIndex, Inv, Iters
  <2>2. (L - 1) + 1 = L
    BY ConstantsAssumption
  <2>3. iter' = [iter EXCEPT !.slice_index = L - 1, !.slices = (L - 1) + 1]
    BY <1>7, <2>1, <2>2 DEF NoIndex
  <2>5. iter' = [slice_index |-> L - 1, current_bits |-> iter.current_bits,
                 slices |-> (L - 1) + 1]
    BY <2>3 DEF Inv, Iters
  <2>4. iter.current_bits \in Words /\ bits' = bits
    BY <1>7 DEF Inv, TypeOK, NoIndex
  <2> QED
    BY <1>0, <2>1, <2>4, <2>5, IterInv
<1>8. CASE EndIteration
  <2>1. iter' = NoIter /\ bits' = bits
    BY <1>8 DEF EndIteration
  <2>2. iter' \in Iters /\ iter'.slices = 0 /\ iter'.slice_index = 0
        /\ iter'.current_bits = {}
    BY <2>1 DEF NoIter, Iters, Words
  <2>3. 0 \in 0 .. L - 1 /\ {} \in Words
    BY ConstantsAssumption DEF Words
  <2> QED
    BY <1>0, <2>1, <2>2, <2>3 DEF Inv, TypeOK, Iterating
<1>9. CASE UNCHANGED vars
  BY <1>0, <1>9, SameIterInv DEF vars
<1> QED
  BY <1>1, <1>2, <1>3, <1>4, <1>5, <1>6, <1>7, <1>8, <1>9 DEF Next

(* The invariant holds in every state.                                     *)
THEOREM Invariant == Spec => []Inv
<1> QED
  BY InitInv, NextInv, PTL DEF Spec

(* The words of a BitSet keep their width whatever operators are applied,  *)
(* and its iterator never leaves the words.                                *)
THEOREM TypeCorrect == Spec => []TypeOK
<1>1. Inv => TypeOK
  BY DEF Inv
<1> QED
  BY <1>1, Invariant, PTL

(* contains, contains_none and contains_some answer subset, disjoint and   *)
(* overlapping, for every length and width.                                *)
THEOREM RelationsCorrect == Spec => []RelationsAgree
<1>1. Inv => RelationsAgree
  <2> SUFFICES ASSUME Inv, NEW other \in BitSets
               PROVE  /\ Contains(bits, other) <=> Members(other) \subseteq set
                      /\ ContainsNone(bits, other) <=> Members(other) \cap set = {}
                      /\ ContainsSome(bits, other) <=> Members(other) \cap set # {}
    BY DEF RelationsAgree
  <2>1. bits \in BitSets
    BY DEF Inv, TypeOK
  <2>2. Contains(bits, other) <=> Members(other) \subseteq set
    BY <2>1, ContainsMembers DEF set
  <2>3. And(bits, other) \in BitSets /\ Members(And(bits, other)) = Members(other) \cap set
    BY <2>1, OperatorMembers DEF set
  <2>4. IsEmpty(And(bits, other)) <=> Members(other) \cap set = {}
    BY <2>3, EmptyMembers
  <2> QED
    BY <2>2, <2>4 DEF ContainsNone, ContainsSome
<1> QED
  BY <1>1, Invariant, PTL

-----------------------------------------------------------------------------
(* The refinement: where the iterator is, as the set of what it still has  *)
(* to return.                                                              *)
AheadPlaces ==
  /\ Ahead \subseteq All
  /\ \A index \in All : index \in Ahead <=>
       IF index \div W = iter.slice_index THEN index % W \in iter.current_bits
       ELSE index \div W > iter.slice_index /\ index \in set

LEMMA AheadAt == Inv /\ Iterating => AheadPlaces
<1> SUFFICES ASSUME Inv, Iterating PROVE AheadPlaces
  OBVIOUS
<1>1. iter.slices = iter.slice_index + 1 /\ iter.slice_index \in Nat
  BY IteratingInv DEF Inv, Iters
<1>2. ASSUME NEW index \in All
      PROVE  index \in Ahead <=>
              IF index \div W = iter.slice_index THEN index % W \in iter.current_bits
              ELSE index \div W > iter.slice_index /\ index \in set
  <2> DEFINE i == index \div W
             s == iter.slice_index
  <2>1. index \in Ahead <=>
          \/ i >= iter.slices /\ index \in set
          \/ i = s /\ index % W \in iter.current_bits
    BY DEF Ahead
  <2>2. i \in Nat /\ s \in Nat /\ iter.slices = s + 1
    BY <1>1, PlaceOf, ConstantsAssumption
  <2> HIDE DEF i, s
  <2>3. /\ i >= iter.slices <=> i # s /\ i > s
        /\ i = s => ~ (i >= iter.slices)
    BY <2>2
  <2>4. index \in Ahead <=>
          IF i = s THEN index % W \in iter.current_bits ELSE i > s /\ index \in set
    BY <2>1, <2>3
  <2> QED
    BY <2>4 DEF i, s
<1> QED
  BY <1>2 DEF AheadPlaces, Ahead

(* The same after a step.                                                  *)
LEMMA AheadPrime == (Inv /\ Iterating)' => AheadPlaces'
BY AheadAt, PTL

(* The least element of a set of indices.                                  *)
LEMMA LeastIs ==
  ASSUME NEW S \in SUBSET Nat, NEW x \in S, \A y \in S : x <= y
  PROVE  Abstract!Least(S) = x
<1> DEFINE l == Abstract!Least(S)
<1>1. l \in S /\ \A y \in S : l <= y
  BY DEF Abstract!Least
<1> HIDE DEF l
<1>2. l \in Nat /\ x \in Nat /\ l <= x /\ x <= l
  BY <1>1
<1>3. l = x
  BY <1>2
<1> QED
  BY <1>3 DEF l

(* The order of the indices is that of the words, then of the bits.        *)
LEMMA IndexOrder ==
  ASSUME NEW k \in All, NEW i \in 0 .. L - 1, NEW j \in 0 .. W - 1,
         i < k \div W \/ (i = k \div W /\ j <= k % W)
  PROVE  i * W + j <= k
<1> DEFINE p == k \div W
           r == k % W
<1>1. p \in 0 .. L - 1 /\ r \in 0 .. W - 1 /\ k = p * W + r
  BY PlaceOf
<1>2. i < p \/ (i = p /\ j <= r)
  OBVIOUS
<1> HIDE DEF p, r
<1>3. W \in Nat /\ i \in Nat /\ p \in Nat /\ j \in Nat /\ r \in Nat /\ j < W
  BY <1>1, ConstantsAssumption
<1>4. CASE i < p
  <2>1. (i + 1) * W <= p * W
    BY <1>3, <1>4, TimesMonotonic
  <2>2. (i + 1) * W = i * W + W /\ i * W \in Nat /\ p * W \in Nat
    BY <1>3
  <2> QED
    BY <1>1, <1>3, <2>1, <2>2
<1>5. CASE i = p /\ j <= r
  BY <1>1, <1>3, <1>5
<1> QED
  BY <1>2, <1>4, <1>5

(* Every operation is one of the set of indices.                           *)
rest == IF Iterating THEN Ahead ELSE {}

(* A call that replaces the words replaces the set.                        *)
LEMMA SetStep ==
  ASSUME NEW next \in BitSets, NEW call, Become(next, call)
  PROVE  set' = Members(next) /\ answer' = call /\ iter' = iter /\ bits' = next
BY DEF Become, set, Members

(* It is a change of the set, and nothing is ahead.                        *)
LEMMA ChangeRefines ==
  ASSUME Inv, ~Iterating, NEW next \in BitSets, NEW call, Become(next, call)
  PROVE  Abstract!Become(Members(next), call) /\ rest = {}
<1>1. set' = Members(next) /\ answer' = call /\ iter' = iter
  BY SetStep
<1>2. rest = {} /\ rest' = {}
  BY <1>1 DEF rest, Iterating
<1> QED
  BY <1>1, <1>2 DEF Abstract!Become, rest

(* The calls that change one bit,                                          *)
LEMMA ChangeBitRefines ==
  ASSUME Inv, NEW index \in All, ChangeBit(index)
  PROVE  Abstract!Change
<1>0. bits \in BitSets /\ ~Iterating /\ index \in Abstract!Indices
  BY DEF Inv, TypeOK, ChangeBit, Abstract!Indices, All, Size
<1>1. CASE Become(Set(bits, index), <<"set", index>>)
  <2>1. /\ Abstract!Become(Members(Set(bits, index)), <<"set", index>>)
        /\ rest = {}
    BY <1>0, <1>1, SetMembers, ChangeRefines
  <2>2. Abstract!Become(set \cup {index}, <<"set", index>>)
    BY <1>0, <2>1, SetMembers DEF set
  <2> QED
    BY <1>0, <2>1, <2>2 DEF Abstract!Change, rest
<1>2. CASE Become(ClearBit(bits, index), <<"clear", index>>)
  <2>1. /\ Abstract!Become(Members(ClearBit(bits, index)), <<"clear", index>>)
        /\ rest = {}
    BY <1>0, <1>2, ClearMembers, ChangeRefines
  <2>2. Abstract!Become(set \ {index}, <<"clear", index>>)
    BY <1>0, <2>1, ClearMembers DEF set
  <2> QED
    BY <1>0, <2>1, <2>2 DEF Abstract!Change, rest
<1>3. CASE Become(FromIndex(index), <<"from_index", index>>)
  <2>1. /\ Abstract!Become(Members(FromIndex(index)), <<"from_index", index>>)
        /\ rest = {}
    BY <1>0, <1>3, FromIndexMembers, ChangeRefines
  <2>2. Abstract!Become({index}, <<"from_index", index>>)
    BY <2>1, FromIndexMembers
  <2> QED
    BY <1>0, <2>1, <2>2 DEF Abstract!Change, rest
<1> QED
  BY <1>1, <1>2, <1>3 DEF ChangeBit

(* the four operators with another bitset,                                 *)
LEMMA CombineRefines ==
  ASSUME Inv, NEW other \in Operands, Combine(other)
  PROVE  Abstract!Change
<1> DEFINE c == BitsOf(other)
<1>0. bits \in BitSets /\ ~Iterating /\ c \in BitSets /\ Members(c) = other
  BY ConstantsAssumption, BitsOfMembers DEF Inv, TypeOK, Combine, All, Size
<1> HIDE DEF c
<1>1. PICK operator \in {"and", "or", "xor", "difference"}, next \in BitSets :
        /\ Become(next, <<operator, other>>)
        /\ Members(next) = Abstract!Combined(operator, other)
  <2>1. CASE Become(And(bits, c), <<"and", other>>)
    <3>1. And(bits, c) \in BitSets /\ Members(And(bits, c)) = set \cap other
      BY <1>0, OperatorMembers DEF set
    <3>2. Abstract!Combined("and", other) = set \cap other
      BY DEF Abstract!Combined
    <3> QED
      BY <2>1, <3>1, <3>2
  <2>2. CASE Become(Or(bits, c), <<"or", other>>)
    <3>1. Or(bits, c) \in BitSets /\ Members(Or(bits, c)) = set \cup other
      BY <1>0, OperatorMembers DEF set
    <3>2. Abstract!Combined("or", other) = set \cup other
      BY DEF Abstract!Combined
    <3> QED
      BY <2>2, <3>1, <3>2
  <2>3. CASE Become(Xor(bits, c), <<"xor", other>>)
    <3>1. /\ Xor(bits, c) \in BitSets
          /\ Members(Xor(bits, c)) = (set \cup other) \ (set \cap other)
      <4>1. /\ Xor(bits, c) \in BitSets
            /\ Members(Xor(bits, c)) =
                 (Members(bits) \cup Members(c)) \ (Members(bits) \cap Members(c))
        BY <1>0, OperatorMembers
      <4> QED
        BY <1>0, <4>1 DEF set
    <3>2. Abstract!Combined("xor", other) = (set \cup other) \ (set \cap other)
      BY DEF Abstract!Combined
    <3> QED
      BY <2>3, <3>1, <3>2
  <2>4. CASE Become(Difference(bits, c), <<"difference", other>>)
    <3>1. /\ Difference(bits, c) \in BitSets
          /\ Members(Difference(bits, c)) = set \ other
      BY <1>0, DifferenceMembers DEF set
    <3>2. Abstract!Combined("difference", other) = set \ other
      BY DEF Abstract!Combined
    <3> QED
      BY <2>4, <3>1, <3>2
  <2> QED
    BY <2>1, <2>2, <2>3, <2>4 DEF Combine, c
<1>2. Abstract!Become(Members(next), <<operator, other>>) /\ rest = {}
  BY <1>0, <1>1, ChangeRefines
<1>3. Abstract!Become(Abstract!Combined(operator, other), <<operator, other>>)
  BY <1>1, <1>2
<1> QED
  BY <1>2, <1>3 DEF Abstract!Change, rest

(* and the complement change the set as they should.                       *)
LEMMA NegateRefines ==
  ASSUME Inv, Negate
  PROVE  Abstract!Change
<1>0. bits \in BitSets /\ ~Iterating /\ Become(Not(bits), <<"not">>)
  BY DEF Inv, TypeOK, Negate
<1>1. Not(bits) \in BitSets /\ Members(Not(bits)) = Abstract!Indices \ set
  BY <1>0, OperatorMembers DEF set, Abstract!Indices, All
<1>2. Abstract!Become(Members(Not(bits)), <<"not">>) /\ rest = {}
  BY <1>0, <1>1, ChangeRefines
<1> QED
  BY <1>1, <1>2 DEF Abstract!Change, rest

(* test answers whether the index is in the set.                           *)
LEMMA AskRefines ==
  ASSUME Inv, NEW index \in All, Ask(index)
  PROVE  Abstract!Ask
<1>1. Test(bits, index) = (index \in set)
  BY TestMembers DEF Inv, TypeOK, set
<1>2. bits' = bits /\ iter' = iter /\ answer' = <<"test", index, index \in set>>
  BY <1>1 DEF Ask, Tell
<1>3. set' = set /\ rest' = rest
  BY <1>2 DEF set, Members, rest, Iterating, Ahead
<1>4. index \in Abstract!Indices
  BY DEF Abstract!Indices, All
<1> QED
  BY <1>2, <1>3, <1>4 DEF Abstract!Ask, Abstract!Tell, rest

(* A new iterator has everything ahead: its first word is loaded.          *)
LEMMA IterIndicesRefines ==
  ASSUME Inv, Inv', IterIndices
  PROVE  Abstract!IterIndices
<1>1. /\ bits' = bits /\ answer' = <<"iter_indices">>
      /\ iter'.slice_index = 0 /\ iter'.current_bits = bits[0] /\ iter'.slices = 1
  BY DEF IterIndices
<1>2. set' = set /\ Iterating'
  BY <1>1 DEF set, Members, Iterating, NoIter
<1>3. /\ Ahead' \subseteq All
      /\ \A index \in All : index \in Ahead' <=>
           IF index \div W = 0 THEN index % W \in bits[0]
           ELSE index \div W > 0 /\ index \in set
  BY <1>1, <1>2, AheadPrime DEF AheadPlaces, All, Size
<1>4. set \subseteq All /\ \A index \in All : index \in set <=> index % W \in bits[index \div W]
  BY MembersAt DEF Inv, TypeOK, set
<1>5. ASSUME NEW index \in All PROVE index \in Ahead' <=> index \in set
  <2> DEFINE i == index \div W
  <2>1. i \in Nat
    BY PlaceOf, ConstantsAssumption
  <2>2. /\ index \in Ahead' <=> IF i = 0 THEN index % W \in bits[0] ELSE i > 0 /\ index \in set
        /\ index \in set <=> index % W \in bits[i]
    BY <1>3, <1>4
  <2> HIDE DEF i
  <2>3. CASE i = 0
    BY <2>2, <2>3
  <2>4. CASE i > 0
    BY <2>1, <2>2, <2>4
  <2> QED
    BY <2>1, <2>3, <2>4
<1>6. Ahead' = set
  BY <1>3, <1>4, <1>5
<1> QED
  BY <1>1, <1>2, <1>6 DEF Abstract!IterIndices

(* An iterator that is given up has nothing to return.                     *)
LEMMA EndIterationRefines ==
  ASSUME EndIteration
  PROVE  Abstract!EndIteration
<1>1. bits' = bits /\ iter' = NoIter /\ answer' = <<"end">>
  BY DEF EndIteration
<1>2. set' = set /\ ~Iterating'
  BY <1>1 DEF set, Members, Iterating
<1> QED
  BY <1>1, <1>2 DEF Abstract!EndIteration

(* The current word is 0 and so are all later ones: nothing is ahead.      *)
LEMMA NoIndexRefines ==
  ASSUME Inv, Inv', NoIndex
  PROVE  Abstract!NoIndex
<1>1. /\ bits' = bits /\ answer' = <<"next">> /\ Iterating
      /\ iter.current_bits = {} /\ NonZero = {}
  BY DEF NoIndex
<1>2. iter.slices = iter.slice_index + 1 /\ iter.slice_index \in Nat
  BY <1>1, IteratingInv DEF Inv, Iters
<1>3. Ahead = {}
  <2>1. SUFFICES ASSUME NEW index \in Ahead PROVE FALSE
    OBVIOUS
  <2> DEFINE i == index \div W
  <2>2. index \in All /\ i > iter.slice_index /\ index \in set
    BY <1>1, AheadAt DEF AheadPlaces
  <2>3. i \in 0 .. L - 1 /\ index % W \in bits[i]
    BY <2>2, PlaceOf, MembersAt DEF Inv, TypeOK, set
  <2> HIDE DEF i
  <2>4. i \in iter.slices .. L - 1
    BY <1>2, <2>2, <2>3, ConstantsAssumption
  <2> QED
    BY <1>1, <2>3, <2>4 DEF NonZero
<1>4. iter'.current_bits = {} /\ iter'.slices = L /\ iter'.slice_index = L - 1
  <2>1. iter.slice_index + (L - iter.slices) = L - 1
    BY <1>2, ConstantsAssumption
  <2> QED
    BY <1>1, <2>1 DEF NoIndex, Inv, Iters
<1>5. Iterating'
  BY <1>4, ConstantsAssumption DEF Iterating, NoIter
<1>6. Ahead' = {}
  <2>1. /\ Ahead' \subseteq All
        /\ \A index \in All : index \in Ahead' <=>
             IF index \div W = L - 1 THEN index % W \in {}
             ELSE index \div W > L - 1 /\ index \in set'
    BY <1>4, <1>5, AheadPrime DEF AheadPlaces, All, Size
  <2>2. SUFFICES ASSUME NEW index \in Ahead' PROVE FALSE
    OBVIOUS
  <2>3. index \in All /\ index \div W > L - 1
    BY <2>1
  <2>4. index \div W \in 0 .. L - 1
    BY <2>3, PlaceOf
  <2> QED
    BY <2>3, <2>4, ConstantsAssumption
<1>7. set' = set
  BY <1>1 DEF set, Members
<1> QED
  BY <1>1, <1>3, <1>5, <1>6, <1>7 DEF Abstract!NoIndex, Abstract!Tell

(* What is ahead starts in the word that next takes its bit from.          *)
LEMMA AheadFrom ==
  ASSUME Inv, Iterating, NEW word, NEW index \in 0 .. L - 1,
         \/ word = iter.current_bits /\ index = iter.slice_index
         \/ /\ iter.current_bits = {} /\ word = bits[index]
            /\ index \in NonZero /\ \A i \in NonZero : index <= i
  PROVE  \A k \in All : k \in Ahead <=>
           IF k \div W = index THEN k % W \in word
           ELSE k \div W > index /\ k \in set
<1>1. CASE word = iter.current_bits /\ index = iter.slice_index
  BY <1>1, AheadAt DEF AheadPlaces
<1>2. CASE /\ iter.current_bits = {} /\ word = bits[index]
           /\ index \in NonZero /\ \A i \in NonZero : index <= i
  <2> SUFFICES ASSUME NEW k \in All
               PROVE  k \in Ahead <=>
                        IF k \div W = index THEN k % W \in word
                        ELSE k \div W > index /\ k \in set
    OBVIOUS
  <2> DEFINE i == k \div W
             s == iter.slice_index
  <2>1. k \in Ahead <=> i > s /\ k \in set
    <3>1. k \in Ahead <=> IF i = s THEN k % W \in {} ELSE i > s /\ k \in set
      BY <1>2, AheadAt DEF AheadPlaces
    <3>2. i \in Nat /\ s \in Nat
      BY PlaceOf, ConstantsAssumption DEF Inv, Iters
    <3> HIDE DEF i, s
    <3> QED
      BY <3>1, <3>2
  <2>2. k \in set <=> k % W \in bits[i]
    BY MembersAt DEF Inv, TypeOK, set
  <2>3. i \in 0 .. L - 1 /\ s \in Nat /\ iter.slices = s + 1
    BY PlaceOf, IteratingInv DEF Inv, Iters
  <2>4. index > s
    BY <1>2, <2>3 DEF NonZero
  <2>5. k \in set /\ i > s => i \in NonZero
    <3>1. i > s => i \in iter.slices .. L - 1
      BY <2>3, ConstantsAssumption
    <3> QED
      BY <2>2, <3>1 DEF NonZero
  <2>6. k \in set /\ i > s => index <= i
    BY <1>2, <2>5
  <2>7. i \in Nat /\ index \in Nat
    BY <2>3, ConstantsAssumption
  <2> HIDE DEF i, s
  <2>8. i = index => (k \in Ahead <=> k % W \in word)
    BY <1>2, <2>1, <2>2, <2>4
  <2>9. i # index => (k \in Ahead <=> i > index /\ k \in set)
    BY <2>1, <2>3, <2>4, <2>6, <2>7
  <2> QED
    BY <2>8, <2>9 DEF i
<1> QED
  BY <1>1, <1>2

(* next returns the least index ahead, which is then behind.               *)
LEMMA NextIndexRefines ==
  ASSUME Inv, Inv', NextIndex
  PROVE  Abstract!NextIndex
<1>1. PICK word \in Words, index \in 0 .. L - 1 :
        /\ word # {} /\ Yield(word, index)
        /\ \/ word = iter.current_bits /\ index = iter.slice_index
           \/ /\ iter.current_bits = {} /\ word = bits[index]
              /\ index \in NonZero /\ \A i \in NonZero : index <= i
  BY NextIndexCases
<1> DEFINE m == Min(word)
           x == index * W + m
<1>2. Iterating /\ bits' = bits
  BY DEF NextIndex
<1>3. \A k \in All : k \in Ahead <=>
        IF k \div W = index THEN k % W \in word ELSE k \div W > index /\ k \in set
  BY <1>1, <1>2, AheadFrom
<1>4. /\ iter' = [slice_index |-> index, current_bits |-> word \ {m},
                  slices |-> index + 1]
      /\ answer' = <<"next", x>>
  BY <1>1, <1>2, YieldStep
<1>5. m \in word /\ m \in 0 .. W - 1 /\ \A j \in word : m <= j
  BY <1>1, MinusOneBits DEF Words
<1>6. x \in All /\ x \div W = index /\ x % W = m
  BY <1>5, IndexAt
<1>7. Iterating' /\ set' = set
  <2>1. iter'.slices = index + 1 /\ index + 1 # 0
    BY <1>4, ConstantsAssumption
  <2> QED
    BY <1>2, <2>1 DEF Iterating, NoIter, set, Members
<1>8. /\ Ahead' \subseteq All
      /\ \A k \in All : k \in Ahead' <=>
           IF k \div W = index THEN k % W \in word \ {m} ELSE k \div W > index /\ k \in set
  <2>1. iter'.slice_index = index /\ iter'.current_bits = word \ {m}
    BY <1>4
  <2> QED
    BY <1>7, <2>1, AheadPrime DEF AheadPlaces, All, Size
<1> HIDE DEF m, x
<1>9. x \in Ahead
  BY <1>3, <1>5, <1>6
<1>10. Ahead \subseteq All
  BY <1>2, AheadAt DEF AheadPlaces
<1>11. Ahead' = Ahead \ {x}
  <2>1. ASSUME NEW k \in All PROVE k \in Ahead' <=> k \in Ahead /\ k # x
    <3>1. CASE k \div W = index
      <4>1. k % W = m <=> k = x
        BY <1>6, <3>1, SamePlace
      <4> QED
        BY <1>3, <1>8, <3>1, <4>1
    <3>2. CASE k \div W # index
      BY <1>3, <1>6, <1>8, <3>2
    <3> QED
      BY <3>1, <3>2
  <2> QED
    BY <1>8, <1>10, <2>1
<1>12. ASSUME NEW k \in Ahead PROVE x <= k
  <2>1. k \in All /\ (k \div W > index \/ (k \div W = index /\ k % W \in word))
    BY <1>3, <1>10
  <2>2. index < k \div W \/ (index = k \div W /\ m <= k % W)
    BY <1>5, <2>1
  <2> QED
    BY <1>5, <2>1, <2>2, IndexOrder DEF x
<1>13. Abstract!Least(Ahead) = x
  <2>1. Ahead \in SUBSET Nat
    BY <1>10 DEF All
  <2> QED
    BY <1>9, <1>12, <2>1, LeastIs
<1> QED
  BY <1>2, <1>4, <1>7, <1>9, <1>11, <1>13 DEF Abstract!NextIndex

(* Every step is a step of the set of indices, or invisible.               *)
LEMMA StepRefines == Inv /\ Inv' /\ [Next]_vars => [Abstract!Next]_Abstract!vars
<1> SUFFICES ASSUME Inv, Inv', [Next]_vars PROVE [Abstract!Next]_Abstract!vars
  OBVIOUS
<1>1. ASSUME NEW index \in 0 .. L * W - 1, ChangeBit(index) PROVE Abstract!Change
  BY <1>1, ChangeBitRefines DEF All, Size
<1>2. ASSUME NEW other \in Operands, Combine(other) PROVE Abstract!Change
  BY <1>2, CombineRefines
<1>3. CASE Negate
  BY <1>3, NegateRefines DEF Abstract!Next
<1>4. ASSUME NEW index \in 0 .. L * W - 1, Ask(index) PROVE Abstract!Ask
  BY <1>4, AskRefines DEF All, Size
<1>5. CASE IterIndices
  BY <1>5, IterIndicesRefines DEF Abstract!Next
<1>6. CASE NextIndex
  BY <1>6, NextIndexRefines DEF Abstract!Next
<1>7. CASE NoIndex
  BY <1>7, NoIndexRefines DEF Abstract!Next
<1>8. CASE EndIteration
  BY <1>8, EndIterationRefines DEF Abstract!Next
<1>9. CASE UNCHANGED vars
  BY <1>9 DEF vars, Abstract!vars, set, Members, Iterating, Ahead
<1> QED
  BY <1>1, <1>2, <1>3, <1>4, <1>5, <1>6, <1>7, <1>8, <1>9 DEF Next, Abstract!Next

(* Every call changes the bitset and answers as it would a set of indices, *)
(* for every length and width; next lists the set in ascending order, each *)
(* index once, and then returns None.                                      *)
THEOREM ImplementsSet == Spec => ImplementsIndexSet
<1>1. Init => Abstract!Init
  <2> SUFFICES ASSUME Init PROVE Abstract!Init
    OBVIOUS
  <2>1. set = {} /\ ~Iterating
    BY ZeroMembers DEF Init, set, Iterating
  <2> QED
    BY <2>1 DEF Abstract!Init, Init
<1> QED
  BY <1>1, StepRefines, Invariant, PTL DEF Spec, ImplementsIndexSet, Abstract!Spec

-----------------------------------------------------------------------------
(* The counts over the words, which MapThenSumSet adds up.  It is a fold   *)
(* that takes the elements in an order of its own; a sum from which any    *)
(* element can be taken is what it computes, whatever that order is.       *)
Chosen(s) == CHOOSE x \in s : TRUE

Additive(sum, f, S) ==
  /\ sum \in [SUBSET S -> Nat] /\ sum[{}] = 0
  /\ \A s \in SUBSET S : \A x \in s : sum[s] = f[x] + sum[s \ {x}]

(* The recursion of the fold.                                              *)
FoldsTo(g, f, S) ==
  \A s \in SUBSET S :
    g[s] = IF s = {} THEN 0 ELSE f[Chosen(s)] + g[s \ {Chosen(s)}]

(* It determines the sum: else some smallest subset would have two sums.   *)
LEMMA SumUnique ==
  ASSUME NEW S, IsFiniteSet(S), NEW f, NEW sum, Additive(sum, f, S),
         NEW g, FoldsTo(g, f, S)
  PROVE  g[S] = sum[S]
<1> DEFINE Differ == {s \in SUBSET S : g[s] # sum[s]}
           Sizes == {Cardinality(s) : s \in Differ}
<1>1. SUFFICES ASSUME Differ # {} PROVE FALSE
  <2>1. S \in SUBSET S
    OBVIOUS
  <2> QED
    BY <2>1
<1>2. \A s \in SUBSET S : IsFiniteSet(s) /\ Cardinality(s) \in Nat
  BY FS_Subset, FS_CardinalityType
<1>3. Sizes \in SUBSET Nat /\ Sizes # {}
  BY <1>1, <1>2
<1> HIDE DEF Sizes
<1>4. PICK n \in Sizes : \A m \in Sizes : n <= m
  BY <1>3, LeastExists
<1>5. PICK s \in Differ : Cardinality(s) = n
  BY DEF Sizes
<1>6. \A u \in Differ : Cardinality(s) <= Cardinality(u)
  BY <1>4, <1>5 DEF Sizes
<1>7. s \in SUBSET S /\ g[s] # sum[s]
  OBVIOUS
<1>8. s # {}
  BY <1>7 DEF Additive, FoldsTo
<1> DEFINE x == Chosen(s)
           u == s \ {x}
<1>9. x \in s
  BY <1>8 DEF Chosen
<1>10. u \in SUBSET S /\ Cardinality(u) = Cardinality(s) - 1
  BY <1>2, <1>7, <1>9, FS_RemoveElement
<1>11. g[s] = f[x] + g[u]
  BY <1>7, <1>8 DEF FoldsTo
<1>12. sum[s] = f[x] + sum[u]
  BY <1>7, <1>9 DEF Additive
<1> HIDE DEF x, u
<1>13. u \notin Differ
  BY <1>2, <1>6, <1>7, <1>10
<1>14. g[u] = sum[u]
  BY <1>10, <1>13
<1> QED
  BY <1>7, <1>11, <1>12, <1>14

(* count_ones, word by word.                                               *)
LEMMA OnesSum ==
  ASSUME NEW b, NEW S, IsFiniteSet(S), NEW f, \A i \in S : f[i] = Cardinality(b[i]),
         NEW sum, Additive(sum, f, S)
  PROVE  MapThenSumSet(LAMBDA i : Cardinality(b[i]), S) = sum[S]
<1> DEFINE F(g) == [s \in SUBSET S |->
                      IF s = {} THEN 0
                      ELSE Cardinality(b[CHOOSE x \in s : TRUE])
                             + g[s \ {CHOOSE x \in s : TRUE}]]
           fold == CHOOSE g : g = F(g)
<1>1. \A s \in SUBSET S : s # {} => Chosen(s) \in s
  BY DEF Chosen
<1>2. sum = F(sum)
  <2>1. \A s \in SUBSET S : F(sum)[s] = sum[s]
    BY <1>1 DEF Additive, Chosen
  <2>2. sum = [s \in SUBSET S |-> sum[s]]
    BY DEF Additive
  <2> QED
    BY <2>1, <2>2
<1>3. fold = F(fold)
  BY <1>2, Zenon
<1>4. MapThenSumSet(LAMBDA i : Cardinality(b[i]), S) = fold[S]
  BY Zenon DEF MapThenSumSet, MapThenFoldSet
<1> HIDE DEF fold
<1>5. FoldsTo(fold, f, S)
  BY <1>1, <1>3 DEF Chosen, FoldsTo
<1> HIDE DEF F
<1>6. fold[S] = sum[S]
  BY <1>5, SumUnique
<1> QED
  BY <1>4, <1>6

(* leading_zeros and trailing_zeros, over the words they look at.          *)
LEMMA LeadingSum ==
  ASSUME NEW b, NEW S, IsFiniteSet(S), NEW f, \A i \in S : f[i] = WordLeading(b[i]),
         NEW sum, Additive(sum, f, S)
  PROVE  MapThenSumSet(LAMBDA i : WordLeading(b[i]), S) = sum[S]
<1> DEFINE F(g) == [s \in SUBSET S |->
                      IF s = {} THEN 0
                      ELSE WordLeading(b[CHOOSE x \in s : TRUE])
                             + g[s \ {CHOOSE x \in s : TRUE}]]
           fold == CHOOSE g : g = F(g)
<1>1. \A s \in SUBSET S : s # {} => Chosen(s) \in s
  BY DEF Chosen
<1>2. sum = F(sum)
  <2>1. \A s \in SUBSET S : F(sum)[s] = sum[s]
    BY <1>1 DEF Additive, Chosen
  <2>2. sum = [s \in SUBSET S |-> sum[s]]
    BY DEF Additive
  <2> QED
    BY <2>1, <2>2
<1>3. fold = F(fold)
  BY <1>2, Zenon
<1>4. MapThenSumSet(LAMBDA i : WordLeading(b[i]), S) = fold[S]
  BY Zenon DEF MapThenSumSet, MapThenFoldSet
<1> HIDE DEF fold
<1>5. FoldsTo(fold, f, S)
  BY <1>1, <1>3 DEF Chosen, FoldsTo
<1> HIDE DEF F
<1>6. fold[S] = sum[S]
  BY <1>5, SumUnique
<1> QED
  BY <1>4, <1>6

LEMMA TrailingSum ==
  ASSUME NEW b, NEW S, IsFiniteSet(S), NEW f, \A i \in S : f[i] = WordTrailing(b[i]),
         NEW sum, Additive(sum, f, S)
  PROVE  MapThenSumSet(LAMBDA i : WordTrailing(b[i]), S) = sum[S]
<1> DEFINE F(g) == [s \in SUBSET S |->
                      IF s = {} THEN 0
                      ELSE WordTrailing(b[CHOOSE x \in s : TRUE])
                             + g[s \ {CHOOSE x \in s : TRUE}]]
           fold == CHOOSE g : g = F(g)
<1>1. \A s \in SUBSET S : s # {} => Chosen(s) \in s
  BY DEF Chosen
<1>2. sum = F(sum)
  <2>1. \A s \in SUBSET S : F(sum)[s] = sum[s]
    BY <1>1 DEF Additive, Chosen
  <2>2. sum = [s \in SUBSET S |-> sum[s]]
    BY DEF Additive
  <2> QED
    BY <2>1, <2>2
<1>3. fold = F(fold)
  BY <1>2, Zenon
<1>4. MapThenSumSet(LAMBDA i : WordTrailing(b[i]), S) = fold[S]
  BY Zenon DEF MapThenSumSet, MapThenFoldSet
<1> HIDE DEF fold
<1>5. FoldsTo(fold, f, S)
  BY <1>1, <1>3 DEF Chosen, FoldsTo
<1> HIDE DEF F
<1>6. fold[S] = sum[S]
  BY <1>5, SumUnique
<1> QED
  BY <1>4, <1>6

-----------------------------------------------------------------------------
(* The bits of some of the words.                                          *)
Within(b, s) == {index \in Members(b) : index \div W \in s}

LEMMA WithinFinite ==
  ASSUME NEW b \in BitSets, NEW s
  PROVE  IsFiniteSet(Within(b, s)) /\ Cardinality(Within(b, s)) \in Nat
<1>1. Size \in Nat
  BY ConstantsAssumption DEF Size
<1>2. IsFiniteSet(All)
  BY <1>1, FS_Interval DEF All
<1>3. Within(b, s) \in SUBSET All
  BY MembersAt DEF Within
<1> QED
  BY <1>2, <1>3, FS_Subset, FS_CardinalityType

(* A word holds as many bits as there are indices in it.                   *)
LEMMA WithinWord ==
  ASSUME NEW b \in BitSets, NEW i \in 0 .. L - 1
  PROVE  Cardinality(Within(b, {i})) = Cardinality(b[i]) /\ Cardinality(b[i]) \in Nat
<1> DEFINE at == [j \in b[i] |-> i * W + j]
           In == Within(b, {i})
<1>1. b[i] \in SUBSET (0 .. W - 1)
  BY DEF BitSets, Words
<1>2. IsFiniteSet(b[i])
  <2>1. 0 \in Int /\ W - 1 \in Int
    BY ConstantsAssumption
  <2> QED
    BY <1>1, <2>1, FS_Interval, FS_Subset
<1>3. ASSUME NEW j \in b[i]
      PROVE  i * W + j \in In /\ (i * W + j) % W = j
  <2>1. j \in 0 .. W - 1
    BY <1>1
  <2>2. i * W + j \in Members(b) /\ (i * W + j) \div W = i /\ (i * W + j) % W = j
    BY <2>1, MembersAt, IndexAt
  <2> QED
    BY <2>2 DEF Within
<1>4. ASSUME NEW index \in In
      PROVE  index % W \in b[i] /\ index = i * W + (index % W)
  <2>1. index \in Members(b) /\ index \div W = i
    BY DEF Within
  <2>2. index \in All
    BY <2>1, MembersAt
  <2> QED
    BY <2>1, <2>2, MembersAt, PlaceOf
<1> HIDE DEF In
<1>5. at \in [b[i] -> In] /\ \A j \in b[i] : at[j] % W = j
  BY <1>3
<1>6. \A index \in In : \E j \in b[i] : at[j] = index
  BY <1>4
<1> HIDE DEF at
<1>7. at \in Surjection(b[i], In)
  BY <1>5, <1>6, Fun_IsSurj
<1>8. at \in Bijection(b[i], In)
  <2>1. \A j, k \in b[i] : at[j] = at[k] => j = k
    BY <1>5
  <2> QED
    BY <1>5, <1>7, <2>1, Fun_IsBij
<1>9. Cardinality(In) = Cardinality(b[i])
  BY <1>2, <1>8, FS_Bijection DEF ExistsBijection
<1> QED
  BY <1>2, <1>9, FS_CardinalityType DEF In

(* count_ones counts the indices of the set.                               *)
LEMMA CountOnesMembers ==
  ASSUME NEW b \in BitSets
  PROVE  CountOnes(b) = Cardinality(Members(b))
<1> DEFINE S == 0 .. L - 1
           f == [i \in S |-> Cardinality(b[i])]
           sum == [s \in SUBSET S |-> Cardinality(Within(b, s))]
<1>1. IsFiniteSet(S)
  <2>1. 0 \in Int /\ L - 1 \in Int
    BY ConstantsAssumption
  <2> QED
    BY <2>1, FS_Interval
<1>2. sum \in [SUBSET S -> Nat]
  BY WithinFinite
<1>3. sum[{}] = 0
  <2>1. Within(b, {}) = {}
    BY DEF Within
  <2> QED
    BY <2>1, FS_EmptySet
<1>4. ASSUME NEW s \in SUBSET S, NEW x \in s
      PROVE  sum[s] = f[x] + sum[s \ {x}]
  <2> DEFINE A == Within(b, {x})
             B == Within(b, s \ {x})
             C == Within(b, s)
  <2>1. A \cup B = C /\ A \cap B = {}
    BY DEF Within
  <2>2. /\ IsFiniteSet(A) /\ Cardinality(A) \in Nat
        /\ IsFiniteSet(B) /\ Cardinality(B) \in Nat
    BY WithinFinite
  <2>3. sum[s] = Cardinality(C) /\ sum[s \ {x}] = Cardinality(B)
    OBVIOUS
  <2>4. f[x] = Cardinality(A)
    BY WithinWord
  <2> HIDE DEF A, B, C, f, sum
  <2>5. Cardinality(A \cup B) = Cardinality(A) + Cardinality(B) - Cardinality(A \cap B)
    BY <2>2, FS_Union
  <2>6. Cardinality(C) = Cardinality(A) + Cardinality(B) - 0
    BY <2>1, <2>5, FS_EmptySet
  <2> QED
    BY <2>2, <2>3, <2>4, <2>6
<1>5. \A i \in S : f[i] = Cardinality(b[i])
  OBVIOUS
<1>6. sum[S] = Cardinality(Members(b))
  <2>1. \A index \in Members(b) : index \div W \in S
    BY MembersAt, PlaceOf
  <2>2. Within(b, S) = Members(b)
    BY <2>1 DEF Within
  <2> QED
    BY <2>2
<1> HIDE DEF f, sum
<1>7. Additive(sum, f, S)
  BY <1>2, <1>3, <1>4 DEF Additive
<1> HIDE DEF S
<1>8. MapThenSumSet(LAMBDA i : Cardinality(b[i]), S) = sum[S]
  BY <1>1, <1>5, <1>7, OnesSum
<1> QED
  BY <1>6, <1>8, Zenon DEF CountOnes, S

-----------------------------------------------------------------------------
(* A set of numbers below a bound has a greatest one.                      *)
LEMMA MaxIsGreatest ==
  ASSUME NEW n \in Nat, NEW S \in SUBSET (0 .. n), S # {}
  PROVE  Max(S) \in S /\ \A y \in S : y <= Max(S)
<1> DEFINE T == {n - y : y \in S}
<1>1. \A y \in S : n - y \in Nat
  OBVIOUS
<1>2. \A y \in S : n - y \in T
  OBVIOUS
<1>3. \A z \in T : \E x \in S : z = n - x
  OBVIOUS
<1>4. T \in SUBSET Nat
  BY <1>1
<1> HIDE DEF T
<1>5. T # {}
  <2>1. PICK y \in S : TRUE
    OBVIOUS
  <2> QED
    BY <1>2, <2>1
<1>6. PICK z \in T : \A y \in T : z <= y
  BY <1>4, <1>5, LeastExists
<1>7. PICK x \in S : z = n - x
  BY <1>3, <1>6
<1>8. \A y \in S : n - x <= n - y
  BY <1>2, <1>6, <1>7
<1>9. \E m \in S : \A y \in S : m >= y
  <2>1. \A y \in S : x >= y
    BY <1>8
  <2> QED
    BY <2>1
<1>10. Max(S) \in S /\ \A y \in S : Max(S) >= y
  BY <1>9, Zenon DEF Max
<1> DEFINE greatest == Max(S)
<1> HIDE DEF greatest
<1>11. greatest \in S /\ \A y \in S : greatest >= y
  BY <1>10 DEF greatest
<1>12. \A y \in S : y <= greatest
  BY <1>11
<1> QED
  BY <1>11, <1>12 DEF greatest

(* The counted words, of which only m is not 0: f is what each adds.       *)
AllButOne(f, S, m) == f[m] \in Nat /\ \A i \in S : i # m => f[i] = W

WholeSum(f, S, m) == W * Cardinality(S \ {m}) + IF m \in S THEN f[m] ELSE 0

LEMMA WholeWords ==
  ASSUME NEW S, IsFiniteSet(S), NEW f, NEW m, AllButOne(f, S, m)
  PROVE  \E sum : Additive(sum, f, S) /\ sum[S] = WholeSum(f, S, m)
<1> DEFINE c(s) == Cardinality(s \ {m})
           last(s) == IF m \in s THEN f[m] ELSE 0
           sum == [s \in SUBSET S |-> W * c(s) + last(s)]
<1>1. W \in Nat
  BY ConstantsAssumption
<1>2. \A s \in SUBSET S : IsFiniteSet(s \ {m}) /\ c(s) \in Nat
  BY FS_Subset, FS_CardinalityType
<1>3. \A s : last(s) \in Nat
  BY DEF AllButOne
<1>4. sum \in [SUBSET S -> Nat]
  <2>1. ASSUME NEW s \in SUBSET S PROVE W * c(s) + last(s) \in Nat
    <3>1. c(s) \in Nat /\ last(s) \in Nat
      BY <1>2, <1>3
    <3> HIDE DEF c, last
    <3> QED
      BY <1>1, <3>1
  <2> HIDE DEF c, last
  <2> QED
    BY <2>1
<1>5. sum[{}] = 0
  <2>1. c({}) = 0 /\ last({}) = 0
    BY FS_EmptySet
  <2> HIDE DEF c, last
  <2> QED
    BY <1>1, <2>1
<1>6. ASSUME NEW s \in SUBSET S, NEW x \in s, NEW u, u = s \ {x}
      PROVE  sum[s] = f[x] + sum[u]
  <2>1. sum[s] = W * c(s) + last(s) /\ sum[u] = W * c(u) + last(u)
    BY <1>6
  <2>2. c(s) \in Nat /\ c(u) \in Nat
    BY <1>2, <1>6
  <2>3. CASE x = m
    <3>1. u \ {m} = s \ {m} /\ m \in s /\ m \notin u
      BY <1>6, <2>3
    <3>2. c(u) = c(s) /\ last(s) = f[x] /\ last(u) = 0
      BY <2>3, <3>1
    <3>3. f[x] \in Nat
      BY <2>3 DEF AllButOne
    <3> HIDE DEF c, last, sum
    <3> QED
      BY <1>1, <2>1, <2>2, <3>2, <3>3
  <2>4. CASE x # m
    <3>1. u \ {m} = (s \ {m}) \ {x} /\ x \in s \ {m} /\ (m \in u <=> m \in s)
      BY <1>6, <2>4
    <3>2. c(u) = c(s) - 1
      <4>1. IsFiniteSet(s \ {m})
        BY <1>2
      <4>2. Cardinality((s \ {m}) \ {x}) = Cardinality(s \ {m}) - 1
        BY <3>1, <4>1, FS_RemoveElement
      <4> QED
        BY <3>1, <4>2
    <3>3. last(u) = last(s) /\ f[x] = W
      BY <2>4, <3>1 DEF AllButOne
    <3>4. last(s) \in Nat
      BY <1>3
    <3> HIDE DEF c, last, sum
    <3>5. W * c(s) = W + W * c(u) /\ W * c(u) \in Nat
      BY <1>1, <2>2, <3>2
    <3> QED
      BY <1>1, <2>1, <2>2, <3>3, <3>4, <3>5
  <2> QED
    BY <2>3, <2>4
<1>7. sum[S] = WholeSum(f, S, m)
  BY DEF WholeSum
<1>8. Additive(sum, f, S)
  <2> HIDE DEF sum
  <2> QED
    BY <1>4, <1>5, <1>6 DEF Additive
<1> QED
  BY <1>7, <1>8

(* An element that bounds the set is the one Max or Min chooses.           *)
LEMMA ExtremesAre ==
  ASSUME NEW n \in Nat, NEW S \in SUBSET (0 .. n), NEW x \in S
  PROVE  /\ (\A y \in S : y <= x) => Max(S) = x
         /\ (\A y \in S : x <= y) => Min(S) = x
<1>1. ASSUME \A y \in S : y <= x PROVE Max(S) = x
  <2> DEFINE z == Max(S)
  <2>1. z \in S /\ \A y \in S : y <= z
    BY MaxIsGreatest
  <2> HIDE DEF z
  <2>2. z \in Nat /\ x \in Nat /\ x <= z /\ z <= x
    BY <1>1, <2>1
  <2>3. z = x
    BY <2>2
  <2> QED
    BY <2>3 DEF z
<1>2. ASSUME \A y \in S : x <= y PROVE Min(S) = x
  <2> DEFINE z == Min(S)
  <2>1. z \in S /\ \A y \in S : z <= y
    BY MinIsLeast
  <2> HIDE DEF z
  <2>2. z \in Nat /\ x \in Nat /\ x <= z /\ z <= x
    BY <1>2, <2>1
  <2>3. z = x
    BY <2>2
  <2> QED
    BY <2>3 DEF z
<1> QED
  BY <1>1, <1>2

(* leading_zeros, when m is the only counted word that is not 0 (L: none). *)
LEMMA LeadingCount ==
  ASSUME NEW b \in BitSets, NEW S \in SUBSET (0 .. L - 1), NEW m \in 0 .. L,
         \A i \in S : i # m => b[i] = {},
         m \in S => b[m] # {}
  PROVE  MapThenSumSet(LAMBDA i : WordLeading(b[i]), S)
           = W * Cardinality(S \ {m}) + IF m \in S THEN W - 1 - Max(b[m]) ELSE 0
<1> DEFINE f == [i \in 0 .. L |-> IF i \in S THEN WordLeading(b[i]) ELSE 0]
<1>1. L \in Nat /\ W \in Nat \ {0}
  BY ConstantsAssumption
<1>2. IsFiniteSet(S)
  <2>1. 0 \in Int /\ L - 1 \in Int
    BY <1>1
  <2> QED
    BY <2>1, FS_Interval, FS_Subset
<1>3. \A i \in S : i # m => f[i] = W
  BY <1>1 DEF WordLeading
<1>4. m \in S => f[m] = W - 1 - Max(b[m])
  BY DEF WordLeading
<1>5. f[m] \in Nat
  <2>1. CASE m \in S
    <3>1. W - 1 \in Nat /\ b[m] \in SUBSET (0 .. W - 1) /\ b[m] # {}
      BY <1>1, <2>1 DEF BitSets, Words
    <3>2. Max(b[m]) \in 0 .. W - 1
      BY <3>1, MaxIsGreatest
    <3> HIDE DEF f
    <3> QED
      BY <1>1, <1>4, <2>1, <3>2
  <2>2. CASE m \notin S
    BY <2>2
  <2> QED
    BY <2>1, <2>2
<1>6. \A i \in S : f[i] = WordLeading(b[i])
  BY <1>1
<1> HIDE DEF f
<1>7. PICK sum : Additive(sum, f, S) /\ sum[S] = WholeSum(f, S, m)
  <2>1. AllButOne(f, S, m)
    BY <1>3, <1>5 DEF AllButOne
  <2> QED
    BY <1>2, <2>1, WholeWords
<1>8. MapThenSumSet(LAMBDA i : WordLeading(b[i]), S) = sum[S]
  <2>1. Additive(sum, f, S)
    BY <1>7
  <2> QED
    BY <1>2, <1>6, <2>1, LeadingSum
<1>9. sum[S] = W * Cardinality(S \ {m}) + IF m \in S THEN W - 1 - Max(b[m]) ELSE 0
  BY <1>4, <1>7 DEF WholeSum
<1> QED
  BY <1>8, <1>9, Zenon

(* trailing_zeros, when m is the only counted one that is not 0 (L: none). *)
LEMMA TrailingCount ==
  ASSUME NEW b \in BitSets, NEW S \in SUBSET (0 .. L - 1), NEW m \in 0 .. L,
         \A i \in S : i # m => b[i] = {},
         m \in S => b[m] # {}
  PROVE  MapThenSumSet(LAMBDA i : WordTrailing(b[i]), S)
           = W * Cardinality(S \ {m}) + IF m \in S THEN Min(b[m]) ELSE 0
<1> DEFINE f == [i \in 0 .. L |-> IF i \in S THEN WordTrailing(b[i]) ELSE 0]
<1>1. L \in Nat /\ W \in Nat \ {0}
  BY ConstantsAssumption
<1>2. IsFiniteSet(S)
  <2>1. 0 \in Int /\ L - 1 \in Int
    BY <1>1
  <2> QED
    BY <2>1, FS_Interval, FS_Subset
<1>3. \A i \in S : i # m => f[i] = W
  BY <1>1 DEF WordTrailing
<1>4. m \in S => f[m] = Min(b[m])
  BY DEF WordTrailing
<1>5. f[m] \in Nat
  <2>1. CASE m \in S
    <3>1. W - 1 \in Nat /\ b[m] \in SUBSET (0 .. W - 1) /\ b[m] # {}
      BY <1>1, <2>1 DEF BitSets, Words
    <3>2. Min(b[m]) \in 0 .. W - 1
      BY <3>1, MinIsLeast
    <3> HIDE DEF f
    <3> QED
      BY <1>1, <1>4, <2>1, <3>2
  <2>2. CASE m \notin S
    BY <2>2
  <2> QED
    BY <2>1, <2>2
<1>6. \A i \in S : f[i] = WordTrailing(b[i])
  BY <1>1
<1> HIDE DEF f
<1>7. PICK sum : Additive(sum, f, S) /\ sum[S] = WholeSum(f, S, m)
  <2>1. AllButOne(f, S, m)
    BY <1>3, <1>5 DEF AllButOne
  <2> QED
    BY <1>2, <2>1, WholeWords
<1>8. MapThenSumSet(LAMBDA i : WordTrailing(b[i]), S) = sum[S]
  <2>1. Additive(sum, f, S)
    BY <1>7
  <2> QED
    BY <1>2, <1>6, <2>1, TrailingSum
<1>9. sum[S] = W * Cardinality(S \ {m}) + IF m \in S THEN Min(b[m]) ELSE 0
  BY <1>4, <1>7 DEF WholeSum
<1> QED
  BY <1>8, <1>9, Zenon

(* The bits of the set reach from its first word that is not 0 to its      *)
(* last, and from the first bit of the one to the last bit of the other.   *)
LEMMA SetBounds ==
  ASSUME NEW b \in BitSets, Members(b) # {},
         NEW NZ, NZ = {i \in 0 .. L - 1 : b[i] # {}}
  PROVE  /\ NZ # {} /\ Max(NZ) \in NZ /\ Min(NZ) \in NZ
         /\ \A i \in NZ : i <= Max(NZ) /\ Min(NZ) <= i
         /\ Max(Members(b)) = Max(NZ) * W + Max(b[Max(NZ)])
         /\ Min(Members(b)) = Min(NZ) * W + Min(b[Min(NZ)])
         /\ Max(b[Max(NZ)]) \in 0 .. W - 1 /\ Min(b[Min(NZ)]) \in 0 .. W - 1
<1> DEFINE M == Members(b)
           hi == Max(NZ)
           lo == Min(NZ)
           top == Max(b[hi])
           bottom == Min(b[lo])
<1>1. L - 1 \in Nat /\ W - 1 \in Nat /\ L \in Nat /\ W \in Nat
  BY ConstantsAssumption
<1>2. ASSUME NEW k \in M
      PROVE  /\ k \in All /\ k \div W \in NZ /\ k % W \in b[k \div W]
             /\ k \div W \in 0 .. L - 1 /\ k % W \in 0 .. W - 1
             /\ k = (k \div W) * W + (k % W)
  <2>1. k \in All
    BY MembersAt
  <2>2. /\ k \div W \in 0 .. L - 1 /\ k % W \in b[k \div W] /\ k % W \in 0 .. W - 1
        /\ k = (k \div W) * W + (k % W)
    BY <2>1, MembersAt, PlaceOf
  <2> QED
    BY <2>1, <2>2
<1>3. NZ # {}
  <2>1. PICK k \in M : TRUE
    OBVIOUS
  <2> QED
    BY <1>2, <2>1
<1>4. hi \in NZ /\ \A i \in NZ : i <= hi
  BY <1>1, <1>3, MaxIsGreatest
<1>5. lo \in NZ /\ \A i \in NZ : lo <= i
  BY <1>3, MinIsLeast
<1>6. top \in b[hi] /\ \A j \in b[hi] : j <= top
  <2>1. b[hi] \in SUBSET (0 .. W - 1) /\ b[hi] # {}
    BY <1>4 DEF BitSets, Words
  <2> QED
    BY <1>1, <2>1, MaxIsGreatest
<1>7. bottom \in b[lo] /\ \A j \in b[lo] : bottom <= j
  <2>1. b[lo] \in SUBSET (0 .. W - 1) /\ b[lo] # {}
    BY <1>5 DEF BitSets, Words
  <2>2. b[lo] \in SUBSET Nat
    <3> HIDE DEF lo
    <3> QED
      BY <1>1, <2>1
  <2> QED
    BY <2>1, <2>2, MinIsLeast
<1> HIDE DEF hi, lo, top, bottom, M
<1>8. hi \in 0 .. L - 1 /\ lo \in 0 .. L - 1
  BY <1>4, <1>5
<1>9. top \in 0 .. W - 1 /\ bottom \in 0 .. W - 1
  BY <1>6, <1>7, <1>8 DEF BitSets, Words
<1>10. hi * W + top \in M /\ lo * W + bottom \in M
  BY <1>6, <1>7, <1>8, <1>9, MembersAt DEF M
<1>11. ASSUME NEW k \in M PROVE lo * W + bottom <= k
  <2>1. lo <= k \div W /\ (lo = k \div W => bottom <= k % W)
    BY <1>2, <1>5, <1>7
  <2>2. lo < k \div W \/ (lo = k \div W /\ bottom <= k % W)
    BY <1>2, <1>8, <2>1
  <2> QED
    BY <1>2, <1>8, <1>9, <2>2, IndexOrder
<1>12. ASSUME NEW k \in M PROVE k <= hi * W + top
  <2> DEFINE n == hi * W + top
             i == k \div W
             j == k % W
  <2>1. i <= hi /\ (i = hi => j <= top)
    BY <1>2, <1>4, <1>6
  <2>2. n \in All /\ n \div W = hi /\ n % W = top
    BY <1>8, <1>9, IndexAt
  <2>3. i \in 0 .. L - 1 /\ j \in 0 .. W - 1 /\ k = i * W + j
    BY <1>2
  <2> HIDE DEF n, i, j
  <2>4. i < n \div W \/ (i = n \div W /\ j <= n % W)
    BY <1>8, <2>1, <2>2, <2>3
  <2>5. i * W + j <= n
    BY <2>2, <2>3, <2>4, IndexOrder
  <2> QED
    BY <2>3, <2>5 DEF n
<1>13. M \in SUBSET (0 .. Size - 1) /\ Size - 1 \in Nat
  <2>1. M \in SUBSET (0 .. Size - 1)
    BY MembersAt DEF M, All
  <2>2. Size \in Nat
    BY <1>1 DEF Size
  <2>3. PICK k \in M : TRUE
    BY <1>10
  <2>4. k \in 0 .. Size - 1
    BY <2>1
  <2> QED
    BY <2>1, <2>2, <2>4
<1>14. Max(M) = hi * W + top
  BY <1>10, <1>12, <1>13, ExtremesAre
<1>15. Min(M) = lo * W + bottom
  BY <1>10, <1>11, <1>13, ExtremesAre
<1> QED
  BY <1>3, <1>4, <1>5, <1>9, <1>14, <1>15 DEF hi, lo, top, bottom, M

(* leading_zeros and trailing_zeros are the distances of the set's bounds  *)
(* from the ends of the bitset, and all of it if the set is empty.         *)
LEMMA LeadingZerosMembers ==
  ASSUME NEW b \in BitSets
  PROVE  LeadingZeros(b) = IF Members(b) = {} THEN Size ELSE Size - 1 - Max(Members(b))
<1> DEFINE S == {i \in 0 .. L - 1 : \A j \in i + 1 .. L - 1 : b[j] = {}}
<1>1. L \in Nat \ {0} /\ W \in Nat \ {0}
  BY ConstantsAssumption
<1>2. CASE Members(b) = {}
  <2>1. \A i \in 0 .. L - 1 : b[i] = {}
    BY <1>2, EmptyMembers DEF IsEmpty
  <2>2. S = 0 .. L - 1
    BY <1>1, <2>1
  <2>3. L \in 0 .. L /\ L \notin S /\ S \ {L} = 0 .. L - 1
    BY <1>1, <2>2
  <2> HIDE DEF S
  <2>4. MapThenSumSet(LAMBDA i : WordLeading(b[i]), S) = W * Cardinality(S \ {L}) + 0
    <3>1. /\ S \in SUBSET (0 .. L - 1) /\ \A i \in S : i # L => b[i] = {}
          /\ L \in S => b[L] # {}
      BY <2>1, <2>2, <2>3
    <3>2. MapThenSumSet(LAMBDA i : WordLeading(b[i]), S)
            = W * Cardinality(S \ {L}) + IF L \in S THEN W - 1 - Max(b[L]) ELSE 0
      BY <2>3, <3>1, LeadingCount
    <3> QED
      BY <2>3, <3>2, Zenon
  <2>5. Cardinality(S \ {L}) = L
    BY <1>1, <2>3, IntervalSize
  <2>6. W * Cardinality(S \ {L}) + 0 = Size
    BY <1>1, <2>5 DEF Size
  <2>7. LeadingZeros(b) = Size
    BY <2>4, <2>6, Zenon DEF LeadingZeros, S
  <2> QED
    BY <1>2, <2>7
<1>3. CASE Members(b) # {}
  <2> DEFINE NZ == {i \in 0 .. L - 1 : b[i] # {}}
             m == Max(NZ)
             top == Max(b[m])
  <2>1. /\ m \in NZ /\ \A i \in NZ : i <= m
        /\ Max(Members(b)) = m * W + top /\ top \in 0 .. W - 1
    BY <1>3, SetBounds
  <2> HIDE DEF m
  <2>2. m \in 0 .. L - 1 /\ b[m] # {} /\ \A i \in 0 .. L - 1 : b[i] # {} => i <= m
    BY <2>1
  <2> HIDE DEF NZ, top
  <2>3. S = m .. L - 1
    <3>1. \A i \in 0 .. L - 1 : i \in S <=> m <= i
      BY <1>1, <2>2
    <3> HIDE DEF S
    <3>2. S \subseteq 0 .. L - 1
      BY DEF S
    <3>3. m \in 0 .. L - 1
      BY <2>2
    <3>4. ASSUME NEW i \in S PROVE i \in m .. L - 1
      BY <1>1, <3>1, <3>2, <3>3
    <3>5. ASSUME NEW i \in m .. L - 1 PROVE i \in S
      <4>1. i \in 0 .. L - 1
        BY <1>1, <3>3
      <4> QED
        BY <1>1, <3>1, <3>3, <4>1
    <3> QED
      BY <3>4, <3>5
  <2> HIDE DEF S
  <2>4. m \in 0 .. L /\ m \in S /\ S \ {m} = m + 1 .. L - 1
    BY <1>1, <2>2, <2>3
  <2>5. /\ S \in SUBSET (0 .. L - 1) /\ \A i \in S : i # m => b[i] = {}
        /\ m \in S => b[m] # {}
    BY <1>1, <2>2, <2>3
  <2>6. MapThenSumSet(LAMBDA i : WordLeading(b[i]), S)
          = W * Cardinality(S \ {m}) + (W - 1 - top)
    <3>1. MapThenSumSet(LAMBDA i : WordLeading(b[i]), S)
            = W * Cardinality(S \ {m}) + IF m \in S THEN W - 1 - Max(b[m]) ELSE 0
      BY <2>4, <2>5, LeadingCount
    <3> QED
      BY <2>4, <3>1, Zenon DEF top
  <2>7. Cardinality(S \ {m}) = L - 1 - m
    <3>1. m + 1 \in Int /\ L - 1 \in Int
      BY <1>1, <2>2
    <3>2. Cardinality(m + 1 .. L - 1) = IF m + 1 > L - 1 THEN 0 ELSE (L - 1) - (m + 1) + 1
      BY <3>1, FS_Interval
    <3>3. Cardinality(m + 1 .. L - 1) = L - 1 - m
      BY <1>1, <2>2, <3>2
    <3> QED
      BY <2>4, <3>3
  <2>8. W * Cardinality(S \ {m}) + (W - 1 - top) = Size - 1 - (m * W + top)
    <3>1. W * (L - 1 - m) = L * W - W - m * W
      BY <1>1, <2>2
    <3>2. L * W \in Int /\ m * W \in Int /\ top \in Int
      BY <1>1, <2>1, <2>2
    <3> QED
      BY <1>1, <2>7, <3>1, <3>2 DEF Size
  <2>9. LeadingZeros(b) = Size - 1 - (m * W + top)
    BY <2>6, <2>8, Zenon DEF LeadingZeros, S
  <2> QED
    BY <1>3, <2>1, <2>9
<1> QED
  BY <1>2, <1>3

LEMMA TrailingZerosMembers ==
  ASSUME NEW b \in BitSets
  PROVE  TrailingZeros(b) = IF Members(b) = {} THEN Size ELSE Min(Members(b))
<1> DEFINE S == {i \in 0 .. L - 1 : \A j \in 0 .. i - 1 : b[j] = {}}
<1>1. L \in Nat \ {0} /\ W \in Nat \ {0}
  BY ConstantsAssumption
<1>2. CASE Members(b) = {}
  <2>1. \A i \in 0 .. L - 1 : b[i] = {}
    BY <1>2, EmptyMembers DEF IsEmpty
  <2>2. S = 0 .. L - 1
    BY <1>1, <2>1
  <2>3. L \in 0 .. L /\ L \notin S /\ S \ {L} = 0 .. L - 1
    BY <1>1, <2>2
  <2> HIDE DEF S
  <2>4. MapThenSumSet(LAMBDA i : WordTrailing(b[i]), S) = W * Cardinality(S \ {L}) + 0
    <3>1. /\ S \in SUBSET (0 .. L - 1) /\ \A i \in S : i # L => b[i] = {}
          /\ L \in S => b[L] # {}
      BY <2>1, <2>2, <2>3
    <3>2. MapThenSumSet(LAMBDA i : WordTrailing(b[i]), S)
            = W * Cardinality(S \ {L}) + IF L \in S THEN Min(b[L]) ELSE 0
      BY <2>3, <3>1, TrailingCount
    <3> QED
      BY <2>3, <3>2, Zenon
  <2>5. Cardinality(S \ {L}) = L
    BY <1>1, <2>3, IntervalSize
  <2>6. W * Cardinality(S \ {L}) + 0 = Size
    BY <1>1, <2>5 DEF Size
  <2>7. TrailingZeros(b) = Size
    BY <2>4, <2>6, Zenon DEF TrailingZeros, S
  <2> QED
    BY <1>2, <2>7
<1>3. CASE Members(b) # {}
  <2> DEFINE NZ == {i \in 0 .. L - 1 : b[i] # {}}
             m == Min(NZ)
             bottom == Min(b[m])
  <2>1. /\ m \in NZ /\ \A i \in NZ : m <= i
        /\ Min(Members(b)) = m * W + bottom /\ bottom \in 0 .. W - 1
    BY <1>3, SetBounds
  <2> HIDE DEF m
  <2>2. m \in 0 .. L - 1 /\ b[m] # {} /\ \A i \in 0 .. L - 1 : b[i] # {} => m <= i
    BY <2>1
  <2> HIDE DEF NZ, bottom
  <2>3. S = 0 .. m
    <3>1. \A i \in 0 .. L - 1 : i \in S <=> i <= m
      BY <1>1, <2>2
    <3> HIDE DEF S
    <3>2. S \subseteq 0 .. L - 1
      BY DEF S
    <3>3. m \in 0 .. L - 1
      BY <2>2
    <3>4. ASSUME NEW i \in S PROVE i \in 0 .. m
      BY <1>1, <3>1, <3>2, <3>3
    <3>5. ASSUME NEW i \in 0 .. m PROVE i \in S
      <4>1. i \in 0 .. L - 1
        BY <1>1, <3>3
      <4> QED
        BY <1>1, <3>1, <3>3, <4>1
    <3> QED
      BY <3>4, <3>5
  <2> HIDE DEF S
  <2>4. m \in 0 .. L /\ m \in S /\ S \ {m} = 0 .. m - 1
    BY <1>1, <2>2, <2>3
  <2>5. /\ S \in SUBSET (0 .. L - 1) /\ \A i \in S : i # m => b[i] = {}
        /\ m \in S => b[m] # {}
    BY <1>1, <2>2, <2>3
  <2>6. MapThenSumSet(LAMBDA i : WordTrailing(b[i]), S)
          = W * Cardinality(S \ {m}) + bottom
    <3>1. MapThenSumSet(LAMBDA i : WordTrailing(b[i]), S)
            = W * Cardinality(S \ {m}) + IF m \in S THEN Min(b[m]) ELSE 0
      BY <2>4, <2>5, TrailingCount
    <3> QED
      BY <2>4, <3>1, Zenon DEF bottom
  <2>7. Cardinality(S \ {m}) = m
    <3>1. Cardinality(0 .. m - 1) = m
      BY <1>1, <2>2, IntervalSize
    <3> QED
      BY <2>4, <3>1
  <2>8. W * Cardinality(S \ {m}) + bottom = m * W + bottom
    BY <1>1, <2>2, <2>7
  <2>9. TrailingZeros(b) = m * W + bottom
    BY <2>6, <2>8, Zenon DEF TrailingZeros, S
  <2> QED
    BY <1>3, <2>1, <2>9
<1> QED
  BY <1>2, <1>3

(* count_ones, is_empty, leading_zeros and trailing_zeros are the counts   *)
(* of the whole set, wherever its bits are in the words.                   *)
THEOREM CountsCorrect == Spec => []CountsAgree
<1>1. Inv => CountsAgree
  <2>1. SUFFICES ASSUME Inv PROVE CountsAgree
    OBVIOUS
  <2>2. bits \in BitSets
    BY <2>1 DEF Inv, TypeOK
  <2> QED
    BY <2>2, CountOnesMembers, EmptyMembers, LeadingZerosMembers,
       TrailingZerosMembers DEF CountsAgree, set
<1> QED
  BY <1>1, Invariant, PTL

=============================================================================
