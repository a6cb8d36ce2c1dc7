------------------------------- MODULE BitSet --------------------------------
(***************************************************************************)
(* The fixed-length bitset, src/src/bitset.rs: L words of W bits.  A word  *)
(* is the set of the positions of its bits that are 1, position 0 being    *)
(* the least significant.  The calls of one client are modelled, which may *)
(* iterate over the bitset; while it does, the bitset is borrowed.         *)
(***************************************************************************)
EXTENDS Naturals, FiniteSetsExt

CONSTANTS
  L,   \* the number of words, the const generic parameter
  W,   \* BITS_PER_ELEMENT
  Operands  \* the other bitsets the client uses, as sets of indices

ASSUME ConstantsAssumption ==
  /\ L \in Nat \ {0}    \* iter_indices panics when there is no word
  /\ W \in Nat \ {0}
  /\ Operands \subseteq SUBSET (0 .. L * W - 1)

VARIABLES
  bits,    \* the words
  iter,    \* the SetBitsIter, if the client has one
  answer   \* the last call with its argument and what it returned

vars == <<bits, iter, answer>>

Words == SUBSET (0 .. W - 1)
BitSets == [0 .. L - 1 -> Words]
NoIter == [slice_index |-> 0, current_bits |-> {}, slices |-> 0]

(* A bitset as the set of its indices, and back.                           *)
Members(b) == {index \in 0 .. L * W - 1 : index % W \in b[index \div W]}
BitsOf(indices) == [i \in 0 .. L - 1 |-> {j \in 0 .. W - 1 : (i * W) + j \in indices}]

(* Definitions named Bad... are mistakes the code does not make, used to   *)
(* show which property would notice them.                                  *)
Zero == [i \in 0 .. L - 1 |-> {}]
Update(b, index, word) == [b EXCEPT ![index \div W] = word]
Word(b, index) == b[index \div W]
Bit(index) == {index % W}

Set(b, index) == Update(b, index, Word(b, index) \cup Bit(index))
ClearBit(b, index) == Update(b, index, Word(b, index) \ Bit(index))
Test(b, index) == Word(b, index) \cap Bit(index) # {}
FromIndex(index) == Set(Zero, index)

Not(b) == [i \in 0 .. L - 1 |-> (0 .. W - 1) \ b[i]]
And(b, c) == [i \in 0 .. L - 1 |-> b[i] \cap c[i]]
Or(b, c)  == [i \in 0 .. L - 1 |-> b[i] \cup c[i]]
Xor(b, c) == [i \in 0 .. L - 1 |-> (b[i] \ c[i]) \cup (c[i] \ b[i])]
Difference(b, c) == And(b, Not(c))

IsEmpty(b) == \A i \in 0 .. L - 1 : b[i] = {}

BadContains(b, c) == Or(b, c) = c   \* compared with the wrong operand

Contains(b, c) == Or(b, c) = b
ContainsNone(b, c) == IsEmpty(And(b, c))
ContainsSome(b, c) == ~IsEmpty(And(b, c))

-----------------------------------------------------------------------------
(* The loops over the words: whole words are counted up to and including   *)
(* the first that is not 0, from either end.                               *)
WordLeading(w)  == IF w = {} THEN W ELSE W - 1 - Max(w)
WordTrailing(w) == IF w = {} THEN W ELSE Min(w)

BadLeadingZeros(b) ==             \* no break
  MapThenSumSet(LAMBDA i : WordLeading(b[i]), 0 .. L - 1)

LeadingZeros(b) ==
  MapThenSumSet(LAMBDA i : WordLeading(b[i]),
                {i \in 0 .. L - 1 : \A j \in i + 1 .. L - 1 : b[j] = {}})

TrailingZeros(b) ==
  MapThenSumSet(LAMBDA i : WordTrailing(b[i]),
                {i \in 0 .. L - 1 : \A j \in 0 .. i - 1 : b[j] = {}})

CountOnes(b) == MapThenSumSet(LAMBDA i : Cardinality(b[i]), 0 .. L - 1)

-----------------------------------------------------------------------------
Init == bits = Zero /\ iter = NoIter /\ answer = <<"new">>

Iterating == iter # NoIter

Become(next, call) == bits' = next /\ answer' = call /\ UNCHANGED iter
Tell(call) == answer' = call /\ UNCHANGED <<bits, iter>>

(* The calls that change one bit, and the ones that start from no bits.    *)
ChangeBit(index) ==
  /\ ~Iterating
  /\ \/ Become(Set(bits, index), <<"set", index>>)
     \/ Become(ClearBit(bits, index), <<"clear", index>>)
     \/ Become(FromIndex(index), <<"from_index", index>>)

(* The operators, by value or assigning, and the methods named after them. *)
Combine(other) ==
  /\ ~Iterating
  /\ \/ Become(And(bits, BitsOf(other)), <<"and", other>>)
     \/ Become(Or(bits, BitsOf(other)), <<"or", other>>)
     \/ Become(Xor(bits, BitsOf(other)), <<"xor", other>>)
     \/ Become(Difference(bits, BitsOf(other)), <<"difference", other>>)

Negate == ~Iterating /\ Become(Not(bits), <<"not">>)

Ask(index) == Tell(<<"test", index, Test(bits, index)>>)

(* The first word is loaded when the iterator is made.                     *)
IterIndices ==
  /\ iter' = [slice_index |-> 0, current_bits |-> bits[0], slices |-> 1]
  /\ answer' = <<"iter_indices">>
  /\ UNCHANGED bits

(* wrapping_sub(1) of a word that is not 0.                                *)
MinusOne(w) == (w \ {Min(w)}) \cup 0 .. Min(w) - 1

(* Takes the lowest bit of the current word.                               *)
Yield(word, index) ==
  /\ iter' = [iter EXCEPT !.current_bits = word \cap MinusOne(word),
                          !.slice_index = index,
                          !.slices = @ + (index - iter.slice_index)]
  /\ answer' = <<"next", index * W + Min(word)>>

(* The words still to come that are not 0.                                 *)
NonZero == {i \in iter.slices .. L - 1 : bits[i] # {}}

BadNextIndex ==                   \* words that are skipped count as one
  /\ Iterating
  /\ UNCHANGED bits
  /\ \/ /\ iter.current_bits # {}
        /\ Yield(iter.current_bits, iter.slice_index)
     \/ /\ iter.current_bits = {} /\ NonZero # {}
        /\ Yield(bits[Min(NonZero)], iter.slice_index + 1)

NextIndex ==
  /\ Iterating
  /\ UNCHANGED bits
  /\ \/ /\ iter.current_bits # {}
        /\ Yield(iter.current_bits, iter.slice_index)
     \/ /\ iter.current_bits = {} /\ NonZero # {}
        /\ Yield(bits[Min(NonZero)],
                 iter.slice_index + (Min(NonZero) + 1 - iter.slices))

BadNoIndex ==                     \* slice_index counts the None as a word
  /\ Iterating
  /\ iter.current_bits = {} /\ NonZero = {}
  /\ iter' = [iter EXCEPT !.slice_index = @ + (L - iter.slices) + 1, !.slices = L]
  /\ answer' = <<"next">>
  /\ UNCHANGED bits

(* No word is left: next returns None, again and again.                    *)
NoIndex ==
  /\ Iterating
  /\ iter.current_bits = {} /\ NonZero = {}
  /\ iter' = [iter EXCEPT !.slice_index = @ + (L - iter.slices), !.slices = L]
  /\ answer' = <<"next">>
  /\ UNCHANGED bits

EndIteration ==
  /\ Iterating
  /\ iter' = NoIter /\ answer' = <<"end">>
  /\ UNCHANGED bits

Next ==
  \/ \E index \in 0 .. L * W - 1 : ChangeBit(index)
  \/ \E other \in Operands : Combine(other)
  \/ Negate
  \/ \E index \in 0 .. L * W - 1 : Ask(index)
  \/ IterIndices
  \/ NextIndex
  \/ NoIndex
  \/ EndIteration

Spec == Init /\ [][Next]_vars

=============================================================================
