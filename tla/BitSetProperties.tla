-------------------------- MODULE BitSetProperties ---------------------------
(***************************************************************************)
(* What BitSet must guarantee.                                             *)
(***************************************************************************)
EXTENDS BitSet

Size == L * W
All == 0 .. Size - 1
set == Members(bits)

(* Every word has W bits, and the iterator is at a word that exists.       *)
TypeOK ==
  /\ bits \in BitSets
  /\ iter.current_bits \in Words
  /\ iter.slice_index \in 0 .. L - 1
  /\ iter.slices \in IF Iterating THEN {iter.slice_index + 1} ELSE {0}

(* The counts that walk over word boundaries are those of the whole set:   *)
(* also for the empty one, and when the first or last words are 0.         *)
CountsAgree ==
  /\ CountOnes(bits) = Cardinality(set)
  /\ IsEmpty(bits) <=> set = {}
  /\ LeadingZeros(bits) = IF set = {} THEN Size ELSE Size - 1 - Max(set)
  /\ TrailingZeros(bits) = IF set = {} THEN Size ELSE Min(set)

(* contains, contains_none and contains_some decide subset, disjoint and   *)
(* overlapping for every other bitset, the empty one included.             *)
RelationsAgree ==
  \A other \in BitSets :
    /\ Contains(bits, other) <=> Members(other) \subseteq set
    /\ ContainsNone(bits, other) <=> Members(other) \cap set = {}
    /\ ContainsSome(bits, other) <=> Members(other) \cap set # {}

(***************************************************************************)
(* Refinement: the words are a set of indices, and what the iterator has   *)
(* still to return is in its current word and in the slices after it.      *)
(***************************************************************************)
Ahead ==
  {index \in All :
     \/ index \div W >= iter.slices /\ index \in set
     \/ index \div W = iter.slice_index /\ index % W \in iter.current_bits}

Abstract == INSTANCE IndexSet WITH
              rest <- IF Iterating THEN Ahead ELSE {}

(* Every call changes the set and answers as if it were a set of indices,  *)
(* and next lists the set in ascending order, each index once, then None.  *)
ImplementsIndexSet == Abstract!Spec

=============================================================================
