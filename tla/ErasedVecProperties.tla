------------------------- MODULE ErasedVecProperties -------------------------
(***************************************************************************)
(* What ErasedVec must guarantee, and where it does not.                   *)
(***************************************************************************)
EXTENDS ErasedVec, Sequences

Pointer == [at : Nat, val : Nat]

(* The variables keep their types, and as long as neither new nor a growth *)
(* made a block smaller than the capacity, every element has a cell.       *)
TypeOK ==
  /\ DOMAIN block = 0 .. Cardinality(DOMAIN block) - 1
  /\ \A i \in DOMAIN block : block[i] \in 0 .. pushed
  /\ len \in 0 .. UsizeMod - 1 /\ capacity \in 0 .. UsizeMod - 1
  /\ status \in {"live", "freed", "leaked"} \cup Undefined
  /\ faults \cap {"new", "grow"} = {} => len <= Cardinality(DOMAIN block)
  /\ held \subseteq Pointer
  /\ taken \cup destroyed \subseteq 0 .. pushed
  /\ faults \subseteq {"new", "none", "many", "grow", "clear"}

(* Whatever was pushed and popped and whichever destructor panicked:       *)
(* nothing is written outside the block unless the size of the block       *)
(* wrapped in new, a growth failed or push_many was asked to push nothing; *)
(* memory that was never written is used only after a push_many of more    *)
(* than one element; and an element that is gone only after that or a      *)
(* destructor that panicked in clear.                                      *)
StaysDefined ==
  /\ status = "overrun" => faults \cap {"new", "grow", "none"} # {}
  /\ status = "garbage" => "many" \in faults
  /\ status = "twice" => faults \cap {"many", "clear"} # {}

Inside == {CellAt(i) : i \in 0 .. len - 1}
Lendings == {CellAt(p.at) : p \in held}

(* Ownership: as long as nothing went wrong, each element is in the vector,*)
(* behind one pointer of the client, moved out or destroyed, in one of     *)
(* these places only; growth loses none, and when the vector is freed      *)
(* nothing is left in it.                                                  *)
OwnedOnce ==
  faults \subseteq {"new", "grow"} /\ status # "overrun" =>
    /\ Inside \cup Lendings \cup taken \cup destroyed = 1 .. pushed
    /\ len + Cardinality(held) + Cardinality(taken) + Cardinality(destroyed) = pushed
    /\ status = "freed" => taken \cup destroyed = 1 .. pushed

(* A pointer stays good: through any pop, swap_remove, clear and disposal, *)
(* and through pushes that do not reach its cell, the element is where it  *)
(* was when the client got it, whatever failed before.                     *)
PtrsStable ==
  \A p \in held : CellAt(p.at) = p.val

Last(s) == s[Len(s)]

(* pop and swap_remove lend what get showed: the last elements, or the one *)
(* at an index into whose place the last one moves.  The others stay.      *)
TakesWhatGetShows ==
  [][LET new == {p.val : p \in held' \ held}
     IN  new # {} /\ status' # "overrun" =>
           \/ /\ Slice' = SubSeq(Slice, 1, len')
              /\ new = {Slice[k] : k \in len' + 1 .. len}
           \/ \E index \in DOMAIN Slice :
                /\ new = {Slice[index]}
                /\ Slice' = SubSeq([Slice EXCEPT ![index] = Last(Slice)], 1, len - 1)]_vars

-----------------------------------------------------------------------------
(* "`ptr` is not used after this call" (clear, of the pointer it disposes  *)
(* of): when the vector is dropped, no destructor runs a second time, not  *)
(* even if the drop is the unwinding of a clear that panicked.             *)
DropDisposesOnce == [][DropVec => status' # "twice"]_vars

=============================================================================
