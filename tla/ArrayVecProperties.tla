------------------------- MODULE ArrayVecProperties --------------------------
(***************************************************************************)
(* What ArrayVec must guarantee.                                           *)
(***************************************************************************)
EXTENDS ArrayVec

SetOf(s) == {s[k] : k \in DOMAIN s}

(* The variables keep their types.                                         *)
TypeOK ==
  /\ data \in [0 .. N - 1 -> Nat]
  /\ len \in 0 .. N
  /\ status \in {"live", "gone", "aborted"}
  /\ pushed \in Nat
  /\ taken \in Seq(Nat) /\ destroyed \in Seq(Nat)
  /\ panicked \in BOOLEAN

(* Ownership: the vector holds exactly the values that were pushed and     *)
(* neither taken out nor destroyed, each in one slot, and nothing was      *)
(* taken or destroyed twice, whatever pop, swap_remove, clear, drop and    *)
(* panicking destructors came before.  "Setting self.len before calling    *)
(* drop_in_place" is what makes it so.                                     *)
OwnedOnce ==
  LET used == SetOf(taken \o destroyed)
  IN  /\ Cardinality(used) = Len(taken) + Len(destroyed)
      /\ SetOf(Slice) = 1 .. pushed \ used
      /\ Cardinality(SetOf(Slice)) = len

(* swap_remove and pop take out what get showed at that index, and leave   *)
(* every other value at its index, except the last one, which may move to  *)
(* the index that was taken.                                               *)
TakesWhatGetShows ==
  [][taken' # taken =>
       \E index \in DOMAIN Slice :
         /\ taken' = Append(taken, Slice[index])
         /\ \A k \in 1 .. len - 1 :
              Slice'[k] = IF k = index THEN Slice[len] ELSE Slice[k]]_vars

=============================================================================
