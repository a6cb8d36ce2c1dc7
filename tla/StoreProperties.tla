--------------------------- MODULE StoreProperties ---------------------------
(***************************************************************************)
(* What Store must guarantee, and where it does not.                       *)
(***************************************************************************)
EXTENDS Store, FiniteSets

Slots == 0 .. Len(items) - 1
Indices == 0 .. Len(generations) - 1   \* more, after a clear that panicked

(* The slots that were recycled so often that their generation no longer   *)
(* fits into a key.                                                        *)
Exhausted == {i \in Slots : generations[i + 1] >= GenMod}

(* The variables keep their types, and every slot, in use or in the queue, *)
(* has a generation.                                                       *)
TypeOK ==
  /\ items \in Seq(Items)
  /\ generations \in Seq(Nat)
  /\ Len(items) <= Len(generations)
  /\ free_indices \in Seq(Indices)
  /\ issued \in Seq([index : 0 .. IndexMod - 1, generation : 0 .. GenMod - 1])
  /\ DOMAIN live \subseteq SetOf(issued)
  /\ lost \subseteq Slots

(* A key that was pushed and not removed finds the item last set under it, *)
(* however often its slot was recycled before it was exhausted.            *)
LiveKeysValid ==
  \A key \in DOMAIN live :
    key.index \notin Exhausted => Valid(key) /\ items[key.index + 1] = live[key]

(* A key that was removed is refused from then on, when its slot has been  *)
(* recycled and also when its slot is exhausted and keys repeat.           *)
StaleKeysRefused ==
  \A key \in SetOf(issued) \ DOMAIN live : ~Valid(key)

(* No two calls of push return the same key, unless its slot is exhausted. *)
KeysNeverReissued ==
  \A j, k \in DOMAIN issued :
    j # k /\ issued[j] = issued[k] => issued[k].index \in Exhausted

(* Every slot is free or held by a live key, or exhausted, unless a        *)
(* destructor that panics made push lose it; no two live keys hold one     *)
(* slot and no slot is in the queue of free slots twice or while it is     *)
(* held or lost: none is shared.  Slots that a clear left in the queue     *)
(* when it panicked leave it before there are slots again.                 *)
SlotsPartition ==
  LET held == {key.index : key \in DOMAIN live}
  IN  /\ Cardinality(SetOf(free_indices)) = Len(free_indices)
      /\ Cardinality(held) = Cardinality(DOMAIN live)
      /\ SetOf(free_indices) \cap (held \cup lost) = {}
      /\ held \cap lost = {}
      /\ items # <<>> => SetOf(free_indices) \cup held \cup lost \cup Exhausted = Slots

(* "generations[index] += 1" never overflows its u32: a slot whose         *)
(* generation has outgrown the key is never removed again.                 *)
GenerationBounded == \A i \in DOMAIN generations : generations[i] <= GenMod

-----------------------------------------------------------------------------
(* get finds the item that push returned the key for.                      *)
PushedKeyFound == \A key \in DOMAIN live : Valid(key)

(* Each freed index is waiting to be recycled once.                        *)
FreeIndicesDistinct ==
  Cardinality(SetOf(free_indices)) = Len(free_indices)

=============================================================================
