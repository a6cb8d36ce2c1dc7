-------------------------------- MODULE Store --------------------------------
(***************************************************************************)
(* The generational store, src/src/store.rs.  A key packs an index and a   *)
(* generation into 32 bits, 22 and 10 of them; a slot's own generation is  *)
(* a full u32.  A removed item stays in its slot, under the next           *)
(* generation, until push reuses the slot.  Indices count from 0.          *)
(***************************************************************************)
EXTENDS Naturals, Sequences

CONSTANTS
  IndexMod,     \* 2^INDEX_BITS
  GenMod,       \* 2^(32 - INDEX_BITS)
  Items,        \* what the store holds
  PanicOnDrop,  \* the items whose destructor panics
  MaxPushes,    \* bound: how many keys push returns between two clears
  MaxSlots      \* bound: how many generations are kept

ASSUME ConstantsAssumption ==
  /\ IndexMod \in Nat \ {0} /\ GenMod \in Nat \ {0}
  /\ MaxPushes \in Nat /\ MaxSlots \in Nat
  /\ PanicOnDrop \subseteq Items

VARIABLES
  items, generations,  \* the fields of Store, an entry for every slot
  free_indices,        \* the queue of slots to reuse, oldest first
  issued,              \* every key push has returned, in order
  live,                \* what the client has stored: key to item
  lost                 \* the slots a push has dequeued without returning a key

vars == <<items, generations, free_indices, issued, live, lost>>

SetOf(s) == {s[k] : k \in DOMAIN s}

StoreAt(map, key, item) ==
  [k \in DOMAIN map \cup {key} |-> IF k = key THEN item ELSE map[k]]
Without(map, key) == [k \in DOMAIN map \ {key} |-> map[k]]

(* Definitions named Bad... are mistakes the code does not make, used to   *)
(* show which property would notice them.                                  *)
BadStoreKey(index, generation) == [index |-> index % IndexMod, generation |-> 0]

BadStoreKeyWide(index, generation) ==  \* the generation is not cut off
  [index |-> index % IndexMod, generation |-> generation]

(* StoreKey::new: the bits that do not fit are cut off.                    *)
StoreKey(index, generation) ==
  [index |-> index % IndexMod, generation |-> generation % GenMod]

(* The test of get, get_mut, set, remove and contains_key.  An index that  *)
(* has no generation panics: nothing changes then either.                  *)
Valid(key) ==
  /\ key.index < Len(generations)
  /\ generations[key.index + 1] = key.generation

Init ==
  /\ items = <<>> /\ generations = <<>> /\ free_indices = <<>>
  /\ issued = <<>> /\ live = <<>> /\ lost = {}

(* A free slot can be written to if it has an old item, and dropping that  *)
(* does not panic.                                                         *)
Reusable(index) == index < Len(items) /\ items[index + 1] \notin PanicOnDrop

(* push: into the slot that has been free longest, else into a new one,    *)
(* which has a generation already if a clear panicked before.              *)
Push(item) ==
  /\ Len(issued) < MaxPushes
  /\ IF free_indices # <<>> THEN Reusable(Head(free_indices))
     ELSE Len(generations) < MaxSlots
  /\ LET reuse == free_indices # <<>>
         index == IF reuse THEN Head(free_indices) ELSE Len(items)
         gens  == IF reuse THEN generations ELSE Append(generations, 0)
         key   == StoreKey(index, gens[index + 1])
     IN  /\ items' = IF reuse THEN [items EXCEPT ![index + 1] = item]
                     ELSE Append(items, item)
         /\ free_indices' = IF reuse THEN Tail(free_indices) ELSE <<>>
         /\ generations' = gens
         /\ issued' = Append(issued, key)
         /\ live' = StoreAt(live, key, item)
  /\ UNCHANGED lost

(* push into a free slot that panics: the slot has left the queue, and has *)
(* the new item if it was the old one's destructor, but nobody has a key.  *)
(* If there is no such slot any more it is the new item that is dropped.   *)
PushPanics(item) ==
  /\ free_indices # <<>>
  /\ ~Reusable(Head(free_indices))
  /\ free_indices' = Tail(free_indices)
  /\ IF Head(free_indices) < Len(items)
     THEN /\ items' = [items EXCEPT ![Head(free_indices) + 1] = item]
          /\ lost' = lost \cup {Head(free_indices)}
     ELSE /\ item \notin PanicOnDrop       \* a second panic aborts
          /\ UNCHANGED <<items, lost>>
  /\ UNCHANGED <<generations, issued, live>>

(* set, and a write through get_mut or iter_mut; the new item is in place  *)
(* even if dropping the old one panics.                                    *)
Set(key, item) ==
  /\ Valid(key) /\ key.index < Len(items)
  /\ items' = [items EXCEPT ![key.index + 1] = item]
  /\ live' = IF key \in DOMAIN live THEN StoreAt(live, key, item) ELSE live
  /\ UNCHANGED <<generations, free_indices, issued, lost>>

BadRemove(key) ==                 \* the generation stays
  /\ free_indices' = IF Valid(key) THEN Append(free_indices, key.index)
                     ELSE free_indices
  /\ live' = Without(live, key)
  /\ UNCHANGED <<items, generations, issued, lost>>

(* remove: a key that is not valid is ignored.                             *)
Remove(key) ==
  /\ IF Valid(key)
     THEN /\ generations' = [generations EXCEPT ![key.index + 1] = @ + 1]
          /\ free_indices' = Append(free_indices, key.index)
     ELSE UNCHANGED <<generations, free_indices>>
  /\ live' = Without(live, key)
  /\ UNCHANGED <<items, issued, lost>>

(* clear forgets all slots, and so all generations; the client goes on     *)
(* with these keys.  The items are dropped first: no destructor panics.    *)
Clear(keys) ==
  /\ SetOf(items) \cap PanicOnDrop = {}
  /\ items' = <<>> /\ generations' = <<>> /\ free_indices' = <<>>
  /\ live' = <<>> /\ issued' = keys /\ lost' = {}

(* If the destructor of one item panics the others are dropped, but the    *)
(* generations and the queue stay; if a second one panics that aborts.     *)
ClearPanics(keys) ==
  /\ \E i \in DOMAIN items :
       \A j \in DOMAIN items : items[j] \in PanicOnDrop <=> j = i
  /\ items' = <<>>
  /\ live' = <<>> /\ issued' = keys /\ lost' = {}
  /\ UNCHANGED <<generations, free_indices>>

(* The keys iter and iter_mut list: one for every slot, free or not.       *)
IterKeys == {StoreKey(i - 1, generations[i]) : i \in DOMAIN items}

(* A client that uses the keys push returned, removed ones included, but   *)
(* forgets them all when it clears the store.                              *)
Next ==
  \/ \E item \in Items : Push(item) \/ PushPanics(item)
  \/ \E key \in SetOf(issued), item \in Items : Set(key, item)
  \/ \E key \in SetOf(issued) : Remove(key)
  \/ Clear(<<>>) \/ ClearPanics(<<>>)

Spec == Init /\ [][Next]_vars

(* The same client, which also removes by the keys it iterates over.       *)
IterSpec == Init /\ [][Next \/ \E key \in IterKeys : Remove(key)]_vars

=============================================================================
