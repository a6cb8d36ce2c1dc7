------------------------------ MODULE SparseMap ------------------------------
(***************************************************************************)
(* The sparse map, src/src/sparse_map.rs: dense items and keys behind a    *)
(* vector of indices.  An index is an optional number, and positions count *)
(* from 0 as in the code: the item at index i is items[i + 1].             *)
(*                                                                         *)
(* A call that panics is an outcome like any other: the caller may catch   *)
(* the panic and go on with the map the call left behind.                  *)
(***************************************************************************)
EXTENDS Naturals, Sequences

CONSTANTS
  UsizeMod,        \* 2^(bits of usize)
  InitialIndices,  \* how many indices a new map has (8 in the code)
  Keys,            \* the keys the client uses
  Items,           \* the items it stores
  MaxEntries,      \* bound: the most entries of keys
  DropPanics       \* may the destructor of an item panic?

ASSUME ConstantsAssumption ==
  /\ UsizeMod \in Nat /\ InitialIndices \in 1 .. UsizeMod - 1
  /\ Keys \subseteq 0 .. UsizeMod - 1
  /\ MaxEntries \in 0 .. UsizeMod - 1 /\ DropPanics \in BOOLEAN

VARIABLES
  items, keys, indices,  \* the fields of SparseMap
  stored,                \* what the client has stored: key to item
  removed,               \* the keys it removed since the map was last empty
  outcome,               \* the last call and how it ended
  careful,               \* has it left the keys it removed alone?
  intact                 \* did no clear panic and no resize lose indices?

fields == <<items, keys, indices>>
client == <<careful, intact>>
vars == <<fields, stored, removed, outcome, client>>

Free == <<>>
Used(i) == <<i>>

InBounds(key) == key < Len(indices)
Resolves(key) == InBounds(key) /\ indices[key + 1] # Free     \* contains_key
IndexOf(key)  == indices[key + 1][1]

(* What get, get_mut and Index::unwrap find: nothing, an item, or a      *)
(* panic because the index is beyond the end of items.                     *)
Lookup(key) ==
  CASE ~Resolves(key)              -> <<"none">>
    [] Resolves(key) /\ IndexOf(key) < Len(items)
                                   -> <<"some", items[IndexOf(key) + 1]>>
    [] OTHER                       -> <<"panic">>

(* Definitions named Bad... are mistakes the code does not make, used to   *)
(* show which property would notice them.                                  *)
BadResize(seq, n) ==              \* filled with a sentinel, not Free
  [i \in 1 .. n |-> IF i <= Len(seq) THEN seq[i] ELSE Used(UsizeMod)]

(* Vec::resize, here to a length in usize.                                 *)
Resize(seq, n) ==
  [i \in 1 .. n |-> IF i <= Len(seq) THEN seq[i] ELSE Free]

BadSwapRemove(seq, i) ==          \* remove, which shifts the rest down
  SubSeq(seq, 1, i) \o SubSeq(seq, i + 2, Len(seq))

(* Vec::swap_remove: the last element takes the place of the removed one.  *)
SwapRemove(seq, i) ==
  SubSeq([seq EXCEPT ![i + 1] = seq[Len(seq)]], 1, Len(seq) - 1)

StoreAt(map, key, item) ==
  [k \in DOMAIN map \cup {key} |-> IF k = key THEN item ELSE map[k]]
Without(map, key) == [k \in DOMAIN map \ {key} |-> map[k]]

Ended(op, key, how) == outcome' = [op |-> op, key |-> key, how |-> how]

Init ==
  /\ items = <<>> /\ keys = <<>>
  /\ indices = [i \in 1 .. InitialIndices |-> Free]
  /\ stored = <<>>
  /\ removed = {}
  /\ outcome = [op |-> "new", key |-> 0, how |-> "ok"]
  /\ careful = TRUE /\ intact = TRUE

-----------------------------------------------------------------------------
(* insert of a key that resolves, and a write through get_mut: the item at *)
(* the index is replaced, also if the destructor of the old one panics, or *)
(* the index is out of bounds and that panics.                             *)
InsertUsed(key, item) ==
  /\ Resolves(key)
  /\ UNCHANGED <<keys, indices, intact>>
  /\ IF IndexOf(key) < Len(items)
     THEN /\ items' = [items EXCEPT ![IndexOf(key) + 1] = item]
          /\ stored' = StoreAt(stored, key, item)
          /\ \/ Ended("insert", key, "ok")
             \/ DropPanics /\ Ended("insert", key, "panic")
     ELSE /\ UNCHANGED <<items, stored>>
          /\ Ended("insert", key, "panic")

BadAppendEntry(from, key, item) ==  \* the index is taken after the push
  /\ indices' = [from EXCEPT ![key + 1] = Used(Len(items) + 1)]
  /\ items' = Append(items, item)
  /\ keys' = Append(keys, key)
  /\ stored' = StoreAt(stored, key, item)

AppendEntry(from, key, item) ==
  /\ Len(keys) < MaxEntries
  /\ indices' = [from EXCEPT ![key + 1] = Used(Len(items))]
  /\ items' = Append(items, item)
  /\ keys' = Append(keys, key)
  /\ stored' = StoreAt(stored, key, item)

InsertFree(key, item) ==
  /\ InBounds(key) /\ indices[key + 1] = Free
  /\ AppendEntry(indices, key, item)
  /\ Ended("insert", key, "ok")
  /\ UNCHANGED intact

(* The indices are resized to key * 2 entries, which are too few when key  *)
(* is 0 or key * 2 overflows: then the indexing after it panics.           *)
InsertOutOfBounds(key, item) ==
  /\ ~InBounds(key)
  /\ LET resized == Resize(indices, (key * 2) % UsizeMod) IN
       /\ IF key < Len(resized)
          THEN AppendEntry(resized, key, item) /\ Ended("insert", key, "ok")
          ELSE /\ indices' = resized
               /\ UNCHANGED <<items, keys, stored>>
               /\ Ended("insert", key, "panic")
       /\ intact' = (intact /\ Len(indices) <= Len(resized))

Insert(key, item) ==
  /\ \/ InsertUsed(key, item)
     \/ InsertFree(key, item)
     \/ InsertOutOfBounds(key, item)
  /\ careful' = (careful /\ key \notin removed)
  /\ UNCHANGED removed

BadRelink(ks, i) == indices       \* the moved key keeps its old index

(* The indices after the last entry has moved to index i.                  *)
Relink(ks, i) == [indices EXCEPT ![ks[i + 1] + 1] = Used(i)]

(* remove of a key that resolves.  The item and the key are taken out,     *)
(* then the key moved into their place is given its new index; when the    *)
(* last entry was removed there is no such key, and the indexing panics.   *)
(* The index of the removed key is left as it was.                         *)
Remove(key) ==
  /\ Resolves(key)
  /\ IF IndexOf(key) < Len(items)
     THEN LET i  == IndexOf(key)
              ks == SwapRemove(keys, i)
              ok == i < Len(ks) /\ ks[i + 1] < Len(indices)
          IN  /\ items' = SwapRemove(items, i)
              /\ keys' = ks
              /\ indices' = IF ok THEN Relink(ks, i) ELSE indices
              /\ Ended("remove", key, IF ok THEN "ok" ELSE "panic")
     ELSE UNCHANGED fields /\ Ended("remove", key, "panic")
  /\ stored' = Without(stored, key)
  /\ removed' = removed \cup {key}
  /\ careful' = (careful /\ key \notin removed)
  /\ UNCHANGED intact

(* remove of a key that does not resolve returns None.                     *)
RemoveNone(key) ==
  /\ ~Resolves(key)
  /\ Ended("remove", key, "ok")
  /\ UNCHANGED <<fields, stored, removed, client>>

(* A destructor that panics in items.clear() leaves keys and indices.  The *)
(* map that clear returns is as good as new.                               *)
Clear ==
  /\ items' = <<>>
  /\ stored' = <<>>
  /\ \/ /\ keys' = <<>> /\ indices' = <<>>
        /\ removed' = {}
        /\ careful' = TRUE /\ intact' = TRUE
        /\ Ended("clear", 0, "ok")
     \/ /\ DropPanics /\ items # <<>>
        /\ removed' = removed \cup DOMAIN stored
        /\ intact' = FALSE
        /\ Ended("clear", 0, "panic")
        /\ UNCHANGED <<keys, indices, careful>>

Next ==
  \/ \E key \in Keys, item \in Items : Insert(key, item)
  \/ \E key \in Keys : Remove(key)
  \/ \E key \in Keys : RemoveNone(key)
  \/ Clear

Spec == Init /\ [][Next]_vars

=============================================================================
