------------------------- MODULE SparseMapProperties -------------------------
(***************************************************************************)
(* What SparseMap must guarantee, and where it does not.                   *)
(***************************************************************************)
EXTENDS SparseMap, FiniteSets

(* The variables keep their types.                                         *)
TypeOK ==
  /\ items \in Seq(Items)
  /\ keys \in Seq(Keys)
  /\ indices \in Seq({Free} \cup {Used(i) : i \in 0 .. UsizeMod - 1})
  /\ DOMAIN stored \subseteq Keys
  /\ removed \subseteq Keys
  /\ outcome.how \in {"ok", "panic"}
  /\ careful \in BOOLEAN /\ intact \in BOOLEAN

(* Dense and sparse parts agree: the two dense vectors have one length and *)
(* every key in them resolves to its own position, after any calls, those  *)
(* with removed keys and removes that panic half way included.             *)
DenseConsistent ==
  intact =>
    /\ Len(items) = Len(keys)
    /\ \A i \in 1 .. Len(keys) :
         InBounds(keys[i]) /\ indices[keys[i] + 1] = Used(i - 1)

(* What was just inserted is found, whatever happened before: with stale   *)
(* aliases, after a panic in clear, after key * 2 overflowed.              *)
InsertThenGet ==
  outcome.op = "insert" /\ outcome.how = "ok"
    => Lookup(outcome.key) = <<"some", stored[outcome.key]>>

(* For a client that never comes back to a removed key: every stored key   *)
(* yields the item last stored under it, no matter how often swap_remove   *)
(* has moved it; and a key that was never stored is not found.             *)
LiveKeysFound ==
  intact /\ careful =>
    /\ \A key \in DOMAIN stored : Lookup(key) = <<"some", stored[key]>>
    /\ \A key \in Keys \ (DOMAIN stored \cup removed) : Lookup(key) = <<"none">>

(* For the same client, keys() and values() list exactly what is stored,   *)
(* position by position, each key once.                                    *)
SlicesListStored ==
  intact /\ careful =>
    /\ Len(keys) = Cardinality(DOMAIN stored)
    /\ \A i \in 1 .. Len(keys) :
         keys[i] \in DOMAIN stored /\ items[i] = stored[keys[i]]

-----------------------------------------------------------------------------
(* remove takes the key out: for a client that left the keys it removed    *)
(* before alone, remove of a stored key returns its item, whatever its     *)
(* position, and the key is not found any more.                            *)
RemovesKey ==
  careful /\ outcome.op = "remove"
    => outcome.how = "ok" /\ ~Resolves(outcome.key)

(* insert of a key that was never removed stores it, also after clear.     *)
InsertStores ==
  intact /\ careful /\ outcome.op = "insert" => outcome.how = "ok"

=============================================================================
