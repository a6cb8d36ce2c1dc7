--------------------------- MODULE SparseMapProofs ---------------------------
(***************************************************************************)
(* Theorems about SparseMap, for every width of usize, every first size of *)
(* the indices and any keys and items.                                     *)
(***************************************************************************)
EXTENDS SparseMapProperties, FiniteSetTheorems, FunctionTheorems, TLAPS

Index == {Free} \cup {Used(i) : i \in 0 .. UsizeMod - 1}

-----------------------------------------------------------------------------
(* Facts about the operators of the model.                                 *)

(* An index that is used is not free and says where the entry is.          *)
LEMMA UsedIndex ==
  /\ \A i : Used(i) # Free /\ Used(i)[1] = i
  /\ \A x \in Index : x # Free => x = Used(x[1]) /\ x[1] \in 0 .. UsizeMod - 1
BY DEF Used, Free, Index

(* Vec::resize keeps what fits, and what it adds is free.                  *)
LEMMA ResizeProperties ==
  ASSUME NEW seq \in Seq(Index), NEW n \in Nat
  PROVE  /\ Resize(seq, n) \in Seq(Index)
         /\ Len(Resize(seq, n)) = n
         /\ \A i \in 1 .. n :
              Resize(seq, n)[i] = IF i <= Len(seq) THEN seq[i] ELSE Free
<1>1. \A i \in 1 .. n : (IF i <= Len(seq) THEN seq[i] ELSE Free) \in Index
  BY DEF Index
<1> QED
  BY <1>1 DEF Resize

(* Vec::swap_remove shortens the vector by one; only the place of the      *)
(* removed element changes, and it gets the last one.                      *)
LEMMA SwapRemoveProperties ==
  ASSUME NEW S, NEW seq \in Seq(S), NEW i \in Nat, i < Len(seq)
  PROVE  /\ SwapRemove(seq, i) \in Seq(S)
         /\ Len(SwapRemove(seq, i)) = Len(seq) - 1
         /\ \A k \in 1 .. Len(seq) - 1 :
              SwapRemove(seq, i)[k] = IF k = i + 1 THEN seq[Len(seq)] ELSE seq[k]
<1> DEFINE swapped == [seq EXCEPT ![i + 1] = seq[Len(seq)]]
<1>1. i + 1 \in 1 .. Len(seq) /\ Len(seq) \in 1 .. Len(seq) /\ Len(seq) \in Nat
  OBVIOUS
<1>2. /\ swapped \in Seq(S) /\ Len(swapped) = Len(seq)
      /\ \A k \in 1 .. Len(seq) :
           swapped[k] = IF k = i + 1 THEN seq[Len(seq)] ELSE seq[k]
  BY <1>1
<1> HIDE DEF swapped
<1>3. /\ SubSeq(swapped, 1, Len(seq) - 1) \in Seq(S)
      /\ Len(SubSeq(swapped, 1, Len(seq) - 1)) = Len(seq) - 1
      /\ \A k \in 1 .. Len(seq) - 1 : SubSeq(swapped, 1, Len(seq) - 1)[k] = swapped[k]
  BY <1>1, <1>2
<1>4. SwapRemove(seq, i) = SubSeq(swapped, 1, Len(seq) - 1)
  BY DEF SwapRemove, swapped
<1> QED
  BY <1>1, <1>2, <1>3, <1>4

-----------------------------------------------------------------------------
(* Types.  An index is a usize because no vector outgrows the keys, which  *)
(* the items can only fall behind, when clear panics.                      *)
Sizes == Len(items) <= Len(keys) /\ Len(keys) <= MaxEntries

(* What the sizes and types give for the three vectors.                    *)
LEMMA Typed ==
  ASSUME TypeOK
  PROVE  /\ items \in Seq(Items) /\ keys \in Seq(Keys) /\ indices \in Seq(Index)
         /\ Len(items) \in Nat /\ Len(keys) \in Nat /\ Len(indices) \in Nat
BY DEF TypeOK, Index

(* Keys are numbers.                                                       *)
LEMMA KeyNat ==
  ASSUME NEW key \in Keys
  PROVE  key \in Nat /\ key < UsizeMod /\ (key * 2) % UsizeMod \in Nat
<1>1. key \in Nat /\ key < UsizeMod /\ UsizeMod \in Nat \ {0}
  BY ConstantsAssumption
<1>2. key * 2 \in Nat
  BY <1>1
<1>3. \A n \in Nat : n % UsizeMod \in Nat
  BY <1>1
<1> QED
  BY <1>1, <1>2, <1>3

(* The indices that insert is left with once it has resized them.          *)
LEMMA Resized ==
  ASSUME TypeOK, NEW key \in Keys
  PROVE  LET n == (key * 2) % UsizeMod
             resized == Resize(indices, n)
         IN  /\ resized \in Seq(Index) /\ Len(resized) = n /\ n \in Nat
             /\ \A i \in 1 .. n :
                  resized[i] = IF i <= Len(indices) THEN indices[i] ELSE Free
BY Typed, KeyNat, ResizeProperties

(* A key that resolves has an index.                                       *)
LEMMA ResolvedIndex ==
  ASSUME TypeOK, NEW key \in Keys, Resolves(key)
  PROVE  /\ key + 1 \in 1 .. Len(indices)
         /\ IndexOf(key) \in Nat
         /\ indices[key + 1] = Used(IndexOf(key))
<1>1. key + 1 \in 1 .. Len(indices)
  BY Typed, KeyNat DEF Resolves, InBounds
<1>2. indices[key + 1] \in Index /\ indices[key + 1] # Free
  BY <1>1, Typed DEF Resolves
<1>3. indices[key + 1] = Used(IndexOf(key)) /\ IndexOf(key) \in 0 .. UsizeMod - 1
  BY <1>2, UsedIndex DEF IndexOf
<1> QED
  BY <1>1, <1>3, ConstantsAssumption

(* What insert adds for a key whose index is free.                         *)
LEMMA AppendEffect ==
  ASSUME TypeOK, Sizes, NEW from \in Seq(Index), NEW key \in Keys, NEW item \in Items,
         key < Len(from), AppendEntry(from, key, item)
  PROVE  /\ items' \in Seq(Items) /\ keys' \in Seq(Keys) /\ indices' \in Seq(Index)
         /\ Len(items') = Len(items) + 1 /\ Len(keys') = Len(keys) + 1
         /\ Len(indices') = Len(from) /\ Sizes'
         /\ \A i \in 1 .. Len(items) : items'[i] = items[i]
         /\ \A i \in 1 .. Len(keys) : keys'[i] = keys[i]
         /\ items'[Len(items) + 1] = item /\ keys'[Len(keys) + 1] = key
         /\ indices'[key + 1] = Used(Len(items))
         /\ \A i \in 1 .. Len(from) : i # key + 1 => indices'[i] = from[i]
         /\ DOMAIN stored' = DOMAIN stored \cup {key}
         /\ stored'[key] = item
         /\ \A k \in DOMAIN stored \ {key} : stored'[k] = stored[k]
<1>1. /\ Len(keys) < MaxEntries
      /\ indices' = [from EXCEPT ![key + 1] = Used(Len(items))]
      /\ items' = Append(items, item) /\ keys' = Append(keys, key)
      /\ stored' = StoreAt(stored, key, item)
  BY DEF AppendEntry
<1>2. Len(items) \in 0 .. UsizeMod - 1 /\ key + 1 \in 1 .. Len(from)
  BY <1>1, Typed, KeyNat, ConstantsAssumption DEF Sizes
<1>3. Used(Len(items)) \in Index
  BY <1>2 DEF Index
<1>4. /\ indices' \in Seq(Index) /\ Len(indices') = Len(from)
      /\ indices'[key + 1] = Used(Len(items))
      /\ \A i \in 1 .. Len(from) : i # key + 1 => indices'[i] = from[i]
  BY <1>1, <1>2, <1>3
<1>5. /\ items' \in Seq(Items) /\ keys' \in Seq(Keys)
      /\ Len(items') = Len(items) + 1 /\ Len(keys') = Len(keys) + 1
      /\ \A i \in 1 .. Len(items) : items'[i] = items[i]
      /\ \A i \in 1 .. Len(keys) : keys'[i] = keys[i]
      /\ items'[Len(items) + 1] = item /\ keys'[Len(keys) + 1] = key
  BY <1>1, Typed
<1>6. Sizes'
  BY <1>1, <1>5, Typed, ConstantsAssumption DEF Sizes
<1>7. /\ DOMAIN stored' = DOMAIN stored \cup {key}
      /\ stored'[key] = item
      /\ \A k \in DOMAIN stored \ {key} : stored'[k] = stored[k]
  BY <1>1 DEF StoreAt
<1> QED
  BY <1>4, <1>5, <1>6, <1>7

(* What remove of a key that resolves does when its entry exists: the last *)
(* entry moves to the index, and if there is one its key is redirected.    *)
LEMMA RemoveEffect ==
  ASSUME TypeOK, Sizes, NEW key \in Keys, Remove(key), IndexOf(key) < Len(items)
  PROVE  LET i == IndexOf(key)
             moved == keys[Len(keys)]
         IN  /\ i \in Nat /\ i + 1 \in 1 .. Len(items) /\ moved \in Keys
             /\ items' \in Seq(Items) /\ keys' \in Seq(Keys) /\ indices' \in Seq(Index)
             /\ Len(items') = Len(items) - 1 /\ Len(keys') = Len(keys) - 1
             /\ Len(indices') = Len(indices) /\ Sizes'
             /\ \A k \in 1 .. Len(items) - 1 :
                  items'[k] = IF k = i + 1 THEN items[Len(items)] ELSE items[k]
             /\ \A k \in 1 .. Len(keys) - 1 :
                  keys'[k] = IF k = i + 1 THEN moved ELSE keys[k]
             /\ \A k \in 1 .. Len(indices) : k # moved + 1 => indices'[k] = indices[k]
             /\ i + 1 < Len(keys) /\ moved < Len(indices)
                  => indices'[moved + 1] = Used(i)
             /\ i + 1 = Len(keys) => indices' = indices
<1> DEFINE i == IndexOf(key)
           ks == SwapRemove(keys, i)
           moved == keys[Len(keys)]
           ok == i < Len(ks) /\ ks[i + 1] < Len(indices)
<1>1. i \in Nat /\ i + 1 \in 1 .. Len(items) /\ i < Len(keys)
  BY ResolvedIndex, Typed DEF Remove, Sizes
<1>2. /\ items' = SwapRemove(items, i) /\ keys' = ks
      /\ indices' = IF ok THEN Relink(ks, i) ELSE indices
  BY DEF Remove
<1> HIDE DEF i
<1>3. /\ items' \in Seq(Items) /\ Len(items') = Len(items) - 1
      /\ \A k \in 1 .. Len(items) - 1 :
           items'[k] = IF k = i + 1 THEN items[Len(items)] ELSE items[k]
  BY <1>1, <1>2, Typed, SwapRemoveProperties
<1>4. /\ ks \in Seq(Keys) /\ Len(ks) = Len(keys) - 1
      /\ \A k \in 1 .. Len(keys) - 1 : ks[k] = IF k = i + 1 THEN moved ELSE keys[k]
  BY <1>1, Typed, SwapRemoveProperties
<1> HIDE DEF ks
<1>5. moved \in Keys /\ moved \in Nat
  BY <1>1, Typed, KeyNat
<1> HIDE DEF moved
<1>6. Sizes' /\ i \in 0 .. UsizeMod - 1
  BY <1>1, <1>2, <1>3, <1>4, Typed, ConstantsAssumption DEF Sizes
<1>7. CASE ok
  <2>1. i + 1 \in 1 .. Len(keys) - 1 /\ ks[i + 1] = moved
    BY <1>1, <1>4, <1>7, Typed
  <2>2. indices' = [indices EXCEPT ![moved + 1] = Used(i)]
    BY <1>2, <1>7, <2>1 DEF Relink
  <2>3. moved + 1 \in 1 .. Len(indices) /\ Used(i) \in Index
    BY <1>5, <1>6, <1>7, <2>1, Typed DEF Index
  <2>4. /\ indices' \in Seq(Index) /\ Len(indices') = Len(indices)
        /\ indices'[moved + 1] = Used(i)
        /\ \A k \in 1 .. Len(indices) : k # moved + 1 => indices'[k] = indices[k]
    BY <2>2, <2>3, Typed
  <2>5. i + 1 # Len(keys)
    BY <1>4, <1>7, <2>1, Typed
  <2> HIDE DEF ok
  <2> QED
    BY <1>1, <1>2, <1>3, <1>4, <1>5, <1>6, <2>4, <2>5 DEF i, moved
<1>8. CASE ~ok
  <2>1. indices' = indices
    BY <1>2, <1>8
  <2>2. ~(i + 1 < Len(keys) /\ moved < Len(indices))
    BY <1>1, <1>4, <1>8, Typed
  <2> HIDE DEF ok
  <2> QED
    BY <1>1, <1>2, <1>3, <1>4, <1>5, <1>6, <2>1, <2>2, Typed DEF i, moved
<1> QED
  BY <1>7, <1>8

(* The sizes stay within their bounds.                                     *)
LEMMA SizesInvariant == Spec => [](TypeOK /\ Sizes)
<1>1. Init => TypeOK /\ Sizes
  <2> SUFFICES ASSUME Init PROVE TypeOK /\ Sizes
    OBVIOUS
  <2>1. indices \in Seq(Index)
    BY ConstantsAssumption DEF Init, Index
  <2>2. items = <<>> /\ keys = <<>>
    BY DEF Init
  <2> QED
    BY <2>1, <2>2, ConstantsAssumption DEF Init, TypeOK, Sizes, Index
<1>2. TypeOK /\ Sizes /\ [Next]_vars => (TypeOK /\ Sizes)'
  <2> SUFFICES ASSUME TypeOK, Sizes, [Next]_vars PROVE TypeOK' /\ Sizes'
    OBVIOUS
  <2>0. /\ items \in Seq(Items) /\ keys \in Seq(Keys) /\ indices \in Seq(Index)
        /\ DOMAIN stored \subseteq Keys /\ removed \subseteq Keys
        /\ outcome.how \in {"ok", "panic"}
        /\ careful \in BOOLEAN /\ intact \in BOOLEAN
        /\ Len(items) \in Nat /\ Len(keys) \in Nat /\ Len(indices) \in Nat
    BY Typed DEF TypeOK
  <2>1. ASSUME NEW key \in Keys, NEW item \in Items, Insert(key, item)
        PROVE  TypeOK' /\ Sizes'
    <3>1. careful' \in BOOLEAN /\ removed' \subseteq Keys
      BY <2>0, <2>1 DEF Insert
    <3>2. CASE InsertUsed(key, item)
      <4>1. /\ items' \in Seq(Items) /\ Len(items') = Len(items)
            /\ DOMAIN stored' \subseteq Keys /\ outcome'.how \in {"ok", "panic"}
        <5>1. CASE IndexOf(key) < Len(items)
          <6>1. IndexOf(key) + 1 \in 1 .. Len(items)
            BY <2>0, <3>2, <5>1, ResolvedIndex DEF InsertUsed
          <6>2. /\ items' = [items EXCEPT ![IndexOf(key) + 1] = item]
                /\ stored' = StoreAt(stored, key, item)
                /\ outcome'.how \in {"ok", "panic"}
            BY <3>2, <5>1 DEF InsertUsed, Ended
          <6> QED
            BY <2>0, <6>1, <6>2 DEF StoreAt
        <5>2. CASE ~(IndexOf(key) < Len(items))
          BY <2>0, <3>2, <5>2 DEF InsertUsed, Ended
        <5> QED
          BY <5>1, <5>2
      <4>2. keys' = keys /\ indices' = indices /\ intact' = intact
        BY <3>2 DEF InsertUsed
      <4> QED
        BY <2>0, <3>1, <4>1, <4>2 DEF TypeOK, Sizes, Index
    <3>3. CASE InsertFree(key, item)
      <4>1. /\ key < Len(indices) /\ AppendEntry(indices, key, item)
            /\ outcome'.how = "ok" /\ intact' = intact
        BY <3>3 DEF InsertFree, InBounds, Ended
      <4>2. /\ items' \in Seq(Items) /\ keys' \in Seq(Keys) /\ indices' \in Seq(Index)
            /\ Sizes' /\ DOMAIN stored' = DOMAIN stored \cup {key}
        BY <2>0, <4>1, AppendEffect
      <4> QED
        BY <2>0, <3>1, <4>1, <4>2 DEF TypeOK, Index
    <3>4. CASE InsertOutOfBounds(key, item)
      <4> DEFINE resized == Resize(indices, (key * 2) % UsizeMod)
      <4>1. resized \in Seq(Index) /\ Len(resized) \in Nat
        BY Resized
      <4>2. intact' \in BOOLEAN
        BY <2>0, <3>4 DEF InsertOutOfBounds
      <4>3. CASE key < Len(resized)
        <5>1. AppendEntry(resized, key, item) /\ outcome'.how = "ok"
          BY <3>4, <4>3 DEF InsertOutOfBounds, Ended
        <5> HIDE DEF resized
        <5>2. /\ items' \in Seq(Items) /\ keys' \in Seq(Keys) /\ indices' \in Seq(Index)
              /\ Sizes' /\ DOMAIN stored' = DOMAIN stored \cup {key}
          BY <4>1, <4>3, <5>1, AppendEffect
        <5> QED
          BY <2>0, <3>1, <4>2, <5>1, <5>2 DEF TypeOK, Index
      <4>4. CASE ~(key < Len(resized))
        <5>1. /\ indices' = resized /\ outcome'.how = "panic"
              /\ items' = items /\ keys' = keys /\ stored' = stored
          BY <3>4, <4>4 DEF InsertOutOfBounds, Ended
        <5> HIDE DEF resized
        <5> QED
          BY <2>0, <3>1, <4>1, <4>2, <5>1 DEF TypeOK, Sizes, Index
      <4> QED
        BY <4>3, <4>4
    <3> QED
      BY <2>1, <3>2, <3>3, <3>4 DEF Insert
  <2>2. ASSUME NEW key \in Keys, Remove(key) PROVE TypeOK' /\ Sizes'
    <3>1. /\ DOMAIN stored' \subseteq Keys /\ removed' \subseteq Keys
          /\ careful' \in BOOLEAN /\ intact' = intact /\ outcome'.how \in {"ok", "panic"}
      BY <2>0, <2>2 DEF Remove, Without, Ended
    <3>2. /\ items' \in Seq(Items) /\ keys' \in Seq(Keys) /\ indices' \in Seq(Index)
          /\ Sizes'
      <4>1. CASE IndexOf(key) < Len(items)
        BY <2>2, <4>1, RemoveEffect
      <4>2. CASE ~(IndexOf(key) < Len(items))
        BY <2>0, <2>2, <4>2 DEF Remove, fields, Sizes
      <4> QED
        BY <4>1, <4>2
    <3> QED
      BY <2>0, <3>1, <3>2 DEF TypeOK, Index
  <2>3. ASSUME NEW key \in Keys, RemoveNone(key) PROVE TypeOK' /\ Sizes'
    BY <2>3 DEF RemoveNone, fields, client, Ended, TypeOK, Sizes
  <2>4. CASE Clear
    <3>1. items' = <<>> /\ DOMAIN stored' = {} /\ Len(items') = 0
      BY <2>4 DEF Clear
    <3>2. /\ \/ keys' = <<>> /\ indices' = <<>>
             \/ keys' = keys /\ indices' = indices
          /\ removed' \subseteq Keys /\ careful' \in BOOLEAN /\ intact' \in BOOLEAN
          /\ outcome'.how \in {"ok", "panic"}
      <4>1. \/ /\ keys' = <<>> /\ indices' = <<>> /\ removed' = {}
               /\ careful' = TRUE /\ intact' = TRUE /\ Ended("clear", 0, "ok")
            \/ /\ keys' = keys /\ indices' = indices
               /\ removed' = removed \cup DOMAIN stored
               /\ careful' = careful /\ intact' = FALSE /\ Ended("clear", 0, "panic")
        BY <2>4 DEF Clear
      <4>2. outcome'.how \in {"ok", "panic"}
        BY <4>1 DEF Ended
      <4>3. removed' \subseteq Keys
        BY <2>0, <4>1
      <4>4. careful' \in BOOLEAN /\ intact' \in BOOLEAN
        BY <2>0, <4>1
      <4> QED
        BY <4>1, <4>2, <4>3, <4>4
    <3>3. /\ keys' \in Seq(Keys) /\ indices' \in Seq(Index) /\ Len(keys') \in Nat
          /\ Len(keys') <= MaxEntries
      <4>1. CASE keys' = <<>> /\ indices' = <<>>
        BY <4>1, ConstantsAssumption
      <4>2. CASE keys' = keys /\ indices' = indices
        BY <2>0, <4>2 DEF Sizes
      <4> QED
        BY <3>2, <4>1, <4>2
    <3> QED
      BY <3>1, <3>2, <3>3 DEF TypeOK, Sizes, Index
  <2>5. CASE UNCHANGED vars
    BY <2>5 DEF vars, fields, client, TypeOK, Sizes
  <2> QED
    BY <2>1, <2>2, <2>3, <2>4, <2>5 DEF Next
<1> QED
  BY <1>1, <1>2, PTL DEF Spec

(* The variables keep their types: no call stores an index that is not a   *)
(* usize, not even the ones that panic half way.                           *)
THEOREM TypeCorrect == Spec => []TypeOK
<1>1. TypeOK /\ Sizes => TypeOK
  OBVIOUS
<1> QED
  BY <1>1, SizesInvariant, PTL

-----------------------------------------------------------------------------
(* What else is needed about a client that leaves removed keys alone: the  *)
(* entries are exactly what it stored, and a key it never stored is free.  *)
StoredInv ==
  intact /\ careful =>
    /\ removed \cap DOMAIN stored = {}
    /\ \A key \in DOMAIN stored : \E i \in 1 .. Len(keys) : keys[i] = key
    /\ \A i \in 1 .. Len(keys) :
         keys[i] \in DOMAIN stored /\ items[i] = stored[keys[i]]
    /\ \A key \in Keys \ (DOMAIN stored \cup removed) : ~Resolves(key)

(* Every entry is found by its key, so that no two entries have one key.   *)
LEMMA DenseEntries ==
  ASSUME TypeOK, DenseConsistent, intact, NEW i \in 1 .. Len(keys)
  PROVE  /\ keys[i] \in Keys /\ keys[i] \in Nat
         /\ keys[i] + 1 \in 1 .. Len(indices)
         /\ indices[keys[i] + 1] = Used(i - 1)
         /\ Resolves(keys[i]) /\ IndexOf(keys[i]) = i - 1
         /\ \A k \in 1 .. Len(keys) : keys[k] = keys[i] => k = i
<1>1. keys[i] \in Keys /\ keys[i] \in Nat
  BY Typed, KeyNat
<1>2. InBounds(keys[i]) /\ indices[keys[i] + 1] = Used(i - 1)
  BY DEF DenseConsistent
<1>3. keys[i] + 1 \in 1 .. Len(indices)
  BY <1>1, <1>2, Typed DEF InBounds
<1>4. Resolves(keys[i]) /\ IndexOf(keys[i]) = i - 1
  BY <1>2, UsedIndex DEF Resolves, IndexOf
<1>5. ASSUME NEW k \in 1 .. Len(keys), keys[k] = keys[i] PROVE k = i
  <2>1. Used(k - 1) = Used(i - 1)
    BY <1>2, <1>5 DEF DenseConsistent
  <2>2. k - 1 = i - 1
    BY <2>1, UsedIndex
  <2> QED
    BY <2>2
<1> QED
  BY <1>1, <1>2, <1>3, <1>4, <1>5

(* insert of a key that has an entry.                                      *)
LEMMA InsertUsedInv ==
  ASSUME TypeOK, DenseConsistent, StoredInv,
         NEW key \in Keys, NEW item \in Items, Insert(key, item), InsertUsed(key, item)
  PROVE  DenseConsistent' /\ StoredInv'
<1> DEFINE p == IndexOf(key) + 1
<1>1. Resolves(key) /\ keys' = keys /\ indices' = indices /\ intact' = intact /\ removed' = removed
  BY DEF InsertUsed, Insert
<1>2. /\ p \in Nat /\ p >= 1 /\ key + 1 \in 1 .. Len(indices)
      /\ indices[key + 1] = Used(p - 1)
      /\ IndexOf(key) \in Nat
  BY <1>1, ResolvedIndex
<1>3. \/ /\ p \in 1 .. Len(items) /\ items' = [items EXCEPT ![p] = item]
         /\ stored' = StoreAt(stored, key, item)
      \/ /\ p > Len(items) /\ items' = items /\ stored' = stored
  BY <1>2, Typed DEF InsertUsed
<1> HIDE DEF p
<1>4. Len(items') = Len(items)
  BY <1>3, Typed
<1>5. DenseConsistent'
  BY <1>1, <1>4 DEF DenseConsistent, InBounds
<1>6. ASSUME intact', careful' PROVE StoredInv'
  <2>1. intact /\ careful /\ key \notin removed
    BY <1>1, <1>6 DEF Insert
  <2>2. key \in DOMAIN stored
    BY <1>1, <2>1 DEF StoredInv
  <2>3. PICK q \in 1 .. Len(keys) : keys[q] = key
    BY <2>1, <2>2 DEF StoredInv
  <2>4. q = p
    <3>1. Used(q - 1) = Used(p - 1)
      BY <1>2, <2>1, <2>3, DenseEntries
    <3>2. q - 1 = p - 1
      BY <3>1, UsedIndex
    <3> QED
      BY <1>2, <3>2
  <2>5. p \in 1 .. Len(items) /\ Len(items) = Len(keys)
    BY <2>1, <2>3, <2>4 DEF DenseConsistent
  <2>6. items' = [items EXCEPT ![p] = item] /\ stored' = StoreAt(stored, key, item)
    BY <1>3, <2>5, Typed
  <2>7. /\ items'[p] = item /\ \A k \in 1 .. Len(items) : k # p => items'[k] = items[k]
        /\ DOMAIN stored' = DOMAIN stored /\ stored'[key] = item
        /\ \A k \in DOMAIN stored : k # key => stored'[k] = stored[k]
    <3>1. items'[p] = item /\ \A k \in 1 .. Len(items) : k # p => items'[k] = items[k]
      BY <2>5, <2>6, Typed
    <3>2. DOMAIN stored \cup {key} = DOMAIN stored
      BY <2>2
    <3>3. stored' = [k \in DOMAIN stored |-> IF k = key THEN item ELSE stored[k]]
      BY <2>6, <3>2 DEF StoreAt
    <3> QED
      BY <2>2, <3>1, <3>3
  <2>8. \A k \in 1 .. Len(keys) : k # p => keys[k] # key
    BY <2>1, <2>3, <2>4, DenseEntries
  <2>9. \A k \in 1 .. Len(keys) : keys[k] \in DOMAIN stored /\ items'[k] = stored'[keys[k]]
    BY <2>1, <2>3, <2>4, <2>5, <2>7, <2>8 DEF StoredInv
  <2>10. \A k \in Keys : Resolves(k)' <=> Resolves(k)
    BY <1>1 DEF Resolves, InBounds
  <2> QED
    BY <1>1, <2>1, <2>7, <2>9, <2>10 DEF StoredInv
<1> QED
  BY <1>5, <1>6 DEF StoredInv

(* insert of a key that has none, into indices that kept what they held.   *)
LEMMA AppendInv ==
  ASSUME TypeOK, Sizes, DenseConsistent, StoredInv, intact,
         NEW key \in Keys, NEW item \in Items, NEW from \in Seq(Index),
         Len(indices) <= Len(from), key < Len(from), ~Resolves(key),
         \A k \in 1 .. Len(from) :
           from[k] = IF k <= Len(indices) THEN indices[k] ELSE Free,
         AppendEntry(from, key, item), removed' = removed,
         careful' = (careful /\ key \notin removed)
  PROVE  DenseConsistent' /\ StoredInv'
<1>1. /\ Len(items') = Len(items) + 1 /\ Len(keys') = Len(keys) + 1
      /\ Len(indices') = Len(from)
      /\ \A i \in 1 .. Len(items) : items'[i] = items[i]
      /\ \A i \in 1 .. Len(keys) : keys'[i] = keys[i]
      /\ items'[Len(items) + 1] = item /\ keys'[Len(keys) + 1] = key
      /\ indices'[key + 1] = Used(Len(items))
      /\ \A i \in 1 .. Len(from) : i # key + 1 => indices'[i] = from[i]
      /\ DOMAIN stored' = DOMAIN stored \cup {key}
      /\ stored'[key] = item
      /\ \A k \in DOMAIN stored \ {key} : stored'[k] = stored[k]
  BY AppendEffect
<1>2. Len(items) = Len(keys) /\ Len(keys) \in Nat /\ Len(indices) \in Nat /\ Len(from) \in Nat
  BY Typed DEF DenseConsistent
<1>3. \A i \in 1 .. Len(keys) : keys[i] # key
  BY DenseEntries
<1>4. \A i \in 1 .. Len(keys) + 1 : i \in 1 .. Len(keys) \/ i = Len(keys) + 1
  BY <1>2
<1>5. key \in Nat /\ \A k \in Keys : k \in Nat
  BY KeyNat
<1>6. \A i \in 1 .. Len(keys) :
        keys[i] < Len(indices') /\ indices'[keys[i] + 1] = Used(i - 1)
  <2> SUFFICES ASSUME NEW i \in 1 .. Len(keys)
               PROVE  keys[i] < Len(indices') /\ indices'[keys[i] + 1] = Used(i - 1)
    OBVIOUS
  <2>1. /\ keys[i] \in Nat /\ keys[i] + 1 \in 1 .. Len(indices)
        /\ indices[keys[i] + 1] = Used(i - 1)
    BY DenseEntries
  <2>2. keys[i] + 1 \in 1 .. Len(from) /\ keys[i] + 1 # key + 1
    BY <1>2, <1>3, <1>5, <2>1
  <2> QED
    BY <1>1, <1>2, <2>1, <2>2
<1>7. key < Len(indices') /\ indices'[key + 1] = Used((Len(keys) + 1) - 1)
  BY <1>1, <1>2
<1>8. DenseConsistent'
  <2>1. ASSUME NEW i \in 1 .. Len(keys')
        PROVE  keys'[i] < Len(indices') /\ indices'[keys'[i] + 1] = Used(i - 1)
    BY <1>1, <1>4, <1>6, <1>7
  <2> QED
    BY <1>1, <1>2, <2>1 DEF DenseConsistent, InBounds
<1>9. ASSUME careful' PROVE StoredInv'
  <2>1. careful /\ key \notin removed
    BY <1>9
  <2>2. removed' \cap DOMAIN stored' = {}
    BY <1>1, <2>1 DEF StoredInv
  <2>3. \A k \in DOMAIN stored' : \E i \in 1 .. Len(keys') : keys'[i] = k
    <3>1. Len(keys) + 1 \in 1 .. Len(keys')
      BY <1>1, <1>2
    <3>2. ASSUME NEW k \in DOMAIN stored PROVE \E i \in 1 .. Len(keys') : keys'[i] = k
      <4>1. PICK i \in 1 .. Len(keys) : keys[i] = k
        BY <2>1 DEF StoredInv
      <4>2. i \in 1 .. Len(keys') /\ keys'[i] = k
        BY <1>1, <1>2, <4>1
      <4> QED
        BY <4>2
    <3> QED
      BY <1>1, <3>1, <3>2
  <2>4. ASSUME NEW i \in 1 .. Len(keys')
        PROVE  keys'[i] \in DOMAIN stored' /\ items'[i] = stored'[keys'[i]]
    <3>1. CASE i = Len(keys) + 1
      BY <1>1, <1>2, <3>1
    <3>2. CASE i \in 1 .. Len(keys)
      BY <1>1, <1>2, <1>3, <2>1, <3>2 DEF StoredInv
    <3> QED
      BY <1>1, <1>4, <3>1, <3>2
  <2>5. ASSUME NEW k \in Keys \ (DOMAIN stored' \cup removed') PROVE ~Resolves(k)'
    <3>1. k # key /\ ~Resolves(k) /\ k \in Nat /\ key \in Nat
      BY <1>1, <1>5, <2>1, <2>5 DEF StoredInv
    <3>2. CASE k < Len(indices')
      <4>1. k + 1 \in 1 .. Len(from) /\ k + 1 # key + 1
        BY <1>1, <1>2, <3>1, <3>2
      <4>2. from[k + 1] = Free
        BY <1>2, <3>1, <4>1 DEF Resolves, InBounds
      <4> QED
        BY <1>1, <4>1, <4>2 DEF Resolves
    <3>3. CASE ~(k < Len(indices'))
      BY <3>3 DEF Resolves, InBounds
    <3> QED
      BY <3>2, <3>3
  <2> QED
    BY <2>2, <2>3, <2>4, <2>5 DEF StoredInv
<1> QED
  BY <1>8, <1>9 DEF StoredInv

(* insert keeps the dense vectors consistent, in both its cases.           *)
LEMMA InsertInv ==
  ASSUME TypeOK, Sizes, DenseConsistent, StoredInv,
         NEW key \in Keys, NEW item \in Items, Insert(key, item)
  PROVE  DenseConsistent' /\ StoredInv'
<1>1. removed' = removed /\ careful' = (careful /\ key \notin removed)
  BY DEF Insert
<1>2. CASE ~intact'
  BY <1>2 DEF DenseConsistent, StoredInv
<1>3. CASE intact' /\ InsertFree(key, item)
  <2>1. /\ intact /\ ~Resolves(key) /\ AppendEntry(indices, key, item)
        /\ key < Len(indices)
    BY <1>3 DEF InsertFree, InBounds, Resolves
  <2>2. /\ indices \in Seq(Index) /\ Len(indices) <= Len(indices)
        /\ \A k \in 1 .. Len(indices) :
             indices[k] = IF k <= Len(indices) THEN indices[k] ELSE Free
    BY Typed
  <2> QED
    BY <1>1, <2>1, <2>2, AppendInv
<1>4. CASE intact' /\ InsertOutOfBounds(key, item)
  <2> DEFINE resized == Resize(indices, (key * 2) % UsizeMod)
  <2>1. /\ intact /\ Len(indices) <= Len(resized) /\ ~InBounds(key)
    BY <1>4 DEF InsertOutOfBounds
  <2>2. /\ resized \in Seq(Index)
        /\ \A k \in 1 .. Len(resized) :
             resized[k] = IF k <= Len(indices) THEN indices[k] ELSE Free
    BY Resized
  <2>3. ~Resolves(key)
    BY <2>1 DEF Resolves
  <2>4. \/ key < Len(resized) /\ AppendEntry(resized, key, item)
        \/ /\ indices' = resized /\ items' = items /\ keys' = keys /\ stored' = stored
    BY <1>4 DEF InsertOutOfBounds
  <2> HIDE DEF resized
  <2>5. CASE key < Len(resized) /\ AppendEntry(resized, key, item)
    BY <1>1, <2>1, <2>2, <2>3, <2>5, AppendInv
  <2>6. CASE indices' = resized /\ items' = items /\ keys' = keys /\ stored' = stored
    <3>1. ASSUME NEW k \in Keys, k < Len(indices)
          PROVE  k < Len(indices') /\ indices'[k + 1] = indices[k + 1]
      <4>1. k + 1 \in 1 .. Len(resized) /\ k + 1 <= Len(indices)
        BY <2>1, <2>2, <3>1, KeyNat, Typed
      <4> QED
        BY <2>2, <2>6, <4>1, KeyNat, Typed
    <3>2. \A i \in 1 .. Len(keys) : keys[i] \in Keys
      BY Typed
    <3>3. DenseConsistent'
      BY <2>1, <2>6, <3>1, <3>2 DEF DenseConsistent, InBounds
    <3>4. ASSUME NEW k \in Keys, ~Resolves(k) PROVE ~Resolves(k)'
      <4>1. CASE k < Len(indices)
        BY <3>1, <3>4, <4>1 DEF Resolves, InBounds
      <4>2. CASE ~(k < Len(indices)) /\ k < Len(indices')
        <5>1. k + 1 \in 1 .. Len(resized) /\ ~(k + 1 <= Len(indices))
          BY <2>2, <2>6, <4>2, KeyNat, Typed
        <5> QED
          BY <2>2, <2>6, <5>1 DEF Resolves
      <4>3. CASE ~(k < Len(indices'))
        BY <4>3 DEF Resolves, InBounds
      <4> QED
        BY <4>1, <4>2, <4>3
    <3>5. StoredInv'
      BY <1>1, <2>1, <2>6, <3>4 DEF StoredInv
    <3> QED
      BY <3>3, <3>5
  <2> QED
    BY <2>4, <2>5, <2>6
<1> QED
  BY <1>2, <1>3, <1>4, InsertUsedInv DEF Insert

(* A careful client only removes keys that are stored, and those have an   *)
(* entry at their index.                                                   *)
LEMMA RemovedEntry ==
  ASSUME TypeOK, DenseConsistent, StoredInv, intact, careful,
         NEW key \in Keys, key \notin removed, Resolves(key)
  PROVE  /\ key \in DOMAIN stored
         /\ IndexOf(key) + 1 \in 1 .. Len(keys)
         /\ keys[IndexOf(key) + 1] = key
         /\ IndexOf(key) < Len(items)
<1>1. key \in DOMAIN stored
  BY DEF StoredInv
<1>2. PICK q \in 1 .. Len(keys) : keys[q] = key
  BY <1>1 DEF StoredInv
<1>3. IndexOf(key) = q - 1
  BY <1>2, DenseEntries
<1> QED
  BY <1>1, <1>2, <1>3, Typed DEF DenseConsistent

(* So does remove, which moves the last entry into the hole.               *)
LEMMA RemoveInv ==
  ASSUME TypeOK, Sizes, DenseConsistent, StoredInv, NEW key \in Keys, Remove(key)
  PROVE  DenseConsistent' /\ StoredInv'
<1> DEFINE i == IndexOf(key)
           n == Len(keys)
           moved == keys[n]
<1>1. /\ Resolves(key) /\ intact' = intact /\ stored' = Without(stored, key)
      /\ removed' = removed \cup {key} /\ careful' = (careful /\ key \notin removed)
  BY DEF Remove
<1>2. CASE ~intact
  BY <1>1, <1>2 DEF DenseConsistent, StoredInv
<1>3. CASE intact /\ ~(i < Len(items))
  <2>1. items' = items /\ keys' = keys /\ indices' = indices
    BY <1>3 DEF Remove, fields
  <2>2. DenseConsistent'
    BY <1>1, <2>1 DEF DenseConsistent, InBounds
  <2>3. ~careful'
    BY <1>1, <1>3, RemovedEntry
  <2> QED
    BY <2>2, <2>3 DEF StoredInv
<1>4. CASE intact /\ i < Len(items)
  <2>1. n = Len(items) /\ n \in Nat /\ Len(indices) \in Nat
    BY <1>4, Typed DEF DenseConsistent
  <2>2. /\ i \in Nat /\ i + 1 \in 1 .. n
        /\ Len(items') = n - 1 /\ Len(keys') = n - 1
        /\ Len(indices') = Len(indices)
        /\ \A k \in 1 .. n - 1 :
             items'[k] = IF k = i + 1 THEN items[n] ELSE items[k]
        /\ \A k \in 1 .. n - 1 :
             keys'[k] = IF k = i + 1 THEN moved ELSE keys[k]
        /\ \A k \in 1 .. Len(indices) : k # moved + 1 => indices'[k] = indices[k]
        /\ i + 1 < n /\ moved < Len(indices) => indices'[moved + 1] = Used(i)
        /\ i + 1 = n => indices' = indices
    BY <1>4, <2>1, RemoveEffect
  <2> HIDE DEF i
  <2>3. n \in 1 .. n /\ \A k \in 1 .. n - 1 : k \in 1 .. n /\ k # n
    BY <2>1, <2>2
  <2>4. /\ moved \in Nat /\ moved < Len(indices)
        /\ \A k \in 1 .. n - 1 : keys[k] # moved
    BY <1>4, <2>1, <2>3, DenseEntries
  <2>5. \A k \in 1 .. n : /\ keys[k] \in Nat /\ keys[k] + 1 \in 1 .. Len(indices)
                          /\ keys[k] < Len(indices)
                          /\ indices[keys[k] + 1] = Used(k - 1)
    BY <1>4, <2>1, DenseEntries
  <2> HIDE DEF moved, n
  <2>6. ASSUME NEW k \in 1 .. n - 1
        PROVE  keys'[k] < Len(indices') /\ indices'[keys'[k] + 1] = Used(k - 1)
    <3>1. CASE k = i + 1
      BY <2>1, <2>2, <2>4, <3>1
    <3>2. CASE k # i + 1
      <4>1. keys'[k] = keys[k] /\ keys[k] + 1 # moved + 1
        BY <2>2, <2>3, <2>4, <2>5, <3>2
      <4> QED
        BY <2>2, <2>3, <2>5, <4>1
    <3> QED
      BY <3>1, <3>2
  <2>7. DenseConsistent'
    BY <2>2, <2>6 DEF DenseConsistent, InBounds
  <2>8. ASSUME careful' PROVE StoredInv'
    <3>1. /\ careful /\ key \notin removed /\ key \in DOMAIN stored
          /\ keys[i + 1] = key
      BY <1>1, <1>4, <2>8, RemovedEntry DEF i
    <3>2. DOMAIN stored' = DOMAIN stored \ {key} /\ \A k \in DOMAIN stored' : stored'[k] = stored[k]
      BY <1>1 DEF Without
    <3>3. \A k \in 1 .. n : k # i + 1 => keys[k] # key
      BY <1>4, <2>2, <3>1, DenseEntries DEF n
    <3>4. \A k \in DOMAIN stored : \E q \in 1 .. n : keys[q] = k
      BY <1>4, <3>1 DEF StoredInv, n
    <3>5. \A k \in 1 .. n : keys[k] \in DOMAIN stored /\ items[k] = stored[keys[k]]
      BY <1>4, <3>1 DEF StoredInv, n
    <3>6. removed' \cap DOMAIN stored' = {}
      BY <1>1, <1>4, <3>1, <3>2 DEF StoredInv
    <3>7. ASSUME NEW k \in DOMAIN stored' PROVE \E q \in 1 .. Len(keys') : keys'[q] = k
      <4>1. PICK q \in 1 .. n : keys[q] = k
        BY <3>2, <3>4
      <4>2. q # i + 1
        BY <3>1, <3>2, <4>1
      <4>3. CASE q = n
        <5>1. i + 1 \in 1 .. n - 1
          BY <2>1, <2>2, <4>2, <4>3
        <5>2. keys'[i + 1] = k
          BY <2>2, <4>1, <4>3, <5>1 DEF moved
        <5> QED
          BY <2>2, <5>1, <5>2
      <4>4. CASE q # n
        <5>1. q \in 1 .. n - 1
          BY <2>1, <4>4
        <5> QED
          BY <2>2, <4>1, <4>2, <5>1
      <4> QED
        BY <4>3, <4>4
    <3>8. ASSUME NEW k \in 1 .. n - 1
          PROVE  keys'[k] \in DOMAIN stored' /\ items'[k] = stored'[keys'[k]]
      <4>1. CASE k = i + 1
        <5>1. keys'[k] = keys[n] /\ items'[k] = items[n] /\ n # i + 1
          BY <2>2, <2>3, <4>1 DEF moved
        <5> QED
          BY <2>3, <3>2, <3>3, <3>5, <5>1
      <4>2. CASE k # i + 1
        BY <2>2, <2>3, <3>2, <3>3, <3>5, <4>2
      <4> QED
        BY <4>1, <4>2
    <3>9. ASSUME NEW k \in Keys \ (DOMAIN stored' \cup removed') PROVE ~Resolves(k)'
      <4>1. ~Resolves(k) /\ k \in Nat /\ k \notin DOMAIN stored
        BY <1>1, <1>4, <3>1, <3>2, <3>9, KeyNat DEF StoredInv
      <4>2. k # moved
        BY <2>3, <3>5, <4>1 DEF moved
      <4>3. CASE k < Len(indices)
        <5>1. k + 1 \in 1 .. Len(indices) /\ k + 1 # moved + 1
          BY <2>1, <2>4, <4>1, <4>2, <4>3
        <5> QED
          BY <2>2, <4>1, <4>3, <5>1 DEF Resolves, InBounds
      <4>4. CASE ~(k < Len(indices))
        BY <2>2, <4>4 DEF Resolves, InBounds
      <4> QED
        BY <4>3, <4>4
    <3> QED
      BY <2>2, <3>6, <3>7, <3>8, <3>9 DEF StoredInv
  <2> QED
    BY <2>7, <2>8 DEF StoredInv
<1> QED
  BY <1>2, <1>3, <1>4

(* clear leaves the three vectors empty.                                   *)
LEMMA ClearInv ==
  ASSUME Clear
  PROVE  DenseConsistent' /\ StoredInv'
<1>1. items' = <<>> /\ stored' = <<>> /\ (~intact' \/ (keys' = <<>> /\ indices' = <<>> /\ removed' = {}))
  BY DEF Clear
<1>2. CASE ~intact'
  BY <1>2 DEF DenseConsistent, StoredInv
<1>3. CASE keys' = <<>> /\ indices' = <<>> /\ removed' = {}
  <2>1. Len(keys') = 0 /\ Len(indices') = 0 /\ Len(items') = 0 /\ DOMAIN stored' = {}
    BY <1>1, <1>3
  <2>2. \A k \in Keys : ~(k < 0)
    BY KeyNat
  <2> QED
    BY <1>3, <2>1, <2>2 DEF DenseConsistent, StoredInv, Resolves, InBounds
<1> QED
  BY <1>1, <1>2, <1>3

(* The strengthened invariant holds in every state.                        *)
LEMMA DenseInvariant == Spec => [](TypeOK /\ Sizes /\ DenseConsistent /\ StoredInv)
<1>1. Init => DenseConsistent /\ StoredInv
  <2> SUFFICES ASSUME Init PROVE DenseConsistent /\ StoredInv
    OBVIOUS
  <2>1. /\ items = <<>> /\ keys = <<>> /\ DOMAIN stored = {} /\ removed = {}
        /\ indices = [i \in 1 .. InitialIndices |-> Free]
        /\ Len(items) = 0 /\ Len(keys) = 0
    BY DEF Init
  <2>2. ASSUME NEW key \in Keys PROVE ~Resolves(key)
    <3>1. Len(indices) = InitialIndices /\ InitialIndices \in Nat /\ key \in Nat
      BY <2>1, KeyNat, ConstantsAssumption
    <3>2. CASE key < Len(indices)
      <4>1. key + 1 \in 1 .. InitialIndices
        BY <3>1, <3>2
      <4> QED
        BY <2>1, <4>1 DEF Resolves
    <3>3. CASE ~(key < Len(indices))
      BY <3>3 DEF Resolves, InBounds
    <3> QED
      BY <3>2, <3>3
  <2> QED
    BY <2>1, <2>2 DEF DenseConsistent, StoredInv
<1>2. TypeOK /\ Sizes /\ DenseConsistent /\ StoredInv /\ [Next]_vars
        => DenseConsistent' /\ StoredInv'
  <2> SUFFICES ASSUME TypeOK, Sizes, DenseConsistent, StoredInv, [Next]_vars
               PROVE  DenseConsistent' /\ StoredInv'
    OBVIOUS
  <2>1. ASSUME NEW key \in Keys, NEW item \in Items, Insert(key, item)
        PROVE  DenseConsistent' /\ StoredInv'
    BY <2>1, InsertInv
  <2>2. ASSUME NEW key \in Keys, Remove(key) PROVE DenseConsistent' /\ StoredInv'
    BY <2>2, RemoveInv
  <2>3. CASE Clear
    BY <2>3, ClearInv
  <2>4. ASSUME UNCHANGED <<fields, stored, removed, client>>
        PROVE  DenseConsistent' /\ StoredInv'
    BY <2>4 DEF fields, client, DenseConsistent, StoredInv, InBounds, Resolves
  <2> QED
    BY <2>1, <2>2, <2>3, <2>4 DEF Next, RemoveNone, vars
<1> QED
  BY <1>1, <1>2, SizesInvariant, PTL DEF Spec

-----------------------------------------------------------------------------
(* Dense and sparse parts agree after any calls: two items never share an  *)
(* index, and every key resolves to its own entry, for stale aliases and   *)
(* for removes that panic half way too (remove, src/src/sparse_map.rs).    *)
THEOREM DensePartsAgree == Spec => []DenseConsistent
BY DenseInvariant, PTL

(* A lookup of a stored key reaches its entry.                             *)
LEMMA LookupEntry ==
  ASSUME TypeOK, DenseConsistent, intact, NEW i \in 1 .. Len(keys)
  PROVE  Lookup(keys[i]) = <<"some", items[i]>>
<1>1. Resolves(keys[i]) /\ IndexOf(keys[i]) = i - 1
  BY DenseEntries
<1>2. i - 1 < Len(items) /\ (i - 1) + 1 = i
  BY Typed DEF DenseConsistent
<1> QED
  BY <1>1, <1>2 DEF Lookup

(* For a client that never comes back to a removed key, get finds exactly  *)
(* what insert stored, however often swap_remove has moved it.             *)
THEOREM StoredKeysFound == Spec => []LiveKeysFound
<1>1. TypeOK /\ DenseConsistent /\ StoredInv => LiveKeysFound
  <2> SUFFICES ASSUME TypeOK, DenseConsistent, StoredInv, intact, careful
               PROVE  /\ \A key \in DOMAIN stored : Lookup(key) = <<"some", stored[key]>>
                      /\ \A key \in Keys \ (DOMAIN stored \cup removed) :
                           Lookup(key) = <<"none">>
    BY DEF LiveKeysFound
  <2>1. ASSUME NEW key \in DOMAIN stored PROVE Lookup(key) = <<"some", stored[key]>>
    <3>1. PICK i \in 1 .. Len(keys) : keys[i] = key
      BY DEF StoredInv
    <3>2. items[i] = stored[key]
      BY <3>1 DEF StoredInv
    <3> QED
      BY <3>1, <3>2, LookupEntry
  <2>2. \A key \in Keys \ (DOMAIN stored \cup removed) : Lookup(key) = <<"none">>
    BY DEF StoredInv, Lookup
  <2> QED
    BY <2>1, <2>2
<1> QED
  BY <1>1, DenseInvariant, PTL

(* For the same client, the slices list exactly what is stored, each key   *)
(* once: keys is a bijection from positions to stored keys.                *)
THEOREM SlicesMatchStored == Spec => []SlicesListStored
<1>1. TypeOK /\ DenseConsistent /\ StoredInv => SlicesListStored
  <2> SUFFICES ASSUME TypeOK, DenseConsistent, StoredInv, intact, careful
               PROVE  /\ Len(keys) = Cardinality(DOMAIN stored)
                      /\ \A i \in 1 .. Len(keys) :
                           keys[i] \in DOMAIN stored /\ items[i] = stored[keys[i]]
    BY DEF SlicesListStored
  <2>1. \A i \in 1 .. Len(keys) :
          keys[i] \in DOMAIN stored /\ items[i] = stored[keys[i]]
    BY DEF StoredInv
  <2>2. keys \in [1 .. Len(keys) -> DOMAIN stored] /\ Len(keys) \in Nat
    BY <2>1, Typed
  <2>3. /\ \A i, k \in 1 .. Len(keys) : keys[i] = keys[k] => i = k
        /\ \A key \in DOMAIN stored : \E i \in 1 .. Len(keys) : keys[i] = key
    BY DenseEntries DEF StoredInv
  <2>4. keys \in Bijection(1 .. Len(keys), DOMAIN stored)
    BY <2>2, <2>3, Fun_IsBij
  <2>5. IsFiniteSet(1 .. Len(keys)) /\ Cardinality(1 .. Len(keys)) = Len(keys)
    <3>1. /\ 1 \in Int /\ Len(keys) \in Int
          /\ Len(keys) = IF 1 > Len(keys) THEN 0 ELSE (Len(keys) - 1) + 1
      BY <2>2
    <3> HIDE <2>1, <2>2, <2>3, <2>4
    <3> QED
      BY <3>1, FS_Interval
  <2>6. Len(keys) = Cardinality(DOMAIN stored)
    BY <2>4, <2>5, FS_Bijection DEF ExistsBijection
  <2> QED
    BY <2>1, <2>6
<1> QED
  BY <1>1, DenseInvariant, PTL

-----------------------------------------------------------------------------
(* A key that was just appended is found.                                  *)
LEMMA AppendedFound ==
  ASSUME TypeOK, Sizes, NEW from \in Seq(Index), NEW key \in Keys, NEW item \in Items,
         key < Len(from), AppendEntry(from, key, item)
  PROVE  Lookup(key)' = <<"some", stored'[key]>>
<1>1. /\ indices'[key + 1] = Used(Len(items)) /\ Len(indices') = Len(from)
      /\ items'[Len(items) + 1] = item /\ stored'[key] = item
      /\ Len(items') = Len(items) + 1
  BY AppendEffect
<1>2. Resolves(key)' /\ IndexOf(key)' = Len(items)
  BY <1>1, UsedIndex DEF Resolves, InBounds, IndexOf
<1>3. Len(items) < Len(items')
  BY <1>1, Typed
<1> QED
  BY <1>1, <1>2, <1>3 DEF Lookup

(* What was just inserted is found, whatever was called before: with stale *)
(* aliases, after a panic in clear, after key * 2 overflowed.              *)
THEOREM InsertedFound == Spec => []InsertThenGet
<1>1. Init => InsertThenGet
  BY DEF Init, InsertThenGet
<1>2. TypeOK /\ Sizes /\ InsertThenGet /\ [Next]_vars => InsertThenGet'
  <2> SUFFICES ASSUME TypeOK, Sizes, InsertThenGet, [Next]_vars PROVE InsertThenGet'
    OBVIOUS
  <2>1. ASSUME NEW key \in Keys, NEW item \in Items, Insert(key, item)
        PROVE  InsertThenGet'
    <3>1. ASSUME outcome' = [op |-> "insert", key |-> key, how |-> "ok"],
                 Lookup(key)' = <<"some", stored'[key]>>
          PROVE  InsertThenGet'
      <4>1. outcome'.key = key
        BY <3>1
      <4> QED
        BY <3>1, <4>1 DEF InsertThenGet
    <3>2. ASSUME outcome' = [op |-> "insert", key |-> key, how |-> "panic"]
          PROVE  InsertThenGet'
      BY <3>2 DEF InsertThenGet
    <3>3. CASE InsertUsed(key, item) /\ IndexOf(key) < Len(items)
      <4>1. /\ Resolves(key) /\ keys' = keys /\ indices' = indices
            /\ items' = [items EXCEPT ![IndexOf(key) + 1] = item]
            /\ stored' = StoreAt(stored, key, item)
            /\ \/ outcome' = [op |-> "insert", key |-> key, how |-> "ok"]
               \/ outcome' = [op |-> "insert", key |-> key, how |-> "panic"]
        BY <3>3 DEF InsertUsed, Ended
      <4>2. IndexOf(key) + 1 \in 1 .. Len(items)
        BY <3>3, <4>1, ResolvedIndex, Typed
      <4>3. Resolves(key)' /\ IndexOf(key)' = IndexOf(key)
        BY <4>1 DEF Resolves, InBounds, IndexOf
      <4>4. items'[IndexOf(key) + 1] = item /\ Len(items') = Len(items)
        BY <4>1, <4>2, Typed
      <4>5. stored'[key] = item
        BY <4>1 DEF StoreAt
      <4>6. Lookup(key)' = <<"some", stored'[key]>>
        BY <3>3, <4>3, <4>4, <4>5 DEF Lookup
      <4> QED
        BY <3>1, <3>2, <4>1, <4>6
    <3>4. CASE InsertUsed(key, item) /\ ~(IndexOf(key) < Len(items))
      BY <3>2, <3>4 DEF InsertUsed, Ended
    <3>5. CASE InsertFree(key, item)
      <4>1. key < Len(indices) /\ indices \in Seq(Index) /\ AppendEntry(indices, key, item)
        BY <3>5, Typed DEF InsertFree, InBounds
      <4>2. Lookup(key)' = <<"some", stored'[key]>>
        BY <4>1, AppendedFound
      <4> QED
        BY <3>1, <3>5, <4>2 DEF InsertFree, Ended
    <3>6. CASE InsertOutOfBounds(key, item)
      <4> DEFINE resized == Resize(indices, (key * 2) % UsizeMod)
      <4>1. \/ /\ key < Len(resized) /\ AppendEntry(resized, key, item)
               /\ Ended("insert", key, "ok")
            \/ Ended("insert", key, "panic")
        BY <3>6 DEF InsertOutOfBounds
      <4>2. resized \in Seq(Index)
        BY Resized
      <4> HIDE DEF resized
      <4>3. CASE Ended("insert", key, "panic")
        BY <3>2, <4>3 DEF Ended
      <4>4. CASE /\ key < Len(resized) /\ AppendEntry(resized, key, item)
                 /\ Ended("insert", key, "ok")
        BY <3>1, <4>2, <4>4, AppendedFound DEF Ended
      <4> QED
        BY <4>1, <4>3, <4>4
    <3> QED
      BY <2>1, <3>3, <3>4, <3>5, <3>6 DEF Insert
  <2>2. ASSUME NEW key \in Keys, Remove(key) \/ RemoveNone(key) PROVE InsertThenGet'
    <3>1. outcome'.op = "remove"
      BY <2>2 DEF Remove, RemoveNone, Ended
    <3> QED
      BY <3>1 DEF InsertThenGet
  <2>3. CASE Clear
    <3>1. outcome'.op = "clear"
      BY <2>3 DEF Clear, Ended
    <3> QED
      BY <3>1 DEF InsertThenGet
  <2>4. CASE UNCHANGED vars
    BY <2>4 DEF vars, fields, InsertThenGet, Lookup, Resolves, InBounds, IndexOf
  <2> QED
    BY <2>1, <2>2, <2>3, <2>4 DEF Next
<1> QED
  BY <1>1, <1>2, SizesInvariant, PTL DEF Spec

=============================================================================
