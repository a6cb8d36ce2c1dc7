----------------------------- MODULE StoreProofs -----------------------------
(***************************************************************************)
(* Theorems about Store, for every width of the two parts of a key, every  *)
(* set of items and every number of calls.                                 *)
(***************************************************************************)
EXTENDS StoreProperties, FiniteSetTheorems, FunctionTheorems, TLAPS

Key == [index : 0 .. IndexMod - 1, generation : 0 .. GenMod - 1]

-----------------------------------------------------------------------------
(* Facts about the operators of the model.                                 *)

(* StoreKey::new masks: what it returns is a key.                          *)
LEMMA StoreKeyType ==
  ASSUME NEW i \in Nat, NEW g \in Nat
  PROVE  /\ StoreKey(i, g) \in Key
         /\ i < IndexMod => StoreKey(i, g).index = i
         /\ g < GenMod => StoreKey(i, g).generation = g
<1>1. i % IndexMod \in 0 .. IndexMod - 1 /\ (i < IndexMod => i % IndexMod = i)
  BY ConstantsAssumption
<1>2. g % GenMod \in 0 .. GenMod - 1 /\ (g < GenMod => g % GenMod = g)
  BY ConstantsAssumption
<1> QED
  BY <1>1, <1>2 DEF StoreKey, Key

(* The elements of a sequence after Append, after Tail and of the empty.   *)
LEMMA SetOfAppend ==
  ASSUME NEW S, NEW s \in Seq(S), NEW e \in S
  PROVE  SetOf(Append(s, e)) = SetOf(s) \cup {e}
<1>1. /\ DOMAIN s = 1 .. Len(s) /\ Len(s) \in Nat
      /\ DOMAIN Append(s, e) = 1 .. Len(s) + 1
  OBVIOUS
<1>2. /\ \A i \in 1 .. Len(s) : Append(s, e)[i] = s[i]
      /\ Append(s, e)[Len(s) + 1] = e
  OBVIOUS
<1>3. ASSUME NEW x \in SetOf(Append(s, e)) PROVE x \in SetOf(s) \cup {e}
  <2>1. PICK k \in 1 .. Len(s) + 1 : x = Append(s, e)[k]
    BY <1>1 DEF SetOf
  <2>2. k \in 1 .. Len(s) \/ k = Len(s) + 1
    BY <1>1
  <2> QED
    BY <1>1, <1>2, <2>1, <2>2 DEF SetOf
<1>4. ASSUME NEW x \in SetOf(s) \cup {e} PROVE x \in SetOf(Append(s, e))
  <2>1. CASE x = e
    <3>1. Len(s) + 1 \in 1 .. Len(s) + 1
      BY <1>1
    <3> QED
      BY <1>1, <1>2, <2>1, <3>1 DEF SetOf
  <2>2. CASE x \in SetOf(s)
    <3>1. PICK k \in 1 .. Len(s) : x = s[k]
      BY <1>1, <2>2 DEF SetOf
    <3>2. k \in 1 .. Len(s) + 1
      BY <1>1
    <3> QED
      BY <1>1, <1>2, <3>1, <3>2 DEF SetOf
  <2> QED
    BY <2>1, <2>2
<1> QED
  BY <1>3, <1>4

(* The empty queue has no elements.                                        *)
LEMMA SetOfEmpty == SetOf(<<>>) = {}
BY DEF SetOf

(* A queue has finitely many elements.                                     *)
LEMMA SetOfFinite ==
  ASSUME NEW S, NEW s \in Seq(S)
  PROVE  IsFiniteSet(SetOf(s)) /\ SetOf(s) \subseteq S
<1>1. SetOf(s) = Range(s)
  BY DEF SetOf, Range
<1>2. s \in Surjection(1 .. Len(s), Range(s))
  BY Fun_RangeProperties
<1>3. IsFiniteSet(1 .. Len(s))
  BY FS_Interval
<1>4. IsFiniteSet(Range(s))
  BY <1>2, <1>3, FS_Surjection
<1>5. Range(s) \subseteq S
  BY Fun_RangeProperties
<1> QED
  BY <1>1, <1>4, <1>5

(* What the queue of free slots holds once the oldest has left it.         *)
LEMMA Dequeued ==
  ASSUME NEW S, NEW s \in Seq(S), s # <<>>,
         \A j, k \in DOMAIN s : s[j] = s[k] => j = k
  PROVE  /\ Head(s) \in SetOf(s)
         /\ Tail(s) \in Seq(S)
         /\ SetOf(Tail(s)) = SetOf(s) \ {Head(s)}
         /\ \A j, k \in DOMAIN Tail(s) : Tail(s)[j] = Tail(s)[k] => j = k
<1>1. /\ Len(s) \in Nat \ {0} /\ DOMAIN s = 1 .. Len(s) /\ Head(s) = s[1]
      /\ DOMAIN Tail(s) = 1 .. Len(s) - 1
      /\ \A i \in 1 .. Len(s) - 1 : Tail(s)[i] = s[i + 1]
  OBVIOUS
<1>2. \A i \in 1 .. Len(s) - 1 : i + 1 \in 1 .. Len(s) /\ i + 1 # 1
  BY <1>1
<1>3. ASSUME NEW x \in SetOf(s) \ {Head(s)} PROVE x \in SetOf(Tail(s))
  <2>1. PICK k \in 1 .. Len(s) : x = s[k] /\ k # 1
    BY <1>1 DEF SetOf
  <2>2. k - 1 \in 1 .. Len(s) - 1 /\ (k - 1) + 1 = k
    BY <1>1, <2>1
  <2>3. Tail(s)[k - 1] = s[k] /\ k - 1 \in DOMAIN Tail(s)
    BY <1>1, <2>2
  <2> QED
    BY <2>1, <2>3 DEF SetOf
<1>4. ASSUME NEW x \in SetOf(Tail(s)) PROVE x \in SetOf(s) \ {Head(s)}
  <2>1. PICK k \in 1 .. Len(s) - 1 : x = s[k + 1]
    BY <1>1 DEF SetOf
  <2>2. k + 1 \in 1 .. Len(s) /\ 1 \in 1 .. Len(s) /\ k + 1 # 1
    BY <1>1, <2>1
  <2>3. s[k + 1] # s[1]
    BY <1>1, <2>2
  <2> QED
    BY <1>1, <2>1, <2>2, <2>3 DEF SetOf
<1>5. \A j, k \in DOMAIN Tail(s) : Tail(s)[j] = Tail(s)[k] => j = k
  BY <1>1, <1>2
<1>6. Head(s) \in SetOf(s) /\ Tail(s) \in Seq(S)
  BY <1>1 DEF SetOf
<1> QED
  BY <1>3, <1>4, <1>5, <1>6

(* A queue without repetition has none after a new index was put in.       *)
LEMMA Enqueued ==
  ASSUME NEW S, NEW s \in Seq(S), NEW e \in S, e \notin SetOf(s),
         \A j, k \in DOMAIN s : s[j] = s[k] => j = k
  PROVE  \A j, k \in DOMAIN Append(s, e) :
            Append(s, e)[j] = Append(s, e)[k] => j = k
<1>1. /\ Len(s) \in Nat /\ DOMAIN s = 1 .. Len(s)
      /\ DOMAIN Append(s, e) = 1 .. Len(s) + 1
      /\ \A j \in 1 .. Len(s) : Append(s, e)[j] = s[j]
      /\ Append(s, e)[Len(s) + 1] = e
  OBVIOUS
<1>2. \A j \in 1 .. Len(s) : s[j] # e
  BY <1>1 DEF SetOf
<1>3. \A j \in 1 .. Len(s) + 1 : j \in 1 .. Len(s) \/ j = Len(s) + 1
  BY <1>1
<1> QED
  BY <1>1, <1>2, <1>3

(* The keys of the client's map after it stored or removed one.            *)
LEMMA ClientMap ==
  ASSUME NEW map, NEW key, NEW item
  PROVE  /\ DOMAIN StoreAt(map, key, item) = DOMAIN map \cup {key}
         /\ StoreAt(map, key, item)[key] = item
         /\ \A k \in DOMAIN map \ {key} : StoreAt(map, key, item)[k] = map[k]
         /\ DOMAIN Without(map, key) = DOMAIN map \ {key}
         /\ \A k \in DOMAIN map \ {key} : Without(map, key)[k] = map[k]
BY DEF StoreAt, Without

-----------------------------------------------------------------------------
(* The types need no further invariant.                                    *)
LEMMA KeyInBounds ==
  ASSUME TypeOK, NEW key \in SetOf(issued)
  PROVE  key \in Key /\ key.index \in Nat /\ key.generation \in 0 .. GenMod - 1
<1>1. issued \in Seq(Key)
  BY DEF TypeOK, Key
<1>2. key \in Key
  BY <1>1, SetOfFinite
<1> QED
  BY <1>2, ConstantsAssumption DEF Key

(* push writes its item into a slot and returns a key to it: into one that *)
(* is free, or into a new one behind the others.  That has generation 0,   *)
(* or the one that was there before a clear panicked.                      *)
LEMMA PushEffect ==
  ASSUME TypeOK, NEW item \in Items, Push(item)
  PROVE  \E i \in Nat, g \in Nat :
           /\ issued' = Append(issued, StoreKey(i, g))
           /\ live' = StoreAt(live, StoreKey(i, g), item)
           /\ StoreKey(i, g) \in Key
           /\ lost' = lost
           /\ g = generations'[i + 1]
           /\ \/ /\ free_indices # <<>> /\ i = Head(free_indices) /\ i \in Slots
                 /\ free_indices' = Tail(free_indices)
                 /\ generations' = generations
                 /\ items' = [items EXCEPT ![i + 1] = item]
              \/ /\ free_indices = <<>> /\ free_indices' = <<>>
                 /\ i = Len(items)
                 /\ generations' = Append(generations, 0)
                 /\ items' = Append(items, item)
<1>1. /\ items \in Seq(Items) /\ generations \in Seq(Nat)
      /\ Len(items) <= Len(generations) /\ free_indices \in Seq(Indices)
      /\ Len(items) \in Nat /\ Len(generations) \in Nat
  BY DEF TypeOK
<1>2. CASE free_indices # <<>>
  <2> DEFINE i == Head(free_indices)
             g == generations[i + 1]
  <2>1. i \in Indices /\ i < Len(items)
    BY <1>1, <1>2 DEF Push, Reusable
  <2>2. i \in Slots /\ i \in Nat /\ i + 1 \in 1 .. Len(generations)
    BY <1>1, <2>1 DEF Indices, Slots
  <2>3. g \in Nat
    BY <1>1, <2>2
  <2>4. StoreKey(i, g) \in Key
    BY <2>2, <2>3, StoreKeyType
  <2>5. /\ issued' = Append(issued, StoreKey(i, g))
        /\ live' = StoreAt(live, StoreKey(i, g), item)
        /\ lost' = lost
        /\ free_indices' = Tail(free_indices)
        /\ generations' = generations
        /\ items' = [items EXCEPT ![i + 1] = item]
    BY <1>2 DEF Push
  <2> HIDE DEF i, g
  <2>6. g = generations'[i + 1] /\ i = Head(free_indices)
    BY <2>5 DEF i, g
  <2> QED
    BY <1>2, <2>2, <2>3, <2>4, <2>5, <2>6
<1>3. CASE free_indices = <<>>
  <2> DEFINE i == Len(items)
             g == Append(generations, 0)[i + 1]
  <2>1. i \in Nat /\ g \in Nat
    <3>1. Append(generations, 0) \in Seq(Nat) /\ i + 1 \in DOMAIN Append(generations, 0)
      BY <1>1
    <3> QED
      BY <1>1, <3>1
  <2>2. StoreKey(i, g) \in Key
    BY <2>1, StoreKeyType
  <2>3. /\ issued' = Append(issued, StoreKey(i, g))
        /\ live' = StoreAt(live, StoreKey(i, g), item)
        /\ lost' = lost
        /\ free_indices' = <<>>
        /\ generations' = Append(generations, 0)
        /\ items' = Append(items, item)
    BY <1>3 DEF Push
  <2> HIDE DEF i, g
  <2>4. g = generations'[i + 1]
    BY <2>3 DEF g
  <2>5. i = Len(items)
    BY DEF i
  <2> QED
    BY <1>3, <2>1, <2>2, <2>3, <2>4, <2>5
<1> QED
  BY <1>2, <1>3

(* The Store's variables keep their types, panics included.                *)
THEOREM TypeCorrect == Spec => []TypeOK
<1>1. Init => TypeOK
  BY SetOfEmpty DEF Init, TypeOK, Slots, Indices, SetOf
<1>2. TypeOK /\ [Next]_vars => TypeOK'
  <2> SUFFICES ASSUME TypeOK, [Next]_vars PROVE TypeOK'
    OBVIOUS
  <2>0. /\ items \in Seq(Items) /\ generations \in Seq(Nat)
        /\ Len(items) <= Len(generations) /\ Len(items) \in Nat /\ Len(generations) \in Nat
        /\ free_indices \in Seq(Indices) /\ issued \in Seq(Key)
        /\ DOMAIN live \subseteq SetOf(issued) /\ lost \subseteq Slots
    BY DEF TypeOK, Key
  <2>1. ASSUME NEW item \in Items, Push(item) PROVE TypeOK'
    <3>1. PICK i \in Nat, g \in Nat :
           /\ issued' = Append(issued, StoreKey(i, g))
           /\ live' = StoreAt(live, StoreKey(i, g), item)
           /\ StoreKey(i, g) \in Key
           /\ lost' = lost
           /\ \/ /\ free_indices # <<>> /\ i = Head(free_indices) /\ i \in Slots
                 /\ free_indices' = Tail(free_indices)
                 /\ generations' = generations
                 /\ items' = [items EXCEPT ![i + 1] = item]
              \/ /\ free_indices = <<>> /\ free_indices' = <<>>
                 /\ i = Len(items)
                 /\ generations' = Append(generations, 0)
                 /\ items' = Append(items, item)
      BY <2>1, PushEffect
    <3>2. /\ items' \in Seq(Items) /\ generations' \in Seq(Nat)
          /\ Len(items') <= Len(generations') /\ Len(generations') \in Nat
          /\ Len(generations) <= Len(generations')
          /\ Len(items) <= Len(items') /\ Len(items') \in Nat
      <4>1. CASE free_indices = <<>>
        <5>1. generations' = Append(generations, 0) /\ items' = Append(items, item)
          BY <3>1, <4>1
        <5> QED
          BY <2>0, <5>1
      <4>2. CASE free_indices # <<>>
        <5>1. /\ i \in Slots /\ generations' = generations
              /\ items' = [items EXCEPT ![i + 1] = item]
          BY <3>1, <4>2
        <5>2. i + 1 \in 1 .. Len(items)
          BY <2>0, <5>1 DEF Slots
        <5> QED
          BY <2>0, <5>1, <5>2
      <4> QED
        BY <4>1, <4>2
    <3>3. Slots \subseteq Slots' /\ Indices \subseteq Indices'
      BY <2>0, <3>2 DEF Slots, Indices
    <3>4. free_indices' \in Seq(Indices) /\ lost' \subseteq Slots
      <4>1. CASE free_indices = <<>>
        BY <2>0, <3>1, <4>1
      <4>2. CASE free_indices # <<>>
        <5>1. free_indices' = Tail(free_indices) /\ lost' = lost
          BY <3>1, <4>2
        <5> QED
          BY <2>0, <4>2, <5>1
      <4> QED
        BY <4>1, <4>2
    <3>5. /\ issued' \in Seq(Key)
          /\ SetOf(issued') = SetOf(issued) \cup {StoreKey(i, g)}
      BY <2>0, <3>1, SetOfAppend
    <3>6. DOMAIN live' = DOMAIN live \cup {StoreKey(i, g)}
      BY <3>1, ClientMap
    <3>7. free_indices' \in Seq(Indices')
      BY <3>3, <3>4
    <3> QED
      BY <2>0, <3>2, <3>3, <3>4, <3>5, <3>6, <3>7 DEF TypeOK, Key
  <2>2. ASSUME NEW item \in Items, PushPanics(item) PROVE TypeOK'
    <3>1. /\ Head(free_indices) \in Indices /\ Tail(free_indices) \in Seq(Indices)
          /\ free_indices' = Tail(free_indices) /\ Indices' = Indices
          /\ generations' = generations /\ issued' = issued /\ live' = live
      BY <2>0, <2>2 DEF PushPanics, Indices
    <3>2. /\ items' \in Seq(Items) /\ Len(items') = Len(items) /\ Slots' = Slots
          /\ lost' \subseteq Slots
      <4>1. CASE Head(free_indices) < Len(items)
        <5>1. Head(free_indices) + 1 \in 1 .. Len(items) /\ Head(free_indices) \in Slots
          BY <2>0, <3>1, <4>1 DEF Indices, Slots
        <5>2. /\ items' = [items EXCEPT ![Head(free_indices) + 1] = item]
              /\ lost' = lost \cup {Head(free_indices)}
          BY <2>2, <4>1 DEF PushPanics
        <5>3. items' \in Seq(Items) /\ Len(items') = Len(items)
          BY <2>0, <5>1, <5>2
        <5> QED
          BY <2>0, <5>1, <5>2, <5>3 DEF Slots
      <4>2. CASE ~(Head(free_indices) < Len(items))
        <5>1. items' = items /\ lost' = lost
          BY <2>2, <4>2 DEF PushPanics
        <5> QED
          BY <2>0, <5>1 DEF Slots
      <4> QED
        BY <4>1, <4>2
    <3> QED
      BY <2>0, <3>1, <3>2 DEF TypeOK, Key
  <2>3. ASSUME NEW key \in SetOf(issued), NEW item \in Items, Set(key, item)
        PROVE TypeOK'
    <3>1. key.index \in Nat
      BY KeyInBounds
    <3>2. key.index + 1 \in 1 .. Len(items)
      BY <2>0, <2>3, <3>1 DEF Set
    <3>3. /\ items' \in Seq(Items) /\ Len(items') = Len(items)
          /\ Slots' = Slots /\ Indices' = Indices
      BY <2>0, <2>3, <3>2 DEF Set, Slots, Indices
    <3>4. DOMAIN live' = DOMAIN live
      BY <2>3 DEF Set, StoreAt
    <3> QED
      BY <2>0, <2>3, <3>3, <3>4 DEF Set, TypeOK, Key
  <2>4. ASSUME NEW key \in SetOf(issued), Remove(key) PROVE TypeOK'
    <3>1. key.index \in Nat
      BY KeyInBounds
    <3>2. /\ generations' \in Seq(Nat) /\ Len(generations') = Len(generations)
          /\ free_indices' \in Seq(Indices)
      <4>1. CASE Valid(key)
        <5>1. key.index + 1 \in 1 .. Len(generations) /\ key.index \in Indices
          BY <2>0, <3>1, <4>1 DEF Valid, Indices
        <5>2. generations[key.index + 1] + 1 \in Nat
          BY <2>0, <5>1
        <5>3. /\ generations' = [generations EXCEPT ![key.index + 1] = @ + 1]
              /\ free_indices' = Append(free_indices, key.index)
          BY <2>4, <4>1 DEF Remove
        <5> QED
          BY <2>0, <5>1, <5>2, <5>3
      <4>2. CASE ~Valid(key)
        BY <2>0, <2>4, <4>2 DEF Remove
      <4> QED
        BY <4>1, <4>2
    <3>3. DOMAIN live' \subseteq DOMAIN live
      BY <2>4 DEF Remove, Without
    <3>4. /\ items' = items /\ issued' = issued /\ lost' = lost
          /\ Slots' = Slots /\ Indices' = Indices
      BY <2>4, <3>2 DEF Remove, Slots, Indices
    <3> QED
      BY <2>0, <3>2, <3>3, <3>4 DEF TypeOK, Key
  <2>5. CASE Clear(<<>>)
    BY <2>5, SetOfEmpty DEF Clear, TypeOK, Slots, Indices
  <2>6. CASE ClearPanics(<<>>)
    <3>1. /\ items' = <<>> /\ issued' = <<>> /\ live' = <<>> /\ lost' = {}
          /\ generations' = generations /\ free_indices' = free_indices /\ Indices' = Indices
      BY <2>6 DEF ClearPanics, Indices
    <3> QED
      BY <2>0, <3>1, SetOfEmpty DEF TypeOK, Key
  <2>7. CASE UNCHANGED vars
    BY <2>7 DEF vars, TypeOK, Slots, Indices
  <2> QED
    BY <2>1, <2>2, <2>3, <2>4, <2>5, <2>6, <2>7 DEF Next
<1> QED
  BY <1>1, <1>2, PTL DEF Spec

(* The generation of a slot stays far below the end of its u32: remove     *)
(* only raises one that still fits into the key it was called with.        *)
THEOREM GenerationsBounded == Spec => []GenerationBounded
<1>1. Init => GenerationBounded
  BY DEF Init, GenerationBounded
<1>2. TypeOK /\ GenerationBounded /\ [Next]_vars => GenerationBounded'
  <2> SUFFICES ASSUME TypeOK, GenerationBounded, [Next]_vars
               PROVE  GenerationBounded'
    OBVIOUS
  <2>0. generations \in Seq(Nat) /\ \A k \in DOMAIN generations : generations[k] <= GenMod
    BY DEF TypeOK, GenerationBounded
  <2>1. ASSUME NEW item \in Items, Push(item) PROVE GenerationBounded'
    <3>1. CASE free_indices = <<>>
      <4>1. generations' = Append(generations, 0)
        BY <2>1, <3>1 DEF Push
      <4>2. \A k \in DOMAIN generations' : k \in DOMAIN generations \/ generations'[k] = 0
        BY <2>0, <4>1
      <4>3. \A k \in DOMAIN generations : generations'[k] = generations[k]
        BY <2>0, <4>1
      <4> QED
        BY <2>0, <4>2, <4>3, ConstantsAssumption DEF GenerationBounded
    <3>2. CASE free_indices # <<>>
      BY <2>0, <2>1, <3>2 DEF Push, GenerationBounded
    <3> QED
      BY <3>1, <3>2
  <2>2. ASSUME NEW key \in SetOf(issued), Remove(key) PROVE GenerationBounded'
    <3>1. CASE Valid(key)
      <4>1. /\ generations' = [generations EXCEPT ![key.index + 1] = @ + 1]
            /\ generations[key.index + 1] = key.generation
        BY <2>2, <3>1 DEF Remove, Valid
      <4>2. key.generation + 1 <= GenMod
        BY KeyInBounds, ConstantsAssumption
      <4> QED
        BY <2>0, <4>1, <4>2 DEF GenerationBounded
    <3>2. CASE ~Valid(key)
      BY <2>0, <2>2, <3>2 DEF Remove, GenerationBounded
    <3> QED
      BY <3>1, <3>2
  <2>3. CASE generations' = generations
    BY <2>0, <2>3 DEF GenerationBounded
  <2>4. CASE generations' = <<>>
    BY <2>4 DEF GenerationBounded
  <2> QED
    BY <2>1, <2>2, <2>3, <2>4 DEF Next, PushPanics, Set, Clear, ClearPanics, vars
<1> QED
  BY <1>1, <1>2, TypeCorrect, PTL DEF Spec

-----------------------------------------------------------------------------
(* The inductive invariant.                                                *)
Gen(i) == generations[i + 1]
Unused == SetOf(free_indices) \cup lost

(* A slot is queued once, and no key that was returned finds an unused one.*)
UnusedInv ==
  /\ \A j, k \in DOMAIN free_indices : free_indices[j] = free_indices[k] => j = k
  /\ SetOf(free_indices) \cap lost = {}
  /\ \A key \in SetOf(issued) :
       key.index \in Unused => key.generation < Gen(key.index) /\ key \notin DOMAIN live

(* The generation of a slot never falls behind the keys to it, and only    *)
(* the client's own key is up to date.                                     *)
IssuedInv ==
  \A key \in SetOf(issued) :
    /\ key.index \in Slots
    /\ key.generation <= Gen(key.index)
    /\ key.generation = Gen(key.index) => key \in DOMAIN live

(* The client's keys are to slots of their own, with their items.          *)
LiveInv ==
  /\ \A key \in DOMAIN live :
       /\ items[key.index + 1] = live[key]
       /\ key.generation = Gen(key.index) \/ Gen(key.index) = GenMod
  /\ \A key, other \in DOMAIN live : key.index = other.index => key = other

(* What a clear that panicked left in the queue is gone before there are   *)
(* slots again.                                                            *)
QueueInv == items # <<>> => SetOf(free_indices) \subseteq Slots

(* Every slot is accounted for.                                            *)
SlotsInv ==
  \A i \in Slots :
    /\ Gen(i) <= GenMod
    /\ \/ Gen(i) = GenMod
       \/ i \in Unused
       \/ \E key \in DOMAIN live : key.index = i

Inv ==
  UnusedInv /\ IssuedInv /\ LiveInv /\ QueueInv /\ SlotsInv /\ KeysNeverReissued

(* The documentation of StoreKey: the store has no more slots than the     *)
(* index part of a key counts.                                             *)
IndicesFit == Len(items) <= IndexMod

(* Slots and their generations are numbers.                                *)
LEMMA GenNat ==
  ASSUME TypeOK, NEW i \in Slots
  PROVE  /\ Gen(i) \in Nat /\ i \in Nat
         /\ i + 1 \in 1 .. Len(items) /\ i + 1 \in 1 .. Len(generations)
<1>1. i \in Nat /\ i + 1 \in 1 .. Len(items)
  BY DEF TypeOK, Slots
<1> QED
  BY <1>1 DEF TypeOK, Gen

(* push keeps the invariant, with a free slot and without,                 *)
LEMMA PushInv ==
  ASSUME TypeOK, GenerationBounded, Inv, IndicesFit', NEW item \in Items, Push(item)
  PROVE  Inv'
<1>0. /\ items \in Seq(Items) /\ generations \in Seq(Nat)
      /\ Len(items) <= Len(generations) /\ Len(items) \in Nat /\ Len(generations) \in Nat
      /\ free_indices \in Seq(Indices) /\ issued \in Seq(Key)
      /\ DOMAIN live \subseteq SetOf(issued) /\ lost \subseteq Slots
  BY DEF TypeOK, Key
<1>1. PICK i \in Nat, g \in Nat :
        /\ issued' = Append(issued, StoreKey(i, g))
        /\ live' = StoreAt(live, StoreKey(i, g), item)
        /\ StoreKey(i, g) \in Key
        /\ lost' = lost
        /\ g = generations'[i + 1]
        /\ \/ /\ free_indices # <<>> /\ i = Head(free_indices) /\ i \in Slots
              /\ free_indices' = Tail(free_indices)
              /\ generations' = generations
              /\ items' = [items EXCEPT ![i + 1] = item]
           \/ /\ free_indices = <<>> /\ free_indices' = <<>>
              /\ i = Len(items)
              /\ generations' = Append(generations, 0)
              /\ items' = Append(items, item)
  BY PushEffect
<1>12. SetOf(free_indices) \subseteq Slots
  <2>1. CASE free_indices = <<>>
    BY <2>1, SetOfEmpty
  <2>2. CASE free_indices # <<>>
    BY <1>0, <1>1, <2>2 DEF Slots, Inv, QueueInv
  <2> QED
    BY <2>1, <2>2
<1> DEFINE key == StoreKey(i, g)
<1>2. /\ i \in Slots' /\ Slots' = Slots \cup {i} /\ i < IndexMod
      /\ \A j \in Slots : Gen(j)' = Gen(j)
      /\ Gen(i)' = g /\ g <= GenMod
      /\ items'[i + 1] = item
      /\ \A j \in Slots \ {i} : items'[j + 1] = items[j + 1]
      /\ \A k \in SetOf(issued) :
           k.index = i => k.generation < g /\ k \notin DOMAIN live
      /\ Unused' = Unused \ {i}
      /\ \A j, k \in DOMAIN free_indices' : free_indices'[j] = free_indices'[k] => j = k
      /\ SetOf(free_indices') \cap lost' = {}
      /\ SetOf(free_indices') \subseteq Slots'
  <2>1. CASE free_indices = <<>>
    <3>1. /\ free_indices' = <<>> /\ i = Len(items)
          /\ generations' = Append(generations, 0) /\ items' = Append(items, item)
      BY <1>1, <2>1
    <3>2. /\ Len(items') = Len(items) + 1
          /\ \A j \in Slots : generations'[j + 1] = generations[j + 1]
          /\ \A j \in Slots : items'[j + 1] = items[j + 1]
          /\ items'[i + 1] = item
      BY <1>0, <3>1 DEF Slots
    <3>3. Slots' = Slots \cup {i} /\ i \in Slots' /\ i \notin Slots /\ i < IndexMod
      BY <1>0, <3>1, <3>2, ConstantsAssumption DEF Slots, IndicesFit
    <3>4. \A k \in SetOf(issued) : k.index # i
      BY <3>3 DEF Inv, IssuedInv
    <3>5. SetOf(free_indices') = {} /\ SetOf(free_indices) = {} /\ i \notin lost
      BY <1>0, <2>1, <3>1, <3>3, SetOfEmpty
    <3>6. Unused' = Unused \ {i} /\ SetOf(free_indices') \cap lost' = {}
      BY <1>1, <3>5 DEF Unused
    <3>7. Gen(i)' = g /\ g <= GenMod
      <4>1. g = generations'[i + 1]
        BY <1>1
      <4>2. \/ i + 1 \in DOMAIN generations /\ g = generations[i + 1]
            \/ g = 0
        BY <1>0, <3>1, <4>1
      <4> QED
        BY <4>1, <4>2, ConstantsAssumption DEF Gen, GenerationBounded
    <3>9. \A j \in Slots : Gen(j)' = Gen(j)
      BY <3>2 DEF Gen
    <3>8. \A j, k \in DOMAIN free_indices' : free_indices'[j] = free_indices'[k] => j = k
      BY <3>1
    <3> QED
      BY <3>2, <3>3, <3>4, <3>5, <3>6, <3>7, <3>8, <3>9
  <2>2. CASE free_indices # <<>>
    <3>1. /\ i = Head(free_indices) /\ i \in Slots
          /\ free_indices' = Tail(free_indices)
          /\ generations' = generations
          /\ items' = [items EXCEPT ![i + 1] = item]
      BY <1>1, <2>2
    <3>2. i + 1 \in 1 .. Len(items) /\ Gen(i) \in Nat
      BY <3>1, GenNat
    <3>3. /\ Len(items') = Len(items) /\ items'[i + 1] = item
          /\ \A j \in Slots \ {i} : items'[j + 1] = items[j + 1]
      <4>1. items \in Seq(Items) /\ Len(items) \in Nat
        BY <1>0
      <4>2. items' = [items EXCEPT ![i + 1] = item]
        BY <3>1
      <4>3. Len(items') = Len(items) /\ items'[i + 1] = item
        BY <3>2, <4>1, <4>2
      <4>4. \A j \in Slots \ {i} : items'[j + 1] = items[j + 1]
        BY <3>2, <4>1, <4>2 DEF Slots
      <4> QED
        BY <4>3, <4>4
    <3>4. Slots' = Slots /\ i < IndexMod
      BY <1>0, <3>1, <3>3, ConstantsAssumption DEF Slots, IndicesFit
    <3>5. /\ i \in SetOf(free_indices)
          /\ SetOf(free_indices') = SetOf(free_indices) \ {i}
          /\ \A j, k \in DOMAIN free_indices' : free_indices'[j] = free_indices'[k] => j = k
      BY <1>0, <2>2, <3>1, Dequeued DEF Inv, UnusedInv
    <3>6. i \notin lost /\ i \in Unused /\ Unused' = Unused \ {i}
      BY <1>1, <3>5 DEF Inv, UnusedInv, Unused
    <3>7. \A k \in SetOf(issued) :
            k.index = i => k.generation < Gen(i) /\ k \notin DOMAIN live
      BY <3>6 DEF Inv, UnusedInv
    <3>8. g = Gen(i) /\ Gen(i)' = Gen(i) /\ g <= GenMod /\ \A j \in Slots : Gen(j)' = Gen(j)
      BY <1>1, <3>1 DEF Gen, Inv, SlotsInv
    <3>9. SetOf(free_indices') \cap lost' = {} /\ SetOf(free_indices') \subseteq Slots'
      BY <1>1, <1>12, <3>4, <3>5 DEF Inv, UnusedInv
    <3> QED
      BY <3>1, <3>3, <3>4, <3>5, <3>6, <3>7, <3>8, <3>9
  <2> QED
    BY <2>1, <2>2
<1>3. /\ SetOf(issued') = SetOf(issued) \cup {key}
      /\ key \in Key /\ key.index = i
      /\ key.generation \in Nat
      /\ key.generation = g \/ (g = GenMod /\ key.generation < g)
  <2>1. SetOf(issued') = SetOf(issued) \cup {key}
    BY <1>0, <1>1, SetOfAppend
  <2>2. key.index = i /\ (g < GenMod => key.generation = g) /\ key \in Key
    BY <1>1, <1>2, StoreKeyType
  <2>3. key.generation \in 0 .. GenMod - 1
    BY <2>2 DEF Key
  <2> QED
    BY <1>2, <2>1, <2>2, <2>3, ConstantsAssumption
<1>4. /\ DOMAIN live' = DOMAIN live \cup {key}
      /\ live'[key] = item
      /\ \A k \in DOMAIN live \ {key} : live'[k] = live[k]
  BY <1>1 DEF StoreAt
<1>5. \A k \in DOMAIN live : k \in SetOf(issued) /\ k.index \in Slots /\ k.index # i
  BY <1>0, <1>2 DEF Inv, IssuedInv
<1>6. \A k \in SetOf(issued) : k.generation \in Nat
  BY KeyInBounds
<1> HIDE DEF key
<1>7. UnusedInv'
  BY <1>2, <1>3, <1>4, <1>6 DEF Inv, UnusedInv, IssuedInv
<1>8. IssuedInv'
  <2>1. ASSUME NEW k \in SetOf(issued), k.index = i
        PROVE  /\ k.index \in Slots' /\ k.generation <= Gen(k.index)'
               /\ k.generation # Gen(k.index)'
    BY <1>1, <1>2, <1>6, <2>1
  <2>2. ASSUME NEW k \in SetOf(issued), k.index # i
        PROVE  /\ k.index \in Slots' /\ k.generation <= Gen(k.index)'
               /\ k.generation = Gen(k.index)' => k \in DOMAIN live'
    BY <1>2, <1>4, <2>2 DEF Inv, IssuedInv
  <2>3. /\ key.index \in Slots' /\ key.generation <= Gen(key.index)'
        /\ key \in DOMAIN live'
    BY <1>1, <1>2, <1>3, <1>4
  <2> QED
    BY <1>3, <2>1, <2>2, <2>3 DEF IssuedInv
<1>9. LiveInv'
  <2>1. /\ items'[key.index + 1] = live'[key]
        /\ key.generation = Gen(key.index)' \/ Gen(key.index)' = GenMod
    BY <1>2, <1>3, <1>4
  <2>2. ASSUME NEW k \in DOMAIN live, k # key
        PROVE  /\ items'[k.index + 1] = live'[k]
               /\ k.generation = Gen(k.index)' \/ Gen(k.index)' = GenMod
    BY <1>2, <1>4, <1>5, <2>2 DEF Inv, LiveInv
  <2>3. \A k, other \in DOMAIN live' : k.index = other.index => k = other
    BY <1>3, <1>4, <1>5 DEF Inv, LiveInv
  <2> QED
    BY <1>4, <2>1, <2>2, <2>3 DEF LiveInv
<1>10. SlotsInv'
  <2>1. ASSUME NEW j \in Slots, j # i
        PROVE  /\ Gen(j)' <= GenMod
               /\ Gen(j)' = GenMod \/ j \in Unused' \/ \E k \in DOMAIN live' : k.index = j
    BY <1>2, <1>4, <2>1 DEF Inv, SlotsInv
  <2>2. Gen(i)' <= GenMod /\ \E k \in DOMAIN live' : k.index = i
    BY <1>2, <1>3, <1>4
  <2> QED
    BY <1>2, <2>1, <2>2 DEF SlotsInv
<1>11. KeysNeverReissued'
  <2>1. /\ DOMAIN issued = 1 .. Len(issued) /\ Len(issued) \in Nat
        /\ DOMAIN issued' = 1 .. Len(issued) + 1
        /\ \A j \in 1 .. Len(issued) : issued'[j] = issued[j]
        /\ issued'[Len(issued) + 1] = key
    BY <1>0, <1>1 DEF key
  <2>2. Exhausted \subseteq Exhausted'
    BY <1>2 DEF Exhausted, Gen
  <2>3. ASSUME NEW j \in 1 .. Len(issued), issued[j] = key
        PROVE  key.index \in Exhausted'
    <3>1. key \in SetOf(issued)
      BY <2>1, <2>3 DEF SetOf
    <3>2. key.generation < g
      BY <1>2, <1>3, <3>1
    <3>3. key.generation \in Nat /\ key.generation # g
      BY <1>1, <1>6, <3>1, <3>2
    <3>4. g = GenMod
      BY <1>3, <3>3
    <3> QED
      BY <1>2, <1>3, <3>4, ConstantsAssumption DEF Exhausted, Gen
  <2>4. \A j \in DOMAIN issued' : j \in 1 .. Len(issued) \/ j = Len(issued) + 1
    BY <2>1
  <2> QED
    BY <2>1, <2>2, <2>3, <2>4 DEF KeysNeverReissued, Inv
<1>13. QueueInv'
  BY <1>2 DEF QueueInv
<1> QED
  BY <1>7, <1>8, <1>9, <1>10, <1>11, <1>13 DEF Inv

(* also when it panics,                                                    *)
LEMMA PushPanicsInv ==
  ASSUME TypeOK, Inv, NEW item \in Items, PushPanics(item)
  PROVE  Inv'
<1> DEFINE i == Head(free_indices)
<1>1. /\ free_indices \in Seq(Indices) /\ items \in Seq(Items)
      /\ Len(items) \in Nat /\ DOMAIN live \subseteq SetOf(issued)
  BY DEF TypeOK
<1>2. /\ free_indices # <<>> /\ free_indices' = Tail(free_indices)
      /\ generations' = generations /\ issued' = issued /\ live' = live
      /\ i \in Indices
  BY <1>1 DEF PushPanics
<1>3. /\ i \in SetOf(free_indices)
      /\ SetOf(free_indices') = SetOf(free_indices) \ {i}
      /\ \A j, k \in DOMAIN free_indices' : free_indices'[j] = free_indices'[k] => j = k
  BY <1>1, <1>2, Dequeued DEF Inv, UnusedInv
<1>4. /\ Slots' = Slots /\ \A j \in Slots : Gen(j)' = Gen(j)
      /\ \A j \in Slots \ {i} : items'[j + 1] = items[j + 1]
      /\ Unused' \subseteq Unused /\ i \in Unused
      /\ \A j \in Unused : j \in Slots => j \in Unused'
      /\ SetOf(free_indices') \cap lost' = {}
      /\ items' # <<>> => items # <<>>
  <2>1. CASE i < Len(items)
    <3>1. i \in Slots
      BY <1>1, <1>2, <2>1 DEF Slots, Indices
    <3>2. items' = [items EXCEPT ![i + 1] = item] /\ lost' = lost \cup {i}
      BY <2>1 DEF PushPanics
    <3> HIDE DEF i
    <3>3. /\ Len(items') = Len(items)
          /\ \A j \in Slots \ {i} : items'[j + 1] = items[j + 1]
          /\ items # <<>>
      BY <1>1, <2>1, <3>1, <3>2 DEF Slots
    <3>4. Slots' = Slots /\ \A j \in Slots : Gen(j)' = Gen(j)
      BY <1>2, <3>3 DEF Slots, Gen
    <3>5. Unused' = Unused /\ i \in Unused /\ SetOf(free_indices') \cap lost' = {}
      BY <1>3, <3>2 DEF Unused, Inv, UnusedInv
    <3> QED
      BY <3>3, <3>4, <3>5
  <2>2. CASE ~(i < Len(items))
    <3>1. i \notin Slots
      BY <1>1, <1>2, <2>2 DEF Slots, Indices
    <3>2. items' = items /\ lost' = lost
      BY <2>2 DEF PushPanics
    <3> HIDE DEF i
    <3>3. Slots' = Slots /\ \A j \in Slots : Gen(j)' = Gen(j)
      BY <1>2, <3>2 DEF Slots, Gen
    <3>4. /\ Unused' \subseteq Unused /\ i \in Unused
          /\ \A j \in Unused : j \in Slots => j \in Unused'
          /\ SetOf(free_indices') \cap lost' = {}
      BY <1>3, <3>1, <3>2 DEF Unused, Inv, UnusedInv
    <3> QED
      BY <3>2, <3>3, <3>4
  <2> QED
    BY <2>1, <2>2
<1> HIDE DEF i
<1>5. \A k \in SetOf(issued) : k.index \in Slots
  BY DEF Inv, IssuedInv
<1>6. \A k \in DOMAIN live : k \in SetOf(issued) /\ k.index \in Slots /\ k.index # i
  BY <1>1, <1>4, <1>5 DEF Inv, UnusedInv
<1>7. UnusedInv'
  BY <1>2, <1>3, <1>4, <1>5 DEF Inv, UnusedInv
<1>8. IssuedInv'
  BY <1>2, <1>4 DEF Inv, IssuedInv
<1>9. LiveInv'
  BY <1>2, <1>4, <1>6 DEF Inv, LiveInv
<1>10. QueueInv'
  BY <1>3, <1>4 DEF Inv, QueueInv
<1>11. SlotsInv'
  BY <1>2, <1>4 DEF Inv, SlotsInv
<1>12. KeysNeverReissued'
  BY <1>2, <1>4 DEF Inv, KeysNeverReissued, Exhausted, Gen
<1> QED
  BY <1>7, <1>8, <1>9, <1>10, <1>11, <1>12 DEF Inv

(* and so do set,                                                          *)
LEMMA SetInv ==
  ASSUME TypeOK, Inv, NEW key \in SetOf(issued), NEW item \in Items, Set(key, item)
  PROVE  Inv'
<1>1. /\ items \in Seq(Items) /\ Len(items) \in Nat
      /\ DOMAIN live \subseteq SetOf(issued)
  BY DEF TypeOK
<1>2. /\ items' = [items EXCEPT ![key.index + 1] = item]
      /\ generations' = generations /\ free_indices' = free_indices
      /\ issued' = issued /\ lost' = lost
  BY DEF Set
<1>3. key.index \in Slots /\ key \in DOMAIN live
  BY DEF Set, Valid, Inv, IssuedInv, Gen
<1>13. items # <<>>
  BY <1>1, <1>3 DEF Slots
<1>4. /\ DOMAIN live' = DOMAIN live /\ live'[key] = item
      /\ \A k \in DOMAIN live \ {key} : live'[k] = live[k]
  BY <1>3 DEF Set, StoreAt
<1>5. /\ Len(items') = Len(items) /\ items'[key.index + 1] = item
      /\ \A j \in Slots \ {key.index} : items'[j + 1] = items[j + 1]
  BY <1>1, <1>2, <1>3 DEF Slots
<1>6. Slots' = Slots /\ Unused' = Unused /\ \A j \in Slots : Gen(j)' = Gen(j)
  BY <1>2, <1>5 DEF Slots, Gen, Unused
<1>7. \A k \in DOMAIN live : k.index \in Slots /\ (k # key => k.index # key.index)
  BY <1>1, <1>3 DEF Inv, IssuedInv, LiveInv
<1>8. UnusedInv'
  BY <1>2, <1>4, <1>6 DEF Inv, UnusedInv, IssuedInv
<1>9. IssuedInv'
  BY <1>2, <1>4, <1>6 DEF Inv, IssuedInv
<1>10. LiveInv'
  BY <1>3, <1>4, <1>5, <1>6, <1>7 DEF Inv, LiveInv
<1>11. SlotsInv'
  BY <1>2, <1>4, <1>6 DEF Inv, SlotsInv
<1>12. KeysNeverReissued'
  BY <1>2, <1>6 DEF Inv, KeysNeverReissued, Exhausted, Gen
<1>14. QueueInv'
  BY <1>2, <1>6, <1>13 DEF Inv, QueueInv
<1> QED
  BY <1>8, <1>9, <1>10, <1>11, <1>12, <1>14 DEF Inv

(* remove,                                                                 *)
LEMMA RemoveInv ==
  ASSUME TypeOK, Inv, NEW key \in SetOf(issued), Remove(key)
  PROVE  Inv'
<1>1. /\ generations \in Seq(Nat) /\ Len(items) <= Len(generations)
      /\ Len(items) \in Nat /\ Len(generations) \in Nat /\ free_indices \in Seq(Indices)
      /\ DOMAIN live \subseteq SetOf(issued)
  BY DEF TypeOK
<1>2. /\ items' = items /\ issued' = issued /\ lost' = lost /\ Slots' = Slots
      /\ DOMAIN live' = DOMAIN live \ {key}
      /\ \A k \in DOMAIN live' : live'[k] = live[k]
  BY DEF Remove, Without, Slots
<1>3. /\ key.index \in Slots /\ key.generation \in 0 .. GenMod - 1
      /\ Gen(key.index) \in Nat
  BY KeyInBounds, GenNat DEF Inv, IssuedInv
<1>4. \A k \in SetOf(issued) : k.index \in Slots /\ k.generation \in Nat
  BY KeyInBounds DEF Inv, IssuedInv
<1>5. CASE ~Valid(key)
  <2>1. /\ generations' = generations /\ free_indices' = free_indices
        /\ Unused' = Unused /\ \A j \in Slots : Gen(j)' = Gen(j)
    BY <1>2, <1>5 DEF Remove, Unused, Gen
  <2>2. Gen(key.index) # key.generation
    BY <1>1, <1>3, <1>5 DEF Valid, Gen, Slots
  <2>3. UnusedInv'
    BY <1>2, <2>1 DEF Inv, UnusedInv, IssuedInv
  <2>4. IssuedInv'
    BY <1>2, <2>1, <2>2 DEF Inv, IssuedInv
  <2>5. LiveInv'
    BY <1>1, <1>2, <1>4, <2>1 DEF Inv, LiveInv
  <2>6. SlotsInv'
    BY <1>2, <2>1, <2>2 DEF Inv, SlotsInv, LiveInv
  <2>7. KeysNeverReissued'
    BY <1>2, <2>1 DEF Inv, KeysNeverReissued, Exhausted, Gen
  <2>8. QueueInv'
    BY <1>2, <2>1 DEF Inv, QueueInv
  <2> QED
    BY <2>3, <2>4, <2>5, <2>6, <2>7, <2>8 DEF Inv
<1>6. CASE Valid(key)
  <2> DEFINE i == key.index
  <2>1. /\ generations' = [generations EXCEPT ![i + 1] = @ + 1]
        /\ free_indices' = Append(free_indices, i)
    BY <1>6 DEF Remove
  <2>2. Gen(i) = key.generation /\ key \in DOMAIN live
    BY <1>6 DEF Valid, Gen, Inv, IssuedInv
  <2>3. i \in Slots /\ i \notin Unused
    BY <1>3, <2>2 DEF Inv, UnusedInv
  <2> HIDE DEF i
  <2>4. i + 1 \in 1 .. Len(generations) /\ i \in Nat /\ i \in Indices
    BY <1>1, <2>3, GenNat DEF Indices
  <2>5. Gen(i)' = Gen(i) + 1 /\ \A j \in Slots \ {i} : Gen(j)' = Gen(j)
    BY <1>1, <2>1, <2>4 DEF Gen, Slots
  <2>6. SetOf(free_indices') = SetOf(free_indices) \cup {i}
    BY <1>1, <2>1, <2>4, SetOfAppend
  <2>7. \A j, k \in DOMAIN free_indices' : free_indices'[j] = free_indices'[k] => j = k
    <3>1. free_indices \in Seq(Indices) /\ i \in Indices /\ i \notin SetOf(free_indices)
      BY <1>1, <2>3, <2>4 DEF Unused
    <3>2. \A j, k \in DOMAIN free_indices : free_indices[j] = free_indices[k] => j = k
      BY DEF Inv, UnusedInv
    <3>3. free_indices' = Append(free_indices, i)
      BY <2>1
    <3> QED
      BY <3>1, <3>2, <3>3, Enqueued
  <2>8. Unused' = Unused \cup {i} /\ SetOf(free_indices') \cap lost' = {}
    BY <1>2, <2>3, <2>6 DEF Unused, Inv, UnusedInv
  <2>9. \A k \in DOMAIN live' : k \in DOMAIN live /\ k.index # i
    BY <1>2, <2>2 DEF Inv, LiveInv, i
  <2>10. \A k \in SetOf(issued) : k.index = i => k.generation < Gen(i)'
    BY <1>3, <1>4, <2>5 DEF Inv, IssuedInv, i
  <2>11. UnusedInv'
    BY <1>2, <1>4, <2>5, <2>7, <2>8, <2>9, <2>10 DEF Inv, UnusedInv
  <2>12. IssuedInv'
    <3>1. ASSUME NEW k \in SetOf(issued), k.index = i
          PROVE  k.generation <= Gen(k.index)' /\ k.generation # Gen(k.index)'
      BY <1>3, <1>4, <2>5, <2>10, <3>1 DEF i
    <3>2. ASSUME NEW k \in SetOf(issued), k.index # i
          PROVE  /\ k.generation <= Gen(k.index)'
                 /\ k.generation = Gen(k.index)' => k \in DOMAIN live'
      BY <1>2, <1>4, <2>5, <3>2 DEF Inv, IssuedInv, i
    <3> QED
      BY <1>2, <1>4, <3>1, <3>2 DEF IssuedInv
  <2>13. LiveInv'
    BY <1>1, <1>2, <1>4, <2>5, <2>9 DEF Inv, LiveInv
  <2>14. SlotsInv'
    <3>1. Gen(i)' <= GenMod
      BY <1>3, <2>2, <2>5, ConstantsAssumption DEF i
    <3>2. ASSUME NEW j \in Slots, j # i
          PROVE  /\ Gen(j)' <= GenMod
                 /\ Gen(j)' = GenMod \/ j \in Unused' \/ \E k \in DOMAIN live' : k.index = j
      BY <1>2, <2>5, <2>8, <3>2 DEF Inv, SlotsInv, i
    <3> QED
      BY <1>2, <2>8, <3>1, <3>2 DEF SlotsInv
  <2>15. KeysNeverReissued'
    <3>1. Exhausted \subseteq Exhausted'
      <4>1. ASSUME NEW j \in Slots, Gen(j) >= GenMod PROVE Gen(j)' >= GenMod
        BY <1>3, <2>5, <4>1, ConstantsAssumption DEF i
      <4> QED
        BY <1>2, <4>1 DEF Exhausted, Gen
    <3> QED
      BY <1>2, <3>1 DEF Inv, KeysNeverReissued
  <2>16. QueueInv'
    BY <1>2, <2>3, <2>6 DEF Inv, QueueInv
  <2> QED
    BY <2>11, <2>12, <2>13, <2>14, <2>15, <2>16 DEF Inv
<1> QED
  BY <1>5, <1>6

(* and clear.                                                              *)
LEMMA ClearInv ==
  ASSUME Clear(<<>>)
  PROVE  Inv'
<1>1. /\ items' = <<>> /\ issued' = <<>> /\ live' = <<>> /\ lost' = {}
      /\ free_indices' = <<>>
  BY DEF Clear
<1>2. SetOf(issued') = {} /\ SetOf(free_indices') = {} /\ Slots' = {} /\ DOMAIN live' = {}
  BY <1>1, SetOfEmpty DEF Slots
<1> QED
  BY <1>1, <1>2 DEF Inv, UnusedInv, IssuedInv, LiveInv, QueueInv, SlotsInv, KeysNeverReissued

(* also when a destructor panics.                                          *)
LEMMA ClearPanicsInv ==
  ASSUME Inv, ClearPanics(<<>>)
  PROVE  Inv'
<1>1. /\ items' = <<>> /\ issued' = <<>> /\ live' = <<>> /\ lost' = {}
      /\ free_indices' = free_indices
  BY DEF ClearPanics
<1>2. SetOf(issued') = {} /\ Slots' = {} /\ DOMAIN live' = {}
  BY <1>1, SetOfEmpty DEF Slots
<1>3. UnusedInv'
  BY <1>1, <1>2 DEF Inv, UnusedInv
<1> QED
  BY <1>1, <1>2, <1>3 DEF Inv, IssuedInv, LiveInv, QueueInv, SlotsInv, KeysNeverReissued

(* The invariant holds at first, and every step keeps it.                  *)
LEMMA InitInv == Init => Inv
<1> SUFFICES ASSUME Init PROVE Inv
  OBVIOUS
<1>1. SetOf(issued) = {} /\ SetOf(free_indices) = {} /\ Slots = {} /\ DOMAIN live = {}
  BY SetOfEmpty DEF Init, Slots
<1> QED
  BY <1>1 DEF Init, Inv, UnusedInv, IssuedInv, LiveInv, QueueInv, SlotsInv, KeysNeverReissued

LEMMA NextInv ==
  TypeOK /\ GenerationBounded /\ Inv /\ IndicesFit' /\ [Next]_vars => Inv'
<1> SUFFICES ASSUME TypeOK, GenerationBounded, Inv, IndicesFit', [Next]_vars PROVE Inv'
  OBVIOUS
<1>1. CASE UNCHANGED vars
  BY <1>1 DEF vars, Inv, UnusedInv, IssuedInv, LiveInv, QueueInv, SlotsInv,
              KeysNeverReissued, Unused, Slots, Gen, Exhausted
<1> QED
  BY <1>1, PushInv, PushPanicsInv, SetInv, RemoveInv, ClearInv, ClearPanicsInv DEF Next

(* Held slots and the client's keys are as many, as no two keys share one. *)
LEMMA HeldSlots ==
  ASSUME TypeOK, Inv
  PROVE  Cardinality({key.index : key \in DOMAIN live}) = Cardinality(DOMAIN live)
<1> DEFINE held == {key.index : key \in DOMAIN live}
           f == [key \in DOMAIN live |-> key.index]
<1>1. IsFiniteSet(DOMAIN live)
  BY SetOfFinite, FS_Subset DEF TypeOK
<1>2. f \in Bijection(DOMAIN live, held)
  <2>1. f \in [DOMAIN live -> held]
    OBVIOUS
  <2>2. \A a, b \in DOMAIN live : f[a] = f[b] => a = b
    BY DEF Inv, LiveInv
  <2>3. \A i \in held : \E key \in DOMAIN live : f[key] = i
    OBVIOUS
  <2> HIDE DEF f, held
  <2> QED
    BY <2>1, <2>2, <2>3, Fun_IsBij
<1> HIDE DEF f, held
<1>3. Cardinality(held) = Cardinality(DOMAIN live)
  BY <1>1, <1>2, FS_Bijection DEF ExistsBijection
<1> QED
  BY <1>3 DEF held

(* A queue without repetition is as long as it has slots.                  *)
LEMMA QueuedSlots ==
  ASSUME TypeOK, Inv
  PROVE  Cardinality(SetOf(free_indices)) = Len(free_indices)
<1>1. /\ DOMAIN free_indices = 1 .. Len(free_indices) /\ Len(free_indices) \in Nat
      /\ free_indices \in [1 .. Len(free_indices) -> SetOf(free_indices)]
  BY DEF TypeOK, SetOf
<1>2. /\ \A j, k \in 1 .. Len(free_indices) : free_indices[j] = free_indices[k] => j = k
      /\ \A i \in SetOf(free_indices) : \E k \in 1 .. Len(free_indices) : free_indices[k] = i
  BY <1>1 DEF Inv, UnusedInv, SetOf
<1>3. free_indices \in Bijection(1 .. Len(free_indices), SetOf(free_indices))
  BY <1>1, <1>2, Fun_IsBij
<1>4. IsFiniteSet(1 .. Len(free_indices)) /\ Cardinality(1 .. Len(free_indices)) = Len(free_indices)
  BY <1>1, FS_Interval
<1> QED
  BY <1>3, <1>4, FS_Bijection DEF ExistsBijection

(* The invariant implies the properties.                                   *)
LEMMA InvImplies ==
  ASSUME TypeOK, Inv
  PROVE  /\ LiveKeysValid
         /\ StaleKeysRefused
         /\ KeysNeverReissued
         /\ SlotsPartition
<1>1. /\ generations \in Seq(Nat) /\ Len(items) <= Len(generations)
      /\ Len(items) \in Nat /\ Len(generations) \in Nat
      /\ lost \subseteq Slots /\ DOMAIN live \subseteq SetOf(issued)
  BY DEF TypeOK
<1>2. \A key \in SetOf(issued) : key.index \in Slots /\ key.index \in Nat
  BY KeyInBounds DEF Inv, IssuedInv
<1>3. LiveKeysValid
  BY <1>1, <1>2, ConstantsAssumption
  DEF LiveKeysValid, Valid, Exhausted, Inv, LiveInv, Gen, Slots
<1>4. StaleKeysRefused
  BY DEF StaleKeysRefused, Valid, Inv, IssuedInv, Gen
<1>5. SlotsPartition
  <2> DEFINE held == {key.index : key \in DOMAIN live}
  <2>1. /\ Cardinality(SetOf(free_indices)) = Len(free_indices)
        /\ Cardinality(held) = Cardinality(DOMAIN live)
    BY HeldSlots, QueuedSlots
  <2>2. SetOf(free_indices) \cap (held \cup lost) = {} /\ held \cap lost = {}
    BY <1>1 DEF Inv, UnusedInv, Unused
  <2>3. Slots \subseteq SetOf(free_indices) \cup held \cup lost \cup Exhausted
    BY <1>1, ConstantsAssumption DEF Inv, SlotsInv, Unused, Exhausted, Gen
  <2>4. held \subseteq Slots
    BY <1>1, <1>2
  <2>5. Exhausted \subseteq Slots
    BY DEF Exhausted
  <2> HIDE DEF held
  <2>6. items # <<>> => SetOf(free_indices) \cup held \cup lost \cup Exhausted = Slots
    BY <1>1, <2>3, <2>4, <2>5 DEF Inv, QueueInv
  <2> QED
    BY <2>1, <2>2, <2>6 DEF SlotsPartition, held
<1> QED
  BY <1>3, <1>4, <1>5 DEF Inv

-----------------------------------------------------------------------------
(* As long as the store has no more slots than the documentation allows,   *)
(* get, set and remove with a key the client holds reach its item,         *)
(* however often slots were recycled,                                      *)
THEOREM KeysFindItems == Spec /\ []IndicesFit => []LiveKeysValid
BY InitInv, NextInv, InvImplies, TypeCorrect, GenerationsBounded, PTL DEF Spec

(* a key that was removed is refused for ever, even when keys repeat,      *)
THEOREM RemovedKeysRefused == Spec /\ []IndicesFit => []StaleKeysRefused
BY InitInv, NextInv, InvImplies, TypeCorrect, GenerationsBounded, PTL DEF Spec

(* push returns no key a second time before the slot is exhausted,         *)
THEOREM KeysUnique == Spec /\ []IndicesFit => []KeysNeverReissued
BY InitInv, NextInv, InvImplies, TypeCorrect, GenerationsBounded, PTL DEF Spec

(* and every slot is in one place, whatever remove, push and panics did.   *)
THEOREM SlotsAccounted == Spec /\ []IndicesFit => []SlotsPartition
BY InitInv, NextInv, InvImplies, TypeCorrect, GenerationsBounded, PTL DEF Spec

=============================================================================
