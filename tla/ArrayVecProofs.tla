--------------------------- MODULE ArrayVecProofs ----------------------------
(***************************************************************************)
(* Theorems about ArrayVec, for every capacity, every number of values and *)
(* every set of panicking destructors.                                     *)
(***************************************************************************)
EXTENDS ArrayVecProperties, SharedLemmas

(* Every value that entered is in the vector, taken or destroyed, in one   *)
(* place only.                                                             *)
OwnersInv ==
  /\ IsInjective(Slice) /\ IsInjective(taken) /\ IsInjective(destroyed)
  /\ Range(Slice) \cap Range(taken) = {}
  /\ Range(Slice) \cap Range(destroyed) = {}
  /\ Range(taken) \cap Range(destroyed) = {}
  /\ Range(Slice) \cup Range(taken) \cup Range(destroyed) = 1 .. pushed

Inv == TypeOK /\ OwnersInv

-----------------------------------------------------------------------------
(* The slice is a sequence of the first len slots.                         *)
LEMMA SliceSeq ==
  ASSUME TypeOK
  PROVE  /\ Slice \in Seq(Nat) /\ Len(Slice) = len /\ DOMAIN Slice = 1 .. len
         /\ \A k \in 1 .. len : Slice[k] = data[k - 1]
<1>1. len \in Nat /\ \A k \in 1 .. len : k - 1 \in 0 .. N - 1
  BY ConstantsAssumption DEF TypeOK
<1>2. \A k \in 1 .. len : data[k - 1] \in Nat
  BY <1>1 DEF TypeOK
<1> QED
  BY <1>1, <1>2 DEF Slice

(* The same after a step.                                                  *)
SliceIs ==
  /\ Slice \in Seq(Nat) /\ Len(Slice) = len /\ DOMAIN Slice = 1 .. len
  /\ \A k \in 1 .. len : Slice[k] = data[k - 1]

LEMMA SlicePrime == TypeOK' => SliceIs'
<1>1. TypeOK => SliceIs
  BY SliceSeq DEF SliceIs
<1> QED
  BY <1>1, PTL

(* A sequence without repetition whose last element is put in the place of *)
(* another loses that one alone.                                           *)
LEMMA LastMoved ==
  ASSUME NEW S, NEW s \in Seq(S), NEW t \in Seq(S), NEW index \in 1 .. Len(s),
         Len(t) = Len(s) - 1, IsInjective(s),
         \A k \in 1 .. Len(t) : t[k] = IF k = index THEN s[Len(s)] ELSE s[k]
  PROVE  IsInjective(t) /\ Range(t) = Range(s) \ {s[index]}
<1> DEFINE n == Len(s)
           from(k) == IF k = index THEN n ELSE k
<1>1. /\ n \in Nat /\ index \in 1 .. n
      /\ DOMAIN s = 1 .. n /\ DOMAIN t = 1 .. n - 1
      /\ \A k \in 1 .. n - 1 : t[k] = s[from(k)] /\ from(k) \in 1 .. n
  OBVIOUS
<1>2. \A j, k \in 1 .. n : s[j] = s[k] => j = k
  BY <1>1 DEF IsInjective
<1> HIDE DEF n
<1>3. \A j, k \in 1 .. n - 1 : from(j) = from(k) => j = k
  BY <1>1
<1>4. \A k \in 1 .. n - 1 : from(k) # index
  BY <1>1
<1>5. ASSUME NEW j \in 1 .. n, j # index PROVE \E k \in 1 .. n - 1 : from(k) = j
  <2>1. CASE j = n
    <3>1. index \in 1 .. n - 1 /\ from(index) = j
      BY <1>1, <1>5, <2>1
    <3> QED
      BY <3>1
  <2>2. CASE j # n
    <3>1. j \in 1 .. n - 1 /\ from(j) = j
      BY <1>1, <1>5, <2>2
    <3> QED
      BY <3>1
  <2> QED
    BY <2>1, <2>2
<1> HIDE DEF from
<1>6. IsInjective(t)
  BY <1>1, <1>2, <1>3 DEF IsInjective
<1>7. ASSUME NEW x \in Range(t) PROVE x \in Range(s) /\ x # s[index]
  <2>1. PICK k \in 1 .. n - 1 : x = t[k]
    BY <1>1, <1>7 DEF Range
  <2> QED
    BY <1>1, <1>2, <1>4, <2>1 DEF Range
<1>8. ASSUME NEW x \in Range(s), x # s[index] PROVE x \in Range(t)
  <2>1. PICK j \in 1 .. n : x = s[j]
    BY <1>1, <1>8 DEF Range
  <2>2. PICK k \in 1 .. n - 1 : from(k) = j
    BY <1>5, <1>8, <2>1
  <2>3. x = t[k]
    BY <1>1, <2>1, <2>2
  <2> QED
    BY <1>1, <2>3 DEF Range
<1> QED
  BY <1>6, <1>7, <1>8

-----------------------------------------------------------------------------
(* The variables keep their types.                                         *)
LEMMA NextType == TypeOK /\ [Next]_vars => TypeOK'
<1> SUFFICES ASSUME TypeOK, [Next]_vars PROVE TypeOK'
  OBVIOUS
<1>0. len \in Nat /\ N \in Nat /\ len <= N
  BY ConstantsAssumption DEF TypeOK
<1>1. CASE Push
  <2>1. len \in 0 .. N - 1 /\ len + 1 \in 0 .. N
    BY <1>0, <1>1 DEF Push
  <2>2. data' \in [0 .. N - 1 -> Nat]
    BY <1>1, <2>1 DEF Push, TypeOK
  <2> QED
    BY <1>1, <2>1, <2>2 DEF Push, TypeOK
<1>2. CASE Pop
  <2>1. len - 1 \in 0 .. N - 1 /\ len - 1 \in 0 .. N
    BY <1>0, <1>2 DEF Pop
  <2>2. data[len - 1] \in Nat
    BY <2>1 DEF TypeOK
  <2> QED
    BY <1>2, <2>1, <2>2 DEF Pop, TypeOK
<1>3. ASSUME NEW index \in 0 .. N - 1, SwapRemove(index) PROVE TypeOK'
  <2>1. len - 1 \in 0 .. N - 1 /\ len - 1 \in 0 .. N
    BY <1>0, <1>3 DEF SwapRemove
  <2>2. data[len - 1] \in Nat /\ data[index] \in Nat
    BY <2>1 DEF TypeOK
  <2>3. Swapped(index, len - 1) \in [0 .. N - 1 -> Nat]
    BY <2>1, <2>2 DEF TypeOK, Swapped
  <2>4. Swapped(index, len - 1)[len - 1] \in Nat
    BY <2>1, <2>3
  <2> QED
    BY <1>3, <2>1, <2>3, <2>4 DEF SwapRemove, TypeOK
<1>4. ASSUME NEW then \in {"live", "gone"}, ClearThen(then) PROVE TypeOK'
  <2>1. 0 \in 0 .. N
    BY <1>0
  <2>2. destroyed' \in Seq(Nat)
    BY <1>4, SliceSeq DEF ClearThen, TypeOK
  <2>3. panicked' \in BOOLEAN
    BY <1>4 DEF ClearThen, TypeOK
  <2> QED
    BY <1>4, <2>1, <2>2, <2>3 DEF ClearThen, TypeOK
<1>5. CASE UNCHANGED vars
  BY <1>5 DEF vars, TypeOK
<1> QED
  BY <1>1, <1>2, <1>3, <1>4, <1>5 DEF Next, Clear, DropVec

(* The types of ArrayVec's variables: len never exceeds the capacity.      *)
THEOREM TypeCorrect == Spec => []TypeOK
<1>1. Init => TypeOK
  <2> SUFFICES ASSUME Init PROVE TypeOK
    OBVIOUS
  <2>1. data \in [0 .. N - 1 -> Nat] /\ len \in 0 .. N
    BY ConstantsAssumption DEF Init
  <2>2. <<>> \in Seq(Nat) /\ 0 \in Nat
    OBVIOUS
  <2>3. /\ status \in {"live", "gone", "aborted"} /\ panicked \in BOOLEAN
        /\ pushed = 0 /\ taken = <<>> /\ destroyed = <<>>
    BY DEF Init
  <2> QED
    BY <2>1, <2>2, <2>3 DEF TypeOK
<1> QED
  BY <1>1, NextType, PTL DEF Spec

-----------------------------------------------------------------------------
(* pop and swap_remove take the value at an index, where the last one      *)
(* moves.                                                                  *)
TakesAt(index) ==
  /\ taken' = Append(taken, Slice[index])
  /\ len' = len - 1
  /\ \A k \in 1 .. len - 1 : Slice'[k] = IF k = index THEN Slice[len] ELSE Slice[k]

LEMMA PopTakes ==
  ASSUME TypeOK, TypeOK', Pop
  PROVE  len \in 1 .. len /\ TakesAt(len)
<1>1. len \in 1 .. len /\ len' = len - 1 /\ data' = data
  BY ConstantsAssumption DEF TypeOK, Pop
<1>2. Slice[len] = data[len - 1]
  BY <1>1, SliceSeq
<1>3. ASSUME NEW k \in 1 .. len - 1 PROVE k # len /\ Slice'[k] = Slice[k]
  <2>1. k \in 1 .. len /\ k \in 1 .. len' /\ k # len
    BY <1>1
  <2>2. Slice'[k] = data'[k - 1]
    BY <2>1, SlicePrime DEF SliceIs
  <2> QED
    BY <1>1, <2>1, <2>2, SliceSeq
<1> QED
  BY <1>1, <1>2, <1>3 DEF TakesAt, Pop

LEMMA SwapRemoveTakes ==
  ASSUME TypeOK, TypeOK', NEW index \in 0 .. N - 1, SwapRemove(index)
  PROVE  index + 1 \in 1 .. len /\ TakesAt(index + 1)
<1> DEFINE e == len - 1
<1>1. /\ index \in Nat /\ len \in Nat /\ index < len /\ len' = len - 1
      /\ index + 1 \in 1 .. len /\ e \in 0 .. N - 1 /\ len \in 1 .. len
  BY ConstantsAssumption DEF TypeOK, SwapRemove
<1>2. \A i \in 0 .. N - 1 : Swapped(index, e)[i] =
        IF i = e THEN data[index] ELSE IF i = index THEN data[e] ELSE data[i]
  BY <1>1 DEF TypeOK, Swapped
<1>3. data' = Swapped(index, e) /\ taken' = Append(taken, Swapped(index, e)[e])
  BY DEF SwapRemove
<1>4. Slice[index + 1] = data[index] /\ Slice[len] = data[e]
  <2>1. (index + 1) - 1 = index
    BY <1>1
  <2> QED
    BY <1>1, <2>1, SliceSeq
<1>5. taken' = Append(taken, Slice[index + 1])
  BY <1>1, <1>2, <1>3, <1>4
<1>6. ASSUME NEW k \in 1 .. len - 1
      PROVE  Slice'[k] = IF k = index + 1 THEN Slice[len] ELSE Slice[k]
  <2>1. k \in 1 .. len /\ k \in 1 .. len' /\ k - 1 # e /\ k - 1 \in 0 .. N - 1
        /\ (k - 1 = index <=> k = index + 1)
    BY <1>1, ConstantsAssumption DEF TypeOK
  <2>2. Slice'[k] = data'[k - 1] /\ Slice[k] = data[k - 1]
    BY <2>1, SlicePrime, SliceSeq DEF SliceIs
  <2> QED
    BY <1>2, <1>3, <1>4, <2>1, <2>2
<1> QED
  BY <1>1, <1>5, <1>6 DEF TakesAt

-----------------------------------------------------------------------------
(* The initial vector owns nothing.                                        *)
LEMMA InitOwners == Init => OwnersInv
<1> SUFFICES ASSUME Init PROVE OwnersInv
  OBVIOUS
<1>1. Slice = <<>> /\ taken = <<>> /\ destroyed = <<>> /\ pushed = 0
  BY DEF Init, Slice
<1>2. Range(<<>>) = {} /\ IsInjective(<<>>)
  BY DEF Range, IsInjective
<1> QED
  BY <1>1, <1>2 DEF OwnersInv

(* push adds a value that is new.                                          *)
LEMMA PushOwners ==
  ASSUME TypeOK, OwnersInv, TypeOK', Push
  PROVE  OwnersInv'
<1> DEFINE v == pushed + 1
<1>1. /\ len' = len + 1 /\ pushed' = v /\ taken' = taken /\ destroyed' = destroyed
      /\ len \in Nat /\ len \in 0 .. N - 1 /\ v \in Nat
      /\ data' = [data EXCEPT ![len] = v]
  BY ConstantsAssumption DEF Push, TypeOK
<1>2. Slice' = Append(Slice, v)
  <2>1. Slice' \in Seq(Nat) /\ Len(Slice') = len + 1
    BY <1>1, SlicePrime DEF SliceIs
  <2>2. Append(Slice, v) \in Seq(Nat) /\ Len(Append(Slice, v)) = len + 1
    BY <1>1, SliceSeq
  <2>3. ASSUME NEW k \in 1 .. len + 1 PROVE Slice'[k] = Append(Slice, v)[k]
    <3>1. Slice'[k] = data'[k - 1]
      BY <1>1, SlicePrime DEF SliceIs
    <3>2. CASE k = len + 1
      <4>1. k - 1 = len /\ data'[len] = v
        BY <1>1, <3>2 DEF TypeOK
      <4>2. Append(Slice, v)[k] = v
        BY <1>1, <3>2, SliceSeq
      <4> QED
        BY <3>1, <4>1, <4>2
    <3>3. CASE k # len + 1
      <4>0. len \in Nat /\ N \in Nat /\ len < N
        BY <1>1, ConstantsAssumption
      <4>1. k \in 1 .. len /\ k - 1 # len /\ k - 1 \in 0 .. N - 1
        BY <3>3, <4>0
      <4>2. data'[k - 1] = data[k - 1]
        BY <1>1, <4>1 DEF TypeOK
      <4>3. Append(Slice, v)[k] = Slice[k] /\ Slice[k] = data[k - 1]
        BY <1>1, <4>1, SliceSeq
      <4> QED
        BY <3>1, <4>2, <4>3
    <3> QED
      BY <3>2, <3>3
  <2> HIDE DEF v
  <2> QED
    BY <2>1, <2>2, <2>3
<1>3. v \notin Range(Slice) /\ v \notin Range(taken) /\ v \notin Range(destroyed)
  BY DEF OwnersInv, TypeOK
<1>4. Slice \in Seq(Nat)
  BY SliceSeq
<1>5. Range(Slice') = Range(Slice) \cup {v} /\ IsInjective(Slice')
  BY <1>1, <1>2, <1>3, <1>4, AppendRange DEF OwnersInv
<1>6. 1 .. v = 1 .. pushed \cup {v}
  BY DEF TypeOK
<1> HIDE DEF v
<1>7. Range(taken)' = Range(taken) /\ Range(destroyed)' = Range(destroyed)
      /\ Range(Slice)' = Range(Slice')
  BY <1>1
<1> QED
  BY <1>1, <1>3, <1>5, <1>6, <1>7 DEF OwnersInv

(* A value that is taken leaves the vector.                                *)
LEMMA TakeOwners ==
  ASSUME TypeOK, OwnersInv, TypeOK', NEW index \in 1 .. len, TakesAt(index),
         pushed' = pushed, destroyed' = destroyed
  PROVE  OwnersInv'
<1> DEFINE x == Slice[index]
<1>1. /\ Slice \in Seq(Nat) /\ Len(Slice) = len /\ DOMAIN Slice = 1 .. len
      /\ Slice' \in Seq(Nat) /\ Len(Slice') = len - 1
  <2>1. Slice \in Seq(Nat) /\ Len(Slice) = len /\ DOMAIN Slice = 1 .. len
    BY SliceSeq
  <2>2. Slice' \in Seq(Nat) /\ Len(Slice') = len'
    BY SlicePrime DEF SliceIs
  <2> QED
    BY <2>1, <2>2 DEF TakesAt
<1>2. IsInjective(Slice') /\ Range(Slice') = Range(Slice) \ {x}
  <2>1. \A k \in 1 .. Len(Slice') : Slice'[k] = IF k = index THEN Slice[Len(Slice)] ELSE Slice[k]
    BY <1>1 DEF TakesAt
  <2>2. index \in 1 .. Len(Slice) /\ Len(Slice') = Len(Slice) - 1 /\ IsInjective(Slice)
    BY <1>1 DEF OwnersInv
  <2> QED
    BY <1>1, <2>1, <2>2, LastMoved
<1>3. x \in Range(Slice) /\ x \in Nat /\ taken' = Append(taken, x)
  BY <1>1 DEF Range, TakesAt
<1> HIDE DEF x
<1>4. x \notin Range(taken) /\ x \notin Range(destroyed)
  BY <1>3 DEF OwnersInv
<1>5. Range(taken') = Range(taken) \cup {x} /\ IsInjective(taken')
  BY <1>3, <1>4, AppendRange DEF OwnersInv, TypeOK
<1> QED
  BY <1>2, <1>3, <1>4, <1>5 DEF OwnersInv

(* clear destroys what is inside, in order, also when destructors panic.   *)
LEMMA ClearOwners ==
  ASSUME TypeOK, OwnersInv, TypeOK', NEW then, ClearThen(then)
  PROVE  OwnersInv'
<1>1. /\ len' = 0 /\ destroyed' = destroyed \o Slice
      /\ taken' = taken /\ pushed' = pushed
  BY DEF ClearThen
<1>2. Slice' = <<>>
  BY <1>1, SlicePrime DEF SliceIs
<1>3. Range(<<>>) = {} /\ IsInjective(<<>>)
  BY DEF Range, IsInjective
<1>4. Range(destroyed') = Range(destroyed) \cup Range(Slice) /\ IsInjective(destroyed')
  <2>1. destroyed \in Seq(Nat) /\ Slice \in Seq(Nat)
    BY SliceSeq DEF TypeOK
  <2>2. IsInjective(destroyed) /\ IsInjective(Slice) /\ Range(destroyed) \cap Range(Slice) = {}
    BY DEF OwnersInv
  <2> QED
    BY <1>1, <2>1, <2>2, ConcatRange
<1> QED
  BY <1>1, <1>2, <1>3, <1>4 DEF OwnersInv

(* Every step keeps the owners apart.                                      *)
LEMMA NextOwners == TypeOK /\ OwnersInv /\ TypeOK' /\ [Next]_vars => OwnersInv'
<1> SUFFICES ASSUME TypeOK, OwnersInv, TypeOK', [Next]_vars PROVE OwnersInv'
  OBVIOUS
<1>1. CASE Push
  BY <1>1, PushOwners
<1>2. CASE Pop
  <2>1. len \in 1 .. len /\ TakesAt(len)
    BY <1>2, PopTakes
  <2>2. pushed' = pushed /\ destroyed' = destroyed
    BY <1>2 DEF Pop
  <2> QED
    BY <2>1, <2>2, TakeOwners
<1>3. ASSUME NEW index \in 0 .. N - 1, SwapRemove(index) PROVE OwnersInv'
  <2>1. index + 1 \in 1 .. len /\ TakesAt(index + 1)
    BY <1>3, SwapRemoveTakes
  <2>2. pushed' = pushed /\ destroyed' = destroyed
    BY <1>3 DEF SwapRemove
  <2> QED
    BY <2>1, <2>2, TakeOwners
<1>4. CASE Clear
  BY <1>4, ClearOwners DEF Clear
<1>5. CASE DropVec
  BY <1>5, ClearOwners DEF DropVec
<1>6. CASE UNCHANGED vars
  <2>1. Slice' = Slice /\ taken' = taken /\ destroyed' = destroyed /\ pushed' = pushed
    BY <1>6 DEF vars, Slice
  <2> QED
    BY <2>1 DEF OwnersInv
<1> QED
  BY <1>1, <1>2, <1>3, <1>4, <1>5, <1>6 DEF Next

(* The invariant holds in every state.                                     *)
LEMMA Invariant == Spec => []Inv
<1>1. Init => OwnersInv
  BY InitOwners
<1>2. TypeOK /\ TypeOK' /\ OwnersInv /\ [Next]_vars => OwnersInv'
  BY NextOwners
<1>3. Inv <=> TypeOK /\ OwnersInv
  BY DEF Inv
<1> QED
  BY <1>1, <1>2, <1>3, TypeCorrect, PTL DEF Spec

(* Every value is owned once: it is in one slot of the vector, or was      *)
(* taken, or destroyed, whatever destructors panicked before.              *)
THEOREM EachOwnedOnce == Spec => []OwnedOnce
<1>1. Inv => OwnedOnce
  <2> SUFFICES ASSUME Inv PROVE OwnedOnce
    OBVIOUS
  <2> DEFINE used == taken \o destroyed
  <2>1. /\ taken \in Seq(Nat) /\ destroyed \in Seq(Nat)
        /\ Slice \in Seq(Nat) /\ Len(Slice) = len
    BY SliceSeq DEF Inv, TypeOK
  <2>2. /\ used \in Seq(Nat) /\ Len(used) = Len(taken) + Len(destroyed)
        /\ Range(used) = Range(taken) \cup Range(destroyed) /\ IsInjective(used)
    BY <2>1, ConcatRange DEF Inv, OwnersInv
  <2> HIDE DEF used
  <2>3. Cardinality(Range(used)) = Len(taken) + Len(destroyed)
    BY <2>2, InjectiveCardinality
  <2>4. Cardinality(Range(Slice)) = len
    BY <2>1, InjectiveCardinality DEF Inv, OwnersInv
  <2>5. Range(Slice) = 1 .. pushed \ Range(used)
    BY <2>2 DEF Inv, OwnersInv
  <2>6. \A f : SetOf(f) = Range(f)
    BY DEF SetOf, Range
  <2> QED
    BY <2>3, <2>4, <2>5, <2>6 DEF OwnedOnce, used
<1> QED
  BY <1>1, Invariant, PTL

(* pop and swap_remove take out what get showed, and move only the last    *)
(* value.                                                                  *)
THEOREM TakesWhatIsShown == Spec => TakesWhatGetShows
<1> DEFINE T(index) == /\ taken' = Append(taken, Slice[index])
                       /\ \A k \in 1 .. len - 1 :
                            Slice'[k] = IF k = index THEN Slice[len] ELSE Slice[k]
           A == taken' # taken => \E index \in DOMAIN Slice : T(index)
<1>1. ASSUME TypeOK, TypeOK', [Next]_vars PROVE A
  <2>1. DOMAIN Slice = 1 .. len
    BY <1>1, SliceSeq
  <2>2. ASSUME NEW index \in 1 .. len, TakesAt(index) PROVE A
    <3>1. T(index)
      BY <2>2 DEF TakesAt
    <3> HIDE DEF T
    <3> QED
      BY <2>1, <3>1
  <2>3. CASE Pop
    BY <1>1, <2>2, <2>3, PopTakes
  <2>4. ASSUME NEW index \in 0 .. N - 1, SwapRemove(index) PROVE A
    BY <1>1, <2>2, <2>4, SwapRemoveTakes
  <2>5. CASE Push \/ Clear \/ DropVec \/ UNCHANGED vars
    BY <2>5 DEF Push, Clear, DropVec, ClearThen, vars
  <2> HIDE DEF A
  <2> QED
    BY <1>1, <2>3, <2>4, <2>5 DEF Next
<1>2. TypeOK /\ TypeOK' /\ [Next]_vars => [A]_vars
  BY <1>1
<1> QED
  BY <1>2, TypeCorrect, PTL DEF Spec, TakesWhatGetShows
=============================================================================
