------------------------------ MODULE ArrayVec -------------------------------
(***************************************************************************)
(* The fixed-capacity vector, src/src/array_vec.rs.  The k-th value to     *)
(* enter is the number k.  Taking a value out is a bitwise read: only len  *)
(* says that its slot is free again.  A call that finds the vector full    *)
(* (push panics) or the index out of range (None) changes nothing.         *)
(***************************************************************************)
EXTENDS Naturals, Sequences, FiniteSets

CONSTANTS
  N,            \* capacity, the const generic parameter
  MaxPushes,    \* bound: how many values enter the vector
  PanicOnDrop   \* the values whose destructor panics

ASSUME ConstantsAssumption ==
  /\ N \in Nat
  /\ MaxPushes \in Nat
  /\ PanicOnDrop \subseteq 1 .. MaxPushes

VARIABLES
  data, len,    \* the fields of ArrayVec
  status,       \* "live", then "gone", or "aborted" by a double panic
  pushed,       \* how many values have entered
  taken,        \* the values pop and swap_remove returned, in order
  destroyed,    \* the values whose destructor ran, in order
  panicked      \* has a destructor panicked?

vars == <<data, len, status, pushed, taken, destroyed, panicked>>

(* as_slice, as_mut_slice and the iterators; get and last read one of it.  *)
Slice == [k \in 1 .. len |-> data[k - 1]]

Init ==
  /\ data = [s \in 0 .. N - 1 |-> 0]
  /\ len = 0
  /\ status = "live"
  /\ pushed = 0 /\ taken = <<>> /\ destroyed = <<>> /\ panicked = FALSE

(* Definitions named Bad... are mistakes the code does not make, used to   *)
(* show which property would notice them.                                  *)
BadPushFull ==                    \* one more than the capacity
  /\ status = "live" /\ pushed < MaxPushes
  /\ len # N + 1
  /\ data' = [data EXCEPT ![len] = pushed + 1]
  /\ len' = len + 1
  /\ pushed' = pushed + 1
  /\ UNCHANGED <<status, taken, destroyed, panicked>>

Push ==
  /\ status = "live" /\ pushed < MaxPushes
  /\ len # N
  /\ data' = [data EXCEPT ![len] = pushed + 1]
  /\ len' = len + 1
  /\ pushed' = pushed + 1
  /\ UNCHANGED <<status, taken, destroyed, panicked>>

Pop ==
  /\ status = "live"
  /\ len # 0
  /\ len' = len - 1
  /\ taken' = Append(taken, data[len - 1])
  /\ UNCHANGED <<data, status, pushed, destroyed, panicked>>

Swapped(i, j) == [data EXCEPT ![i] = data[j], ![j] = data[i]]

BadSwapRemove(index) ==           \* the last value is read instead
  /\ status = "live"
  /\ index < len
  /\ len' = len - 1
  /\ taken' = Append(taken, data[len - 1])
  /\ data' = Swapped(index, len - 1)
  /\ UNCHANGED <<status, pushed, destroyed, panicked>>

(* swap_remove: the value at index changes places with the last one, which *)
(* may be itself, and is then read from the end.                           *)
SwapRemove(index) ==
  /\ status = "live"
  /\ index < len
  /\ len' = len - 1
  /\ data' = Swapped(index, len - 1)
  /\ taken' = Append(taken, Swapped(index, len - 1)[len - 1])
  /\ UNCHANGED <<status, pushed, destroyed, panicked>>

Panics(s) == {k \in DOMAIN s : s[k] \in PanicOnDrop}

BadClearThen(then) ==             \* len is reset after the slice is dropped
  /\ len' = IF Panics(Slice) = {} THEN 0 ELSE len
  /\ destroyed' = destroyed \o Slice
  /\ panicked' = (panicked \/ Panics(Slice) # {})
  /\ status' = IF Cardinality(Panics(Slice)) > 1 THEN "aborted" ELSE then
  /\ UNCHANGED <<data, pushed, taken>>

(* clear: len is reset, then the slice is dropped.  Dropping a slice goes  *)
(* on after one destructor has panicked and aborts at the next.            *)
ClearThen(then) ==
  /\ len' = 0
  /\ destroyed' = destroyed \o Slice
  /\ panicked' = (panicked \/ Panics(Slice) # {})
  /\ status' = IF Cardinality(Panics(Slice)) > 1 THEN "aborted" ELSE then
  /\ UNCHANGED <<data, pushed, taken>>

Clear == status = "live" /\ ClearThen("live")

(* Drop is one more clear.                                                 *)
DropVec == status = "live" /\ ClearThen("gone")

Next ==
  \/ Push
  \/ Pop
  \/ \E index \in 0 .. N - 1 : SwapRemove(index)
  \/ Clear
  \/ DropVec

Spec == Init /\ [][Next]_vars

=============================================================================
