----------------------------- MODULE ArrayQueue ------------------------------
(***************************************************************************)
(* The fixed-capacity ring buffer, src/src/array_queue.rs, with the        *)
(* arithmetic of a release build.  The k-th value to enter the queue is    *)
(* the number k.  A pop is a bitwise read: the slot keeps the value, and   *)
(* only head and tail say that it is no longer there.  A call that finds   *)
(* the queue full (push panics, try_push returns Err) or empty changes     *)
(* nothing and is not an action.                                           *)
(***************************************************************************)
EXTENDS Naturals, Sequences, FiniteSets

CONSTANTS
  N,            \* capacity, the const generic parameter
  UsizeMod,     \* 2^(bits of usize)
  MaxPushes,    \* bound: how many values enter the queue
  PanicOnDrop   \* the values whose destructor panics

ASSUME ConstantsAssumption ==
  /\ N \in Nat \ {0}     \* with N = 0 every push panics
  /\ UsizeMod \in Nat /\ N < UsizeMod
  /\ MaxPushes \in Nat
  /\ PanicOnDrop \subseteq 1 .. MaxPushes

VARIABLES
  data, head, tail,      \* the fields of ArrayQueue
  status,                \* "live", then "gone", or "aborted" by a double panic
  pushed,                \* how many values have entered
  popped,                \* the values pop returned, in order
  discarded,             \* the values that left any other way, in order
  destroyed,             \* the values whose destructor ran, in order
  panicked               \* has a destructor panicked?

history == <<pushed, popped, discarded, destroyed, panicked>>
vars == <<data, head, tail, status, history>>

Wrap(n) == n % UsizeMod
Slot(n) == n % N

(* Definitions named Bad... are mistakes the code does not make, used to   *)
(* show which property would notice them.                                  *)
BadLen == tail - head             \* no wrap-around

QueueLen == Wrap(tail + UsizeMod - head)

(* get, get_mut, their unchecked forms and Index, for i < len().           *)
Get(i) == data[Slot(Wrap(head + i))]

wrapped_head == Slot(head)

head_len == IF N - wrapped_head < QueueLen THEN N - wrapped_head ELSE QueueLen

(* as_slices and as_slices_mut: the part up to the end of data, then the   *)
(* part that wrapped to its start.                                         *)
First == [k \in 1 .. head_len |-> data[wrapped_head + k - 1]]

BadSecond == [k \in 1 .. QueueLen - head_len |-> data[head_len + k - 1]]

Second == [k \in 1 .. QueueLen - head_len |-> data[k - 1]]

Init ==
  /\ data = [s \in 0 .. N - 1 |-> 0]
  /\ head = 0 /\ tail = 0
  /\ status = "live"
  /\ pushed = 0 /\ popped = <<>>
  /\ discarded = <<>> /\ destroyed = <<>> /\ panicked = FALSE

BadPushUnchecked ==               \* tail does not wrap
  /\ data' = [data EXCEPT ![Slot(tail)] = pushed + 1]
  /\ tail' = tail + 1
  /\ pushed' = pushed + 1

(* push and try_push with room left.                                       *)
PushUnchecked ==
  /\ data' = [data EXCEPT ![Slot(tail)] = pushed + 1]
  /\ tail' = Wrap(tail + 1)
  /\ pushed' = pushed + 1

Push ==
  /\ status = "live" /\ pushed < MaxPushes
  /\ QueueLen # N
  /\ PushUnchecked
  /\ UNCHANGED <<head, status, popped, discarded, destroyed, panicked>>

Pop ==
  /\ status = "live"
  /\ head # tail
  /\ head' = Wrap(head + 1)
  /\ popped' = Append(popped, data[Slot(head)])
  /\ UNCHANGED <<data, tail, status, pushed, discarded, destroyed, panicked>>

BadForcePush ==                   \* the oldest value is not taken out
  /\ status = "live" /\ pushed < MaxPushes
  /\ QueueLen = N
  /\ PushUnchecked
  /\ UNCHANGED <<head, status, popped, discarded, destroyed, panicked>>

(* force_push into a full queue: the oldest value is popped and destroyed  *)
(* before the new one is written.  If its destructor panics the new value  *)
(* never enters; it is destroyed while unwinding, where a second panic     *)
(* aborts the process.  With room left, force_push is Push.                *)
ForcePush ==
  /\ status = "live" /\ pushed < MaxPushes
  /\ QueueLen = N
  /\ head' = Wrap(head + 1)
  /\ discarded' = Append(discarded, data[Slot(head)])
  /\ destroyed' = Append(destroyed, data[Slot(head)])
  /\ \/ /\ data[Slot(head)] \notin PanicOnDrop
        /\ PushUnchecked
        /\ UNCHANGED <<status, panicked>>
     \/ /\ data[Slot(head)] \in PanicOnDrop
        /\ status' \in {"live", "aborted"}
        /\ panicked' = TRUE
        /\ UNCHANGED <<data, tail, pushed>>
  /\ UNCHANGED popped

Panics(s) == {k \in DOMAIN s : s[k] \in PanicOnDrop}

BadClear(then) ==                 \* the counters are reset after the loops
  /\ discarded' = discarded \o First \o Second
  /\ destroyed' = destroyed \o First \o (IF Panics(First) = {} THEN Second ELSE <<>>)
  /\ IF Panics(First) = {} THEN head' = 0 /\ tail' = 0 ELSE UNCHANGED <<head, tail>>
  /\ panicked' = (panicked \/ Panics(First) # {})
  /\ status' = then
  /\ UNCHANGED <<data, pushed, popped>>

BadClearFirst(then) ==            \* only the first slice is dropped
  /\ head' = 0 /\ tail' = 0
  /\ discarded' = discarded \o First \o Second
  /\ destroyed' = destroyed \o First
  /\ panicked' = (panicked \/ Panics(First) # {})
  /\ status' = then
  /\ UNCHANGED <<data, pushed, popped>>

(* clear forgets every value, then destroys them: first, then second.      *)
(* Dropping a slice goes on after one panic, and aborts at the next; but a *)
(* panic in first means that second is never dropped.                      *)
ClearThen(then) ==
  LET dropping == IF Panics(First) = {} THEN <<First, Second>> ELSE <<First, <<>>>>
      panics   == Cardinality(Panics(dropping[1])) + Cardinality(Panics(dropping[2]))
  IN  /\ head' = 0 /\ tail' = 0
      /\ discarded' = discarded \o First \o Second
      /\ destroyed' = destroyed \o dropping[1] \o dropping[2]
      /\ panicked' = (panicked \/ panics > 0)
      /\ status' = IF panics > 1 THEN "aborted" ELSE then
      /\ UNCHANGED <<data, pushed, popped>>

Clear == status = "live" /\ ClearThen("live")

(* Drop is one more clear.                                                 *)
DropQueue == status = "live" /\ ClearThen("gone")

Next == Push \/ Pop \/ ForcePush \/ Clear \/ DropQueue

Spec == Init /\ [][Next]_vars

=============================================================================
