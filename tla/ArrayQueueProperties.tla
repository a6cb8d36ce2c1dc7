------------------------ MODULE ArrayQueueProperties -------------------------
(***************************************************************************)
(* What ArrayQueue must guarantee.                                         *)
(***************************************************************************)
EXTENDS ArrayQueue

(* How many values have left, and so the number of the oldest one inside.  *)
Left == Len(popped) + Len(discarded)

SetOf(s) == {s[k] : k \in DOMAIN s}

(* The variables keep their types and the counters stay in usize.          *)
TypeOK ==
  /\ data \in [0 .. N - 1 -> Nat]
  /\ head \in 0 .. UsizeMod - 1 /\ tail \in 0 .. UsizeMod - 1
  /\ status \in {"live", "gone", "aborted"}
  /\ pushed \in Nat
  /\ popped \in Seq(Nat) /\ discarded \in Seq(Nat) /\ destroyed \in Seq(Nat)
  /\ panicked \in BOOLEAN

(* "Management of head means it always points to a valid location, as long *)
(* as the queue is not empty": the slots from head to tail hold exactly    *)
(* the values that entered and have not left, oldest first, at most N,     *)
(* whatever was popped, overwritten, cleared or panicked before.           *)
HoldsInside ==
  /\ QueueLen = pushed - Left /\ QueueLen <= N
  /\ \A i \in 0 .. QueueLen - 1 : Get(i) = Left + i + 1

(* as_slices splits the ring without losing, repeating or reordering any   *)
(* of the values that get() finds by index.                                *)
SlicesAgree == First \o Second = [k \in 1 .. QueueLen |-> Get(k - 1)]

(* No value is popped or destroyed twice, and none that was is still       *)
(* inside, even if destructors panic in clear, force_push or drop: clear   *)
(* resets the counters first, so that what it did not destroy is leaked.   *)
UsedOnce ==
  LET used == popped \o destroyed
  IN  /\ Cardinality(SetOf(used)) = Len(used)
      /\ \A i \in 0 .. QueueLen - 1 : Get(i) \notin SetOf(used)

(* Unless a destructor panicked, a queue that is gone leaked nothing.      *)
NothingLeaked ==
  status = "gone" /\ ~panicked => SetOf(popped \o destroyed) = 1 .. pushed

Fifo == INSTANCE BoundedFifo WITH
          Capacity <- N,
          Values   <- 1 .. MaxPushes,
          queue    <- [k \in 1 .. QueueLen |-> Get(k - 1)],
          taken    <- popped

(* Refinement: every operation is a Put, Take, Replace or Discard of a     *)
(* bounded FIFO on the values that get() sees.                             *)
ImplementsFifo == Fifo!Spec

=============================================================================
