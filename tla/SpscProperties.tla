--------------------------- MODULE SpscProperties ----------------------------
(***************************************************************************)
(* What the SPSC channel must guarantee.                                   *)
(***************************************************************************)
EXTENDS SpscChannel

Unread == Len(received) + 1 .. sent

Store == [val : 0 .. UsizeMod - 1, view : Nat]

Cell == [val : Nat, wrote : Nat, read : Nat]

Thread == [pc : {"idle", "again", "load", "access", "publish", "gone"},
           call : {"try", "loop"}, seen : Nat \ {0}, view : Nat, own : Nat,
           val : Nat, len : 0 .. UsizeMod]

(* The variables keep their types; seen always names a store that exists.  *)
TypeOK ==
  /\ head \in Seq(Store) /\ Len(head) > 0
  /\ tail \in Seq(Store) /\ Len(tail) > 0
  /\ head_cache \in 0 .. UsizeMod - 1 /\ tail_cache \in 0 .. UsizeMod - 1
  /\ buffer \in [0 .. N - 1 -> Cell]
  /\ tx \in Thread /\ tx.seen <= Len(head)
  /\ rx \in Thread /\ rx.seen <= Len(tail)
  /\ sent \in Nat
  /\ received \in Seq(Nat) /\ dropped \in Seq(Nat)
  /\ storage \in {"live", "freed", "leaked"}

(* The acquire loads and release stores of push and pop order every slot   *)
(* access: when the producer is about to write a slot, the consumer's last *)
(* read of it happens before, and when the consumer is about to read one,  *)
(* the producer's last write of it happens before.                         *)
NoDataRace ==
  /\ tx.pc = "access" => buffer[Slot(tailNow)].read <= tx.view
  /\ rx.pc = "access" => buffer[Slot(headNow)].wrote <= rx.view

(* "There is space, according to current head": a push about to write its  *)
(* slot finds no message there that is still waiting to be received.       *)
WriteHasSpace ==
  tx.pc = "access" => buffer[Slot(tailNow)].val \notin Unread

(* Messages are received in the order they were sent, none lost, none      *)
(* twice, and never more than N are between the two counters.              *)
FifoOrder ==
  /\ received = [k \in 1 .. Len(received) |-> k]
  /\ sent - Len(received) \in 0 .. N

(* len() may be stale but errs on one side only, and stays so until the    *)
(* same handle's next push or pop: the Sender never sees fewer messages    *)
(* than there are nor more than N, the Receiver never more than there are. *)
LenSound ==
  /\ tx.len # NoLen => sent - Len(received) <= tx.len /\ tx.len <= N
  /\ rx.len # NoLen => rx.len <= sent - Len(received)

(* Check, then act: after is_full() said no, the Sender's next push does   *)
(* not return Err, and after is_empty() said no, the Receiver's next pop   *)
(* does not return None, although head_cache and tail_cache may be older   *)
(* than what len() read.                                                   *)
CheckThenAct ==
  [][/\ tx.pc = "load" /\ tx.len < N => tx'.pc \notin {"idle", "again"}
     /\ rx.pc = "load" /\ rx.len \in 1 .. UsizeMod - 1
          => rx'.pc \notin {"idle", "again"}]_vars

(* SyncQueue::drop destroys no message that was received and none twice,   *)
(* oldest first, even when a destructor panics in the middle.              *)
DroppedOnce ==
  received \o dropped = [k \in 1 .. Len(received) + Len(dropped) |-> k]

(* When the ring is freed, no message that owns something is left in it,   *)
(* unless tail has wrapped and head has not: the loop over head..tail then *)
(* visits nothing.                                                         *)
AllDropped ==
  storage = "freed" /\ ~ZeroSized /\ headNow <= tailNow
    => Len(received) + Len(dropped) = sent

(***************************************************************************)
(* Refinement: the messages between the counters, as the ring holds them,  *)
(* are a bounded FIFO.                                                     *)
(***************************************************************************)
InRing ==
  [k \in 1 .. Distance(tailNow, headNow) |-> buffer[Slot(Wrap(headNow + k - 1))].val]

Fifo == INSTANCE BoundedFifo WITH
          Capacity  <- N,
          Values    <- 1 .. MaxSends,
          queue     <- SubSeq(InRing, Len(dropped) + 1, Len(InRing)),
          taken     <- received,
          discarded <- dropped

(* Every step of the two threads is a Put, a Take, a Discard or invisible. *)
ImplementsFifo == Fifo!Spec

-----------------------------------------------------------------------------
(* try_send and try_receive are wait-free: scheduling the calling thread   *)
(* alone is enough for the call to return, whatever the other thread does  *)
(* and even if it stops in the middle of a call.                           *)
TryReturns ==
  /\ WF_vars(SenderStep) =>
       (tx.call = "try" /\ tx.pc # "gone") ~> (tx.pc \in {"idle", "gone"})
  /\ WF_vars(ReceiverStep) =>
       (rx.call = "try" /\ rx.pc # "gone") ~> (rx.pc \in {"idle", "gone"})

=============================================================================
