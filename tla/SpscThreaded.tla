---------------------------- MODULE SpscThreaded -----------------------------
(***************************************************************************)
(* The program of the repository's threaded tests: one thread calls send   *)
(* MaxSends times, the other calls receive MaxSends times, and each drops  *)
(* its handle when it is done.                                             *)
(***************************************************************************)
EXTENDS SpscProperties

SenderProgram ==
  \/ Push("loop")
  \/ SenderStep
  \/ sent = MaxSends /\ DropSender

ReceiverProgram ==
  \/ Len(received) < MaxSends /\ Pop("loop")
  \/ ReceiverStep
  \/ Len(received) = MaxSends /\ DropReceiver

ThreadedNext == SenderProgram \/ ReceiverProgram \/ DropQueue

(***************************************************************************)
(* Each thread is scheduled.  A store becomes visible in finite time: a    *)
(* thread that loads a counter again and again cannot read an old store    *)
(* for ever, so the load of the newest store is strongly fair.             *)
(***************************************************************************)
Scheduled ==
  /\ WF_vars(SenderProgram) /\ WF_vars(ReceiverProgram) /\ WF_vars(DropQueue)
  /\ SF_vars(PushLoadHead(Len(head)))
  /\ SF_vars(PopLoadTail(Len(tail)))

(* A handle was dropped before its loop was done.                          *)
LeftEarly ==
  \/ tx.pc = "gone" /\ sent < MaxSends
  \/ rx.pc = "gone" /\ Len(received) < MaxSends

(* The receiver waits for a message that will not come.                    *)
WaitsForMore == rx.call = "loop" /\ rx.pc \in {"load", "again"}

(* Neither thread spins for ever: whatever calls came first, once both     *)
(* threads run their loops and neither has left, all messages arrive, in   *)
(* order, and the storage is freed unless the receiver asked for one more. *)
AllDelivered ==
  Scheduled /\ <>[][ThreadedNext]_vars =>
    <>(\/ LeftEarly
       \/ /\ received = [k \in 1 .. MaxSends |-> k]
          /\ dropped = <<>>
          /\ storage = "freed" \/ WaitsForMore)

=============================================================================
