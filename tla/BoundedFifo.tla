----------------------------- MODULE BoundedFifo -----------------------------
(***************************************************************************)
(* What a bounded queue of this crate promises its clients: messages leave *)
(* in the order they entered, each once, and never more than Capacity are  *)
(* inside.  ArrayQueue and the SPSC channel are shown to implement it.     *)
(***************************************************************************)
EXTENDS Naturals, Sequences

CONSTANTS
  Capacity,   \* most messages the queue holds
  Values      \* what a message can be

VARIABLES
  queue,      \* the messages inside, oldest first
  taken,      \* the messages handed to the consumer, in order
  discarded   \* the messages destroyed inside the queue, in order

fifoVars == <<queue, taken, discarded>>

Init ==
  /\ queue = <<>>
  /\ taken = <<>>
  /\ discarded = <<>>

(* A message enters at the back when there is room.                        *)
Put(v) ==
  /\ Len(queue) < Capacity
  /\ queue' = Append(queue, v)
  /\ UNCHANGED <<taken, discarded>>

(* The oldest message goes to the consumer.                                *)
Take ==
  /\ queue # <<>>
  /\ taken' = Append(taken, Head(queue))
  /\ queue' = Tail(queue)
  /\ UNCHANGED discarded

(* A message enters a full queue in place of the oldest, which is lost.    *)
Replace(v) ==
  /\ Len(queue) = Capacity
  /\ queue' = Append(Tail(queue), v)
  /\ discarded' = Append(discarded, Head(queue))
  /\ UNCHANGED taken

(* The k oldest messages are destroyed.                                    *)
Discard(k) ==
  /\ k \in 1 .. Len(queue)
  /\ discarded' = discarded \o SubSeq(queue, 1, k)
  /\ queue' = SubSeq(queue, k + 1, Len(queue))
  /\ UNCHANGED taken

Next ==
  \/ \E v \in Values : Put(v) \/ Replace(v)
  \/ Take
  \/ \E k \in 1 .. Capacity : Discard(k)

Spec == Init /\ [][Next]_fifoVars

=============================================================================
