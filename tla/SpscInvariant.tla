--------------------------- MODULE SpscInvariant ----------------------------
(***************************************************************************)
(* The inductive invariant of the SPSC channel.  Position p of the stream  *)
(* of messages, counted from 0, is message p + 1 and lives in Slot(p); a   *)
(* counter holds Wrap(p) for a position p that only grows.  The properties *)
(* follow because any N consecutive positions live in different slots,     *)
(* fewer than UsizeMod positions are told apart by their counters, and     *)
(* both caches lag behind the counters they copy.                          *)
(***************************************************************************)
EXTENDS SpscProperties

(* What keeps the slots of the ring apart: a capacity that divides the     *)
(* range of usize, such as a power of two, or counters that never wrap.    *)
SlotsFit == UsizeMod % N = 0 \/ MaxSends <= UsizeMod

popped == Len(received)

(* The i-th store of a counter is of position i - 1, and everything the    *)
(* storing thread did to the first i - 1 positions happens before it.      *)
CountersInv ==
  /\ Len(tail) = sent + 1
  /\ \A i \in 1 .. sent + 1 : tail[i].val = Wrap(i - 1) /\ tail[i].view = i - 1
  /\ Len(head) = popped + 1
  /\ \A i \in 1 .. popped + 1 : head[i].val = Wrap(i - 1) /\ head[i].view = i - 1

(* head_cache is a copy of head at position h.  The producer knows that    *)
(* tx.view positions are free again, h lags behind that, and it writes     *)
(* only when h leaves room.                                                *)
SenderAt(h) ==
  /\ sent <= MaxSends
  /\ tx.pc \in {"again", "load", "access", "publish"} => sent < MaxSends
  /\ tx.own = IF tx.pc = "publish" THEN sent + 1 ELSE sent
  /\ tx.view = tx.seen - 1
  /\ head_cache = Wrap(h)
  /\ h <= tx.view
  /\ sent <= h + N
  /\ tx.pc \in {"access", "publish"} => sent < h + N
  /\ tx.len # NoLen => sent - tx.view <= tx.len /\ tx.len <= N

SenderInv == \E h \in 0 .. MaxSends : SenderAt(h)

(* The consumer, likewise: tail_cache is a copy of tail at position t.     *)
ReceiverAt(t) ==
  /\ rx.own = IF rx.pc = "publish" THEN popped + 1 ELSE popped
  /\ rx.view = rx.seen - 1
  /\ tail_cache = Wrap(t)
  /\ t <= rx.view
  /\ popped <= t
  /\ rx.pc \in {"access", "publish"} => popped < t
  /\ rx.pc = "publish" => rx.val = popped + 1
  /\ rx.len # NoLen => rx.len <= rx.view - popped

ReceiverInv == \E t \in 0 .. MaxSends : ReceiverAt(t)

(* The positions written and not yet received are in their slots, and no   *)
(* slot was ever written or read for a position that is not its own.       *)
RingInv ==
  /\ \A p \in 0 .. sent - 1 :
       p >= popped => buffer[Slot(p)].val = p + 1
  /\ tx.pc = "publish" => buffer[Slot(sent)].val = sent + 1
  /\ \A s \in 0 .. N - 1 :
       /\ buffer[s].wrote = buffer[s].val
       /\ buffer[s].val > 0 => Slot(buffer[s].val - 1) = s
       /\ buffer[s].read > 0 => Slot(buffer[s].read - 1) = s
       /\ buffer[s].read <= rx.own

(* What left the channel, through the receiver and through the drop.       *)
HistoryInv ==
  /\ \A k \in 1 .. popped : received[k] = k
  /\ \A k \in 1 .. Len(dropped) : dropped[k] = popped + k
  /\ storage = "live" => dropped = <<>>
  /\ storage # "live" => tx.pc = "gone" /\ rx.pc = "gone"
  /\ Len(dropped) <= sent - popped
  /\ storage = "freed" /\ ~ZeroSized /\ headNow <= tailNow
       => Len(dropped) = sent - popped

Inv == CountersInv /\ SenderInv /\ ReceiverInv /\ RingInv /\ HistoryInv

=============================================================================
