----------------------------- MODULE SpscProofs ------------------------------
(***************************************************************************)
(* Theorems about the SPSC channel: its types, for every capacity, message *)
(* bound and width of usize; its safety properties and that it implements  *)
(* a bounded FIFO, for every capacity, number of messages and set of       *)
(* panicking destructors, also when the counters wrap, as long as the      *)
(* capacity divides the range of usize.                                    *)
(***************************************************************************)
EXTENDS SpscInvariant, SharedLemmas

(* The counters stay in the range of usize.                                *)
LEMMA WrapRange ==
  ASSUME NEW n \in Nat
  PROVE  Wrap(n) \in 0 .. UsizeMod - 1
BY ConstantsAssumption DEF Wrap

(* A position of the sequence of messages falls in a slot of the ring.     *)
LEMMA SlotRange ==
  ASSUME NEW n \in Nat
  PROVE  Slot(n) \in 0 .. N - 1
BY ConstantsAssumption DEF Slot

(* What a load can return.                                                 *)
LEMMA LoadRange ==
  ASSUME NEW msgs \in Seq(Store), NEW i \in 1 .. Len(msgs)
  PROVE  /\ msgs[i].val \in 0 .. UsizeMod - 1
         /\ msgs[i].view \in Nat
<1>1. msgs[i] \in Store
  OBVIOUS
<1> QED
  BY <1>1 DEF Store

(* The store a thread reads from its own counter is one of the stores.     *)
LEMMA NowRange ==
  ASSUME TypeOK
  PROVE  /\ Len(head) \in Nat \ {0} /\ Len(tail) \in Nat \ {0}
         /\ headNow \in 0 .. UsizeMod - 1 /\ tailNow \in 0 .. UsizeMod - 1
         /\ headNow \in Nat /\ tailNow \in Nat
<1>1. Len(head) \in 1 .. Len(head) /\ Len(tail) \in 1 .. Len(tail)
  BY DEF TypeOK
<1>2. headNow \in 0 .. UsizeMod - 1 /\ tailNow \in 0 .. UsizeMod - 1
  BY <1>1, LoadRange DEF TypeOK, headNow, tailNow
<1> QED
  BY <1>1, <1>2, ConstantsAssumption

(* The fields of a thread and of a slot.                                   *)
LEMMA ThreadFields ==
  ASSUME NEW t \in Thread
  PROVE  /\ t.seen \in Nat \ {0} /\ t.view \in Nat /\ t.own \in Nat
         /\ t.val \in Nat /\ t.len \in 0 .. UsizeMod
BY DEF Thread

(* The fields of a cell of memory.                                         *)
LEMMA CellFields ==
  ASSUME NEW c \in Cell
  PROVE  c.val \in Nat /\ c.wrote \in Nat /\ c.read \in Nat
BY DEF Cell

(* A load leaves its thread well typed, whatever step it continues with.   *)
LEMMA AcquireType ==
  ASSUME NEW thread \in Thread, NEW msgs \in Seq(Store),
         NEW i \in 1 .. Len(msgs)
  PROVE  /\ Acquire(thread, msgs, i) \in Thread
         /\ Acquire(thread, msgs, i).seen = i
<1>1. Later(thread.view, msgs[i].view) \in Nat
  BY LoadRange DEF Later, Thread
<1>2. i \in Nat \ {0}
  OBVIOUS
<1> QED
  BY <1>1, <1>2 DEF Acquire, Thread

(* A release store leaves the modification order well typed.               *)
LEMMA ReleaseType ==
  ASSUME NEW thread \in Thread, NEW msgs \in Seq(Store), NEW v \in Nat
  PROVE  /\ Release(thread, msgs, Wrap(v)) \in Seq(Store)
         /\ Len(Release(thread, msgs, Wrap(v))) = Len(msgs) + 1
<1>1. [val |-> Wrap(v), view |-> thread.own] \in Store
  BY WrapRange DEF Store, Thread
<1> QED
  BY <1>1, AppendProperties DEF Release

(* What len() returns is a usize.                                          *)
LEMMA DistanceRange ==
  ASSUME NEW t \in Nat, NEW h \in 0 .. UsizeMod - 1
  PROVE  Distance(t, h) \in 0 .. UsizeMod
<1>1. t + UsizeMod - h \in Nat
  BY ConstantsAssumption
<1>2. Wrap(t + UsizeMod - h) \in 0 .. UsizeMod - 1
  BY <1>1, WrapRange
<1> QED
  BY <1>2, ConstantsAssumption DEF Distance

(* The loop of SyncQueue::drop visits slots of the ring.                   *)
LEMMA RemainingType ==
  ASSUME TypeOK
  PROVE  Remaining \in Seq(Nat)
<1> DEFINE n == IF tailNow >= headNow THEN tailNow - headNow ELSE 0
<1>1. n \in Nat /\ headNow \in Nat
  BY NowRange
<1>2. ASSUME NEW k \in 1 .. n PROVE buffer[Slot(headNow + k - 1)].val \in Nat
  <2>1. headNow + k - 1 \in Nat
    BY <1>1
  <2>2. buffer[Slot(headNow + k - 1)] \in Cell
    BY <2>1, SlotRange DEF TypeOK
  <2> QED
    BY <2>2 DEF Cell
<1> HIDE DEF n
<1>3. [k \in 1 .. n |-> buffer[Slot(headNow + k - 1)].val] \in Seq(Nat)
  BY <1>1, <1>2
<1> QED
  BY <1>3 DEF Remaining, n

(* The whole specification keeps the variables' types.                     *)
THEOREM TypeCorrect == Spec => []TypeOK
<1>1. Init => TypeOK
  BY ConstantsAssumption
  DEF Init, TypeOK, NewThread, ZeroStore, Thread, Store, NoLen
<1>2. TypeOK /\ [Next]_vars => TypeOK'
  <2> SUFFICES ASSUME TypeOK, [Next]_vars PROVE TypeOK'
    OBVIOUS
  <2> USE ConstantsAssumption
  <2>0. /\ Len(head) \in Nat \ {0} /\ Len(tail) \in Nat \ {0}
        /\ headNow \in 0 .. UsizeMod - 1 /\ tailNow \in 0 .. UsizeMod - 1
        /\ headNow \in Nat /\ tailNow \in Nat
        /\ headNow + 1 \in Nat /\ tailNow + 1 \in Nat
        /\ head \in Seq(Store) /\ tail \in Seq(Store)
        /\ tx \in Thread /\ rx \in Thread
        /\ tx.seen <= Len(head) /\ rx.seen <= Len(tail)
        /\ tx.seen \in Nat /\ rx.seen \in Nat
        /\ sent \in Nat /\ UsizeMod \in Nat
    BY NowRange, ThreadFields DEF TypeOK
  <2>1. ASSUME NEW call \in {"try", "loop"}, PushCheck(call) PROVE TypeOK'
    BY <2>1 DEF TypeOK, PushCheck, atomics, caches, history, Thread
  <2>2. ASSUME NEW i \in 1 .. Len(head), PushLoadHead(i) PROVE TypeOK'
    <3>1. Acquire(tx, head, i) \in Thread /\ Acquire(tx, head, i).seen = i
      BY AcquireType DEF TypeOK
    <3>2. tx' \in Thread /\ tx'.seen = i
      BY <2>2, <3>1 DEF PushLoadHead, Thread, Refused
    <3>3. head_cache' \in 0 .. UsizeMod - 1
      BY <2>2, LoadRange DEF PushLoadHead, TypeOK
    <3>4. /\ head' = head /\ tail' = tail /\ tail_cache' = tail_cache
          /\ buffer' = buffer /\ rx' = rx /\ sent' = sent
          /\ received' = received /\ dropped' = dropped /\ storage' = storage
      BY <2>2 DEF PushLoadHead, atomics, history
    <3>5. tx'.seen <= Len(head')
      BY <2>0, <3>2, <3>4
    <3> QED
      BY <3>2, <3>3, <3>4, <3>5 DEF TypeOK
  <2>3. CASE PushWrite
    <3>1. Slot(tailNow) \in 0 .. N - 1
      BY <2>0, SlotRange
    <3>2. buffer[Slot(tailNow)] \in Cell
      BY <3>1 DEF TypeOK
    <3>3. /\ sent + 1 \in Nat /\ tx.own + 1 \in Nat
          /\ buffer[Slot(tailNow)].read \in Nat
      BY <2>0, <3>2, ThreadFields, CellFields
    <3>4. [val |-> sent + 1, wrote |-> tx.own + 1,
           read |-> buffer[Slot(tailNow)].read] \in Cell
      BY <3>3 DEF Cell
    <3>5. buffer' \in [0 .. N - 1 -> Cell]
      BY <2>3, <3>1, <3>4 DEF TypeOK, PushWrite
    <3>6. tx' \in Thread /\ tx'.seen = tx.seen
      BY <2>3, <3>3 DEF TypeOK, PushWrite, Thread
    <3> QED
      BY <2>3, <3>5, <3>6 DEF TypeOK, PushWrite, atomics, caches, history
  <2>4. CASE PushPublish
    <3>1. tail' \in Seq(Store) /\ Len(tail') = Len(tail) + 1
      BY <2>0, <2>4, ReleaseType DEF PushPublish
    <3>2. tx' = [tx EXCEPT !.pc = "idle", !.len = NoLen]
      BY <2>4 DEF PushPublish
    <3>3. NoLen \in 0 .. UsizeMod
      BY <2>0 DEF NoLen
    <3>4. tx' \in Thread /\ tx'.seen = tx.seen
      BY <2>0, <3>2, <3>3 DEF Thread
    <3>5. Len(tail') > 0 /\ rx.seen <= Len(tail')
      BY <2>0, <3>1
    <3>6. /\ head' = head /\ head_cache' = head_cache /\ tail_cache' = tail_cache
          /\ buffer' = buffer /\ rx' = rx /\ received' = received
          /\ dropped' = dropped /\ storage' = storage /\ sent' = sent + 1
      BY <2>4 DEF PushPublish, caches
    <3> QED
      BY <2>0, <3>1, <3>4, <3>5, <3>6 DEF TypeOK
  <2>5. ASSUME NEW i \in 1 .. Len(head), SenderLen(i) PROVE TypeOK'
    <3>1. Acquire(tx, head, i) \in Thread /\ Acquire(tx, head, i).seen = i
      BY AcquireType DEF TypeOK
    <3>2. head[i].val \in 0 .. UsizeMod - 1 /\ head[i].val \in Nat
      BY <2>0, LoadRange
    <3>3. Distance(tailNow, head[i].val) \in 0 .. UsizeMod
      BY <2>0, <3>2, DistanceRange
    <3>4. tx' \in Thread /\ tx'.seen = i
      BY <2>5, <3>1, <3>3 DEF SenderLen, Thread
    <3> QED
      BY <2>5, <3>4 DEF TypeOK, SenderLen, atomics, caches, history
  <2>6. CASE DropSender
    BY <2>6 DEF TypeOK, DropSender, atomics, caches, history, Thread
  <2>7. ASSUME NEW call \in {"try", "loop"}, PopCheck(call) PROVE TypeOK'
    BY <2>7 DEF TypeOK, PopCheck, atomics, caches, history, Thread
  <2>8. ASSUME NEW i \in 1 .. Len(tail), PopLoadTail(i) PROVE TypeOK'
    <3>1. Acquire(rx, tail, i) \in Thread /\ Acquire(rx, tail, i).seen = i
      BY AcquireType DEF TypeOK
    <3>2. rx' \in Thread /\ rx'.seen = i
      BY <2>8, <3>1 DEF PopLoadTail, Thread, Refused
    <3>3. tail_cache' \in 0 .. UsizeMod - 1
      BY <2>8, LoadRange DEF PopLoadTail, TypeOK
    <3>4. /\ head' = head /\ tail' = tail /\ head_cache' = head_cache
          /\ buffer' = buffer /\ tx' = tx /\ sent' = sent
          /\ received' = received /\ dropped' = dropped /\ storage' = storage
      BY <2>8 DEF PopLoadTail, atomics, history
    <3>5. rx'.seen <= Len(tail')
      BY <2>0, <3>2, <3>4
    <3> QED
      BY <3>2, <3>3, <3>4, <3>5 DEF TypeOK
  <2>9. CASE PopRead
    <3>1. Slot(headNow) \in 0 .. N - 1
      BY <2>0, SlotRange
    <3>2. buffer[Slot(headNow)] \in Cell
      BY <3>1 DEF TypeOK
    <3>3. /\ rx.own + 1 \in Nat
          /\ buffer[Slot(headNow)].val \in Nat
          /\ buffer[Slot(headNow)].wrote \in Nat
      BY <2>0, <3>2, ThreadFields, CellFields
    <3>4. [val |-> buffer[Slot(headNow)].val,
           wrote |-> buffer[Slot(headNow)].wrote, read |-> rx.own + 1] \in Cell
      BY <3>3 DEF Cell
    <3>5. buffer' \in [0 .. N - 1 -> Cell]
      BY <2>9, <3>1, <3>4 DEF TypeOK, PopRead
    <3>6. ReadValues(Slot(headNow)) \subseteq Nat
      BY <3>3 DEF ReadValues
    <3>7. rx' \in Thread /\ rx'.seen = rx.seen
      BY <2>9, <3>3, <3>6 DEF TypeOK, PopRead, Thread
    <3> QED
      BY <2>9, <3>5, <3>7 DEF TypeOK, PopRead, atomics, caches, history
  <2>10. CASE PopPublish
    <3>1. head' \in Seq(Store) /\ Len(head') = Len(head) + 1
      BY <2>0, <2>10, ReleaseType DEF PopPublish
    <3>2. rx' = [rx EXCEPT !.pc = "idle", !.len = NoLen]
      BY <2>10 DEF PopPublish
    <3>3. NoLen \in 0 .. UsizeMod
      BY <2>0 DEF NoLen
    <3>4. rx' \in Thread /\ rx'.seen = rx.seen
      BY <2>0, <3>2, <3>3 DEF Thread
    <3>5. rx.val \in Nat
      BY DEF TypeOK, Thread
    <3>6. received' \in Seq(Nat)
      BY <2>10, <3>5 DEF TypeOK, PopPublish
    <3>7. Len(head') > 0 /\ tx.seen <= Len(head')
      BY <2>0, <3>1
    <3>8. /\ tail' = tail /\ head_cache' = head_cache /\ tail_cache' = tail_cache
          /\ buffer' = buffer /\ tx' = tx /\ sent' = sent
          /\ dropped' = dropped /\ storage' = storage
      BY <2>10 DEF PopPublish, caches
    <3> QED
      BY <2>0, <3>1, <3>4, <3>6, <3>7, <3>8 DEF TypeOK
  <2>11. ASSUME NEW i \in 1 .. Len(tail), ReceiverLen(i) PROVE TypeOK'
    <3>1. Acquire(rx, tail, i) \in Thread /\ Acquire(rx, tail, i).seen = i
      BY AcquireType DEF TypeOK
    <3>2. tail[i].val \in 0 .. UsizeMod - 1 /\ tail[i].val \in Nat
      BY <2>0, LoadRange
    <3>3. Distance(tail[i].val, headNow) \in 0 .. UsizeMod
      BY <2>0, <3>2, DistanceRange
    <3>4. rx' \in Thread /\ rx'.seen = i
      BY <2>11, <3>1, <3>3 DEF ReceiverLen, Thread
    <3> QED
      BY <2>11, <3>4 DEF TypeOK, ReceiverLen, atomics, caches, history
  <2>12. CASE DropReceiver
    BY <2>12 DEF TypeOK, DropReceiver, atomics, caches, history, Thread
  <2>13. CASE DropQueue
    <3>1. Remaining \in Seq(Nat)
      BY RemainingType
    <3>2. \A k \in DOMAIN Remaining : SubSeq(Remaining, 1, k) \in Seq(Nat)
      BY <3>1, SubSeqProperties
    <3>3. dropped \in Seq(Nat)
      BY DEF TypeOK
    <3>4. dropped' \in Seq(Nat)
      BY <2>13, <3>1, <3>2, <3>3 DEF DropQueue
    <3>5. storage' \in {"live", "freed", "leaked"}
      BY <2>13 DEF DropQueue
    <3> QED
      BY <2>13, <3>4, <3>5 DEF TypeOK, DropQueue, atomics, caches
  <2>14. CASE UNCHANGED vars
    BY <2>14 DEF TypeOK, vars, atomics, caches, history
  <2> QED
    BY <2>1, <2>2, <2>3, <2>4, <2>5, <2>6, <2>7, <2>8, <2>9, <2>10, <2>11,
       <2>12, <2>13, <2>14
    DEF Next, SenderNext, ReceiverNext, SenderStep, ReceiverStep, Push, PushAgain,
        Pop, PopAgain
<1> QED
  BY <1>1, <1>2, PTL DEF Spec

-----------------------------------------------------------------------------
(* Any N consecutive positions of the stream live in different slots.      *)
LEMMA SlotsDiffer ==
  ASSUME NEW a \in Nat, NEW b \in Nat, a < b, b < a + N
  PROVE  Slot(a) # Slot(b)
<1> USE ConstantsAssumption
<1> DEFINE qa == a \div N
           qb == b \div N
<1>1. qa \in Nat /\ qb \in Nat
  OBVIOUS
<1>2. a = N * qa + (a % N) /\ b = N * qb + (b % N)
  OBVIOUS
<1>3. a % N \in Nat /\ b % N \in Nat
  OBVIOUS
<1> HIDE DEF qa, qb
<1>4. SUFFICES ASSUME a % N = b % N PROVE FALSE
  BY DEF Slot
<1>5. b - a = N * (qb - qa)
  BY <1>1, <1>2, <1>3, <1>4
<1>6. qb - qa \in Int /\ b - a \in 1 .. N - 1
  BY <1>1
<1>7. qb - qa > 0
  BY <1>1, <1>5, <1>6
<1>8. N * (qb - qa) >= N
  BY <1>1, <1>6, <1>7
<1> QED
  BY <1>5, <1>6, <1>8

(* Numbers below the end of usize do not wrap.                             *)
LEMMA WrapSmall ==
  ASSUME NEW n \in Nat, n < UsizeMod
  PROVE  Wrap(n) = n
BY ConstantsAssumption DEF Wrap

(* A number and its counter differ by a multiple of the range of usize.    *)
LEMMA WrapOf ==
  ASSUME NEW n \in Nat
  PROVE  \E q \in Nat : n = UsizeMod * q + Wrap(n)
<1>1. UsizeMod \in Nat \ {0}
  BY ConstantsAssumption
<1>2. n \div UsizeMod \in Nat /\ n = UsizeMod * (n \div UsizeMod) + (n % UsizeMod)
  BY <1>1
<1> QED
  BY <1>2 DEF Wrap

(* Conversely, that multiple does not change the counter.                  *)
LEMMA WrapIs ==
  ASSUME NEW n \in Nat, NEW q \in Int, NEW r \in 0 .. UsizeMod - 1,
         n = UsizeMod * q + r
  PROVE  Wrap(n) = r
<1>1. UsizeMod \in Nat \ {0}
  BY ConstantsAssumption
<1> QED
  BY <1>1, Remainder DEF Wrap

(* Arithmetic on a counter is arithmetic on its position.                  *)
LEMMA WrapAdd ==
  ASSUME NEW n \in Nat, NEW k \in Nat
  PROVE  Wrap(Wrap(n) + k) = Wrap(n + k)
<1> DEFINE w == Wrap(n)
           r == Wrap(w + k)
<1>1. UsizeMod \in Nat \ {0} /\ w \in Nat
  BY ConstantsAssumption, WrapRange
<1>2. PICK p \in Nat : n = UsizeMod * p + w
  BY WrapOf
<1> HIDE DEF w
<1>3. PICK q \in Nat : w + k = UsizeMod * q + r
  BY <1>1, WrapOf
<1>4. r \in 0 .. UsizeMod - 1
  BY <1>1, WrapRange
<1> HIDE DEF r
<1>5. n + k = UsizeMod * (p + q) + r
  BY <1>1, <1>2, <1>3, <1>4
<1>6. Wrap(n + k) = r
  BY <1>4, <1>5, WrapIs
<1> QED
  BY <1>6 DEF r, w

(* The distance of two positions less than UsizeMod apart is the           *)
(* wrapping difference of their counters.                                  *)
LEMMA DistanceIs ==
  ASSUME NEW a \in Nat, NEW b \in Nat, b <= a, a - b < UsizeMod
  PROVE  Distance(Wrap(a), Wrap(b)) = a - b
<1> DEFINE wa == Wrap(a)
           wb == Wrap(b)
<1>1. /\ UsizeMod \in Nat \ {0}
      /\ wa \in 0 .. UsizeMod - 1 /\ wb \in 0 .. UsizeMod - 1
  BY ConstantsAssumption, WrapRange
<1>2. PICK p \in Nat : a = UsizeMod * p + wa
  BY WrapOf
<1>3. PICK q \in Nat : b = UsizeMod * q + wb
  BY WrapOf
<1> HIDE DEF wa, wb
<1>4. wa + UsizeMod - wb = UsizeMod * (q - p + 1) + (a - b)
  BY <1>1, <1>2, <1>3
<1>5. /\ wa + UsizeMod - wb \in Nat /\ q - p + 1 \in Int
      /\ a - b \in 0 .. UsizeMod - 1
  BY <1>1
<1>6. Wrap(wa + UsizeMod - wb) = a - b
  BY <1>4, <1>5, WrapIs
<1> QED
  BY <1>6 DEF Distance, wa, wb

(* Such positions are told apart by their counters.                        *)
LEMMA WrapEqual ==
  ASSUME NEW a \in Nat, NEW b \in Nat, b <= a, a - b < UsizeMod
  PROVE  Wrap(a) = Wrap(b) <=> a = b
<1>1. UsizeMod \in Nat \ {0} /\ Wrap(b) \in Nat
  BY ConstantsAssumption, WrapRange
<1>2. Distance(Wrap(a), Wrap(b)) = a - b
  BY DistanceIs
<1>3. ASSUME Wrap(a) = Wrap(b) PROVE a = b
  <2> DEFINE w == Wrap(b)
  <2>1. w \in Nat /\ Distance(w, w) = a - b
    BY <1>1, <1>2, <1>3
  <2> HIDE DEF w
  <2>2. w + UsizeMod - w = UsizeMod
    BY <1>1, <2>1
  <2>3. UsizeMod % UsizeMod = 0
    BY <1>1
  <2>4. Distance(w, w) = 0
    BY <2>2, <2>3 DEF Distance, Wrap
  <2> QED
    BY <2>1, <2>4
<1> QED
  BY <1>3

(* The counter of a position leads to the slot of the position.            *)
LEMMA SlotWrap ==
  ASSUME SlotsFit, NEW p \in Nat, p < MaxSends
  PROVE  Slot(Wrap(p)) = Slot(p)
<1>1. N \in Nat \ {0} /\ UsizeMod \in Nat \ {0} /\ MaxSends \in Nat
  BY ConstantsAssumption
<1>2. CASE p < UsizeMod
  BY <1>2, WrapSmall
<1>3. CASE ~(p < UsizeMod)
  <2> DEFINE w == Wrap(p)
             m == UsizeMod \div N
             r == w % N
  <2>1. UsizeMod % N = 0
    BY <1>1, <1>3 DEF SlotsFit
  <2>2. UsizeMod = N * m /\ m \in Int
    BY <1>1, <2>1
  <2>3. PICK q \in Nat : p = UsizeMod * q + w
    BY WrapOf
  <2>4. w \in Nat
    BY WrapRange, <1>1
  <2> HIDE DEF w, m
  <2>5. w = N * (w \div N) + r /\ w \div N \in Int /\ r \in 0 .. N - 1
    BY <1>1, <2>4
  <2> DEFINE d == w \div N
  <2>6. w = N * d + r /\ d \in Int /\ r \in 0 .. N - 1
    BY <2>5
  <2> HIDE DEF r, d
  <2>7. (N * m) * q = N * (m * q) /\ m * q \in Int
    BY <1>1, <2>2
  <2>8. p = N * (m * q + d) + r /\ m * q + d \in Int
    BY <1>1, <2>2, <2>3, <2>6, <2>7
  <2>9. p % N = r
    BY <1>1, <2>6, <2>8, Remainder
  <2> QED
    BY <2>9 DEF Slot, w, r
<1> QED
  BY <1>2, <1>3

-----------------------------------------------------------------------------
(* The invariant with the positions of the two caches named.               *)
InvAt(h, t) ==
  CountersInv /\ SenderAt(h) /\ ReceiverAt(t) /\ RingInv /\ HistoryInv

(* The invariant says that there are such positions.                       *)
LEMMA InvIs ==
  Inv <=> \E h \in 0 .. MaxSends, t \in 0 .. MaxSends : InvAt(h, t)
BY DEF Inv, InvAt, SenderInv, ReceiverInv

(* What the invariant says of the counters and of the caches, as numbers.  *)
LEMMA Facts ==
  ASSUME TypeOK, NEW h \in 0 .. MaxSends, NEW t \in 0 .. MaxSends, InvAt(h, t)
  PROVE  /\ N \in Nat \ {0} /\ UsizeMod \in Nat /\ MaxSends \in Nat
         /\ N < UsizeMod
         /\ sent \in Nat /\ popped \in Nat /\ h \in Nat /\ t \in Nat
         /\ tailNow = Wrap(sent) /\ headNow = Wrap(popped)
         /\ Len(head) = popped + 1 /\ Len(tail) = sent + 1
         /\ head_cache = Wrap(h) /\ tail_cache = Wrap(t)
         /\ tx.seen \in Nat \ {0} /\ tx.seen <= popped + 1
         /\ tx.view \in Nat /\ tx.own \in Nat /\ tx.len \in 0 .. UsizeMod
         /\ rx.seen \in Nat \ {0} /\ rx.seen <= sent + 1
         /\ rx.view \in Nat /\ rx.own \in Nat /\ rx.len \in 0 .. UsizeMod
         /\ h <= tx.view /\ tx.view <= popped
         /\ h <= popped /\ popped <= sent
         /\ popped <= t /\ t <= rx.view /\ rx.view <= sent
         /\ sent <= h + N /\ sent <= MaxSends
<1>1. N \in Nat \ {0} /\ UsizeMod \in Nat /\ MaxSends \in Nat /\ N < UsizeMod
  BY ConstantsAssumption
<1>2. sent \in Nat /\ popped \in Nat
  BY DEF TypeOK, popped
<1>3. h \in Nat /\ t \in Nat
  BY <1>1
<1>4. /\ tx \in Thread /\ rx \in Thread
      /\ tx.seen <= Len(head) /\ rx.seen <= Len(tail)
  BY DEF TypeOK
<1>5. /\ Len(head) = popped + 1 /\ Len(tail) = sent + 1
      /\ head[popped + 1].val = Wrap(popped) /\ tail[sent + 1].val = Wrap(sent)
  <2>1. /\ popped + 1 \in 1 .. popped + 1 /\ (popped + 1) - 1 = popped
        /\ sent + 1 \in 1 .. sent + 1 /\ (sent + 1) - 1 = sent
    BY <1>2
  <2> QED
    BY <2>1 DEF InvAt, CountersInv
<1>6. tailNow = Wrap(sent) /\ headNow = Wrap(popped)
  BY <1>5 DEF tailNow, headNow
<1>7. /\ tx.seen \in Nat \ {0} /\ tx.view \in Nat /\ tx.own \in Nat
      /\ rx.seen \in Nat \ {0} /\ rx.view \in Nat /\ rx.own \in Nat
      /\ tx.len \in 0 .. UsizeMod /\ rx.len \in 0 .. UsizeMod
  BY <1>4, ThreadFields
<1>8. /\ tx.view = tx.seen - 1 /\ head_cache = Wrap(h) /\ h <= tx.view
      /\ sent <= h + N /\ sent <= MaxSends
      /\ rx.view = rx.seen - 1 /\ tail_cache = Wrap(t) /\ t <= rx.view /\ popped <= t
  BY DEF InvAt, SenderAt, ReceiverAt
<1>9. tx.seen <= popped + 1 /\ rx.seen <= sent + 1
  BY <1>4, <1>5
<1>10. tx.view <= popped /\ rx.view <= sent
  BY <1>2, <1>7, <1>8, <1>9
<1>11. h <= popped /\ popped <= sent
  BY <1>2, <1>3, <1>7, <1>8, <1>10
<1> QED
  BY <1>1, <1>2, <1>3, <1>5, <1>6, <1>7, <1>8, <1>9, <1>10, <1>11

(* What a load of either counter returns, and what an acquire load of it   *)
(* makes of the thread.                                                    *)
LEMMA HeadLoad ==
  ASSUME TypeOK, NEW h \in 0 .. MaxSends, NEW t \in 0 .. MaxSends, InvAt(h, t),
         NEW i \in tx.seen .. Len(head)
  PROVE  /\ i \in 1 .. Len(head) /\ head[i].val = Wrap(i - 1)
         /\ Acquire(tx, head, i) = [tx EXCEPT !.seen = i, !.view = i - 1]
<1>0. /\ popped \in Nat /\ Len(head) = popped + 1 /\ tx.view \in Nat
      /\ tx.seen \in Nat \ {0}
  BY Facts
<1>1. i \in Nat /\ i >= tx.seen /\ i >= 1 /\ i \in 1 .. popped + 1
  BY <1>0
<1>2. head[i].val = Wrap(i - 1) /\ head[i].view = i - 1
  BY <1>1 DEF InvAt, CountersInv
<1>3. tx.view = tx.seen - 1
  BY DEF InvAt, SenderAt
<1>4. Later(tx.view, head[i].view) = i - 1
  BY <1>0, <1>1, <1>2, <1>3 DEF Later
<1> QED
  BY <1>0, <1>1, <1>2, <1>4 DEF Acquire

(* The same for the consumer's load of tail.                               *)
LEMMA TailLoad ==
  ASSUME TypeOK, NEW h \in 0 .. MaxSends, NEW t \in 0 .. MaxSends, InvAt(h, t),
         NEW i \in rx.seen .. Len(tail)
  PROVE  /\ i \in 1 .. Len(tail) /\ tail[i].val = Wrap(i - 1)
         /\ Acquire(rx, tail, i) = [rx EXCEPT !.seen = i, !.view = i - 1]
<1>0. /\ sent \in Nat /\ Len(tail) = sent + 1 /\ rx.view \in Nat
      /\ rx.seen \in Nat \ {0}
  BY Facts
<1>1. i \in Nat /\ i >= rx.seen /\ i >= 1 /\ i \in 1 .. sent + 1
  BY <1>0
<1>2. tail[i].val = Wrap(i - 1) /\ tail[i].view = i - 1
  BY <1>1 DEF InvAt, CountersInv
<1>3. rx.view = rx.seen - 1
  BY DEF InvAt, ReceiverAt
<1>4. Later(rx.view, tail[i].view) = i - 1
  BY <1>0, <1>1, <1>2, <1>3 DEF Later
<1> QED
  BY <1>0, <1>1, <1>2, <1>4 DEF Acquire

(* The two tests compare positions, although they are given counters.      *)
LEMMA FullMeans ==
  ASSUME TypeOK, NEW h \in 0 .. MaxSends, NEW t \in 0 .. MaxSends, InvAt(h, t),
         NEW k \in Nat, h <= k, k <= popped
  PROVE  Full(tailNow, Wrap(k)) <=> sent = k + N
<1>0. /\ popped \in Nat /\ sent \in Nat /\ N \in Nat /\ UsizeMod \in Nat
      /\ N < UsizeMod /\ h \in Nat /\ popped <= sent /\ sent <= h + N
      /\ tailNow = Wrap(sent)
  BY Facts
<1>1. Wrap(Wrap(k) + N) = Wrap(k + N)
  BY <1>0, WrapAdd
<1>2. k + N \in Nat /\ sent <= k + N /\ (k + N) - sent < UsizeMod
  BY <1>0
<1>3. Wrap(k + N) = Wrap(sent) <=> k + N = sent
  BY <1>0, <1>2, WrapEqual
<1> QED
  BY <1>0, <1>1, <1>3 DEF Full

(* The same for the consumer's test.                                       *)
LEMMA EmptyMeans ==
  ASSUME TypeOK, NEW h \in 0 .. MaxSends, NEW t \in 0 .. MaxSends, InvAt(h, t),
         NEW k \in Nat, popped <= k, k <= sent
  PROVE  Empty(headNow, Wrap(k)) <=> popped = k
<1>0. /\ popped \in Nat /\ sent \in Nat /\ N \in Nat /\ UsizeMod \in Nat
      /\ N < UsizeMod /\ h \in Nat /\ h <= popped /\ sent <= h + N
      /\ headNow = Wrap(popped)
  BY Facts
<1>1. k - popped < UsizeMod
  BY <1>0
<1>2. Wrap(k) = Wrap(popped) <=> k = popped
  BY <1>0, <1>1, WrapEqual
<1> QED
  BY <1>0, <1>2 DEF Empty

-----------------------------------------------------------------------------
(* A new channel satisfies the invariant.                                  *)
LEMMA InitInv == Init => Inv
<1> SUFFICES ASSUME Init PROVE Inv
  OBVIOUS
<1> USE ConstantsAssumption
<1>1. popped = 0 /\ sent = 0 /\ Len(dropped) = 0
  BY DEF Init, popped
<1>2. Wrap(0) = 0
  BY WrapSmall
<1>3. CountersInv
  BY <1>1, <1>2 DEF Init, CountersInv, ZeroStore
<1>4. SenderAt(0) /\ ReceiverAt(0) /\ 0 \in 0 .. MaxSends
  BY <1>1, <1>2 DEF Init, SenderAt, ReceiverAt, NewThread, NoLen
<1>5. RingInv
  BY <1>1 DEF Init, RingInv, NewThread
<1>6. HistoryInv
  BY <1>1 DEF Init, HistoryInv, NewThread
<1> QED
  BY <1>3, <1>4, <1>5, <1>6 DEF Inv, SenderInv, ReceiverInv

(* push up to its first test: it goes on to the slot only if head_cache    *)
(* leaves room.                                                            *)
LEMMA PushCheckInv ==
  ASSUME SlotsFit, TypeOK,
         NEW h \in 0 .. MaxSends, NEW t \in 0 .. MaxSends, InvAt(h, t),
         sent < MaxSends, tx.pc \in {"idle", "again"}, NEW call \in {"try", "loop"}, PushCheck(call)
  PROVE  InvAt(h, t)'
<1>1. /\ head' = head /\ tail' = tail /\ head_cache' = head_cache
      /\ tail_cache' = tail_cache /\ buffer' = buffer /\ rx' = rx
      /\ sent' = sent /\ received' = received /\ dropped' = dropped
      /\ storage' = storage /\ popped' = popped
      /\ headNow' = headNow /\ tailNow' = tailNow
  BY DEF PushCheck, atomics, caches, history, popped, headNow, tailNow
<1>2. /\ tx'.own = tx.own /\ tx'.view = tx.view /\ tx'.seen = tx.seen
      /\ tx'.len = tx.len
      /\ tx'.pc = IF Full(tailNow, head_cache) THEN "load" ELSE "access"
  BY DEF PushCheck, TypeOK, Thread
<1>3. tx'.pc = "access" => sent < h + N
  <2>1. /\ h \in Nat /\ h <= popped /\ sent \in Nat
        /\ N \in Nat /\ sent <= h + N /\ head_cache = Wrap(h)
    BY Facts
  <2>2. Full(tailNow, Wrap(h)) <=> sent = h + N
    BY <2>1, FullMeans
  <2> QED
    BY <1>2, <2>1, <2>2
<1>4. tx'.pc \in {"load", "access"}
  BY <1>2
<1>5. CountersInv' /\ ReceiverAt(t)'
  BY <1>1 DEF InvAt, CountersInv, ReceiverAt
<1>6. SenderAt(h)'
  BY <1>1, <1>2, <1>3, <1>4 DEF InvAt, SenderAt, NoLen
<1>7. RingInv'
  BY <1>1, <1>4 DEF InvAt, RingInv
<1>8. HistoryInv'
  BY <1>1, <1>4 DEF InvAt, HistoryInv
<1> QED
  BY <1>5, <1>6, <1>7, <1>8 DEF InvAt

(* The refresh of head_cache: a load never returns a store older than one  *)
(* already read, so the cache only grows.                                  *)
LEMMA PushLoadHeadInv ==
  ASSUME SlotsFit, TypeOK,
         NEW h \in 0 .. MaxSends, NEW t \in 0 .. MaxSends, InvAt(h, t),
         NEW i \in 1 .. Len(head), PushLoadHead(i)
  PROVE  i - 1 \in 0 .. MaxSends /\ InvAt(i - 1, t)'
<1>0. /\ i \in tx.seen .. Len(head) /\ i \in Nat /\ i >= tx.seen
      /\ tx.seen \in Nat /\ popped \in Nat /\ i - 1 \in Nat /\ i - 1 <= popped
      /\ h \in Nat /\ sent \in Nat /\ N \in Nat /\ UsizeMod \in Nat
      /\ h <= tx.seen - 1 /\ tx.view = tx.seen - 1
      /\ sent <= h + N /\ tx.len \in 0 .. UsizeMod /\ popped <= sent
      /\ sent <= MaxSends /\ MaxSends \in Nat
  <2>1. i \in tx.seen .. Len(head)
    BY DEF PushLoadHead
  <2>2. tx.view = tx.seen - 1
    BY DEF InvAt, SenderAt
  <2>3. /\ Len(head) = popped + 1 /\ popped \in Nat /\ tx.seen \in Nat \ {0}
        /\ h \in Nat /\ h <= tx.view /\ sent \in Nat
        /\ N \in Nat /\ UsizeMod \in Nat /\ tx.len \in 0 .. UsizeMod
        /\ sent <= h + N /\ popped <= sent
        /\ sent <= MaxSends /\ MaxSends \in Nat
    BY Facts
  <2> QED
    BY <2>1, <2>2, <2>3
<1>1. /\ head' = head /\ tail' = tail /\ tail_cache' = tail_cache
      /\ buffer' = buffer /\ rx' = rx
      /\ sent' = sent /\ received' = received /\ dropped' = dropped
      /\ storage' = storage /\ popped' = popped
      /\ headNow' = headNow /\ tailNow' = tailNow
  BY DEF PushLoadHead, atomics, history, popped, headNow, tailNow
<1>2. /\ head[i].val = Wrap(i - 1)
      /\ Acquire(tx, head, i) = [tx EXCEPT !.seen = i, !.view = i - 1]
  BY <1>0, HeadLoad
<1>3. head_cache' = Wrap(i - 1)
  BY <1>2 DEF PushLoadHead
<1>4. Full(tailNow, Wrap(i - 1)) <=> sent = i - 1 + N
  <2>1. h <= i - 1
    BY <1>0
  <2> QED
    BY <1>0, <2>1, FullMeans
<1>5. /\ tx'.own = tx.own /\ tx'.view = i - 1 /\ tx'.seen = i
      /\ tx'.len = tx.len
      /\ tx'.pc = IF ~Full(tailNow, Wrap(i - 1)) THEN "access" ELSE Refused(tx.call)
  BY <1>2 DEF PushLoadHead, TypeOK, Thread
<1>6. tx'.pc \in {"access", "again", "idle"} /\ tx.pc = "load"
  BY <1>5 DEF Refused, PushLoadHead
<1>7. tx'.pc = "access" => sent < i - 1 + N
  <2>1. sent <= i - 1 + N
    BY <1>0
  <2>2. tx'.pc = "access" => sent # i - 1 + N
    BY <1>4, <1>5 DEF Refused
  <2> QED
    BY <1>0, <2>1, <2>2
<1>8. CountersInv' /\ ReceiverAt(t)'
  BY <1>1 DEF InvAt, CountersInv, ReceiverAt
<1>9. SenderAt(i - 1)'
  <2>1. sent <= i - 1 + N
    BY <1>0
  <2>2. tx.len # NoLen => sent - (i - 1) <= tx.len /\ tx.len <= N
    BY <1>0 DEF InvAt, SenderAt
  <2> QED
    BY <1>0, <1>1, <1>3, <1>5, <1>6, <1>7, <2>1, <2>2 DEF InvAt, SenderAt, NoLen
<1>10. RingInv'
  BY <1>1, <1>6 DEF InvAt, RingInv
<1>11. HistoryInv'
  BY <1>1, <1>6 DEF InvAt, HistoryInv
<1>12. i - 1 \in 0 .. MaxSends
  BY <1>0
<1> QED
  BY <1>12, <1>8, <1>9, <1>10, <1>11 DEF InvAt

(* The slot the producer writes holds no message still to be received: the *)
(* N positions from popped on live in different slots.                     *)
LEMMA PushWriteInv ==
  ASSUME SlotsFit, TypeOK,
         NEW h \in 0 .. MaxSends, NEW t \in 0 .. MaxSends, InvAt(h, t), PushWrite
  PROVE  InvAt(h, t)'
<1>0. /\ sent \in Nat /\ popped \in Nat /\ N \in Nat \ {0}
      /\ h \in Nat /\ h <= popped /\ popped <= sent
      /\ Slot(tailNow) = Slot(sent) /\ Slot(sent) \in 0 .. N - 1
      /\ tx.pc = "access" /\ tx.own = sent /\ sent < h + N
      /\ rx.own \in Nat
  <2>1. tx.pc = "access"
    BY DEF PushWrite
  <2>2. tx.own = sent /\ sent < h + N /\ sent < MaxSends
    BY <2>1 DEF InvAt, SenderAt
  <2>3. sent \in Nat
    BY Facts
  <2>4. Slot(sent) \in 0 .. N - 1
    BY <2>3, SlotRange
  <2>5. Slot(tailNow) = Slot(sent)
    BY <2>2, Facts, SlotWrap
  <2> QED
    BY <2>1, <2>2, <2>4, <2>5, Facts
<1>1. /\ head' = head /\ tail' = tail /\ head_cache' = head_cache
      /\ tail_cache' = tail_cache /\ rx' = rx
      /\ sent' = sent /\ received' = received /\ dropped' = dropped
      /\ storage' = storage /\ popped' = popped
      /\ headNow' = headNow /\ tailNow' = tailNow
  BY DEF PushWrite, atomics, caches, history, popped, headNow, tailNow
<1>2. /\ tx'.own = sent + 1 /\ tx'.view = tx.view /\ tx'.seen = tx.seen
      /\ tx'.len = tx.len /\ tx'.pc = "publish"
  BY <1>0 DEF PushWrite, TypeOK, Thread
<1>3. buffer' = [buffer EXCEPT ![Slot(sent)] =
         [val |-> sent + 1, wrote |-> sent + 1, read |-> buffer[Slot(sent)].read]]
  BY <1>0 DEF PushWrite
<1>4. buffer \in [0 .. N - 1 -> Cell]
  BY DEF TypeOK
<1>5. /\ buffer'[Slot(sent)].val = sent + 1 /\ buffer'[Slot(sent)].wrote = sent + 1
      /\ buffer'[Slot(sent)].read = buffer[Slot(sent)].read
  BY <1>0, <1>3, <1>4
<1>6. \A s \in 0 .. N - 1 : s # Slot(sent) => buffer'[s] = buffer[s]
  BY <1>3, <1>4
<1>7. CountersInv' /\ ReceiverAt(t)'
  BY <1>1 DEF InvAt, CountersInv, ReceiverAt
<1>8. SenderAt(h)'
  BY <1>0, <1>1, <1>2 DEF InvAt, SenderAt, NoLen
<1>9. RingInv'
  <2>1. ASSUME NEW p \in 0 .. sent - 1, p >= popped
        PROVE  buffer'[Slot(p)].val = p + 1
    <3>1. p \in Nat /\ p < sent /\ sent < p + N
      BY <1>0, <2>1
    <3>2. Slot(p) \in 0 .. N - 1 /\ Slot(p) # Slot(sent)
      BY <1>0, <3>1, SlotRange, SlotsDiffer
    <3>3. buffer[Slot(p)].val = p + 1
      BY <2>1 DEF InvAt, RingInv
    <3> QED
      BY <1>6, <3>2, <3>3
  <2>2. ASSUME NEW s \in 0 .. N - 1
        PROVE  /\ buffer'[s].wrote = buffer'[s].val
               /\ buffer'[s].val > 0 => Slot(buffer'[s].val - 1) = s
               /\ buffer'[s].read > 0 => Slot(buffer'[s].read - 1) = s
               /\ buffer'[s].read <= rx.own
    <3>1. /\ buffer[s].wrote = buffer[s].val
          /\ buffer[s].val > 0 => Slot(buffer[s].val - 1) = s
          /\ buffer[s].read > 0 => Slot(buffer[s].read - 1) = s
          /\ buffer[s].read <= rx.own
      BY DEF InvAt, RingInv
    <3>2. CASE s = Slot(sent)
      <4>1. /\ buffer'[s].val = sent + 1 /\ buffer'[s].wrote = sent + 1
            /\ buffer'[s].read = buffer[s].read
        BY <1>5, <3>2
      <4>2. buffer'[s].val - 1 = sent
        BY <1>0, <4>1
      <4> QED
        BY <3>1, <3>2, <4>1, <4>2
    <3>3. CASE s # Slot(sent)
      BY <1>6, <3>1, <3>3
    <3> QED
      BY <3>2, <3>3
  <2> QED
    BY <1>1, <1>5, <2>1, <2>2 DEF RingInv
<1>10. HistoryInv'
  BY <1>0, <1>1, <1>2 DEF InvAt, HistoryInv
<1> QED
  BY <1>7, <1>8, <1>9, <1>10 DEF InvAt

(* The release store of tail covers the slot just written.                 *)
LEMMA PushPublishInv ==
  ASSUME SlotsFit, TypeOK,
         NEW h \in 0 .. MaxSends, NEW t \in 0 .. MaxSends, InvAt(h, t), PushPublish
  PROVE  InvAt(h, t)'
<1>0. /\ sent \in Nat /\ popped \in Nat /\ N \in Nat \ {0} /\ UsizeMod \in Nat
      /\ h \in Nat /\ h <= popped /\ popped <= sent
      /\ tailNow = Wrap(sent) /\ Len(tail) = sent + 1 /\ tail \in Seq(Store)
      /\ tx.pc = "publish" /\ tx.own = sent + 1 /\ sent < h + N
      /\ sent < MaxSends /\ MaxSends \in Nat
  <2>1. tx.pc = "publish"
    BY DEF PushPublish
  <2>2. tx.own = sent + 1 /\ sent < h + N /\ sent < MaxSends
    BY <2>1 DEF InvAt, SenderAt
  <2>3. tail \in Seq(Store)
    BY DEF TypeOK
  <2> QED
    BY <2>1, <2>2, <2>3, Facts
<1>1. /\ head' = head /\ head_cache' = head_cache /\ tail_cache' = tail_cache
      /\ buffer' = buffer /\ rx' = rx /\ sent' = sent + 1
      /\ received' = received /\ dropped' = dropped
      /\ storage' = storage /\ popped' = popped
  BY DEF PushPublish, caches, popped
<1>2. /\ tx'.own = tx.own /\ tx'.view = tx.view /\ tx'.seen = tx.seen
      /\ tx'.len = NoLen /\ tx'.pc = "idle"
  BY DEF PushPublish, TypeOK, Thread
<1>3. tail' = Append(tail, [val |-> Wrap(sent + 1), view |-> sent + 1])
  <2>1. Wrap(tailNow + 1) = Wrap(sent + 1)
    BY <1>0, WrapAdd
  <2> QED
    BY <1>0, <2>1 DEF PushPublish, Release
<1>4. CountersInv'
  <2>1. Len(tail') = sent' + 1
    BY <1>0, <1>1, <1>3
  <2>2. ASSUME NEW i \in 1 .. sent' + 1
        PROVE  tail'[i].val = Wrap(i - 1) /\ tail'[i].view = i - 1
    <3>1. CASE i = sent + 2
      <4>1. tail'[i] = [val |-> Wrap(sent + 1), view |-> sent + 1] /\ i - 1 = sent + 1
        BY <1>0, <1>3, <3>1
      <4> QED
        BY <4>1
    <3>2. CASE i # sent + 2
      <4>1. i \in 1 .. sent + 1
        BY <1>0, <1>1, <3>2
      <4>2. tail'[i] = tail[i]
        BY <1>0, <1>3, <4>1
      <4> QED
        BY <4>1, <4>2 DEF InvAt, CountersInv
    <3> QED
      BY <3>1, <3>2
  <2>3. /\ Len(head) = popped + 1
        /\ \A i \in 1 .. popped + 1 : head[i].val = Wrap(i - 1) /\ head[i].view = i - 1
    BY DEF InvAt, CountersInv
  <2> QED
    BY <1>1, <2>1, <2>2, <2>3 DEF CountersInv
<1>5. SenderAt(h)'
  BY <1>0, <1>1, <1>2 DEF InvAt, SenderAt, NoLen
<1>6. ReceiverAt(t)'
  BY <1>1 DEF InvAt, ReceiverAt
<1>7. RingInv'
  <2>1. buffer[Slot(sent)].val = sent + 1
    BY <1>0 DEF InvAt, RingInv
  <2>2. ASSUME NEW p \in 0 .. sent' - 1, p >= popped
        PROVE  buffer[Slot(p)].val = p + 1
    <3>1. p = sent \/ p \in 0 .. sent - 1
      BY <1>0, <1>1
    <3> QED
      BY <2>1, <2>2, <3>1 DEF InvAt, RingInv
  <2>3. \A s \in 0 .. N - 1 :
          /\ buffer[s].wrote = buffer[s].val
          /\ buffer[s].val > 0 => Slot(buffer[s].val - 1) = s
          /\ buffer[s].read > 0 => Slot(buffer[s].read - 1) = s
          /\ buffer[s].read <= rx.own
    BY DEF InvAt, RingInv
  <2> QED
    BY <1>1, <1>2, <2>2, <2>3 DEF RingInv
<1>8. HistoryInv'
  <2>1. storage = "live" /\ dropped = <<>>
    BY <1>0 DEF InvAt, HistoryInv, TypeOK
  <2>2. \A k \in 1 .. popped : received[k] = k
    BY DEF InvAt, HistoryInv
  <2> QED
    BY <1>0, <1>1, <2>1, <2>2 DEF HistoryInv
<1> QED
  BY <1>4, <1>5, <1>6, <1>7, <1>8 DEF InvAt

(* The Sender's len() does not underflow, for head never passes tail.      *)
LEMMA SenderLenInv ==
  ASSUME SlotsFit, TypeOK,
         NEW h \in 0 .. MaxSends, NEW t \in 0 .. MaxSends, InvAt(h, t),
         NEW i \in 1 .. Len(head), SenderLen(i)
  PROVE  InvAt(h, t)'
<1>0. /\ i \in tx.seen .. Len(head) /\ i \in Nat /\ i >= tx.seen
      /\ tx.seen \in Nat /\ popped \in Nat /\ i - 1 \in Nat /\ i - 1 <= popped
      /\ h \in Nat /\ sent \in Nat /\ N \in Nat /\ UsizeMod \in Nat
      /\ h <= tx.seen - 1 /\ tailNow = Wrap(sent)
      /\ sent <= h + N /\ popped <= sent /\ tx.pc = "idle"
  <2>1. i \in tx.seen .. Len(head) /\ tx.pc = "idle"
    BY DEF SenderLen
  <2>2. tx.view = tx.seen - 1
    BY DEF InvAt, SenderAt
  <2>3. /\ Len(head) = popped + 1 /\ popped \in Nat /\ tx.seen \in Nat \ {0}
        /\ h \in Nat /\ h <= tx.view /\ sent \in Nat
        /\ N \in Nat /\ UsizeMod \in Nat /\ tailNow = Wrap(sent)
        /\ sent <= h + N /\ popped <= sent
    BY Facts
  <2> QED
    BY <2>1, <2>2, <2>3
<1>1. /\ head' = head /\ tail' = tail /\ head_cache' = head_cache
      /\ tail_cache' = tail_cache /\ buffer' = buffer /\ rx' = rx
      /\ sent' = sent /\ received' = received /\ dropped' = dropped
      /\ storage' = storage /\ popped' = popped
      /\ headNow' = headNow /\ tailNow' = tailNow
  BY DEF SenderLen, atomics, caches, history, popped, headNow, tailNow
<1>2. /\ head[i].val = Wrap(i - 1)
      /\ Acquire(tx, head, i) = [tx EXCEPT !.seen = i, !.view = i - 1]
  BY <1>0, HeadLoad
<1>3. Distance(tailNow, head[i].val) = sent - (i - 1)
  <2>1. /\ sent \in Nat /\ i - 1 \in Nat /\ i - 1 <= sent
        /\ sent - (i - 1) < UsizeMod
    BY <1>0, ConstantsAssumption
  <2> QED
    BY <1>0, <1>2, <2>1, DistanceIs
<1>4. /\ tx'.own = tx.own /\ tx'.view = i - 1 /\ tx'.seen = i
      /\ tx'.len = sent - (i - 1) /\ tx'.pc = "idle"
  BY <1>0, <1>2, <1>3 DEF SenderLen, TypeOK, Thread
<1>5. CountersInv' /\ ReceiverAt(t)'
  BY <1>1 DEF InvAt, CountersInv, ReceiverAt
<1>6. SenderAt(h)'
  <2>1. /\ h <= i - 1 /\ sent - (i - 1) <= sent - (i - 1)
        /\ sent - (i - 1) <= N
    BY <1>0
  <2> QED
    BY <1>0, <1>1, <1>4, <2>1 DEF InvAt, SenderAt
<1>7. RingInv'
  BY <1>1, <1>4 DEF InvAt, RingInv
<1>8. HistoryInv'
  BY <1>0, <1>1, <1>4 DEF InvAt, HistoryInv
<1> QED
  BY <1>5, <1>6, <1>7, <1>8 DEF InvAt

(* Dropping the Sender touches no slot and no counter.                     *)
LEMMA DropSenderInv ==
  ASSUME SlotsFit, TypeOK,
         NEW h \in 0 .. MaxSends, NEW t \in 0 .. MaxSends, InvAt(h, t), DropSender
  PROVE  InvAt(h, t)'
<1>1. /\ head' = head /\ tail' = tail /\ head_cache' = head_cache
      /\ tail_cache' = tail_cache /\ buffer' = buffer /\ rx' = rx
      /\ sent' = sent /\ received' = received /\ dropped' = dropped
      /\ storage' = storage /\ popped' = popped
      /\ headNow' = headNow /\ tailNow' = tailNow
  BY DEF DropSender, atomics, caches, history, popped, headNow, tailNow
<1>2. /\ tx'.own = tx.own /\ tx'.view = tx.view /\ tx'.seen = tx.seen
      /\ tx'.len = tx.len /\ tx'.pc = "gone" /\ tx.pc = "idle"
  BY DEF DropSender, TypeOK, Thread
<1>3. CountersInv' /\ ReceiverAt(t)' /\ RingInv'
  BY <1>1, <1>2 DEF InvAt, CountersInv, ReceiverAt, RingInv
<1>4. SenderAt(h)'
  BY <1>1, <1>2 DEF InvAt, SenderAt, NoLen
<1>5. HistoryInv'
  BY <1>1, <1>2 DEF InvAt, HistoryInv
<1> QED
  BY <1>3, <1>4, <1>5 DEF InvAt

-----------------------------------------------------------------------------
(* pop up to its first test: it goes on only if tail_cache is ahead.       *)
LEMMA PopCheckInv ==
  ASSUME SlotsFit, TypeOK,
         NEW h \in 0 .. MaxSends, NEW t \in 0 .. MaxSends, InvAt(h, t),
         rx.pc \in {"idle", "again"}, NEW call \in {"try", "loop"}, PopCheck(call)
  PROVE  InvAt(h, t)'
<1>1. /\ head' = head /\ tail' = tail /\ head_cache' = head_cache
      /\ tail_cache' = tail_cache /\ buffer' = buffer /\ tx' = tx
      /\ sent' = sent /\ received' = received /\ dropped' = dropped
      /\ storage' = storage /\ popped' = popped
      /\ headNow' = headNow /\ tailNow' = tailNow
  BY DEF PopCheck, atomics, caches, history, popped, headNow, tailNow
<1>2. /\ rx'.own = rx.own /\ rx'.view = rx.view /\ rx'.seen = rx.seen
      /\ rx'.len = rx.len /\ rx'.val = rx.val
      /\ rx'.pc = IF Empty(headNow, tail_cache) THEN "load" ELSE "access"
  BY DEF PopCheck, TypeOK, Thread
<1>3. rx'.pc \in {"load", "access"} /\ rx'.pc # "publish"
  BY <1>2
<1>4. rx'.pc = "access" => popped < t
  <2>1. /\ popped \in Nat /\ t \in Nat /\ popped <= t /\ t <= sent
        /\ tail_cache = Wrap(t)
    <3>1. /\ popped \in Nat /\ t \in Nat /\ popped <= t /\ t <= rx.view
          /\ rx.view <= sent /\ rx.view \in Nat /\ sent \in Nat
          /\ tail_cache = Wrap(t)
      BY Facts
    <3> QED
      BY <3>1
  <2>2. Empty(headNow, Wrap(t)) <=> popped = t
    BY <2>1, EmptyMeans
  <2> QED
    BY <1>2, <2>1, <2>2
<1>5. CountersInv' /\ SenderAt(h)'
  BY <1>1 DEF InvAt, CountersInv, SenderAt, NoLen
<1>6. ReceiverAt(t)'
  BY <1>1, <1>2, <1>3, <1>4 DEF InvAt, ReceiverAt, NoLen
<1>7. RingInv'
  BY <1>1, <1>2 DEF InvAt, RingInv
<1>8. HistoryInv'
  BY <1>1, <1>3 DEF InvAt, HistoryInv
<1> QED
  BY <1>5, <1>6, <1>7, <1>8 DEF InvAt

(* The refresh of tail_cache, likewise.                                    *)
LEMMA PopLoadTailInv ==
  ASSUME SlotsFit, TypeOK,
         NEW h \in 0 .. MaxSends, NEW t \in 0 .. MaxSends, InvAt(h, t),
         NEW i \in 1 .. Len(tail), PopLoadTail(i)
  PROVE  i - 1 \in 0 .. MaxSends /\ InvAt(h, i - 1)'
<1>0. /\ i \in rx.seen .. Len(tail) /\ i \in Nat /\ i >= rx.seen
      /\ rx.seen \in Nat /\ popped \in Nat /\ i - 1 \in Nat
      /\ t \in Nat /\ popped <= t /\ i - 1 <= sent /\ sent <= MaxSends
      /\ sent \in Nat /\ MaxSends \in Nat /\ t <= rx.seen - 1 /\ rx.view = rx.seen - 1
      /\ rx.len \in 0 .. UsizeMod /\ UsizeMod \in Nat /\ rx.pc = "load"
  <2>1. i \in rx.seen .. Len(tail) /\ rx.pc = "load"
    BY DEF PopLoadTail
  <2>2. rx.view = rx.seen - 1
    BY DEF InvAt, ReceiverAt
  <2>3. /\ Len(tail) = sent + 1 /\ sent \in Nat /\ rx.seen \in Nat \ {0}
        /\ popped \in Nat /\ t \in Nat /\ popped <= t
        /\ t <= rx.view /\ sent <= MaxSends /\ MaxSends \in Nat
        /\ UsizeMod \in Nat /\ rx.len \in 0 .. UsizeMod
    BY Facts
  <2> QED
    BY <2>1, <2>2, <2>3
<1>1. /\ head' = head /\ tail' = tail /\ head_cache' = head_cache
      /\ buffer' = buffer /\ tx' = tx
      /\ sent' = sent /\ received' = received /\ dropped' = dropped
      /\ storage' = storage /\ popped' = popped
      /\ headNow' = headNow /\ tailNow' = tailNow
  BY DEF PopLoadTail, atomics, history, popped, headNow, tailNow
<1>2. /\ tail[i].val = Wrap(i - 1)
      /\ Acquire(rx, tail, i) = [rx EXCEPT !.seen = i, !.view = i - 1]
  BY <1>0, TailLoad
<1>3. tail_cache' = Wrap(i - 1)
  BY <1>2 DEF PopLoadTail
<1>4. /\ rx'.own = rx.own /\ rx'.view = i - 1 /\ rx'.seen = i
      /\ rx'.len = rx.len /\ rx'.val = rx.val
      /\ rx'.pc = IF ~Empty(headNow, Wrap(i - 1)) THEN "access" ELSE Refused(rx.call)
  BY <1>2 DEF PopLoadTail, TypeOK, Thread
<1>5. rx'.pc \in {"access", "again", "idle"} /\ rx'.pc # "publish"
  BY <1>4 DEF Refused
<1>6. rx'.pc = "access" => popped < i - 1
  <2>1. popped <= i - 1
    BY <1>0
  <2>2. Empty(headNow, Wrap(i - 1)) <=> popped = i - 1
    BY <1>0, <2>1, EmptyMeans
  <2>3. rx'.pc = "access" => popped # i - 1
    BY <1>4, <2>2 DEF Refused
  <2> QED
    BY <1>0, <2>1, <2>3
<1>7. CountersInv' /\ SenderAt(h)'
  BY <1>1 DEF InvAt, CountersInv, SenderAt, NoLen
<1>8. ReceiverAt(i - 1)'
  <2>1. rx.len # NoLen => rx.len <= (i - 1) - popped
    BY <1>0 DEF InvAt, ReceiverAt
  <2>2. popped <= i - 1
    BY <1>0
  <2>3. rx.own = popped
    BY <1>0 DEF InvAt, ReceiverAt
  <2> QED
    BY <1>0, <1>1, <1>3, <1>4, <1>5, <1>6, <2>1, <2>2, <2>3 DEF ReceiverAt, NoLen
<1>9. RingInv'
  BY <1>1, <1>4 DEF InvAt, RingInv
<1>10. HistoryInv'
  BY <1>0, <1>1, <1>5 DEF InvAt, HistoryInv
<1>11. i - 1 \in 0 .. MaxSends
  BY <1>0
<1> QED
  BY <1>11, <1>7, <1>8, <1>9, <1>10 DEF InvAt

(* The message the consumer reads is the one at position popped, and its   *)
(* write happens before the read.                                          *)
LEMMA PopReadInv ==
  ASSUME SlotsFit, TypeOK,
         NEW h \in 0 .. MaxSends, NEW t \in 0 .. MaxSends, InvAt(h, t), PopRead
  PROVE  InvAt(h, t)'
<1>0. /\ sent \in Nat /\ popped \in Nat /\ N \in Nat \ {0}
      /\ t \in Nat /\ popped < t /\ t <= rx.view
      /\ rx.view \in Nat /\ rx.view <= sent
      /\ Slot(headNow) = Slot(popped) /\ Slot(popped) \in 0 .. N - 1
      /\ rx.pc = "access" /\ rx.own = popped
      /\ rx.len \in 0 .. UsizeMod /\ UsizeMod \in Nat
  <2>1. rx.pc = "access"
    BY DEF PopRead
  <2>2. rx.own = popped /\ popped < t
    BY <2>1 DEF InvAt, ReceiverAt
  <2>3. Slot(popped) \in 0 .. N - 1
    BY Facts, SlotRange
  <2>4. popped < MaxSends
    <3>1. /\ popped \in Nat /\ t \in Nat /\ t <= rx.view /\ rx.view <= sent
          /\ rx.view \in Nat /\ sent \in Nat /\ sent <= MaxSends /\ MaxSends \in Nat
      BY Facts
    <3> QED
      BY <2>2, <3>1
  <2>5. Slot(headNow) = Slot(popped)
    BY <2>4, Facts, SlotWrap
  <2> QED
    BY <2>1, <2>2, <2>3, <2>5, Facts
<1>1. /\ head' = head /\ tail' = tail /\ head_cache' = head_cache
      /\ tail_cache' = tail_cache /\ tx' = tx
      /\ sent' = sent /\ received' = received /\ dropped' = dropped
      /\ storage' = storage /\ popped' = popped
      /\ headNow' = headNow /\ tailNow' = tailNow
  BY DEF PopRead, atomics, caches, history, popped, headNow, tailNow
<1>2. buffer \in [0 .. N - 1 -> Cell]
  BY DEF TypeOK
<1>3. buffer[Slot(popped)].val = popped + 1 /\ buffer[Slot(popped)].wrote = popped + 1
  <2>1. popped \in 0 .. sent - 1 /\ popped >= popped
    BY <1>0
  <2>2. buffer[Slot(popped)].val = popped + 1
    BY <2>1 DEF InvAt, RingInv
  <2> QED
    BY <1>0, <2>2 DEF InvAt, RingInv
<1>4. ReadValues(Slot(headNow)) = {popped + 1}
  BY <1>0, <1>3 DEF ReadValues
<1>5. /\ rx'.own = popped + 1 /\ rx'.view = rx.view /\ rx'.seen = rx.seen
      /\ rx'.len = rx.len /\ rx'.val = popped + 1 /\ rx'.pc = "publish"
  BY <1>0, <1>4 DEF PopRead, TypeOK, Thread
<1>6. buffer' = [buffer EXCEPT ![Slot(popped)] =
         [val |-> buffer[Slot(popped)].val, wrote |-> buffer[Slot(popped)].wrote,
          read |-> popped + 1]]
  BY <1>0 DEF PopRead
<1>7. /\ buffer'[Slot(popped)].val = buffer[Slot(popped)].val
      /\ buffer'[Slot(popped)].wrote = buffer[Slot(popped)].wrote
      /\ buffer'[Slot(popped)].read = popped + 1
  BY <1>0, <1>2, <1>6
<1>8. \A s \in 0 .. N - 1 : s # Slot(popped) => buffer'[s] = buffer[s]
  BY <1>2, <1>6
<1>9. CountersInv' /\ SenderAt(h)'
  BY <1>1 DEF InvAt, CountersInv, SenderAt, NoLen
<1>10. ReceiverAt(t)'
  BY <1>0, <1>1, <1>5 DEF InvAt, ReceiverAt, NoLen
<1>11. RingInv'
  <2>1. \A s \in 0 .. N - 1 :
          buffer'[s].val = buffer[s].val /\ buffer'[s].wrote = buffer[s].wrote
    BY <1>7, <1>8
  <2>2. \A p \in 0 .. sent : Slot(p) \in 0 .. N - 1
    BY <1>0, SlotRange
  <2>3. ASSUME NEW s \in 0 .. N - 1
        PROVE  /\ buffer'[s].read > 0 => Slot(buffer'[s].read - 1) = s
               /\ buffer'[s].read <= popped + 1
    <3>1. CASE s = Slot(popped)
      <4>1. buffer'[s].read = popped + 1 /\ buffer'[s].read - 1 = popped
        BY <1>0, <1>7, <3>1
      <4> QED
        BY <1>0, <3>1, <4>1
    <3>2. CASE s # Slot(popped)
      <4>1. buffer'[s] = buffer[s]
        BY <1>8, <3>2
      <4>2. buffer[s].read \in Nat
        BY <1>2, CellFields
      <4>3. /\ buffer[s].read > 0 => Slot(buffer[s].read - 1) = s
            /\ buffer[s].read <= rx.own
        BY DEF InvAt, RingInv
      <4> QED
        BY <1>0, <4>1, <4>2, <4>3
    <3> QED
      BY <3>1, <3>2
  <2>4. \A p \in 0 .. sent - 1 : p >= popped => buffer'[Slot(p)].val = p + 1
    BY <1>0, <2>1, <2>2 DEF InvAt, RingInv
  <2>5. tx.pc = "publish" => buffer'[Slot(sent)].val = sent + 1
    BY <1>0, <2>1, <2>2 DEF InvAt, RingInv
  <2>6. \A s \in 0 .. N - 1 :
          /\ buffer'[s].wrote = buffer'[s].val
          /\ buffer'[s].val > 0 => Slot(buffer'[s].val - 1) = s
    BY <2>1 DEF InvAt, RingInv
  <2> QED
    BY <1>1, <1>5, <2>3, <2>4, <2>5, <2>6 DEF RingInv
<1>12. HistoryInv'
  BY <1>0, <1>1, <1>5 DEF InvAt, HistoryInv
<1> QED
  BY <1>9, <1>10, <1>11, <1>12 DEF InvAt

(* The release store of head covers the slot just read, and the message    *)
(* received is the next one.                                               *)
LEMMA PopPublishInv ==
  ASSUME SlotsFit, TypeOK,
         NEW h \in 0 .. MaxSends, NEW t \in 0 .. MaxSends, InvAt(h, t), PopPublish
  PROVE  InvAt(h, t)'
<1>0. /\ sent \in Nat /\ popped \in Nat /\ N \in Nat \ {0} /\ UsizeMod \in Nat
      /\ t \in Nat /\ popped < t /\ t <= sent
      /\ headNow = Wrap(popped) /\ Len(head) = popped + 1 /\ head \in Seq(Store)
      /\ rx.pc = "publish" /\ rx.own = popped + 1 /\ rx.val = popped + 1
      /\ received \in Seq(Nat)
  <2>1. rx.pc = "publish"
    BY DEF PopPublish
  <2>2. rx.own = popped + 1 /\ popped < t /\ rx.val = popped + 1
    BY <2>1 DEF InvAt, ReceiverAt
  <2>3. head \in Seq(Store) /\ received \in Seq(Nat)
    BY DEF TypeOK
  <2>4. /\ sent \in Nat /\ popped \in Nat /\ N \in Nat \ {0} /\ UsizeMod \in Nat
        /\ MaxSends \in Nat /\ sent <= MaxSends
        /\ t \in Nat /\ t <= rx.view /\ rx.view <= sent
        /\ rx.view \in Nat /\ headNow = Wrap(popped) /\ Len(head) = popped + 1
    BY Facts
  <2>5. t <= sent
    BY <2>2, <2>4
  <2> QED
    BY <2>1, <2>2, <2>3, <2>4, <2>5
<1>1. /\ tail' = tail /\ head_cache' = head_cache /\ tail_cache' = tail_cache
      /\ buffer' = buffer /\ tx' = tx /\ sent' = sent /\ dropped' = dropped
      /\ storage' = storage
  BY DEF PopPublish, caches
<1>2. /\ rx'.own = rx.own /\ rx'.view = rx.view /\ rx'.seen = rx.seen
      /\ rx'.len = NoLen /\ rx'.pc = "idle"
  BY DEF PopPublish, TypeOK, Thread
<1>3. head' = Append(head, [val |-> Wrap(popped + 1), view |-> popped + 1])
  <2>1. Wrap(headNow + 1) = Wrap(popped + 1)
    BY <1>0, WrapAdd
  <2> QED
    BY <1>0, <2>1 DEF PopPublish, Release
<1>4. received' = Append(received, popped + 1) /\ popped' = popped + 1
  BY <1>0 DEF PopPublish, popped
<1>5. CountersInv'
  <2>1. Len(head') = popped' + 1
    BY <1>0, <1>3, <1>4
  <2>2. ASSUME NEW i \in 1 .. popped' + 1
        PROVE  head'[i].val = Wrap(i - 1) /\ head'[i].view = i - 1
    <3>1. CASE i = popped + 2
      <4>1. head'[i] = [val |-> Wrap(popped + 1), view |-> popped + 1]
        BY <1>0, <1>3, <3>1
      <4>2. i - 1 = popped + 1
        BY <1>0, <3>1
      <4> QED
        BY <4>1, <4>2
    <3>2. CASE i # popped + 2
      <4>1. i \in 1 .. popped + 1
        BY <1>0, <1>4, <3>2
      <4>2. head'[i] = head[i]
        BY <1>0, <1>3, <4>1
      <4> QED
        BY <4>1, <4>2 DEF InvAt, CountersInv
    <3> QED
      BY <3>1, <3>2
  <2>3. /\ Len(tail) = sent + 1
        /\ \A i \in 1 .. sent + 1 : tail[i].val = Wrap(i - 1) /\ tail[i].view = i - 1
    BY DEF InvAt, CountersInv
  <2> QED
    BY <1>1, <2>1, <2>2, <2>3 DEF CountersInv
<1>6. SenderAt(h)'
  BY <1>1 DEF InvAt, SenderAt, NoLen
<1>7. ReceiverAt(t)'
  BY <1>0, <1>1, <1>2, <1>4 DEF InvAt, ReceiverAt, NoLen
<1>8. RingInv'
  <2>1. \A p \in 0 .. sent - 1 : p >= popped + 1 => buffer[Slot(p)].val = p + 1
    BY <1>0 DEF InvAt, RingInv
  <2> QED
    BY <1>1, <1>2, <1>4, <2>1 DEF InvAt, RingInv
<1>9. HistoryInv'
  <2>1. storage = "live" /\ dropped = <<>>
    BY <1>0 DEF InvAt, HistoryInv, TypeOK
  <2>2. ASSUME NEW k \in 1 .. popped' PROVE received'[k] = k
    <3>1. k = popped + 1 \/ k \in 1 .. popped
      BY <1>0, <1>4
    <3>2. Len(received) = popped
      BY DEF popped
    <3> QED
      BY <1>0, <1>4, <3>1, <3>2 DEF InvAt, HistoryInv
  <2> QED
    BY <1>0, <1>1, <1>4, <2>1, <2>2 DEF HistoryInv
<1> QED
  BY <1>5, <1>6, <1>7, <1>8, <1>9 DEF InvAt

(* The Receiver's len() does not underflow, for the tail it reads is not   *)
(* behind its head.                                                        *)
LEMMA ReceiverLenInv ==
  ASSUME SlotsFit, TypeOK,
         NEW h \in 0 .. MaxSends, NEW t \in 0 .. MaxSends, InvAt(h, t),
         NEW i \in 1 .. Len(tail), ReceiverLen(i)
  PROVE  InvAt(h, t)'
<1>0. /\ i \in rx.seen .. Len(tail) /\ i \in Nat /\ i >= rx.seen
      /\ rx.seen \in Nat /\ popped \in Nat /\ i - 1 \in Nat /\ i - 1 <= sent
      /\ t \in Nat /\ popped <= t /\ headNow = Wrap(popped)
      /\ t <= rx.seen - 1 /\ rx.view = rx.seen - 1
      /\ sent \in Nat /\ sent - popped < UsizeMod /\ UsizeMod \in Nat /\ rx.pc = "idle"
  <2>1. i \in rx.seen .. Len(tail) /\ rx.pc = "idle"
    BY DEF ReceiverLen
  <2>2. rx.view = rx.seen - 1
    BY DEF InvAt, ReceiverAt
  <2>3. /\ Len(tail) = sent + 1 /\ sent \in Nat /\ rx.seen \in Nat \ {0}
        /\ UsizeMod \in Nat /\ N \in Nat /\ N < UsizeMod
        /\ h \in Nat /\ h <= popped /\ sent <= h + N
        /\ popped \in Nat /\ t \in Nat /\ popped <= t
        /\ t <= rx.view /\ headNow = Wrap(popped)
    BY Facts
  <2> QED
    BY <2>1, <2>2, <2>3
<1>1. /\ head' = head /\ tail' = tail /\ head_cache' = head_cache
      /\ tail_cache' = tail_cache /\ buffer' = buffer /\ tx' = tx
      /\ sent' = sent /\ received' = received /\ dropped' = dropped
      /\ storage' = storage /\ popped' = popped
      /\ headNow' = headNow /\ tailNow' = tailNow
  BY DEF ReceiverLen, atomics, caches, history, popped, headNow, tailNow
<1>2. /\ tail[i].val = Wrap(i - 1)
      /\ Acquire(rx, tail, i) = [rx EXCEPT !.seen = i, !.view = i - 1]
  BY <1>0, TailLoad
<1>3. Distance(tail[i].val, headNow) = (i - 1) - popped
  <2>1. popped <= i - 1 /\ (i - 1) - popped < UsizeMod
    BY <1>0
  <2> QED
    BY <1>0, <1>2, <2>1, DistanceIs
<1>4. /\ rx'.own = rx.own /\ rx'.view = i - 1 /\ rx'.seen = i
      /\ rx'.len = (i - 1) - popped /\ rx'.pc = "idle"
  BY <1>0, <1>2, <1>3 DEF ReceiverLen, TypeOK, Thread
<1>5. CountersInv' /\ SenderAt(h)'
  BY <1>1 DEF InvAt, CountersInv, SenderAt, NoLen
<1>6. ReceiverAt(t)'
  <2>1. t <= i - 1 /\ (i - 1) - popped <= (i - 1) - popped
    BY <1>0
  <2> QED
    BY <1>0, <1>1, <1>4, <2>1 DEF InvAt, ReceiverAt
<1>7. RingInv'
  BY <1>1, <1>4 DEF InvAt, RingInv
<1>8. HistoryInv'
  BY <1>0, <1>1, <1>4 DEF InvAt, HistoryInv
<1> QED
  BY <1>5, <1>6, <1>7, <1>8 DEF InvAt

(* Dropping the Receiver touches no slot and no counter.                   *)
LEMMA DropReceiverInv ==
  ASSUME SlotsFit, TypeOK,
         NEW h \in 0 .. MaxSends, NEW t \in 0 .. MaxSends, InvAt(h, t), DropReceiver
  PROVE  InvAt(h, t)'
<1>1. /\ head' = head /\ tail' = tail /\ head_cache' = head_cache
      /\ tail_cache' = tail_cache /\ buffer' = buffer /\ tx' = tx
      /\ sent' = sent /\ received' = received /\ dropped' = dropped
      /\ storage' = storage /\ popped' = popped
      /\ headNow' = headNow /\ tailNow' = tailNow
  BY DEF DropReceiver, atomics, caches, history, popped, headNow, tailNow
<1>2. /\ rx'.own = rx.own /\ rx'.view = rx.view /\ rx'.seen = rx.seen
      /\ rx'.len = rx.len /\ rx'.pc = "gone" /\ rx.pc = "idle"
  BY DEF DropReceiver, TypeOK, Thread
<1>3. CountersInv' /\ SenderAt(h)'
  BY <1>1 DEF InvAt, CountersInv, SenderAt, NoLen
<1>4. ReceiverAt(t)' /\ RingInv'
  BY <1>1, <1>2 DEF InvAt, ReceiverAt, RingInv, NoLen
<1>5. HistoryInv'
  BY <1>1, <1>2 DEF InvAt, HistoryInv
<1> QED
  BY <1>3, <1>4, <1>5 DEF InvAt

-----------------------------------------------------------------------------
(* The loop of SyncQueue::drop visits every message that was sent and not  *)
(* received, or none when tail is behind head because only tail wrapped.   *)
LEMMA RemainingIs ==
  ASSUME SlotsFit, TypeOK,
         NEW h \in 0 .. MaxSends, NEW t \in 0 .. MaxSends, InvAt(h, t)
  PROVE  \E n \in 0 .. sent - popped :
           /\ Remaining = [k \in 1 .. n |-> popped + k]
           /\ headNow <= tailNow => n = sent - popped
<1>0. /\ sent \in Nat /\ popped \in Nat /\ popped <= sent
      /\ sent <= MaxSends /\ MaxSends \in Nat /\ UsizeMod \in Nat \ {0}
      /\ sent - popped < UsizeMod
      /\ headNow = Wrap(popped) /\ tailNow = Wrap(sent)
      /\ headNow \in 0 .. UsizeMod - 1 /\ tailNow \in 0 .. UsizeMod - 1
  <2>1. /\ sent \in Nat /\ popped \in Nat /\ popped <= sent /\ N \in Nat
        /\ sent <= MaxSends /\ MaxSends \in Nat /\ UsizeMod \in Nat
        /\ N < UsizeMod /\ h \in Nat /\ h <= popped /\ sent <= h + N
        /\ headNow = Wrap(popped) /\ tailNow = Wrap(sent)
    BY Facts
  <2>2. headNow \in 0 .. UsizeMod - 1 /\ tailNow \in 0 .. UsizeMod - 1
    BY NowRange
  <2> QED
    BY <2>1, <2>2
<1>1. CASE headNow <= tailNow
  <2>1. tailNow - headNow = sent - popped
    <3>1. Distance(tailNow, headNow) = sent - popped
      BY <1>0, DistanceIs
    <3>2. /\ tailNow + UsizeMod - headNow = UsizeMod * 1 + (tailNow - headNow)
          /\ tailNow - headNow \in 0 .. UsizeMod - 1
          /\ tailNow + UsizeMod - headNow \in Nat
      BY <1>0, <1>1
    <3>3. Wrap(tailNow + UsizeMod - headNow) = tailNow - headNow
      BY <3>2, WrapIs
    <3> QED
      BY <3>1, <3>3 DEF Distance
  <2>2. ASSUME NEW k \in 1 .. sent - popped
        PROVE  buffer[Slot(headNow + k - 1)].val = popped + k
    <3> DEFINE q == popped + k - 1
    <3>1. /\ q \in 0 .. sent - 1 /\ q \in Nat /\ q >= popped
          /\ q + 1 = popped + k /\ q < MaxSends /\ q = popped + (k - 1)
      BY <1>0
    <3>2. headNow + (k - 1) \in Nat /\ headNow + (k - 1) < UsizeMod
      BY <1>0, <2>1
    <3>3. Wrap(headNow + (k - 1)) = Wrap(popped + (k - 1))
      BY <1>0, WrapAdd
    <3>4. headNow + (k - 1) = Wrap(q)
      BY <3>1, <3>2, <3>3, WrapSmall
    <3>5. headNow + k - 1 = headNow + (k - 1)
      BY <1>0
    <3> HIDE DEF q
    <3>6. Slot(headNow + k - 1) = Slot(q)
      BY <3>1, <3>4, <3>5, SlotWrap
    <3>7. buffer[Slot(q)].val = q + 1
      BY <3>1 DEF InvAt, RingInv
    <3> QED
      BY <3>1, <3>6, <3>7
  <2>3. Remaining = [k \in 1 .. sent - popped |-> buffer[Slot(headNow + k - 1)].val]
    BY <1>0, <1>1, <2>1 DEF Remaining
  <2>4. Remaining = [k \in 1 .. sent - popped |-> popped + k]
    BY <2>2, <2>3
  <2>5. sent - popped \in 0 .. sent - popped
    BY <1>0
  <2> QED
    BY <2>4, <2>5
<1>2. CASE ~(headNow <= tailNow)
  <2>1. Remaining = [k \in 1 .. 0 |-> buffer[Slot(headNow + k - 1)].val]
    BY <1>0, <1>2 DEF Remaining
  <2>2. Remaining = [k \in 1 .. 0 |-> popped + k]
    BY <2>1
  <2>3. 0 \in 0 .. sent - popped
    BY <1>0
  <2> QED
    BY <1>2, <2>2, <2>3
<1> QED
  BY <1>1, <1>2

(* The drop of the ring destroys a prefix of what is left, all of it       *)
(* unless a destructor panics.                                             *)
LEMMA DropQueueInv ==
  ASSUME SlotsFit, TypeOK,
         NEW h \in 0 .. MaxSends, NEW t \in 0 .. MaxSends, InvAt(h, t), DropQueue
  PROVE  InvAt(h, t)'
<1>0. sent \in Nat /\ popped \in Nat /\ popped <= sent
  BY Facts
<1>1. /\ head' = head /\ tail' = tail /\ head_cache' = head_cache
      /\ tail_cache' = tail_cache /\ buffer' = buffer /\ tx' = tx /\ rx' = rx
      /\ sent' = sent /\ received' = received /\ popped' = popped
      /\ headNow' = headNow /\ tailNow' = tailNow
  BY DEF DropQueue, atomics, caches, popped, headNow, tailNow
<1>2. PICK n \in 0 .. sent - popped :
        /\ Remaining = [k \in 1 .. n |-> popped + k]
        /\ headNow <= tailNow => n = sent - popped
  BY RemainingIs
<1>3. Remaining \in Seq(Nat) /\ Len(Remaining) = n /\ n \in Nat
  BY <1>0, <1>2, RemainingType
<1>4. storage = "live" /\ dropped = <<>> /\ tx.pc = "gone" /\ rx.pc = "gone"
  BY DEF DropQueue, InvAt, HistoryInv
<1>5. /\ \A k \in 1 .. Len(dropped') : dropped'[k] = popped + k
      /\ Len(dropped') <= sent - popped
      /\ storage' = "freed" /\ ~ZeroSized /\ headNow <= tailNow
           => Len(dropped') = sent - popped
  <2>1. CASE ZeroSized
    <3>1. dropped' = <<>>
      BY <1>4, <2>1 DEF DropQueue
    <3> QED
      BY <1>0, <2>1, <3>1
  <2>2. CASE dropped' = Remaining
    BY <1>0, <1>2, <1>3, <2>2
  <2>3. CASE /\ storage' = "leaked"
             /\ \E k \in DOMAIN Remaining : dropped' = SubSeq(Remaining, 1, k)
    <3>1. PICK k \in 1 .. n : dropped' = SubSeq(Remaining, 1, k)
      BY <1>2, <2>3
    <3>2. Len(dropped') = k /\ \A j \in 1 .. k : dropped'[j] = Remaining[j]
      BY <1>0, <1>3, <3>1, SubSeqProperties
    <3>3. ASSUME NEW j \in 1 .. Len(dropped') PROVE dropped'[j] = popped + j
      <4>1. j \in 1 .. k /\ j \in 1 .. n
        BY <1>0, <3>2
      <4>2. dropped'[j] = Remaining[j] /\ Remaining[j] = popped + j
        BY <1>2, <3>2, <4>1
      <4> QED
        BY <4>2
    <3>4. Len(dropped') <= sent - popped
      <4>1. k <= sent - popped /\ Len(dropped') = k
        BY <1>0, <1>3, <3>2
      <4> QED
        BY <4>1
    <3>5. storage' # "freed"
      BY <2>3
    <3> QED
      BY <3>3, <3>4, <3>5
  <2> QED
    BY <2>1, <2>2, <2>3 DEF DropQueue
<1>6. CountersInv' /\ SenderAt(h)' /\ ReceiverAt(t)' /\ RingInv'
  BY <1>1 DEF InvAt, CountersInv, SenderAt, ReceiverAt, RingInv, NoLen
<1>7. HistoryInv'
  <2>1. storage' # "live"
    BY DEF DropQueue
  <2> QED
    BY <1>1, <1>4, <1>5, <2>1 DEF InvAt, HistoryInv
<1> QED
  BY <1>6, <1>7 DEF InvAt

-----------------------------------------------------------------------------
(* Every step of the channel keeps the invariant.                          *)
LEMMA InvInductive ==
  ASSUME SlotsFit, TypeOK, Inv, [Next]_vars
  PROVE  Inv'
<1>0. PICK h \in 0 .. MaxSends, t \in 0 .. MaxSends : InvAt(h, t)
  BY InvIs
<1> SUFFICES \E a \in 0 .. MaxSends, b \in 0 .. MaxSends : InvAt(a, b)'
  BY DEF Inv, InvAt, SenderInv, ReceiverInv
<1>1. ASSUME NEW call \in {"try", "loop"}, Push(call) PROVE InvAt(h, t)'
  BY <1>0, <1>1, PushCheckInv DEF Push
<1>2. CASE PushAgain
  <2>1. sent < MaxSends /\ tx.pc = "again"
    BY <1>0, <1>2 DEF PushAgain, InvAt, SenderAt
  <2>2. InvAt(h, t)'
    BY <1>0, <1>2, <2>1, PushCheckInv DEF PushAgain
  <2> QED
    BY <2>2
<1>3. ASSUME NEW i \in 1 .. Len(head), PushLoadHead(i)
      PROVE  i - 1 \in 0 .. MaxSends /\ InvAt(i - 1, t)'
  BY <1>0, <1>3, PushLoadHeadInv
<1>4. PushWrite => InvAt(h, t)'
  BY <1>0, PushWriteInv
<1>5. PushPublish => InvAt(h, t)'
  BY <1>0, PushPublishInv
<1>6. ASSUME NEW i \in 1 .. Len(head), SenderLen(i) PROVE InvAt(h, t)'
  BY <1>0, <1>6, SenderLenInv
<1>7. DropSender => InvAt(h, t)'
  BY <1>0, DropSenderInv
<1>8. ASSUME NEW call \in {"try", "loop"}, Pop(call) PROVE InvAt(h, t)'
  BY <1>0, <1>8, PopCheckInv DEF Pop
<1>9. PopAgain => InvAt(h, t)'
  BY <1>0, PopCheckInv DEF PopAgain
<1>10. ASSUME NEW i \in 1 .. Len(tail), PopLoadTail(i)
       PROVE  i - 1 \in 0 .. MaxSends /\ InvAt(h, i - 1)'
  BY <1>0, <1>10, PopLoadTailInv
<1>11. PopRead => InvAt(h, t)'
  BY <1>0, PopReadInv
<1>12. PopPublish => InvAt(h, t)'
  BY <1>0, PopPublishInv
<1>13. ASSUME NEW i \in 1 .. Len(tail), ReceiverLen(i) PROVE InvAt(h, t)'
  BY <1>0, <1>13, ReceiverLenInv
<1>14. DropReceiver => InvAt(h, t)'
  BY <1>0, DropReceiverInv
<1>15. DropQueue => InvAt(h, t)'
  BY <1>0, DropQueueInv
<1>16. ASSUME UNCHANGED vars PROVE InvAt(h, t)'
  <2>1. popped' = popped /\ headNow' = headNow /\ tailNow' = tailNow
    BY <1>16 DEF vars, atomics, history, popped, headNow, tailNow
  <2> QED
    BY <1>0, <1>16, <2>1
    DEF vars, atomics, caches, history, InvAt, CountersInv, SenderAt, ReceiverAt,
        RingInv, HistoryInv, NoLen
<1> QED
  BY <1>1, <1>2, <1>3, <1>4, <1>5, <1>6, <1>7, <1>8, <1>9, <1>10, <1>11, <1>12,
     <1>13, <1>14, <1>15, <1>16
  DEF Next, SenderNext, ReceiverNext, SenderStep, ReceiverStep

(* The invariant holds in every state the channel can reach.               *)
THEOREM Invariant ==
  ASSUME SlotsFit
  PROVE  Spec => [](TypeOK /\ Inv)
<1>1. Init => Inv
  BY InitInv
<1>2. TypeOK /\ Inv /\ [Next]_vars => Inv'
  BY InvInductive
<1>3. Spec => []TypeOK
  BY TypeCorrect
<1> QED
  BY <1>1, <1>2, <1>3, PTL DEF Spec

(* push and pop never race on a slot: the acquire loads that filled the    *)
(* caches order the other thread's last access before this one, although   *)
(* the caches are older than the counters.                                 *)
THEOREM RaceFree ==
  ASSUME SlotsFit
  PROVE  Spec => []NoDataRace
<1>1. TypeOK /\ Inv => NoDataRace
  <2> SUFFICES ASSUME TypeOK, Inv PROVE NoDataRace
    OBVIOUS
  <2>at. PICK h \in 0 .. MaxSends, t \in 0 .. MaxSends : InvAt(h, t)
    BY InvIs
  <2>0. /\ sent \in Nat /\ popped \in Nat /\ N \in Nat \ {0}
        /\ h \in Nat /\ t \in Nat /\ MaxSends \in Nat /\ sent <= MaxSends
        /\ tailNow = Wrap(sent) /\ headNow = Wrap(popped)
        /\ h <= tx.view /\ tx.view \in Nat
        /\ popped <= t /\ t <= rx.view /\ rx.view <= sent
        /\ rx.view \in Nat /\ rx.own \in Nat
        /\ Slot(sent) \in 0 .. N - 1 /\ Slot(popped) \in 0 .. N - 1
        /\ buffer \in [0 .. N - 1 -> Cell]
    BY <2>at, Facts, SlotRange DEF TypeOK
  <2>1. ASSUME tx.pc = "access" PROVE buffer[Slot(sent)].read <= tx.view
    <3> DEFINE last == buffer[Slot(sent)].read
    <3>1. last \in Nat
      BY <2>0, CellFields
    <3>2. SUFFICES ASSUME last > tx.view PROVE FALSE
      BY <2>0, <3>1
    <3>3. Slot(last - 1) = Slot(sent) /\ last <= rx.own
      <4>1. /\ last > 0 => Slot(last - 1) = Slot(sent)
            /\ last <= rx.own
        BY <2>0 DEF Inv, RingInv
      <4> QED
        BY <2>0, <3>1, <3>2, <4>1
    <3>4. sent < h + N
      BY <2>at, <2>1 DEF InvAt, SenderAt
    <3>5. rx.own <= sent
      BY <2>at, <2>0 DEF InvAt, ReceiverAt
    <3> HIDE DEF last
    <3>6. last - 1 \in Nat /\ last - 1 < sent /\ sent < last - 1 + N
      BY <2>0, <3>1, <3>2, <3>3, <3>4, <3>5
    <3> QED
      BY <2>0, <3>3, <3>6, SlotsDiffer
  <2>2. ASSUME rx.pc = "access" PROVE buffer[Slot(popped)].wrote <= rx.view
    <3>1. popped < t
      BY <2>at, <2>2 DEF InvAt, ReceiverAt
    <3>2. popped \in 0 .. sent - 1 /\ popped >= popped
      BY <2>0, <3>1
    <3>3. buffer[Slot(popped)].wrote = popped + 1
      BY <2>0, <3>2 DEF Inv, RingInv
    <3> QED
      BY <2>0, <3>1, <3>3
  <2>3. tx.pc = "access" => Slot(tailNow) = Slot(sent)
    <3>1. tx.pc = "access" => sent < MaxSends
      BY <2>at DEF InvAt, SenderAt
    <3> QED
      BY <2>0, <3>1, SlotWrap
  <2>4. rx.pc = "access" => Slot(headNow) = Slot(popped)
    <3>1. rx.pc = "access" => popped < t
      BY <2>at DEF InvAt, ReceiverAt
    <3>2. rx.pc = "access" => popped < MaxSends
      BY <2>0, <3>1
    <3> QED
      BY <2>0, <3>2, SlotWrap
  <2> QED
    BY <2>1, <2>2, <2>3, <2>4 DEF NoDataRace
<1> QED
  BY <1>1, Invariant, PTL

(* A push writes only where no message waits.                              *)
THEOREM PushFindsSpace ==
  ASSUME SlotsFit
  PROVE  Spec => []WriteHasSpace
<1>1. TypeOK /\ Inv => WriteHasSpace
  <2> SUFFICES ASSUME TypeOK, Inv, tx.pc = "access"
               PROVE  buffer[Slot(tailNow)].val \notin Unread
    BY DEF WriteHasSpace
  <2>at. PICK h \in 0 .. MaxSends, t \in 0 .. MaxSends : InvAt(h, t)
    BY InvIs
  <2>1. sent < h + N /\ sent < MaxSends
    BY <2>at DEF InvAt, SenderAt
  <2>0. /\ sent \in Nat /\ popped \in Nat /\ N \in Nat \ {0}
        /\ h \in Nat /\ h <= popped /\ Slot(tailNow) = Slot(sent)
        /\ Slot(sent) \in 0 .. N - 1
    BY <2>at, <2>1, Facts, SlotRange, SlotWrap
  <2> DEFINE m == buffer[Slot(sent)].val
  <2>2. SUFFICES ASSUME m \in popped + 1 .. sent PROVE FALSE
    BY <2>0 DEF Unread, popped
  <2>3. Slot(m - 1) = Slot(sent)
    BY <2>0, <2>2 DEF Inv, RingInv
  <2> HIDE DEF m
  <2>4. m - 1 \in Nat /\ m - 1 < sent /\ sent < m - 1 + N
    BY <2>0, <2>1, <2>2
  <2> QED
    BY <2>0, <2>3, <2>4, SlotsDiffer
<1> QED
  BY <1>1, Invariant, PTL

(* Messages come out in the order they went in, none lost or repeated, and *)
(* at most N are on the way.                                               *)
THEOREM MessagesInOrder ==
  ASSUME SlotsFit
  PROVE  Spec => []FifoOrder
<1>1. TypeOK /\ Inv => FifoOrder
  <2> SUFFICES ASSUME TypeOK, Inv PROVE FifoOrder
    OBVIOUS
  <2>1. received \in Seq(Nat) /\ \A k \in 1 .. Len(received) : received[k] = k
    BY DEF TypeOK, Inv, HistoryInv, popped
  <2>2. received = [k \in 1 .. Len(received) |-> k]
    BY <2>1
  <2>3. sent - popped \in 0 .. N
    <3>1. PICK h \in 0 .. MaxSends, t \in 0 .. MaxSends : InvAt(h, t)
      BY InvIs
    <3>2. /\ sent \in Nat /\ popped \in Nat /\ h \in Nat /\ N \in Nat
          /\ popped <= sent /\ h <= popped /\ sent <= h + N
      BY <3>1, Facts
    <3> QED
      BY <3>2
  <2> QED
    BY <2>2, <2>3 DEF FifoOrder, popped
<1> QED
  BY <1>1, Invariant, PTL

(* len() errs on one side only, until the handle's next push or pop.       *)
THEOREM LenOneSided ==
  ASSUME SlotsFit
  PROVE  Spec => []LenSound
<1>1. TypeOK /\ Inv => LenSound
  <2> SUFFICES ASSUME TypeOK, Inv PROVE LenSound
    OBVIOUS
  <2>0. PICK h \in 0 .. MaxSends, t \in 0 .. MaxSends : InvAt(h, t)
    BY InvIs
  <2>1. /\ sent \in Nat /\ popped \in Nat /\ tx.view \in Nat /\ rx.view \in Nat
        /\ tx.len \in 0 .. UsizeMod /\ rx.len \in 0 .. UsizeMod /\ N \in Nat
        /\ tx.view <= popped /\ rx.view <= sent /\ UsizeMod \in Nat
    BY <2>0, Facts
  <2>2. /\ tx.len # NoLen => sent - tx.view <= tx.len /\ tx.len <= N
        /\ rx.len # NoLen => rx.len <= rx.view - popped
    BY <2>0 DEF InvAt, SenderAt, ReceiverAt
  <2>3. /\ tx.len # NoLen => sent - popped <= tx.len /\ tx.len <= N
        /\ rx.len # NoLen => rx.len <= sent - popped
    BY <2>1, <2>2
  <2> QED
    BY <2>3 DEF LenSound, popped
<1> QED
  BY <1>1, Invariant, PTL

(* A caller that asked is_full or is_empty may rely on the answer: the load *)
(* that refreshes the cache sees at least what the question saw.            *)
THEOREM ChecksHold ==
  ASSUME SlotsFit
  PROVE  Spec => CheckThenAct
<1> DEFINE Step == /\ tx.pc = "load" /\ tx.len < N => tx'.pc \notin {"idle", "again"}
                   /\ rx.pc = "load" /\ rx.len \in 1 .. UsizeMod - 1
                        => rx'.pc \notin {"idle", "again"}
<1>1. TypeOK /\ Inv /\ [Next]_vars => [Step]_vars
  <2> SUFFICES ASSUME TypeOK, Inv, Next PROVE Step
    BY DEF vars
  <2>0. PICK h \in 0 .. MaxSends, t \in 0 .. MaxSends : InvAt(h, t)
    BY InvIs
  <2>1. ASSUME tx.pc = "load", tx.len < N PROVE tx'.pc \notin {"idle", "again"}
    <3>1. CASE tx' = tx
      BY <2>1, <3>1
    <3>2. ASSUME NEW i \in 1 .. Len(head), PushLoadHead(i)
          PROVE  tx'.pc \notin {"idle", "again"}
      <4>1. i \in tx.seen .. Len(head) /\ tx.view = tx.seen - 1
        BY <2>0, <3>2 DEF PushLoadHead, InvAt, SenderAt
      <4>2. /\ sent \in Nat /\ popped \in Nat /\ N \in Nat /\ UsizeMod \in Nat
            /\ Len(head) = popped + 1 /\ tx.seen \in Nat \ {0}
            /\ tx.view \in Nat /\ tx.len \in 0 .. UsizeMod
            /\ h \in Nat /\ h <= tx.view
        BY <2>0, Facts
      <4>3. sent - tx.view <= tx.len
        <5>1. tx.len # UsizeMod
          BY <2>1, <4>2, ConstantsAssumption
        <5> QED
          BY <2>0, <5>1 DEF InvAt, SenderAt, NoLen
      <4>4. /\ i - 1 \in Nat /\ h <= i - 1 /\ i - 1 <= popped
            /\ sent # i - 1 + N
        BY <2>1, <4>1, <4>2, <4>3
      <4>5. ~Full(tailNow, head[i].val)
        BY <2>0, <4>1, <4>4, HeadLoad, FullMeans
      <4>6. tx'.pc = "access"
        BY <2>0, <3>2, <4>1, <4>5, HeadLoad DEF PushLoadHead, TypeOK, Thread
      <4> QED
        BY <4>6
    <3> QED
      BY <2>1, <3>1, <3>2
      DEF Next, SenderNext, ReceiverNext, SenderStep, ReceiverStep, Push, PushAgain,
          PushWrite, PushPublish, SenderLen, DropSender, Pop, PopAgain, PopCheck,
          PopLoadTail, PopRead, PopPublish, ReceiverLen, DropReceiver, DropQueue
  <2>2. ASSUME rx.pc = "load", rx.len \in 1 .. UsizeMod - 1
        PROVE  rx'.pc \notin {"idle", "again"}
    <3>1. CASE rx' = rx
      BY <2>2, <3>1
    <3>2. ASSUME NEW i \in 1 .. Len(tail), PopLoadTail(i)
          PROVE  rx'.pc \notin {"idle", "again"}
      <4>1. i \in rx.seen .. Len(tail) /\ rx.view = rx.seen - 1
        BY <2>0, <3>2 DEF PopLoadTail, InvAt, ReceiverAt
      <4>2. /\ sent \in Nat /\ popped \in Nat /\ UsizeMod \in Nat
            /\ Len(tail) = sent + 1 /\ rx.seen \in Nat \ {0}
            /\ rx.view \in Nat /\ popped <= t /\ t <= rx.view /\ t \in Nat
        BY <2>0, Facts
      <4>3. rx.len <= rx.view - popped
        <5>1. rx.len # UsizeMod
          BY <2>2, <4>2
        <5> QED
          BY <2>0, <5>1 DEF InvAt, ReceiverAt, NoLen
      <4>4. /\ i - 1 \in Nat /\ popped <= i - 1 /\ i - 1 <= sent
            /\ i - 1 # popped
        BY <2>2, <4>1, <4>2, <4>3
      <4>5. ~Empty(headNow, tail[i].val)
        BY <2>0, <4>1, <4>2, <4>4, TailLoad, EmptyMeans
      <4>6. rx'.pc = "access"
        BY <2>0, <3>2, <4>1, <4>5, TailLoad DEF PopLoadTail, TypeOK, Thread
      <4> QED
        BY <4>6
    <3> QED
      BY <2>2, <3>1, <3>2
      DEF Next, SenderNext, ReceiverNext, SenderStep, ReceiverStep, Push, PushAgain,
          PushCheck, PushLoadHead, PushWrite, PushPublish, SenderLen, DropSender,
          Pop, PopAgain, PopRead, PopPublish, ReceiverLen, DropReceiver, DropQueue
  <2> QED
    BY <2>1, <2>2
<1>2. CheckThenAct <=> [][Step]_vars
  BY DEF CheckThenAct
<1> QED
  BY <1>1, <1>2, Invariant, PTL DEF Spec

(* The drop of the ring destroys what was not received, and nothing twice. *)
THEOREM DropsOnce ==
  ASSUME SlotsFit
  PROVE  Spec => []DroppedOnce
<1>1. TypeOK /\ Inv => DroppedOnce
  <2> SUFFICES ASSUME TypeOK, Inv PROVE DroppedOnce
    OBVIOUS
  <2>1. received \in Seq(Nat) /\ dropped \in Seq(Nat)
    BY DEF TypeOK
  <2>2. /\ \A k \in 1 .. Len(received) : received[k] = k
        /\ \A k \in 1 .. Len(dropped) : dropped[k] = Len(received) + k
    BY DEF Inv, HistoryInv, popped
  <2> DEFINE all == received \o dropped
             n == Len(received) + Len(dropped)
  <2>3. all \in Seq(Nat) /\ Len(all) = n
    BY <2>1
  <2>4. ASSUME NEW k \in 1 .. n PROVE all[k] = k
    <3>1. CASE k \in 1 .. Len(received)
      BY <2>1, <2>2, <3>1
    <3>2. CASE k \notin 1 .. Len(received)
      <4>1. /\ k - Len(received) \in 1 .. Len(dropped)
            /\ all[k] = dropped[k - Len(received)]
        BY <2>1, <3>2
      <4>2. all[k] = Len(received) + (k - Len(received))
        BY <2>2, <4>1
      <4> QED
        BY <2>1, <4>2
    <3> QED
      BY <3>1, <3>2
  <2> HIDE DEF all, n
  <2>5. all = [k \in 1 .. n |-> k]
    BY <2>3, <2>4
  <2> QED
    BY <2>5 DEF DroppedOnce, all, n
<1> QED
  BY <1>1, Invariant, PTL

(* A ring that is freed was emptied first, unless its messages own nothing *)
(* or only tail has wrapped.                                               *)
THEOREM DropsAll ==
  ASSUME SlotsFit
  PROVE  Spec => []AllDropped
<1>1. TypeOK /\ Inv => AllDropped
  <2> SUFFICES ASSUME TypeOK, Inv,
                      storage = "freed", ~ZeroSized, headNow <= tailNow
               PROVE  Len(received) + Len(dropped) = sent
    BY DEF AllDropped
  <2>1. sent \in Nat /\ Len(received) \in Nat
    BY DEF TypeOK
  <2>2. Len(dropped) = sent - Len(received)
    BY DEF Inv, HistoryInv, popped
  <2> QED
    BY <2>1, <2>2
<1> QED
  BY <1>1, Invariant, PTL

(* As long as no counter wraps, nothing that owns something is left behind *)
(* in a ring that is freed: tail is never behind head.                     *)
THEOREM NothingLeftBehind ==
  ASSUME MaxSends < UsizeMod
  PROVE  Spec => [](/\ headNow <= tailNow
                    /\ storage = "freed" /\ ~ZeroSized
                         => Len(received) + Len(dropped) = sent)
<1>1. MaxSends \in Nat /\ UsizeMod \in Nat
  BY ConstantsAssumption
<1>2. SlotsFit
  BY <1>1 DEF SlotsFit
<1>3. TypeOK /\ Inv => headNow <= tailNow
  <2> SUFFICES ASSUME TypeOK, Inv PROVE headNow <= tailNow
    OBVIOUS
  <2>1. PICK h \in 0 .. MaxSends, t \in 0 .. MaxSends : InvAt(h, t)
    BY InvIs
  <2>2. /\ sent \in Nat /\ popped \in Nat /\ popped <= sent /\ sent <= MaxSends
        /\ headNow = Wrap(popped) /\ tailNow = Wrap(sent)
    BY <2>1, Facts
  <2>3. popped < UsizeMod /\ sent < UsizeMod
    BY <1>1, <2>2
  <2>4. headNow = popped /\ tailNow = sent
    BY <2>2, <2>3, WrapSmall
  <2> QED
    BY <2>2, <2>4
<1>4. AllDropped /\ headNow <= tailNow
        => /\ headNow <= tailNow
           /\ storage = "freed" /\ ~ZeroSized
                => Len(received) + Len(dropped) = sent
  BY DEF AllDropped
<1>5. Spec => [](TypeOK /\ Inv)
  BY <1>2, Invariant
<1>6. Spec => []AllDropped
  BY <1>2, DropsAll
<1> QED
  BY <1>3, <1>4, <1>5, <1>6, PTL

-----------------------------------------------------------------------------
(* What the refinement takes for the abstract queue.                       *)
Queue == SubSeq(InRing, Len(dropped) + 1, Len(InRing))

(* It holds what was sent and neither received nor destroyed.              *)
QueueIsRun ==
  Queue = Run(popped + Len(dropped), sent - popped - Len(dropped))

(* The invariant describes the abstract state.                             *)
LEMMA QueueIs ==
  ASSUME SlotsFit, TypeOK, Inv
  PROVE  /\ QueueIsRun
         /\ received = Run(0, popped) /\ dropped = Run(popped, Len(dropped))
         /\ Len(dropped) \in 0 .. sent - popped
<1>0. /\ sent \in Nat /\ popped \in Nat /\ popped <= sent /\ UsizeMod \in Nat
      /\ sent - popped < UsizeMod /\ sent <= MaxSends /\ MaxSends \in Nat
      /\ headNow = Wrap(popped) /\ tailNow = Wrap(sent)
      /\ Len(dropped) \in Nat /\ Len(dropped) <= sent - popped
      /\ received \in Seq(Nat) /\ dropped \in Seq(Nat)
  <2>0. PICK h \in 0 .. MaxSends, t \in 0 .. MaxSends : InvAt(h, t)
    BY InvIs
  <2>1. /\ sent \in Nat /\ popped \in Nat /\ popped <= sent /\ UsizeMod \in Nat
        /\ sent <= MaxSends /\ MaxSends \in Nat /\ N \in Nat \ {0}
        /\ N < UsizeMod /\ h \in Nat /\ h <= popped /\ sent <= h + N
        /\ headNow = Wrap(popped) /\ tailNow = Wrap(sent)
    BY <2>0, Facts
  <2>2. received \in Seq(Nat) /\ dropped \in Seq(Nat)
    BY DEF TypeOK
  <2>3. Len(dropped) <= sent - popped
    BY DEF Inv, HistoryInv
  <2> QED
    BY <2>1, <2>2, <2>3
<1>1. Distance(tailNow, headNow) = sent - popped
  BY <1>0, DistanceIs
<1>2. ASSUME NEW k \in 1 .. sent - popped
      PROVE  buffer[Slot(Wrap(headNow + k - 1))].val = popped + k
  <2> DEFINE q == popped + k - 1
  <2>1. /\ q \in 0 .. sent - 1 /\ q >= popped /\ q + 1 = popped + k
        /\ q \in Nat /\ q < MaxSends /\ q = popped + (k - 1)
    BY <1>0
  <2>2. headNow + k - 1 = headNow + (k - 1)
    BY <1>0, NowRange
  <2>3. Wrap(headNow + (k - 1)) = Wrap(popped + (k - 1))
    BY <1>0, WrapAdd
  <2> HIDE DEF q
  <2>4. Slot(Wrap(headNow + k - 1)) = Slot(q)
    BY <2>1, <2>2, <2>3, SlotWrap
  <2>5. buffer[Slot(q)].val = q + 1
    BY <2>1 DEF Inv, RingInv
  <2> QED
    BY <2>1, <2>4, <2>5
<1>3. InRing = Run(popped, sent - popped)
  BY <1>1, <1>2 DEF InRing, Run
<1>4. Len(InRing) = sent - popped
  <2>1. sent - popped \in Nat
    BY <1>0
  <2> QED
    BY <1>0, <1>3, <2>1, RunSeq
<1>5. Queue = Run(popped + Len(dropped), sent - popped - Len(dropped))
  <2> DEFINE n == sent - popped
             m == Len(dropped)
  <2>1. n \in Nat /\ m \in 0 .. n /\ n \in m .. n /\ popped \in Nat
    BY <1>0
  <2>2. InRing = Run(popped, n) /\ Len(InRing) = n
    BY <1>3, <1>4
  <2> HIDE DEF n, m
  <2>3. SubSeq(Run(popped, n), m + 1, n) = Run(popped + m, n - m)
    BY <2>1, RunSub
  <2>4. SubSeq(InRing, m + 1, Len(InRing)) = Run(popped + m, n - m)
    BY <2>2, <2>3
  <2> QED
    BY <2>4 DEF Queue, n, m
<1>6. received = Run(0, popped)
  <2>1. \A k \in 1 .. popped : received[k] = 0 + k
    BY DEF Inv, HistoryInv
  <2> QED
    BY <1>0, <2>1, IsRun DEF popped
<1>7. dropped = Run(popped, Len(dropped))
  BY <1>0, IsRun DEF Inv, HistoryInv
<1> QED
  BY <1>0, <1>5, <1>6, <1>7 DEF QueueIsRun

(* A step that neither sends, receives nor destroys leaves the abstract    *)
(* queue alone.                                                            *)
LEMMA Invisible ==
  ASSUME SlotsFit, TypeOK, Inv, TypeOK', Inv',
         QueueIsRun',
         sent' = sent, received' = received, dropped' = dropped
  PROVE  UNCHANGED Fifo!fifoVars
<1>1. popped' = popped
  BY DEF popped
<1>2. QueueIsRun
  BY QueueIs
<1>3. Queue' = Queue
  BY <1>1, <1>2 DEF QueueIsRun
<1> QED
  BY <1>3 DEF Fifo!fifoVars, Queue

(* Every step of the channel is a step of the bounded FIFO or invisible.   *)
LEMMA StepRefines ==
  ASSUME SlotsFit, TypeOK, Inv, TypeOK', Inv', [Next]_vars,
         QueueIsRun'
  PROVE  [Fifo!Next]_Fifo!fifoVars
<1>at. PICK h \in 0 .. MaxSends, t \in 0 .. MaxSends : InvAt(h, t)
  BY InvIs
<1>0. /\ sent \in Nat /\ popped \in Nat /\ popped <= sent /\ N \in Nat \ {0}
      /\ h \in Nat /\ h <= popped /\ sent <= h + N /\ MaxSends \in Nat
      /\ t \in Nat /\ t <= sent
  <2>1. /\ sent \in Nat /\ popped \in Nat /\ popped <= sent /\ N \in Nat \ {0}
        /\ h \in Nat /\ h <= popped /\ sent <= h + N /\ MaxSends \in Nat
        /\ t \in Nat /\ t <= rx.view /\ rx.view <= sent /\ rx.view \in Nat
    BY <1>at, Facts
  <2> QED
    BY <2>1
<1>1. /\ Queue = Run(popped + Len(dropped), sent - popped - Len(dropped))
      /\ dropped = Run(popped, Len(dropped))
  BY QueueIs DEF QueueIsRun
<1>2. CASE PushPublish
  <2>1. /\ sent' = sent + 1 /\ received' = received /\ dropped' = dropped
        /\ popped' = popped /\ tx.pc = "publish"
    BY <1>2 DEF PushPublish, popped
  <2>2. sent < h + N /\ sent < MaxSends /\ dropped = <<>>
    BY <1>at, <2>1 DEF InvAt, SenderAt, HistoryInv, TypeOK
  <2> DEFINE n == sent - popped
  <2>3. /\ n \in Nat /\ n < N /\ n + 1 = sent + 1 - popped
        /\ popped + n + 1 = sent + 1 /\ sent + 1 \in 1 .. MaxSends
    BY <1>0, <2>2
  <2>4. Queue = Run(popped, n) /\ Queue' = Run(popped, n + 1)
    BY <1>0, <1>1, <2>1, <2>2, <2>3 DEF QueueIsRun
  <2>5. Len(Queue) < N /\ Queue' = Append(Queue, sent + 1)
    <3> HIDE DEF n
    <3>1. Append(Run(popped, n), popped + n + 1) = Run(popped, n + 1)
      BY <1>0, <2>3, RunAppend
    <3>2. Len(Run(popped, n)) = n
      BY <1>0, <2>3, RunSeq
    <3> QED
      BY <2>3, <2>4, <3>1, <3>2
  <2>6. Fifo!Put(sent + 1)
    BY <2>1, <2>5 DEF Fifo!Put, Queue
  <2> QED
    BY <2>3, <2>6 DEF Fifo!Next
<1>3. CASE PopPublish
  <2>1. /\ sent' = sent /\ received' = Append(received, rx.val)
        /\ dropped' = dropped /\ popped' = popped + 1 /\ rx.pc = "publish"
    BY <1>3 DEF PopPublish, popped, TypeOK
  <2>2. rx.val = popped + 1 /\ popped < t /\ dropped = <<>>
    BY <1>at, <2>1 DEF InvAt, ReceiverAt, HistoryInv, TypeOK
  <2> DEFINE n == sent - popped
  <2>3. n \in Nat \ {0} /\ n - 1 = sent - (popped + 1) /\ popped + 1 \in Nat
    BY <1>0, <2>2
  <2>4. Queue = Run(popped, n) /\ Queue' = Run(popped + 1, n - 1)
    BY <1>0, <1>1, <2>1, <2>2, <2>3 DEF QueueIsRun
  <2>5. Queue # <<>> /\ Head(Queue) = popped + 1 /\ Queue' = Tail(Queue)
    <3> HIDE DEF n
    <3>1. /\ Run(popped, n) # <<>> /\ Head(Run(popped, n)) = popped + 1
          /\ Tail(Run(popped, n)) = Run(popped + 1, n - 1)
      BY <1>0, <2>3, RunHead
    <3> QED
      BY <2>4, <3>1
  <2>6. Fifo!Take
    BY <2>1, <2>2, <2>5 DEF Fifo!Take, Queue
  <2> QED
    BY <2>6 DEF Fifo!Next
<1>4. CASE DropQueue
  <2>1. /\ sent' = sent /\ received' = received /\ popped' = popped
        /\ storage = "live" /\ dropped = <<>>
    BY <1>4 DEF DropQueue, popped, Inv, HistoryInv
  <2> DEFINE n == sent - popped
  <2>2. n \in 0 .. N
    BY <1>0
  <2>3. Queue = Run(popped, n) /\ Len(Queue) = n
    <3>1. Queue = Run(popped, n)
      BY <1>0, <1>1, <2>1
    <3>2. n \in Nat
      BY <1>0, <2>2
    <3> HIDE DEF n
    <3>3. Len(Run(popped, n)) = n
      BY <1>0, <3>2, RunSeq
    <3> QED
      BY <3>1, <3>3
  <2>4. Len(dropped') \in 0 .. n /\ dropped' = Run(popped, Len(dropped'))
    <3>1. /\ Len(dropped') \in Nat /\ dropped' \in Seq(Nat)
          /\ Len(dropped') <= sent - popped
          /\ \A k \in 1 .. Len(dropped') : dropped'[k] = popped + k
      BY <2>1 DEF Inv, HistoryInv, TypeOK
    <3> QED
      BY <1>0, <3>1, IsRun
  <2>5. CASE Len(dropped') = 0
    <3>1. dropped' = <<>>
      BY <2>5 DEF TypeOK
    <3> QED
      BY <2>1, <3>1, Invisible
  <2>6. CASE Len(dropped') # 0
    <3> DEFINE k == Len(dropped')
    <3>1. k \in 1 .. n /\ k \in 1 .. N /\ n \in Nat /\ k - 0 = k /\ popped + 0 = popped
      BY <1>0, <2>2, <2>4, <2>6
    <3>2. Queue' = Run(popped + k, n - k)
      BY <2>1 DEF QueueIsRun
    <3> HIDE DEF n
    <3>3. k \in 0 .. n /\ n \in k .. n /\ 0 \in 0 .. n
      BY <3>1
    <3>4. /\ SubSeq(Run(popped, n), 0 + 1, k) = Run(popped + 0, k - 0)
          /\ SubSeq(Run(popped, n), k + 1, n) = Run(popped + k, n - k)
      <4>1. SubSeq(Run(popped, n), 0 + 1, k) = Run(popped + 0, k - 0)
        BY <1>0, <3>1, <3>3, RunSub
      <4>2. SubSeq(Run(popped, n), k + 1, n) = Run(popped + k, n - k)
        <5>1. /\ popped \in Nat /\ n \in Nat /\ k \in 0 .. n /\ n \in k .. n
          BY <1>0, <3>1, <3>3
        <5> HIDE DEF k
        <5> QED
          BY <5>1, RunSub
      <4> QED
        BY <4>1, <4>2
    <3>5. dropped \o SubSeq(Queue, 1, k) = dropped'
      <4>1. SubSeq(Queue, 1, k) = dropped'
        BY <2>3, <2>4, <3>1, <3>4
      <4>2. dropped' \in Seq(Nat)
        BY DEF TypeOK
      <4> QED
        BY <2>1, <4>1, <4>2
    <3>6. Queue' = SubSeq(Queue, k + 1, Len(Queue))
      BY <2>3, <3>2, <3>4
    <3>7. Fifo!Discard(k)
      BY <2>1, <2>3, <3>1, <3>5, <3>6 DEF Fifo!Discard, Queue
    <3> QED
      BY <3>1, <3>7 DEF Fifo!Next
  <2> QED
    BY <2>5, <2>6
<1>5. CASE sent' = sent /\ received' = received /\ dropped' = dropped
  BY <1>5, Invisible
<1>6. PushPublish \/ PopPublish \/ DropQueue
        \/ (sent' = sent /\ received' = received /\ dropped' = dropped)
  BY DEF vars, history, Next, SenderNext, ReceiverNext, SenderStep, ReceiverStep,
         Push, PushAgain, PushCheck, PushLoadHead, PushWrite, SenderLen, DropSender,
         Pop, PopAgain, PopCheck, PopLoadTail, PopRead, ReceiverLen, DropReceiver
<1> QED
  BY <1>2, <1>3, <1>4, <1>5, <1>6

(* The channel implements the bounded FIFO of capacity N.                  *)
THEOREM ImplementsBoundedFifo ==
  ASSUME SlotsFit
  PROVE  Spec => ImplementsFifo
<1>1. Init => Fifo!Init
  <2> SUFFICES ASSUME Init PROVE Fifo!Init
    OBVIOUS
  <2>1. headNow = 0 /\ tailNow = 0 /\ received = <<>> /\ dropped = <<>>
    BY DEF Init, ZeroStore, headNow, tailNow
  <2>2. Distance(tailNow, headNow) = 0
    BY <2>1, ConstantsAssumption DEF Distance, Wrap
  <2>3. InRing = <<>>
    BY <2>2 DEF InRing
  <2> QED
    BY <2>1, <2>3 DEF Fifo!Init
<1>2. TypeOK /\ Inv => QueueIsRun
  BY QueueIs
<1>3. (TypeOK /\ Inv)' => QueueIsRun'
  BY <1>2, PTL
<1>4. TypeOK /\ Inv /\ (TypeOK /\ Inv)' /\ [Next]_vars => [Fifo!Next]_Fifo!fifoVars
  BY <1>3, StepRefines
<1> QED
  BY <1>1, <1>4, Invariant, PTL DEF Spec, ImplementsFifo, Fifo!Spec

=============================================================================
