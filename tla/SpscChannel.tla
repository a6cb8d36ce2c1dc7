----------------------------- MODULE SpscChannel -----------------------------
(***************************************************************************)
(* The single-producer single-consumer channel, src/src/spsc_channel.rs.   *)
(*                                                                         *)
(* Two threads, one owning the Sender and one the Receiver, share a        *)
(* SyncQueue: two atomic counters and a ring of N plain slots.  The        *)
(* memory model is the release/acquire fragment the code uses.  An atomic  *)
(* counter is its modification order, a sequence of stores; each store     *)
(* carries the storing thread's view (how many slot accesses of its own    *)
(* happen before the store), a load may return any store that is not older *)
(* than the newest one its thread has already read (coherence), and an     *)
(* acquire load merges the view of the store it reads.                     *)
(*                                                                         *)
(* The k-th message to enter the channel is the number k: the code never   *)
(* looks inside a message, so its position is all that matters.            *)
(***************************************************************************)
EXTENDS Naturals, Sequences

CONSTANTS
  N,            \* capacity, the const generic parameter of the channel
  UsizeMod,     \* 2^(bits of usize): the counters wrap at this value
  MaxSends,     \* bound: the sender sends at most this many messages
  PanicOnDrop,  \* the messages whose destructor panics
  ZeroSized     \* is the message type zero-sized?

ASSUME ConstantsAssumption ==
  /\ N \in Nat \ {0}            \* SyncQueue::new asserts N > 0
  /\ UsizeMod \in Nat /\ N < UsizeMod
  /\ MaxSends \in Nat
  /\ PanicOnDrop \subseteq 1 .. MaxSends
  /\ ZeroSized \in BOOLEAN

VARIABLES
  head, tail,             \* modification orders of the two AtomicUsize
  head_cache, tail_cache, \* the producer's and the consumer's plain caches
  buffer,                 \* the ring: contents and last accesses of each slot
  tx, rx,                 \* the two threads: step, call, view, last len()
  sent,                   \* how many messages have entered the channel
  received,               \* the messages handed to the receiver, in order
  dropped,                \* the messages SyncQueue::drop destroyed, in order
  storage                 \* "live", then "freed" or "leaked"

atomics == <<head, tail>>
caches  == <<head_cache, tail_cache>>
history == <<sent, received, dropped, storage>>
vars == <<atomics, caches, buffer, tx, rx, history>>

(***************************************************************************)
(* The definitions named Bad... are mistakes the code does not make.  Each *)
(* has the parameters of the definition after it and never takes part in   *)
(* Spec: they are there to show which property would notice the mistake.   *)
(***************************************************************************)
BadWrap(n) == n                       \* counters that do not wrap

Wrap(n) == n % UsizeMod         \* usize arithmetic of a release build
Slot(n) == n % N
Later(a, b) == IF a >= b THEN a ELSE b
NoLen == UsizeMod               \* no len() since the last push or pop: not a usize

BadFullLate(t, h)  == t = Wrap(h + N + 1)  \* off by one: N + 1 fit
BadFullEarly(t, h) == t = Wrap(h + N - 1)  \* off by one: only N - 1 fit

(* push finds the ring full, pop finds it empty, for the counters it has.  *)
Full(t, h) == t = Wrap(h + N)
Empty(h, t) == h = t

BadDistance(t, h) == Wrap(h + UsizeMod - t)  \* the operands swapped

Distance(t, h) == Wrap(t + UsizeMod - h)     \* tail - head

BadRefused(call) == "again"                  \* try_send and try_receive spin

(* Where a call goes when it cannot proceed: send and receive repeat it.   *)
Refused(call) == IF call = "loop" THEN "again" ELSE "idle"

headNow == head[Len(head)].val  \* what the consumer reads of its own counter
tailNow == tail[Len(tail)].val  \* what the producer reads of its own counter

(***************************************************************************)
(* seen is the newest store of the other thread's counter this thread has  *)
(* read; view, how many of the other's slot accesses happen before its     *)
(* next step; own, how many slot accesses it has made itself.              *)
(***************************************************************************)
NewThread == [pc |-> "idle", call |-> "try", seen |-> 1, view |-> 0,
              own |-> 0, val |-> 0, len |-> NoLen]

ZeroStore == [val |-> 0, view |-> 0]

Init ==
  /\ head = <<ZeroStore>> /\ tail = <<ZeroStore>>
  /\ head_cache = 0 /\ tail_cache = 0
  /\ buffer = [s \in 0 .. N - 1 |-> [val |-> 0, wrote |-> 0, read |-> 0]]
  /\ tx = NewThread /\ rx = NewThread
  /\ sent = 0 /\ received = <<>> /\ dropped = <<>>
  /\ storage = "live"

BadAcquire(thread, msgs, i) == [thread EXCEPT !.seen = i]   \* a relaxed load

(* The thread after an acquire load of the i-th store of msgs.             *)
Acquire(thread, msgs, i) ==
  [thread EXCEPT !.seen = i, !.view = Later(thread.view, msgs[i].view)]

BadRelease(thread, msgs, v) == Append(msgs, [val |-> v, view |-> 0])  \* relaxed

(* A release store of v: it publishes every slot access of the thread.     *)
Release(thread, msgs, v) ==
  Append(msgs, [val |-> v, view |-> thread.own])

-----------------------------------------------------------------------------
(* Sender: try_send is one push, send repeats push until it returns Ok.    *)

(* push up to the first test: full as far as the cached head tells?        *)
PushCheck(call) ==
  /\ tx' = [tx EXCEPT
       !.call = call,
       !.pc = IF Full(tailNow, head_cache) THEN "load" ELSE "access"]
  /\ UNCHANGED <<atomics, caches, buffer, rx, history>>

Push(call) ==
  /\ tx.pc = "idle" /\ sent < MaxSends
  /\ PushCheck(call)

PushAgain == tx.pc = "again" /\ PushCheck("loop")

(* The producer refreshes its cache; still full, push returns Err.         *)
PushLoadHead(i) ==
  /\ tx.pc = "load"
  /\ i \in tx.seen .. Len(head)
  /\ head_cache' = head[i].val
  /\ tx' = [Acquire(tx, head, i) EXCEPT
       !.pc = IF ~Full(tailNow, head[i].val) THEN "access" ELSE Refused(tx.call)]
  /\ UNCHANGED <<atomics, tail_cache, buffer, rx, history>>

PushWrite ==
  /\ tx.pc = "access"
  /\ buffer' = [buffer EXCEPT ![Slot(tailNow)] =
                   [val |-> sent + 1, wrote |-> tx.own + 1, read |-> @.read]]
  /\ tx' = [tx EXCEPT !.pc = "publish", !.own = @ + 1]
  /\ UNCHANGED <<atomics, caches, rx, history>>

PushPublish ==
  /\ tx.pc = "publish"
  /\ tail' = Release(tx, tail, Wrap(tailNow + 1))
  /\ sent' = sent + 1
  /\ tx' = [tx EXCEPT !.pc = "idle", !.len = NoLen]
  /\ UNCHANGED <<head, caches, buffer, rx, received, dropped, storage>>

(* len, is_empty and is_full of the Sender: its own tail is exact, the     *)
(* head it reads may be old.                                               *)
SenderLen(i) ==
  /\ tx.pc = "idle"
  /\ i \in tx.seen .. Len(head)
  /\ tx' = [Acquire(tx, head, i) EXCEPT
       !.len = Distance(tailNow, head[i].val)]
  /\ UNCHANGED <<atomics, caches, buffer, rx, history>>

DropSender ==
  /\ tx.pc = "idle"
  /\ tx' = [tx EXCEPT !.pc = "gone"]
  /\ UNCHANGED <<atomics, caches, buffer, rx, history>>

-----------------------------------------------------------------------------
(* Receiver: try_receive is one pop, receive repeats pop until Some.       *)

PopCheck(call) ==
  /\ rx' = [rx EXCEPT
       !.call = call,
       !.pc = IF Empty(headNow, tail_cache) THEN "load" ELSE "access"]
  /\ UNCHANGED <<atomics, caches, buffer, tx, history>>

Pop(call) == rx.pc = "idle" /\ PopCheck(call)

PopAgain == rx.pc = "again" /\ PopCheck("loop")

(* pop trusts the refreshed cache without testing it again.                *)
BadPopNoTest(i) ==
  /\ rx.pc = "load"
  /\ i \in rx.seen .. Len(tail)
  /\ tail_cache' = tail[i].val
  /\ rx' = [Acquire(rx, tail, i) EXCEPT !.pc = "access"]
  /\ UNCHANGED <<atomics, head_cache, buffer, tx, history>>

(* pop forgets to store what it loaded and tests the old cache again.      *)
BadPopNoRefresh(i) ==
  /\ rx.pc = "load"
  /\ i \in rx.seen .. Len(tail)
  /\ rx' = [Acquire(rx, tail, i) EXCEPT !.pc = Refused(rx.call)]
  /\ UNCHANGED <<atomics, caches, buffer, tx, history>>

(* The consumer refreshes its cache; still empty, pop returns None.        *)
PopLoadTail(i) ==
  /\ rx.pc = "load"
  /\ i \in rx.seen .. Len(tail)
  /\ tail_cache' = tail[i].val
  /\ rx' = [Acquire(rx, tail, i) EXCEPT
       !.pc = IF ~Empty(headNow, tail[i].val) THEN "access" ELSE Refused(rx.call)]
  /\ UNCHANGED <<atomics, head_cache, buffer, tx, history>>

(* A read that races with a write is undefined: any message may come out.  *)
ReadValues(s) ==
  IF buffer[s].wrote <= rx.view THEN {buffer[s].val} ELSE 0 .. MaxSends

PopRead ==
  /\ rx.pc = "access"
  /\ \E v \in ReadValues(Slot(headNow)) :
       rx' = [rx EXCEPT !.pc = "publish", !.own = @ + 1, !.val = v]
  /\ buffer' = [buffer EXCEPT ![Slot(headNow)] =
                   [val |-> @.val, wrote |-> @.wrote, read |-> rx.own + 1]]
  /\ UNCHANGED <<atomics, caches, tx, history>>

PopPublish ==
  /\ rx.pc = "publish"
  /\ head' = Release(rx, head, Wrap(headNow + 1))
  /\ received' = Append(received, rx.val)
  /\ rx' = [rx EXCEPT !.pc = "idle", !.len = NoLen]
  /\ UNCHANGED <<tail, caches, buffer, tx, sent, dropped, storage>>

ReceiverLen(i) ==
  /\ rx.pc = "idle"
  /\ i \in rx.seen .. Len(tail)
  /\ rx' = [Acquire(rx, tail, i) EXCEPT
       !.len = Distance(tail[i].val, headNow)]
  /\ UNCHANGED <<atomics, caches, buffer, tx, history>>

DropReceiver ==
  /\ rx.pc = "idle"
  /\ rx' = [rx EXCEPT !.pc = "gone"]
  /\ UNCHANGED <<atomics, caches, buffer, tx, history>>

-----------------------------------------------------------------------------
(* The last handle to go drops the SyncQueue.  The reference count orders  *)
(* every access of both threads before it, so it reads the newest stores.  *)

BadRemaining ==                 \* the range head..=tail, one slot too many
  [k \in 1 .. tailNow + 1 - headNow |-> buffer[Slot(headNow + k - 1)].val]

BadRemainingCached ==           \* the range head..tail_cache
  [k \in 1 .. (IF tail_cache >= headNow THEN tail_cache - headNow ELSE 0)
     |-> buffer[Slot(headNow + k - 1)].val]

(* The messages the loop over head..tail visits, oldest first: none when   *)
(* tail has wrapped and head has not.                                      *)
Remaining ==
  [k \in 1 .. (IF tailNow >= headNow THEN tailNow - headNow ELSE 0)
     |-> buffer[Slot(headNow + k - 1)].val]

(* A destructor that panics ends the loop, and dealloc is never reached.   *)
DropQueue ==
  /\ tx.pc = "gone" /\ rx.pc = "gone" /\ storage = "live"
  /\ IF ZeroSized
     THEN storage' = "freed" /\ UNCHANGED dropped
     ELSE \/ /\ \A k \in DOMAIN Remaining : Remaining[k] \notin PanicOnDrop
             /\ dropped' = Remaining
             /\ storage' = "freed"
          \/ \E k \in DOMAIN Remaining :
               /\ Remaining[k] \in PanicOnDrop
               /\ \A j \in 1 .. k - 1 : Remaining[j] \notin PanicOnDrop
               /\ dropped' = SubSeq(Remaining, 1, k)
               /\ storage' = "leaked"
  /\ UNCHANGED <<atomics, caches, buffer, tx, rx, sent, received>>

-----------------------------------------------------------------------------
(* What a thread does on its own once a call has begun.                    *)
SenderStep ==
  \/ PushAgain
  \/ \E i \in 1 .. Len(head) : PushLoadHead(i)
  \/ PushWrite
  \/ PushPublish

ReceiverStep ==
  \/ PopAgain
  \/ \E i \in 1 .. Len(tail) : PopLoadTail(i)
  \/ PopRead
  \/ PopPublish

SenderNext ==
  \/ \E call \in {"try", "loop"} : Push(call)
  \/ SenderStep
  \/ \E i \in 1 .. Len(head) : SenderLen(i)
  \/ DropSender

ReceiverNext ==
  \/ \E call \in {"try", "loop"} : Pop(call)
  \/ ReceiverStep
  \/ \E i \in 1 .. Len(tail) : ReceiverLen(i)
  \/ DropReceiver

Next == SenderNext \/ ReceiverNext \/ DropQueue

Spec == Init /\ [][Next]_vars

=============================================================================
