# Verification of collections-rs

This directory holds TLA+ models of the containers in `src/src`, the TLC
configurations that check them on small instances, and TLAPS proofs. Each module is
translated from the Rust source; `PROJECT.json` maps its definitions to the lines they
stand for. `Next` is the choice among the operations and has no line of its own, except
in `SpscThreaded`, whose definitions model the loops of the repository's threaded tests.

## Inventory

The crate is a set of independent containers: none of them calls another, and the
only concurrency is in the SPSC channel.

| Component | State it keeps | Operations | What is hard | What makes it correct |
|---|---|---|---|---|
| SPSC channel (`spsc_channel.rs`) | two atomic counters `head`, `tail`; a plain cache of the other side's counter on each side; a ring of N slots; two handles with a shared reference count | `try_send`, `send`, `try_receive`, `receive`, `len`, drop of each handle and of the ring | two threads with acquire/release atomics and plain slots, stale caches, counters that wrap, panicking destructors, spinning | no data race on a slot, FIFO, never more than N messages, nothing lost or dropped twice, calls return |
| ArrayQueue (`array_queue.rs`) | `data`, `head`, `tail` | `push`, `try_push`, `force_push`, `pop`, `clear`, `get`, `as_slices`, drop | wrapping counters, two-part slices, panicking destructors between two steps | holds exactly what entered and has not left; single ownership |
| ArrayVec (`array_vec.rs`) | `data`, `len` | `push`, `pop`, `swap_remove`, `clear`, slices, drop | bitwise reads, panicking destructors | single ownership; `swap_remove` moves only the last element |
| SparseMap (`sparse_map.rs`) | dense `items` and `keys`, sparse `indices` | `insert`, `remove`, `get`, `contains_key`, `clear`, slices | three vectors to keep consistent, panics half way, arithmetic on keys | every stored key finds its item, others find nothing |
| Store (`store.rs`) | `items`, `generations`, `free_indices` | `push`, `set`, `remove`, `get`, `iter`, `clear` | recycling of slots, bit-packed keys, long call sequences | a key finds the item it was returned for and nothing else, for ever |
| ErasedVec (`erased_vec.rs`) | a raw block, `len`, `capacity`, a stored destructor | `push`, `push_many`, `pop`, `pop_many`, `swap_remove`, `swap_remove_drop`, `clear`, growth, drop; `dispose` of a pointer it returned | raw memory, growth that fails half way, pointers into the block that outlive the call | one owner per element, writes inside the block, pointers stay good until a push reuses their cell |
| BitSet (`bitset.rs`) | an array of 64-bit words | bit and set operations, counts, iterator | word boundaries | equal to operations on sets of indices |

`lib.rs` and `Cargo.toml` declare modules and metadata only.

Interactions: the two threads of the channel communicate through the counters and
the slots alone; every container calls back into the element's destructor, and a
destructor may panic. A caught panic leaves the container for further use, and that
is where steps of one operation can come apart.

## Modules

| Module | Role |
|---|---|
| `BoundedFifo` | abstract: a FIFO of bounded capacity with `Put`, `Take`, `Replace`, `Discard` |
| `SpscChannel` | the channel: both threads, the memory model, the drop of the ring |
| `SpscProperties` | its invariants, action and liveness properties, refinement of `BoundedFifo` |
| `SpscThreaded` | the loops of the repository's threaded tests, the fairness they need, `AllDelivered`; the module TLC checks |
| `SpscInvariant` | the inductive invariant behind its theorems |
| `SpscProofs` | TLAPS theorems about the channel: types; the safety properties; the refinement of `BoundedFifo` |
| `ArrayQueue`, `ArrayQueueProperties` | the ring buffer; refines `BoundedFifo` |
| `ArrayVec`, `ArrayVecProperties` | the fixed-capacity vector |
| `SparseMap`, `SparseMapProperties` | the sparse map, with the history of what its client stored |
| `Store`, `StoreProperties` | the generational store, for any client and for one that removes by the keys of `iter` |
| `ErasedVec`, `ErasedVecProperties` | the type-erased vector: its block cell by cell, and the pointers its client keeps |
| `IndexSet` | abstract: a set of indices with an ascending enumeration |
| `BitSet`, `BitSetProperties` | the bitset word by word and its iterator; refines `IndexSet` |
| `ArrayQueueProofs`, `ArrayVecProofs`, `SparseMapProofs`, `StoreProofs`, `ErasedVecProofs`, `BitSetProofs` | TLAPS theorems about each container, with the invariants they need |
| `SharedLemmas` | what several proofs need: runs of numbers, injective sequences, remainders, least elements, sizes of intervals |

The state module of a component holds its state and operations, the `...Properties`
module extends it and is the one TLC checks; the `.cfg` files give the constants.
Definitions called `Bad...` are mistakes the code does not make. They take no part
in any specification; each is the mutation under which one property must fail.

### The SPSC channel

The C++/Rust memory model is represented by its release/acquire fragment, the only
one the code uses. `head` and `tail` are modification orders: sequences of stores
`[val, view]`. A relaxed load of one's own counter reads the last store. An acquire
load of the other side's counter may read **any** store not older than the newest
the thread has read before (`seen`), and merges the storing thread's `view`, the
number of its slot accesses that happen before the store. Slots are plain memory:
each records the producer access that wrote it last and the consumer access that
read it last, so that a race is an access the other thread's view does not cover. A
racy read returns any message (`ReadValues`).

One thread step is one shared access or one local decision, in the code's order:

| Code | Action |
|---|---|
| `push`: test against `head_cache` | `Push`, `PushAgain` (both `PushCheck`) |
| `push`: `head.load(Acquire)`, refresh, second test, `Err` | `PushLoadHead` |
| `push`: write of the slot | `PushWrite` |
| `push`: `tail.store(Release)` | `PushPublish` |
| `pop`, likewise | `Pop`, `PopAgain`, `PopLoadTail`, `PopRead`, `PopPublish` |
| `send`, `receive` | the call `"loop"`: a refused call goes to `"again"` and repeats |
| `len`, `is_empty`, `is_full` | `SenderLen`, `ReceiverLen` (the own counter is exact, the other may be stale) |
| dropping a handle; dropping the ring by the last one | `DropSender`, `DropReceiver`; `DropQueue` |

`DropQueue` reads the newest stores because the reference count of `Arc` orders all
accesses before it. The k-th message is the number k. Arithmetic is that of a
release build (`Wrap`); a debug build panics instead of wrapping.

### ArrayQueue and ArrayVec

A pop is a bitwise read: `data` keeps the value and only the counters tell that it
is gone. Ownership is therefore the property: `popped`/`taken`, `destroyed` and the
live slots must never share a value. Dropping a slice goes on after the first panic
of a destructor and aborts the process at the second (`status = "aborted"`), as the
compiler's drop glue does. A call that is refused changes nothing and is no action.

### SparseMap

An index is an optional number (`<<>>` or `<<i>>`), positions count from 0. `Remove`
is the whole function, with the panic that happens when the last entry is removed;
`outcome` is how the last call ended. `stored` is what the client believes the map
holds, `removed` the keys it removed. Any client may do anything; two history
variables say under which conditions a property can be asked for: `careful` holds
while the client has not come back to a removed key, `intact` while no key doubled
past the end of usize and no destructor panicked in `clear`. An insert over a stored item
runs that item's destructor; it may panic, with the new item in place (`InsertUsed`).

### Store

A key is a record of the two parts that `StoreKey::new` masks. `issued` is the
history of keys, `live` what the client stored. `Spec` uses every key that was
pushed, stale ones included, and forgets its keys when it clears the store;
`IterSpec` also removes by the keys of `iter`. A slot is `Exhausted` when it has been
recycled so often that its generation no longer fits into a key. `remove` leaves the item
in its slot; `PushPanics` is the push that drops it later and unwinds, so that the slot is
in no queue and under no key (`lost`). `ClearPanics` is the `clear` in which the destructor
of one item panics (a second panic aborts): the items are gone then, but `generations`
and `free_indices` stay. What follows is modelled too: a push that takes a queued slot the
items do not have panics (`PushPanics`), and a new slot takes over an old generation.
`MaxSlots` bounds the generations that are kept, which such a `clear` lets grow.

### ErasedVec

The k-th element that is handed over is the number k. `block` is the memory, one cell
per element slot, and a cell keeps its bytes until something is copied over it: a
popped element stays where it was and the returned `Ptr` leads to it. `held` is the
set of such pointers the client has, each with the element it was given. The client
disposes of it, moves it out or pushes it back, in any order and across any other
call; the only thing it must do is let go of a pointer before a push reuses the cell
or moves the block (in the code the lifetime of the `Ptr` asks for more, but the tests
coerce it away). `push` is `PushMany(1)`, `pop` is `PopMany(1)`.

`reserve` and `grow` work in the arithmetic of a release build, with the capacity
assigned before the layout is tested (`PushPanics`). So does `new`: for a capacity of 0, or
whose size in bytes has no layout, it panics and there is no vector; but a size that wraps
around may have a layout, and leaves a block smaller than `capacity` (`Init`; one of no
bytes, which the allocator is not asked to support, counts as a block of no cell).
`faults` records the five things after which the code guarantees less: such a size in
`new`, `push_many` of none, `push_many` of many, a growth that failed (`Overflows`: a sum, a
capacity or a size in bytes that does not fit), a panic in `clear`. Whatever follows a write outside the block, or the use of
an element that is not there, is undefined; such a state is final, and the properties
say what must have gone wrong before it.

### BitSet

A word is the set of the positions of its 1 bits; a subtraction of 1 is what it does
to them (`MinusOne`). The iterator keeps the code's three fields. `answer` is the last
call with its argument and result: `IndexSet` gives the same answers from a plain set
of indices, and its enumeration returns the least index that is left.

## What the runs check

| Run | Bounds | Shows |
|---|---|---|
| `spsc` | N = 2, counters mod 4, 8 messages, two panicking destructors | no data race, a push never overwrites, FIFO, `len` errs on one side only, check-then-act on `is_full` and `is_empty` is reliable, drops once and leaks nothing unless a destructor panics, refines `BoundedFifo`, `try_send` and `try_receive` are wait-free, the threaded loops deliver everything in order and free the ring whatever calls came before them; all of it across two wraps of the counters |
| `array_queue` | N = 3, counters mod 6, 8 values, two panicking destructors | contents, `as_slices`, single ownership, no leak without a panic, refines `BoundedFifo` |
| `array_vec` | N = 3, 6 values, two panicking destructors | single ownership, `pop` and `swap_remove` take what `get` shows |
| `sparse_map` | keys 0, 1, 2, 5, usize of 3 bits (2 * 5 overflows), 2 items, 3 entries, destructors that panic in `insert` and `clear` | dense and sparse parts agree for any client, insert then get, a careful client sees a map |
| `sm_remove`, `sm_insert_cleared` | 3 keys | **violations**: removing the last entry panics, and a removed key goes on resolving (the trace shows both); inserting key 0 after `clear` panics |
| `store_recycle` | generations mod 2, indices mod 8, 5 pushes between two clears, 6 generations kept, one item whose destructor panics in `push` or `clear` | live keys find their items, stale keys are refused, no key is returned twice, slots are not shared, and lost only to a destructor that panics, the `u32` does not overflow |
| `store_gen_overflow` | generations mod 2 | **violation**: an item pushed into a slot whose generation outgrew the key is lost (generation 1024 in the code) |
| `store_iter` | generations mod 8 | **violation**: removing by the keys of `iter` frees a slot twice |
| `erased_vec` | usize of 5 bits, elements of 2 bytes (7 cells at most), initial capacities 0, 1, 8, 16, 17 (0 and 8 panic; 16 and 17 wrap to a block of 0 and of 1 cell; 1 grows to 2, 4 and then fails); 4 elements; `push_many` and `pop_many` of 0, 1, 2, 9, 30; one panicking destructor | every element has one owner, nothing undefined happens before one of the five faults, pointers stay good, `pop` and `swap_remove` lend what `get` shows |
| `ev_clear_panics` | 3 elements, `push` and `pop` only | **violation**: the drop after a panic in `clear` runs destructors a second time |
| `bitset` | 3 words of 2 bits, three other bitsets to combine with | every operation and answer is that of a set of indices, counts and relations included; the iterator lists the set in order |

Why the bounds are enough to be interesting: every ring is filled, drained and
filled again past its end; counters wrap where a run is about wrapping; more
messages are sent than fit; panicking destructors sit in the first and in the second
part of a ring; keys exceed, equal and precede the length of the indices; slots are
recycled more often than a 1-bit generation counts. In the channel the bound is
the number of messages, and all stale loads within it are explored. The block of
ErasedVec grows with elements in it, is filled, and fails to grow; a count of 9 makes
its size in bytes wrap to 0, and 30 makes len + count wrap. In Store, after a `clear`
that panicked, new slots read the generations that stayed while more are appended: 6 in all
leave room for this after up to 5 pushes. Three words give the bitset's loops a first, a middle and
a last word, each empty or not.

What the bounds leave out on purpose, because the code does not hold there and no
document of it says that it should (each is a hazard in `PROJECT.json`):

* N that does not divide the range of usize, once the counters wrap: the sequence of
  slots jumps and a push overwrites a message (`WriteHasSpace` fails with N = 3 and
  counters mod 8; `HoldsInside` of ArrayQueue likewise).
* `SyncQueue::drop` when tail has wrapped and head has not: its range is empty and
  the messages leak (`AllDropped` excludes the case).
* Messages of a zero-sized type that has a destructor: `SyncQueue::drop` returns
  before it destroys them (`ZeroSized`, which the theorems cover).
* A size in bytes that wraps in `ErasedVec::new`, `push_many` of none or of many, and a
  growth that fails: the run explores them, and the properties of ErasedVec excuse what
  they break (see above).
* More slots than the index part of a key counts (2^22 in the code): keys alias.
* A client of Store that keeps its keys across `clear`: they are valid again for other items.

Deadlock checking is off for the channel, ArrayQueue, ArrayVec and ErasedVec: they end when the
handles are dropped or the value is gone.

### Fairness

Safety needs none. `TryReturns` and `AllDelivered` state the fairness they assume
themselves, so that one run checks them with the rest. `TryReturns` assumes weak
fairness of the calling thread alone, and nothing of the other thread's calls.
`AllDelivered` assumes weak fairness of each thread (the operating system schedules
them), strong fairness of loading the newest store (a store becomes visible to other
threads in finite time, so a spinning load does not read the same old value for ever),
and that from some moment on both threads run the loops of the threaded tests
(`<>[][ThreadedNext]_vars`). Before that moment they may do anything; the conclusion
excludes only that a handle was dropped early, and leaves the ring unfreed only when
the receiver asked for one message more than is ever sent.

## What is proved

TLAPS proves the theorems below, for every value of the constants that the
`ConstantsAssumption` of the module allows: every capacity, width of usize and of words,
number of calls, set of panicking destructors. TLC checks these assumptions and, on
small instances, the same properties; the inductive invariants below were model-checked
on the instances of the runs before they were proved. The theorems need no fairness.
Hypotheses beyond the assumptions are named in the text; there are four, each a limit
that the code has too.

| Module | Theorem: property | Hypothesis |
|---|---|---|
| `SpscProofs` | `TypeCorrect`: `TypeOK` | |
| | `RaceFree`: `NoDataRace`, `PushFindsSpace`: `WriteHasSpace`, `MessagesInOrder`: `FifoOrder`, `LenOneSided`: `LenSound`, `DropsOnce`: `DroppedOnce`, `DropsAll`: `AllDropped`, `ChecksHold`: `CheckThenAct`, `ImplementsBoundedFifo`: `ImplementsFifo` | `SlotsFit` |
| | `NothingLeftBehind` | `MaxSends < UsizeMod` |
| `ArrayQueueProofs` | `TypeCorrect`: `TypeOK` | |
| | `HeadPointsToValid`: `HoldsInside`, `SlicesComplete`: `SlicesAgree`, `NoDoubleDrop`: `UsedOnce`, `NoLeak`: `NothingLeaked`, `ImplementsBoundedFifo`: `ImplementsFifo` | `SlotsFit` |
| `ArrayVecProofs` | `TypeCorrect`: `TypeOK`, `EachOwnedOnce`: `OwnedOnce`, `TakesWhatIsShown`: `TakesWhatGetShows` | |
| `SparseMapProofs` | `TypeCorrect`: `TypeOK`, `DensePartsAgree`: `DenseConsistent`, `InsertedFound`: `InsertThenGet`, `StoredKeysFound`: `LiveKeysFound`, `SlicesMatchStored`: `SlicesListStored` | |
| `StoreProofs` | `TypeCorrect`: `TypeOK`, `GenerationsBounded`: `GenerationBounded` | |
| | `KeysFindItems`: `LiveKeysValid`, `RemovedKeysRefused`: `StaleKeysRefused`, `KeysUnique`: `KeysNeverReissued`, `SlotsAccounted`: `SlotsPartition` | `IndicesFit` |
| `ErasedVecProofs` | `TypeCorrect`: `TypeOK`, `UsesAreDefined`: `StaysDefined`, `EachOwnedOnce`: `OwnedOnce`, `PointersStay`: `PtrsStable`, `TakesWhatIsShown`: `TakesWhatGetShows` | |
| `BitSetProofs` | `TypeCorrect`: `TypeOK`, `RelationsCorrect`: `RelationsAgree`, `CountsCorrect`: `CountsAgree`, `ImplementsSet`: `ImplementsIndexSet` | |

### The SPSC channel

The hypothesis is `SlotsFit == UsizeMod % N = 0 \/ MaxSends <= UsizeMod`. Either the
capacity divides the range of usize (on a real machine: it is a power of two), and then
the theorems hold across any number of wraps, whatever `MaxSends` is; or at most as many
messages are sent as usize counts, and then they hold for every capacity. For
another capacity they fail after the wrap (see the bounds above). `AllDropped` says nothing
of a ring that is dropped when tail has wrapped and head has not; `NothingLeftBehind` says
that without a wrap there is no such ring, and that a freed one leaked nothing.
`TypeCorrect` needs no hypothesis; `TypeOK` is inductive as it stands.

None of these invariants is inductive. That the slot at tail was read and may be written
again depends on how old `head_cache` can be, on what the load that filled it acquired,
and on which position every other slot holds. `SpscInvariant` has the strengthening
`Inv`, in five parts:

* `CountersInv`: the i-th store of a counter has value `Wrap(i - 1)` and makes i - 1
  slot accesses visible;
* `SenderInv`, `ReceiverInv`: a cache holds `Wrap` of some position (`SenderAt(h)`,
  `ReceiverAt(t)`) that lags behind what its thread has seen, which lags behind the
  counter, and a thread goes on to its slot only when that position leaves room;
* `RingInv`: the positions sent and not received are in their slots, and no slot was
  ever accessed for a position that is not its own;
* `HistoryInv`: received and destroyed messages are consecutive.

`InvInductive` takes one lemma per action. The counters are only known modulo usize, so the
invariant speaks of positions that never wrap, and three lemmas about remainders bring
the code's tests down to them: `DistanceIs` and `WrapEqual` (the wrapping subtraction and the
test for equality are those of the positions, because fewer than UsizeMod of them are
between any two that the code compares) and `SlotWrap` (a wrapped counter leads to the slot
of its position; this is where `SlotsFit` is used). The argument about slots is
`SlotsDiffer`, any N consecutive positions live in different slots: a slot the producer is about to
write whose last read it had not seen would have been read for a position less than N
behind, in another slot. For the refinement, `QueueIs` shows that the abstract queue is
the run of numbers from the last message that left to the last sent; `PushPublish`,
`PopPublish` and `DropQueue` change it as `Put`, `Take` and `Discard` do, all other
actions leave it alone.

### ArrayQueue

The hypothesis is `SlotsFit == UsizeMod % N = 0 \/ MaxPushes < UsizeMod`: either the
capacity divides the range of usize, and then the theorems hold across any number of
wraps, or the counters do not wrap. For another capacity the properties fail after the
wrap (see the bounds above). `Inv` has three parts: `CountersInv` (the counters are as
far apart as there are values inside, and modulo usize they are the numbers of values
that left and entered), `RingInv` (each live slot holds its value) and `HistoryInv`
(popped, discarded and destroyed values). The lemma that carries it is that fewer than N
consecutive counters stand for different slots. For the refinement each action is shown
to be one step of `BoundedFifo` on the values that `get` sees.

### ArrayVec

`OwnedOnce` is not inductive: it counts what was used, and must also know that only
values that were pushed can be (`OwnersInv`). A swap_remove is a permutation of the
slots (`LastMoved`), so the value it returns is the only one that leaves.

### SparseMap

`Sizes` bounds the three vectors (they are shorter than usize counts: `MaxEntries` and
`InitialIndices` are lengths of a `Vec`), `DenseConsistent` is inductive with it, and
`StoredInv` says for a careful client that `keys` lists `DOMAIN stored` and that no
index of a key that was never stored is used. The case that decides is `Remove`: of the
last entry it panics before it relinks, of another it relinks the one key that moved.

### Store

The hypothesis is `[]IndicesFit`: there are never more slots than the index part of a
key counts, as the documentation of the key type at `src/src/store.rs:3-6` limits it;
`push` does not enforce it, and keys alias beyond it. `Inv` adds five parts to
`KeysNeverReissued`: no key that was ever issued finds a slot that is queued or lost,
its generation being behind (`UnusedInv`); the generation of a slot never falls behind
the keys issued for it, and only the client's own is up to date (`IssuedInv`); each live
key has a slot of its own with its item (`LiveInv`); the queue leads to slots there are, unless
the items are gone (`QueueInv`, for the pushes after a `clear` that panicked); and every slot is exhausted, queued
or lost, or held (`SlotsInv`).

### ErasedVec

`Inv` has eight parts. `BlockInv` ties the block to `capacity` and `len` as long as neither
`new` nor a growth got a size that does not fit (`BytesWhole`: a size that does not wrap holds
a cell for every element; `RoomMade`: a growth that does not overflow leaves room for what
is pushed); `HeldInv` puts the client's pointers behind the end; and over `Used`, the cells
inside and behind pointers, `ElementsInv`, `UniqueInv` and `CompleteInv` say that they
hold elements, different ones, and all that are not gone. Each of these is conditional
on the faults that break it, and `StaysDefined` follows with them. The lemma behind all
operations that create no element is `Rearranged`: a step that maps the cells that count
afterwards one to one onto those that counted before, less those it used up, keeps the
three. Since a state after undefined behaviour is final, nothing is claimed about what
follows it.

### BitSet

`Inv` is `TypeOK` and that the iterator's word exists. The lemmas relate an index to its
word and bit (`Members`, `BitsOf`), each operation on words to the operation on sets,
and the least bit of the current word to the least index that is still to come
(`AheadAt`, `AheadFrom`); the refinement then takes one step per operation.

The counts are sums over the words (`MapThenSumSet`), that is folds which take the words in an
order that is not specified. `SumUnique` identifies such a fold with any sum from which
every word can be split off (`Additive`): on a smallest set of words on which they differed,
one step of the recursion would give the difference to a smaller one. It remains to name
that sum: the number of bits in some of the words for `count_ones` (`CountOnesMembers`, by the
bijection between the bits of a word and their indices), W for each word but the one where
the count stops for `leading_zeros` and `trailing_zeros` (`WholeWords`, `SetBounds`).

## Not modelled, and only model-checked

* Allocation failure and `handle_alloc_error`: they end the process.
* Zero-sized elements of ErasedVec (a TODO in the code) and bitsets of no word, whose
  iterator panics.
* `lib.rs` and `Cargo.toml`: no behaviour.
* Relaxed or sequentially consistent orderings other than the ones used.
* Values of elements: writes through `get_mut` and mutable slices replace a value in
  place and touch no bookkeeping.
* Liveness (`TryReturns`, `AllDelivered`) is model-checked only; TLAPS does not prove
  liveness.

## Plan

Every invariant, action property and refinement that a passing run checks is also proved;
liveness is not.
Open, and out of reach of the provers used here: `TryReturns` and `AllDelivered` for every
value of the constants.
