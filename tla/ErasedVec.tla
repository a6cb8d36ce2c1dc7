------------------------------ MODULE ErasedVec ------------------------------
(***************************************************************************)
(* The type-erased vector, src/src/erased_vec.rs: a block of raw memory, a *)
(* length, a capacity and a stored destructor.  The k-th element the       *)
(* client hands over is the number k, and a cell keeps its bytes until     *)
(* something is copied over them.  A Ptr is the cell it points to.         *)
(*                                                                         *)
(* What comes after a write outside the block, or after a destructor has   *)
(* run on a cell that owns nothing, is undefined: the model stops there.   *)
(***************************************************************************)
EXTENDS Naturals, FiniteSets

CONSTANTS
  UsizeBits,        \* the width of usize
  ItemSize,         \* the size and alignment of the element type
  ItemAlign,
  Capacities,       \* what the client may ask with_capacity for
  MaxPushes,        \* bound: how many elements the client hands over
  Counts,           \* the counts it passes to push_many and pop_many
  PanicOnDrop       \* the elements whose destructor panics

Powers == {2^k : k \in 0 .. UsizeBits}
UsizeMod == 2^UsizeBits
LayoutMax == (UsizeMod \div 2) - ItemAlign   \* the most bytes of a Layout

ASSUME ConstantsAssumption ==
  /\ UsizeBits \in Nat \ {0}
  /\ ItemSize \in Nat \ {0} /\ ItemAlign \in Powers
  /\ ItemSize <= LayoutMax          \* one element has a Layout
  /\ Capacities \subseteq 0 .. UsizeMod - 1
  /\ MaxPushes \in Nat
  /\ Counts \subseteq 0 .. UsizeMod - 1
  /\ PanicOnDrop \subseteq 1 .. MaxPushes

VARIABLES
  block,          \* the memory at head, cell by cell
  len, capacity,  \* the fields of ErasedVec
  status,         \* "live", then "freed", "leaked" or one of Undefined
  pushed,         \* how many elements were handed over
  held,           \* the pointers the client has and the element behind each
  taken,          \* the elements the client moved out through a pointer
  destroyed,      \* the elements whose destructor ran
  faults          \* what went wrong so far, see Undefined

fields == <<block, len, capacity>>
client == <<pushed, held, taken, destroyed>>
vars == <<fields, status, client, faults>>

Undefined ==
  {"overrun",     \* a write to a cell that the block does not have
   "garbage",     \* an element was used that was never written
   "twice"}       \* an element was used after it was moved out or destroyed

Garbage == 0

(* get_unchecked, read: what the bytes of a cell are.  An index that the   *)
(* block has no cell for counts as one outside, also if its offset wraps.  *)
CellAt(i) == IF i \in DOMAIN block THEN block[i] ELSE Garbage

(* as_slice; get reads one of it.                                          *)
Slice == [k \in 1 .. len |-> CellAt(k - 1)]

BadBytes(cap) == cap % UsizeMod   \* counted in elements

(* How many bytes are allocated for cap elements.  The product wraps in a  *)
(* release build.                                                          *)
Bytes(cap) == (ItemSize * cap) % UsizeMod

(* new panics if the capacity is 0 or there is no such layout, and then    *)
(* there is no vector.  A size that wrapped may have one, and leaves the   *)
(* block smaller than the capacity.                                        *)
Init ==
  /\ capacity \in Capacities \ {0} /\ Bytes(capacity) <= LayoutMax
  /\ block = [i \in 0 .. (Bytes(capacity) \div ItemSize) - 1 |-> Garbage]
  /\ len = 0
  /\ status = "live"
  /\ pushed = 0 /\ held = {} /\ taken = {} /\ destroyed = {}
  /\ faults = IF ItemSize * capacity < UsizeMod THEN {} ELSE {"new"}

-----------------------------------------------------------------------------
(* reserve and grow.  Sums wrap in a release build too, and so does        *)
(* next_power_of_two.                                                      *)
Required(count) == (len + count) % UsizeMod

BadGrows(count) == Required(count) > capacity + 1   \* off by one

Grows(count) == Required(count) > capacity

NextPowerOfTwo(n) ==
  (CHOOSE p \in Powers : p >= n /\ \A q \in Powers : q >= n => p <= q) % UsizeMod

NewCapacity(count) ==
  IF Grows(count) THEN NextPowerOfTwo(Required(count)) ELSE capacity

(* realloc copies what fits.                                               *)
Reallocated(cap) ==
  [i \in 0 .. (Bytes(cap) \div ItemSize) - 1 |-> CellAt(i)]

Memory(count) ==
  IF Grows(count) THEN Reallocated(NewCapacity(count)) ELSE block

(* A sum, a capacity or a size that does not fit: no room is made.         *)
Overflows(count) ==
  \/ len + count >= UsizeMod
  \/ Grows(count) /\ NewCapacity(count) < Required(count)
  \/ Grows(count) /\ ItemSize * NewCapacity(count) > LayoutMax

Faults(count) ==
  {f \in {"none", "many", "grow"} :
     \/ f = "none" /\ count = 0
     \/ f = "many" /\ count > 1
     \/ f = "grow" /\ Overflows(count)}

(* grow sets the capacity, then panics because there is no such layout.    *)
PushPanics(count) ==
  /\ Grows(count) /\ Bytes(NewCapacity(count)) > LayoutMax
  /\ capacity' = NewCapacity(count)
  /\ faults' = faults \cup {"grow"}
  /\ UNCHANGED <<block, len, status, client>>

(* The bytes of one element are copied to the end, and len grows by count. *)
PushCopies(count) ==
  /\ pushed < MaxPushes
  /\ Grows(count) => Bytes(NewCapacity(count)) <= LayoutMax
  /\ capacity' = NewCapacity(count)
  /\ IF len \in DOMAIN Memory(count)
     THEN /\ block' = [Memory(count) EXCEPT ![len] = pushed + 1]
          /\ UNCHANGED status
     ELSE /\ block' = Memory(count)
          /\ status' = "overrun"
  /\ len' = Required(count)
  /\ pushed' = pushed + 1
  /\ faults' = faults \cup Faults(count)
  /\ UNCHANGED <<held, taken, destroyed>>

(* push is push_many of one.  The client lets go of the pointers that a    *)
(* push would overwrite or leave dangling, and of no other.                *)
PushMany(count) ==
  /\ status = "live"
  /\ \A p \in held : p.at # len /\ p.at \notin len .. len + count - 1 /\ ~Grows(count)
  /\ PushPanics(count) \/ PushCopies(count)

(* push of an element that was popped before: its pointer may be anything  *)
(* but the end of the vector.                                              *)
PushHeld(p) ==
  /\ status = "live"
  /\ \A q \in held : q.at # len
  /\ ~Grows(1)
  /\ IF len \in DOMAIN block
     THEN /\ block' = [block EXCEPT ![len] = CellAt(p.at)]
          /\ UNCHANGED status
     ELSE /\ status' = "overrun"
          /\ UNCHANGED block
  /\ len' = Required(1)
  /\ held' = held \ {p}
  /\ faults' = faults \cup Faults(1)
  /\ UNCHANGED <<capacity, pushed, taken, destroyed>>

-----------------------------------------------------------------------------
Lent(cells) == held' = held \cup {[at |-> i, val |-> CellAt(i)'] : i \in cells}

(* pop, pop_unchecked and pop_many: the pointer that is returned leads to  *)
(* the last count elements, which stay where they are.                     *)
PopMany(count) ==
  /\ status = "live"
  /\ len >= count
  /\ len' = len - count
  /\ UNCHANGED <<block, capacity, status, pushed, taken, destroyed, faults>>
  /\ Lent(len - count .. len - 1)

BadSwapped(i, j) ==               \* copied, not swapped
  [k \in DOMAIN block |-> CellAt(IF k = i THEN j ELSE k)]

Swapped(i, j) ==
  [k \in DOMAIN block |-> CellAt(CASE k = i -> j [] k = j -> i [] OTHER -> k)]

(* Only a vector that claims more than its block swaps outside of it.      *)
AfterSwap(index, then) ==
  IF index # len - 1 /\ len - 1 \notin DOMAIN block THEN "overrun" ELSE then

BadSwapRemove(index) ==           \* swaps with the cell behind the last one
  /\ status = "live"
  /\ index < len /\ len \in DOMAIN block
  /\ block' = Swapped(index, len)
  /\ len' = len - 1
  /\ UNCHANGED <<capacity, status, pushed, taken, destroyed, faults>>
  /\ Lent({len - 1})

(* swap_remove: the element changes places with the last one, which may be *)
(* itself, and is lent to the client at the end.                           *)
SwapRemove(index) ==
  /\ status = "live"
  /\ index < len
  /\ block' = Swapped(index, len - 1)
  /\ len' = len - 1
  /\ status' = AfterSwap(index, "live")
  /\ UNCHANGED <<capacity, pushed, taken, destroyed, faults>>
  /\ Lent({len - 1})

-----------------------------------------------------------------------------
(* What using the elements of some cells leads to, if it is to be then.    *)
AfterUse(cells, then) ==
  IF \E i \in cells : CellAt(i) = Garbage
  THEN "garbage"
  ELSE IF \E i \in cells : \/ CellAt(i) \in taken \cup destroyed
                           \/ \E j \in cells \ {i} : CellAt(i) = CellAt(j)
  THEN "twice"
  ELSE then

Values(cells) == {CellAt(i) : i \in cells}

(* ErasedType::dispose of a pointer the client has.                        *)
Dispose(p) ==
  /\ status = "live"
  /\ destroyed' = destroyed \cup Values({p.at})
  /\ status' = AfterUse({p.at}, "live")
  /\ held' = held \ {p}
  /\ UNCHANGED <<fields, pushed, taken, faults>>

(* The client reads the element through the pointer and keeps it.          *)
MoveOut(p) ==
  /\ status = "live"
  /\ taken' = taken \cup Values({p.at})
  /\ status' = AfterUse({p.at}, "live")
  /\ held' = held \ {p}
  /\ UNCHANGED <<fields, pushed, destroyed, faults>>

(* swap_remove_drop: len is one less before the destructor runs.           *)
SwapRemoveDrop(index) ==
  /\ status = "live"
  /\ index < len
  /\ block' = Swapped(index, len - 1)
  /\ len' = len - 1
  /\ destroyed' = destroyed \cup Values({index})
  /\ status' = AfterSwap(index, AfterUse({index}, "live"))
  /\ UNCHANGED <<capacity, pushed, held, taken, faults>>

(* The cells whose destructors clear runs: those up to the first panic.    *)
Reached == {i \in 0 .. len - 1 : \A j \in 0 .. i - 1 : CellAt(j) \notin PanicOnDrop}
ClearPanics == \E i \in 0 .. len - 1 : CellAt(i) \in PanicOnDrop

BadClearThen(then, failed) ==     \* len is not reset at all
  /\ destroyed' = destroyed \cup Values(Reached)
  /\ status' = AfterUse(Reached, IF ClearPanics THEN failed ELSE then)
  /\ faults' = faults \cup IF ClearPanics THEN {"clear"} ELSE {}
  /\ UNCHANGED <<fields, pushed, held, taken>>

(* clear: len is reset after the loop, and not at all if one panics.       *)
ClearThen(then, failed) ==
  /\ destroyed' = destroyed \cup Values(Reached)
  /\ len' = IF ClearPanics THEN len ELSE 0
  /\ status' = AfterUse(Reached, IF ClearPanics THEN failed ELSE then)
  /\ faults' = faults \cup IF ClearPanics THEN {"clear"} ELSE {}
  /\ UNCHANGED <<block, capacity, pushed, held, taken>>

Clear == status = "live" /\ ClearThen("live", "live")

(* Drop: clear, and if it returns the block is freed.  No pointer into the *)
(* block outlives it.                                                      *)
DropVec == status = "live" /\ held = {} /\ ClearThen("freed", "leaked")

Next ==
  \/ \E count \in Counts : PushMany(count)
  \/ \E count \in Counts : PopMany(count)
  \/ \E p \in held : PushHeld(p)
  \/ \E p \in held : Dispose(p)
  \/ \E p \in held : MoveOut(p)
  \/ \E index \in 0 .. len - 1 : SwapRemove(index)
  \/ \E index \in 0 .. len - 1 : SwapRemoveDrop(index)
  \/ Clear
  \/ DropVec

Spec == Init /\ [][Next]_vars

=============================================================================
