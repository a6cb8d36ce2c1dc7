-------------------------- MODULE ErasedVecProofs ----------------------------
(***************************************************************************)
(* Theorems about ErasedVec, for every width of usize, every size and      *)
(* alignment of the elements, every count and every set of panicking       *)
(* destructors.                                                            *)
(***************************************************************************)
EXTENDS ErasedVecProperties, SharedLemmas

Cells == Cardinality(DOMAIN block)

(* The cells that count: those inside, and those the client has a pointer  *)
(* to.                                                                     *)
Used == (0 .. len - 1) \cup {p.at : p \in held}

(* The block is what was allocated, and as long as neither new nor a       *)
(* growth got a size that does not fit, that is what capacity says.        *)
BlockInv ==
  /\ Cells \in 0 .. UsizeMod - 1
  /\ DOMAIN block = 0 .. Cells - 1 /\ block \in [0 .. Cells - 1 -> 0 .. pushed]
  /\ faults \cap {"new", "grow"} = {} =>
       Cells = capacity /\ ItemSize * capacity <= LayoutMax /\ len <= capacity
  /\ "many" \notin faults /\ status # "overrun" => len <= Cells

(* A pointer is behind the end of the vector and leads to its element.     *)
HeldInv == \A p \in held : p.at >= len /\ CellAt(p.at) = p.val

Defined == status \notin Undefined

(* The cells that count hold elements,                                     *)
ElementsInv ==
  Defined /\ "many" \notin faults => \A i \in Used : CellAt(i) # Garbage

(* each another one, and none that is gone,                                *)
UniqueInv ==
  Defined /\ faults \cap {"many", "clear"} = {} =>
    /\ \A i, j \in Used : CellAt(i) = CellAt(j) => i = j
    /\ \A i \in Used : CellAt(i) \notin taken \cup destroyed
    /\ taken \cap destroyed = {} /\ Garbage \notin taken \cup destroyed

(* and every element that was handed over is there or gone.                *)
CompleteInv ==
  Defined /\ faults \subseteq {"new", "grow"} =>
    \A v \in 1 .. pushed :
      v \in taken \cup destroyed \/ \E i \in Used : CellAt(i) = v

EndInv ==
  /\ status = "freed" => len = 0 /\ held = {}
  /\ status = "leaked" => "clear" \in faults

Types ==
  /\ len \in 0 .. UsizeMod - 1 /\ capacity \in 0 .. UsizeMod - 1
  /\ status \in {"live", "freed", "leaked"} \cup Undefined
  /\ pushed \in Nat
  /\ held \subseteq Pointer
  /\ taken \cup destroyed \subseteq 0 .. pushed
  /\ faults \subseteq {"new", "none", "many", "grow", "clear"}

Inv ==
  /\ Types /\ BlockInv /\ HeldInv
  /\ ElementsInv /\ UniqueInv /\ CompleteInv
  /\ StaysDefined /\ EndInv

-----------------------------------------------------------------------------
(* Powers of two: a set of n elements has 2^n subsets.                     *)
LEMMA PowerPositive ==
  ASSUME NEW n \in Nat
  PROVE  2^n \in Nat \ {0}
<1> DEFINE S == 1 .. n
<1>1. IsFiniteSet(S) /\ Cardinality(S) = n
  <2>1. 1 \in Int /\ n \in Int
    OBVIOUS
  <2> QED
    BY <2>1, FS_Interval
<1> HIDE DEF S
<1>2. IsFiniteSet(SUBSET S) /\ Cardinality(SUBSET S) = 2^n
  BY <1>1, FS_SUBSET
<1>3. SUBSET S # {}
  OBVIOUS
<1>4. Cardinality(SUBSET S) \in Nat /\ Cardinality(SUBSET S) # 0
  BY <1>2, <1>3, FS_CardinalityType, FS_EmptySet
<1> QED
  BY <1>2, <1>4

LEMMA Sizes ==
  /\ UsizeMod \in Nat \ {0} /\ UsizeMod \in Powers /\ Powers \subseteq Nat \ {0}
  /\ ItemSize \in Nat \ {0}
  /\ LayoutMax \in Nat /\ LayoutMax < UsizeMod - 1
<1>1. UsizeBits \in 0 .. UsizeBits
  BY ConstantsAssumption
<1>2. UsizeMod \in Nat \ {0} /\ UsizeMod \in Powers /\ Powers \subseteq Nat \ {0}
  BY <1>1, PowerPositive, ConstantsAssumption DEF UsizeMod, Powers
<1>3. ItemAlign \in Nat \ {0} /\ ItemSize \in Nat \ {0} /\ ItemSize <= LayoutMax
  BY <1>2, ConstantsAssumption
<1>4. LayoutMax \in Int /\ LayoutMax < UsizeMod - 1
  <2> DEFINE h == UsizeMod \div 2
  <2>1. h \in Nat /\ h <= UsizeMod - 1
    BY <1>2
  <2>2. LayoutMax = h - ItemAlign
    BY DEF LayoutMax
  <2> HIDE DEF h
  <2> QED
    BY <1>2, <1>3, <2>1, <2>2
<1> QED
  BY <1>2, <1>3, <1>4

(* What is allocated for c elements is a size, and has at most as many     *)
(* cells as bytes.                                                         *)
LEMMA BytesRange ==
  ASSUME NEW c \in Nat
  PROVE  /\ Bytes(c) \in 0 .. UsizeMod - 1
         /\ Bytes(c) \div ItemSize \in 0 .. UsizeMod - 1
<1> DEFINE b == Bytes(c)
           m == b \div ItemSize
<1>1. b \in 0 .. UsizeMod - 1
  <2>1. ItemSize * c \in Nat
    BY Sizes
  <2> QED
    BY <2>1, Sizes DEF Bytes
<1> HIDE DEF b
<1>2. m \in Nat /\ m <= b
  <2>1. b \in Nat /\ ItemSize \in Nat \ {0}
    BY <1>1, Sizes
  <2>2. m \in Nat /\ b = ItemSize * m + (b % ItemSize) /\ b % ItemSize \in Nat
    BY <2>1
  <2> HIDE DEF m
  <2>3. 1 * m <= ItemSize * m
    BY <2>1, <2>2, TimesMonotonic
  <2> QED
    BY <2>1, <2>2, <2>3
<1>3. m \in 0 .. UsizeMod - 1
  BY <1>1, <1>2, Sizes
<1> QED
  BY <1>1, <1>3 DEF b, m

(* A size that does not wrap has a cell for each of the elements.          *)
LEMMA BytesWhole ==
  ASSUME NEW c \in Nat, ItemSize * c < UsizeMod
  PROVE  Bytes(c) = ItemSize * c /\ Bytes(c) \div ItemSize = c
<1>1. ItemSize * c \in Nat
  BY Sizes
<1>2. Bytes(c) = ItemSize * c
  BY <1>1, Sizes DEF Bytes
<1> DEFINE q == (ItemSize * c) \div ItemSize
           r == (ItemSize * c) % ItemSize
<1>3. ItemSize \in Nat \ {0} /\ 0 \in 0 .. ItemSize - 1 /\ ItemSize * c + 0 = ItemSize * c
  BY <1>1, Sizes
<1>4. r = 0
  BY <1>1, <1>3, Remainder
<1>5. ItemSize * c = ItemSize * q + r /\ q \in Nat
  BY <1>1, <1>3
<1> HIDE DEF q, r
<1>6. ItemSize * (c - q) = 0 /\ c - q \in Int
  BY <1>3, <1>4, <1>5
<1>7. c - q = 0
  BY <1>3, <1>6
<1>8. c = q
  BY <1>5, <1>7
<1> QED
  BY <1>2, <1>8 DEF q

(* Sums and capacities are numbers of the width of usize.                  *)
LEMMA CapacityRange ==
  ASSUME Types, NEW count \in 0 .. UsizeMod - 1
  PROVE  /\ Required(count) \in 0 .. UsizeMod - 1
         /\ NewCapacity(count) \in 0 .. UsizeMod - 1
<1> DEFINE n == Required(count)
           S == {p \in Powers : p >= n}
<1>1. n \in 0 .. UsizeMod - 1
  BY Sizes DEF Types, Required
<1> HIDE DEF n
<1>2. S \in SUBSET Nat /\ S # {}
  <2>1. UsizeMod \in Powers /\ UsizeMod >= n /\ Powers \subseteq Nat
    BY <1>1, Sizes
  <2>2. UsizeMod \in S
    BY <2>1
  <2> QED
    BY <2>1, <2>2
<1>3. PICK p \in S : \A q \in S : p <= q
  <2> HIDE DEF S
  <2> QED
    BY <1>2, LeastExists
<1> DEFINE c == CHOOSE x \in Powers : x >= n /\ \A q \in Powers : q >= n => x <= q
<1>4. c \in Powers
  BY <1>3
<1> HIDE DEF c
<1>5. c % UsizeMod \in 0 .. UsizeMod - 1
  BY <1>4, Sizes
<1>6. NextPowerOfTwo(n) = c % UsizeMod
  BY DEF NextPowerOfTwo, c
<1> QED
  BY <1>1, <1>5, <1>6 DEF NewCapacity, Types, n

(* A block that was allocated anew has its cells from 0 on, and as many as *)
(* its size in bytes allows; realloc keeps what fits.                      *)
LEMMA MemoryCells ==
  ASSUME Types, BlockInv, NEW count \in 0 .. UsizeMod - 1
  PROVE  \E m \in 0 .. UsizeMod - 1 :
           /\ DOMAIN Memory(count) = 0 .. m - 1
           /\ Memory(count) \in [0 .. m - 1 -> 0 .. pushed]
           /\ \A i \in 0 .. m - 1 : Memory(count)[i] = CellAt(i)
           /\ ~Grows(count) => m = Cells
           /\ Grows(count) => m = Bytes(NewCapacity(count)) \div ItemSize
<1>1. CASE ~Grows(count)
  BY <1>1 DEF Memory, CellAt, BlockInv
<1>2. CASE Grows(count)
  <2> DEFINE m == Bytes(NewCapacity(count)) \div ItemSize
  <2>1. m \in 0 .. UsizeMod - 1
    BY CapacityRange, BytesRange, Sizes
  <2>2. Memory(count) = [i \in 0 .. m - 1 |-> CellAt(i)]
    BY <1>2 DEF Memory, Reallocated
  <2> HIDE DEF m
  <2>3. \A i \in 0 .. m - 1 : CellAt(i) \in 0 .. pushed
    BY DEF CellAt, Garbage, BlockInv, Types
  <2> QED
    BY <1>2, <2>1, <2>2, <2>3 DEF m
<1> QED
  BY <1>1, <1>2

(* What makes a push go wrong.                                             *)
LEMMA FaultsAre ==
  ASSUME NEW count \in Nat
  PROVE  /\ Faults(count) \subseteq {"none", "many", "grow"}
         /\ "none" \in Faults(count) <=> count = 0
         /\ "many" \in Faults(count) <=> count > 1
         /\ "grow" \in Faults(count) <=> Overflows(count)
BY DEF Faults

(* A growth that does not fail makes room for count more.                  *)
LEMMA RoomMade ==
  ASSUME Types, BlockInv, NEW count \in 0 .. UsizeMod - 1, NEW m \in Nat,
         faults \cap {"new", "grow"} = {}, ~Overflows(count),
         ~Grows(count) => m = Cells,
         Grows(count) => m = Bytes(NewCapacity(count)) \div ItemSize
  PROVE  /\ m = NewCapacity(count) /\ ItemSize * NewCapacity(count) <= LayoutMax
         /\ Required(count) = len + count /\ len + count <= m
<1> DEFINE c == NewCapacity(count)
<1>1. Required(count) = len + count /\ len + count \in Nat
  <2>1. len + count \in 0 .. UsizeMod - 1
    BY Sizes DEF Overflows, Types
  <2> QED
    BY <2>1, Sizes DEF Required
<1>2. CASE ~Grows(count)
  BY <1>1, <1>2 DEF BlockInv, NewCapacity, Grows, Types
<1>3. CASE Grows(count)
  <2>1. c \in Nat /\ c >= len + count /\ ItemSize * c <= LayoutMax
    BY <1>1, <1>3, CapacityRange, Sizes DEF Overflows
  <2> HIDE DEF c
  <2>2. ItemSize * c < UsizeMod
    <3>1. ItemSize * c \in Nat
      BY <2>1, Sizes
    <3> QED
      BY <2>1, <3>1, Sizes
  <2>3. m = c
    BY <1>3, <2>1, <2>2, BytesWhole DEF c
  <2> QED
    BY <1>1, <2>1, <2>3 DEF c
<1> QED
  BY <1>2, <1>3

-----------------------------------------------------------------------------
(* What a push leaves in the block.                                        *)
LEMMA PushBlock ==
  ASSUME Types, BlockInv, status = "live", NEW count \in 0 .. UsizeMod - 1,
         PushCopies(count)
  PROVE  \E m \in 0 .. UsizeMod - 1 :
           /\ block' \in [0 .. m - 1 -> 0 .. pushed + 1]
           /\ \A i \in 0 .. m - 1 : block'[i] = IF i = len THEN pushed + 1 ELSE CellAt(i)
           /\ \/ len \in 0 .. m - 1 /\ status' = "live"
              \/ len \notin 0 .. m - 1 /\ status' = "overrun"
           /\ ~Grows(count) => m = Cells
           /\ faults' \cap {"new", "grow"} = {} =>
                /\ m = capacity' /\ ItemSize * capacity' <= LayoutMax
                /\ len' = len + count /\ len + count <= m
<1> DEFINE M == Memory(count)
<1>1. PICK m \in 0 .. UsizeMod - 1 :
        /\ DOMAIN M = 0 .. m - 1 /\ M \in [0 .. m - 1 -> 0 .. pushed]
        /\ \A i \in 0 .. m - 1 : M[i] = CellAt(i)
        /\ ~Grows(count) => m = Cells
        /\ Grows(count) => m = Bytes(NewCapacity(count)) \div ItemSize
  BY MemoryCells
<1> HIDE DEF M
<1>2. IF len \in 0 .. m - 1
      THEN block' = [M EXCEPT ![len] = pushed + 1] /\ status' = status
      ELSE block' = M /\ status' = "overrun"
  BY <1>1 DEF PushCopies, M
<1>3. pushed \in Nat /\ pushed + 1 \in 0 .. pushed + 1 /\ 0 .. pushed \subseteq 0 .. pushed + 1
  BY DEF Types
<1>4. block' \in [0 .. m - 1 -> 0 .. pushed + 1]
  BY <1>1, <1>2, <1>3
<1>5. ASSUME NEW i \in 0 .. m - 1
      PROVE  block'[i] = IF i = len THEN pushed + 1 ELSE CellAt(i)
  BY <1>1, <1>2
<1>6. ASSUME faults' \cap {"new", "grow"} = {}
      PROVE  /\ m = capacity' /\ ItemSize * capacity' <= LayoutMax
             /\ len' = len + count /\ len + count <= m
  <2>1. faults \cap {"new", "grow"} = {} /\ ~Overflows(count)
    BY <1>6, FaultsAre, Sizes DEF PushCopies
  <2>2. m \in Nat
    BY Sizes
  <2>3. /\ m = NewCapacity(count) /\ ItemSize * NewCapacity(count) <= LayoutMax
        /\ Required(count) = len + count /\ len + count <= m
    BY <1>1, <2>1, <2>2, RoomMade
  <2> QED
    BY <2>3 DEF PushCopies
<1> QED
  BY <1>1, <1>2, <1>4, <1>5, <1>6

-----------------------------------------------------------------------------
(* A pointer is known by its cell.                                         *)
LEMMA PointersDiffer ==
  ASSUME Types, HeldInv, NEW p \in held, NEW q \in held, p.at = q.at
  PROVE  p = q
<1>1. p \in Pointer /\ q \in Pointer /\ p.val = q.val
  BY DEF Types, HeldInv
<1>2. p = [at |-> p.at, val |-> p.val] /\ q = [at |-> q.at, val |-> q.val]
  BY <1>1 DEF Pointer
<1> QED
  BY <1>1, <1>2

(* The cells that count are numbers, and inside they are below len.        *)
LEMMA UsedCells ==
  ASSUME Types, HeldInv
  PROVE  /\ Used \subseteq Nat
         /\ \A i \in Used : i \in 0 .. len - 1 \/ \E p \in held : i = p.at /\ i >= len
         /\ \A p \in held : p.at \in Nat /\ p.at \in Used /\ p.at \notin 0 .. len - 1
         /\ 0 .. len - 1 \subseteq Used
<1>1. \A p \in held : p.at \in Nat /\ p.at >= len
  BY DEF Types, HeldInv, Pointer
<1>2. len \in Nat
  BY Sizes DEF Types
<1> QED
  BY <1>1, <1>2 DEF Used

(* A step that keeps the elements apart: each cell that counts then holds  *)
(* what another one held, and what the others held is gone.                *)
LEMMA Rearranged ==
  ASSUME Types, ElementsInv, UniqueInv, CompleteInv, status = "live",
         NEW f, NEW T \in SUBSET Used, NEW S \in SUBSET Used, T \cap S = {},
         \A i \in Used' : f[i] \in Used \ (T \cup S) /\ CellAt(i)' = CellAt(f[i]),
         \A i, j \in Used' : f[i] = f[j] => i = j,
         \A u \in Used \ (T \cup S) : \E i \in Used' : f[i] = u,
         taken' = taken \cup Values(T), destroyed' = destroyed \cup Values(S),
         pushed' = pushed, faults \subseteq faults'
  PROVE  ElementsInv' /\ UniqueInv' /\ CompleteInv'
<1>1. Defined
  BY DEF Defined, Undefined
<1>2. ElementsInv'
  <2> SUFFICES ASSUME "many" \notin faults', NEW i \in Used'
               PROVE  CellAt(i)' # Garbage
    BY DEF ElementsInv, Garbage
  <2>1. \A u \in Used : CellAt(u) # Garbage
    BY <1>1 DEF ElementsInv
  <2> QED
    BY <2>1
<1>3. UniqueInv'
  <2> SUFFICES ASSUME faults' \cap {"many", "clear"} = {}
               PROVE  /\ \A i, j \in Used' : CellAt(i)' = CellAt(j)' => i = j
                      /\ \A i \in Used' : CellAt(i)' \notin taken' \cup destroyed'
                      /\ taken' \cap destroyed' = {}
                      /\ Garbage \notin taken' \cup destroyed'
    BY DEF UniqueInv, Garbage
  <2>1. faults \cap {"many", "clear"} = {} /\ "many" \notin faults
    OBVIOUS
  <2>2. /\ \A i, j \in Used : CellAt(i) = CellAt(j) => i = j
        /\ \A i \in Used : CellAt(i) \notin taken \cup destroyed
        /\ taken \cap destroyed = {} /\ Garbage \notin taken \cup destroyed
    BY <1>1, <2>1 DEF UniqueInv
  <2>3. \A u \in Used : CellAt(u) # Garbage
    BY <1>1, <2>1 DEF ElementsInv
  <2>4. \A i, j \in Used' : CellAt(i)' = CellAt(j)' => i = j
    BY <2>2
  <2>5. \A u \in Used \ (T \cup S) : CellAt(u) \notin Values(T) \cup Values(S)
    BY <2>2 DEF Values
  <2>6. \A i \in Used' : CellAt(i)' \notin taken' \cup destroyed'
    BY <2>2, <2>5
  <2>7. /\ Values(T) \cap Values(S) = {}
        /\ Values(T) \cap destroyed = {} /\ Values(S) \cap taken = {}
        /\ Garbage \notin Values(T) \cup Values(S)
    BY <2>2, <2>3 DEF Values
  <2>8. taken' \cap destroyed' = {} /\ Garbage \notin taken' \cup destroyed'
    BY <2>2, <2>7
  <2> QED
    BY <2>4, <2>6, <2>8
<1>4. CompleteInv'
  <2> SUFFICES ASSUME faults' \subseteq {"new", "grow"}, NEW v \in 1 .. pushed
               PROVE  v \in taken' \cup destroyed' \/ \E i \in Used' : CellAt(i)' = v
    BY DEF CompleteInv
  <2>1. v \in taken \cup destroyed \/ \E u \in Used : CellAt(u) = v
    BY <1>1 DEF CompleteInv
  <2>2. ASSUME NEW u \in Used, CellAt(u) = v, u \in T \cup S
        PROVE  v \in taken' \cup destroyed'
    BY <2>2 DEF Values
  <2>3. ASSUME NEW u \in Used, CellAt(u) = v, u \notin T \cup S
        PROVE  \E i \in Used' : CellAt(i)' = v
    BY <2>3
  <2> QED
    BY <2>1, <2>2, <2>3
<1> QED
  BY <1>2, <1>3, <1>4

(* What using elements that count leads to.                                *)
LEMMA UseIsDefined ==
  ASSUME ElementsInv, UniqueInv, Defined, NEW cells \in SUBSET Used,
         NEW then \in {"live", "freed", "leaked"}
  PROVE  /\ AfterUse(cells, then) \in {then, "garbage", "twice"}
         /\ AfterUse(cells, then) = "garbage" => "many" \in faults
         /\ AfterUse(cells, then) = "twice" => faults \cap {"many", "clear"} # {}
<1> DEFINE G == \E i \in cells : CellAt(i) = Garbage
           W == \E i \in cells : \/ CellAt(i) \in taken \cup destroyed
                                 \/ \E j \in cells \ {i} : CellAt(i) = CellAt(j)
<1>1. AfterUse(cells, then) = IF G THEN "garbage" ELSE IF W THEN "twice" ELSE then
  BY Zenon DEF AfterUse
<1>2. G => "many" \in faults
  BY DEF ElementsInv
<1>3. W => faults \cap {"many", "clear"} # {}
  BY DEF UniqueInv
<1> HIDE DEF G, W
<1>4. \/ G /\ AfterUse(cells, then) = "garbage"
      \/ ~G /\ W /\ AfterUse(cells, then) = "twice"
      \/ ~G /\ ~W /\ AfterUse(cells, then) = then
  BY <1>1
<1> QED
  BY <1>2, <1>3, <1>4

-----------------------------------------------------------------------------
(* Steps that leave the block alone and make the vector no longer.         *)
LEMMA BlockKept ==
  ASSUME Types, BlockInv, status = "live", block' = block, capacity' = capacity,
         pushed' = pushed, len' \in 0 .. len, faults \subseteq faults'
  PROVE  BlockInv' /\ \A i : CellAt(i)' = CellAt(i)
<1>1. Cells' = Cells
  BY DEF Cells
<1>2. status # "overrun" /\ len \in Nat
  BY Sizes DEF Types
<1>3. faults' \cap {"new", "grow"} = {} => Cells' = capacity' /\ ItemSize * capacity' <= LayoutMax /\ len' <= capacity'
  <2> SUFFICES ASSUME faults' \cap {"new", "grow"} = {}
               PROVE  Cells' = capacity' /\ ItemSize * capacity' <= LayoutMax /\ len' <= capacity'
    OBVIOUS
  <2>1. Cells = capacity /\ ItemSize * capacity <= LayoutMax /\ len <= capacity
    BY DEF BlockInv
  <2>2. capacity \in Nat
    BY Sizes DEF Types
  <2> QED
    BY <1>1, <1>2, <2>1, <2>2
<1>4. "many" \notin faults' /\ status' # "overrun" => len' <= Cells'
  BY <1>1, <1>2, Sizes DEF BlockInv
<1>5. /\ Cells' \in 0 .. UsizeMod - 1
      /\ DOMAIN block' = 0 .. Cells' - 1 /\ block' \in [0 .. Cells' - 1 -> 0 .. pushed']
  BY <1>1 DEF BlockInv
<1>6. BlockInv'
  BY <1>3, <1>4, <1>5 DEF BlockInv
<1> QED
  BY <1>6 DEF CellAt

(* What a cell holds is one of the elements, or nothing.                   *)
LEMMA CellRange ==
  ASSUME Types, BlockInv, NEW i
  PROVE  CellAt(i) \in 0 .. pushed /\ pushed \in Nat
BY DEF CellAt, Garbage, BlockInv, Types

(* The pointers that a pop or a swap_remove adds.                          *)
LEMMA LentPointers ==
  ASSUME Types, HeldInv, NEW cells \in SUBSET Nat, Lent(cells),
         \A i \in cells : CellAt(i)' \in Nat
  PROVE  /\ held' \subseteq Pointer
         /\ {p.at : p \in held'} = {p.at : p \in held} \cup cells
         /\ \A p \in held' : p \in held \/ (p.at \in cells /\ p.val = CellAt(p.at)')
<1> DEFINE ptr(i) == [at |-> i, val |-> CellAt(i)']
<1>1. held' = held \cup {ptr(i) : i \in cells}
  BY DEF Lent
<1>2. \A i \in cells : ptr(i) \in Pointer /\ ptr(i).at = i /\ ptr(i).val = CellAt(i)'
  BY DEF Pointer
<1> HIDE DEF ptr
<1>3. \A p \in held' : p \in held \/ (p.at \in cells /\ p.val = CellAt(p.at)')
  BY <1>1, <1>2
<1>4. held' \subseteq Pointer
  BY <1>1, <1>2 DEF Types
<1>5. {p.at : p \in held'} = {p.at : p \in held} \cup cells
  <2>1. ASSUME NEW i \in cells PROVE i \in {p.at : p \in held'}
    BY <1>1, <1>2
  <2>2. \A p \in held' : p \in held \/ p.at \in cells
    BY <1>3
  <2>3. held \subseteq held'
    BY <1>1
  <2> QED
    BY <2>1, <2>2, <2>3
<1> QED
  BY <1>3, <1>4, <1>5

(* pop and pop_many.                                                       *)
LEMMA PopManyKeeps ==
  ASSUME Inv, NEW count \in 0 .. UsizeMod - 1, PopMany(count)
  PROVE  Inv'
<1> DEFINE cells == len - count .. len - 1
<1>1. /\ status = "live" /\ status' = "live"
      /\ block' = block /\ capacity' = capacity /\ pushed' = pushed
      /\ taken' = taken /\ destroyed' = destroyed /\ faults' = faults
      /\ len \in Nat /\ len' \in 0 .. len /\ len' = len - count /\ len' \in 0 .. UsizeMod - 1
      /\ cells \in SUBSET Nat
  BY Sizes DEF Inv, Types, PopMany
<1>2. Types /\ BlockInv /\ HeldInv /\ ElementsInv /\ UniqueInv /\ CompleteInv
  BY DEF Inv
<1>3. BlockInv' /\ \A i : CellAt(i)' = CellAt(i)
  BY <1>1, <1>2, BlockKept
<1>4. /\ held' \subseteq Pointer
      /\ {p.at : p \in held'} = {p.at : p \in held} \cup cells
      /\ \A p \in held' : p \in held \/ (p.at \in cells /\ p.val = CellAt(p.at)')
  <2>1. \A i \in cells : CellAt(i)' \in Nat
    BY <1>2, <1>3, CellRange
  <2>2. Lent(cells)
    BY DEF PopMany
  <2> HIDE DEF cells
  <2> QED
    BY <1>1, <1>2, <2>1, <2>2, LentPointers
<1>5. Types'
  BY <1>1, <1>2, <1>4 DEF Types
<1>6. HeldInv'
  <2> SUFFICES ASSUME NEW p \in held' PROVE p.at >= len' /\ CellAt(p.at)' = p.val
    BY DEF HeldInv
  <2>1. CASE p \in held
    BY <1>1, <1>2, <1>3, <2>1 DEF HeldInv, Types, Pointer
  <2>2. CASE p.at \in cells /\ p.val = CellAt(p.at)'
    BY <1>1, <2>2
  <2> QED
    BY <1>4, <2>1, <2>2
<1>7. Used' = Used
  <2>1. (0 .. len' - 1) \cup cells = 0 .. len - 1
    BY <1>1
  <2>2. Used' = (0 .. len' - 1) \cup {p.at : p \in held'}
    BY DEF Used
  <2> HIDE DEF cells
  <2> QED
    BY <1>4, <2>1, <2>2 DEF Used
<1>8. ElementsInv' /\ UniqueInv' /\ CompleteInv'
  BY <1>1, <1>2, <1>3, <1>7 DEF ElementsInv, UniqueInv, CompleteInv, Defined
<1>9. StaysDefined' /\ EndInv'
  BY <1>1 DEF StaysDefined, EndInv
<1> QED
  BY <1>3, <1>5, <1>6, <1>8, <1>9 DEF Inv

(* dispose and a read through a pointer use up the pointer.                *)
LEMMA PointerUsed ==
  ASSUME Inv, status = "live", NEW p \in held, held' = held \ {p},
         UNCHANGED <<fields, pushed, faults>>,
         status' = AfterUse({p.at}, "live"),
         \/ taken' = taken \cup Values({p.at}) /\ destroyed' = destroyed
         \/ taken' = taken /\ destroyed' = destroyed \cup Values({p.at})
  PROVE  Inv'
<1>1. /\ block' = block /\ capacity' = capacity /\ pushed' = pushed
      /\ faults' = faults /\ len' = len /\ len \in Nat /\ len' \in 0 .. len
      /\ held' \in SUBSET held
  BY Sizes DEF fields, Inv, Types
<1>2. Types /\ BlockInv /\ HeldInv /\ ElementsInv /\ UniqueInv /\ CompleteInv /\ Defined
  BY DEF Inv, Defined, Undefined
<1>3. BlockInv' /\ \A i : CellAt(i)' = CellAt(i)
  BY <1>1, <1>2, BlockKept
<1>4. p.at \in Used /\ {p.at} \in SUBSET Used
  BY <1>2, UsedCells
<1>5. /\ status' \in {"live", "garbage", "twice"}
      /\ status' = "garbage" => "many" \in faults
      /\ status' = "twice" => faults \cap {"many", "clear"} # {}
  BY <1>2, <1>4, UseIsDefined
<1>6. Types'
  <2>1. Values({p.at}) \subseteq 0 .. pushed
    BY <1>2, CellRange DEF Values
  <2>2. taken' \cup destroyed' \subseteq 0 .. pushed'
    BY <1>1, <1>2, <2>1 DEF Types
  <2> QED
    BY <1>1, <1>2, <1>5, <2>2 DEF Types, Undefined
<1>7. HeldInv'
  BY <1>1, <1>2, <1>3 DEF HeldInv
<1>8. ElementsInv' /\ UniqueInv' /\ CompleteInv'
  <2> DEFINE f == [i \in Used' |-> i]
  <2>1. Used' = Used \ {p.at}
    <3>1. \A q \in held \ {p} : q.at # p.at /\ q.at \in Used
      BY <1>2, PointersDiffer, UsedCells
    <3>2. p.at \notin 0 .. len - 1
      BY <1>2, UsedCells
    <3> QED
      BY <1>1, <3>1, <3>2 DEF Used
  <2>2. Values({}) = {}
    BY DEF Values
  <2>3. PICK T \in SUBSET Used, S \in SUBSET Used :
          /\ T \cap S = {} /\ T \cup S = {p.at}
          /\ taken' = taken \cup Values(T) /\ destroyed' = destroyed \cup Values(S)
    <3>1. CASE taken' = taken \cup Values({p.at}) /\ destroyed' = destroyed
      <4>1. destroyed' = destroyed \cup Values({})
        BY <2>2, <3>1
      <4> QED
        BY <1>4, <3>1, <4>1
    <3>2. CASE taken' = taken /\ destroyed' = destroyed \cup Values({p.at})
      <4>1. taken' = taken \cup Values({})
        BY <2>2, <3>2
      <4> QED
        BY <1>4, <3>2, <4>1
    <3> QED
      BY <3>1, <3>2
  <2>4. \A i \in Used' : f[i] = i /\ i \in Used \ (T \cup S)
    BY <2>1, <2>3
  <2>5. \A u \in Used \ (T \cup S) : u \in Used' /\ f[u] = u
    BY <2>1, <2>3
  <2> HIDE DEF f
  <2>6. faults \subseteq faults'
    BY <1>1
  <2>7. \A i \in Used' : f[i] \in Used \ (T \cup S) /\ CellAt(i)' = CellAt(f[i])
    BY <1>3, <2>4
  <2>8. \A i, j \in Used' : f[i] = f[j] => i = j
    BY <2>4
  <2>9. \A u \in Used \ (T \cup S) : \E i \in Used' : f[i] = u
    BY <2>5
  <2> QED
    BY <1>1, <1>2, <2>3, <2>6, <2>7, <2>8, <2>9, Rearranged
<1>9. StaysDefined' /\ EndInv'
  BY <1>1, <1>5 DEF StaysDefined, EndInv
<1> QED
  BY <1>3, <1>6, <1>7, <1>8, <1>9 DEF Inv

(* clear, and drop with it.                                                *)
LEMMA ClearKeeps ==
  ASSUME Inv, status = "live",
         NEW then \in {"live", "freed"}, NEW failed \in {"live", "leaked"},
         then = "freed" => held = {}, ClearThen(then, failed)
  PROVE  Inv'
<1> DEFINE last == IF ClearPanics THEN failed ELSE then
<1>1. /\ block' = block /\ capacity' = capacity /\ pushed' = pushed /\ held' = held
      /\ taken' = taken /\ destroyed' = destroyed \cup Values(Reached)
      /\ faults' = faults \cup IF ClearPanics THEN {"clear"} ELSE {}
      /\ len' = IF ClearPanics THEN len ELSE 0
      /\ status' = AfterUse(Reached, last)
  BY DEF ClearThen
<1>2. /\ len \in Nat /\ len' \in 0 .. len /\ faults \subseteq faults'
      /\ len \in 0 .. UsizeMod - 1 /\ len' \in 0 .. UsizeMod - 1
  BY <1>1, Sizes DEF Inv, Types
<1>3. Types /\ BlockInv /\ HeldInv /\ ElementsInv /\ UniqueInv /\ CompleteInv /\ Defined
  BY DEF Inv, Defined, Undefined
<1>4. BlockInv' /\ \A i : CellAt(i)' = CellAt(i)
  BY <1>1, <1>2, <1>3, BlockKept
<1>5. Reached \in SUBSET Used
  BY DEF Reached, Used
<1>6. last \in {"live", "freed", "leaked"} /\ (ClearPanics => last = failed) /\ (~ClearPanics => last = then)
  OBVIOUS
<1> HIDE DEF last
<1>7. /\ status' \in {last, "garbage", "twice"}
      /\ status' = "garbage" => "many" \in faults
      /\ status' = "twice" => faults \cap {"many", "clear"} # {}
  BY <1>1, <1>3, <1>5, <1>6, UseIsDefined
<1>8. Types'
  <2>1. Values(Reached) \subseteq 0 .. pushed
    BY <1>3, CellRange DEF Values
  <2>2. taken' \cup destroyed' \subseteq 0 .. pushed'
    BY <1>1, <1>3, <2>1 DEF Types
  <2>3. status' \in {"live", "freed", "leaked"} \cup Undefined
    BY <1>6, <1>7 DEF Undefined
  <2>4. faults' \subseteq {"new", "none", "many", "grow", "clear"}
    BY <1>1, <1>3 DEF Types
  <2> QED
    BY <1>1, <1>2, <1>3, <2>2, <2>3, <2>4 DEF Types
<1>9. HeldInv'
  BY <1>1, <1>2, <1>3, <1>4 DEF HeldInv, Types, Pointer
<1>10. ElementsInv' /\ UniqueInv' /\ CompleteInv'
  <2>1. CASE ClearPanics
    <3>1. "clear" \in faults' /\ Used' = Used
      BY <1>1, <2>1 DEF Used
    <3>2. "many" \notin faults' => "many" \notin faults
      BY <1>2
    <3> QED
      BY <1>3, <1>4, <3>1, <3>2 DEF ElementsInv, UniqueInv, CompleteInv
  <2>2. CASE ~ClearPanics
    <3> DEFINE f == [i \in Used' |-> i]
               T == {i \in Used : FALSE}
               S == 0 .. len - 1
    <3>1. Reached = S
      BY <1>2, <2>2 DEF Reached, ClearPanics
    <3>2. Used' = Used \ S
      <4>1. Used' = {p.at : p \in held}
        BY <1>1, <2>2 DEF Used
      <4>2. \A p \in held : p.at \in Used /\ p.at \notin S
        BY <1>3, UsedCells
      <4> HIDE DEF S
      <4>3. Used = S \cup {p.at : p \in held}
        BY DEF Used, S
      <4> QED
        BY <4>1, <4>2, <4>3
    <3>3. T \in SUBSET Used /\ S \in SUBSET Used /\ T \cap S = {} /\ T \cup S = S
      BY <1>3, UsedCells
    <3>4. taken' = taken \cup Values(T) /\ destroyed' = destroyed \cup Values(S)
      BY <1>1, <3>1 DEF Values
    <3> HIDE DEF S, T
    <3>5. \A i \in Used' : f[i] = i /\ i \in Used \ (T \cup S)
      BY <3>2, <3>3
    <3>6. \A u \in Used \ (T \cup S) : u \in Used' /\ f[u] = u
      BY <3>2, <3>3
    <3> HIDE DEF f
    <3>7. \A i \in Used' : f[i] \in Used \ (T \cup S) /\ CellAt(i)' = CellAt(f[i])
      BY <1>4, <3>5
    <3>8. \A i, j \in Used' : f[i] = f[j] => i = j
      BY <3>5
    <3>9. \A u \in Used \ (T \cup S) : \E i \in Used' : f[i] = u
      BY <3>6
    <3> QED
      BY <1>1, <1>2, <1>3, <3>3, <3>4, <3>7, <3>8, <3>9, Rearranged
  <2> QED
    BY <2>1, <2>2
<1>11. StaysDefined'
  BY <1>2, <1>6, <1>7 DEF StaysDefined
<1>12. EndInv'
  <2>1. ASSUME status' = "freed" PROVE len' = 0 /\ held' = {}
    BY <1>1, <1>6, <1>7, <2>1
  <2>2. ASSUME status' = "leaked" PROVE "clear" \in faults'
    BY <1>1, <1>6, <1>7, <2>2
  <2> QED
    BY <2>1, <2>2 DEF EndInv
<1> QED
  BY <1>4, <1>8, <1>9, <1>10, <1>11, <1>12 DEF Inv

-----------------------------------------------------------------------------
(* swap_remove exchanges two cells, if both are in the block.              *)
Exchanged(i, j, k) == IF k = i THEN j ELSE IF k = j THEN i ELSE k

LEMMA SwapBlock ==
  ASSUME Types, BlockInv, status = "live", NEW index \in 0 .. len - 1,
         block' = Swapped(index, len - 1), len' = len - 1,
         UNCHANGED <<capacity, pushed, faults>>
  PROVE  /\ BlockInv' /\ \A k : CellAt(k)' \in 0 .. pushed
         /\ \A k : k # index /\ k # len - 1 => CellAt(k)' = CellAt(k)
         /\ index = len - 1 \/ len - 1 \in DOMAIN block =>
              \A k : CellAt(k)' = CellAt(Exchanged(index, len - 1, k))
<1> DEFINE j == len - 1
<1>1. len \in Nat /\ len \in 0 .. UsizeMod - 1 /\ pushed \in Nat /\ j \in Nat /\ index \in 0 .. j
  BY Sizes DEF Types
<1>2. /\ Cells \in 0 .. UsizeMod - 1
      /\ DOMAIN block = 0 .. Cells - 1 /\ block \in [0 .. Cells - 1 -> 0 .. pushed]
  BY DEF BlockInv
<1>3. \A k : CellAt(k) \in 0 .. pushed
  BY CellRange
<1> HIDE DEF j
<1>4. block' = [k \in DOMAIN block |->
                  CellAt(CASE k = index -> j [] k = j -> index [] OTHER -> k)]
  BY DEF Swapped, j
<1>5. DOMAIN block' = 0 .. Cells - 1 /\ block' \in [0 .. Cells - 1 -> 0 .. pushed]
  BY <1>2, <1>3, <1>4
<1>6. \A k \in 0 .. Cells - 1 : block'[k] = CellAt(Exchanged(index, j, k))
  BY <1>2, <1>4 DEF Exchanged
<1>7. \A k : CellAt(k)' = IF k \in 0 .. Cells - 1 THEN block'[k] ELSE Garbage
  BY <1>5 DEF CellAt, Garbage
<1>8. \A k : CellAt(k) = IF k \in 0 .. Cells - 1 THEN block[k] ELSE Garbage
  BY <1>2 DEF CellAt
<1>9. \A k : CellAt(k)' \in 0 .. pushed
  <2>1. \A k \in 0 .. Cells - 1 : block'[k] \in 0 .. pushed
    BY <1>5
  <2>2. Garbage \in 0 .. pushed
    BY <1>1 DEF Garbage
  <2> QED
    BY <1>7, <2>1, <2>2
<1>10. \A k : k # index /\ k # j => CellAt(k)' = CellAt(k)
  BY <1>6, <1>7, <1>8 DEF Exchanged
<1>11. ASSUME index = j \/ j \in DOMAIN block, NEW k
       PROVE  CellAt(k)' = CellAt(Exchanged(index, j, k))
  <2>1. CASE k \in 0 .. Cells - 1
    BY <1>6, <1>7, <2>1
  <2>2. CASE k \notin 0 .. Cells - 1
    <3>1. CellAt(k)' = Garbage
      BY <1>7, <2>2
    <3>2. CASE j \in DOMAIN block
      <4>1. index \in 0 .. Cells - 1 /\ j \in 0 .. Cells - 1
        BY <1>1, <1>2, <3>2
      <4>2. Exchanged(index, j, k) = k
        BY <2>2, <4>1 DEF Exchanged
      <4> QED
        BY <1>8, <2>2, <3>1, <4>2
    <3>3. CASE index = j
      <4>1. Exchanged(index, j, k) = k
        BY <3>3 DEF Exchanged
      <4> QED
        BY <1>8, <2>2, <3>1, <4>1
    <3> QED
      BY <1>11, <3>2, <3>3
  <2> QED
    BY <2>1, <2>2
<1>12. Cells' = Cells
  BY <1>2, <1>5 DEF Cells
<1>13. ASSUME faults' \cap {"new", "grow"} = {}
       PROVE  Cells' = capacity' /\ ItemSize * capacity' <= LayoutMax /\ len' <= capacity'
  <2>1. Cells = capacity /\ ItemSize * capacity <= LayoutMax /\ len <= capacity
    BY <1>13 DEF BlockInv
  <2>2. capacity \in Nat
    BY Sizes DEF Types
  <2> QED
    BY <1>1, <1>12, <2>1, <2>2
<1>14. "many" \notin faults' => len' <= Cells'
  <2>1. "many" \notin faults => len <= Cells
    BY DEF BlockInv
  <2>2. Cells \in Nat
    BY <1>2, Sizes
  <2> QED
    BY <1>1, <1>12, <2>1, <2>2
<1>15. BlockInv'
  <2>1. Cells' \in 0 .. UsizeMod - 1
    BY <1>2, <1>12
  <2>2. DOMAIN block' = 0 .. Cells' - 1 /\ block' \in [0 .. Cells' - 1 -> 0 .. pushed']
    BY <1>5, <1>12
  <2> QED
    BY <1>13, <1>14, <2>1, <2>2 DEF BlockInv
<1> QED
  BY <1>9, <1>10, <1>11, <1>15 DEF j

(* The last element is in the block, unless that is too small for capacity.*)
LEMMA LastInBlock ==
  ASSUME Types, BlockInv, len # 0, len - 1 \notin DOMAIN block
  PROVE  faults \cap {"new", "grow"} # {}
<1>1. len \in Nat /\ Cells \in Nat /\ DOMAIN block = 0 .. Cells - 1
  BY Sizes DEF Types, BlockInv
<1>2. ~(len <= Cells)
  BY <1>1
<1> QED
  BY <1>2 DEF BlockInv

(* Exchanging two cells that count permutes the cells that count.          *)
LEMMA Exchange ==
  ASSUME Types, HeldInv, NEW index \in 0 .. len - 1
  PROVE  /\ \A k \in Used : Exchanged(index, len - 1, k) \in Used
         /\ \A k : Exchanged(index, len - 1, Exchanged(index, len - 1, k)) = k
         /\ \A k : Exchanged(index, len - 1, k) = index <=> k = len - 1
<1>1. len - 1 \in 0 .. len - 1
  BY Sizes DEF Types
<1>2. index \in Used /\ len - 1 \in Used
  BY <1>1, UsedCells
<1> QED
  BY <1>2 DEF Exchanged

(* swap_remove.                                                            *)
LEMMA SwapRemoveKeeps ==
  ASSUME Inv, NEW index \in 0 .. len - 1, SwapRemove(index)
  PROVE  Inv'
<1> DEFINE last == len - 1
           f == [i \in Used' |-> Exchanged(index, last, i)]
           none == {i \in Used : FALSE}
<1>1. /\ status = "live" /\ block' = Swapped(index, last) /\ len' = last
      /\ status' = AfterSwap(index, "live") /\ Lent({last})
      /\ capacity' = capacity /\ pushed' = pushed /\ faults' = faults
      /\ taken' = taken /\ destroyed' = destroyed
  BY DEF SwapRemove
<1>2. /\ len \in Nat /\ len # 0 /\ len' \in 0 .. UsizeMod - 1 /\ last \in Nat
      /\ last \in 0 .. len - 1
  BY Sizes DEF Inv, Types, SwapRemove
<1>3. Types /\ BlockInv /\ HeldInv /\ ElementsInv /\ UniqueInv /\ CompleteInv
  BY DEF Inv
<1>4. /\ BlockInv' /\ \A k : CellAt(k)' \in 0 .. pushed
      /\ \A k : k # index /\ k # last => CellAt(k)' = CellAt(k)
      /\ index = last \/ last \in DOMAIN block =>
           \A k : CellAt(k)' = CellAt(Exchanged(index, last, k))
  BY <1>1, <1>3, SwapBlock
<1>5. /\ held' \subseteq Pointer
      /\ {p.at : p \in held'} = {p.at : p \in held} \cup {last}
      /\ \A p \in held' : p \in held \/ (p.at \in {last} /\ p.val = CellAt(p.at)')
  <2>1. \A i \in {last} : CellAt(i)' \in Nat
    BY <1>3, <1>4 DEF Types
  <2>2. {last} \in SUBSET Nat
    BY <1>2
  <2> HIDE DEF last
  <2> QED
    BY <1>1, <1>3, <2>1, <2>2, LentPointers
<1>6. \/ status' = "live" /\ (index = last \/ last \in DOMAIN block)
      \/ status' = "overrun" /\ last \notin DOMAIN block
  BY <1>1 DEF AfterSwap
<1>7. Types'
  BY <1>1, <1>2, <1>3, <1>5, <1>6 DEF Types, Undefined
<1>8. HeldInv'
  <2> SUFFICES ASSUME NEW p \in held' PROVE p.at >= len' /\ CellAt(p.at)' = p.val
    BY DEF HeldInv
  <2>1. CASE p \in held
    <3>1. p.at \in Nat /\ p.at >= len /\ CellAt(p.at) = p.val
      BY <1>3, <2>1 DEF HeldInv, Types, Pointer
    <3> QED
      BY <1>1, <1>2, <1>4, <3>1
  <2>2. CASE p.at = last /\ p.val = CellAt(p.at)'
    BY <1>1, <1>2, <2>2
  <2> QED
    BY <1>5, <2>1, <2>2
<1>9. Used' = Used
  <2>1. (0 .. len' - 1) \cup {last} = 0 .. len - 1
    BY <1>1, <1>2
  <2>2. Used' = (0 .. len' - 1) \cup {p.at : p \in held'}
    BY DEF Used
  <2> HIDE DEF last
  <2> QED
    BY <1>5, <2>1, <2>2 DEF Used
<1>10. ElementsInv' /\ UniqueInv' /\ CompleteInv'
  <2>1. CASE status' = "overrun"
    BY <2>1 DEF ElementsInv, UniqueInv, CompleteInv, Defined, Undefined
  <2>2. CASE status' = "live"
    <3>1. \A k : CellAt(k)' = CellAt(Exchanged(index, last, k))
      BY <1>4, <1>6, <2>2
    <3>2. /\ none \in SUBSET Used /\ none \cap none = {} /\ Used \ (none \cup none) = Used
          /\ Values(none) = {}
      BY DEF Values
    <3>3. /\ \A k \in Used : Exchanged(index, last, k) \in Used
          /\ \A k : Exchanged(index, last, Exchanged(index, last, k)) = k
      BY <1>3, Exchange
    <3> HIDE DEF last
    <3>4. \A i \in Used' : f[i] = Exchanged(index, last, i)
      OBVIOUS
    <3> HIDE DEF none, f
    <3>5. taken' = taken \cup Values(none) /\ destroyed' = destroyed \cup Values(none)
      BY <1>1, <3>2
    <3>6. \A i \in Used' : f[i] \in Used /\ CellAt(i)' = CellAt(f[i])
      BY <1>9, <3>1, <3>3, <3>4
    <3>7. \A i, j \in Used' : f[i] = f[j] => i = j
      BY <3>3, <3>4
    <3>8. \A u \in Used : \E i \in Used' : f[i] = u
      BY <1>9, <3>3, <3>4
    <3> QED
      BY <1>1, <1>3, <3>2, <3>5, <3>6, <3>7, <3>8, Rearranged
  <2> QED
    BY <1>6, <2>1, <2>2
<1>11. StaysDefined' /\ EndInv'
  <2>1. status' = "overrun" => faults' \cap {"new", "grow"} # {}
    BY <1>1, <1>2, <1>3, <1>6, LastInBlock
  <2> QED
    BY <1>6, <2>1 DEF StaysDefined, EndInv
<1> QED
  BY <1>4, <1>7, <1>8, <1>10, <1>11 DEF Inv

(* swap_remove_drop.                                                       *)
LEMMA SwapRemoveDropKeeps ==
  ASSUME Inv, NEW index \in 0 .. len - 1, SwapRemoveDrop(index)
  PROVE  Inv'
<1> DEFINE last == len - 1
           f == [i \in Used' |-> Exchanged(index, last, i)]
           none == {i \in Used : FALSE}
<1>1. /\ status = "live" /\ block' = Swapped(index, last) /\ len' = last
      /\ status' = AfterSwap(index, AfterUse({index}, "live"))
      /\ capacity' = capacity /\ pushed' = pushed /\ faults' = faults
      /\ taken' = taken /\ destroyed' = destroyed \cup Values({index}) /\ held' = held
  BY DEF SwapRemoveDrop
<1>2. /\ len \in Nat /\ len # 0 /\ len' \in 0 .. UsizeMod - 1 /\ last \in Nat
      /\ last \in 0 .. len - 1
  BY Sizes DEF Inv, Types, SwapRemoveDrop
<1>3. Types /\ BlockInv /\ HeldInv /\ ElementsInv /\ UniqueInv /\ CompleteInv /\ Defined
  BY <1>1 DEF Inv, Defined, Undefined
<1>4. /\ BlockInv' /\ \A k : CellAt(k)' \in 0 .. pushed
      /\ \A k : k # index /\ k # last => CellAt(k)' = CellAt(k)
      /\ index = last \/ last \in DOMAIN block =>
           \A k : CellAt(k)' = CellAt(Exchanged(index, last, k))
  BY <1>1, <1>3, SwapBlock
<1>5. index \in Used /\ {index} \in SUBSET Used
  BY <1>3, UsedCells
<1>6. \/ /\ status' = AfterUse({index}, "live") /\ (index = last \/ last \in DOMAIN block)
         /\ status' \in {"live", "garbage", "twice"}
         /\ status' = "garbage" => "many" \in faults
         /\ status' = "twice" => faults \cap {"many", "clear"} # {}
      \/ status' = "overrun" /\ last \notin DOMAIN block
  <2>1. LET then == AfterUse({index}, "live")
        IN  /\ then \in {"live", "garbage", "twice"}
            /\ then = "garbage" => "many" \in faults
            /\ then = "twice" => faults \cap {"many", "clear"} # {}
    BY <1>3, <1>5, UseIsDefined
  <2> QED
    BY <1>1, <2>1 DEF AfterSwap
<1>7. Types'
  <2>1. Values({index}) \subseteq 0 .. pushed
    BY <1>3, CellRange DEF Values
  <2>2. taken' \cup destroyed' \subseteq 0 .. pushed'
    BY <1>1, <1>3, <2>1 DEF Types
  <2> QED
    BY <1>1, <1>2, <1>3, <1>6, <2>2 DEF Types, Undefined
<1>8. HeldInv'
  <2> SUFFICES ASSUME NEW p \in held PROVE p.at >= len' /\ CellAt(p.at)' = p.val
    BY <1>1 DEF HeldInv
  <2>1. p.at \in Nat /\ p.at >= len /\ CellAt(p.at) = p.val
    BY <1>3 DEF HeldInv, Types, Pointer
  <2> QED
    BY <1>1, <1>2, <1>4, <2>1
<1>9. Used' = Used \ {last}
  <2>1. 0 .. len' - 1 = (0 .. len - 1) \ {last}
    BY <1>1, <1>2
  <2>2. \A p \in held : p.at # last
    BY <1>2, <1>3, UsedCells
  <2> HIDE DEF last
  <2> QED
    BY <1>1, <2>1, <2>2 DEF Used
<1>10. ElementsInv' /\ UniqueInv' /\ CompleteInv'
  <2>1. CASE status' = "overrun"
    BY <2>1 DEF ElementsInv, UniqueInv, CompleteInv, Defined, Undefined
  <2>2. CASE status' # "overrun"
    <3>1. \A k : CellAt(k)' = CellAt(Exchanged(index, last, k))
      BY <1>4, <1>6, <2>2
    <3>2. /\ none \in SUBSET Used /\ none \cap {index} = {} /\ none \cup {index} = {index}
          /\ Values(none) = {}
      BY DEF Values
    <3>3. /\ \A k \in Used : Exchanged(index, last, k) \in Used
          /\ \A k : Exchanged(index, last, Exchanged(index, last, k)) = k
          /\ \A k : Exchanged(index, last, k) = index <=> k = last
      BY <1>3, Exchange
    <3> HIDE DEF last
    <3>4. \A i \in Used' : f[i] = Exchanged(index, last, i)
      OBVIOUS
    <3> HIDE DEF none, f
    <3>5. taken' = taken \cup Values(none) /\ destroyed' = destroyed \cup Values({index})
      BY <1>1, <3>2
    <3>6. \A i \in Used' : f[i] \in Used \ (none \cup {index}) /\ CellAt(i)' = CellAt(f[i])
      BY <1>9, <3>1, <3>2, <3>3, <3>4
    <3>7. \A i, j \in Used' : f[i] = f[j] => i = j
      BY <3>3, <3>4
    <3>8. ASSUME NEW u \in Used \ (none \cup {index}) PROVE \E i \in Used' : f[i] = u
      <4>1. u \in Used /\ u # index
        BY <3>2
      <4>2. Exchanged(index, last, u) # last
        BY <3>3, <4>1
      <4>3. Exchanged(index, last, u) \in Used'
        BY <1>9, <3>3, <4>1, <4>2
      <4> QED
        BY <3>3, <3>4, <4>3
    <3> QED
      BY <1>1, <1>3, <1>5, <3>2, <3>5, <3>6, <3>7, <3>8, Rearranged
  <2> QED
    BY <2>1, <2>2
<1>11. StaysDefined' /\ EndInv'
  <2>1. status' = "overrun" => faults' \cap {"new", "grow"} # {}
    BY <1>1, <1>2, <1>3, <1>6, LastInBlock
  <2> QED
    BY <1>1, <1>6, <2>1 DEF StaysDefined, EndInv
<1> QED
  BY <1>4, <1>7, <1>8, <1>10, <1>11 DEF Inv

-----------------------------------------------------------------------------
(* A growth whose layout does not exist.                                   *)
LEMMA PushPanicsKeeps ==
  ASSUME Inv, status = "live", NEW count \in 0 .. UsizeMod - 1, PushPanics(count)
  PROVE  Inv'
<1>1. /\ block' = block /\ len' = len /\ pushed' = pushed /\ held' = held
      /\ taken' = taken /\ destroyed' = destroyed /\ status' = status
      /\ faults' = faults \cup {"grow"} /\ capacity' = NewCapacity(count)
  BY DEF PushPanics, client
<1>2. Used' = Used /\ Cells' = Cells /\ \A i : CellAt(i)' = CellAt(i)
  BY <1>1 DEF Used, Cells, CellAt
<1>3. Types'
  BY <1>1, CapacityRange DEF Inv, Types
<1>4. BlockInv'
  BY <1>1, <1>2 DEF Inv, BlockInv
<1>5. HeldInv'
  BY <1>1, <1>2 DEF Inv, HeldInv
<1>6. /\ Defined' = Defined /\ \A f \in {"none", "many", "clear"} : f \in faults' <=> f \in faults
      /\ faults' \subseteq {"new", "grow"} => faults \subseteq {"new", "grow"}
  BY <1>1 DEF Defined
<1>7. "many" \notin faults' => "many" \notin faults
  BY <1>6
<1>8. faults' \cap {"many", "clear"} = {} => faults \cap {"many", "clear"} = {}
  BY <1>6
<1>9. ElementsInv' /\ UniqueInv' /\ CompleteInv'
  BY <1>1, <1>2, <1>6, <1>7, <1>8 DEF Inv, ElementsInv, UniqueInv, CompleteInv
<1>10. StaysDefined' /\ EndInv'
  BY <1>1 DEF Inv, StaysDefined, EndInv
<1> QED
  BY <1>3, <1>4, <1>5, <1>9, <1>10 DEF Inv

(* The cells that count after a push of one element, or none: those that   *)
(* did, with what they held, and the one that was written.                 *)
LEMMA PushUsed ==
  ASSUME Inv, status = "live", NEW count \in 0 .. 1,
         \A p \in held : p.at # len /\ ~Grows(count),
         NEW m \in 0 .. UsizeMod - 1, len \in 0 .. m - 1, NEW v,
         \A i \in 0 .. m - 1 : block'[i] = IF i = len THEN v ELSE CellAt(i),
         DOMAIN block' = 0 .. m - 1, ~Grows(count) => m = Cells,
         len' = Required(count), held' = held
  PROVE  /\ len' = len + count /\ len' <= m
         /\ Used' = Used \cup (len .. len + count - 1) /\ len \notin Used
         /\ \A i \in {len} : CellAt(i)' = v
         /\ \A i \in Used : i \in DOMAIN block => CellAt(i)' = CellAt(i)
<1>1. len \in Nat /\ m \in Nat /\ len + 1 <= m /\ UsizeMod \in Nat /\ m < UsizeMod
  BY Sizes DEF Inv, Types
<1>2. count \in Nat /\ len + count <= m /\ len + count \in 0 .. UsizeMod - 1
  BY <1>1
<1>3. len' = len + count
  <2>1. \A n \in 0 .. UsizeMod - 1 : n % UsizeMod = n
    BY Sizes
  <2> QED
    BY <1>2, <2>1 DEF Required
<1>4. Types /\ HeldInv /\ BlockInv
  BY DEF Inv
<1>5. len \notin Used
  <2>1. \A p \in held : p.at # len
    OBVIOUS
  <2> QED
    BY <1>1, <2>1 DEF Used
<1>6. Used' = Used \cup (len .. len + count - 1)
  <2>1. 0 .. len' - 1 = (0 .. len - 1) \cup (len .. len + count - 1)
    BY <1>1, <1>2, <1>3
  <2> QED
    BY <2>1 DEF Used
<1>7. \A i \in {len} : CellAt(i)' = v
  BY <1>1 DEF CellAt
<1>8. ASSUME NEW i \in Used, i \in DOMAIN block PROVE CellAt(i)' = CellAt(i)
  <2>1. i \in 0 .. m - 1
    <3>1. CASE i \in 0 .. len - 1
      BY <1>1, <3>1
    <3>2. CASE \E p \in held : i = p.at
      BY <1>4, <1>8, <3>2 DEF BlockInv
    <3> QED
      BY <1>8, <3>1, <3>2 DEF Used
  <2>2. i # len
    BY <1>5, <1>8
  <2>3. CellAt(i)' = block'[i]
    BY <2>1 DEF CellAt
  <2> QED
    BY <2>1, <2>2, <2>3
<1> QED
  BY <1>2, <1>3, <1>5, <1>6, <1>7, <1>8

(* push and push_many.                                                     *)
LEMMA PushCopiesKeeps ==
  ASSUME Inv, status = "live", NEW count \in 0 .. UsizeMod - 1, PushCopies(count),
         \A p \in held : p.at # len /\ p.at \notin len .. len + count - 1 /\ ~Grows(count)
  PROVE  Inv'
<1>1. /\ len' = Required(count) /\ pushed' = pushed + 1 /\ held' = held
      /\ taken' = taken /\ destroyed' = destroyed /\ capacity' = NewCapacity(count)
      /\ faults' = faults \cup Faults(count)
  BY DEF PushCopies
<1>2. Types /\ BlockInv /\ HeldInv /\ ElementsInv /\ UniqueInv /\ CompleteInv /\ Defined
  BY DEF Inv, Defined, Undefined
<1>3. /\ count \in Nat /\ len \in Nat /\ len < UsizeMod /\ UsizeMod \in Nat \ {0}
      /\ pushed \in Nat /\ pushed' \in Nat /\ 0 .. pushed \subseteq 0 .. pushed'
      /\ pushed + 1 \notin 0 .. pushed /\ 1 .. pushed' = (1 .. pushed) \cup {pushed + 1}
  BY <1>1, <1>2, Sizes DEF Types
<1>4. PICK m \in 0 .. UsizeMod - 1 :
        /\ block' \in [0 .. m - 1 -> 0 .. pushed + 1]
        /\ \A i \in 0 .. m - 1 : block'[i] = IF i = len THEN pushed + 1 ELSE CellAt(i)
        /\ \/ len \in 0 .. m - 1 /\ status' = "live"
           \/ len \notin 0 .. m - 1 /\ status' = "overrun"
        /\ ~Grows(count) => m = Cells
        /\ faults' \cap {"new", "grow"} = {} =>
             /\ m = capacity' /\ ItemSize * capacity' <= LayoutMax
             /\ len' = len + count /\ len + count <= m
  BY <1>2, PushBlock
<1>5. m \in Nat /\ DOMAIN block' = 0 .. m - 1 /\ Cells' = m
  <2>1. m \in Nat /\ DOMAIN block' = 0 .. m - 1
    BY <1>3, <1>4
  <2>2. Cells' = Cardinality(0 .. m - 1)
    BY <2>1 DEF Cells
  <2> QED
    BY <2>1, <2>2, IntervalSize
<1>6. /\ Faults(count) \subseteq {"none", "many", "grow"}
      /\ "none" \in Faults(count) <=> count = 0
      /\ "many" \in Faults(count) <=> count > 1
  BY <1>3, FaultsAre
<1>7. "many" \notin faults' => "many" \notin faults /\ count \in 0 .. 1
  BY <1>1, <1>3, <1>6
<1>8. ASSUME "many" \notin faults', status' # "overrun"
      PROVE  /\ len' = len + count /\ len' <= m
             /\ Used' = Used \cup (len .. len + count - 1) /\ len \notin Used
             /\ \A i \in {len} : CellAt(i)' = pushed + 1
             /\ \A i \in Used : i \in DOMAIN block => CellAt(i)' = CellAt(i)
  <2>1. count \in 0 .. 1 /\ len \in 0 .. m - 1
    BY <1>4, <1>7, <1>8
  <2>2. \A p \in held : p.at # len /\ ~Grows(count)
    OBVIOUS
  <2> DEFINE v == pushed + 1
  <2>3. \A i \in 0 .. m - 1 : block'[i] = IF i = len THEN v ELSE CellAt(i)
    BY <1>4
  <2> HIDE DEF v
  <2>4. /\ len' = len + count /\ len' <= m
        /\ Used' = Used \cup (len .. len + count - 1) /\ len \notin Used
        /\ \A i \in {len} : CellAt(i)' = v
        /\ \A i \in Used : i \in DOMAIN block => CellAt(i)' = CellAt(i)
    BY <1>1, <1>4, <1>5, <2>1, <2>2, <2>3, PushUsed
  <2> QED
    BY <2>4 DEF v
<1>9. Types'
  <2>1. Required(count) \in 0 .. UsizeMod - 1 /\ NewCapacity(count) \in 0 .. UsizeMod - 1
    BY <1>2, CapacityRange
  <2> QED
    BY <1>1, <1>2, <1>3, <1>4, <1>6, <2>1 DEF Types, Undefined
<1>10. BlockInv'
  <2>1. faults' \cap {"new", "grow"} = {} => Cells' = capacity' /\ ItemSize * capacity' <= LayoutMax /\ len' <= capacity'
    BY <1>4, <1>5
  <2>2. "many" \notin faults' /\ status' # "overrun" => len' <= Cells'
    BY <1>5, <1>8
  <2>3. Cells' \in 0 .. UsizeMod - 1 /\ DOMAIN block' = 0 .. Cells' - 1
    BY <1>5
  <2>4. block' \in [0 .. Cells' - 1 -> 0 .. pushed']
    BY <1>1, <1>4, <1>5
  <2> QED
    BY <2>1, <2>2, <2>3, <2>4 DEF BlockInv
<1>11. HeldInv'
  <2> SUFFICES ASSUME NEW p \in held PROVE p.at >= len' /\ CellAt(p.at)' = p.val
    BY <1>1 DEF HeldInv
  <2>1. /\ p.at \in Nat /\ p.at >= len /\ CellAt(p.at) = p.val /\ p.at # len
        /\ p.at \notin len .. len + count - 1 /\ ~Grows(count)
    BY <1>2 DEF HeldInv, Types, Pointer
  <2>2. p.at >= len + count
    BY <1>3, <2>1
  <2>3. len' <= len + count /\ len' \in Nat
    <3>1. len + count \in Nat
      BY <1>3
    <3>2. (len + count) % UsizeMod <= len + count /\ (len + count) % UsizeMod \in Nat
      <4> DEFINE n == len + count
      <4> HIDE DEF n
      <4>1. n \in Nat => n % UsizeMod <= n /\ n % UsizeMod \in Nat
        <5> SUFFICES ASSUME n \in Nat PROVE n % UsizeMod <= n /\ n % UsizeMod \in Nat
          OBVIOUS
        <5>1. CASE n < UsizeMod
          BY <1>3, <5>1
        <5>2. CASE ~(n < UsizeMod)
          BY <1>3, <5>2
        <5> QED
          BY <5>1, <5>2
      <4> QED
        BY <3>1, <4>1 DEF n
    <3> QED
      BY <1>1, <3>2 DEF Required
  <2>4. DOMAIN block' = DOMAIN block
    BY <1>2, <1>4, <1>5, <2>1 DEF BlockInv
  <2>5. CellAt(p.at)' = CellAt(p.at)
    BY <1>4, <1>5, <2>1, <2>4 DEF CellAt
  <2> QED
    BY <1>3, <2>1, <2>2, <2>3, <2>5
<1>12. ASSUME "many" \notin faults', Defined'
       PROVE  /\ "many" \notin faults /\ status' # "overrun"
              /\ \A i \in Used : CellAt(i) # Garbage /\ CellAt(i)' = CellAt(i)
              /\ \A i \in Used' : i \in Used \/ i = len
              /\ len \notin Used /\ \A i \in {len} : CellAt(i)' = pushed + 1
  <2>1. status' # "overrun" /\ "many" \notin faults /\ count \in 0 .. 1
    BY <1>7, <1>12 DEF Defined, Undefined
  <2>2. /\ Used' = Used \cup (len .. len + count - 1) /\ len \notin Used
        /\ \A i \in {len} : CellAt(i)' = pushed + 1
        /\ \A i \in Used : i \in DOMAIN block => CellAt(i)' = CellAt(i)
    BY <1>8, <1>12, <2>1
  <2>3. \A i \in Used : CellAt(i) # Garbage
    BY <1>2, <2>1 DEF ElementsInv
  <2>4. \A i \in Used : i \in DOMAIN block
    BY <2>3 DEF CellAt
  <2>5. len .. len + count - 1 \subseteq {len}
    BY <1>3, <2>1
  <2> QED
    BY <2>1, <2>2, <2>3, <2>4, <2>5
<1>13. ElementsInv'
  <2> SUFFICES ASSUME Defined', "many" \notin faults', NEW i \in Used'
               PROVE  CellAt(i)' # Garbage
    BY DEF ElementsInv, Garbage
  <2>1. pushed + 1 # Garbage
    BY <1>3 DEF Garbage
  <2> QED
    BY <1>12, <2>1
<1>14. UniqueInv'
  <2> SUFFICES ASSUME Defined', faults' \cap {"many", "clear"} = {}
               PROVE  /\ \A i, j \in Used' : CellAt(i)' = CellAt(j)' => i = j
                      /\ \A i \in Used' : CellAt(i)' \notin taken' \cup destroyed'
                      /\ taken' \cap destroyed' = {}
                      /\ Garbage \notin taken' \cup destroyed'
    BY DEF UniqueInv, Garbage
  <2>1. faults \cap {"many", "clear"} = {} /\ "many" \notin faults'
    BY <1>1
  <2>2. /\ \A i, j \in Used : CellAt(i) = CellAt(j) => i = j
        /\ \A i \in Used : CellAt(i) \notin taken \cup destroyed
        /\ taken \cap destroyed = {} /\ Garbage \notin taken \cup destroyed
    BY <1>2, <2>1 DEF UniqueInv
  <2>3. /\ \A i \in Used : CellAt(i)' = CellAt(i)
        /\ \A i \in Used' : i \in Used \/ i = len
        /\ len \notin Used /\ \A i \in {len} : CellAt(i)' = pushed + 1
    BY <1>12, <2>1
  <2>4. \A i : CellAt(i) # pushed + 1
    BY <1>2, <1>3, CellRange
  <2>5. pushed + 1 \notin taken \cup destroyed
    BY <1>2, <1>3 DEF Types
  <2>6. \A i, j \in Used' : CellAt(i)' = CellAt(j)' => i = j
    BY <2>2, <2>3, <2>4
  <2>7. \A i \in Used' : CellAt(i)' \notin taken' \cup destroyed'
    BY <1>1, <2>2, <2>3, <2>5
  <2> QED
    BY <1>1, <2>2, <2>6, <2>7
<1>15. CompleteInv'
  <2> SUFFICES ASSUME Defined', faults' \subseteq {"new", "grow"}, NEW v \in 1 .. pushed'
               PROVE  v \in taken' \cup destroyed' \/ \E i \in Used' : CellAt(i)' = v
    BY DEF CompleteInv
  <2>1. faults \subseteq {"new", "grow"} /\ "many" \notin faults' /\ "none" \notin faults'
    BY <1>1
  <2>2. status' # "overrun" /\ count = 1
    BY <1>1, <1>6, <1>7, <2>1 DEF Defined, Undefined
  <2>3. Used' = Used \cup (len .. len + 1 - 1)
    BY <1>8, <2>1, <2>2
  <2>4. len \in Used' /\ Used \subseteq Used'
    BY <1>3, <2>3
  <2>5. CASE v = pushed + 1
    BY <1>12, <2>1, <2>4, <2>5
  <2>6. CASE v \in 1 .. pushed
    <3>1. v \in taken \cup destroyed \/ \E i \in Used : CellAt(i) = v
      BY <1>2, <2>1, <2>6 DEF CompleteInv
    <3>2. \A i \in Used : CellAt(i)' = CellAt(i)
      BY <1>12, <2>1
    <3> QED
      BY <1>1, <2>4, <3>1, <3>2
  <2> QED
    BY <1>3, <2>5, <2>6
<1>16. StaysDefined'
  <2>1. status' \in {"live", "overrun"}
    BY <1>4
  <2>2. ASSUME status' = "overrun", faults' \cap {"new", "grow"} = {}, "none" \notin faults' PROVE FALSE
    <3>1. len \notin 0 .. m - 1 /\ len + count <= m
      BY <1>4, <2>2
    <3>2. count # 0
      BY <1>1, <1>6, <2>2
    <3> QED
      BY <1>3, <1>5, <3>1, <3>2
  <2> QED
    BY <2>1, <2>2 DEF StaysDefined
<1>17. EndInv'
  BY <1>4 DEF EndInv
<1> QED
  BY <1>9, <1>10, <1>11, <1>13, <1>14, <1>15, <1>16, <1>17 DEF Inv

LEMMA PushManyKeeps ==
  ASSUME Inv, NEW count \in 0 .. UsizeMod - 1, PushMany(count)
  PROVE  Inv'
BY PushPanicsKeeps, PushCopiesKeeps DEF PushMany

(* push of an element that the client got back before.                     *)
LEMMA PushHeldKeeps ==
  ASSUME Inv, NEW p \in held, PushHeld(p)
  PROVE  Inv'
<1> DEFINE v == CellAt(p.at)
           f == [i \in Used' |-> IF i = len THEN p.at ELSE i]
           none == {i \in Used : FALSE}
<1>1. /\ status = "live" /\ \A q \in held : q.at # len
      /\ ~Grows(1) /\ len' = Required(1) /\ held' = held \ {p}
      /\ faults' = faults \cup Faults(1)
      /\ capacity' = capacity /\ pushed' = pushed /\ taken' = taken /\ destroyed' = destroyed
      /\ \/ len \in DOMAIN block /\ block' = [block EXCEPT ![len] = v] /\ status' = "live"
         \/ len \notin DOMAIN block /\ block' = block /\ status' = "overrun"
  BY DEF PushHeld
<1>2. Types /\ BlockInv /\ HeldInv /\ ElementsInv /\ UniqueInv /\ CompleteInv
  BY DEF Inv
<1>3. /\ len \in Nat /\ len < UsizeMod /\ UsizeMod \in Nat \ {0} /\ pushed \in Nat
      /\ Cells \in Nat /\ Cells < UsizeMod
      /\ DOMAIN block = 0 .. Cells - 1 /\ block \in [0 .. Cells - 1 -> 0 .. pushed]
      /\ 1 \in Nat /\ \A i : CellAt(i) \in 0 .. pushed
  BY <1>2, Sizes, CellRange DEF Types, BlockInv
<1>4. /\ Faults(1) \subseteq {"grow"}
      /\ "grow" \in Faults(1) <=> Overflows(1)
  BY <1>3, FaultsAre
<1>5. /\ "grow" \in faults \/ Overflows(1) => "grow" \in faults'
      /\ \A g \in {"none", "many", "clear"} : g \in faults' <=> g \in faults
      /\ faults \subseteq faults'
  BY <1>1, <1>4
<1>6. /\ block' \in [0 .. Cells - 1 -> 0 .. pushed] /\ Cells' = Cells
      /\ \A i : i # len => CellAt(i)' = CellAt(i)
      /\ status' = "live" => \A i \in {len} : CellAt(i)' = v
  <2>1. v \in 0 .. pushed
    BY <1>3
  <2> HIDE DEF v
  <2>2. block' \in [0 .. Cells - 1 -> 0 .. pushed] /\ DOMAIN block' = DOMAIN block
    BY <1>1, <1>3, <2>1
  <2>3. Cells' = Cells
    BY <2>2 DEF Cells
  <2>4. ASSUME NEW i, i # len PROVE CellAt(i)' = CellAt(i)
    BY <1>1, <2>2, <2>4 DEF CellAt
  <2>5. ASSUME status' = "live", NEW i \in {len} PROVE CellAt(i)' = v
    BY <1>1, <2>2, <2>5 DEF CellAt
  <2> QED
    BY <2>2, <2>3, <2>4, <2>5
<1> HIDE DEF v
<1>7. ASSUME faults' \cap {"new", "grow"} = {}
      PROVE  Cells = capacity /\ ItemSize * capacity <= LayoutMax /\ len' = len + 1 /\ len + 1 <= Cells
  <2>1. faults \cap {"new", "grow"} = {} /\ ~Overflows(1)
    BY <1>5, <1>7
  <2>2. 1 \in 0 .. UsizeMod - 1
    BY <1>3, <2>1 DEF Overflows
  <2> DEFINE m == Cells
  <2>3. m \in Nat /\ (~Grows(1) => m = Cells)
    BY <1>3
  <2>4. Grows(1) => m = Bytes(NewCapacity(1)) \div ItemSize
    BY <1>1
  <2> HIDE DEF m
  <2>5. /\ m = NewCapacity(1) /\ ItemSize * NewCapacity(1) <= LayoutMax
        /\ Required(1) = len + 1 /\ len + 1 <= m
    BY <1>2, <2>1, <2>2, <2>3, <2>4, RoomMade
  <2>6. NewCapacity(1) = capacity
    BY <1>1 DEF NewCapacity
  <2> QED
    BY <1>1, <2>3, <2>5, <2>6 DEF m
<1>8. len' \in 0 .. UsizeMod - 1 /\ len' \in Nat /\ len' <= len + 1
  <2> DEFINE n == len + 1
  <2>1. n \in Nat /\ len' = n % UsizeMod
    BY <1>1, <1>3 DEF Required
  <2> HIDE DEF n
  <2>2. n % UsizeMod \in 0 .. UsizeMod - 1
    BY <1>3, <2>1
  <2>3. n % UsizeMod <= n
    <3>1. CASE n < UsizeMod
      BY <1>3, <2>1, <3>1
    <3>2. CASE ~(n < UsizeMod)
      BY <1>3, <2>1, <3>2
    <3> QED
      BY <3>1, <3>2
  <2> QED
    BY <1>3, <2>1, <2>2, <2>3 DEF n
<1>9. Types'
  BY <1>1, <1>2, <1>4, <1>8 DEF Types, Undefined
<1>10. status' # "overrun" => len < Cells /\ len' = len + 1 /\ len' <= Cells
  <2> SUFFICES ASSUME status' # "overrun"
               PROVE  len < Cells /\ len' = len + 1 /\ len' <= Cells
    OBVIOUS
  <2>1. len < Cells
    BY <1>1, <1>3
  <2>2. len + 1 \in 0 .. UsizeMod - 1
    BY <1>3, <2>1
  <2>3. \A n \in 0 .. UsizeMod - 1 : n % UsizeMod = n
    BY <1>3
  <2>4. len' = len + 1
    BY <1>1, <2>2, <2>3 DEF Required
  <2> QED
    BY <1>3, <2>1, <2>4
<1>11. BlockInv'
  <2>1. faults' \cap {"new", "grow"} = {} => Cells' = capacity' /\ ItemSize * capacity' <= LayoutMax /\ len' <= capacity'
    BY <1>1, <1>6, <1>7
  <2>2. "many" \notin faults' /\ status' # "overrun" => len' <= Cells'
    BY <1>6, <1>10
  <2>3. /\ Cells' \in 0 .. UsizeMod - 1 /\ DOMAIN block' = 0 .. Cells' - 1
        /\ block' \in [0 .. Cells' - 1 -> 0 .. pushed']
    BY <1>1, <1>3, <1>6
  <2> QED
    BY <2>1, <2>2, <2>3 DEF BlockInv
<1>12. HeldInv'
  <2> SUFFICES ASSUME NEW q \in held PROVE q.at >= len' /\ CellAt(q.at)' = q.val
    BY <1>1 DEF HeldInv
  <2>1. q.at \in Nat /\ q.at >= len /\ CellAt(q.at) = q.val /\ q.at # len
    BY <1>1, <1>2 DEF HeldInv, Types, Pointer
  <2> QED
    BY <1>3, <1>6, <1>8, <2>1
<1>13. ElementsInv' /\ UniqueInv' /\ CompleteInv'
  <2>1. CASE status' = "overrun"
    BY <2>1 DEF ElementsInv, UniqueInv, CompleteInv, Defined, Undefined
  <2>2. CASE status' # "overrun"
    <3>1. status' = "live" /\ len' = len + 1
      BY <1>1, <1>10, <2>2
    <3>2. /\ \A q \in held : q.at \in Used /\ q.at \notin 0 .. len - 1 /\ q.at # len
          /\ 0 .. len - 1 \subseteq Used
      BY <1>1, <1>2, UsedCells
    <3>3. len \notin Used /\ p.at \in Used
      BY <1>3, <3>2 DEF Used
    <3>4. Used' = (Used \ {p.at}) \cup {len}
      <4>1. 0 .. len' - 1 = (0 .. len - 1) \cup {len}
        BY <1>3, <3>1
      <4>2. \A q \in held \ {p} : q.at # p.at
        BY <1>2, PointersDiffer
      <4>3. Used' = (0 .. len' - 1) \cup {q.at : q \in held \ {p}}
        BY <1>1 DEF Used
      <4>4. Used = (0 .. len - 1) \cup {q.at : q \in held \ {p}} \cup {p.at}
        BY DEF Used
      <4>5. p.at \notin 0 .. len - 1 /\ p.at \notin {q.at : q \in held \ {p}}
        BY <3>2, <4>2
      <4> HIDE DEF f, none
      <4> DEFINE R == {q.at : q \in held \ {p}}
                 I == 0 .. len - 1
      <4>6. Used' = (I \cup {len}) \cup R /\ Used = I \cup R \cup {p.at} /\ p.at \notin I /\ p.at \notin R
        BY <4>1, <4>3, <4>4, <4>5
      <4> HIDE DEF R, I
      <4> QED
        BY <4>6
    <3>5. /\ none \in SUBSET Used /\ none \cap none = {} /\ Used \ (none \cup none) = Used
          /\ Values(none) = {}
      BY DEF Values
    <3>6. \A i \in Used' : f[i] = IF i = len THEN p.at ELSE i
      OBVIOUS
    <3> HIDE DEF none, f
    <3>7. taken' = taken \cup Values(none) /\ destroyed' = destroyed \cup Values(none)
      BY <1>1, <3>5
    <3>8. \A i \in Used' : f[i] \in Used /\ CellAt(i)' = CellAt(f[i])
      <4> SUFFICES ASSUME NEW i \in Used' PROVE f[i] \in Used /\ CellAt(i)' = CellAt(f[i])
        OBVIOUS
      <4>1. CASE i = len
        BY <1>6, <3>1, <3>3, <3>6, <4>1 DEF v
      <4>2. CASE i # len
        BY <1>6, <3>4, <3>6, <4>2
      <4> QED
        BY <4>1, <4>2
    <3>9. \A i, j \in Used' : f[i] = f[j] => i = j
      <4>1. p.at # len
        BY <3>2
      <4> QED
        BY <3>4, <3>6, <4>1
    <3>10. \A u \in Used : \E i \in Used' : f[i] = u
      <4> SUFFICES ASSUME NEW u \in Used PROVE \E i \in Used' : f[i] = u
        OBVIOUS
      <4>1. CASE u = p.at
        BY <3>4, <3>6, <4>1
      <4>2. CASE u # p.at
        BY <3>3, <3>4, <3>6, <4>2
      <4> QED
        BY <4>1, <4>2
    <3> QED
      BY <1>1, <1>2, <1>5, <3>5, <3>7, <3>8, <3>9, <3>10, Rearranged
  <2> QED
    BY <2>1, <2>2
<1>14. StaysDefined'
  <2>1. status' = "overrun" => faults' \cap {"new", "grow"} # {}
    <3> SUFFICES ASSUME status' = "overrun", faults' \cap {"new", "grow"} = {} PROVE FALSE
      OBVIOUS
    <3>1. len \notin 0 .. Cells - 1 /\ len + 1 <= Cells
      BY <1>1, <1>3, <1>7
    <3> QED
      BY <1>3, <3>1
  <2>2. status' \in {"live", "overrun"}
    BY <1>1
  <2> QED
    BY <2>1, <2>2 DEF StaysDefined
<1>15. EndInv'
  BY <1>1 DEF EndInv
<1> QED
  BY <1>9, <1>11, <1>12, <1>13, <1>14, <1>15 DEF Inv

-----------------------------------------------------------------------------
LEMMA InvInit ==
  ASSUME Init
  PROVE  Inv
<1> DEFINE m == Bytes(capacity) \div ItemSize
<1>1. /\ len = 0 /\ pushed = 0 /\ held = {} /\ taken = {} /\ destroyed = {}
      /\ faults = {} \/ faults = {"new"}
      /\ faults = {} => ItemSize * capacity < UsizeMod
      /\ status = "live" /\ capacity \in Capacities /\ Bytes(capacity) <= LayoutMax
      /\ block = [i \in 0 .. m - 1 |-> Garbage]
  BY DEF Init
<1>2. /\ capacity \in 0 .. UsizeMod - 1 /\ capacity \in Nat
      /\ UsizeMod \in Nat \ {0} /\ m \in 0 .. UsizeMod - 1 /\ m \in Nat
  <2>1. capacity \in 0 .. UsizeMod - 1 /\ UsizeMod \in Nat \ {0}
    BY <1>1, ConstantsAssumption, Sizes
  <2>2. capacity \in Nat
    BY <2>1
  <2>3. m \in 0 .. UsizeMod - 1
    BY <2>2, BytesRange
  <2> HIDE DEF m
  <2> QED
    BY <2>1, <2>2, <2>3
<1>3. Types
  BY <1>1, <1>2 DEF Types
<1>4. faults = {} => m = capacity /\ ItemSize * capacity <= LayoutMax
  BY <1>1, <1>2, BytesWhole
<1> HIDE DEF m
<1>5. BlockInv
  <2>1. /\ DOMAIN block = 0 .. m - 1 /\ Cells = m
        /\ block \in [0 .. m - 1 -> 0 .. 0]
    <3>1. DOMAIN block = 0 .. m - 1 /\ block \in [0 .. m - 1 -> 0 .. 0]
      BY <1>1 DEF Garbage
    <3> QED
      BY <1>2, <3>1, IntervalSize DEF Cells
  <2>2. faults \cap {"new", "grow"} = {} =>
          Cells = capacity /\ ItemSize * capacity <= LayoutMax /\ len <= capacity
    BY <1>1, <1>2, <1>4, <2>1
  <2>3. len <= Cells
    BY <1>1, <1>2, <2>1
  <2> QED
    BY <1>1, <1>2, <2>1, <2>2, <2>3 DEF BlockInv
<1>6. HeldInv
  BY <1>1 DEF HeldInv
<1>7. Used = {}
  BY <1>1 DEF Used
<1>8. ElementsInv /\ UniqueInv /\ CompleteInv
  BY <1>1, <1>7 DEF ElementsInv, UniqueInv, CompleteInv
<1>9. StaysDefined /\ EndInv
  BY <1>1 DEF StaysDefined, EndInv
<1> QED
  BY <1>3, <1>5, <1>6, <1>8, <1>9 DEF Inv

LEMMA InvStep ==
  ASSUME Inv, [Next]_vars
  PROVE  Inv'
<1>1. CASE UNCHANGED vars
  <2>1. /\ block' = block /\ len' = len /\ capacity' = capacity /\ status' = status
        /\ pushed' = pushed /\ held' = held /\ taken' = taken /\ destroyed' = destroyed
        /\ faults' = faults
    BY <1>1 DEF vars, fields, client
  <2>2. Used' = Used /\ Cells' = Cells /\ \A i : CellAt(i)' = CellAt(i)
    BY <2>1 DEF Used, Cells, CellAt
  <2>3. (Types /\ BlockInv /\ HeldInv)'
    BY <2>1, <2>2 DEF Inv, Types, BlockInv, HeldInv
  <2>4. (ElementsInv /\ UniqueInv /\ CompleteInv)'
    BY <2>1, <2>2 DEF Inv, ElementsInv, UniqueInv, CompleteInv, Defined
  <2>5. (StaysDefined /\ EndInv)'
    BY <2>1 DEF Inv, StaysDefined, EndInv
  <2> QED
    BY <2>3, <2>4, <2>5 DEF Inv
<1>2. Counts \subseteq 0 .. UsizeMod - 1
  BY ConstantsAssumption
<1>3. ASSUME NEW count \in Counts, PushMany(count) PROVE Inv'
  BY <1>2, <1>3, PushManyKeeps
<1>4. ASSUME NEW count \in Counts, PopMany(count) PROVE Inv'
  BY <1>2, <1>4, PopManyKeeps
<1>5. ASSUME NEW p \in held, PushHeld(p) PROVE Inv'
  BY <1>5, PushHeldKeeps
<1>6. ASSUME NEW p \in held, Dispose(p) \/ MoveOut(p) PROVE Inv'
  <2>1. /\ status = "live" /\ held' = held \ {p} /\ UNCHANGED <<fields, pushed, faults>>
        /\ status' = AfterUse({p.at}, "live")
        /\ \/ taken' = taken \cup Values({p.at}) /\ destroyed' = destroyed
           \/ taken' = taken /\ destroyed' = destroyed \cup Values({p.at})
    BY <1>6 DEF Dispose, MoveOut
  <2> QED
    BY <2>1, PointerUsed
<1>7. ASSUME NEW index \in 0 .. len - 1, SwapRemove(index) PROVE Inv'
  BY <1>7, SwapRemoveKeeps
<1>8. ASSUME NEW index \in 0 .. len - 1, SwapRemoveDrop(index) PROVE Inv'
  BY <1>8, SwapRemoveDropKeeps
<1>9. CASE Clear
  BY <1>9, ClearKeeps DEF Clear
<1>10. CASE DropVec
  BY <1>10, ClearKeeps DEF DropVec
<1> QED
  BY <1>1, <1>3, <1>4, <1>5, <1>6, <1>7, <1>8, <1>9, <1>10 DEF Next

LEMMA Invariance ==
  Spec => []Inv
<1>1. Init => Inv
  BY InvInit
<1>2. Inv /\ [Next]_vars => Inv'
  BY InvStep
<1> QED
  BY <1>1, <1>2, PTL DEF Spec

-----------------------------------------------------------------------------
(* The state keeps its types, whatever overflows and whatever panics.      *)
THEOREM TypeCorrect == Spec => []TypeOK
<1>1. Inv => TypeOK
  <2> SUFFICES ASSUME Inv PROVE TypeOK
    OBVIOUS
  <2>1. Types /\ BlockInv
    BY DEF Inv
  <2>2. DOMAIN block = 0 .. Cardinality(DOMAIN block) - 1
    BY <2>1 DEF BlockInv, Cells
  <2>3. \A i \in DOMAIN block : block[i] \in 0 .. pushed
    BY <2>1 DEF BlockInv
  <2>4. faults \cap {"new", "grow"} = {} => len <= Cardinality(DOMAIN block)
    BY <2>1 DEF BlockInv, Cells
  <2> QED
    BY <2>1, <2>2, <2>3, <2>4 DEF Types, TypeOK
<1> QED
  BY <1>1, Invariance, PTL

(* Nothing is written outside the block, and nothing is used that was not  *)
(* written or is gone, unless one of the known faults came first.          *)
THEOREM UsesAreDefined == Spec => []StaysDefined
<1>1. Inv => StaysDefined
  BY DEF Inv
<1> QED
  BY <1>1, Invariance, PTL

(* The element stays behind the pointer that pop or swap_remove returned.  *)
THEOREM PointersStay == Spec => []PtrsStable
<1>1. Inv => PtrsStable
  BY DEF Inv, HeldInv, PtrsStable
<1> QED
  BY <1>1, Invariance, PTL

(* Four sets of elements that are counted apart.                           *)
LEMMA FourParts ==
  ASSUME NEW A, NEW B, NEW C, NEW D, IsFiniteSet(A \cup B \cup C \cup D),
         A \cap B = {}, (A \cup B) \cap (C \cup D) = {}, C \cap D = {}
  PROVE  /\ Cardinality(A) \in Nat /\ Cardinality(B) \in Nat
         /\ Cardinality(C) \in Nat /\ Cardinality(D) \in Nat
         /\ Cardinality(A \cup B \cup C \cup D)
              = Cardinality(A) + Cardinality(B) + Cardinality(C) + Cardinality(D)
<1>1. /\ A \subseteq A \cup B \cup C \cup D /\ B \subseteq A \cup B \cup C \cup D
      /\ C \subseteq A \cup B \cup C \cup D /\ D \subseteq A \cup B \cup C \cup D
  OBVIOUS
<1>2. IsFiniteSet(A) /\ IsFiniteSet(B) /\ IsFiniteSet(C) /\ IsFiniteSet(D)
  BY <1>1, FS_Subset
<1>3. /\ IsFiniteSet(A \cup B)
      /\ Cardinality(A \cup B) = Cardinality(A) + Cardinality(B) - Cardinality({})
  BY <1>2, FS_Union
<1>4. /\ IsFiniteSet(C \cup D)
      /\ Cardinality(C \cup D) = Cardinality(C) + Cardinality(D) - Cardinality({})
  BY <1>2, FS_Union
<1>5. Cardinality((A \cup B) \cup (C \cup D))
        = Cardinality(A \cup B) + Cardinality(C \cup D) - Cardinality({})
  BY <1>3, <1>4, FS_Union
<1>6. Cardinality({}) = 0
  BY FS_EmptySet
<1>7. (A \cup B) \cup (C \cup D) = A \cup B \cup C \cup D
  OBVIOUS
<1>8. /\ Cardinality(A) \in Nat /\ Cardinality(B) \in Nat
      /\ Cardinality(C) \in Nat /\ Cardinality(D) \in Nat
  BY <1>2, FS_CardinalityType
<1> DEFINE a == Cardinality(A)
           b == Cardinality(B)
           c == Cardinality(C)
           d == Cardinality(D)
           e == Cardinality(A \cup B)
           g == Cardinality(C \cup D)
           all == Cardinality(A \cup B \cup C \cup D)
<1>9. e = a + b - 0 /\ g = c + d - 0
  BY <1>3, <1>4, <1>6
<1>10. all = e + g - 0
  BY <1>5, <1>6, <1>7
<1>11. a \in Nat /\ b \in Nat /\ c \in Nat /\ d \in Nat
  BY <1>8
<1> HIDE DEF a, b, c, d, e, g, all
<1>12. all = a + b + c + d
  BY <1>9, <1>10, <1>11
<1> QED
  BY <1>8, <1>12 DEF a, b, c, d, all

(* As many elements as there are places, if no two places share one.       *)
LEMMA OneEach ==
  ASSUME NEW S, NEW f, NEW T, IsFiniteSet(T), \A x \in S : f[x] \in T,
         \A x, y \in S : f[x] = f[y] => x = y, \A t \in T : \E x \in S : f[x] = t
  PROVE  Cardinality(S) = Cardinality(T)
<1> DEFINE g == [x \in S |-> f[x]]
<1>1. g \in [S -> T] /\ \A x \in S : g[x] = f[x]
  OBVIOUS
<1> HIDE DEF g
<1>2. g \in Injection(S, T)
  BY <1>1, Fun_IsInj
<1>3. g \in Surjection(S, T)
  BY <1>1, Fun_IsSurj
<1> QED
  BY <1>2, <1>3, FS_Injection

(* Every element that was handed over is in one place.                     *)
THEOREM EachOwnedOnce == Spec => []OwnedOnce
<1>1. Inv => OwnedOnce
  <2> SUFFICES ASSUME Inv, faults \subseteq {"new", "grow"}, status # "overrun"
               PROVE  /\ Inside \cup Lendings \cup taken \cup destroyed = 1 .. pushed
                      /\ len + Cardinality(held) + Cardinality(taken)
                           + Cardinality(destroyed) = pushed
                      /\ status = "freed" => taken \cup destroyed = 1 .. pushed
    BY DEF OwnedOnce
  <2>1. /\ Types /\ BlockInv /\ HeldInv /\ EndInv
        /\ "many" \notin faults /\ faults \cap {"many", "clear"} = {} /\ Defined
    BY DEF Inv, StaysDefined, Defined, Undefined
  <2>2. /\ \A i \in Used : CellAt(i) # Garbage
        /\ \A i, j \in Used : CellAt(i) = CellAt(j) => i = j
        /\ \A i \in Used : CellAt(i) \notin taken \cup destroyed
        /\ taken \cap destroyed = {} /\ Garbage \notin taken \cup destroyed
        /\ \A v \in 1 .. pushed :
             v \in taken \cup destroyed \/ \E i \in Used : CellAt(i) = v
    BY <2>1 DEF Inv, ElementsInv, UniqueInv, CompleteInv
  <2>3. /\ \A i \in 0 .. len - 1 : i \in Used
        /\ \A p \in held : p.at \in Used /\ p.at \notin 0 .. len - 1
        /\ \A i \in Used : i \in 0 .. len - 1 \/ \E p \in held : i = p.at
    BY <2>1, UsedCells
  <2>4. Inside \cap Lendings = {} /\ (Inside \cup Lendings) \cap (taken \cup destroyed) = {}
    BY <2>2, <2>3 DEF Inside, Lendings
  <2>5. Inside \cup Lendings \cup taken \cup destroyed = 1 .. pushed
    <3>1. \A i : CellAt(i) \in 0 .. pushed
      BY <2>1, CellRange
    <3>2. pushed \in Nat /\ \A v \in 0 .. pushed : v # Garbage => v \in 1 .. pushed
      BY <2>1 DEF Types, Garbage
    <3>3. Inside \cup Lendings \subseteq 1 .. pushed
      BY <2>2, <2>3, <3>1, <3>2 DEF Inside, Lendings
    <3>4. taken \cup destroyed \subseteq 1 .. pushed
      BY <2>1, <2>2, <3>2 DEF Types
    <3>5. \A i \in Used : CellAt(i) \in Inside \cup Lendings
      BY <2>3 DEF Inside, Lendings
    <3> QED
      BY <2>2, <3>3, <3>4, <3>5
  <2>6. IsFiniteSet(1 .. pushed) /\ Cardinality(1 .. pushed) = pushed
    <3>1. 1 \in Int /\ pushed \in Int /\ pushed \in Nat
      BY <2>1 DEF Types
    <3>2. IsFiniteSet(1 .. pushed)
          /\ Cardinality(1 .. pushed) = IF 1 > pushed THEN 0 ELSE pushed - 1 + 1
      BY <3>1, FS_Interval
    <3> QED
      BY <3>1, <3>2
  <2>7. IsFiniteSet(Inside) /\ IsFiniteSet(Lendings)
    BY <2>5, <2>6, FS_Subset
  <2>8. len = Cardinality(Inside)
    <3> DEFINE f == [i \in 0 .. len - 1 |-> CellAt(i)]
    <3>1. \A i \in 0 .. len - 1 : f[i] = CellAt(i) /\ f[i] \in Inside
      BY DEF Inside
    <3>2. \A t \in Inside : \E i \in 0 .. len - 1 : f[i] = t
      BY <3>1 DEF Inside
    <3>3. \A i, j \in 0 .. len - 1 : f[i] = f[j] => i = j
      BY <2>2, <2>3, <3>1
    <3> HIDE DEF f
    <3>4. Cardinality(0 .. len - 1) = Cardinality(Inside)
      <4> DEFINE S == 0 .. len - 1
      <4>1. /\ \A i \in S : f[i] \in Inside
            /\ \A t \in Inside : \E i \in S : f[i] = t
            /\ \A i, j \in S : f[i] = f[j] => i = j
        BY <3>1, <3>2, <3>3
      <4> HIDE DEF S
      <4>2. Cardinality(S) = Cardinality(Inside)
        BY <2>7, <4>1, OneEach
      <4> QED
        BY <4>2 DEF S
    <3>5. len \in Nat
      BY <2>1, Sizes DEF Types
    <3> QED
      BY <3>4, <3>5, IntervalSize
  <2>9. Cardinality(held) = Cardinality(Lendings)
    <3> DEFINE f == [p \in held |-> CellAt(p.at)]
    <3>1. \A p \in held : f[p] = CellAt(p.at) /\ f[p] \in Lendings
      BY DEF Lendings
    <3>2. \A t \in Lendings : \E p \in held : f[p] = t
      BY <3>1 DEF Lendings
    <3>3. ASSUME NEW p \in held, NEW q \in held, f[p] = f[q] PROVE p = q
      <4>1. p.at = q.at
        BY <2>2, <2>3, <3>1, <3>3
      <4> QED
        BY <2>1, <4>1, PointersDiffer
    <3> HIDE DEF f
    <3> QED
      BY <2>7, <3>1, <3>2, <3>3, OneEach
  <2>10. len + Cardinality(held) + Cardinality(taken) + Cardinality(destroyed) = pushed
    <3> DEFINE I == Inside
               L == Lendings
    <3>1. /\ IsFiniteSet(I \cup L \cup taken \cup destroyed)
          /\ I \cap L = {} /\ (I \cup L) \cap (taken \cup destroyed) = {}
          /\ taken \cap destroyed = {}
          /\ Cardinality(I \cup L \cup taken \cup destroyed) = pushed
          /\ len = Cardinality(I) /\ Cardinality(held) = Cardinality(L)
      BY <2>2, <2>4, <2>5, <2>6, <2>8, <2>9
    <3> HIDE DEF I, L
    <3>2. Cardinality(I \cup L \cup taken \cup destroyed)
            = Cardinality(I) + Cardinality(L) + Cardinality(taken) + Cardinality(destroyed)
      BY <3>1, FourParts
    <3> QED
      BY <3>1, <3>2
  <2>11. status = "freed" => taken \cup destroyed = 1 .. pushed
    <3> SUFFICES ASSUME status = "freed" PROVE taken \cup destroyed = 1 .. pushed
      OBVIOUS
    <3>1. len = 0 /\ held = {}
      BY <2>1 DEF EndInv
    <3>2. Inside = {} /\ Lendings = {}
      BY <3>1 DEF Inside, Lendings
    <3> QED
      BY <2>5, <3>2
  <2> QED
    BY <2>5, <2>10, <2>11
<1> QED
  BY <1>1, Invariance, PTL

-----------------------------------------------------------------------------
(* The slice is a sequence of as many numbers as len says.                 *)
LEMMA SliceSeq ==
  ASSUME Types, BlockInv
  PROVE  /\ Slice \in Seq(Nat) /\ Len(Slice) = len /\ len \in Nat
         /\ \A k \in 1 .. len : Slice[k] = CellAt(k - 1)
<1>1. len \in Nat
  BY Sizes DEF Types
<1>2. \A k \in 1 .. len : CellAt(k - 1) \in Nat
  <2>1. \A i : CellAt(i) \in 0 .. pushed /\ pushed \in Nat
    BY CellRange
  <2> QED
    BY <2>1
<1>3. Slice = [k \in 1 .. len |-> CellAt(k - 1)]
  BY DEF Slice
<1>4. Slice \in [1 .. len -> Nat]
  BY <1>2, <1>3
<1>5. Slice \in Seq(Nat) /\ Len(Slice) = len
  BY <1>1, <1>4
<1> QED
  BY <1>1, <1>3, <1>5

LEMMA SliceSeqPrime ==
  Types' /\ BlockInv' =>
    /\ Slice' \in Seq(Nat) /\ Len(Slice)' = len' /\ len' \in Nat
    /\ \A k \in 1 .. len' : Slice'[k] = CellAt(k - 1)'
<1>1. Types /\ BlockInv => Slice \in Seq(Nat) /\ Len(Slice) = len /\ len \in Nat
  BY SliceSeq
<1>2. (Types /\ BlockInv)' => (Slice \in Seq(Nat) /\ Len(Slice) = len /\ len \in Nat)'
  BY <1>1, PTL
<1>3. Slice' = [k \in 1 .. len' |-> CellAt(k - 1)']
  BY DEF Slice
<1> QED
  BY <1>2, <1>3

(* A sequence that is the beginning of another.                            *)
LEMMA IsPrefix ==
  ASSUME NEW S, NEW s \in Seq(S), NEW t \in Seq(S), Len(t) <= Len(s),
         \A k \in 1 .. Len(t) : t[k] = s[k]
  PROVE  t = SubSeq(s, 1, Len(t))
<1> DEFINE n == Len(t)
           u == SubSeq(s, 1, n)
<1>1. n \in Nat /\ n <= Len(s) /\ Len(s) \in Nat
  OBVIOUS
<1>2. \A k \in 1 .. n : s[k] \in S
  BY <1>1
<1>3. /\ u \in Seq(S) /\ Len(u) = n
      /\ \A k \in 1 .. n : u[k] = s[1 + k - 1]
  BY <1>1, <1>2, SubSeqProperties
<1>4. \A k \in 1 .. n : u[k] = t[k]
  BY <1>1, <1>3
<1> HIDE DEF u
<1>5. u = t
  BY <1>3, <1>4
<1> QED
  BY <1>5 DEF u, n

NewVals == {p.val : p \in held' \ held}
FromTheEnd ==
  Slice' = SubSeq(Slice, 1, len') /\ NewVals = {Slice[k] : k \in len' + 1 .. len}
FromTheMiddle(index) ==
  /\ NewVals = {Slice[index]}
  /\ Slice' = SubSeq([Slice EXCEPT ![index] = Last(Slice)], 1, len - 1)

(* The elements behind the pointers that are added are those of the cells. *)
LEMMA NewPointers ==
  ASSUME Types, HeldInv, NEW cells \in SUBSET Nat, \A i \in cells : i < len, Lent(cells)
  PROVE  \A v : v \in NewVals <=> \E i \in cells : v = CellAt(i)'
<1> DEFINE ptr(i) == [at |-> i, val |-> CellAt(i)']
<1>1. held' = held \cup {ptr(i) : i \in cells}
  BY DEF Lent
<1>2. \A i \in cells : ptr(i).at = i /\ ptr(i).val = CellAt(i)'
  OBVIOUS
<1> HIDE DEF ptr
<1>3. \A i \in cells : ptr(i) \notin held
  <2>1. \A p \in held : p.at >= len /\ p.at \in Nat /\ len \in Nat
    BY Sizes DEF HeldInv, Types, Pointer
  <2> QED
    BY <1>2, <2>1
<1>4. ASSUME NEW v, v \in NewVals PROVE \E i \in cells : v = CellAt(i)'
  BY <1>1, <1>2, <1>4 DEF NewVals
<1>5. ASSUME NEW i \in cells PROVE CellAt(i)' \in NewVals
  <2>1. ptr(i) \in held' \ held
    BY <1>1, <1>3
  <2> QED
    BY <1>2, <2>1 DEF NewVals
<1> QED
  BY <1>4, <1>5

LEMMA PopManyTakes ==
  ASSUME Inv, Inv', NEW count \in 0 .. UsizeMod - 1, PopMany(count)
  PROVE  FromTheEnd
<1> DEFINE cells == len - count .. len - 1
           s == Slice
           t == Slice'
<1>1. Types /\ BlockInv /\ HeldInv
  BY DEF Inv
<1>2. /\ s \in Seq(Nat) /\ Len(s) = len /\ len \in Nat
      /\ \A k \in 1 .. len : s[k] = CellAt(k - 1)
  BY <1>1, SliceSeq
<1>3. /\ t \in Seq(Nat) /\ Len(t) = len' /\ len' \in Nat
      /\ \A k \in 1 .. len' : t[k] = CellAt(k - 1)'
  BY SliceSeqPrime DEF Inv
<1>4. /\ len' = len - count /\ count \in Nat /\ Lent(cells)
      /\ \A i : CellAt(i)' = CellAt(i)
  BY Sizes DEF PopMany, CellAt
<1>5. cells \in SUBSET Nat /\ \A i \in cells : i < len /\ i + 1 \in len' + 1 .. len
  BY <1>2, <1>3, <1>4
<1>6. \A k \in len' + 1 .. len : k \in 1 .. len /\ k - 1 \in cells
  BY <1>2, <1>3, <1>4
<1> HIDE DEF cells, s, t
<1>7. \A v : v \in NewVals <=> \E i \in cells : v = CellAt(i)
  BY <1>1, <1>4, <1>5, NewPointers
<1>8. NewVals = {s[k] : k \in len' + 1 .. len}
  <2>1. ASSUME NEW i \in cells PROVE \E k \in len' + 1 .. len : CellAt(i) = s[k]
    <3>1. i + 1 \in len' + 1 .. len /\ i \in Nat /\ (i + 1) - 1 = i
      BY <1>5
    <3>2. s[i + 1] = CellAt((i + 1) - 1)
      BY <1>2, <1>6, <3>1
    <3> QED
      BY <3>1, <3>2
  <2>2. ASSUME NEW k \in len' + 1 .. len PROVE \E i \in cells : s[k] = CellAt(i)
    BY <1>2, <1>6
  <2> QED
    BY <1>7, <2>1, <2>2
<1>9. t = SubSeq(s, 1, len')
  <2>1. Len(t) <= Len(s) /\ \A k \in 1 .. Len(t) : t[k] = s[k]
    <3>1. len' <= len
      BY <1>2, <1>4
    <3>2. Len(t) <= Len(s)
      BY <1>2, <1>3, <3>1
    <3>3. ASSUME NEW k \in 1 .. Len(t) PROVE t[k] = s[k]
      <4>1. k \in 1 .. len' /\ k \in 1 .. len
        BY <1>2, <1>3, <3>1
      <4>2. t[k] = CellAt(k - 1)' /\ s[k] = CellAt(k - 1)
        BY <1>2, <1>3, <4>1
      <4> QED
        BY <1>4, <4>2, Zenon
    <3> QED
      BY <3>2, <3>3
  <2> QED
    BY <1>2, <1>3, <2>1, IsPrefix
<1> QED
  BY <1>8, <1>9 DEF FromTheEnd, s, t

LEMMA SwapRemoveTakes ==
  ASSUME Inv, Inv', NEW index \in 0 .. len - 1, SwapRemove(index), status' # "overrun"
  PROVE  \E k \in DOMAIN Slice : FromTheMiddle(k)
<1> DEFINE last == len - 1
           s == Slice
           t == Slice'
           e == [s EXCEPT ![index + 1] = s[len]]
<1>1. Types /\ BlockInv /\ HeldInv
  BY DEF Inv
<1>2. /\ s \in Seq(Nat) /\ Len(s) = len /\ len \in Nat
      /\ \A k \in 1 .. len : s[k] = CellAt(k - 1)
  BY <1>1, SliceSeq
<1>3. /\ t \in Seq(Nat) /\ Len(t) = len' /\ len' \in Nat
      /\ \A k \in 1 .. len' : t[k] = CellAt(k - 1)'
  BY SliceSeqPrime DEF Inv
<1>4. /\ status = "live" /\ block' = Swapped(index, last) /\ len' = last
      /\ status' = AfterSwap(index, "live") /\ Lent({last})
      /\ UNCHANGED <<capacity, pushed, faults>>
  BY DEF SwapRemove
<1>5. index = last \/ last \in DOMAIN block
  BY <1>4 DEF AfterSwap
<1>6. \A k : CellAt(k)' = CellAt(Exchanged(index, last, k))
  BY <1>1, <1>4, <1>5, SwapBlock
<1>7. /\ len # 0 /\ last \in Nat /\ index \in Nat /\ index + 1 \in 1 .. len
      /\ (index + 1) - 1 = index /\ last \in 0 .. len - 1 /\ last < len /\ len \in 1 .. len
  BY <1>2
<1>8. /\ \A v : v \in NewVals <=> v = CellAt(index)
  <2>1. {last} \in SUBSET Nat /\ \A i \in {last} : i < len
    BY <1>7
  <2>2. \A v : v \in NewVals <=> \E i \in {last} : v = CellAt(i)'
    BY <1>1, <1>4, <2>1, NewPointers
  <2>3. \A i \in {last} : CellAt(i)' = CellAt(index)
    BY <1>6 DEF Exchanged
  <2> HIDE DEF last
  <2> QED
    BY <2>2, <2>3
<1> HIDE DEF s, t
<1>9. NewVals = {s[index + 1]}
  BY <1>2, <1>7, <1>8
<1>10. e \in Seq(Nat) /\ Len(e) = len /\ \A k \in 1 .. len : e[k] = IF k = index + 1 THEN s[len] ELSE s[k]
  BY <1>2, <1>7
<1> HIDE DEF e
<1>11. t = SubSeq(e, 1, len - 1)
  <2>1. ASSUME NEW k \in 1 .. Len(t) PROVE t[k] = e[k]
    <3>1. /\ k \in 1 .. len' /\ k \in 1 .. len /\ k - 1 # last /\ (k - 1 = index <=> k = index + 1)
          /\ len - 1 = last
      BY <1>2, <1>3, <1>4, <1>7
    <3>2. t[k] = CellAt(Exchanged(index, last, k - 1))
      BY <1>3, <1>6, <3>1
    <3>3. CASE k = index + 1
      <4>1. t[k] = CellAt(last)
        BY <3>1, <3>2, <3>3 DEF Exchanged
      <4>2. e[k] = s[len] /\ s[len] = CellAt(len - 1)
        BY <1>2, <1>7, <1>10, <3>1, <3>3
      <4> QED
        BY <4>1, <4>2
    <3>4. CASE k # index + 1
      <4>1. t[k] = CellAt(k - 1)
        BY <3>1, <3>2, <3>4 DEF Exchanged
      <4> QED
        BY <1>2, <1>10, <3>1, <3>4, <4>1
    <3> QED
      BY <3>3, <3>4
  <2>2. Len(t) = len - 1 /\ Len(t) <= Len(e)
    BY <1>2, <1>3, <1>4, <1>10
  <2>3. t = SubSeq(e, 1, Len(t))
    BY <1>3, <1>10, <2>1, <2>2, IsPrefix
  <2> QED
    BY <2>2, <2>3
<1>12. index + 1 \in DOMAIN s
  BY <1>2, <1>7
<1>13. Last(s) = s[len]
  BY <1>2 DEF Last
<1>14. FromTheMiddle(index + 1)
  BY <1>9, <1>11, <1>13 DEF FromTheMiddle, e, s, t
<1> HIDE DEF last
<1> QED
  BY <1>12, <1>14 DEF s

(* pop and swap_remove lend what get showed, and move only the last        *)
(* element.                                                                *)
THEOREM TakesWhatIsShown == Spec => TakesWhatGetShows
<1> DEFINE A == LET new == {p.val : p \in held' \ held}
                IN  new # {} /\ status' # "overrun" =>
                      \/ /\ Slice' = SubSeq(Slice, 1, len')
                         /\ new = {Slice[k] : k \in len' + 1 .. len}
                      \/ \E index \in DOMAIN Slice :
                           /\ new = {Slice[index]}
                           /\ Slice' = SubSeq([Slice EXCEPT ![index] = Last(Slice)], 1, len - 1)
<1>1. NewVals # {} /\ status' # "overrun" /\ (FromTheEnd \/ \E k \in DOMAIN Slice : FromTheMiddle(k)) => A
  BY DEF FromTheEnd, FromTheMiddle, NewVals
<1>2. NewVals = {} \/ status' = "overrun" => A
  BY DEF NewVals
<1> HIDE DEF A
<1>3. ASSUME Inv, Inv', [Next]_vars PROVE A
  <2>1. held' \subseteq held => NewVals = {}
    BY DEF NewVals
  <2>2. ASSUME NEW count \in Counts, PopMany(count) PROVE A
    <3>1. count \in 0 .. UsizeMod - 1
      BY ConstantsAssumption
    <3>2. FromTheEnd
      BY <1>3, <2>2, <3>1, PopManyTakes
    <3> QED
      BY <1>1, <1>2, <3>2
  <2>3. ASSUME NEW index \in 0 .. len - 1, SwapRemove(index) PROVE A
    <3>1. CASE status' # "overrun"
      BY <1>1, <1>2, <1>3, <2>3, <3>1, SwapRemoveTakes
    <3>2. CASE status' = "overrun"
      BY <1>2, <3>2
    <3> QED
      BY <3>1, <3>2
  <2>4. ASSUME NEW count \in Counts, PushMany(count) PROVE held' \subseteq held
    BY <2>4 DEF PushMany, PushPanics, PushCopies, client
  <2>5. ASSUME NEW p \in held, PushHeld(p) \/ Dispose(p) \/ MoveOut(p) PROVE held' \subseteq held
    BY <2>5 DEF PushHeld, Dispose, MoveOut
  <2>6. ASSUME NEW index \in 0 .. len - 1, SwapRemoveDrop(index) PROVE held' \subseteq held
    BY <2>6 DEF SwapRemoveDrop
  <2>7. Clear \/ DropVec \/ UNCHANGED vars => held' \subseteq held
    BY DEF Clear, DropVec, ClearThen, vars, client
  <2> QED
    BY <1>2, <1>3, <2>1, <2>2, <2>3, <2>4, <2>5, <2>6, <2>7 DEF Next
<1>4. Inv /\ Inv' /\ [Next]_vars => [A]_vars
  BY <1>3
<1> QED
  BY <1>4, Invariance, PTL DEF Spec, TakesWhatGetShows, A

=============================================================================
