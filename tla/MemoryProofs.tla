----------------------------- MODULE MemoryProofs -----------------------------
(***************************************************************************)
(* Proofs about the table of usable regions that src/x86_64/memory/        *)
(* frames.c makes at boot, for every page size, every table, every memory  *)
(* map whose usable entries do not overlap and every kernel image.         *)
(***************************************************************************)
EXTENDS BootMemory, Integers, WellFoundedInduction, TLAPS

USE Zenon

-----------------------------------------------------------------------------
(***************************************************************************)
(* Rounding.  An address is aligned when it is the begin of a page.        *)
(***************************************************************************)
Aligned(a) == \E n \in Nat : a = n * PageSize

\* The page that holds an address begins at most at it, and ends after it.
LEMMA RoundDownIs ==
  ASSUME NEW a \in Nat
  PROVE  /\ RoundDown(a) \in Nat /\ Aligned(RoundDown(a))
         /\ RoundDown(a) <= a /\ a < RoundDown(a) + PageSize
  <1>1. a \div PageSize \in Nat
    BY BootMemoryAssumption, SMT
  <1>2. /\ (a \div PageSize) * PageSize <= a
        /\ a < (a \div PageSize) * PageSize + PageSize
    BY BootMemoryAssumption, SMT
  <1>3. (a \div PageSize) * PageSize \in Nat
    BY <1>1, BootMemoryAssumption, SMT
  <1> QED
    BY <1>1, <1>2, <1>3 DEF RoundDown, Aligned

\* Two aligned addresses less than a page apart are the same.
LEMMA AlignedApart ==
  ASSUME NEW a \in Nat, NEW b \in Nat, Aligned(a), Aligned(b), a < b
  PROVE  a + PageSize <= b
  <1>1. PICK m \in Nat : a = m * PageSize
    BY DEF Aligned
  <1>2. PICK n \in Nat : b = n * PageSize
    BY DEF Aligned
  <1>3. m < n
    BY <1>1, <1>2, BootMemoryAssumption, SMT
  <1>4. (m + 1) * PageSize <= n * PageSize
    BY <1>3, BootMemoryAssumption, SMT
  <1>5. (m + 1) * PageSize = m * PageSize + PageSize
    BY BootMemoryAssumption, SMT
  <1> QED
    BY <1>1, <1>2, <1>4, <1>5

\* The first page begin from an address on is less than a page away.
LEMMA RoundUpIs ==
  ASSUME NEW a \in Nat
  PROVE  /\ RoundUp(a) \in Nat /\ Aligned(RoundUp(a))
         /\ a <= RoundUp(a) /\ RoundUp(a) < a + PageSize
  <1>1. a + PageSize - 1 \in Nat
    BY BootMemoryAssumption, SMT
  <1> QED
    BY <1>1, RoundDownIs, BootMemoryAssumption, SMT DEF RoundUp

\* An aligned address is rounded to itself.
LEMMA RoundingAligned ==
  ASSUME NEW a \in Nat, Aligned(a)
  PROVE  RoundDown(a) = a /\ RoundUp(a) = a
  <1>1. RoundDown(a) = a
    BY RoundDownIs, AlignedApart, BootMemoryAssumption, SMT
  <1>2. RoundUp(a) = a
    <2>1. ~(a < RoundUp(a))
      BY RoundUpIs, AlignedApart, BootMemoryAssumption, SMT
    <2> QED
      BY <2>1, RoundUpIs, SMT
  <1> QED
    BY <1>1, <1>2

-----------------------------------------------------------------------------
(***************************************************************************)
(* The table.  Its regions are pages, and lie apart from each other.       *)
(***************************************************************************)
Slots == 1..MaxRegions

Region == [addr : Nat, size : Nat, valid : BOOLEAN]

Tables == [Slots -> Region]

\* Byte b is in region x; some region of table r has it.
Has(x, b) == x.valid /\ x.addr <= b /\ b < x.addr + x.size

Covers(r, b) == \E j \in Slots : Has(r[j], b)

Apart(x, y) == x.addr + x.size <= y.addr \/ y.addr + y.size <= x.addr

Pages(x) ==
  x.size > 0 /\ Aligned(x.addr) /\ Aligned(x.addr + x.size)

Sound(r) ==
  /\ \A j \in Slots : r[j].valid => Pages(r[j])
  /\ \A i, j \in Slots : i # j /\ r[i].valid /\ r[j].valid => Apart(r[i], r[j])

\* Only the first n entries are in use.
UpTo(r, n) == \A j \in Slots : r[j].valid => j <= n

\* Region x is part of region y.
PartOf(x, y) ==
  x.valid => /\ y.valid /\ Pages(x)
             /\ y.addr <= x.addr /\ x.addr + x.size <= y.addr + y.size

\* Shrinking a region keeps the table sound.
LEMMA ShrinkKeeps ==
  ASSUME NEW r \in Tables, NEW i \in Slots, NEW x \in Region,
         Sound(r), PartOf(x, r[i])
  PROVE  /\ [r EXCEPT ![i] = x] \in Tables
         /\ Sound([r EXCEPT ![i] = x])
         /\ \A n \in Nat : UpTo(r, n) => UpTo([r EXCEPT ![i] = x], n)
         /\ \A b \in Nat : Covers([r EXCEPT ![i] = x], b) => Covers(r, b)
  <1> DEFINE r1 == [r EXCEPT ![i] = x]
  <1>1. r1 \in Tables /\ r1[i] = x /\ \A j \in Slots : j # i => r1[j] = r[j]
    BY DEF Tables
  <1> HIDE DEF r1
  <1>2. \A j \in Slots : r1[j] \in Region /\ r[j] \in Region
    BY <1>1 DEF Tables
  <1>3. \A j \in Slots : PartOf(r1[j], r[j])
    BY <1>1, <1>2, SMT DEF Sound, PartOf, Pages, Region
  <1>4. Sound(r1)
    <2>1. \A j \in Slots : r1[j].valid => Pages(r1[j])
      BY <1>3 DEF PartOf
    <2>2. ASSUME NEW j \in Slots, NEW l \in Slots, j # l,
                 r1[j].valid, r1[l].valid
          PROVE  Apart(r1[j], r1[l])
      BY <1>2, <1>3, <2>2, SMT DEF PartOf, Apart, Sound, Region
    <2> QED
      BY <2>1, <2>2 DEF Sound
  <1>5. \A n \in Nat : UpTo(r, n) => UpTo(r1, n)
    BY <1>3 DEF UpTo, PartOf
  <1>6. \A b \in Nat : Covers(r1, b) => Covers(r, b)
    BY <1>2, <1>3, SMT DEF Covers, Has, PartOf, Region
  <1> QED
    BY <1>1, <1>4, <1>5, <1>6 DEF r1

\* Filling a free slot with a region apart from the others keeps it sound.
LEMMA FillKeeps ==
  ASSUME NEW r \in Tables, NEW s \in Slots, NEW x \in Region,
         Sound(r), ~r[s].valid, x.valid, Pages(x),
         \A j \in Slots : r[j].valid => Apart(x, r[j])
  PROVE  /\ [r EXCEPT ![s] = x] \in Tables
         /\ Sound([r EXCEPT ![s] = x])
         /\ \A b \in Nat :
              Covers([r EXCEPT ![s] = x], b) <=> Covers(r, b) \/ Has(x, b)
  <1> DEFINE r1 == [r EXCEPT ![s] = x]
  <1>1. r1 \in Tables /\ r1[s] = x /\ \A j \in Slots : j # s => r1[j] = r[j]
    BY DEF Tables
  <1> HIDE DEF r1
  <1>2. Sound(r1)
    BY <1>1 DEF Sound, Apart
  <1>3. \A b \in Nat : Covers(r1, b) <=> Covers(r, b) \/ Has(x, b)
    <2> TAKE b \in Nat
    <2>1. \A j \in Slots : j # s => (Has(r1[j], b) <=> Has(r[j], b))
      BY <1>1 DEF Has
    <2>2. ~Has(r[s], b)
      BY DEF Has
    <2> QED
      BY <1>1, <2>1, <2>2 DEF Covers
  <1> QED
    BY <1>1, <1>2, <1>3 DEF r1

-----------------------------------------------------------------------------
(***************************************************************************)
(* The loop of parse_mmap_tag: after k entries of the memory map mm, entry *)
(* j of the table has the pages of entry j of the map, if it has any.      *)
(***************************************************************************)
Entry == [addr : Nat, size : Nat, usable : BOOLEAN]

From(e) == RoundUp(e.addr)

To(e) == RoundDown(e.addr + e.size)

HasPages(e) == e.usable /\ From(e) < To(e)

MapStep(mm, r, i) ==
  IF mm[i].usable THEN add_usable_region(r, mm[i].addr, mm[i].size, i) ELSE r

MapInv(mm, k, r) ==
  \A j \in Slots :
    /\ r[j].valid => /\ j <= k /\ HasPages(mm[j])
                     /\ r[j].addr = From(mm[j])
                     /\ r[j].addr + r[j].size = To(mm[j])
    /\ j <= k /\ HasPages(mm[j]) => r[j].valid

\* What is left of an entry after rounding lies inside it.
LEMMA EntryRounded ==
  ASSUME NEW e \in Entry
  PROVE  /\ From(e) \in Nat /\ To(e) \in Nat
         /\ e.addr <= From(e) /\ To(e) <= e.addr + e.size
         /\ Aligned(From(e)) /\ Aligned(To(e))
  BY RoundUpIs, RoundDownIs, SMT DEF Entry, From, To

\* One turn of the loop of parse_mmap_tag keeps the loop invariant.
LEMMA MapStepKeeps ==
  ASSUME NEW mm \in Seq(Entry), NEW k \in 1..Len(mm), NEW r \in Tables
  PROVE  /\ MapStep(mm, r, k) \in Tables
         /\ MapInv(mm, k - 1, r) => MapInv(mm, k, MapStep(mm, r, k))
  <1> DEFINE e == mm[k]
             x == [addr |-> From(e), size |-> To(e) - From(e), valid |-> TRUE]
  <1>1. e \in Entry /\ k \in Nat
    BY SMT
  <1>2. From(e) \in Nat /\ To(e) \in Nat
    BY <1>1, EntryRounded
  <1>3. CASE HasPages(e) /\ k \in Slots
    <2>1. ~(To(e) <= From(e)) /\ ~(k > MaxRegions)
      BY <1>2, <1>3, BootMemoryAssumption, SMT DEF HasPages, Slots
    <2>2. MapStep(mm, r, k) = [r EXCEPT ![k] = x]
      BY <1>3, <2>1 DEF MapStep, add_usable_region, HasPages, From, To
    <2>3. /\ x \in Region /\ x.valid /\ x.addr = From(e)
          /\ x.addr + x.size = To(e)
      BY <1>2, <2>1, SMT DEF Region
    <2> HIDE DEF x
    <2>4. /\ [r EXCEPT ![k] = x] \in Tables
          /\ [r EXCEPT ![k] = x][k] = x
          /\ \A j \in Slots : j # k => [r EXCEPT ![k] = x][j] = r[j]
      BY <1>3, <2>3 DEF Tables
    <2>5. \A j \in Slots : j <= k <=> j = k \/ j <= k - 1
      BY <1>1, SMT DEF Slots
    <2> QED
      BY <1>3, <2>2, <2>3, <2>4, <2>5 DEF MapInv
  <1>4. CASE ~(HasPages(e) /\ k \in Slots)
    <2>1. MapStep(mm, r, k) = r
      <3>1. ~e.usable \/ To(e) <= From(e) \/ k > MaxRegions
        BY <1>1, <1>2, <1>4, BootMemoryAssumption, SMT DEF HasPages, Slots
      <3> QED
        BY <3>1 DEF MapStep, add_usable_region, From, To
    <2>2. \A j \in Slots : j <= k <=> j = k \/ j <= k - 1
      BY <1>1, SMT DEF Slots
    <2> QED
      BY <1>4, <2>1, <2>2 DEF MapInv
  <1> QED
    BY <1>3, <1>4

\* A chain of three comparisons.
LEMMA Ascending ==
  \A a, b, c, e \in Nat : a <= b /\ b <= c /\ c <= e => a <= e
  BY SMT

\* Regions made of the entries of the map lie apart because these do.
LEMMA MapIsSound ==
  ASSUME NEW mm \in MemoryMaps, NEW r \in Tables, MapInv(mm, Len(mm), r)
  PROVE  Sound(r)
  <1>1. /\ mm \in Seq(Entry)
        /\ \A i, j \in 1..Len(mm) :
             i # j /\ mm[i].usable /\ mm[j].usable =>
               \/ mm[i].addr + mm[i].size <= mm[j].addr
               \/ mm[j].addr + mm[j].size <= mm[i].addr
    BY MemoryMapAssumption DEF Entry
  <1>2. \A j \in Slots : r[j].valid =>
          /\ j \in 1..Len(mm) /\ mm[j] \in Entry /\ HasPages(mm[j])
          /\ r[j].addr = From(mm[j]) /\ r[j].addr + r[j].size = To(mm[j])
    BY <1>1, BootMemoryAssumption, SMT DEF MapInv, Slots
  <1>3. \A j \in Slots : r[j] \in Region
    BY DEF Tables
  <1>4. ASSUME NEW j \in Slots, r[j].valid PROVE Pages(r[j])
    BY <1>2, <1>3, <1>4, EntryRounded, SMT DEF Pages, HasPages, Region
  <1>5. ASSUME NEW i \in Slots, NEW j \in Slots, i # j, r[i].valid, r[j].valid
        PROVE  Apart(r[i], r[j])
    <2>1. /\ mm[i] \in Entry /\ mm[i].usable /\ i \in 1..Len(mm)
          /\ mm[j] \in Entry /\ mm[j].usable /\ j \in 1..Len(mm)
      BY <1>2, <1>5 DEF HasPages
    <2>2. \/ mm[i].addr + mm[i].size <= mm[j].addr
          \/ mm[j].addr + mm[j].size <= mm[i].addr
      BY <1>1, <1>5, <2>1
    <2>3. /\ mm[i].addr \in Nat /\ mm[i].size \in Nat
          /\ mm[j].addr \in Nat /\ mm[j].size \in Nat
      BY <2>1 DEF Entry
    <2>4. /\ r[i].addr \in Nat /\ mm[i].addr <= r[i].addr
          /\ r[i].addr + r[i].size \in Nat
          /\ r[i].addr + r[i].size <= mm[i].addr + mm[i].size
      BY <1>2, <1>5, <2>1, EntryRounded
    <2>5. /\ r[j].addr \in Nat /\ mm[j].addr <= r[j].addr
          /\ r[j].addr + r[j].size \in Nat
          /\ r[j].addr + r[j].size <= mm[j].addr + mm[j].size
      BY <1>2, <1>5, <2>1, EntryRounded
    <2> QED
      <3>1. mm[i].addr + mm[i].size \in Nat /\ mm[j].addr + mm[j].size \in Nat
        <4>1. \A e \in Entry : e.addr + e.size \in Nat
          BY SMT DEF Entry
        <4> QED
          BY <2>1, <4>1
      <3>2. ASSUME mm[i].addr + mm[i].size <= mm[j].addr
            PROVE  r[i].addr + r[i].size <= r[j].addr
        BY <2>3, <2>4, <2>5, <3>1, <3>2, Ascending
      <3>3. ASSUME mm[j].addr + mm[j].size <= mm[i].addr
            PROVE  r[j].addr + r[j].size <= r[i].addr
        BY <2>3, <2>4, <2>5, <3>1, <3>3, Ascending
      <3> QED
        BY <2>2, <3>2, <3>3 DEF Apart
  <1> QED
    BY <1>4, <1>5 DEF Sound

-----------------------------------------------------------------------------
\* Region x has nothing of from..to; from..to lies within it, with bytes left
\* on both sides.
Clear(x, from, to) == to <= x.addr \/ x.addr + x.size <= from

Inside(x, from, to) == x.valid /\ x.addr < from /\ to < x.addr + x.size

Between(b, from, to) == from <= b /\ b < to

\* Of y, x keeps everything but from..to.
Keeps(x, y, from, to) ==
  \A b \in Nat : Has(y, b) /\ ~Between(b, from, to) => Has(x, b)

Left(x, from) == [x EXCEPT !.size = from - x.addr]

Right(x, to) ==
  [addr |-> to, size |-> (x.addr + x.size) - to, valid |-> TRUE]

\* The loop over the slots finds the least of those that qualify.
LEMMA FirstSlotIs ==
  ASSUME NEW S \in SUBSET Slots, NEW n \in S
  PROVE  FirstSlot(S) \in S /\ FirstSlot(S) <= n
  <1> DEFINE less == {ss \in Nat \X Nat : ss[1] < ss[2]}
  <1>1. S \in SUBSET Nat /\ S # {}
    BY SMT DEF Slots
  <1>2. IsWellFoundedOn(less, Nat)
    BY NatLessThanWellFounded DEF OpToRel
  <1> HIDE DEF less
  <1>3. PICK j \in S : \A l \in S : ~(<<l, j>> \in less)
    BY <1>1, <1>2, WFMin
  <1>4. \A l \in S : ~(l < j)
    BY <1>1, <1>3 DEF less
  <1>5. \A l \in S : j <= l
    BY <1>1, <1>4, SMT
  <1> QED
    BY <1>5 DEF FirstSlot

\* A turn that does not split the region shrinks it.
LEMMA CarveShrinks ==
  ASSUME NEW r \in Tables, NEW i \in Slots, NEW from \in Nat, NEW to \in Nat,
         Aligned(from), Aligned(to), Sound(r), ~Inside(r[i], from, to)
  PROVE  \E x \in Region :
           /\ carve(r, i, from, to) = [r EXCEPT ![i] = x]
           /\ PartOf(x, r[i])
           /\ x.valid => Clear(x, from, to)
           /\ Keeps(x, r[i], from, to)
  <1> DEFINE y == r[i]
  <1>1. y \in Region /\ (y.valid => Pages(y))
    BY DEF Tables, Sound
  <1>2. y.addr \in Nat /\ y.size \in Nat /\ y.valid \in BOOLEAN
    BY <1>1 DEF Region
  <1>3. CASE ~y.valid \/ to <= y.addr \/ from >= y.addr + y.size
    <2>1. carve(r, i, from, to) = r
      BY <1>3 DEF carve
    <2>2. r = [r EXCEPT ![i] = y]
      BY DEF Tables
    <2>3. PartOf(y, y) /\ Keeps(y, y, from, to) /\ (y.valid => Clear(y, from, to))
      BY <1>1, <1>2, <1>3, SMT DEF PartOf, Keeps, Clear
    <2> QED
      BY <1>1, <2>1, <2>2, <2>3
  <1>4. CASE /\ y.valid /\ to > y.addr /\ from < y.addr + y.size
             /\ from <= y.addr /\ to >= y.addr + y.size
    <2> DEFINE x == [y EXCEPT !.valid = FALSE]
    <2>1. carve(r, i, from, to) = [r EXCEPT ![i] = x]
      BY <1>2, <1>4, SMT DEF carve
    <2>2. x \in Region /\ ~x.valid
      BY <1>1 DEF Region
    <2>3. PartOf(x, y) /\ Keeps(x, y, from, to)
      BY <1>2, <1>4, <2>2, SMT DEF PartOf, Keeps, Has, Between
    <2> QED
      BY <2>1, <2>2, <2>3
  <1>5. CASE /\ y.valid /\ to > y.addr /\ from < y.addr + y.size
             /\ from <= y.addr /\ to < y.addr + y.size
    <2>1. carve(r, i, from, to) = [r EXCEPT ![i] = Right(y, to)]
      <3>1. /\ ~(~y.valid \/ to <= y.addr \/ from >= y.addr + y.size)
            /\ ~(from <= y.addr /\ to >= y.addr + y.size)
        BY <1>2, <1>5, SMT
      <3> QED
        BY <1>5, <3>1 DEF carve, Right
    <2>2. /\ Right(y, to) \in Region /\ Right(y, to).valid
          /\ Right(y, to).addr = to
          /\ Right(y, to).addr + Right(y, to).size = y.addr + y.size
      BY <1>2, <1>5, SMT DEF Region, Right
    <2>3. PartOf(Right(y, to), y) /\ Clear(Right(y, to), from, to)
      BY <1>1, <1>2, <1>5, <2>2, SMT DEF PartOf, Clear, Pages, Region
    <2>4. Keeps(Right(y, to), y, from, to)
      BY <1>2, <1>5, <2>2, SMT DEF Keeps, Has, Between
    <2> QED
      BY <2>1, <2>2, <2>3, <2>4
  <1>6. CASE /\ y.valid /\ to > y.addr /\ from < y.addr + y.size
             /\ from > y.addr /\ to >= y.addr + y.size
    <2>1. carve(r, i, from, to) = [r EXCEPT ![i] = Left(y, from)]
      BY <1>2, <1>6, SMT DEF carve, Left
    <2>2. /\ Left(y, from) \in Region /\ Left(y, from).valid
          /\ Left(y, from).addr = y.addr
          /\ Left(y, from).addr + Left(y, from).size = from
      BY <1>1, <1>2, <1>6, SMT DEF Region, Left
    <2>3. PartOf(Left(y, from), y) /\ Clear(Left(y, from), from, to)
      BY <1>1, <1>2, <1>6, <2>2, SMT DEF PartOf, Clear, Pages, Region
    <2>4. Keeps(Left(y, from), y, from, to)
      BY <1>2, <1>6, <2>2, SMT DEF Keeps, Has, Between
    <2> QED
      BY <2>1, <2>2, <2>3, <2>4
  <1> HIDE DEF y
  <1>7. ~Inside(y, from, to)
    BY DEF y
  <1> QED
    BY <1>2, <1>3, <1>4, <1>5, <1>6, <1>7, SMT DEF Inside, y

\* A turn that splits the region puts the right part into a free slot.
LEMMA CarveSplits ==
  ASSUME NEW r \in Tables, NEW i \in Slots, NEW from \in Nat, NEW to \in Nat,
         Aligned(from), Aligned(to), from <= to, Sound(r),
         Inside(r[i], from, to)
  PROVE  carve(r, i, from, to) =
           IF FreeSlots(r) = {} THEN [r EXCEPT ![i] = Left(r[i], from)]
           ELSE [[r EXCEPT ![i] = Left(r[i], from)]
                   EXCEPT ![FirstSlot(FreeSlots(r))] = Right(r[i], to)]
  <1> DEFINE y == r[i]
  <1>1. y \in Region /\ y.valid /\ Pages(y)
    BY DEF Tables, Sound, Inside
  <1>2. y.addr \in Nat /\ y.size \in Nat /\ y.addr < from /\ to < y.addr + y.size
    BY <1>1 DEF Region, Inside
  <1>3. carve(r, i, from, to) =
          IF FreeSlots(r) = {} THEN [r EXCEPT ![i] = Left(y, from)]
          ELSE add_usable_region([r EXCEPT ![i] = Left(y, from)], to,
                                 (y.addr + y.size) - to, FirstSlot(FreeSlots(r)))
    BY <1>1, <1>2, SMT DEF carve, Left
  <1>4. RoundUp(to) = to /\ RoundDown(y.addr + y.size) = y.addr + y.size
    BY <1>1, <1>2, RoundingAligned, SMT DEF Pages
  <1>5. to + ((y.addr + y.size) - to) = y.addr + y.size
    BY <1>2, SMT
  <1>6. ASSUME FreeSlots(r) # {}
        PROVE  FirstSlot(FreeSlots(r)) \in Slots
    BY <1>6, FirstSlotIs DEF FreeSlots, Tables
  <1>7. ASSUME FreeSlots(r) # {}
        PROVE  ~(FirstSlot(FreeSlots(r)) > MaxRegions)
    BY <1>6, <1>7, BootMemoryAssumption, SMT DEF Slots
  <1>8. CASE FreeSlots(r) = {}
    BY <1>3, <1>8
  <1>9. CASE FreeSlots(r) # {}
    <2>1. carve(r, i, from, to) =
            add_usable_region([r EXCEPT ![i] = Left(y, from)], to,
                              (y.addr + y.size) - to, FirstSlot(FreeSlots(r)))
      BY <1>3, <1>9
    <2>2. ~(RoundDown(to + ((y.addr + y.size) - to)) <= RoundUp(to))
      BY <1>2, <1>4, <1>5, SMT
    <2>3. ~(FirstSlot(FreeSlots(r)) > MaxRegions)
      BY <1>7, <1>9
    <2>4. add_usable_region([r EXCEPT ![i] = Left(y, from)], to,
                            (y.addr + y.size) - to, FirstSlot(FreeSlots(r)))
          = [[r EXCEPT ![i] = Left(y, from)]
               EXCEPT ![FirstSlot(FreeSlots(r))] =
                 [addr |-> RoundUp(to),
                  size |-> RoundDown(to + ((y.addr + y.size) - to)) - RoundUp(to),
                  valid |-> TRUE]]
      BY <2>2, <2>3 DEF add_usable_region
    <2>5. [addr |-> RoundUp(to),
           size |-> RoundDown(to + ((y.addr + y.size) - to)) - RoundUp(to),
           valid |-> TRUE] = Right(y, to)
      <3>1. RoundDown(to + ((y.addr + y.size) - to)) - RoundUp(to)
              = (y.addr + y.size) - to
        BY <1>2, <1>4, <1>5
      <3> QED
        BY <1>4, <3>1 DEF Right
    <2> QED
      BY <1>9, <2>1, <2>4, <2>5
  <1> QED
    BY <1>8, <1>9

\* What a turn that splits the region leaves.
LEMMA SplitKeeps ==
  ASSUME NEW r \in Tables, NEW i \in Slots, NEW from \in Nat, NEW to \in Nat,
         Aligned(from), Aligned(to), from <= to, Sound(r),
         Inside(r[i], from, to),
         NEW r1, r1 = carve(r, i, from, to)
  PROVE  /\ r1 \in Tables /\ Sound(r1)
         /\ \A j \in Slots : r1[j].valid =>
              /\ ~Inside(r1[j], from, to)
              /\ Clear(r1[j], from, to) \/ (j # i /\ r1[j] = r[j])
         /\ \A b \in Nat : Covers(r1, b) => Covers(r, b)
         /\ \A n \in Nat : n < MaxRegions /\ UpTo(r, n) =>
              /\ UpTo(r1, n + 1)
              /\ \A b \in Nat :
                   Covers(r, b) /\ ~Between(b, from, to) => Covers(r1, b)
  <1> DEFINE y == r[i]
             r0 == [r EXCEPT ![i] = Left(y, from)]
             s == FirstSlot(FreeSlots(r))
  <1>1. y \in Region /\ y.valid /\ Pages(y)
    BY DEF Tables, Sound, Inside
  <1>2. y.addr \in Nat /\ y.size \in Nat /\ y.addr < from /\ to < y.addr + y.size
    BY <1>1 DEF Region, Inside
  <1>3. /\ Left(y, from) \in Region /\ Left(y, from).valid
        /\ Left(y, from).addr = y.addr
        /\ Left(y, from).addr + Left(y, from).size = from
    BY <1>1, <1>2, SMT DEF Region, Left
  <1>4. /\ Right(y, to) \in Region /\ Right(y, to).valid
        /\ Right(y, to).addr = to
        /\ Right(y, to).addr + Right(y, to).size = y.addr + y.size
    BY <1>2, SMT DEF Region, Right
  <1>5. PartOf(Left(y, from), y) /\ PartOf(Right(y, to), y)
    BY <1>1, <1>2, <1>3, <1>4, SMT DEF PartOf, Pages, Region
  <1>6. \A j \in Slots : r[j] \in Region /\ (j # i /\ r[j].valid => Apart(r[j], y))
    BY <1>1 DEF Tables, Sound
  <1>7. \A j \in Slots : j # i => ~Inside(r[j], from, to)
    BY <1>2, <1>6, SMT DEF Inside, Apart, Region
  <1>8. /\ r0 \in Tables /\ Sound(r0)
        /\ \A n \in Nat : UpTo(r, n) => UpTo(r0, n)
        /\ \A b \in Nat : Covers(r0, b) => Covers(r, b)
    BY <1>3, <1>5, ShrinkKeeps
  <1>9. r0[i] = Left(y, from) /\ \A j \in Slots : j # i => r0[j] = r[j]
    BY DEF Tables
  <1>10. Clear(Left(y, from), from, to) /\ ~Inside(Left(y, from), from, to)
    BY <1>2, <1>3, SMT DEF Clear, Inside
  <1>11. Clear(Right(y, to), from, to) /\ ~Inside(Right(y, to), from, to)
    BY <1>4, SMT DEF Clear, Inside
  <1>12. r1 = IF FreeSlots(r) = {} THEN r0 ELSE [r0 EXCEPT ![s] = Right(y, to)]
    BY CarveSplits, SMT
  <1> HIDE DEF r0, y, s
  <1>13. CASE FreeSlots(r) = {}
    <2>1. \A n \in Nat : n < MaxRegions => ~UpTo(r, n)
      <3> SUFFICES ASSUME NEW n \in Nat, n < MaxRegions, UpTo(r, n) PROVE FALSE
        OBVIOUS
      <3>1. n + 1 \in Slots /\ ~r[n + 1].valid
        BY BootMemoryAssumption, SMT DEF Slots, UpTo
      <3> QED
        BY <1>13, <3>1 DEF FreeSlots, Tables
    <2>2. r1 = r0
      BY <1>12, <1>13
    <2> QED
      BY <1>7, <1>8, <1>9, <1>10, <2>1, <2>2
  <1>14. CASE FreeSlots(r) # {}
    <2>1. s \in Slots /\ ~r[s].valid /\ s # i
      <3>1. s \in FreeSlots(r)
        BY <1>14, FirstSlotIs DEF FreeSlots, Tables, s
      <3> QED
        BY <1>1, <3>1 DEF FreeSlots, Tables, y
    <2>2. r1 = [r0 EXCEPT ![s] = Right(y, to)]
      BY <1>12, <1>14
    <2>3. \A j \in Slots : r0[j].valid => Apart(Right(y, to), r0[j])
      <3> SUFFICES ASSUME NEW j \in Slots, r0[j].valid
                   PROVE  Apart(Right(y, to), r0[j])
        OBVIOUS
      <3>1. CASE j = i
        BY <1>3, <1>4, <1>9, <3>1 DEF Apart
      <3>2. CASE j # i
        BY <1>2, <1>4, <1>6, <1>9, <3>2, SMT DEF Apart, Region
      <3> QED
        BY <3>1, <3>2
    <2>4. /\ r1 \in Tables /\ Sound(r1)
          /\ \A b \in Nat : Covers(r1, b) <=> Covers(r0, b) \/ Has(Right(y, to), b)
      <3>1. ~r0[s].valid /\ Pages(Right(y, to))
        BY <1>4, <1>5, <1>9, <2>1 DEF PartOf
      <3>2. /\ [r0 EXCEPT ![s] = Right(y, to)] \in Tables
            /\ Sound([r0 EXCEPT ![s] = Right(y, to)])
            /\ \A b \in Nat : Covers([r0 EXCEPT ![s] = Right(y, to)], b)
                               <=> Covers(r0, b) \/ Has(Right(y, to), b)
        BY <1>4, <1>8, <2>1, <2>3, <3>1, FillKeeps
      <3> QED
        BY <2>2, <3>2
    <2>5. /\ r1[s] = Right(y, to) /\ r1[i] = Left(y, from)
          /\ \A j \in Slots : j # i /\ j # s => r1[j] = r[j]
      BY <1>8, <1>9, <2>1, <2>2 DEF Tables
    <2>6. \A j \in Slots : r1[j].valid =>
            /\ ~Inside(r1[j], from, to)
            /\ Clear(r1[j], from, to) \/ (j # i /\ r1[j] = r[j])
      BY <1>7, <1>10, <1>11, <2>5
    <2>7. \A b \in Nat : Covers(r1, b) => Covers(r, b)
      <3>1. \A b \in Nat : Has(Right(y, to), b) => Has(y, b)
        BY <1>1, <1>2, <1>4, SMT DEF Has
      <3> QED
        BY <1>8, <2>4, <3>1 DEF Covers, y
    <2>8. \A b \in Nat : Covers(r, b) /\ ~Between(b, from, to) => Covers(r1, b)
      <3> SUFFICES ASSUME NEW b \in Nat, NEW j \in Slots, Has(r[j], b),
                          ~Between(b, from, to)
                   PROVE  Covers(r1, b)
        BY DEF Covers
      <3>1. CASE j = i
        <4>1. Has(Left(y, from), b) \/ Has(Right(y, to), b)
          BY <1>2, <1>3, <1>4, <3>1, SMT DEF Has, Between, y
        <4> QED
          BY <2>1, <2>5, <4>1 DEF Covers
      <3>2. CASE j # i
        <4>1. j # s
          BY <2>1 DEF Has
        <4> QED
          BY <2>5, <3>2, <4>1 DEF Covers
      <3> QED
        BY <3>1, <3>2
    <2>9. \A n \in Nat : n < MaxRegions /\ UpTo(r, n) => UpTo(r1, n + 1)
      <3> SUFFICES ASSUME NEW n \in Nat, n < MaxRegions, UpTo(r, n)
                   PROVE  UpTo(r1, n + 1)
        OBVIOUS
      <3>1. n + 1 \in FreeSlots(r)
        BY BootMemoryAssumption, SMT DEF FreeSlots, Tables, Slots, UpTo
      <3>2. s <= n + 1
        BY <3>1, FirstSlotIs DEF FreeSlots, Tables, s
      <3>3. \A j \in Slots : r1[j].valid => j = s \/ j <= n
        BY <1>1, <2>5 DEF UpTo, y
      <3> QED
        BY <3>2, <3>3, SMT DEF UpTo, Slots
    <2> QED
      BY <2>4, <2>6, <2>7, <2>8, <2>9
  <1> QED
    BY <1>13, <1>14

-----------------------------------------------------------------------------
(***************************************************************************)
(* The loop of remove_region for a section of the kernel.  The first k     *)
(* entries have nothing of the section, and the table has nothing that it  *)
(* did not have before.  If the table before used its first n entries, and *)
(* there is one more, then nothing but the section is lost: at most one    *)
(* region is split, since the regions lie apart.                           *)
(***************************************************************************)
SoundTables == {r \in Tables : Sound(r)}

CarveStep(sec, r, i) ==
  carve(r, i, RoundDown(sec.addr), RoundUp(sec.addr + sec.size))

Carved(from, to, regs, n, k, r) ==
  /\ \A j \in Slots : j <= k /\ r[j].valid => Clear(r[j], from, to)
  /\ \A b \in Nat : Covers(r, b) => Covers(regs, b)
  /\ n < MaxRegions /\ UpTo(regs, n) =>
       /\ UpTo(r, n + 1)
       /\ UpTo(r, n) \/ \A j \in Slots : ~Inside(r[j], from, to)
       /\ \A b \in Nat :
            Covers(regs, b) /\ ~Between(b, from, to) => Covers(r, b)

CarveInv(d, k, r) == Carved(d.from, d.to, d.regs, d.n, k, r)

\* Carving a range out of one region keeps the invariant of the loop that
\* carves it out of all of them.
LEMMA CarveKeeps ==
  ASSUME NEW from \in Nat, NEW to \in Nat, Aligned(from), Aligned(to), from <= to,
         NEW r \in SoundTables, NEW i \in Slots
  PROVE  /\ carve(r, i, from, to) \in SoundTables
         /\ \A regs, n : n \in Nat /\ Carved(from, to, regs, n, i - 1, r)
              => Carved(from, to, regs, n, i, carve(r, i, from, to))
  <1> DEFINE r1 == carve(r, i, from, to)
  <1>0. r \in Tables /\ Sound(r)
    BY DEF SoundTables
  <1>1. CASE Inside(r[i], from, to)
    <2> HIDE DEF r1
    <2>1. /\ r1 \in Tables /\ Sound(r1)
          /\ \A j \in Slots : r1[j].valid =>
               /\ ~Inside(r1[j], from, to)
               /\ Clear(r1[j], from, to) \/ (j # i /\ r1[j] = r[j])
          /\ \A b \in Nat : Covers(r1, b) => Covers(r, b)
          /\ \A n \in Nat : n < MaxRegions /\ UpTo(r, n) =>
               /\ UpTo(r1, n + 1)
               /\ \A b \in Nat :
                    Covers(r, b) /\ ~Between(b, from, to) => Covers(r1, b)
      BY <1>0, <1>1, SplitKeeps DEF r1
    <2>2. ASSUME NEW regs, NEW n \in Nat, Carved(from, to, regs, n, i - 1, r)
          PROVE  Carved(from, to, regs, n, i, r1)
      <3>1. \A j \in Slots : j <= i /\ r1[j].valid => Clear(r1[j], from, to)
        BY <2>1, <2>2, SMT DEF Carved, Slots
      <3>2. \A b \in Nat : Covers(r1, b) => Covers(regs, b)
        BY <2>1, <2>2 DEF Carved
      <3>3. ASSUME n < MaxRegions, UpTo(regs, n)
            PROVE  /\ UpTo(r1, n + 1)
                   /\ \A j \in Slots : ~Inside(r1[j], from, to)
                   /\ \A b \in Nat :
                        Covers(regs, b) /\ ~Between(b, from, to) => Covers(r1, b)
        <4>1. UpTo(r, n)
          BY <1>1, <2>2, <3>3 DEF Carved
        <4>2. \A j \in Slots : ~Inside(r1[j], from, to)
          BY <2>1 DEF Inside
        <4> QED
          BY <2>1, <2>2, <3>3, <4>1, <4>2 DEF Carved
      <3> QED
        BY <3>1, <3>2, <3>3 DEF Carved
    <2> QED
      BY <2>1, <2>2 DEF SoundTables, r1
  <1>2. CASE ~Inside(r[i], from, to)
    <2>1. PICK x \in Region :
            /\ r1 = [r EXCEPT ![i] = x]
            /\ PartOf(x, r[i])
            /\ x.valid => Clear(x, from, to)
            /\ Keeps(x, r[i], from, to)
      BY <1>0, <1>2, CarveShrinks
    <2> HIDE DEF r1
    <2>2. /\ r1 \in Tables /\ Sound(r1)
          /\ \A n \in Nat : UpTo(r, n) => UpTo(r1, n)
          /\ \A b \in Nat : Covers(r1, b) => Covers(r, b)
      BY <1>0, <2>1, ShrinkKeeps
    <2>3. r1[i] = x /\ \A j \in Slots : j # i => r1[j] = r[j]
      BY <1>0, <2>1 DEF Tables
    <2>4. \A j \in Slots : Inside(r1[j], from, to) => Inside(r[j], from, to)
      <3>1. r[i] \in Region
        BY <1>0 DEF Tables
      <3>2. Inside(x, from, to) => Inside(r[i], from, to)
        BY <2>1, <3>1, SMT DEF Inside, PartOf, Region
      <3> QED
        BY <2>3, <3>2
    <2>5. \A b \in Nat : Covers(r, b) /\ ~Between(b, from, to) => Covers(r1, b)
      <3> SUFFICES ASSUME NEW b \in Nat, NEW j \in Slots, Has(r[j], b),
                          ~Between(b, from, to)
                   PROVE  Has(r1[j], b)
        BY DEF Covers
      <3> QED
        BY <2>1, <2>3 DEF Keeps
    <2>6. ASSUME NEW regs, NEW n \in Nat, Carved(from, to, regs, n, i - 1, r)
          PROVE  Carved(from, to, regs, n, i, r1)
      <3>1. \A j \in Slots : j <= i /\ r1[j].valid => Clear(r1[j], from, to)
        BY <2>1, <2>3, <2>6, SMT DEF Carved, Slots
      <3>2. \A b \in Nat : Covers(r1, b) => Covers(regs, b)
        BY <2>2, <2>6 DEF Carved
      <3>3. ASSUME n < MaxRegions, UpTo(regs, n)
            PROVE  /\ UpTo(r1, n + 1)
                   /\ UpTo(r1, n) \/ \A j \in Slots : ~Inside(r1[j], from, to)
                   /\ \A b \in Nat :
                        Covers(regs, b) /\ ~Between(b, from, to) => Covers(r1, b)
        BY <2>2, <2>4, <2>5, <2>6, <3>3, SMT DEF Carved
      <3> QED
        BY <3>1, <3>2, <3>3 DEF Carved
    <2> QED
      BY <2>2, <2>6 DEF SoundTables, r1
  <1> QED
    BY <1>1, <1>2

CarveLoop == INSTANCE FoldInduction
  WITH V <- SoundTables, W <- Slots, Step <- CarveStep, Inv <- CarveInv

Section == [addr : Nat, size : Nat]

\* The bytes of the pages of section sec.
InPages(sec, b) ==
  Between(b, RoundDown(sec.addr), RoundUp(sec.addr + sec.size))

\* remove_region takes exactly the pages of a section, and one more slot at most.
LEMMA RemoveKeeps ==
  ASSUME NEW r \in SoundTables, NEW sec \in Section,
         NEW r1, r1 = remove_region(r, sec.addr, sec.addr + sec.size)
  PROVE  /\ r1 \in SoundTables
         /\ \A b \in Nat : Covers(r1, b) => Covers(r, b) /\ ~InPages(sec, b)
         /\ \A n \in Nat : n < MaxRegions /\ UpTo(r, n) =>
              /\ UpTo(r1, n + 1)
              /\ \A b \in Nat : Covers(r, b) /\ ~InPages(sec, b) => Covers(r1, b)
  <1> DEFINE from == RoundDown(sec.addr)
             to == RoundUp(sec.addr + sec.size)
             entries == [i \in 1..MaxRegions |-> i]
             d(n) == [from |-> from, to |-> to, regs |-> r, n |-> n]
  <1>1. sec.addr \in Nat /\ sec.addr + sec.size \in Nat /\ sec.addr <= sec.addr + sec.size
    BY SMT DEF Section
  <1>2. /\ from \in Nat /\ to \in Nat /\ from <= to
        /\ Aligned(from) /\ Aligned(to)
    BY <1>1, RoundDownIs, RoundUpIs, SMT
  <1>3. /\ entries \in Seq(Slots) /\ Len(entries) = MaxRegions
        /\ \A i \in Slots : entries[i] = i
    BY BootMemoryAssumption, SMT DEF Slots
  <1>4. r1 = CarveLoop!Folded(sec, r, entries)
    BY DEF remove_region, CarveStep, CarveLoop!Folded, FoldLeft,
           MapThenFoldSet, CarveLoop!MapThenFoldSet, Max, CarveLoop!Max
  <1> HIDE DEF from, to, entries
  <1>5. \A i \in Slots, v \in SoundTables :
          CarveStep(sec, v, entries[i]) \in SoundTables
    BY <1>2, <1>3, CarveKeeps DEF CarveStep, from, to
  <1>6. \A n \in Nat : CarveInv(d(n), 0, r)
    BY BootMemoryAssumption, SMT DEF CarveInv, Carved, UpTo, Slots
  <1>7. \A n \in Nat : \A i \in Slots, v \in SoundTables :
          CarveInv(d(n), i - 1, v) => CarveInv(d(n), i, CarveStep(sec, v, entries[i]))
    BY <1>2, <1>3, CarveKeeps DEF CarveInv, CarveStep, from, to
  <1>8. \A n \in Nat : r1 \in SoundTables /\ CarveInv(d(n), MaxRegions, r1)
    <2> TAKE n \in Nat
    <2>1. CarveInv(d(n), 0, r)
      BY <1>6
    <2>2. \A i \in Slots, v \in SoundTables :
            CarveInv(d(n), i - 1, v) => CarveInv(d(n), i, CarveStep(sec, v, entries[i]))
      BY <1>7
    <2> HIDE DEF d
    <2> QED
      BY <1>3, <1>4, <1>5, <2>1, <2>2, CarveLoop!LoopInvariant DEF Slots
  <1>9. \A n \in Nat : Carved(from, to, r, n, MaxRegions, r1)
    BY <1>8 DEF CarveInv
  <1>10. r1 \in SoundTables
    BY <1>8
  <1>11. ASSUME NEW b \in Nat, Covers(r1, b)
         PROVE  Covers(r, b) /\ ~Between(b, from, to)
    <2>1. PICK j \in Slots : Has(r1[j], b)
      BY <1>11 DEF Covers
    <2>2. Carved(from, to, r, 0, MaxRegions, r1)
      BY <1>9
    <2>3. j <= MaxRegions /\ r1[j] \in Region
      BY <1>10, BootMemoryAssumption, SMT DEF Slots, SoundTables, Tables
    <2>4. Clear(r1[j], from, to)
      BY <2>1, <2>2, <2>3 DEF Carved, Has
    <2>5. ~Between(b, from, to)
      BY <1>2, <2>1, <2>3, <2>4, SMT DEF Clear, Between, Has, Region
    <2> QED
      BY <1>11, <2>2, <2>5 DEF Carved
  <1> QED
    BY <1>9, <1>10, <1>11 DEF Carved, InPages, from, to

-----------------------------------------------------------------------------
(***************************************************************************)
(* The loop of parse_elf_tag: after k sections.  Each takes at most one    *)
(* more entry of the table.                                                *)
(***************************************************************************)
ElfStep(c, r, sec) == remove_region(r, sec.addr, sec.addr + sec.size)

ElfInv(d, k, r) ==
  /\ \A b \in Nat : Covers(r, b) =>
       Covers(d.regs, b) /\ \A l \in 1..k : ~InPages(d.secs[l], b)
  /\ UpTo(d.regs, d.n) /\ d.n + Len(d.secs) <= MaxRegions =>
       /\ UpTo(r, d.n + k)
       /\ \A b \in Nat :
            Covers(d.regs, b) /\ (\A l \in 1..k : ~InPages(d.secs[l], b))
              => Covers(r, b)

InSections(secs, b) == \E l \in 1..Len(secs) : InPages(secs[l], b)

\* One turn of the loop of parse_elf_tag keeps the loop invariant.
LEMMA ElfStepKeeps ==
  ASSUME NEW regs, NEW secs \in Seq(Section), NEW n \in Nat,
         NEW k \in 1..Len(secs), NEW v \in SoundTables,
         ElfInv([regs |-> regs, secs |-> secs, n |-> n], k - 1, v)
  PROVE  ElfInv([regs |-> regs, secs |-> secs, n |-> n], k, ElfStep(0, v, secs[k]))
  <1>0. Len(secs) \in Nat /\ secs[k] \in Section
    BY SMT
  <1> DEFINE v1 == ElfStep(0, v, secs[k])
  <1>1. /\ v1 \in SoundTables
        /\ \A b \in Nat : Covers(v1, b) => Covers(v, b) /\ ~InPages(secs[k], b)
        /\ \A m \in Nat : m < MaxRegions /\ UpTo(v, m) =>
             /\ UpTo(v1, m + 1)
             /\ \A b \in Nat : Covers(v, b) /\ ~InPages(secs[k], b) => Covers(v1, b)
    BY <1>0, RemoveKeeps, SMTT(60) DEF ElfStep, Section
  <1> HIDE DEF v1
  <1>2. \A l \in 1..k : l = k \/ l \in 1..(k - 1)
    BY <1>0, SMT
  <1>3. \A l \in 1..(k - 1) : l \in 1..k
    BY <1>0, SMT
  <1>4. k \in 1..k /\ k \in Nat
    BY <1>0, SMT
  <1>5. \A b \in Nat : Covers(v1, b) =>
          Covers(regs, b) /\ \A l \in 1..k : ~InPages(secs[l], b)
    BY <1>1, <1>2 DEF ElfInv
  <1>6. ASSUME UpTo(regs, n), n + Len(secs) <= MaxRegions
        PROVE  /\ UpTo(v1, n + k)
               /\ \A b \in Nat :
                    Covers(regs, b) /\ (\A l \in 1..k : ~InPages(secs[l], b))
                      => Covers(v1, b)
    <2>1. /\ UpTo(v, n + (k - 1))
          /\ \A b \in Nat :
               Covers(regs, b) /\ (\A l \in 1..(k - 1) : ~InPages(secs[l], b))
                 => Covers(v, b)
      BY <1>6 DEF ElfInv
    <2>2. /\ n + (k - 1) \in Nat /\ n + (k - 1) < MaxRegions
          /\ (n + (k - 1)) + 1 = n + k
      BY <1>0, <1>6, BootMemoryAssumption, SMT
    <2>3. /\ UpTo(v1, (n + (k - 1)) + 1)
          /\ \A b \in Nat : Covers(v, b) /\ ~InPages(secs[k], b) => Covers(v1, b)
      BY <1>1, <2>1, <2>2
    <2> QED
      BY <1>3, <1>4, <2>1, <2>2, <2>3
  <1> QED
    BY <1>5, <1>6 DEF ElfInv, v1

ElfLoop == INSTANCE FoldInduction
  WITH V <- SoundTables, W <- Section, Step <- ElfStep, Inv <- ElfInv

\* So parse_elf_tag takes the pages of all sections and nothing else.
LEMMA ElfKeeps ==
  ASSUME usable_regions \in SoundTables, sections \in Seq(Section)
  PROVE  /\ parse_elf_tag \in SoundTables
         /\ \A b \in Nat : Covers(parse_elf_tag, b) =>
              Covers(usable_regions, b) /\ ~InSections(sections, b)
         /\ \A n \in Nat :
              UpTo(usable_regions, n) /\ n + Len(sections) <= MaxRegions =>
                \A b \in Nat : Covers(usable_regions, b) /\ ~InSections(sections, b)
                                 => Covers(parse_elf_tag, b)
  <1> DEFINE regs == usable_regions
             secs == sections
             d(n) == [regs |-> regs, secs |-> secs, n |-> n]
             last == parse_elf_tag
  <1>1. last = ElfLoop!Folded(0, regs, secs)
    BY DEF parse_elf_tag, ElfStep, ElfLoop!Folded, FoldLeft,
           MapThenFoldSet, ElfLoop!MapThenFoldSet, Max, ElfLoop!Max
  <1> HIDE DEF last
  <1>2. Len(secs) \in Nat /\ \A k \in 1..Len(secs) : secs[k] \in Section
    BY SMT
  <1>3. \A k \in 1..Len(secs), v \in SoundTables : ElfStep(0, v, secs[k]) \in SoundTables
    BY <1>2, RemoveKeeps, SMT DEF ElfStep
  <1>4. \A n \in Nat : ElfInv(d(n), 0, regs)
    BY SMT DEF ElfInv
  <1>5. \A n \in Nat, k \in 1..Len(secs), v \in SoundTables :
          ElfInv(d(n), k - 1, v) => ElfInv(d(n), k, ElfStep(0, v, secs[k]))
    BY ElfStepKeeps
  <1>6. \A n \in Nat : last \in SoundTables /\ ElfInv(d(n), Len(secs), last)
    <2> TAKE n \in Nat
    <2>1. ElfInv(d(n), 0, regs)
      BY <1>4
    <2>2. \A k \in 1..Len(secs), v \in SoundTables :
            ElfInv(d(n), k - 1, v) => ElfInv(d(n), k, ElfStep(0, v, secs[k]))
      BY <1>5
    <2> HIDE DEF d
    <2> QED
      BY <1>1, <1>3, <2>1, <2>2, ElfLoop!LoopInvariant
  <1>7. last \in SoundTables
    BY <1>6
  <1>8. \A b \in Nat : Covers(last, b) => Covers(regs, b) /\ ~InSections(secs, b)
    <2>1. ElfInv(d(0), Len(secs), last)
      BY <1>6
    <2> QED
      BY <2>1 DEF ElfInv, InSections
  <1>9. ASSUME NEW n \in Nat, UpTo(regs, n), n + Len(secs) <= MaxRegions
        PROVE  \A b \in Nat : Covers(regs, b) /\ ~InSections(secs, b) => Covers(last, b)
    <2>1. ElfInv(d(n), Len(secs), last)
      BY <1>6
    <2> QED
      BY <1>9, <2>1 DEF ElfInv, InSections
  <1> QED
    BY <1>7, <1>8, <1>9 DEF last

\* The bytes of the pages of the usable entries of the memory map mm.
InMap(mm, b) ==
  \E j \in 1..Len(mm) : mm[j].usable /\ Between(b, From(mm[j]), To(mm[j]))

MapLoop == INSTANCE FoldInduction
  WITH V <- Tables, W <- Nat, Step <- MapStep, Inv <- MapInv

\* And parse_mmap_tag covers exactly the pages of the usable entries.
LEMMA MapKeeps ==
  ASSUME usable_regions \in Tables, memory_map \in MemoryMaps,
         \A j \in Slots : ~usable_regions[j].valid
  PROVE  /\ parse_mmap_tag \in SoundTables
         /\ UpTo(parse_mmap_tag, Len(memory_map))
         /\ \A b \in Nat : Covers(parse_mmap_tag, b) => InMap(memory_map, b)
         /\ Len(memory_map) <= MaxRegions =>
              \A b \in Nat : InMap(memory_map, b) => Covers(parse_mmap_tag, b)
  <1> DEFINE mm == memory_map
             entries == [i \in 1..Len(mm) |-> i]
             last == parse_mmap_tag
  <1>1. last = MapLoop!Folded(mm, usable_regions, entries)
    BY DEF parse_mmap_tag, MapStep, MapLoop!Folded, FoldLeft,
           MapThenFoldSet, MapLoop!MapThenFoldSet, Max, MapLoop!Max
  <1>2. mm \in Seq(Entry) /\ Len(mm) \in Nat
    BY MemoryMapAssumption, SMT DEF Entry
  <1>3. /\ entries \in Seq(Nat) /\ Len(entries) = Len(mm)
        /\ \A i \in 1..Len(mm) : entries[i] = i
    BY <1>2, SMT
  <1> HIDE DEF last, entries, mm
  <1>4. /\ \A k \in 1..Len(mm), v \in Tables : MapStep(mm, v, entries[k]) \in Tables
        /\ \A k \in 1..Len(mm), v \in Tables :
             MapInv(mm, k - 1, v) => MapInv(mm, k, MapStep(mm, v, entries[k]))
    BY <1>2, <1>3, MapStepKeeps
  <1>5. MapInv(mm, 0, usable_regions)
    BY BootMemoryAssumption, SMT DEF MapInv, Slots
  <1>6. last \in Tables /\ MapInv(mm, Len(mm), last)
    BY <1>1, <1>3, <1>4, <1>5, MapLoop!LoopInvariant
  <1>7. last \in SoundTables
    BY <1>6, MapIsSound DEF SoundTables, mm
  <1>8. UpTo(last, Len(mm))
    BY <1>6 DEF MapInv, UpTo
  <1>9. ASSUME NEW b \in Nat, NEW j \in Slots PROVE
          Has(last[j], b) <=> /\ j \in 1..Len(mm) /\ mm[j].usable
                              /\ Between(b, From(mm[j]), To(mm[j]))
    <2>1. j \in 1..Len(mm) <=> j <= Len(mm)
      BY <1>2, SMT DEF Slots
    <2>2. ASSUME j \in 1..Len(mm) PROVE From(mm[j]) \in Nat /\ To(mm[j]) \in Nat
      BY <1>2, <2>2, EntryRounded, SMT
    <2>3. CASE last[j].valid
      BY <1>6, <2>1, <2>3 DEF MapInv, Has, Between, HasPages
    <2>4. CASE ~last[j].valid
      BY <1>6, <2>1, <2>2, <2>4, SMT DEF MapInv, Has, Between, HasPages
    <2> QED
      BY <2>3, <2>4
  <1>10. \A b \in Nat : Covers(last, b) => InMap(mm, b)
    BY <1>9 DEF Covers, InMap
  <1>11. ASSUME Len(mm) <= MaxRegions, NEW b \in Nat, InMap(mm, b)
         PROVE  Covers(last, b)
    <2>1. \A j \in 1..Len(mm) : j \in Slots
      BY <1>2, <1>11, BootMemoryAssumption, SMT DEF Slots
    <2> QED
      BY <1>9, <1>11, <2>1 DEF Covers, InMap
  <1> QED
    BY <1>7, <1>8, <1>10, <1>11 DEF last, mm

-----------------------------------------------------------------------------
(***************************************************************************)
(* The bytes that the properties are about.                                *)
(***************************************************************************)
UsableBytes ==
  UNION {RoundUp(e.addr)..(RoundDown(e.addr + e.size) - 1) :
           e \in {x \in Range(memory_map) : x.usable}}

KernelBytes == UNION {SectionPages(sec) : sec \in Range(sections)}

\* The sets of bytes of the properties, in the terms of the lemmas.
LEMMA BytesOf ==
  ASSUME usable_regions \in Tables, memory_map \in Seq(Entry),
         sections \in Seq(Section)
  PROVE  /\ \A b : b \in RegionBytes <=> b \in Nat /\ Covers(usable_regions, b)
         /\ \A b : b \in UsableBytes <=> b \in Nat /\ InMap(memory_map, b)
         /\ \A b \in Nat : b \in KernelBytes <=> InSections(sections, b)
  <1>1. ASSUME NEW b PROVE b \in RegionBytes <=> b \in Nat /\ Covers(usable_regions, b)
    <2>1. b \in RegionBytes <=>
            \E j \in Slots : usable_regions[j].valid /\ b \in Bytes(usable_regions[j])
      BY DEF RegionBytes, FreeSlots, Tables, Slots
    <2>2. ASSUME NEW x \in Region
          PROVE  x.valid /\ b \in Bytes(x) <=> b \in Nat /\ Has(x, b)
      BY SMT DEF Bytes, Has, Region
    <2>3. \A j \in Slots : usable_regions[j] \in Region
      BY DEF Tables
    <2> QED
      BY <2>1, <2>2, <2>3 DEF Covers
  <1>2. ASSUME NEW b PROVE b \in UsableBytes <=> b \in Nat /\ InMap(memory_map, b)
    <2>1. b \in UsableBytes <=>
            \E j \in 1..Len(memory_map) :
              memory_map[j].usable /\ b \in From(memory_map[j])..(To(memory_map[j]) - 1)
      BY SMT DEF UsableBytes, Range, From, To
    <2>2. ASSUME NEW e \in Entry
          PROVE  b \in From(e)..(To(e) - 1) <=> b \in Nat /\ Between(b, From(e), To(e))
      BY EntryRounded, SMT DEF Between
    <2>3. \A j \in 1..Len(memory_map) : memory_map[j] \in Entry
      BY SMT
    <2> QED
      BY <2>1, <2>2, <2>3 DEF InMap
  <1>3. ASSUME NEW b \in Nat PROVE b \in KernelBytes <=> InSections(sections, b)
    <2>1. b \in KernelBytes <=>
            \E l \in 1..Len(sections) : b \in SectionPages(sections[l])
      BY SMT DEF KernelBytes, Range
    <2>2. ASSUME NEW sec \in Section
          PROVE  b \in SectionPages(sec) <=> InPages(sec, b)
      <3>1. sec.addr \in Nat /\ sec.addr + sec.size \in Nat
        BY SMT DEF Section
      <3>2. RoundDown(sec.addr) \in Nat /\ RoundUp(sec.addr + sec.size) \in Nat
        BY <3>1, RoundDownIs, RoundUpIs
      <3> QED
        BY <3>2, SMT DEF SectionPages, InPages, Between
    <2>3. \A l \in 1..Len(sections) : sections[l] \in Section
      BY SMT
    <2> QED
      BY <2>1, <2>2, <2>3 DEF InSections
  <1> QED
    BY <1>1, <1>2, <1>3

-----------------------------------------------------------------------------
(***************************************************************************)
(* Every section may split a region, so that a table with an entry for     *)
(* each entry of the map and one for each section is large enough.         *)
(***************************************************************************)
EnoughRegions ==
  \A mm \in MemoryMaps, secs \in SectionLists : Len(mm) + Len(secs) <= MaxRegions

(***************************************************************************)
(* However small the table: no byte in it that the memory map does not     *)
(* call usable, and none of the kernel's pages.                            *)
(***************************************************************************)
OnlyUsable == tags = <<>> => RegionBytes \subseteq UsableBytes \ KernelBytes

(***************************************************************************)
(* The inductive invariant: what the table holds before, between and after *)
(* the two tags.                                                           *)
(***************************************************************************)
BeforeMap ==
  tags = <<"mmap", "elf">> /\ \A j \in Slots : ~usable_regions[j].valid

AfterMap ==
  /\ tags = <<"elf">>
  /\ UpTo(usable_regions, Len(memory_map))
  /\ \A b \in Nat : Covers(usable_regions, b) => InMap(memory_map, b)
  /\ EnoughRegions =>
       \A b \in Nat : InMap(memory_map, b) => Covers(usable_regions, b)

AfterElf ==
  /\ tags = <<>>
  /\ \A b \in Nat : Covers(usable_regions, b) =>
       InMap(memory_map, b) /\ ~InSections(sections, b)
  /\ EnoughRegions =>
       \A b \in Nat : InMap(memory_map, b) /\ ~InSections(sections, b)
                        => Covers(usable_regions, b)

BootInv ==
  /\ memory_map \in MemoryMaps
  /\ sections \in SectionLists
  /\ usable_regions \in SoundTables
  /\ BeforeMap \/ AfterMap \/ AfterElf

\* The empty table satisfies the invariant,
LEMMA InitBootInv == Init => BootInv
  <1> SUFFICES ASSUME Init PROVE BootInv
    OBVIOUS
  <1>1. usable_regions \in Tables /\ \A j \in Slots : ~usable_regions[j].valid
    BY DEF Init, Tables, Region, Slots
  <1>2. Sound(usable_regions)
    BY <1>1 DEF Sound
  <1> QED
    BY <1>1, <1>2 DEF Init, BootInv, BeforeMap, SoundTables

\* each tag keeps it,
LEMMA NextBootInv == BootInv /\ [Next]_vars => BootInv'
  <1> SUFFICES ASSUME BootInv, [Next]_vars PROVE BootInv'
    OBVIOUS
  <1>1. CASE Next
    <2>1. /\ tags # <<>> /\ tags' = Tail(tags)
          /\ memory_map' = memory_map /\ sections' = sections
          /\ Head(tags) = "mmap" => usable_regions' = parse_mmap_tag
          /\ Head(tags) # "mmap" => usable_regions' = parse_elf_tag
      BY <1>1 DEF Next, parse_mboot_tag
    <2>2. /\ memory_map \in MemoryMaps /\ sections \in SectionLists
          /\ usable_regions \in SoundTables /\ usable_regions \in Tables
          /\ Len(memory_map) \in Nat /\ Len(sections) \in Nat
          /\ sections \in Seq(Section)
      BY MemoryMapAssumption, SectionAssumption, SMT DEF BootInv, SoundTables,
         Section
    <2>3. ASSUME EnoughRegions
          PROVE  /\ Len(memory_map) <= MaxRegions
                 /\ Len(memory_map) + Len(sections) <= MaxRegions
      BY <2>2, <2>3, BootMemoryAssumption, SMT DEF EnoughRegions
    <2>4. CASE BeforeMap
      <3>1. usable_regions' = parse_mmap_tag /\ tags' = <<"elf">>
        BY <2>1, <2>4, SMT DEF BeforeMap
      <3>2. usable_regions' \in SoundTables /\ AfterMap'
        BY <2>1, <2>2, <2>3, <2>4, <3>1, MapKeeps DEF BeforeMap, AfterMap
      <3> QED
        BY <2>1, <2>2, <3>2 DEF BootInv
    <2>5. CASE AfterMap
      <3>1. usable_regions' = parse_elf_tag /\ tags' = <<>>
        BY <2>1, <2>5, SMT DEF AfterMap
      <3>2. /\ usable_regions' \in SoundTables
            /\ \A b \in Nat : Covers(usable_regions', b) =>
                 Covers(usable_regions, b) /\ ~InSections(sections, b)
        BY <2>2, <3>1, ElfKeeps
      <3>3. ASSUME EnoughRegions, NEW b \in Nat, InMap(memory_map, b),
                   ~InSections(sections, b)
            PROVE  Covers(usable_regions', b)
        BY <2>2, <2>3, <2>5, <3>1, <3>3, ElfKeeps DEF AfterMap
      <3>4. AfterElf'
        BY <2>1, <2>5, <3>1, <3>2, <3>3 DEF AfterMap, AfterElf
      <3> QED
        BY <2>1, <2>2, <3>2, <3>4 DEF BootInv
    <2>6. CASE AfterElf
      BY <2>1, <2>6 DEF AfterElf
    <2> QED
      BY <2>4, <2>5, <2>6 DEF BootInv
  <1>2. CASE UNCHANGED vars
    BY <1>2 DEF vars, BootInv, BeforeMap, AfterMap, AfterElf
  <1> QED
    BY <1>1, <1>2

\* and it implies the properties.
LEMMA BootInvImplies ==
  BootInv => RegionsDisjoint /\ OnlyUsable /\ (EnoughRegions => ExactlyUsable)
  <1> SUFFICES ASSUME BootInv
               PROVE  RegionsDisjoint /\ OnlyUsable /\ (EnoughRegions => ExactlyUsable)
    OBVIOUS
  <1>1. /\ usable_regions \in Tables /\ Sound(usable_regions)
        /\ memory_map \in Seq(Entry) /\ sections \in Seq(Section)
    BY MemoryMapAssumption, SectionAssumption
       DEF BootInv, SoundTables, Section, Entry
  <1>2. RegionsDisjoint
    <2> SUFFICES ASSUME NEW i \in Slots, NEW j \in Slots, i # j,
                        usable_regions[i].valid, usable_regions[j].valid
                 PROVE  Bytes(usable_regions[i]) \cap Bytes(usable_regions[j]) = {}
      BY <1>1 DEF RegionsDisjoint, FreeSlots, Tables, Slots
    <2>1. Apart(usable_regions[i], usable_regions[j])
      BY <1>1 DEF Sound
    <2>2. usable_regions[i] \in Region /\ usable_regions[j] \in Region
      BY <1>1 DEF Tables
    <2>3. ASSUME NEW x \in Region, NEW y \in Region, Apart(x, y)
          PROVE  Bytes(x) \cap Bytes(y) = {}
      BY <2>3, SMT DEF Bytes, Apart, Region
    <2> QED
      BY <2>1, <2>2, <2>3
  <1>3. ASSUME tags = <<>> PROVE AfterElf
    BY <1>3 DEF BootInv, BeforeMap, AfterMap
  <1>4. OnlyUsable
    BY <1>1, <1>3, BytesOf DEF OnlyUsable, AfterElf
  <1>5. ASSUME EnoughRegions PROVE ExactlyUsable
    <2> SUFFICES ASSUME tags = <<>> PROVE RegionBytes = UsableBytes \ KernelBytes
      BY DEF ExactlyUsable, UsableBytes, KernelBytes
    <2> QED
      BY <1>1, <1>3, <1>5, BytesOf DEF AfterElf
  <1> QED
    BY <1>2, <1>4, <1>5

(***************************************************************************)
(* Before, between and after the two tags the table is the one that        *)
(* add_usable_region and remove_region are meant to build.                 *)
(***************************************************************************)
THEOREM BootInvariance == Spec => []BootInv
  BY InitBootInv, NextBootInv, PTL DEF Spec

(***************************************************************************)
(* No frame is in two regions of the table at any time (remove_region,     *)
(* add_usable_region), whatever the map, the image and the table's size.   *)
(***************************************************************************)
THEOREM RegionsDisjointCorrect == Spec => []RegionsDisjoint
  <1>1. BootInv => RegionsDisjoint
    BY BootInvImplies
  <1> QED
    BY <1>1, BootInvariance, PTL

(***************************************************************************)
(* The allocator is given nothing but usable frames, and none of the       *)
(* kernel's, even when remove_region finds no free slot.                   *)
(***************************************************************************)
THEOREM OnlyUsableCorrect == Spec => []OnlyUsable
  <1>1. BootInv => OnlyUsable
    BY BootInvImplies
  <1> QED
    BY <1>1, BootInvariance, PTL

(***************************************************************************)
(* In a table that is large enough it is given all of them: the two tags   *)
(* leave exactly the usable frames that no section of the kernel touches.  *)
(***************************************************************************)
THEOREM ExactlyUsableCorrect ==
  ASSUME EnoughRegions
  PROVE  Spec => []ExactlyUsable
  <1>1. BootInv => ExactlyUsable
    BY BootInvImplies
  <1> QED
    BY <1>1, BootInvariance, PTL
=============================================================================
