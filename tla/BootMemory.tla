----------------------------- MODULE BootMemory -----------------------------
(***************************************************************************)
(* How the frame allocator gets its memory (src/x86_64/memory/frames.c):   *)
(* the boot loader's memory map is turned into a table of usable regions,  *)
(* out of which the sections of the kernel image are carved.               *)
(*                                                                         *)
(* Addresses count bytes of a small memory with small pages, so that       *)
(* entries and sections begin and end anywhere within a page.              *)
(***************************************************************************)
EXTENDS Naturals, Sequences, FiniteSets, SequencesExt

CONSTANTS
  PageSize,      \* PAGE_SIZE
  MaxRegions,    \* MAX_REGIONS
  MemoryMaps,    \* the memory maps the loader may give: sequences of entries
                 \* [addr, size, usable]; the usable ones do not overlap
  SectionLists   \* the section headers of the kernel: sequences of
                 \* [addr, size]

ASSUME BootMemoryAssumption ==
  /\ PageSize \in Nat \ {0}
  /\ MaxRegions \in Nat \ {0}

\* What GRUB provides; nothing is assumed of the order of the entries, nor of
\* where the sections are.
ASSUME MemoryMapAssumption ==
  \A mm \in MemoryMaps :
    /\ mm \in Seq([addr : Nat, size : Nat, usable : BOOLEAN])
    /\ \A i, j \in 1..Len(mm) :
         i # j /\ mm[i].usable /\ mm[j].usable =>
           \/ mm[i].addr + mm[i].size <= mm[j].addr
           \/ mm[j].addr + mm[j].size <= mm[i].addr

ASSUME SectionAssumption ==
  \A ss \in SectionLists : ss \in Seq([addr : Nat, size : Nat])

VARIABLES
  tags,             \* the tags still to be parsed
  usable_regions,   \* the table
  memory_map,       \* the memory map of this boot
  sections          \* the sections of this boot

vars == <<tags, usable_regions, memory_map, sections>>

RoundDown(a) == (a \div PageSize) * PageSize

RoundUp(a) == RoundDown(a + PageSize - 1)

\* GRUB's tags; the memory map comes before the section headers.
Init ==
  /\ memory_map \in MemoryMaps
  /\ sections \in SectionLists
  /\ tags = <<"mmap", "elf">>
  /\ usable_regions =
       [i \in 1..MaxRegions |-> [addr |-> 0, size |-> 0, valid |-> FALSE]]

-----------------------------------------------------------------------------
\* Faulty: the end of a region is rounded up.
add_usable_region_up(regs, addr, size, entry) ==
  LET start == RoundUp(addr)
      end == RoundUp(addr + size)
  IN  IF end <= start \/ entry > MaxRegions THEN regs
      ELSE [regs EXCEPT ![entry] = [addr |-> start, size |-> end - start,
                                    valid |-> TRUE]]

add_usable_region(regs, addr, size, entry) ==
  LET start == RoundUp(addr)
      end == RoundDown(addr + size)
  IN  IF end <= start \/ entry > MaxRegions THEN regs
      ELSE [regs EXCEPT ![entry] = [addr |-> start, size |-> end - start,
                                    valid |-> TRUE]]

FreeSlots(regs) == {j \in DOMAIN regs : ~regs[j].valid}

FirstSlot(S) == CHOOSE j \in S : \A l \in S : j <= l

\* Faulty: a section inside a region leaves the region as it was.
carve_unsplit(regs, i, start, end) ==
  LET reg_start == regs[i].addr
      reg_end == regs[i].addr + regs[i].size
      right == add_usable_region(regs, end, reg_end - end,
                                 FirstSlot(FreeSlots(regs)))
  IN  IF ~regs[i].valid \/ end <= reg_start \/ start >= reg_end THEN regs
      ELSE IF start <= reg_start /\ end >= reg_end
        THEN [regs EXCEPT ![i].valid = FALSE]
      ELSE IF start <= reg_start /\ end < reg_end
        THEN [regs EXCEPT ![i] = [addr |-> end, size |-> reg_end - end,
                                  valid |-> TRUE]]
      ELSE IF start > reg_start /\ end >= reg_end
        THEN [regs EXCEPT ![i].size = start - reg_start]
      ELSE IF FreeSlots(regs) = {} THEN regs ELSE right

\* One turn of the loop of remove_region: entry i of the table loses what it
\* shares with start..end; a section inside it splits it, and the right part
\* is lost if there is no free slot for it.
carve(regs, i, start, end) ==
  LET reg_start == regs[i].addr
      reg_end == regs[i].addr + regs[i].size
      left == [regs EXCEPT ![i].size = start - reg_start]
  IN  IF ~regs[i].valid \/ end <= reg_start \/ start >= reg_end THEN regs
      ELSE IF start <= reg_start /\ end >= reg_end
        THEN [regs EXCEPT ![i].valid = FALSE]
      ELSE IF start <= reg_start /\ end < reg_end
        THEN [regs EXCEPT ![i] = [addr |-> end, size |-> reg_end - end,
                                  valid |-> TRUE]]
      ELSE IF (start > reg_start /\ end >= reg_end) \/ FreeSlots(regs) = {}
        THEN left
      ELSE add_usable_region(left, end, reg_end - end,
                             FirstSlot(FreeSlots(regs)))

remove_region(regs, start, end) ==
  FoldLeft(LAMBDA r, i : carve(r, i, RoundDown(start), RoundUp(end)),
           regs, [i \in 1..MaxRegions |-> i])

\* The table entry used is the number of the memory map's entry.
parse_mmap_tag ==
  FoldLeft(LAMBDA r, i : IF memory_map[i].usable
                         THEN add_usable_region(r, memory_map[i].addr,
                                                memory_map[i].size, i)
                         ELSE r,
           usable_regions, [i \in 1..Len(memory_map) |-> i])

parse_elf_tag ==
  FoldLeft(LAMBDA r, s : remove_region(r, s.addr, s.addr + s.size),
           usable_regions, sections)

\* One turn of the loop of parse_mboot_tags.
parse_mboot_tag ==
  /\ tags # <<>>
  /\ usable_regions' = IF Head(tags) = "mmap" THEN parse_mmap_tag
                                              ELSE parse_elf_tag
  /\ tags' = Tail(tags)
  /\ UNCHANGED <<memory_map, sections>>

Next == parse_mboot_tag

Spec == Init /\ [][Next]_vars

-----------------------------------------------------------------------------
\* The bytes of an interval, and those of the table's regions.
Bytes(i) == i.addr..(i.addr + i.size - 1)

RegionBytes ==
  UNION {Bytes(usable_regions[j]) :
           j \in (1..MaxRegions) \ FreeSlots(usable_regions)}

\* The pages of a section; one that is empty has a page if it begins within it.
SectionPages(s) == RoundDown(s.addr)..(RoundUp(s.addr + s.size) - 1)

(***************************************************************************)
(* After the tags are parsed the table holds exactly the page frames that  *)
(* lie within one usable entry of the memory map and that no section of    *)
(* the kernel touches: no frame of the kernel is handed out, none that the *)
(* map does not call usable, and no frame is wasted, however sections and  *)
(* regions overlap (remove_region, add_usable_region).                     *)
(***************************************************************************)
ExactlyUsable ==
  tags = <<>> =>
    RegionBytes =
      (UNION {RoundUp(e.addr)..(RoundDown(e.addr + e.size) - 1) :
                e \in {x \in Range(memory_map) : x.usable}})
        \ (UNION {SectionPages(s) : s \in Range(sections)})

(***************************************************************************)
(* No frame is in two regions of the table, so none is handed out twice.   *)
(***************************************************************************)
RegionsDisjoint ==
  \A i, j \in (1..MaxRegions) \ FreeSlots(usable_regions) :
    i # j => Bytes(usable_regions[i]) \cap Bytes(usable_regions[j]) = {}
=============================================================================
