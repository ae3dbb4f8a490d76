---------------------------- MODULE MCBootMemory ----------------------------
(* Memory maps and kernel images for BootMemory.                           *)
EXTENDS BootMemory

CONSTANT Memory   \* bytes of memory

\* A map of three entries that cover the memory.
Maps ==
  {<<[addr |-> 0, size |-> c, usable |-> u],
     [addr |-> c, size |-> d - c, usable |-> v],
     [addr |-> d, size |-> Memory - d, usable |-> w]>> :
     c \in 0..Memory, d \in 0..Memory, u \in BOOLEAN, v \in BOOLEAN,
     w \in BOOLEAN}

OrderedMaps == {mm \in Maps : mm[2].addr <= mm[3].addr}

Intervals ==
  {[addr |-> x, size |-> y] : x \in 0..Memory, y \in 0..Memory}

ImageSections == {i \in Intervals : i.addr + i.size <= Memory}

\* Images of two sections.
Images == {<<s, t>> : s \in ImageSections, t \in ImageSections}
=============================================================================
