----------------------------- MODULE KernelHeap -----------------------------
(***************************************************************************)
(* The kernel's heap: kmalloc and kfree (src/x86_64/memory/kmalloc.c) over *)
(* demand-paged kernel pages (MMU_alloc_pages, MMU_free_pages of           *)
(* src/x86_64/memory/vpages.c).  Every call runs with interrupts off, in   *)
(* one step.                                                               *)
(*                                                                         *)
(* A block is named by the address of its header.  The page frames are     *)
(* counted, the frames themselves are the subject of module Frames.  One   *)
(* level of page tables stands for the levels below the kernel's p4.  The  *)
(* clients are threads' structures and stacks, mutexes, requests and       *)
(* buffers; what they rely on is module Heap.                              *)
(***************************************************************************)
EXTENDS Integers, FiniteSets, SequencesExt

CONSTANTS
  PAGE_SIZE,
  HeaderSize,     \* sizeof(struct kmalloc_extra)
  max_size,       \* pools[i].max_size, in increasing order
  TableSpan,      \* the pages that one page table maps
  NumFrames,      \* the frames that user processes leave to the heap
  MaxPages,       \* bound: the pages of the heap that are modelled
  Sizes,          \* what the clients of kmalloc ask for
  MaxHeld,        \* bound: the blocks they hold at a time
  MaxAllocs       \* bound: the calls they make

ASSUME KernelHeapAssumption ==
  /\ {PAGE_SIZE, HeaderSize, TableSpan} \subseteq Nat \ {0}
  /\ \A i \in DOMAIN max_size : max_size[i] \in HeaderSize..PAGE_SIZE
  /\ Sizes \subseteq Nat \ {0}

VARIABLES
  kernel_va,      \* the next page of the heap that was never used
  p1,             \* the entry of each page: "none", "demand" or "present"
  tables,         \* the page tables there are
  frames,         \* how many page frames are free
  head, avail,    \* pools[i].head, as a sequence, and pools[i].avail
  live,           \* the blocks handed out, with their headers
  halted,         \* the page fault handler executed cli; hlt
  held,           \* the addresses that the clients hold
  allocs          \* how many calls they have made

hvars == <<kernel_va, p1, tables, frames, head, avail, live, halted>>
vars == <<hvars, held, allocs>>

NULL == 0

Pages == 1..MaxPages
Pools == DOMAIN max_size

Init ==
  /\ kernel_va = 1
  /\ p1 = [v \in Pages |-> "none"]
  /\ tables = {}
  /\ frames = NumFrames
  /\ head = [i \in Pools |-> <<>>]
  /\ avail = [i \in Pools |-> 0]
  /\ live = {}
  /\ halted = FALSE
  /\ held = {} /\ allocs = 0

\* The state of the heap, and whether the call in progress is going well.
heap ==
  [kernel_va |-> kernel_va, p1 |-> p1, tables |-> tables, frames |-> frames,
   head |-> head, avail |-> avail, live |-> live, halted |-> halted,
   ok |-> TRUE]

SetHeap(h) ==
  /\ kernel_va' = h.kernel_va
  /\ p1' = h.p1
  /\ tables' = h.tables
  /\ frames' = h.frames
  /\ head' = h.head
  /\ avail' = h.avail
  /\ live' = h.live
  /\ halted' = h.halted

-----------------------------------------------------------------------------
TableOf(v) == v \div TableSpan

\* travel_pagetable_in in CREATE_MODE: the page table of v, if it can be had.
Walked(h, v) ==
  IF TableOf(v) \in h.tables THEN h
  ELSE IF h.frames = 0 THEN [h EXCEPT !.ok = FALSE]
  ELSE [h EXCEPT !.tables = @ \cup {TableOf(v)}, !.frames = @ - 1]

demand_page(h, v) ==
  LET w == Walked(h, v)
  IN  IF w.ok /\ w.p1[v] = "none" THEN [w EXCEPT !.p1[v] = "demand"]
      ELSE [w EXCEPT !.ok = FALSE]

\* The pages reserved before a failure stay reserved.
MMU_alloc_pages(h, num) ==
  LET reserve(s, i) == IF s.ok THEN demand_page(s, h.kernel_va + i) ELSE s
      r == FoldLeft(reserve, h, [i \in 1..num |-> i - 1])
  IN  IF r.ok THEN [r EXCEPT !.kernel_va = @ + num] ELSE r

MMU_alloc_page(h) == MMU_alloc_pages(h, 1)

\* The first access of a page faults, and the handler backs it or halts.
Touched(h, v) ==
  IF h.p1[v] = "present" THEN h
  ELSE IF h.p1[v] = "demand" /\ h.frames > 0
  THEN [h EXCEPT !.p1[v] = "present", !.frames = @ - 1]
  ELSE [h EXCEPT !.halted = TRUE]

\* The page table of v is freed if it has become empty.
free_empty_tables(h, v) ==
  IF \A w \in Pages : TableOf(w) = TableOf(v) => h.p1[w] = "none"
  THEN [h EXCEPT !.tables = @ \ {TableOf(v)}, !.frames = @ + 1]
  ELSE h

\* Faulty: a page that was reserved and never touched gives a frame back.
MMU_free_page_any(h, v) ==
  IF TableOf(v) \notin h.tables THEN h
  ELSE free_empty_tables(
         [h EXCEPT !.p1[v] = "none", !.frames = @ + 1], v)

MMU_free_page(h, v) ==
  IF TableOf(v) \notin h.tables THEN h
  ELSE free_empty_tables(
         [h EXCEPT !.p1[v] = "none",
                   !.frames = IF h.p1[v] = "present" THEN @ + 1 ELSE @], v)

MMU_free_pages(h, v, num) ==
  FoldLeft(MMU_free_page, h, [i \in 1..num |-> v + i - 1])

-----------------------------------------------------------------------------
PageOf(addr) == addr \div PAGE_SIZE

PagesFor(size) == (size + HeaderSize + PAGE_SIZE - 1) \div PAGE_SIZE

\* Faulty: the header is forgotten.
best_pool_bare(size) ==
  LET fit == {i \in Pools : max_size[i] >= size}
  IN  IF fit = {} THEN 0 ELSE Min(fit)

\* The pool with the smallest blocks that suffice, or 0.
best_pool(size) ==
  LET fit == {i \in Pools : max_size[i] >= size + HeaderSize}
  IN  IF fit = {} THEN 0 ELSE Min(fit)

\* Faulty: one block too many is cut from the page.
num_blocks_more(i) == PAGE_SIZE \div max_size[i] + 1

num_blocks(i) == PAGE_SIZE \div max_size[i]

\* The blocks of the page are pushed one by one.
expand_pool(h, i) ==
  LET n == num_blocks(i)
      base == h.kernel_va * PAGE_SIZE
      r == MMU_alloc_page(h)
  IN  IF ~r.ok THEN r
      ELSE [Touched(r, h.kernel_va) EXCEPT
              !.head[i] = [j \in 1..n |-> base + (n - j) * max_size[i]] \o @,
              !.avail[i] = @ + n]

\* The block's header is written, which touches its page.
HandedOut(h, block, pool, size) ==
  [heap  |-> [Touched(h, PageOf(block)) EXCEPT
                !.live = @ \cup
                  {[addr |-> block, pool |-> pool, size |-> size]}],
   block |-> block]

NoBlock(h) == [heap |-> [h EXCEPT !.ok = TRUE], block |-> NULL]

\* The heap after kmalloc, and what it returns.
kmalloc(h, size) ==
  LET i == best_pool(size)
      r == IF i = 0 THEN MMU_alloc_pages(h, PagesFor(size))
           ELSE IF h.avail[i] = 0 THEN expand_pool(h, i) ELSE h
  IN  IF ~r.ok THEN NoBlock(r)
      ELSE IF i = 0 THEN HandedOut(r, h.kernel_va * PAGE_SIZE, 0, size)
      ELSE HandedOut([r EXCEPT !.head[i] = Tail(@), !.avail[i] = @ - 1],
                     Head(r.head[i]), i, size)

kfree(h, block) ==
  LET header == CHOOSE b \in h.live : b.addr = block
      r == [h EXCEPT !.live = @ \ {header}]
  IN  IF block = NULL THEN h
      ELSE IF header.pool # 0
      THEN [r EXCEPT !.head[header.pool] = <<block>> \o @,
                     !.avail[header.pool] = @ + 1]
      ELSE MMU_free_pages(r, PageOf(block), PagesFor(header.size))

-----------------------------------------------------------------------------
(* The clients.                                                            *)

Allocate ==
  /\ ~halted
  /\ allocs < MaxAllocs
  /\ Cardinality(held) < MaxHeld
  /\ \E size \in Sizes :
       LET k == kmalloc(heap, size)
       IN  /\ SetHeap(k.heap)
           /\ held' = held \cup ({k.block} \ {NULL})
  /\ allocs' = allocs + 1

Release ==
  /\ ~halted
  /\ \E block \in held :
       /\ SetHeap(kfree(heap, block))
       /\ held' = held \ {block}
  /\ UNCHANGED allocs

Spanned(b) ==
  PageOf(b.addr)..PageOf(b.addr + b.size + HeaderSize - 1)

\* A client uses its block.
Access ==
  /\ ~halted
  /\ \E b \in live : \E v \in Spanned(b) :
       b.addr \in held /\ p1[v] = "demand" /\ SetHeap(Touched(heap, v))
  /\ UNCHANGED <<held, allocs>>

Next == Allocate \/ Release \/ Access

Spec == Init /\ [][Next]_vars

-----------------------------------------------------------------------------
\* The first address and the length of each block, handed out or free.
Extents ==
  {<<b.addr, IF b.pool = 0 THEN b.size + HeaderSize ELSE max_size[b.pool],
     "live", 0>> : b \in live}
    \cup UNION {{<<head[i][j], max_size[i], "free", j>> : j \in DOMAIN head[i]} :
                i \in Pools}

(***************************************************************************)
(* No byte belongs to two blocks, handed out or free, and every block lies *)
(* in pages that are reserved or backed: what one client writes to its     *)
(* block changes nobody else's, and no page is unmapped under a block.     *)
(* The pools' counts agree with their lists                                *)
(* (kmalloc, kfree, expand_pool, MMU_free_page).                           *)
(***************************************************************************)
BlocksApart ==
  /\ \A e, f \in Extents :
       e # f => e[1] + e[2] <= f[1] \/ f[1] + f[2] <= e[1]
  /\ \A b \in live : \A v \in Spanned(b) : p1[v] # "none"
  /\ ~halted => \A i \in Pools :
       /\ avail[i] = Len(head[i])
       /\ \A j \in DOMAIN head[i] : p1[PageOf(head[i][j])] = "present"

(***************************************************************************)
(* Frames are neither lost nor counted twice: each one is free, backs a    *)
(* page of the heap or is a page table, also after a call that failed      *)
(* half-way (MMU_alloc_pages, MMU_free_page, free_empty_tables).           *)
(***************************************************************************)
FramesBalanced ==
  ~halted =>
    frames + Cardinality(tables)
      + Cardinality({v \in Pages : p1[v] = "present"}) = NumFrames

H == INSTANCE Heap WITH
  blocks <- {[first |-> b.addr, length |-> b.size + HeaderSize] : b \in live}

(***************************************************************************)
(* kmalloc and kfree implement the heap that their clients rely on: a call *)
(* hands out one block apart from all others, takes back the one it was    *)
(* given, or changes nothing for the clients, whatever pools are expanded  *)
(* and pages mapped or unmapped on the way.                                *)
(***************************************************************************)
ImplementsHeap == H!Spec
=============================================================================
