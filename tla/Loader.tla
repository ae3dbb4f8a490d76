------------------------------- MODULE Loader -------------------------------
(***************************************************************************)
(* The ELF loader (src/kernel/elf64.c): elf_load_program finds a file in   *)
(* the root directory, reads its headers and builds an address space from  *)
(* its segments, with the reservation and the writing of user pages        *)
(* (MMU_alloc_at_as, MMU_copy_to_user_as and MMU_zero_user_as of           *)
(* src/x86_64/memory/vpages.c), each of which runs with interrupts off.    *)
(*                                                                         *)
(* The boot thread loads the first program once it has mounted the file    *)
(* system; the others run after that, and call exec.                       *)
(***************************************************************************)
EXTENDS Ext2

CONSTANTS
  Requests,        \* the names of the programs that each thread may load
  HeaderSize,      \* sizeof(struct ELF64_head)
  ProgSize,        \* sizeof(struct ELF64_prog_head)
  Headers,         \* the ELF headers on the disk: the bytes that are one, and
                   \* [magic, prog_table_pos, prog_ent_size, prog_ent_num]
  ProgHeaders,     \* the program headers on the disk: the bytes that are one, and
                   \* [load, file_offset, load_addr, file_size, mem_size]
  PAGE_SIZE,
  VA_USTACK_BASE, DEFAULT_STACK_BYTES

VARIABLES
  ld,              \* the locals of elf_load_program
  space            \* the address space that it builds

vars == <<rd, queue, root, ld, space>>

NoHeader == [bytes |-> <<>>, magic |-> FALSE, prog_table_pos |-> 0,
             prog_ent_size |-> 0, prog_ent_num |-> 0]
NoProg == [bytes |-> <<>>, load |-> FALSE, file_offset |-> 0, load_addr |-> 0,
           file_size |-> 0, mem_size |-> 0]

\* What bytes may mean that were read: if some of them are arbitrary, anything.
Parsed(set, none, bytes) ==
  LET exact == {h \in set : h.bytes = bytes}
  IN  IF Junk \in Range(bytes) THEN set \cup {none}
      ELSE IF exact = {} THEN {none} ELSE exact

ElfLocals == [name |-> "", header |-> NoHeader, i |-> 0, ph |-> NoProg,
              written |-> 0, ret |-> 1]

\* No address space, and one of which nothing is mapped.
NoSpace == [cr3 |-> FALSE, reserved |-> {}, bytes |-> <<>>]
NewSpace == [NoSpace EXCEPT !.cr3 = TRUE]

-----------------------------------------------------------------------------
PageOf(va) == va \div PAGE_SIZE

\* Faulty: the offset of va in its page is left out.
PagesOfAligned(va, size) ==
  PageOf(va)..(PageOf(va) + (size + PAGE_SIZE - 1) \div PAGE_SIZE - 1)

\* The pages from that of va to that of the last byte.
PagesOf(va, size) == PageOf(va)..(PageOf(va + size + PAGE_SIZE - 1) - 1)

\* reserve_pages_at succeeds for pages that are neither reserved nor backed.
Reservable(s, va, size) == PagesOf(va, size) \cap s.reserved = {}

Reserve(s, va, size) == [s EXCEPT !.reserved = @ \cup PagesOf(va, size)]

\* write_user_range_as: the pages written to are backed by zeroed frames.
Written(s, va, bytes) ==
  LET range == va..(va + Len(bytes) - 1)
      touched == {a \in UNION {(v * PAGE_SIZE)..(v * PAGE_SIZE + PAGE_SIZE - 1) :
                                 v \in {PageOf(a) : a \in range}} :
                    a \notin DOMAIN s.bytes}
  IN  [s EXCEPT !.bytes =
         [a \in DOMAIN @ \cup touched |->
            IF a \in range THEN bytes[a - va + 1]
            ELSE IF a \in touched THEN 0 ELSE @[a]]]

\* What the program reads at va.
UserByte(s, va) == IF va \in DOMAIN s.bytes THEN s.bytes[va] ELSE 0

-----------------------------------------------------------------------------
(* The steps of elf_load_program; e is the thread's record in ld.          *)

Elf(r, l, e) ==
  /\ rd' = [rd EXCEPT ![r] = l]
  /\ ld' = [ld EXCEPT ![r] = e]
  /\ UNCHANGED <<queue, root>>

\* The loader returns.  Nobody frees the inode that it found.
Finished(l) ==
  [l EXCEPT !.pc = "loaded", !.val = 0, !.out = <<>>, !.raw = None,
            !.kept = @ \cup ({l.child, l.priv} \ {NULL}),
            !.child = NULL, !.priv = NULL]

Closed(l) == Finished(ext2_file_close(l))

Ended(e, ret) == [ElfLocals EXCEPT !.name = e.name, !.ret = ret]

\* out_close, before there is an address space.
CloseFailed(r, l) ==
  Elf(r, Closed(l), Ended(ld[r], -1)) /\ UNCHANGED space

\* kfree(bounce), if there is one, and out_destroy.
DestroyFailed(r, l) ==
  /\ Elf(r, Closed(kfree(l, "bounce")), Ended(ld[r], -1))
  /\ space' = [space EXCEPT ![r] = NoSpace]

Load(r) ==
  /\ At(r, "idle") /\ root # None
  /\ r # Boot => At(Boot, "exited")
  /\ \E name \in Requests[r] :
       Elf(r, Call([rd[r] EXCEPT !.target = name], "dir", "elf_open"),
           [ld[r] EXCEPT !.name = name])
  /\ UNCHANGED space

ElfOpen(r) ==
  LET l == [rd[r] EXCEPT !.target = ""]
  IN  /\ At(r, "elf_open")
      /\ IF l.child = NULL THEN Elf(r, Finished(l), Ended(ld[r], -1))
         ELSE \E ok \in Outcomes(r) :
                LET n == ext2_open(l, ok)
                IN  IF ok THEN Elf(r, ext2_file_read(n, HeaderSize, "elf_header"), ld[r])
                    ELSE Elf(r, Finished(n), Ended(ld[r], -1))
      /\ UNCHANGED space

ElfHeader(r) ==
  LET l == rd[r]
  IN  /\ At(r, "elf_header")
      /\ \E h \in Parsed(Headers, NoHeader, l.out), ok \in Outcomes(r) :
           IF l.val # HeaderSize \/ ~h.magic THEN ok /\ CloseFailed(r, l)
           ELSE IF ~ok THEN CloseFailed(r, [l EXCEPT !.failures = @ + 1])
           ELSE /\ Elf(r, [l EXCEPT !.pc = "elf_next"], [ld[r] EXCEPT !.header = h])
                /\ space' = [space EXCEPT ![r] = NewSpace]

ElfNext(r) ==
  LET l == rd[r]
      e == ld[r]
      pos == e.header.prog_table_pos + e.i * e.header.prog_ent_size
  IN  /\ At(r, "elf_next")
      /\ IF e.i = e.header.prog_ent_num
         THEN Elf(r, [l EXCEPT !.pc = "elf_stack"], e)
         ELSE Elf(r, ext2_file_read(ext2_file_lseek(l, pos), ProgSize, "elf_prog"), e)
      /\ UNCHANGED space

\* MMU_alloc_at_as for a PT_LOAD segment; the pages that a failed call has
\* reserved go with the address space.
ElfProg(r) ==
  LET l == rd[r]
  IN  /\ At(r, "elf_prog")
      /\ \E ph \in Parsed(ProgHeaders, NoProg, l.out), ok \in Outcomes(r) :
           IF l.val # ProgSize THEN ok /\ DestroyFailed(r, l)
           ELSE IF ~ph.load
           THEN /\ ok
                /\ Elf(r, [l EXCEPT !.pc = "elf_next"], [ld[r] EXCEPT !.i = @ + 1])
                /\ UNCHANGED space
           ELSE IF ~ok THEN DestroyFailed(r, [l EXCEPT !.failures = @ + 1])
           ELSE IF ~Reservable(space[r], ph.load_addr, ph.mem_size)
           THEN DestroyFailed(r, l)
           ELSE /\ Elf(r, [l EXCEPT !.pc = "elf_segment"],
                       [ld[r] EXCEPT !.ph = ph, !.written = 0])
                /\ space' = [space EXCEPT ![r] =
                               Reserve(@, ph.load_addr, ph.mem_size)]

ElfSegment(r) ==
  LET l == ext2_file_lseek(rd[r], ld[r].ph.file_offset)
  IN  /\ At(r, "elf_segment")
      /\ IF ld[r].ph.file_size = 0
         THEN Elf(r, [l EXCEPT !.pc = "elf_chunk"], ld[r]) /\ UNCHANGED space
         ELSE \E ok \in Outcomes(r) :
                LET n == kmalloc(l, "bounce", ok)
                IN  IF ok
                    THEN /\ Elf(r, [n EXCEPT !.pc = "elf_chunk"], ld[r])
                         /\ UNCHANGED space
                    ELSE DestroyFailed(r, n)

chunk(e) == Min({PAGE_SIZE, e.ph.file_size - e.written})

ElfChunk(r) ==
  LET l == rd[r]
      e == ld[r]
  IN  /\ At(r, "elf_chunk")
      /\ IF e.written >= e.ph.file_size THEN Elf(r, [l EXCEPT !.pc = "elf_bss"], e)
         ELSE Elf(r, ext2_file_read(l, chunk(e), "elf_copy"), e)
      /\ UNCHANGED space

Mapped(s, va, size) == {PageOf(a) : a \in va..(va + size - 1)} \subseteq s.reserved

ElfCopy(r) ==
  LET l == rd[r]
      e == ld[r]
      dst == e.ph.load_addr + e.written
  IN  /\ At(r, "elf_copy")
      /\ \E ok \in Outcomes(r) :
           IF l.val # chunk(e) \/ ~Mapped(space[r], dst, chunk(e))
           THEN ok /\ DestroyFailed(r, l)
           ELSE IF ~ok THEN DestroyFailed(r, [l EXCEPT !.failures = @ + 1])
           ELSE /\ Elf(r, [l EXCEPT !.pc = "elf_chunk"],
                       [e EXCEPT !.written = @ + chunk(e)])
                /\ space' = [space EXCEPT ![r] = Written(@, dst, l.out)]

\* The rest of the segment is zeroed, which backs its pages.
ElfBss(r) ==
  LET l == rd[r]
      e == ld[r]
      start == e.ph.load_addr + e.ph.file_size
      bss == e.ph.mem_size - e.ph.file_size
  IN  /\ At(r, "elf_bss")
      /\ \E ok \in Outcomes(r) :
           IF bss > 0 /\ ~ok THEN DestroyFailed(r, [l EXCEPT !.failures = @ + 1])
           ELSE IF ~Mapped(space[r], start, bss) THEN ok /\ DestroyFailed(r, l)
           ELSE /\ ok
                /\ Elf(r, [kfree(l, "bounce") EXCEPT !.pc = "elf_next"],
                       [e EXCEPT !.i = @ + 1, !.ph = NoProg])
                /\ space' = [space EXCEPT ![r] =
                               Written(@, start, [j \in 1..bss |-> 0])]

ElfStack(r) ==
  LET l == rd[r]
  IN  /\ At(r, "elf_stack")
      /\ \E ok \in Outcomes(r) :
           IF ~ok THEN DestroyFailed(r, [l EXCEPT !.failures = @ + 1])
           ELSE IF ~Reservable(space[r], VA_USTACK_BASE, DEFAULT_STACK_BYTES)
           THEN DestroyFailed(r, l)
           ELSE /\ Elf(r, Closed(l), Ended(ld[r], 0))
                /\ space' = [space EXCEPT ![r] =
                               Reserve(@, VA_USTACK_BASE, DEFAULT_STACK_BYTES)]

\* elf_load after elf_load_program: the address space becomes the first process's,
\* if that can be created, and the boot thread ends.
StartInit ==
  LET l == [rd[Boot] EXCEPT !.pc = "exited", !.failures = 0]
  IN  /\ At(Boot, "loaded") /\ ld[Boot].ret = 0
      /\ \E ok \in Outcomes(Boot) :
           IF ok THEN Elf(Boot, l, ElfLocals)
           ELSE Elf(Boot, [rd[Boot] EXCEPT !.failures = @ + 1], Ended(ld[Boot], -1))
      /\ space' = [space EXCEPT ![Boot] = NoSpace]

-----------------------------------------------------------------------------
Init ==
  /\ Ext2Init
  /\ ld = [r \in Loaders |-> ElfLocals]
  /\ space = [r \in Loaders |-> NoSpace]

ElfStep(r) ==
  \/ Load(r) \/ ElfOpen(r) \/ ElfHeader(r) \/ ElfNext(r) \/ ElfProg(r)
  \/ ElfSegment(r) \/ ElfChunk(r) \/ ElfCopy(r) \/ ElfBss(r) \/ ElfStack(r)

Ext2Next == (\E r \in Loaders : Ext2Step(r)) \/ Ext2Boot \/ SectorRead

Next ==
  \/ \E r \in Loaders : ElfStep(r)
  \/ StartInit
  \/ Ext2Next /\ UNCHANGED <<ld, space>>

\* The scheduler runs every thread that is ready, and the disk serves requests.
Fairness ==
  /\ \A r \in Loaders :
       /\ WF_vars(Ext2Step(r) /\ UNCHANGED <<ld, space>>)
       /\ WF_vars(ElfStep(r))
  /\ WF_vars(StartInit)
  /\ WF_vars((Ext2Boot \/ SectorRead) /\ UNCHANGED <<ld, space>>)

Spec == Init /\ [][Next]_vars /\ Fairness

-----------------------------------------------------------------------------
(* What a load should do, from what is on the disk.                        *)

\* The program headers of the segments that are to be loaded.
Segments(node, h) ==
  {ph \in ProgHeaders :
     /\ ph.load
     /\ \E i \in 0..(h.prog_ent_num - 1) :
          FileBytes(node, h.prog_table_pos + i * h.prog_ent_size, ProgSize) = ph.bytes}

HeaderOf(node) == {h \in Headers : h.bytes = FileBytes(node, 0, HeaderSize)}

\* The pages that segment ph is to have, and all that the program is to have.
SegmentPages(ph) == {PageOf(a) : a \in ph.load_addr..(ph.load_addr + ph.mem_size - 1)}

StackPages ==
  {PageOf(a) : a \in VA_USTACK_BASE..(VA_USTACK_BASE + DEFAULT_STACK_BYTES - 1)}

\* A file that can be loaded: what its headers describe lies in the file, and no
\* two of its segments, or a segment and the stack, need the same page.
Loadable(node) ==
  /\ node.size >= HeaderSize
  /\ \E h \in HeaderOf(node) :
       /\ h.magic
       /\ h.prog_table_pos + h.prog_ent_num * h.prog_ent_size <= node.size
       /\ \A ph, other \in Segments(node, h) :
            /\ ph.file_offset + ph.file_size <= node.size
            /\ ph # other => SegmentPages(ph) \cap SegmentPages(other) = {}
            /\ SegmentPages(ph) \cap StackPages = {}

\* The byte that the file puts at address va.
ImageByte(node, segments, va) ==
  LET at == {ph \in segments : va \in ph.load_addr..(ph.load_addr + ph.file_size - 1)}
  IN  IF at = {} THEN 0
      ELSE LET ph == CHOOSE s \in at : TRUE
           IN  FileByte(node, ph.file_offset + va - ph.load_addr)

Starved(r) == rd[r].failures > 0

\* The request that the disk is to serve next is one that it never completes.
DiskStuck ==
  queue # <<>> /\ LET l == rd[Head(queue)] IN l.dst = NULL /\ l.part = 0

(***************************************************************************)
(* A program that was loaded is the one in the file: its pages are those   *)
(* of its segments and its stack, each byte of a segment is the byte of    *)
(* the file, through the partition, the directory, the inode, the levels   *)
(* of indirect blocks and the chunks of the copy, and all other bytes are  *)
(* zero.  A load that failed leaves no address space                       *)
(* (elf_load_segments, ext2_file_read, ext2_get_block_number).             *)
(***************************************************************************)
LoadsImage ==
  \A r \in Loaders :
    /\ ld[r].ret = 0 /\ ~Starved(r) =>
         \E node \in Named(ld[r].name) : \E h \in HeaderOf(node) :
           LET segments == Segments(node, h)
           IN  /\ space[r].reserved =
                    StackPages \cup UNION {SegmentPages(ph) : ph \in segments}
               /\ \A v \in space[r].reserved :
                    \A va \in (v * PAGE_SIZE)..(v * PAGE_SIZE + PAGE_SIZE - 1) :
                      UserByte(space[r], va) = ImageByte(node, segments, va)
    /\ ld[r].ret = -1 => space[r] = NoSpace

(***************************************************************************)
(* With enough memory, elf_load_program succeeds exactly for the names of  *)
(* files that can be loaded: a valid program is found and never refused,   *)
(* and a missing, a truncated or a malformed one is never started          *)
(* (elf_open_file, ext2_readdir, elf_read_header, elf_load_segment).       *)
(***************************************************************************)
LoadOutcome ==
  \A r \in Loaders :
    At(r, "loaded") /\ ~Starved(r) =>
      (ld[r].ret = 0 <=> \E node \in Named(ld[r].name) : Loadable(node))

(***************************************************************************)
(* Every block that kmalloc gave is pointed to by a local of the thread    *)
(* that got it, or is one that the code keeps: the superblock, the root    *)
(* and the inode of each program found.  This holds on every error path,   *)
(* and no block is used after it was freed                                 *)
(* (ext2_readdir, ext2_read_inode, ext2_get_block_number, ata_read_block,  *)
(* elf_load_segment, elf_load_program).                                    *)
(***************************************************************************)
NoBlockLost ==
  \A r \in Loaders :
    LET l == rd[r]
    IN  DOMAIN l.mem = l.kept \cup
          ({l.req, l.buf, l.bg, l.ib, l.child, l.priv, l.dirbuf, l.probe, l.vsb,
            l.drv, l.f, l.temp, l.bounce, l.dst} \ {NULL})

(***************************************************************************)
(* A load that was started returns, whatever other threads load and        *)
(* whichever allocation fails, unless the disk is asked to read to NULL    *)
(* and so never serves another request                                     *)
(* (ata_read_block, ISR_ata_handler, ext2_readdir, elf_load_segments).     *)
(***************************************************************************)
LoadReturns ==
  \A r \in Loaders : ld[r].name # "" ~> At(r, "loaded") \/ DiskStuck
=============================================================================
