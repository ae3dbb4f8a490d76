-------------------------------- MODULE Ext2 --------------------------------
(***************************************************************************)
(* The ext2 file system (src/kernel/ext2.c) on a partition of the disk     *)
(* (mbr.c, block_dev.c): mounting, inodes, directories, the map from a     *)
(* file's blocks to the disk's through up to three levels of indirect      *)
(* blocks, and open, seek, read and close.                                 *)
(*                                                                         *)
(* A thread sleeps for each sector while the disk (the subject of module   *)
(* Ata) serves the requests in order.  Calls of one thread nest, so its    *)
(* locals hold a stack of return points.  kmalloc gives a thread a block   *)
(* that is nobody else's (module Heap), or NULL.                           *)
(*                                                                         *)
(* What matters of a buffer is which sector each part of it was read from; *)
(* a byte is named by the block and the offset it was read from.           *)
(***************************************************************************)
EXTENDS Integers, FiniteSets, SequencesExt

CONSTANTS
  Loaders,           \* threads that use files
  Boot,              \* the one that mounts the file system (ata_test_thread)
  MaxFailures,       \* bound: how many allocations of each thread fail
  Partitions,        \* the partition table: [type, lba_start]
  EXT2_TYPE,
  SectorSize, block_size,
  PtrSize, GroupSize, InodeSize,  \* of a block number, a descriptor, an inode
  inodes_per_group,
  GroupBlocks,       \* the blocks of group descriptors
  Direct,            \* the direct blocks of an inode (12)
  MinRecLen, RecAlign,  \* what a directory entry's length must satisfy (8, 4)
  Pointers,          \* Pointers[b]: the block numbers in indirect block b, and
                     \* the inode tables in a block of group descriptors
  InodeTable,        \* InodeTable[b]: the inodes in block b of an inode table,
                     \* [size, dir, block] with Direct + 3 block numbers
  Directory,         \* Directory[b][o]: the entry at offset o of a directory's
                     \* block, [inode, name, rec_len]
  \* bounds: what memory is taken to hold that was never read
  GarbagePointers, GarbageInodes, GarbageEntries

sect_per_blk == block_size \div SectorSize

ASSUME Ext2Assumption ==
  /\ Boot \in Loaders
  /\ \A n \in {PtrSize, GroupSize, InodeSize, SectorSize} : block_size % n = 0
  /\ \E i \in DOMAIN Partitions : Partitions[i].type = EXT2_TYPE

EXT2_ROOT_INODE == 2
NULL == 0
None == [size |-> 0, dir |-> FALSE, block |-> <<>>]

\* The partitions, as blk_register has linked them: the last one first.
dev_list == Reverse(SelectSeq(Partitions, LAMBDA part : part.type # 0))

\* blk_find_partiton_fstype
part_dev ==
  dev_list[CHOOSE i \in DOMAIN dev_list :
             /\ dev_list[i].type = EXT2_TYPE
             /\ \A j \in 1..(i - 1) : dev_list[j].type # EXT2_TYPE]

VARIABLES
  rd,      \* the locals and the blocks of each thread
  queue,   \* the threads whose requests are in the disk's queue
  root     \* the root inode, once the file system is mounted

Locals ==
  [pc |-> "idle", stack |-> <<>>,
   failures |-> 0,    \* how many of the thread's allocations have failed
   mem |-> <<>>,      \* the blocks that the thread got, and what they hold
   kept |-> {},       \* those that no local points to any more
   val |-> 0,         \* what the last call returned
   sect |-> 0, end |-> 0, part |-> 0, dst |-> NULL, req |-> NULL,
   node |-> None, path |-> <<>>, buf |-> NULL,     \* ext2_get_block_number
   ino |-> 0, bg |-> NULL, ib |-> NULL,            \* ext2_read_inode
   child |-> NULL, priv |-> NULL, raw |-> None,    \* the inode it returns
   target |-> "", blk |-> 0, off |-> 0, dirbuf |-> NULL, name |-> "",
   rec_len |-> 0,                                  \* ext2_readdir
   probe |-> NULL, vsb |-> NULL, drv |-> NULL,     \* ext2_probe
   f |-> NULL, offset |-> 0, len |-> 0, temp |-> NULL,
   out |-> <<>>,                                   \* the open file
   bounce |-> NULL]                                \* its reader's buffer

-----------------------------------------------------------------------------
(* Calls, and the heap as a thread sees it.                                *)

Call(l, point, back) == [l EXCEPT !.pc = point, !.stack = <<back>> \o @]

Return(l) == [l EXCEPT !.pc = Head(l.stack), !.stack = Tail(@)]

\* Whether an allocation succeeds.  At boot there is memory.
Outcomes(r) ==
  IF root # None /\ rd[r].failures < MaxFailures[r] THEN BOOLEAN ELSE {TRUE}

Unread == <<-1, -1>>

Fresh(l) == CHOOSE a \in 1..(Cardinality(DOMAIN l.mem) + 1) : a \notin DOMAIN l.mem

\* x = kmalloc(...)
kmalloc(l, x, ok) ==
  IF ok THEN [l EXCEPT ![x] = Fresh(l), !.mem = (Fresh(l) :> Unread) @@ @]
  ELSE [l EXCEPT ![x] = NULL, !.failures = @ + 1]

\* kfree(x), after which x is not used any more.
kfree(l, x) ==
  [l EXCEPT ![x] = NULL, !.mem = [a \in DOMAIN @ \ {l[x]} |-> @[a]]]

\* The sector from which part n of the buffer at a was read, or -1.
SectorAt(l, a, n) == IF a = NULL THEN -1 ELSE l.mem[a][n + 1]

\* The block of the file system that a sector of the disk belongs to.
BlockOfSector(s) == (s - part_dev.lba_start) \div sect_per_blk

\* What may be found at index i of the buffer at a, if the blocks in table hold
\* such items, size bytes each and the first one at index base.
Items(l, table, a, i, size, base, garbage) ==
  LET s == SectorAt(l, a, (i * size) \div SectorSize)
  IN  IF s # -1 /\ BlockOfSector(s) \in DOMAIN table
           /\ i + base \in DOMAIN table[BlockOfSector(s)]
      THEN {table[BlockOfSector(s)][i + base]}
      ELSE garbage

At(r, point) == rd[r].pc = point

Go(r, l) == rd' = [rd EXCEPT ![r] = l] /\ UNCHANGED <<queue, root>>

-----------------------------------------------------------------------------
(* ext2_read_block, sector by sector; its callers do not learn of errors.  *)

\* The n sectors from first on are read to the block at a.
read_sectors(l, first, n, a, back) ==
  Call([l EXCEPT !.sect = first, !.end = first + n, !.part = 0, !.dst = a],
       "sector", back)

ext2_read_block(l, block_num, a, back) ==
  read_sectors(l, block_num * sect_per_blk, sect_per_blk, a, back)

\* partition_read_block
real_blk(blk_num) == blk_num + part_dev.lba_start

NextSector(l) ==
  IF l.sect + 1 < l.end
  THEN [l EXCEPT !.pc = "sector", !.sect = @ + 1, !.part = @ + 1]
  ELSE Return([l EXCEPT !.sect = 0, !.end = 0, !.part = 0, !.dst = NULL])

\* ata_read_block up to its wait.
SectorStart(r) ==
  /\ At(r, "sector")
  /\ \/ /\ queue' = Append(queue, r)
        /\ rd' = [rd EXCEPT ![r] = [kmalloc(@, "req", TRUE) EXCEPT !.pc = "reading"]]
     \/ /\ FALSE \in Outcomes(r)
        /\ rd' = [rd EXCEPT ![r] = NextSector(kmalloc(@, "req", FALSE))]
        /\ UNCHANGED queue
  /\ UNCHANGED root

\* The interrupt handler serves the first request, unless its buffer is NULL.
SectorRead ==
  /\ queue # <<>>
  /\ LET r == Head(queue)
         l == rd[r]
     IN  /\ l.dst # NULL \/ l.part # 0
         /\ rd' = [rd EXCEPT ![r] =
              IF l.dst = NULL THEN [l EXCEPT !.pc = "sector_done"]
              ELSE [l EXCEPT !.pc = "sector_done",
                             !.mem[l.dst][l.part + 1] = real_blk(l.sect)]]
  /\ queue' = Tail(queue)
  /\ UNCHANGED root

SectorDone(r) ==
  /\ At(r, "sector_done")
  /\ Go(r, NextSector(kfree(rd[r], "req")))

-----------------------------------------------------------------------------
(* ext2_get_block_number.                                                  *)

ptrs == block_size \div PtrSize

\* Faulty: the indices of a doubly indirect block are exchanged.
IndicesSwapped(logic_blk) ==
  LET rest == logic_blk - Direct
      rest2 == rest - ptrs
  IN  IF logic_blk < Direct THEN <<logic_blk>>
      ELSE IF rest < ptrs THEN <<Direct, rest>>
      ELSE <<Direct + 1, rest2 % ptrs, rest2 \div ptrs>>

\* The entry of the inode to start from and the indices on the way down.  The
\* doubly indirect blocks are not subtracted from a triply indirect one.
Indices(logic_blk) ==
  LET rest == logic_blk - Direct
      rest2 == rest - ptrs
      rem == rest2 % (ptrs * ptrs)
  IN  IF logic_blk < Direct THEN <<logic_blk>>
      ELSE IF rest < ptrs THEN <<Direct, rest>>
      ELSE IF rest2 < ptrs * ptrs
      THEN <<Direct + 1, rest2 \div ptrs, rest2 % ptrs>>
      ELSE <<Direct + 2, rest2 \div (ptrs * ptrs), rem \div ptrs, rem % ptrs>>

ext2_get_block_number(l, node, logic_blk, back) ==
  Call([l EXCEPT !.node = node, !.path = Indices(logic_blk)], "map", back)

\* Faulty: the buffer is kept.
BlockFoundKept(l, b) ==
  Return([l EXCEPT !.val = b, !.node = None, !.path = <<>>, !.buf = NULL])

BlockFound(l, b) ==
  Return([kfree(l, "buf") EXCEPT !.val = b, !.node = None, !.path = <<>>])

\* The entry of the inode.  An inode without its raw data has arbitrary ones.
MapInode(r) ==
  LET l == rd[r]
  IN  /\ At(r, "map")
      /\ \E b \in IF l.node.block = <<>> THEN GarbagePointers
                  ELSE {l.node.block[Head(l.path) + 1]} :
           IF Len(l.path) = 1 \/ b = 0 THEN Go(r, BlockFound(l, b))
           ELSE \E ok \in Outcomes(r) :
                  LET n == kmalloc([l EXCEPT !.path = Tail(@)], "buf", ok)
                  IN  Go(r, ext2_read_block(n, b, n.buf, "mapped"))

\* The entry of an indirect block.
MapIndirect(r) ==
  LET l == rd[r]
  IN  /\ At(r, "mapped")
      /\ \E b \in Items(l, Pointers, l.buf, Head(l.path), PtrSize, 1,
                        GarbagePointers) :
           IF Len(l.path) = 1 \/ b = 0 THEN Go(r, BlockFound(l, b))
           ELSE Go(r, ext2_read_block([l EXCEPT !.path = Tail(@)], b, l.buf,
                                      "mapped"))

-----------------------------------------------------------------------------
(* ext2_read_inode.                                                        *)

block_start == IF block_size = 2 * SectorSize THEN 2 ELSE 1
descriptors_per_block == block_size \div GroupSize
inodes_per_block == block_size \div InodeSize

group(inode_num) == (inode_num - 1) \div inodes_per_group
group_index(inode_num) == (inode_num - 1) % inodes_per_group

ext2_read_inode(l, inode_num, back) ==
  Call([l EXCEPT !.ino = inode_num], "inode", back)

ReadGroup(r) ==
  LET l == rd[r]
  IN  /\ At(r, "inode")
      /\ \E ok \in Outcomes(r) :
           LET n == kmalloc(l, "bg", ok)
           IN  Go(r, ext2_read_block(n,
                       block_start + group(l.ino) \div descriptors_per_block,
                       n.bg, "inode_group"))

ReadTable(r) ==
  LET l == rd[r]
  IN  /\ At(r, "inode_group")
      /\ \E inode_table \in Items(l, Pointers, l.bg,
                                group(l.ino) % descriptors_per_block,
                                GroupSize, 1, GarbagePointers),
           ok \in Outcomes(r) :
           LET n == kmalloc(l, "ib", ok)
           IN  Go(r, ext2_read_block(n,
                       inode_table + group_index(l.ino) \div inodes_per_block,
                       n.ib, "inode_table"))

\* Without memory for the inode, its raw data is lost; without memory for the
\* raw data, the inode has none.
MakeInode(r) ==
  LET l == rd[r]
  IN  /\ At(r, "inode_table")
      /\ \E raw_node \in Items(l, InodeTable, l.ib,
                             group_index(l.ino) % inodes_per_block,
                             InodeSize, 1, GarbageInodes),
           ok1, ok2 \in Outcomes(r) :
           LET n == kmalloc(kmalloc(l, "child", ok1), "priv", ok2)
               made == IF n.child = NULL
                       THEN [n EXCEPT !.kept = @ \cup ({n.priv} \ {NULL}),
                                      !.priv = NULL]
                       ELSE [n EXCEPT !.raw = IF n.priv = NULL
                                             THEN [raw_node EXCEPT !.block = <<>>]
                                             ELSE raw_node]
           IN  /\ n.failures <= MaxFailures[r]
               /\ Go(r, Return([kfree(kfree(made, "bg"), "ib") EXCEPT !.ino = 0]))

-----------------------------------------------------------------------------
(* ext2_readdir on the root, with a callback that looks for a name         *)
(* (find_file_cb of elf64.c).                                              *)

total_blocks(node) == (node.size + block_size - 1) \div block_size

block_bytes(l) == Min({root.size - l.blk * block_size, block_size})

DirNextBlock(l) == [l EXCEPT !.pc = "dir_block", !.blk = @ + 1, !.off = 0]

DirDone(l) == Return([kfree(l, "dirbuf") EXCEPT !.blk = 0, !.off = 0,
                                                !.name = "", !.rec_len = 0])

DirOpen(r) ==
  /\ At(r, "dir")
  /\ IF ~root.dir THEN Go(r, Return(rd[r]))
     ELSE \E ok \in Outcomes(r) :
            Go(r, [kmalloc(rd[r], "dirbuf", ok) EXCEPT !.pc = "dir_block"])

DirBlock(r) ==
  LET l == rd[r]
  IN  /\ At(r, "dir_block")
      /\ IF l.blk < total_blocks(root)
         THEN Go(r, ext2_get_block_number(l, root, l.blk, "dir_mapped"))
         ELSE Go(r, DirDone(l))

DirMapped(r) ==
  LET l == rd[r]
  IN  /\ At(r, "dir_mapped")
      /\ IF l.val = 0 THEN Go(r, DirNextBlock(l))
         ELSE Go(r, ext2_read_block(l, l.val, l.dirbuf, "dir_walk"))

\* Faulty: a record may be empty.
ValidRecordEmpty(l, dentry) ==
  /\ dentry.rec_len % RecAlign = 0
  /\ l.off + dentry.rec_len <= block_bytes(l)

ValidRecord(l, dentry) ==
  /\ dentry.rec_len >= MinRecLen
  /\ dentry.rec_len % RecAlign = 0
  /\ l.off + dentry.rec_len <= block_bytes(l)

\* A record with an impossible length ends the walk through its block.
DirWalk(r) ==
  LET l == rd[r]
  IN  /\ At(r, "dir_walk")
      /\ \/ /\ l.off >= block_bytes(l)
            /\ Go(r, DirNextBlock(l))
         \/ /\ l.off < block_bytes(l)
            /\ \E dentry \in Items(l, Directory, l.dirbuf, l.off, 1, 0,
                                  GarbageEntries) :
                 IF ~ValidRecord(l, dentry) THEN Go(r, DirNextBlock(l))
                 ELSE IF dentry.inode = 0
                 THEN Go(r, [l EXCEPT !.off = @ + dentry.rec_len])
                 ELSE Go(r, ext2_read_inode(
                              [l EXCEPT !.name = dentry.name,
                                        !.rec_len = dentry.rec_len],
                              dentry.inode, "dir_child"))

DirChild(r) ==
  LET l == rd[r]
  IN  /\ At(r, "dir_child")
      /\ IF l.child # NULL /\ l.name = l.target THEN Go(r, DirDone(l))
         ELSE Go(r, [kfree(kfree(l, "priv"), "child")
                       EXCEPT !.pc = "dir_walk", !.raw = None,
                              !.off = @ + l.rec_len])

-----------------------------------------------------------------------------
(* The open file: ext2_open, ext2_file_lseek, ext2_file_read and           *)
(* ext2_file_close.                                                        *)

ext2_open(l, ok) == [kmalloc(l, "f", ok) EXCEPT !.offset = 0]

ext2_file_lseek(l, o) == IF o > l.raw.size THEN l ELSE [l EXCEPT !.offset = o]

ext2_file_close(l) == [kfree(l, "f") EXCEPT !.offset = 0]

ext2_file_read(l, n, back) ==
  Call([l EXCEPT !.len = n, !.out = <<>>], "read", back)

FileRead(r) ==
  LET l == rd[r]
  IN  /\ At(r, "read")
      /\ IF l.offset >= l.raw.size
         THEN Go(r, Return([l EXCEPT !.val = 0, !.len = 0]))
         ELSE \E ok \in Outcomes(r) :
                Go(r, [kmalloc(l, "temp", ok) EXCEPT
                         !.pc = "read_loop",
                         !.len = Min({@, l.raw.size - l.offset})])

block_offset(l) == l.offset % block_size

to_read(l) == Min({l.len, block_size - block_offset(l)})

FileBlock(r) ==
  LET l == rd[r]
  IN  /\ At(r, "read_loop")
      /\ IF l.len = 0
         THEN Go(r, Return([kfree(l, "temp") EXCEPT !.val = Len(l.out)]))
         ELSE Go(r, ext2_get_block_number(l, l.raw, l.offset \div block_size,
                                          "read_mapped"))

\* The byte at offset o of the buffer at a: its place in the file system.
Junk == -1
ByteAt(l, a, o) ==
  LET s == SectorAt(l, a, o \div SectorSize)
  IN  IF s = -1 THEN Junk
      ELSE (s - part_dev.lba_start) * SectorSize + (o % SectorSize)

Copied(l, bytes) ==
  [l EXCEPT !.pc = "read_loop", !.out = @ \o bytes,
            !.offset = @ + to_read(l), !.len = @ - to_read(l)]

FileMapped(r) ==
  LET l == rd[r]
  IN  /\ At(r, "read_mapped")
      /\ IF l.val = 0 THEN Go(r, Copied(l, [i \in 1..to_read(l) |-> 0]))
         ELSE Go(r, ext2_read_block(l, l.val, l.temp, "read_copy"))

FileCopy(r) ==
  LET l == rd[r]
  IN  /\ At(r, "read_copy")
      /\ Go(r, Copied(l, [i \in 1..to_read(l) |->
                           ByteAt(l, l.temp, block_offset(l) + i - 1)]))

-----------------------------------------------------------------------------
(* ext2_probe, from ata_test_thread.                                       *)

Probe ==
  LET n == kmalloc(rd[Boot], "probe", TRUE)
  IN  /\ At(Boot, "probe")
      /\ Go(Boot, read_sectors(n, 2, 2, n.probe, "probe_magic"))

\* The signature is there if the two sectors are those of the superblock.
ProbeMagic ==
  LET l == rd[Boot]
      n == kmalloc(kmalloc(l, "vsb", TRUE), "drv", TRUE)
  IN  /\ At(Boot, "probe_magic")
      /\ IF l.mem[l.probe] = <<real_blk(2), real_blk(3)>>
         THEN Go(Boot, ext2_read_inode(n, EXT2_ROOT_INODE, "probe_root"))
         ELSE Go(Boot, [kfree(l, "probe") EXCEPT !.pc = "no_fs"])

\* The superblock, the driver's data and the root inode stay allocated.
ProbeRoot ==
  LET l == rd[Boot]
  IN  /\ At(Boot, "probe_root")
      /\ root' = l.raw
      /\ rd' = [rd EXCEPT ![Boot] =
                  [kfree(l, "probe") EXCEPT
                     !.pc = "idle", !.raw = None,
                     !.kept = @ \cup {l.vsb, l.drv, l.child, l.priv},
                     !.vsb = NULL, !.drv = NULL, !.child = NULL, !.priv = NULL]]
      /\ UNCHANGED queue

Ext2Init ==
  /\ rd = [r \in Loaders |->
             IF r = Boot THEN [Locals EXCEPT !.pc = "probe"] ELSE Locals]
  /\ queue = <<>>
  /\ root = None

Ext2Step(r) ==
  \/ SectorStart(r) \/ SectorDone(r)
  \/ MapInode(r) \/ MapIndirect(r)
  \/ ReadGroup(r) \/ ReadTable(r) \/ MakeInode(r)
  \/ DirOpen(r) \/ DirBlock(r) \/ DirMapped(r) \/ DirWalk(r) \/ DirChild(r)
  \/ FileRead(r) \/ FileBlock(r) \/ FileMapped(r) \/ FileCopy(r)

Ext2Boot == Probe \/ ProbeMagic \/ ProbeRoot

-----------------------------------------------------------------------------
(* What is on the disk, by definitions that do not walk through it.        *)

\* The blocks that the blocks in bs point to; a hole stands for holes.
Below(bs) ==
  FlattenSeq([i \in DOMAIN bs |-> IF bs[i] = 0 THEN [j \in 1..ptrs |-> 0]
                                  ELSE Pointers[bs[i]]])

BlocksOf(node) ==
  LET top == [i \in 1..3 |-> <<node.block[Direct + i]>>]
  IN  SubSeq(node.block, 1, Direct) \o Below(top[1]) \o Below(Below(top[2]))
        \o Below(Below(Below(top[3])))

FileByte(node, o) ==
  LET b == BlocksOf(node)[o \div block_size + 1]
  IN  IF b = 0 THEN 0 ELSE b * block_size + (o % block_size)

FileBytes(node, o, n) == [i \in 1..n |-> FileByte(node, o + i - 1)]

\* All inodes, in the order of their numbers.
Inodes ==
  LET blocks == inodes_per_group \div inodes_per_block
      starts == FlattenSeq([i \in 1..GroupBlocks |-> Pointers[block_start + i - 1]])
      table(start) == FlattenSeq([i \in 1..blocks |-> InodeTable[start + i - 1]])
  IN  FlattenSeq([g \in DOMAIN starts |->
                    IF starts[g] = 0 THEN <<>> ELSE table(starts[g])])

\* The inodes that have the name in the root directory.
Named(name) ==
  LET dir == Inodes[EXT2_ROOT_INODE]
      blocks == {BlocksOf(dir)[i] : i \in 1..total_blocks(dir)} \ {0}
  IN  {Inodes[d.inode] : d \in
         {e \in UNION {Range(Directory[b]) : b \in blocks} :
            e.name = name /\ e.inode # 0}}
=============================================================================
