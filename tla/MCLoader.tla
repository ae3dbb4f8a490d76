------------------------------ MODULE MCLoader ------------------------------
(* A small disk for Loader: blocks of two bytes, sectors of one; a block   *)
(* holds two block numbers, descriptors, inodes or directory entries.      *)
EXTENDS Loader

CONSTANTS boot, r1, r2

Table ==
  <<[type |-> 7, lba_start |-> 1], [type |-> 131, lba_start |-> 5],
    [type |-> 0, lba_start |-> 0], [type |-> 130, lba_start |-> 9]>>

\* Blocks 2 and 3 hold the group descriptors, the others are indirect blocks.
TheDisk ==
  (2 :> <<10, 12>>) @@ (3 :> <<14, 0>>)
    @@ (21 :> <<0, 22>>) @@ (24 :> <<25, 0>>) @@ (25 :> <<23, 26>>)
    @@ (31 :> <<32, 33>>) @@ (34 :> <<35, 0>>) @@ (35 :> <<36, 37>>)
    @@ (41 :> <<42, 0>>) @@ (47 :> <<48, 0>>) @@ (51 :> <<52, 0>>) @@ (55 :> <<56, 0>>)

File(size, blocks) == [size |-> size, dir |-> FALSE, block |-> blocks]

TheInodes ==
  (10 :> <<None, [size |-> 9, dir |-> TRUE, block |-> <<20, 21, 24, 0>>]>>)
    @@ (11 :> <<None, None>>)
    @@ (12 :> <<File(10, <<30, 31, 34, 0>>), File(3, <<54, 55, 0, 0>>)>>) \* init, stack
    @@ (13 :> <<File(4, <<46, 47, 0, 0>>), File(2, <<44, 0, 0, 0>>)>>) \* short, text
    @@ (14 :> <<File(4, <<50, 51, 0, 0>>), None>>)               \* clash
    @@ (15 :> <<File(6, <<40, 41, 0, 0>>), None>>)               \* echo

Entry(inode, name, rec_len) == [inode |-> inode, name |-> name, rec_len |-> rec_len]

\* The second block of the directory is a hole, and its last block is cut short.
TheDirectory ==
  (20 :> ((0 :> Entry(9, "clash", 1)) @@ (1 :> Entry(5, "init", 1))))
    @@ (22 :> ((0 :> Entry(0, "echo", 1)) @@ (1 :> Entry(11, "echo", 1))))
    @@ (23 :> ((0 :> Entry(8, "text", 1)) @@ (1 :> Entry(7, "short", 1))))
    @@ (26 :> (0 :> Entry(6, "stack", 1)))

Header(bytes, num) ==
  [bytes |-> bytes, magic |-> TRUE, prog_table_pos |-> 2, prog_ent_size |-> 1,
   prog_ent_num |-> num]

TheHeaders ==
  {Header(<<60, 61>>, 2), Header(<<80, 81>>, 2), Header(<<92, 93>>, 1),
   Header(<<100, 101>>, 2), Header(<<108, 109>>, 1)}

Segment(byte, file_offset, file_size, load_addr, mem_size) ==
  [bytes |-> <<byte>>, load |-> TRUE, file_offset |-> file_offset,
   load_addr |-> load_addr, file_size |-> file_size, mem_size |-> mem_size]

\* init has a segment over three pages that starts within a page and a block;
\* echo one that is a hole of the file and one without bytes of the file; of
\* short the end is missing; those of clash share a page, and that of
\* stack has a page of the stack.
TheSegments ==
  {Segment(64, 7, 3, 5, 4), [NoProg EXCEPT !.bytes = <<65>>],
   Segment(84, 4, 2, 4, 2), Segment(85, 0, 0, 8, 3),
   Segment(96, 3, 2, 4, 2),
   Segment(104, 0, 0, 4, 1), Segment(105, 0, 0, 5, 1), Segment(112, 0, 0, 13, 1)}

AllRequests ==
  (boot :> {"init", "echo", "text", "short", "clash", "stack", "none"})
    @@ (r1 :> {"init"}) @@ (r2 :> {"echo"})

Failures == (boot :> 2) @@ (r1 :> 0) @@ (r2 :> 0)

SomeInodes == {[size |-> 0, dir |-> TRUE, block |-> <<>>],
               [size |-> 3, dir |-> FALSE, block |-> <<30, 0, 0, 0>>]}

SomeEntries == {Entry(5, "init", 1), Entry(9, "clash", 0), Entry(0, "", 2)}
=============================================================================
