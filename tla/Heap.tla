-------------------------------- MODULE Heap --------------------------------
(***************************************************************************)
(* What the clients of kmalloc and kfree (src/include/kernel/kmalloc.h)    *)
(* rely on: a block that is handed out shares no byte with a block in use, *)
(* and it stays in use, where it is, until it is freed itself.  A call     *)
(* that fails changes nothing.                                             *)
(***************************************************************************)
EXTENDS Integers

VARIABLE blocks      \* the blocks in use: [first, length]

Apart(b, d) == b.first + b.length <= d.first \/ d.first + d.length <= b.first

Init == blocks = {}

Alloc ==
  \E b \in blocks' \ blocks :
    /\ blocks' = blocks \cup {b}
    /\ \A d \in blocks : Apart(b, d)

Free == \E b \in blocks : blocks' = blocks \ {b}

Next == Alloc \/ Free

Spec == Init /\ [][Next]_blocks
=============================================================================
