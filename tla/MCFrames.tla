------------------------------ MODULE MCFrames ------------------------------
(* Small instances of Frames.                                              *)
EXTENDS Frames, TLC

CONSTANTS p, q, t, u, w

\* Two processes with one thread each.
TwoOwners == (t :> p) @@ (u :> q)

\* A process with two threads and one with one.
ThreeOwners == (t :> p) @@ (u :> p) @@ (w :> q)

\* After a race the free list may run through frames in use, whose contents
\* are arbitrary: nothing is claimed of such states, and none is followed.
NotRaced == ~raced

\* Memory with a hole, in two regions.  Frame 0 became a page table of the
\* kernel's heap before there was a process.
Regions ==
  <<[addr |-> 1, size |-> 2, valid |-> TRUE],
    [addr |-> 0, size |-> 0, valid |-> FALSE],
    [addr |-> 4, size |-> 2, valid |-> TRUE]>>

\* Memory for more than two threads can use.
LargeRegion == <<[addr |-> 1, size |-> 6, valid |-> TRUE]>>

\* The threads of one process are interchangeable.
Siblings == Permutations({t, u})
=============================================================================
