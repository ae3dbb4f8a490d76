---------------------------- MODULE MCKernelHeap ----------------------------
(* Two pools, of two and of four blocks to a page of eight bytes.          *)
EXTENDS KernelHeap

PoolSizes == <<2, 4>>
=============================================================================
