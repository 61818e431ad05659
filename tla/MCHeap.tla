-------------------------------- MODULE MCHeap --------------------------------
(* Heap instantiated for TLC: two threads that allocate blocks of 32 and 48 *)
(* bytes in 112 of heap.                                                    *)
EXTENDS Heap

CONSTANTS t1, t2

MCThreads == {t1, t2}
MCRequests == {0, 1, 32}
==============================================================================
