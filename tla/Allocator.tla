------------------------------- MODULE Allocator -------------------------------
(***************************************************************************)
(* What kmalloc and kfree (kernel/memoryManager.cpp) and the page          *)
(* allocator of the PC (arch/i386/pc/pmm.cpp) promise: memory that was     *)
(* given out and not freed stays the client's alone.                       *)
(***************************************************************************)
EXTENDS Naturals

CONSTANTS Heap,        \* the addresses of the heap
          Requests     \* the sizes clients ask for

VARIABLE live          \* the size of each block in use, by its address

\* The bytes of a block of n bytes at address a.
Bytes(a, n) == a .. a + n - 1

AInit == live = [a \in {} |-> 0]

\* A client gets a block inside the heap that overlaps none in use.
Alloc(a, n) ==
  /\ Bytes(a, n) \subseteq Heap
  /\ \A b \in DOMAIN live : Bytes(a, n) \cap Bytes(b, live[b]) = {}
  /\ live' = [b \in DOMAIN live \cup {a} |-> IF b = a THEN n ELSE live[b]]

\* A client gives a block back.
Free(a) ==
  /\ a \in DOMAIN live
  /\ live' = [b \in DOMAIN live \ {a} |-> live[b]]

ANext == \E a \in Heap : Free(a) \/ \E n \in Requests : Alloc(a, n)

ASpec == AInit /\ [][ANext]_live
==============================================================================
