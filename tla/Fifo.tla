--------------------------------- MODULE Fifo ---------------------------------
(* What a CRingBuffer (kernel/ringBuffer.cpp) is to its two users: a queue *)
(* of bytes of limited length.                                             *)
EXTENDS Naturals, Sequences

CONSTANTS Data,       \* the bytes
          Capacity    \* how many fit

VARIABLE queue        \* the bytes that are in, the oldest first

QInit == queue = << >>

Put(x) == Len(queue) < Capacity /\ queue' = Append(queue, x)

Get == queue # << >> /\ queue' = Tail(queue)

QNext == Get \/ \E x \in Data : Put(x)

QSpec == QInit /\ [][QNext]_queue
==============================================================================
