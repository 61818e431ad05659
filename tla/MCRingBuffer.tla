----------------------------- MODULE MCRingBuffer -----------------------------
(* RingBuffer instantiated for TLC: a buffer of four slots, two bytes.      *)
EXTENDS RingBuffer

CONSTANTS d1, d2

MCThreads == {User}
MCMutexes == {mutex}
MCData == {d1, d2}
==============================================================================
