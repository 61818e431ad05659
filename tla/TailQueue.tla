------------------------------ MODULE TailQueue ------------------------------
(***************************************************************************)
(* The queue operations of kernel/include/kernel/queue.h (the BSD TAILQ    *)
(* macros) as the kernel uses them, on sequences of queue elements.  A     *)
(* TAILQ_INSERT_TAIL is Append and a TAILQ_FIRST is Head; the operators    *)
(* below are the two operations that sequences do not have: unlinking      *)
(* elements from the middle and inserting into a sorted queue.             *)
(*                                                                         *)
(* Keep is written with a recursive function and a set, not with           *)
(* SelectSeq and a predicate, because TailQueueProofs reasons about it.    *)
(***************************************************************************)
EXTENDS Integers, Sequences, Functions

\* The subsequence of q made of its elements in S, in the order of q: what a
\* TAILQ_FOREACH that only acts on the elements of S meets.
Keep(q, S) ==
  LET kept[i \in 0 .. Len(q)] ==
        IF i = 0 THEN << >>
        ELSE IF q[i] \in S THEN Append(kept[i-1], q[i])
        ELSE kept[i-1]
  IN  kept[Len(q)]

\* q after a TAILQ_REMOVE of every element of S it holds.
Unlink(q, S) == Keep(q, Range(q) \ S)

\* The place a TAILQ_FOREACH / TAILQ_INSERT_BEFORE loop finds for an element
\* with key k: before the first element whose key is greater, else the end.
SlotFor(q, key, k) ==
  CHOOSE p \in 1 .. Len(q) + 1 :
    /\ \A i \in 1 .. p - 1 : key[q[i]] <= k
    /\ p <= Len(q) => k < key[q[p]]

\* q with e inserted at position p (TAILQ_INSERT_BEFORE the p-th element).
InsertBefore(q, p, e) ==
  [i \in 1 .. Len(q) + 1 |->
     IF i < p THEN q[i] ELSE IF i = p THEN e ELSE q[i-1]]

\* Wrong: TAILQ_INSERT_HEAD.
InsertSortedHead(q, key, e) == <<e>> \o q

\* Wrong: TAILQ_INSERT_TAIL.
InsertSortedTail(q, key, e) == Append(q, e)

\* The sorted insertion of CThread::state, behind the elements with equal keys.
InsertSorted(q, key, e) == InsertBefore(q, SlotFor(q, key, key[e]), e)

\* q is in ascending order of the keys.
Sorted(q, key) ==
  \A i, j \in DOMAIN q : i < j => key[q[i]] <= key[q[j]]
==============================================================================
