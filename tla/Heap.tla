--------------------------------- MODULE Heap ---------------------------------
(***************************************************************************)
(* The kernel heap of kernel/memoryManager.cpp: a chain of blocks that     *)
(* kmalloc searches first-fit and extends with sbrk, and that kfree only   *)
(* marks.  Neither turns interrupts off or takes a lock, so threads are    *)
(* preempted anywhere inside kmalloc; kfree is one store.                  *)
(*                                                                         *)
(* An action of kmalloc reads or stores one of the variables that calls    *)
(* share; for x += n a build may read x anew or use what it read before.   *)
(* The reads of a round of the search are taken together: the last valid   *)
(* address only grows and a block keeps its size, so nothing but           *)
(* is_available can change between them.  Pointers do not wrap.            *)
(*                                                                         *)
(* Nothing keeps two calls from finding the same block or extending the    *)
(* chain at once.  clashed records the moment one undoes the work of       *)
(* another, with which the behaviours of this module end.                  *)
(***************************************************************************)
EXTENDS Integers

CONSTANTS Threads,
          Requests,             \* the sizes clients ask kmalloc for
          HeapStart, HeapEnd    \* heap.pStart and heap.pEnd, set by init_heap

ASSUME HeapAssumption ==
  /\ Requests \subseteq Nat
  /\ HeapStart \in Nat \ {0} /\ HeapEnd \in Nat /\ HeapStart <= HeapEnd

VARIABLES initialized,  \* has_initialized
          current,      \* heap.pCurrent
          last,         \* last_valid_address; managed_memory_start = HeapStart
          block,        \* the mem_control_block at each address that has one
          call,         \* the kmalloc each thread is in
          live,         \* clients' view: the size of each block they use
          clashed       \* (history) two calls have clashed

vars == <<initialized, current, last, block, call, live, clashed>>

Places == {"client",     \* not in kmalloc
           "search",     \* in its while loop
           "found",      \* past the tests of an open block
           "more",       \* no block found: before sbrk
           "move",       \* in sbrk, past its test
           "attach",     \* sbrk has succeeded
           "extend",     \* last_valid_address read, not yet moved
           "header",     \* it is moved; the control block is not yet written
           "panic"}      \* in panic("Memory Error!")

\* request is the size asked for, size numbytes with the control block, at
\* current_location, then what sbrk's test read, then memory_location; fits
\* (history) is what could have served the call from its start and no other
\* call has taken.
Idle == [place |-> "client", request |-> 0, size |-> 0, at |-> 0, fits |-> {}]
At(t, p) == call[t].place = p
Running == ~clashed /\ \A t \in Threads : ~At(t, "panic")

\* A chain of blocks at the addresses in S.
Blocks(S) == [S -> [is_available : BOOLEAN, size : Nat \ {0}]]

\* sizeof(mem_control_block), rounded up to 128 bits.
mcbSize == 16

\* Wrong: sizes are not rounded up.
WholeBlockUnrounded(n) == n + mcbSize

\* numbytes after its rounding and the addition of mcbSize.
WholeBlock(n) == ((n + 15) \div 16) * 16 + mcbSize

\* The client's pointer into the block at address a.
Payload(a) == a + mcbSize

\* The blocks that can serve a call that needs size bytes.
Fitting(size) == {a \in DOMAIN block : block[a].is_available /\ size <= block[a].size}

\* The memory at address a is part of the chain, its control block yet to come.
Unwritten(a) == \E t \in Threads : At(t, "header") /\ call[t].at = a

\* Wrong: an exact fit is refused.
SuitableStrict(b, size) == b.is_available /\ size < b.size

\* The two tests kmalloc puts a block to.
Suitable(b, size) == b.is_available /\ size <= b.size

Init ==
  /\ initialized = FALSE
  /\ current = HeapStart /\ last = 0
  /\ block = [a \in {} |-> 0]
  /\ call = [t \in Threads |-> Idle]
  /\ live = [a \in {} |-> 0]
  /\ clashed = FALSE

\* kmalloc(n) up to its loop, with kmalloc_init in the first call, which
\* bricks_main's start-up makes before there are other threads.  kmalloc(0)
\* returns NULL and changes nothing.
Enter(t, n) ==
  /\ At(t, "client") /\ n # 0
  /\ initialized' = TRUE
  /\ last' = IF initialized THEN last ELSE current
  /\ call' = [call EXCEPT ![t] =
       [place |-> "search", request |-> n, size |-> WholeBlock(n), at |-> HeapStart,
        fits |-> Fitting(WholeBlock(n))]]
  /\ UNCHANGED <<current, block, live, clashed>>

\* One round of the loop that passes the tests.
Find(t) ==
  /\ At(t, "search") /\ call[t].at # last
  /\ Suitable(block[call[t].at], call[t].size)
  /\ call' = [call EXCEPT ![t].place = "found"]
  /\ UNCHANGED <<initialized, current, last, block, live, clashed>>

\* Wrong: the search steps over open blocks only.
SkipOpen(t) ==
  /\ At(t, "search") /\ call[t].at # last /\ ~Unwritten(call[t].at)
  /\ ~Suitable(block[call[t].at], call[t].size)
  /\ call' = [call EXCEPT ![t].at = IF block[@].is_available THEN @ + block[@].size ELSE @]
  /\ UNCHANGED <<initialized, current, last, block, live, clashed>>

\* One round of the loop that goes on to the next block.
Skip(t) ==
  /\ At(t, "search") /\ call[t].at # last /\ ~Unwritten(call[t].at)
  /\ ~Suitable(block[call[t].at], call[t].size)
  /\ call' = [call EXCEPT ![t].at = @ + block[@].size]
  /\ UNCHANGED <<initialized, current, last, block, live, clashed>>

\* A round that reads a control block another call has yet to write: what it
\* finds there is undefined.
Stray(t) ==
  /\ At(t, "search") /\ call[t].at # last /\ Unwritten(call[t].at)
  /\ clashed' = TRUE
  /\ UNCHANGED <<initialized, current, last, block, call, live>>

\* kmalloc returns the block at address a.
Return(t, a) ==
  /\ live' = [b \in DOMAIN live \cup {Payload(a)} |->
                IF b = Payload(a) THEN call[t].request ELSE live[b]]
  /\ call' = [u \in Threads |->
                IF u = t THEN Idle ELSE [call[u] EXCEPT !.fits = @ \ {a}]]

\* Wrong: the block that was found is not marked.
TakeUnmarked(t) ==
  /\ At(t, "found")
  /\ clashed' = ~block[call[t].at].is_available
  /\ Return(t, call[t].at)
  /\ UNCHANGED <<initialized, current, last, block>>

\* The block that was found becomes unavailable and is returned, also when
\* another call has taken it since.
Take(t) ==
  /\ At(t, "found")
  /\ clashed' = ~block[call[t].at].is_available
  /\ block' = [block EXCEPT ![call[t].at].is_available = FALSE]
  /\ Return(t, call[t].at)
  /\ UNCHANGED <<initialized, current, last>>

\* The loop ends without a block.
GiveUp(t) ==
  /\ At(t, "search") /\ call[t].at = last
  /\ call' = [call EXCEPT ![t].place = "more"]
  /\ UNCHANGED <<initialized, current, last, block, live, clashed>>

\* The test of sbrk(numbytes): there is memory left, or the kernel panics.
TestBreak(t) ==
  /\ At(t, "more")
  /\ call' = [call EXCEPT ![t] =
       IF current + call[t].size <= HeapEnd THEN [@ EXCEPT !.place = "move", !.at = current]
                                            ELSE [@ EXCEPT !.place = "panic"]]
  /\ UNCHANGED <<initialized, current, last, block, live, clashed>>

\* sbrk moves the program break.  A call that moved it in between is undone,
\* or the break passes the end of the heap.
MoveBreak(t) ==
  /\ At(t, "move")
  /\ \E read \in {call[t].at, current} :
       /\ current' = read + call[t].size
       /\ clashed' = (read # current \/ current' > HeapEnd)
  /\ call' = [call EXCEPT ![t].place = "attach"]
  /\ UNCHANGED <<initialized, last, block, live>>

\* The new memory will be where the last valid address is.
Extend(t) ==
  /\ At(t, "attach")
  /\ call' = [call EXCEPT ![t].place = "extend", ![t].at = last]
  /\ UNCHANGED <<initialized, current, last, block, live, clashed>>

\* The chain with a block of s bytes, in use, at address a.
WithBlock(a, s) ==
  [b \in DOMAIN block \cup {a} |->
     IF b = a THEN [is_available |-> FALSE, size |-> s] ELSE block[b]]

\* Wrong: the block records its size without the control block.
MoveLastNoHeader(t) ==
  /\ At(t, "extend")
  /\ \E read \in {call[t].at, last} : last' = read + call[t].size
  /\ clashed' = (call[t].at # last)
  /\ block' = WithBlock(call[t].at, call[t].size - mcbSize)
  /\ call' = [call EXCEPT ![t].place = "header"]
  /\ UNCHANGED <<initialized, current, live>>

\* The last valid address moves past the new block, whose control block is
\* written next.  A call that moved it in between uses the same memory.
MoveLast(t) ==
  /\ At(t, "extend")
  /\ \E read \in {call[t].at, last} : last' = read + call[t].size
  /\ clashed' = (call[t].at # last)
  /\ block' = WithBlock(call[t].at, call[t].size)
  /\ call' = [call EXCEPT ![t].place = "header"]
  /\ UNCHANGED <<initialized, current, live>>

\* The control block is written and the new block returned.
Header(t) ==
  /\ At(t, "header")
  /\ Return(t, call[t].at)
  /\ UNCHANGED <<initialized, current, last, block, clashed>>

\* kfree(p) by any thread, of a block in use.
Kfree(p) ==
  /\ p \in DOMAIN live
  /\ block' = [block EXCEPT ![p - mcbSize].is_available = TRUE]
  /\ live' = [a \in DOMAIN live \ {p} |-> live[a]]
  /\ UNCHANGED <<initialized, current, last, call, clashed>>

\* A thread in kmalloc goes on with it.
Kmalloc(t) ==
  \/ Find(t) \/ Skip(t) \/ Stray(t) \/ Take(t) \/ GiveUp(t)
  \/ TestBreak(t) \/ MoveBreak(t) \/ Extend(t) \/ MoveLast(t) \/ Header(t)

\* panic halts the machine.
Next ==
  /\ Running
  /\ \/ \E t \in Threads : Kmalloc(t) \/ \E n \in Requests : Enter(t, n)
     \/ \E p \in DOMAIN live : Kfree(p)

Spec == Init /\ [][Next]_vars

\* A thread in kmalloc is run until it has returned: ReadyThreadsRun of module
\* TaskManager.
HFairSpec == Spec /\ \A t \in Threads : WF_vars(Running /\ Kmalloc(t))
-----------------------------------------------------------------------------
\* Types, and every size and address rounded as kmalloc rounds them.
HTypeOK ==
  /\ initialized \in BOOLEAN /\ clashed \in BOOLEAN
  /\ current \in Nat /\ last \in Nat
  /\ block \in Blocks(DOMAIN block) /\ DOMAIN block \subseteq Nat
  /\ DOMAIN live \subseteq Nat /\ live \in [DOMAIN live -> Requests \ {0}]
  /\ call \in [Threads -> [place : Places, request : Requests \cup {0}, size : Nat,
                           at : Nat, fits : SUBSET DOMAIN block]]
  /\ \A a \in DOMAIN block : (a - HeapStart) % 16 = 0 /\ block[a].size % 16 = 0

\* Until two calls clash, the blocks tile the managed memory: the first is at
\* its start, each ends where the next one starts or at last_valid_address,
\* none overlap, and the chain never reaches past the program break and the
\* end of the heap, however many calls extend it at once.  The loop of kmalloc,
\* which compares with # only, would otherwise run on through memory that
\* holds no control block.
Tiled ==
  ~clashed =>
    /\ initialized => HeapStart \in DOMAIN block \cup {last}
    /\ \A a \in DOMAIN block : a + block[a].size \in DOMAIN block \cup {last}
    /\ \A a, b \in DOMAIN block : a < b => a + block[a].size <= b
    /\ last <= current /\ current <= HeapEnd

\* The kernel panics for want of memory only if every block that was free and
\* large enough when the call came in has been taken by another call: the
\* search passes over none, whatever other calls take, add and free.
NoFitMissed ==
  \A t \in Threads : At(t, "panic") => call[t].fits = {}

\* Until two calls clash, kmalloc and kfree keep the promise of Allocator: no
\* byte is in two blocks, whatever calls of both overlap.  So the clashes that
\* Take, MoveBreak, MoveLast and Stray record are all the ways in which calls
\* that overlap can get the same memory.
A == INSTANCE Allocator WITH Heap <- HeapStart .. HeapEnd - 1
ImplementsAllocator == A!AInit /\ [][A!ANext \/ clashed']_live

\* Every kmalloc returns, unless the kernel panics or two calls clash.
KmallocReturns ==
  \A t \in Threads : ~At(t, "client") ~> (At(t, "client") \/ ~Running)
==============================================================================
