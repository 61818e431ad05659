# Bricks-OS in TLA+

Models, model-checking runs and proofs about Bricks-OS: the thread scheduler,
its generic waits, mutexes and condition variables, the send-receive-reply
messages on top of them with the tables and the name server by which threads
find each other, the kernel heap, the physical memory of the PC, the ring
buffer of the device drivers, and the multi-boot protocol between GBAs. Paths
below are relative to the repository; `kernel/` stands for `kernel/kernel/` and
`kernel/include/kernel/`.

## 1. The system

Bricks-OS is a small operating system kernel in C++ ("Message passing is the
central communication mechanism", docs/architecture.md). Only the builds for
the PC, the GBA and the NDS (arm9) have threads. The parts:

| Part | Source | State | Operations | What is hard |
|---|---|---|---|---|
| Tail queues | queue.h | intrusive doubly linked lists | insert, remove, iterate | an element in two lists through one link |
| Scheduler | taskManager.cpp, `CThread::state` in task.cpp | ready, timer, wait and dead queue, current thread and task, clock | schedule, updateSleepers, destroyDeadThreads | every interrupt may preempt; iteration over a queue that its body relinks |
| Generic waits | genwait.cpp, unistd.cpp | iTimeout_, pWaitObj_, iWaitReturn_ per thread | genwait_wait, genwait_wake, usleep, sleep | time-out racing wake-up, order of wake-ups |
| Threads | pthread.cpp (1st part), bricks.cpp | thread states | create, exit, join (not implemented) | calls made with interrupts on; exit frees nothing |
| Mutexes, conditions | pthread.cpp | one flag `iLock` each | lock, trylock, unlock, wait, timedwait, signal, broadcast | calls of several atomic stretches, hand-over of a mutex, lost wake-ups |
| Messages | srrConnection.cpp, srrChannel.cpp | state, message and reply of each connection, waiting message of each channel | msgSend, msgReceive, msgReply, disconnect | three-party protocol over two mutexes |
| Message tables | `CTask` in task.cpp, `CAChannel`, srr.cpp | channels, out- and in-connections of each task | create, destroy, attach, detach, id validation | tables changed with interrupts on, dangling entries |
| Name server, nodes | srrNameServer.cpp, srrNodes.cpp | list of names, gateways | register, lookup | shared list without a lock |
| Ring buffer | ringBuffer.cpp | in and out pointer, a mutex used as a wait object | put, get, notifyGetters | producer in an interrupt, full buffer |
| Interrupt manager | interruptManager.cpp | routines per interrupt | attach, detach, isr | attach and detach during dispatch |
| Heap | memoryManager.cpp | chain of blocks, program break | kmalloc, kfree, sbrk | called by every thread without a lock, no coalescing |
| PC physical memory | arch/i386/pc/pmm.cpp, arch.cpp | a byte per page | init_memmap, allocate a page or a size, free | rounding to pages, memory that ends anywhere |
| GBA multi-boot | arch/arm/gbands/gbaSerial.cpp | the slaves found, their answers | locate, select, send the header, client data, handshake | lost words, answers of an earlier exchange, restarted slaves |
| Storage | fileSystem.cpp, ibmPartitionDriver.cpp, fatDriver.cpp, ... | device and driver lists | add, mount, partition read/write | sector arithmetic |
| Video, input, settings, time values, debug | video*.cpp, 2dRenderer.cpp, ... | device lists, pixels | | nothing concurrent of their own |
| Machine code | arch/ | registers, page tables | interrupt entry, drivers | register-level I/O |
| Applications, libraries | apps/, gl/, libc/, libtace/, libtwl/, stl/ | | | outside the kernel |

How they interact: an interrupt (arch/i386/pc/isr.cpp) acknowledges the
hardware, calls the interrupt manager and then `CTaskManager::schedule`.
Threads enter the scheduler through genwait_wait, genwait_wake and
k_pthread_create/exit; pthread.cpp calls genwait with the address of the mutex
or condition as the wait object; connections and channels use one mutex and one
condition each and call only pthread functions. System-call gates are trap gates
(descriptor.cpp), so the kernel is preempted everywhere except between
local_irq_disable and local_irq_restore: that decides what one action is.

What makes each part correct: the scheduler must lose no thread and never run a
dead one, serve ready threads in turn, idle only when nothing is ready, end
timed waits, and wake waiters in order and for a reason. Mutexes should exclude
and must not strand a waiter; notifications must reach the threads that wait.
Messages must be received once, and the reply must go to the send that waits
for it; an id must lead to the connection it was given for, and a registered
name must be found. Memory must be given to one client at a time, bytes from a
device must come out once and in order, and a program must go only to a slave
that is ready for it. PROJECT.json lists, under "hazards", where each of these could fail.

## 2. Modules

| Module | Models |
|---|---|
| `TailQueue` | queue.h as the kernel uses it, on sequences: `Keep` (what an iteration meets), `Unlink` (removal), `InsertSorted` (the deadline-ordered insertion of `CThread::state`) |
| `TaskManager` | the scheduler and generic waits |
| `Pthread` | mutexes and conditions on top of `TaskManager` |
| `Locks` | what the pthread calls are to their callers, without the scheduler |
| `SrrMessage` | msgSend, msgReceive and msgReply on top of `Locks` |
| `SendReceiveReply` | what messages promise: send, receive, reply, return |
| `Heap` | kmalloc, kfree and sbrk |
| `Allocator` | what kmalloc and kfree, and the page allocator, promise: memory in use is the client's alone |
| `RingBuffer` | a device's ring buffer between an interrupt handler and a thread, on top of `Locks` |
| `Fifo` | what a ring buffer promises |
| `NameServer` | the list of names, access by access |
| `SrrTables` | the message tables of tasks and channels, and the life of channels and connections, on top of `NameServer` |
| `PcMemory` | init_memmap and the page allocator of the PC |
| `MultiBoot` | locateMultiBootSlaves and multiBoot |
| `TailQueueProofs`, `ThreadProofs`, `SrrMessageProofs`, `SrrTablesProofs`, `HeapProofs`, `RingBufferProofs`, `PcMemoryProofs`, `MultiBootProofs` | theorems and their proofs |
| `MCTaskManager`, `MCPthread`, `MCSrrMessage`, `MCSrrTables`, `MCHeap`, `MCPcMemory`, `MCRingBuffer`, `MCMultiBoot` | constants for TLC |

Pthread EXTENDS TaskManager; SrrMessage and RingBuffer EXTEND Locks; SrrTables
EXTENDS NameServer. Pthread is checked to implement Locks, SrrMessage to implement
SendReceiveReply, Heap and PcMemory to implement Allocator, and RingBuffer to
implement Fifo, each by INSTANCE.

**TaskManager.** The four queues are sequences, `eState`, `timeout`, `waitObj`
and `waitReturn` are functions of the thread, `current` and `currentTask` the
two static pointers, `time` the microsecond clock, `halted` records a panic.
`CThread::state` is spread over the operators that describe its effect on the
queues (`Switch`, `LeaveWaiting`, `MadeReady`, `Dispatch`). An action is a
stretch with interrupts off: `GenwaitWait` (with the dispatch it ends in),
`GenwaitWake`, `Exit`, `Create`, `Interrupt` (a device handler that may wake
threads, then `schedule(false)`), `Tick` (the timer interrupt: updateSleepers,
destroyDeadThreads, dispatch), `WaitForNothing` (the panic for a wait without an
object or a time-out). `Expired` is the loop of updateSleepers as it is: it
follows the link that `state(TS_READY)` has just moved to the ready queue, so it
releases one thread per call. The boot thread is `Idle`, as bricks_main makes it.

**Pthread.** `mutexLock` and `condLock` are the `iLock` fields. A call that waits
leaves the processor in the middle of its interrupt-free stretch; `call` records
where, and the rest of the stretch is an action of its own (`LockResumed`,
`CondResumed`) that comes before any interrupt (`InterruptsOn`). cond_wait is
three stretches: `CondWait` (unlock), `CondSleep`/`CondResumed`, `Relock`. `held`
is the clients' view of who has a mutex; clients unlock, and wait with, only what
they hold. `owed` is a history variable for one property.

**Locks.** The same calls with any thread that is not asleep allowed to go on:
the scheduler's queues, the clock and interrupts are gone. SrrMessage uses it so that
its own interleavings stay small enough to explore.

**SrrMessage.** One channel, any number of connections, client and server
threads. A step is one pthread call or one access to the shared state, because a
thread can be preempted between any two of them; `pc` is the place in the
function. The data is a message number; the reply to a message is the message
itself, so that a reply can be matched with what was sent. Not modelled here: the
sizes and contents that are copied, and `disconnect`: channelConnectDetach deletes
the connection right after it, which belongs with the message tables.

**NameServer.** `next` is the chain of entries from the head, `last` the tqh_last of
the list. Registration fills an entry and then appends it with TAILQ_INSERT_TAIL:
its read of tqh_last, its store through it and the move of tqh_last are steps
(`ReadTail`, `Link`, `MoveTail`); a lookup is a step per entry. `overlapped`
remembers that two registrations were under way at once, `registered` and
`expected` what a lookup that begins now must find.

**SrrTables.** Nothing here is locked in the code, so the search of a table and the
store into the slot it found are separate steps: in channelCreate, in
channelConnectAttach (`Attach`, `Connect`, `Enter`, `FindOut`, `StoreOut`, `FindIn`,
`StoreIn`) and in channelConnectDetach, which reads the table again for each of its
lines (`Disconnect`, `Delete`, `Clear`). Channels and connections are addresses that
come back after a delete; `live` says which exist. When the code uses an object
that is not live the machine halts, since what follows is undefined. `holds` is the
clients' view of their ids. `clashed` remembers that a store hit a slot that was
taken, which two threads of one task can bring about: from then on connections are
lost, and the properties that would then fail say so. `gaveUp` are the connections an
attach leaves behind when the out table is full. A server's in table is never
cleared by a detach, so its ids run out; the model shows that as attaches that fail.
The wait of disconnect for a message under way is left out: messages are SrrMessage.

**Heap.** `block` maps the address of each control block to its contents, `last` and
`current` are last_valid_address and the program break. Any number of threads are in
kmalloc at once and can be preempted between any two accesses to these: an action is one
round of the search (`Find`, `Skip`, `GiveUp`), the store that takes a block (`Take`), the
test and the store of sbrk (`TestBreak`, `MoveBreak`), the read and the store of the last
valid address (`Extend`, `MoveLast`) or the new control block (`Header`); any block may be
freed in between (`Kfree`). A compiled `x += n` may use an x read earlier, and the actions
allow both. `live` is the clients' view. Nothing in kmalloc keeps calls apart, so one
can undo the work of another: take a block that was taken since it was found, move the break
or the last valid address from a value that is stale, or read a control block that
is not yet written (`Stray`). `clashed` records that, and the behaviours of Heap end there.
The properties are about everything up to that point: they show that overlapping calls
do no harm in any other way. kmalloc runs on this heap with threads on the GBA and NDS.

**PcMemory.** A `machine` is what the boot loader reports: with or without a map of
regions, and the kernel and modules it has loaded. `Booted` is the result of init_memmap, in which
taken ranges are rounded outwards and freed ranges down at both ends (`RangeTaken`,
`RangeFreed`), so that a page in which usable memory begins is freed with what lies below; the operations of pmm.cpp follow, each one action, because page faults
have interrupt gates and the other callers run at start-up. `live` is the clients' view.

**RingBuffer.** One buffer, used in one of the two ways the drivers use it (`usage`): the handler
puts and a thread gets, or the reverse. Every test, copy and pointer move of the
thread is a step of its own; the receive handler puts any number of bytes and then
calls notifyGetters (`Received`). The mutex is locked from the start and is only
slept on, so the pthread discipline does not apply to it.

**MultiBoot.** An action is one exchange of sendMulti: a word goes out, each slave hears
it or does not, and the answers come before the wait runs out or the variables
keep what they held, which at first is anything in `Garbage`. `pc` is the place in
the function, `reply` the variables slave1 to slave3; detection, the selection,
the 0x60 words of the header with their countdown, the client data, the handshake and
the caller's loop that starts again after a failure are all there. The slaves are
the boot code of other GBAs: they are modelled as multiBoot relies on them, and they may restart
at any time. locateMultiBootSlaves is called over and over until A is pressed, and the early
returns of multiBoot, for a device, port or mode that is not the right one, are one action
(`Refused`). `seen` and `held` remember which slaves were heard of in the detection and which bits
the uninitialised variables held before the first answer, so that the property can tell the two apart.

Definitions whose comment begins "Wrong:" are not part of a specification. Each
is a plausible slip in the definition it precedes; putting it in that
definition's place makes the property named with it in PROJECT.json fail.

## 3. Runs

| Run | Instance | Checks |
|---|---|---|
| `TaskManager_threads` | 3 threads, 2 tasks, 2 objects, delays 0, 1, 4, quantum 2, deadlines up to 5 | types; `QueuesMatchStates`; `TimerSorted`; `IdleOnlyIfNothingReady`; `LatenessBounded`; `DeadIsFinal`; `WakeIsEarned`; `NoOvertakingInReadyQueue`; `WakersServeInOrder`; `ReadyThreadsRun` and `TimedWaitsEnd` under fairness |
| `Pthread_calls` | 3 threads, 1 mutex, 1 condition, signal and broadcast, timed waits, deadlines up to 1 | types; `NoStrandedLocker`; `FlagIsBeingReset`; `ImplementsLocks`; `LocksReturn` under fairness |
| `Pthread_exclusion` | 2 threads, broadcasts only | violated: `MutualExclusion` |
| `Pthread_lostwakeup` | 3 threads, broadcasts only | violated: `BroadcastWakesAll` |
| `Srr_pair` | 1 client, 1 server, 3 messages | types; `Discipline`; `ImplementsRendezvous`; `FirstSendReturns` under fairness |
| `Srr_refused` | 1 client, 1 server, 2 messages | violated: `NoReplyRefused` |
| `Srr_tables` | a server with 2 names, a task with 2 clients, 1 channel, 2 connections, tables of 1 and 2 slots | types; `ChannelsListLiveConnections`; `IdsLeadThereAndBack`; `ConnectionsAreOwned`; `NamesAreFound` |
| `Heap_threads` | 2 threads in kmalloc, frees at any time, requests 0, 1, 32, a heap of 112 bytes | types; `Tiled`; `NoFitMissed`; `ImplementsAllocator`; `KmallocReturns` under fairness |
| `Pc_memory` | 6 machines, pages of 4 bytes, 3 pages of lower memory, sizes 2, 8, 16 | `FreeIsSpare`; `UsedIsAccountedFor`; `ImplementsAllocator` |
| `Pc_upper` | the same | violated: `AvailableIsFreed` |
| `Ring_device` | 4 slots, 2 bytes | types; `NoSleepOverData`; `FetchedIsFirst`; `InOrder`; `GetReturns` under fairness |
| `Gba_multiboot` | 2 slaves, 4 header words, 2 tries | `SelectedHaveHeader` |

What the violated ones show of the code:

* *Mutual exclusion.* mutex_unlock clears `iLock` before the woken thread runs; a
  thread that locks in between and the woken thread, which does not look at `iLock`
  again, both hold the mutex.
* *Lost broadcast.* Between the unlock and the wait of cond_wait a broadcast is
  remembered only in a flag that one thread consumes.
* *Refused reply.* msgSend puts the message in the channel before it marks the
  connection as sent. The connection mutex hides that for the first message only,
  because from then on the mutex can have two holders. The same cause lets two clients put
  messages into one channel slot.
* *Upper memory.* physFreeRange rejects a range whose end page equals the number of pages, and
  init_memmap derives that number from where memory ends. If the last region is
  usable, or the boot loader gives no map, all of that region stays marked
  used; without a map only lower memory is left. FreeIsSpare shows the error is on the safe side.

Three more things the models show without a run of their own. updateSleepers releases
one thread per timer interrupt, because it goes on from a link that it has just moved to
the ready queue: of two threads with one deadline the second wakes a quantum later, and
`LatenessBounded` says how late a thread can get. A blocking put (`RingBuffer`, usage "write")
sleeps on a mutex that only notifyGetters unlocks, which no handler that empties a buffer calls: once
it sleeps, it sleeps for ever, and Ring_device does not check for deadlock. And
usleep(0) reaches genwait_wait with nothing to wait for, where the kernel panics: `WaitForNothing`
models that and the liveness properties say "unless the kernel panics".

**Bounds.** Three threads are the least that show hand-over of a mutex with another
thread in between, overtaking in a queue, and three deadlines that fall due together. Delays
0, 1, 4 with a quantum of 2 give deadlines on, between and beyond the next ticks; `MaxTime`
bounds deadlines, and the clock runs on to the first tick at or past it, where it
stays, so that every deadline is reached. One mutex and one condition are enough because the
calls on different objects share only the wait queue, which TaskManager_threads covers
with two objects. `MaxSends` 3 covers the first message, which differs from the others, and
two later ones. A thread may stop (CHECK_DEADLOCK FALSE) where that is an
end the code has: the machine after a panic, clients that have sent all their messages,
a blocked put, a table that is full, a transfer that is done. Four ring-buffer slots hold three bytes, so the pointers wrap with the buffer empty,
full and in between. In `Srr_tables` two clients of one task meet in its out table, and
two slots let one hold an id while the other attaches; an address comes back as soon as it is free.
The server registers its names one after the other, so that registrations do not overlap
in this instance, and a lookup meets one in every state; that names registered before an overlap
stay found is proved (`LookupsFind`) and not model-checked. The six machines begin and end memory on a page and inside a page, have a hole,
have and lack something above usable memory; lower memory ends inside a page, and a module
fills part of one. Four header words cover the two that are not looked at, one that is, and the
last one; `Garbage` holds an answer of a slave that is there and one with a bit that no slave has.
112 bytes of heap hold blocks of two sizes in every order, and
fill up; two threads meet at every pair of places in kmalloc.

**Fairness.** `FairSpec` asks only that timer interrupts keep coming (the i8254 runs
at 100 Hz); threads need do nothing. `PFairSpec` adds that a thread dispatched again
and again completes the pthread call it is in and unlocks what it holds (strong
fairness, since preemption disables the step again and again). `SFairSpec`, where the
scheduler is absent, and `HFairSpec` are weak fairness per thread, `RFairSpec` is strong
fairness for a thread that handlers interrupt: that every ready thread runs is
what `ReadyThreadsRun` shows of the scheduler.

## 4. Proofs

`TailQueueProofs` proves what `Keep`, `Unlink` and `InsertSorted` do to range, order,
distinctness and sortedness. Keep is a recursive function; its lemmas go by an
invariant over its prefixes.

`ThreadProofs` proves first of TaskManager, for any finite set of threads, any tasks, objects, delays
and quantum (the ASSUMEs of TaskManager):

| Theorem | Says |
|---|---|
| `TypeCorrect` | Spec => []TypeOK |
| `NoThreadLost` | Spec => []QueuesMatchStates |
| `TimersInOrder` | Spec => []TimerSorted |
| `WorkConserving` | Spec => []IdleOnlyIfNothingReady |
| `LatenessIsBounded` | Spec => []LatenessBounded |
| `DeadNeverRun` | Spec => DeadIsFinal |
| `RoundRobin` | Spec => NoOvertakingInReadyQueue |
| `WaitsEndForAReason` | Spec => WakeIsEarned |
| `WaitersServedInOrder` | Spec => WakersServeInOrder |

All follow from `Invariance`, Spec => []IInv. The inductive invariant adds to the
properties what they do not say by themselves: after a panic nothing moves, so the clauses
about queues hold only until then and the sorted timer queue does throughout; current is
never NULL with a thread ready except before the first dispatch; and the lateness bound is
carried by the position in the timer queue, which is why `LatenessBounded` has the
summand `i * Quantum`: a tick either releases the head, and every thread behind it moves up one place
as the clock moves one quantum, or no thread is due. A queue without
duplicates is no longer than there are threads, which gives the bound for a thread that has just fallen due.

The last three are about steps, under the same invariant. For `RoundRobin` each operation is
shown to change the ready queue at its ends only: what comes in is appended, what is
dispatched is the head (`DispatchInOrder`, `StepNotOvertaken`). For `WaitersServedInOrder`
the threads a wake-up takes are the first in the wait queue that wait for the object, because Keep
preserves order (`WokenAreFirst`), and `WhoLeaves` is all the ways out of the wait queue.

Of Pthread it proves, for any threads, mutexes, conditions and delays, `PthreadTypeCorrect`
(PTypeOK), `PthreadNoThreadLost` (QueuesMatchStates), `NoLockerStranded` (NoStrandedLocker),
`FlaggedSleepersAwaitReset` (FlagIsBeingReset) and `PthreadImplementsLocks` (ImplementsLocks).
The invariant `PInv` is the scheduler's, without a
panic, and what ties `call` to it: a thread that is "lockWaiting" or "condWaiting" and asleep
waits for that object (`Placed`), and a locked mutex is held by somebody (`LockedIsHeld`), without
which nobody would come to unlock it. The refinement needs one thing more,
`TimedOnConds`: a thread with a time-out waits for a condition, so that a timer interrupt can only release what Locks lets a
timed wait release. Then every stretch of a pthread call is an action of Locks, and every step of
the scheduler that wakes nobody is a stutter (`PlainInterrupt`, `TickRefines`).

`SrrMessageProofs` proves, for any clients, servers and connections, `SrrTypeCorrect` (STypeOK) and
`SrrKeepsDiscipline` (Discipline): the message functions keep the rules under which Locks
describes the pthread calls. `SInv` says that what a thread holds follows from its
place in the function, up to the mutex it is in the middle of locking.
`PairImplementsRendezvous` proves ImplementsRendezvous for one client and one server, with any
number of messages. Its invariant `Pair` says what the places of the two and the
states of connection and channel imply of each other: a message in the channel is the client's present one
(`ChannelFollows`), a server that takes or answers does so for it and before the client
can go on (`ServerFollows`), and the reply in the connection is its own (`ClientFollows`). It
uses nothing of the mutexes: from the second message on both may hold that of the connection, as
`Pthread_exclusion` shows of any mutex, and the states alone keep the pair in step; a reply that comes too early is refused
(`Srr_refused`) and its message stays "received". Two clients or two servers need the
mutexes to exclude each other, which they do not, so the theorem says nothing of them.

`SrrTablesProofs` proves, for any tasks, threads, channels, connections, names and sizes of
tables, `TablesTypeCorrect` (TTypeOK), `ListsAreLive` (ChannelsListLiveConnections), `IdsAreRight`
(IdsLeadThereAndBack), `OneTableOwns` (ConnectionsAreOwned) and `LookupsFind` (NamesAreFound). All follow
from `TablesInvariance`. None of the first four is inductive by itself, and what is
missing is the same for all: who may use a connection id. A thread has an id from the
store into the out slot on, while it attaches, holds it, or detaches (`Mine`); no two
threads of a task have one id (`OneOwner`), because the store that would give it to a second one
is the clash that ends the promise. So the connection that a detach disconnects and
deletes is in nobody else's hands and under nobody else's id (`DetachedIsOwn`). A slot whose
connection has been deleted and that is not yet cleared refers to an
address that a new connection may already have; `Clean` sets it apart, and the invariant speaks of clean slots only.
For the name server the invariant is a chain of entries from the head that is
never cut (`Chained`): no thread is about to store into an entry before its end (`Spared`), a lookup
that must find its name is not past it (`Reached`), and the chain is all of the list while
registrations have not overlapped (`Whole`).

`RingBufferProofs` proves, for a buffer of any size, `RingTypeCorrect` (RTypeOK), `NoNotificationLost`
(NoSleepOverData), `GetTakesTheFirst` (FetchedIsFirst) and `RingIsFifo`, that the buffer implements Fifo. `RInv` adds
that a thread on its way to sleep although bytes have come will find the mutex unlocked
(`NoticeWaits`), and that the byte a get has copied stays where it was until the pointer moves (`ByteStays`).
For the refinement the slots are counted from the out pointer, and a put is shown to add one at the end.

`MultiBootProofs` proves `MultiBootSelects` (SelectedHaveHeader) for any slaves, length of the header,
number of tries, and garbage. `MBInv` says at each place of multiBoot what the answers so far imply of every
selected slave that has been heard of: while the header is sent a slave has all words up
to the present one or lags behind for good (`Following`), and no stale answer can pass
for a later one, since the count goes down (`NoneLeft`). Every other selected slave is one whose
bit slave1 to slave3 held before the first answer (`Traced`): of those nothing can be said.

`PcMemoryProofs` proves, for pages of any size and any machines on which what is loaded fits below the
last page (`MachineAssumption`), `FreePagesAreSpare` (FreeIsSpare), `NothingLost` (UsedIsAccountedFor) and
`PagesImplementAllocator` (ImplementsAllocator). `MemInv` says in pages what these say in bytes: every block is at a
page that was free at start, no two share one, and the used pages are those of the blocks
and of the start. What takes the work is the rounding: that the run that physAllocSize finds by
rounding the size down is all that physAllocRange takes by rounding up (`NeedIsEnough`).

`HeapProofs` proves, for every heap, every set of requests and any number of threads in kmalloc,
`HeapTypeCorrect` (HTypeOK), `HeapTiled` (Tiled), `FirstFitFindsFit` (NoFitMissed) and
`HeapImplementsAllocator` (ImplementsAllocator), each until two calls clash. The inductive
invariant `HInv` adds where the chain ends (`Ends`), what a call knows at each place (`Known`), that a
block in use is marked and large enough (`Covered`), and that no two calls write one control block
(`OwnHeader`). What several threads need is `Room`: calls that have got memory from sbrk can attach it in
another order than they got it, so no call can be told which memory will be its own; it is enough that
beyond the chain there are disjoint slots for all of them, and when one attaches at the end of the
chain, the slots below its own move up by its size. The step into Allocator then follows from the order of
the blocks: a block in use lies inside its chain block, and chain blocks do not overlap.

Only model-checked: liveness (`ReadyThreadsRun`, `TimedWaitsEnd`, `LocksReturn`,
`FirstSendReturns`, `KmallocReturns`, `GetReturns`), which the prover does not handle under fairness.
The other properties of the passing runs are all proved.

## 5. Not modelled, and the plan

Left out: register-level drivers and the other machines' ports, page tables, pixel
arithmetic, the libraries under libc, stl, gl, libtace, libtwl and ports, fonts and images compiled
in as tables, and applications: most of the lines of the repository. They have no state of
their own that other parts depend on, or come from elsewhere. Of the kernel core
the following is missing:

* the 32-bit wrap of the clock (time is a natural number here);
* k_usleep, k_pthread_create and k_pthread_exit split at the accesses a timer interrupt can
  separate, and the window in bricks_main before the idle thread is set;
* the wait of disconnect, message sizes, and the kernel's own channels and connections;
* what two calls of kmalloc do after they have clashed, and two readers of one ring buffer;
* the interrupt manager (a handler attached or detached during dispatch), the sector
  arithmetic of CPartition, time values;
* the hardware fifo that CDSIPC::write fills past its buffer, and the sound buffers of sb16 and GBA.

Next, in this order:

1. *Interrupts on*, as above.
2. The interrupt manager and the partition arithmetic, each with its invariant and proof.

The runs will stay few: a new component gets one passing run, and a run that shows a
violation may give way to it.
