------------------------------ MODULE RingBuffer ------------------------------
(***************************************************************************)
(* A ring buffer of a device (kernel/ringBuffer.cpp), used in one of two   *)
(* ways: as bufferRead_ of CAFileIOBufferedRead, which the interrupt       *)
(* handler fills and a thread empties, or as bufferWrite_ of CDSIPC (NDS), *)
(* which a thread fills and the interrupt handler empties.                 *)
(*                                                                         *)
(* The mutex is a wait object, locked from the start: a thread that must   *)
(* wait locks it again, and notifyGetters unlocks it.  The thread can be   *)
(* interrupted between any two steps, the handler cannot.                  *)
(***************************************************************************)
EXTENDS Locks

CONSTANTS User,      \* the thread
          mutex,     \* mutex_
          Size,      \* RINGBUFFER_SIZE
          Data       \* the bytes

ASSUME RingAssumption ==
  /\ Size \in Nat \ {0, 1}
  /\ Threads = {User} /\ Mutexes = {mutex}

VARIABLES usage,           \* "read" or "write"
          inPtr, outPtr,   \* inPtr_ and outPtr_
          buffer,          \* buffer_
          op,              \* the put or get the thread is in
          isr              \* the interrupt handler is receiving

ring == <<usage, inPtr, outPtr, buffer, op, isr>>

Steps == {"client", "test", "lock", "copy", "advance"}

\* The step of put or get the thread is at, its parameter block, and the byte.
NoOp == [step |-> "client", block |-> FALSE, byte |-> Null]

\* Wrong: the pointer wraps one slot late.
WrapLate(i) == IF i + 1 > Size THEN 0 ELSE i + 1

\* A pointer moved to the next slot.
Wrap(i) == IF i + 1 >= Size THEN 0 ELSE i + 1

IsEmpty == inPtr = outPtr
IsFull == Wrap(inPtr) = outPtr

\* The constructor locks the mutex; the boot thread runs it.
RInit ==
  /\ mutexLock = [m \in Mutexes |-> 1]
  /\ condLock = [c \in Conds |-> 1]
  /\ waitQ = << >> /\ waitObj = [t \in Threads |-> Null]
  /\ call = [t \in Threads |-> Client]
  /\ held = [t \in Threads |-> {}]
  /\ usage \in {"read", "write"}
  /\ inPtr = 0 /\ outPtr = 0
  /\ buffer = [i \in 0 .. Size - 1 |-> Null]
  /\ op = NoOp
  /\ isr = FALSE

\* The thread is at a step of its put or get and can go on.
AtStep(s) == ~isr /\ Here(User, "client") /\ op.step = s
Goto(s) == op' = [op EXCEPT !.step = s]

\* The thread enters get (from CAFileIOBufferedRead::read) or put (from
\* CDSIPC::write).
Start ==
  /\ AtStep("client")
  /\ \E block \in BOOLEAN, byte \in IF usage = "read" THEN {Null} ELSE Data :
       op' = [step |-> "test", block |-> block, byte |-> byte]
  /\ UNCHANGED <<locks, usage, inPtr, outPtr, buffer, isr>>

\* The test for an empty buffer in get or a full one in put: go on, wait, or
\* return false.
Test ==
  /\ AtStep("test")
  /\ IF ~(IF usage = "read" THEN IsEmpty ELSE IsFull) THEN Goto("copy")
     ELSE IF op.block THEN Goto("lock")
     ELSE op' = NoOp
  /\ UNCHANGED <<locks, usage, inPtr, outPtr, buffer, isr>>

\* Wrong: the buffer is not tested again after the wait.
WaitOnce ==
  /\ AtStep("lock")
  /\ LockMutex(User, mutex)
  /\ Goto("copy")
  /\ UNCHANGED <<condLock, usage, inPtr, outPtr, buffer, isr>>

\* k_pthread_mutex_lock(&mutex_) in the loop, up to the next test or to sleep.
Wait ==
  /\ AtStep("lock")
  /\ LockMutex(User, mutex)
  /\ Goto("test")
  /\ UNCHANGED <<condLock, usage, inPtr, outPtr, buffer, isr>>

\* The thread is back from its sleep.
Woken ==
  /\ ~isr
  /\ LockResumed(User)
  /\ UNCHANGED ring

\* get: *data = buffer_[outPtr_].
Fetch ==
  /\ AtStep("copy") /\ usage = "read"
  /\ op' = [op EXCEPT !.step = "advance", !.byte = buffer[outPtr]]
  /\ UNCHANGED <<locks, usage, inPtr, outPtr, buffer, isr>>

\* get: outPtr_ moves on, and the byte is returned.
EndGet ==
  /\ AtStep("advance") /\ usage = "read"
  /\ outPtr' = Wrap(outPtr)
  /\ op' = NoOp
  /\ UNCHANGED <<locks, usage, inPtr, buffer, isr>>

\* Wrong: inPtr_ moves on before the byte is stored.
StoreLate ==
  /\ AtStep("copy") /\ usage = "write"
  /\ inPtr' = Wrap(inPtr)
  /\ Goto("advance")
  /\ UNCHANGED <<locks, usage, outPtr, buffer, isr>>

\* put: buffer_[inPtr_] = data.
Store ==
  /\ AtStep("copy") /\ usage = "write"
  /\ buffer' = [buffer EXCEPT ![inPtr] = op.byte]
  /\ Goto("advance")
  /\ UNCHANGED <<locks, usage, inPtr, outPtr, isr>>

\* put: inPtr_ = in.
EndPut ==
  /\ AtStep("advance") /\ usage = "write"
  /\ inPtr' = Wrap(inPtr)
  /\ op' = NoOp
  /\ UNCHANGED <<locks, usage, outPtr, buffer, isr>>

\* The receive interrupt: a non-blocking put of a byte that came in, dropped
\* when the buffer is full; more may follow.
Receive(x) ==
  /\ usage = "read" /\ isr' = TRUE
  /\ \/ IsFull /\ UNCHANGED <<inPtr, buffer>>
     \/ /\ ~IsFull
        /\ buffer' = [buffer EXCEPT ![inPtr] = x]
        /\ inPtr' = Wrap(inPtr)
  /\ UNCHANGED <<locks, usage, outPtr, op>>

\* Wrong: the handler forgets notifyGetters.
ReceivedQuietly ==
  /\ isr /\ isr' = FALSE
  /\ UNCHANGED <<locks, usage, inPtr, outPtr, buffer, op>>

\* The end of the receive interrupt: notifyGetters, which unlocks the mutex
\* the thread waits with.
Received ==
  /\ isr /\ isr' = FALSE
  /\ UnlockMutex(User, mutex)
  /\ UNCHANGED <<condLock, call, usage, inPtr, outPtr, buffer, op>>

\* The send interrupt: a non-blocking get of a byte to send; no notification.
Send ==
  /\ usage = "write" /\ ~IsEmpty
  /\ outPtr' = Wrap(outPtr)
  /\ UNCHANGED <<locks, usage, inPtr, buffer, op, isr>>

\* The thread goes on with its put or get.
GoOn == Test \/ Wait \/ Woken \/ Fetch \/ EndGet \/ Store \/ EndPut

RNext == Start \/ GoOn \/ (\E x \in Data : Receive(x)) \/ Received \/ Send

RSpec == RInit /\ [][RNext]_<<locks, ring>>

\* An interrupted thread gets on in the end; handlers end.
RFairSpec == RSpec /\ SF_<<locks, ring>>(GoOn) /\ WF_<<locks, ring>>(Received)
-----------------------------------------------------------------------------
RTypeOK ==
  /\ mutexLock \in [Mutexes -> {0, 1}]
  /\ inPtr \in 0 .. Size - 1 /\ outPtr \in 0 .. Size - 1
  /\ buffer \in [0 .. Size - 1 -> Data \cup {Null}]
  /\ op \in [step : Steps, block : BOOLEAN, byte : Data \cup {Null}]
  /\ isr \in BOOLEAN /\ (isr => usage = "read")

\* Outside the handler the thread never sleeps in get over a buffer with bytes
\* in it: no notification falls between its test and its sleep.
NoSleepOverData ==
  usage = "read" /\ ~isr /\ AsleepOn(User, mutex) => IsEmpty

\* The bytes in the buffer, in order.
Contents ==
  [i \in 1 .. (Size + inPtr - outPtr) % Size |-> buffer[(outPtr + i - 1) % Size]]

\* What goes into the buffer comes out once and in order, although the two
\* sides take no lock: each pointer is moved by one side only, after the byte.
Q == INSTANCE Fifo WITH queue <- Contents, Capacity <- Size - 1
InOrder == Q!QSpec

\* What a get returns is the first byte in the buffer, which stays the first
\* until the get has ended.
FetchedIsFirst ==
  usage = "read" /\ op.step = "advance" => ~IsEmpty /\ op.byte = Head(Contents)

\* A get that waits returns once a byte is in the buffer.
GetReturns ==
  usage = "read" /\ op.step # "client" /\ ~IsEmpty ~> op.step = "client"
==============================================================================
