-------------------------- MODULE RingBufferProofs --------------------------
(***************************************************************************)
(* The safety of the ring buffer for every size of it and all data.        *)
(***************************************************************************)
EXTENDS RingBuffer, TailQueueProofs

\* The thread's mutex_lock has gone to sleep.
Waiting == [Client EXCEPT !.at = "lockWaiting", !.mutex = mutex]

\* The thread waits for the mutex or not, and while it waits the mutex is locked.
SleepsWell ==
  /\ call \in [Threads -> {Client, Waiting}]
  /\ waitObj \in [Threads -> {Null, mutex}]
  /\ waitObj[User] = Null => waitQ = << >>
  /\ waitObj[User] = mutex => waitQ = <<User>> /\ mutexLock[mutex] = 1

\* A thread that is about to wait although bytes have come finds the mutex
\* unlocked: the handler that put them there has ended with notifyGetters.
NoticeWaits ==
  usage = "read" /\ ~isr /\ op.step = "lock" /\ ~IsEmpty => mutexLock[mutex] = 0

\* Only the loop of put or get waits, and the wait leads back to its test.
InLoop == call[User] = Waiting => op.step = "test"

\* A get that has found a byte keeps it until its pointer moves on.
ByteStays ==
  usage = "read" =>
    /\ op.step \in {"copy", "advance"} => ~IsEmpty
    /\ op.step = "advance" => op.byte = buffer[outPtr]

\* The inductive invariant.
RInv ==
  /\ RTypeOK /\ usage \in {"read", "write"}
  /\ SleepsWell /\ InLoop /\ NoSleepOverData /\ NoticeWaits /\ ByteStays

-----------------------------------------------------------------------------
\* The constants: one thread, one mutex.
LEMMA One ==
  /\ Size \in Nat /\ Size > 1 /\ 0 \in 0 .. Size - 1
  /\ User \in Threads /\ \A t \in Threads : t = User
  /\ mutex \in Mutexes /\ mutex # Null /\ \A m \in Mutexes : m = mutex
  /\ Client.at = "client" /\ Waiting.at = "lockWaiting" /\ Waiting.mutex = mutex
  /\ \A i \in 0 .. Size - 1 : Wrap(i) \in 0 .. Size - 1 /\ Wrap(i) # i
<1>1. Size \in Nat /\ Size > 1
  BY RingAssumption
<1>2. \A i \in 0 .. Size - 1 : Wrap(i) \in 0 .. Size - 1 /\ Wrap(i) # i
  BY <1>1 DEF Wrap
<1> QED BY <1>1, <1>2, RingAssumption, LocksAssumption DEF Client, Waiting

\* A queue without elements.
LEMMA NoElements ==
  ASSUME NEW T, NEW q \in Seq(T), Range(q) = {}
  PROVE  q = << >>
<1>1. Len(q) \in Nat /\ DOMAIN q = 1 .. Len(q)
  OBVIOUS
<1>2. ~(Len(q) > 0)
  <2> SUFFICES ASSUME Len(q) > 0 PROVE FALSE
    OBVIOUS
  <2>1. 1 \in DOMAIN q
    BY <1>1
  <2>2. q[1] \in Range(q)
    BY <2>1 DEF Range
  <2> QED BY <2>2
<1>3. Len(q) = 0
  BY <1>1, <1>2
<1> QED BY <1>3, EmptySeq

\* genwait_wake wakes the thread if it waits.
LEMMA WakeEnds ==
  ASSUME SleepsWell, Wake(mutex, 1)
  PROVE  waitQ' = << >> /\ waitObj' \in [Threads -> {Null, mutex}] /\ waitObj'[User] = Null
<1> DEFINE S == {t \in Threads : waitObj[t] = mutex}
           on == Keep(waitQ, S)
           woken == Range(IF 0 < 1 /\ 1 < Len(on) THEN SubSeq(on, 1, 1) ELSE on)
<1>1. /\ waitQ' = Unlink(waitQ, woken)
      /\ waitObj' = [t \in Threads |-> IF t \in woken THEN Null ELSE waitObj[t]]
  BY DEF Wake, Release
<1>2. waitQ \in Seq(Threads) /\ (waitObj[User] = Null \/ waitObj[User] = mutex)
  <2>1. << >> \in Seq(Threads) /\ <<User>> \in Seq(Threads)
    BY One
  <2>2. waitObj[User] = Null \/ waitObj[User] = mutex
    BY One DEF SleepsWell
  <2> QED BY <2>1, <2>2 DEF SleepsWell
<1>3. waitObj' \in [Threads -> {Null, mutex}]
  BY <1>1 DEF SleepsWell
<1>4. Unlink(waitQ, woken) \in Seq(Threads) /\ Range(Unlink(waitQ, woken)) = Range(waitQ) \ woken
  <2> HIDE DEF woken
  <2> QED BY <1>2, UnlinkProperties
<1>5. CASE waitObj[User] = Null
  <2>1. Range(waitQ) = {}
    BY <1>5 DEF Range, SleepsWell
  <2>2. waitQ' = << >>
    <3> HIDE DEF woken
    <3> QED BY <1>1, <1>4, <2>1, NoElements
  <2>3. waitObj'[User] = Null
    BY <1>1, <1>5, One
  <2> QED BY <1>3, <2>2, <2>3
<1>6. CASE waitObj[User] = mutex
  <2>1. waitQ = <<User>> /\ Range(waitQ) = {User} /\ S = {User}
    BY <1>6, One DEF SleepsWell, Range
  <2>2. on \in Seq(Threads) /\ Range(on) = {User}
    <3> HIDE DEF S
    <3>1. Keep(waitQ, S) \in Seq(Threads) /\ Range(Keep(waitQ, S)) = Range(waitQ) \cap S
      BY <1>2, KeepProperties
    <3> QED BY <3>1, <2>1
  <2>3. woken = {User}
    <3> HIDE DEF on
    <3>1. CASE 1 < Len(on)
      <4>1. Len(on) \in Nat /\ \A i \in 1 .. 1 : on[i] \in Threads
        BY <2>2, <3>1
      <4>2. Len(SubSeq(on, 1, 1)) = 1 /\ SubSeq(on, 1, 1)[1] = on[1] /\ SubSeq(on, 1, 1) \in Seq(Threads)
        BY <4>1, <3>1, SubSeqProperties
      <4>3. DOMAIN SubSeq(on, 1, 1) = {1}
        BY <4>2
      <4>4. on[1] = User
        BY <4>1, One
      <4> QED BY <3>1, <4>2, <4>3, <4>4 DEF Range
    <3>2. CASE ~(1 < Len(on))
      BY <3>2, <2>2
    <3> QED BY <3>1, <3>2
  <2> HIDE DEF woken
  <2>4. waitQ' = << >>
    BY <1>1, <1>4, <2>1, <2>3, NoElements
  <2>5. waitObj'[User] = Null
    BY <1>1, <2>3, One
  <2> QED BY <1>3, <2>4, <2>5
<1> QED BY <1>2, <1>5, <1>6

-----------------------------------------------------------------------------
(* The invariant holds initially and every step keeps it.                  *)

LEMMA RingStarts == RInit => RInv
<1> SUFFICES ASSUME RInit PROVE RInv
  OBVIOUS
<1>1. RTypeOK
  BY One DEF RInit, RTypeOK, NoOp, Steps
<1>2. SleepsWell
  BY One DEF RInit, SleepsWell
<1>3. NoSleepOverData /\ NoticeWaits /\ ByteStays /\ InLoop
  BY One DEF InLoop, Waiting, Client, RInit, NoSleepOverData, NoticeWaits, ByteStays, AsleepOn, NoOp, IsEmpty
<1> QED BY <1>1, <1>2, <1>3 DEF RInv, RInit

\* mutex_lock outside an interrupt: the thread has the mutex or sleeps.
LEMMA LockKeeps ==
  ASSUME RInv, LockMutex(User, mutex), Here(User, "client")
  PROVE  /\ SleepsWell' /\ call'[User] \in {Client, Waiting} /\ mutexLock' \in [Mutexes -> {0, 1}]
         /\ waitObj'[User] = mutex => mutexLock[mutex] # 0
<1>1. /\ SleepsWell /\ mutexLock \in [Mutexes -> {0, 1}]
      /\ waitObj[User] = Null /\ waitQ = << >>
  BY DEF RInv, RTypeOK, Here, Asleep, SleepsWell
<1>2. CASE mutexLock[mutex] = 0 /\ TakeMutex(User, mutex) /\ UNCHANGED <<waitQ, waitObj>>
  BY <1>1, <1>2, One DEF SleepsWell, TakeMutex
<1>3. CASE /\ mutexLock[mutex] # 0 /\ Sleep(User, mutex) /\ UNCHANGED <<mutexLock, held>>
           /\ call' = [call EXCEPT ![User] = Waiting]
  <2>1. waitQ' = <<User>>
    BY <1>1, <1>3 DEF Sleep
  <2>2. mutexLock[mutex] = 1
    BY <1>1, <1>3, One
  <2> HIDE DEF Waiting
  <2>3. waitObj' \in [Threads -> {Null, mutex}] /\ waitObj'[User] = mutex
    BY <1>1, <1>3, One DEF Sleep, SleepsWell
  <2> QED BY <1>1, <1>3, <2>1, <2>2, <2>3, One DEF SleepsWell
<1> QED BY <1>2, <1>3 DEF LockMutex, Waiting

LEMMA RingSteps == RInv /\ [RNext]_<<locks, ring>> => RInv'
<1> SUFFICES ASSUME RInv, [RNext]_<<locks, ring>> PROVE RInv'
  OBVIOUS
<1>0. /\ RTypeOK /\ usage \in {"read", "write"} /\ SleepsWell
      /\ InLoop /\ NoSleepOverData /\ NoticeWaits /\ ByteStays
      /\ Size \in Nat /\ Size > 1 /\ op.step \in Steps
  BY One DEF RInv, RTypeOK
<1> USE DEF RInv
<1>1. CASE Start
  <2>0. Here(User, "client")
    BY <1>1 DEF Start, AtStep
  <2>1. /\ UNCHANGED <<locks, usage, inPtr, outPtr, buffer, isr>> /\ op'.step = "test"
        /\ op' \in [step : Steps, block : BOOLEAN, byte : Data \cup {Null}]
    BY <1>1 DEF Start, Steps
  <2>2. RTypeOK' /\ SleepsWell'
    BY <1>0, <2>1 DEF RTypeOK, SleepsWell, locks
  <2> QED
    BY <1>0, <2>0, <2>1, <2>2, One DEF InLoop, Here, At, NoSleepOverData, NoticeWaits, ByteStays, locks, AsleepOn, IsEmpty
<1>2. CASE Test
  <2>0. /\ UNCHANGED <<locks, usage, inPtr, outPtr, buffer, isr>> /\ Here(User, "client")
        /\ \/ op' = [op EXCEPT !.step = "copy"] /\ (usage = "read" => ~IsEmpty)
           \/ op' = [op EXCEPT !.step = "lock"] /\ (usage = "read" => IsEmpty)
           \/ op' = NoOp
    BY <1>0, <1>2 DEF Test, AtStep, Goto
  <2>1. /\ UNCHANGED <<locks, usage, inPtr, outPtr, buffer, isr>>
        /\ op' \in [step : Steps, block : BOOLEAN, byte : Data \cup {Null}]
        /\ op'.step \in {"copy", "lock", "client"}
        /\ usage = "read" /\ op'.step = "copy" => ~IsEmpty
        /\ usage = "read" /\ op'.step = "lock" => IsEmpty
    <3>1. op \in [step : Steps, block : BOOLEAN, byte : Data \cup {Null}]
      BY <1>0 DEF RTypeOK
    <3>2. ASSUME NEW s \in Steps, op' = [op EXCEPT !.step = s]
          PROVE  /\ op' \in [step : Steps, block : BOOLEAN, byte : Data \cup {Null}]
                 /\ op'.step = s
      BY <3>1, <3>2
    <3>3. /\ NoOp \in [step : Steps, block : BOOLEAN, byte : Data \cup {Null}]
          /\ NoOp.step = "client"
      BY DEF NoOp, Steps
    <3>4. "copy" \in Steps /\ "lock" \in Steps
      BY DEF Steps
    <3>5. CASE op' = [op EXCEPT !.step = "copy"] /\ (usage = "read" => ~IsEmpty)
      BY <2>0, <3>2, <3>4, <3>5
    <3>6. CASE op' = [op EXCEPT !.step = "lock"] /\ (usage = "read" => IsEmpty)
      BY <2>0, <3>2, <3>4, <3>6
    <3>7. CASE op' = NoOp
      BY <2>0, <3>3, <3>7
    <3> QED BY <2>0, <3>5, <3>6, <3>7
  <2>2. RTypeOK' /\ SleepsWell'
    BY <1>0, <2>1 DEF RTypeOK, SleepsWell, locks
  <2> QED
    BY <1>0, <2>0, <2>1, <2>2, One DEF InLoop, Here, At, NoSleepOverData, NoticeWaits, ByteStays, locks, AsleepOn, IsEmpty
<1>3. CASE Wait
  <2>1. /\ UNCHANGED <<condLock, usage, inPtr, outPtr, buffer, isr>> /\ op.step = "lock"
        /\ op'.step = "test" /\ ~isr /\ Here(User, "client") /\ LockMutex(User, mutex)
        /\ op' \in [step : Steps, block : BOOLEAN, byte : Data \cup {Null}]
    BY <1>0, <1>3 DEF Wait, AtStep, Goto, Steps, RTypeOK
  <2>2. /\ SleepsWell' /\ mutexLock' \in [Mutexes -> {0, 1}]
        /\ waitObj'[User] = mutex => mutexLock[mutex] # 0
    BY <2>1, LockKeeps
  <2>3. RTypeOK'
    BY <1>0, <2>1, <2>2 DEF RTypeOK
  <2>4. NoSleepOverData'
    BY <1>0, <2>1, <2>2 DEF NoSleepOverData, NoticeWaits, AsleepOn, IsEmpty
  <2> QED BY <1>0, <2>1, <2>2, <2>3, <2>4 DEF InLoop, NoticeWaits, ByteStays, IsEmpty
<1>4. CASE Woken
  <2>1. /\ UNCHANGED <<waitQ, waitObj, usage, inPtr, outPtr, buffer, op, isr>>
        /\ waitObj[User] = Null /\ At(User, "lockWaiting") /\ TakeMutex(User, call[User].mutex)
    BY <1>4 DEF Woken, LockResumed, ring, Here, Asleep
  <2>2. call[User].mutex = mutex
    BY <1>0, <2>1, One DEF At, SleepsWell
  <2>3. mutexLock' = [mutexLock EXCEPT ![mutex] = 1] /\ call' = [call EXCEPT ![User] = Client]
    BY <2>1, <2>2 DEF TakeMutex
  <2>4. RTypeOK'
    BY <1>0, <2>1, <2>3 DEF RTypeOK
  <2>5. SleepsWell'
    BY <1>0, <2>1, <2>3, One DEF SleepsWell
  <2>6. op.step = "test" /\ call'[User] # Waiting
    BY <1>0, <2>1, <2>3, One DEF InLoop, SleepsWell, At
  <2> QED
    BY <1>0, <2>1, <2>4, <2>5, <2>6 DEF InLoop, NoSleepOverData, NoticeWaits, ByteStays, AsleepOn, IsEmpty
<1>5. CASE Fetch
  <2>1. /\ UNCHANGED <<locks, usage, inPtr, outPtr, buffer, isr>> /\ Here(User, "client")
        /\ op.step = "copy" /\ usage = "read"
        /\ op' = [op EXCEPT !.step = "advance", !.byte = buffer[outPtr]]
    BY <1>5 DEF Fetch, AtStep
  <2>2. /\ op' \in [step : Steps, block : BOOLEAN, byte : Data \cup {Null}]
        /\ op'.step = "advance" /\ op'.byte = buffer[outPtr]
    BY <1>0, <2>1 DEF RTypeOK, Steps
  <2>3. RTypeOK' /\ SleepsWell'
    BY <1>0, <2>1, <2>2 DEF RTypeOK, SleepsWell, locks
  <2> QED
    BY <1>0, <2>1, <2>2, <2>3, One
       DEF InLoop, NoSleepOverData, NoticeWaits, ByteStays, locks, AsleepOn, IsEmpty, Here, At
<1>6. CASE EndGet
  <2>1. /\ UNCHANGED <<locks, usage, inPtr, buffer, isr>> /\ Here(User, "client")
        /\ usage = "read" /\ outPtr' = Wrap(outPtr) /\ op' = NoOp
    BY <1>6 DEF EndGet, AtStep
  <2>2. /\ op' \in [step : Steps, block : BOOLEAN, byte : Data \cup {Null}]
        /\ op'.step = "client" /\ outPtr' \in 0 .. Size - 1
    BY <1>0, <2>1, One DEF RTypeOK, Steps, NoOp
  <2>3. RTypeOK' /\ SleepsWell'
    BY <1>0, <2>1, <2>2 DEF RTypeOK, SleepsWell, locks
  <2>4. ~AsleepOn(User, mutex)'
    BY <2>1, One DEF AsleepOn, Here, Asleep, locks
  <2> QED
    BY <1>0, <2>1, <2>2, <2>3, <2>4, One
       DEF InLoop, NoSleepOverData, NoticeWaits, ByteStays, locks, Here, At
<1>7. CASE Store
  <2>1. /\ UNCHANGED <<locks, usage, inPtr, outPtr, isr>> /\ Here(User, "client")
        /\ usage = "write" /\ buffer' = [buffer EXCEPT ![inPtr] = op.byte]
        /\ op' = [op EXCEPT !.step = "advance"]
    BY <1>7 DEF Store, AtStep, Goto
  <2>2. /\ op' \in [step : Steps, block : BOOLEAN, byte : Data \cup {Null}]
        /\ buffer' \in [0 .. Size - 1 -> Data \cup {Null}]
    BY <1>0, <2>1 DEF RTypeOK, Steps
  <2>3. RTypeOK' /\ SleepsWell'
    BY <1>0, <2>1, <2>2 DEF RTypeOK, SleepsWell, locks
  <2> QED
    BY <1>0, <2>1, <2>3, One DEF InLoop, NoSleepOverData, NoticeWaits, ByteStays, locks, Here, At
<1>8. CASE EndPut
  <2>1. /\ UNCHANGED <<locks, usage, outPtr, buffer, isr>> /\ Here(User, "client")
        /\ usage = "write" /\ inPtr' = Wrap(inPtr) /\ op' = NoOp
    BY <1>8 DEF EndPut, AtStep
  <2>2. /\ op' \in [step : Steps, block : BOOLEAN, byte : Data \cup {Null}]
        /\ inPtr' \in 0 .. Size - 1
    BY <1>0, <2>1, One DEF RTypeOK, Steps, NoOp
  <2>3. RTypeOK' /\ SleepsWell'
    BY <1>0, <2>1, <2>2 DEF RTypeOK, SleepsWell, locks
  <2> QED
    BY <1>0, <2>1, <2>3, One DEF InLoop, NoSleepOverData, NoticeWaits, ByteStays, locks, Here, At
<1>9. ASSUME NEW x \in Data, Receive(x) PROVE RInv'
  <2>1. /\ UNCHANGED <<locks, usage, outPtr, op>> /\ usage = "read" /\ isr' = TRUE
        /\ \/ UNCHANGED <<inPtr, buffer>>
           \/ /\ Wrap(inPtr) # outPtr /\ inPtr' = Wrap(inPtr)
              /\ buffer' = [buffer EXCEPT ![inPtr] = x]
    BY <1>9 DEF Receive, IsFull
  <2>2. RTypeOK' /\ SleepsWell'
    BY <1>0, <2>1, One, ZenonT(60) DEF RTypeOK, SleepsWell, locks
  <2>3. ~IsEmpty => ~IsEmpty' /\ buffer'[outPtr] = buffer[outPtr]
    BY <1>0, <2>1 DEF IsEmpty, RTypeOK
  <2>4. ByteStays'
    BY <1>0, <2>1, <2>3 DEF ByteStays
  <2> QED
    BY <1>0, <2>1, <2>2, <2>4 DEF InLoop, NoSleepOverData, NoticeWaits, locks
<1>10. CASE Received
  <2>1. /\ UNCHANGED <<condLock, call, usage, inPtr, outPtr, buffer, op>>
        /\ isr /\ isr' = FALSE /\ UnlockMutex(User, mutex)
    BY <1>10 DEF Received
  <2>2. /\ SleepsWell' /\ mutexLock' \in [Mutexes -> {0, 1}] /\ mutexLock'[mutex] = 0
        /\ waitObj'[User] # mutex
    <3>1. CASE /\ mutexLock[mutex] = 1 /\ mutexLock' = [mutexLock EXCEPT ![mutex] = 0]
               /\ Wake(mutex, 1)
      <4>1. waitQ' = << >> /\ waitObj' \in [Threads -> {Null, mutex}] /\ waitObj'[User] = Null
        BY <1>0, <3>1, WakeEnds
      <4> QED BY <1>0, <2>1, <3>1, <4>1, One DEF SleepsWell, RTypeOK
    <3>2. CASE mutexLock[mutex] # 1 /\ UNCHANGED <<mutexLock, waitQ, waitObj>>
      <4>1. mutexLock[mutex] = 0
        BY <1>0, <3>2, One DEF RTypeOK
      <4> QED BY <1>0, <2>1, <3>2, <4>1, One DEF SleepsWell, RTypeOK
    <3> QED BY <2>1, <3>1, <3>2 DEF UnlockMutex
  <2>3. RTypeOK'
    BY <1>0, <2>1, <2>2 DEF RTypeOK
  <2> QED
    BY <1>0, <2>1, <2>2, <2>3
       DEF InLoop, NoSleepOverData, NoticeWaits, ByteStays, AsleepOn, IsEmpty
<1>11. CASE Send
  <2>1. /\ UNCHANGED <<locks, usage, inPtr, buffer, op, isr>> /\ usage = "write"
        /\ outPtr' = Wrap(outPtr)
    BY <1>11 DEF Send
  <2>2. RTypeOK' /\ SleepsWell'
    BY <1>0, <2>1, One DEF RTypeOK, SleepsWell, locks
  <2> QED
    BY <1>0, <2>1, <2>2 DEF InLoop, NoSleepOverData, NoticeWaits, ByteStays, locks
<1>12. CASE UNCHANGED <<locks, ring>>
  <2>1. RTypeOK' /\ SleepsWell'
    BY <1>0, <1>12 DEF RTypeOK, SleepsWell, locks, ring
  <2> QED
    BY <1>0, <1>12, <2>1
       DEF InLoop, NoSleepOverData, NoticeWaits, ByteStays, locks, ring, AsleepOn, IsEmpty
<1> HIDE DEF RInv
<1> QED
  BY <1>1, <1>2, <1>3, <1>4, <1>5, <1>6, <1>7, <1>8, <1>9, <1>10, <1>11, <1>12 DEF RNext, GoOn

-----------------------------------------------------------------------------
(* The theorems.                                                           *)

\* The invariant holds in every state the thread and the handler can reach.
THEOREM RingInvariance == RSpec => []RInv
BY RingStarts, RingSteps, PTL DEF RSpec

\* Every variable keeps its type: the pointers stay in a buffer of any size.
THEOREM RingTypeCorrect == RSpec => []RTypeOK
<1>1. RInv => RTypeOK
  BY DEF RInv
<1> QED BY <1>1, RingInvariance, PTL

\* A get never sleeps over bytes: whenever the handler is between the test and
\* the sleep, its notification is found by the mutex_lock.
THEOREM NoNotificationLost == RSpec => []NoSleepOverData
<1>1. RInv => NoSleepOverData
  BY DEF RInv
<1> QED BY <1>1, RingInvariance, PTL

\* The byte a get is about to return is the first in the buffer, although the
\* handler fills the buffer between its two steps.
THEOREM GetTakesTheFirst == RSpec => []FetchedIsFirst
<1>1. RInv => FetchedIsFirst
  <2> SUFFICES ASSUME RInv, usage = "read", op.step = "advance"
               PROVE  ~IsEmpty /\ op.byte = Head(Contents)
    BY DEF FetchedIsFirst
  <2>1. /\ Size \in Nat /\ Size > 1 /\ inPtr \in 0 .. Size - 1 /\ outPtr \in 0 .. Size - 1
        /\ inPtr # outPtr /\ op.byte = buffer[outPtr]
    BY One DEF RInv, RTypeOK, ByteStays, IsEmpty
  <2> DEFINE n == (Size + inPtr - outPtr) % Size
  <2>2. n \in Nat /\ n > 0
    BY <2>1
  <2>3. (outPtr + 1 - 1) % Size = outPtr
    BY <2>1
  <2>4. Contents = [i \in 1 .. n |-> buffer[(outPtr + i - 1) % Size]]
    BY DEF Contents
  <2> HIDE DEF n
  <2>5. Head(Contents) = Contents[1] /\ Contents[1] = buffer[(outPtr + 1 - 1) % Size]
    BY <2>2, <2>4
  <2> QED BY <2>1, <2>3, <2>5 DEF IsEmpty
<1> QED BY <1>1, RingInvariance, PTL

-----------------------------------------------------------------------------
(* The ring buffer is a queue, whatever the two sides are in the middle of.  *)

\* A put that has found room keeps it, and what it has stored, until its
\* pointer moves on.
PutStays ==
  usage = "write" =>
    /\ op.step # "client" => op.byte \in Data
    /\ op.step \in {"copy", "advance"} => ~IsFull
    /\ op.step = "advance" => buffer[inPtr] = op.byte

\* The number of bytes between two pointers, and the slot of the i-th.
Count(in, out) == (Size + in - out) % Size
Slot(out, i) == (out + i - 1) % Size

LEMMA Counting ==
  ASSUME NEW in \in 0 .. Size - 1, NEW out \in 0 .. Size - 1
  PROVE  /\ Count(in, out) \in 0 .. Size - 1 /\ (Count(in, out) = 0 <=> in = out)
         /\ Wrap(in) # out => Count(in, out) < Size - 1 /\ Count(Wrap(in), out) = Count(in, out) + 1
         /\ in # out => Count(in, Wrap(out)) = Count(in, out) - 1
<1>1. CASE in >= out
  <2>1. Count(in, out) = in - out
    BY <1>1, One DEF Count
  <2> QED BY <1>1, <2>1, One DEF Count, Wrap
<1>2. CASE in < out
  <2>1. Count(in, out) = Size + in - out
    BY <1>2, One DEF Count
  <2> QED BY <1>2, <2>1, One DEF Count, Wrap
<1> QED BY <1>1, <1>2

LEMMA Slots ==
  ASSUME NEW out \in 0 .. Size - 1, NEW i \in 1 .. Size
  PROVE  /\ Slot(out, i) \in 0 .. Size - 1
         /\ Slot(out, i) = IF out + i - 1 < Size THEN out + i - 1 ELSE out + i - 1 - Size
BY One DEF Slot

\* The bytes occupy slots that are not the one of inPtr_, which comes next.
LEMMA BytesApart ==
  ASSUME NEW in \in 0 .. Size - 1, NEW out \in 0 .. Size - 1
  PROVE  /\ \A i \in 1 .. Count(in, out) : Slot(out, i) \in 0 .. Size - 1 /\ Slot(out, i) # in
         /\ Slot(out, Count(in, out) + 1) = in
         /\ \A i \in 1 .. Count(in, out) : Slot(Wrap(out), i) = Slot(out, i + 1)
<1>1. Count(in, out) = IF in >= out THEN in - out ELSE Size + in - out
  BY One DEF Count
<1>2. ASSUME NEW i \in 1 .. Count(in, out)
      PROVE  Slot(out, i) \in 0 .. Size - 1 /\ Slot(out, i) # in
  <2>1. i \in 1 .. Size
    BY <1>1, One
  <2>2. /\ Slot(out, i) \in 0 .. Size - 1
        /\ Slot(out, i) = IF out + i - 1 < Size THEN out + i - 1 ELSE out + i - 1 - Size
    BY <2>1, Slots
  <2>3. in >= out => i <= in - out
    BY <1>1
  <2>4. in < out => i <= Size + in - out
    BY <1>1
  <2> QED BY <2>1, <2>2, <2>3, <2>4, One
<1>3. Slot(out, Count(in, out) + 1) = in
  BY <1>1, Slots, One
<1>4. ASSUME NEW i \in 1 .. Count(in, out) PROVE Slot(Wrap(out), i) = Slot(out, i + 1)
  <2>1. i \in 1 .. Size /\ i + 1 \in 1 .. Size /\ Wrap(out) \in 0 .. Size - 1
    BY <1>1, One
  <2> QED BY <2>1, Slots, One DEF Wrap
<1> QED BY <1>2, <1>3, <1>4

LEMMA ContentsAre ==
  ASSUME RTypeOK
  PROVE  /\ Contents = [i \in 1 .. Count(inPtr, outPtr) |-> buffer[Slot(outPtr, i)]]
         /\ Contents \in Seq(Data \cup {Null}) /\ Len(Contents) = Count(inPtr, outPtr)
<1>1. Contents = [i \in 1 .. Count(inPtr, outPtr) |-> buffer[Slot(outPtr, i)]]
  BY DEF Contents, Count, Slot
<1>2. Count(inPtr, outPtr) \in Nat
  <2>1. inPtr \in 0 .. Size - 1 /\ outPtr \in 0 .. Size - 1
    BY DEF RTypeOK
  <2>2. Count(inPtr, outPtr) \in 0 .. Size - 1
    BY <2>1, Counting
  <2> QED BY <2>2, One
<1>3. \A i \in 1 .. Count(inPtr, outPtr) : buffer[Slot(outPtr, i)] \in Data \cup {Null}
  BY BytesApart DEF RTypeOK
<1> HIDE DEF Contents
<1> QED BY <1>1, <1>2, <1>3

\* A put at its end: the byte is the last one now.
LEMMA PutAppends ==
  ASSUME RTypeOK, RTypeOK', NEW x \in Data, ~IsFull, inPtr' = Wrap(inPtr), outPtr' = outPtr,
         buffer' = [buffer EXCEPT ![inPtr] = x]
  PROVE  Q!Put(x)
<1> DEFINE n == Count(inPtr, outPtr)
<1>1. /\ inPtr \in 0 .. Size - 1 /\ outPtr \in 0 .. Size - 1 /\ Wrap(inPtr) # outPtr
      /\ buffer \in [0 .. Size - 1 -> Data \cup {Null}]
  BY DEF RTypeOK, IsFull
<1>2. n \in Nat /\ n < Size - 1 /\ Count(inPtr', outPtr') = n + 1
  BY <1>1, Counting, One
<1>3. /\ Contents = [i \in 1 .. n |-> buffer[Slot(outPtr, i)]]
      /\ Contents \in Seq(Data \cup {Null}) /\ Len(Contents) = n
  BY ContentsAre
<1>4. Contents' = [i \in 1 .. n + 1 |-> buffer'[Slot(outPtr, i)]]
  BY <1>2 DEF Contents, Count, Slot
<1>5. /\ \A i \in 1 .. n : buffer'[Slot(outPtr, i)] = buffer[Slot(outPtr, i)]
      /\ buffer'[Slot(outPtr, n + 1)] = x
  BY <1>1, BytesApart
<1> HIDE DEF n, Contents
<1>6. Contents' = Append(Contents, x)
  BY <1>2, <1>3, <1>4, <1>5
<1> QED BY <1>2, <1>3, <1>6 DEF Q!Put

\* A get at its end: the first byte is gone.
LEMMA GetRemoves ==
  ASSUME RTypeOK, RTypeOK', ~IsEmpty, outPtr' = Wrap(outPtr), UNCHANGED <<inPtr, buffer>>
  PROVE  Q!Get
<1> DEFINE n == Count(inPtr, outPtr)
<1>1. inPtr \in 0 .. Size - 1 /\ outPtr \in 0 .. Size - 1 /\ inPtr # outPtr
  BY DEF RTypeOK, IsEmpty
<1>2. n \in Nat /\ n > 0 /\ Count(inPtr', outPtr') = n - 1
  BY <1>1, Counting, One
<1>3. /\ Contents = [i \in 1 .. n |-> buffer[Slot(outPtr, i)]]
      /\ Contents \in Seq(Data \cup {Null}) /\ Len(Contents) = n
  BY ContentsAre
<1>4. Contents' = [i \in 1 .. n - 1 |-> buffer[Slot(outPtr', i)]]
  BY <1>2 DEF Contents, Count, Slot
<1>5. \A i \in 1 .. n : Slot(outPtr', i) = Slot(outPtr, i + 1)
  BY <1>1, BytesApart
<1> HIDE DEF n, Contents
<1>6. Contents' = Tail(Contents)
  BY <1>2, <1>3, <1>4, <1>5
<1> QED BY <1>2, <1>3, <1>6 DEF Q!Get

LEMMA PutSteps ==
  ASSUME RInv, PutStays, [RNext]_<<locks, ring>>
  PROVE  PutStays'
<1>0. /\ RTypeOK /\ inPtr \in 0 .. Size - 1 /\ outPtr \in 0 .. Size - 1
  BY DEF RInv, RTypeOK
<1>1. CASE Start
  <2>1. UNCHANGED <<usage, inPtr, outPtr, buffer>> /\ op'.step = "test"
        /\ (usage = "write" => op'.byte \in Data)
    BY <1>1, <1>0 DEF Start, RInv
  <2> QED BY <2>1 DEF PutStays
<1>2. CASE Test
  <2>1. /\ UNCHANGED <<usage, inPtr, outPtr, buffer>> /\ op.step = "test"
        /\ \/ op' = [op EXCEPT !.step = "copy"] /\ (usage = "write" => ~IsFull)
           \/ op' = [op EXCEPT !.step = "lock"]
           \/ op' = NoOp
    BY <1>2 DEF Test, AtStep, Goto
  <2>2. op \in [step : Steps, block : BOOLEAN, byte : Data \cup {Null}]
    BY <1>0 DEF RTypeOK
  <2>3. /\ \/ op'.step \in {"copy", "lock"} /\ op'.byte = op.byte
           \/ op'.step = "client"
        /\ op'.step = "copy" /\ usage = "write" => ~IsFull
    BY <2>1, <2>2 DEF NoOp
  <2> QED BY <2>1, <2>3 DEF PutStays, IsFull
<1>3. CASE Wait
  <2>1. /\ UNCHANGED <<usage, inPtr, outPtr, buffer>> /\ op.step = "lock"
        /\ op'.step = "test" /\ op'.byte = op.byte
    BY <1>3, <1>0 DEF Wait, AtStep, Goto, RTypeOK
  <2> QED BY <2>1 DEF PutStays
<1>4. CASE Woken \/ UNCHANGED <<locks, ring>>
  BY <1>4 DEF Woken, ring, PutStays, IsFull
<1>5. CASE Fetch \/ EndGet \/ (\E x \in Data : Receive(x))
  BY <1>5 DEF Fetch, EndGet, Receive, PutStays
<1>6. CASE Store
  <2>1. /\ UNCHANGED <<usage, inPtr, outPtr>> /\ op.step = "copy" /\ usage = "write"
        /\ buffer' = [buffer EXCEPT ![inPtr] = op.byte] /\ op'.byte = op.byte
    BY <1>6, <1>0 DEF Store, AtStep, Goto, RTypeOK
  <2>2. buffer'[inPtr] = op.byte
    BY <1>0, <2>1 DEF RTypeOK
  <2> QED BY <2>1, <2>2 DEF PutStays, IsFull
<1>7. CASE EndPut
  BY <1>7 DEF EndPut, PutStays, NoOp
<1>8. CASE Received
  BY <1>8 DEF Received, PutStays, IsFull
<1>9. CASE Send
  <2>1. /\ UNCHANGED <<usage, inPtr, buffer, op>> /\ inPtr # outPtr /\ outPtr' = Wrap(outPtr)
    BY <1>9 DEF Send, IsEmpty
  <2>2. Wrap(inPtr) # Wrap(outPtr)
    BY <1>0, <2>1, One DEF Wrap
  <2> QED BY <2>1, <2>2 DEF PutStays, IsFull
<1> QED
  BY <1>1, <1>2, <1>3, <1>4, <1>5, <1>6, <1>7, <1>8, <1>9 DEF RNext, GoOn

\* What a step does to the bytes in the buffer: one goes in, one goes out, or
\* none.
LEMMA StepIsQueued ==
  ASSUME RInv, RInv', PutStays, [RNext]_<<locks, ring>>
  PROVE  [Q!QNext]_Contents
<1>0. RTypeOK /\ RTypeOK' /\ inPtr \in 0 .. Size - 1 /\ outPtr \in 0 .. Size - 1
  BY DEF RInv, RTypeOK
<1>1. CASE UNCHANGED <<inPtr, outPtr, buffer>>
  BY <1>1 DEF Contents
<1>2. CASE EndGet
  <2>1. ~IsEmpty /\ outPtr' = Wrap(outPtr) /\ UNCHANGED <<inPtr, buffer>>
    BY <1>2 DEF EndGet, AtStep, RInv, ByteStays
  <2> QED BY <1>0, <2>1, GetRemoves DEF Q!QNext
<1>3. CASE Send
  <2>1. ~IsEmpty /\ outPtr' = Wrap(outPtr) /\ UNCHANGED <<inPtr, buffer>>
    BY <1>3 DEF Send
  <2> QED BY <1>0, <2>1, GetRemoves DEF Q!QNext
<1>4. CASE EndPut
  <2>1. /\ op.byte \in Data /\ ~IsFull /\ buffer[inPtr] = op.byte
        /\ inPtr' = Wrap(inPtr) /\ outPtr' = outPtr /\ buffer' = buffer
    BY <1>4 DEF EndPut, AtStep, PutStays
  <2>2. buffer' = [buffer EXCEPT ![inPtr] = op.byte]
    BY <1>0, <2>1 DEF RTypeOK
  <2> QED BY <1>0, <2>1, <2>2, PutAppends DEF Q!QNext
<1>5. ASSUME NEW x \in Data, Receive(x) PROVE [Q!QNext]_Contents
  <2>1. CASE UNCHANGED <<inPtr, outPtr, buffer>>
    BY <2>1, <1>1
  <2>2. CASE ~IsFull /\ buffer' = [buffer EXCEPT ![inPtr] = x] /\ inPtr' = Wrap(inPtr)
    <3>1. outPtr' = outPtr
      BY <1>5 DEF Receive
    <3> QED BY <1>0, <2>2, <3>1, PutAppends DEF Q!QNext
  <2> QED BY <1>5, <2>1, <2>2 DEF Receive
<1>6. CASE Store
  <2> DEFINE n == Count(inPtr, outPtr)
  <2>1. inPtr' = inPtr /\ outPtr' = outPtr /\ buffer' = [buffer EXCEPT ![inPtr] = op.byte]
    BY <1>6 DEF Store
  <2>2. Contents = [i \in 1 .. n |-> buffer[Slot(outPtr, i)]]
    BY <1>0, ContentsAre
  <2>3. Contents' = [i \in 1 .. n |-> buffer'[Slot(outPtr, i)]]
    BY <2>1 DEF Contents, Count, Slot
  <2>4. \A i \in 1 .. n : buffer'[Slot(outPtr, i)] = buffer[Slot(outPtr, i)]
    BY <1>0, <2>1, BytesApart DEF RTypeOK
  <2> HIDE DEF n, Contents
  <2> QED BY <2>2, <2>3, <2>4
<1>7. CASE Start \/ Test \/ Wait \/ Woken \/ Fetch \/ Received \/ UNCHANGED <<locks, ring>>
  BY <1>7, <1>1 DEF Start, Test, Wait, Woken, Fetch, Received, ring
<1> QED
  BY <1>2, <1>3, <1>4, <1>5, <1>6, <1>7 DEF RNext, GoOn

\* The ring buffer implements a queue of at most Size - 1 bytes: nothing that
\* went in is lost, repeated or reordered, at any interleaving of the handler
\* with the two steps of the thread's put or get.
THEOREM RingIsFifo == RSpec => InOrder
<1>1. RInit => Q!QInit /\ PutStays
  <2> SUFFICES ASSUME RInit PROVE Q!QInit /\ PutStays
    OBVIOUS
  <2>1. RTypeOK /\ Count(inPtr, outPtr) = 0
    <3>1. inPtr = 0 /\ outPtr = 0 /\ RTypeOK
      BY RingStarts DEF RInit, RInv
    <3> QED BY <3>1, Counting, One
  <2>2. Len(Contents) = 0 /\ Contents \in Seq(Data \cup {Null})
    BY <2>1, ContentsAre
  <2>3. Contents = << >>
    BY <2>2, EmptySeq
  <2> QED BY <2>3 DEF Q!QInit, RInit, PutStays, NoOp
<1>2. RInv /\ RInv' /\ PutStays /\ [RNext]_<<locks, ring>> => PutStays' /\ [Q!QNext]_Contents
  BY PutSteps, StepIsQueued
<1> QED BY <1>1, <1>2, RingInvariance, PTL DEF RSpec, InOrder, Q!QSpec
=============================================================================
