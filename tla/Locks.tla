-------------------------------- MODULE Locks --------------------------------
(***************************************************************************)
(* What k_pthread_mutex_* and k_pthread_cond_* (kernel/pthread.cpp) are to *)
(* the code that calls them: the scheduler is left out, and any thread     *)
(* that is not waiting may take its next step.  Module Pthread, where the  *)
(* scheduler decides who runs, implements this one.                        *)
(*                                                                         *)
(* A call is one or more stretches between local_irq_disable and           *)
(* local_irq_restore, and an action is one stretch.  Threads keep the      *)
(* pthread discipline: a thread unlocks, or waits with, only mutexes it    *)
(* has locked.                                                             *)
(***************************************************************************)
EXTENDS TailQueue

CONSTANTS Threads,
          Mutexes, Conds,   \* addresses of pthread_mutex_t, pthread_cond_t
          Null,             \* the NULL pointer
          Delays,           \* timeouts of cond_timedwait; 0 is cond_wait
          WakeUps           \* what clients use: 1 cond_signal, 0 cond_broadcast

ASSUME LocksAssumption ==
  /\ Mutexes \cap Conds = {} /\ Null \notin Mutexes \cup Conds
  /\ WakeUps \subseteq {0, 1} /\ 0 \in Delays

VARIABLES mutexLock,   \* pthread_mutex_t::iLock
          condLock,    \* pthread_cond_t::iLock
          waitQ,       \* CTaskManager::wait_queue: threads in genwait_wait
          waitObj,     \* CThread::pWaitObj_ of the threads in it, else Null
          call,        \* the pthread call each thread is in
          held         \* the mutexes each thread has locked, as its client sees it

locks == <<mutexLock, condLock, waitQ, waitObj, call, held>>

Places == {"client",         \* outside pthread.cpp
           "lockWaiting",    \* in genwait_wait of mutex_lock
           "unlocked",       \* in cond_wait, past its mutex_unlock
           "condWaiting",    \* in genwait_wait of cond_wait
           "relocking"}      \* in cond_wait, before its mutex_lock

Client == [at |-> "client", mutex |-> Null, cond |-> Null, us |-> 0]
At(t, p) == call[t].at = p
Asleep(t) == waitObj[t] # Null
AsleepOn(t, obj) == waitObj[t] = obj
\* t can take a step of a call it is in at place p.
Here(t, p) == ~Asleep(t) /\ At(t, p)

\* genwait_wait(obj, us) by thread t.
Sleep(t, obj) ==
  /\ waitQ' = Append(waitQ, t)
  /\ waitObj' = [waitObj EXCEPT ![t] = obj]

\* The threads of S leave genwait_wait.
Release(S) ==
  /\ waitQ' = Unlink(waitQ, S)
  /\ waitObj' = [t \in Threads |-> IF t \in S THEN Null ELSE waitObj[t]]

\* genwait_wake(obj, max): in queue order, all or the first max.
Wake(obj, max) ==
  LET on == Keep(waitQ, {t \in Threads : waitObj[t] = obj})
  IN  Release(Range(IF 0 < max /\ max < Len(on) THEN SubSeq(on, 1, max) ELSE on))

LInit ==
  /\ mutexLock = [m \in Mutexes |-> 0]
  /\ condLock = [c \in Conds |-> 1]
  /\ waitQ = << >> /\ waitObj = [t \in Threads |-> Null]
  /\ call = [t \in Threads |-> Client]
  /\ held = [t \in Threads |-> {}]

\* mutex_lock gets the mutex and returns.
TakeMutex(t, m) ==
  /\ mutexLock' = [mutexLock EXCEPT ![m] = 1]
  /\ held' = [held EXCEPT ![t] = @ \cup {m}]
  /\ call' = [call EXCEPT ![t] = Client]

\* k_pthread_mutex_lock(m) from its entry: takes the mutex or starts waiting.
LockMutex(t, m) ==
  \/ mutexLock[m] = 0 /\ TakeMutex(t, m) /\ UNCHANGED <<waitQ, waitObj>>
  \/ /\ mutexLock[m] # 0
     /\ Sleep(t, m)
     /\ call' = [call EXCEPT ![t] = [Client EXCEPT !.at = "lockWaiting", !.mutex = m]]
     /\ UNCHANGED <<mutexLock, held>>

Lock(t, m) ==
  /\ Here(t, "client") /\ m \notin held[t]
  /\ LockMutex(t, m)
  /\ UNCHANGED condLock

\* The rest of k_pthread_mutex_lock after genwait_wait: iLock is not looked at
\* again.
LockResumed(t) ==
  /\ Here(t, "lockWaiting")
  /\ TakeMutex(t, call[t].mutex)
  /\ UNCHANGED <<condLock, waitQ, waitObj>>

\* The body of k_pthread_mutex_unlock(m).
UnlockMutex(t, m) ==
  /\ held' = [held EXCEPT ![t] = @ \ {m}]
  /\ \/ mutexLock[m] = 1 /\ mutexLock' = [mutexLock EXCEPT ![m] = 0] /\ Wake(m, 1)
     \/ mutexLock[m] # 1 /\ UNCHANGED <<mutexLock, waitQ, waitObj>>

Unlock(t, m) ==
  /\ Here(t, "client") /\ m \in held[t]
  /\ UnlockMutex(t, m)
  /\ UNCHANGED <<condLock, call>>

\* k_pthread_cond_wait(c, m) (us = 0) and k_pthread_cond_timedwait, up to the
\* end of the mutex_unlock.
CondWait(t, c, m, us) ==
  /\ Here(t, "client") /\ m \in held[t]
  /\ UnlockMutex(t, m)
  /\ call' = [call EXCEPT ![t] = [at |-> "unlocked", mutex |-> m, cond |-> c, us |-> us]]
  /\ UNCHANGED condLock

\* The second stretch of cond_wait: wait unless the condition is flagged.
CondSleep(t) ==
  /\ Here(t, "unlocked")
  /\ \E c \in {call[t].cond} :
       \/ /\ condLock[c] # 0
          /\ Sleep(t, c)
          /\ call' = [call EXCEPT ![t].at = "condWaiting"]
          /\ UNCHANGED condLock
       \/ /\ condLock[c] = 0
          /\ condLock' = [condLock EXCEPT ![c] = 1]
          /\ call' = [call EXCEPT ![t].at = "relocking"]
          /\ UNCHANGED <<waitQ, waitObj>>
  /\ UNCHANGED <<mutexLock, held>>

\* A timed wait for a condition ends without a wake-up.
Expire(t) ==
  /\ At(t, "condWaiting") /\ Asleep(t) /\ call[t].us > 0
  /\ Release({t})
  /\ UNCHANGED <<mutexLock, condLock, call, held>>

\* The rest of cond_wait's second stretch, woken or timed out alike.
CondResumed(t) ==
  /\ Here(t, "condWaiting")
  /\ condLock' = [condLock EXCEPT ![call[t].cond] = 1]
  /\ call' = [call EXCEPT ![t].at = "relocking"]
  /\ UNCHANGED <<mutexLock, waitQ, waitObj, held>>

\* The mutex_lock at the end of cond_wait.
Relock(t) ==
  /\ Here(t, "relocking")
  /\ LockMutex(t, call[t].mutex)
  /\ UNCHANGED condLock

\* k_pthread_cond_signal(c) (max = 1) and k_pthread_cond_broadcast(c) (max = 0)
\* by a thread or, for a broadcast, an interrupt handler; when the condition is
\* already flagged they only return -1.
Notify(c, max) ==
  /\ \/ condLock[c] = 1 /\ condLock' = [condLock EXCEPT ![c] = 0] /\ Wake(c, max)
     \/ condLock[c] # 1 /\ UNCHANGED <<condLock, waitQ, waitObj>>
  /\ UNCHANGED <<mutexLock, call, held>>

\* A thread in the middle of a call goes on with it.
Proceed(t) == LockResumed(t) \/ CondSleep(t) \/ CondResumed(t) \/ Relock(t)

LNext ==
  \/ \E t \in Threads, m \in Mutexes : Lock(t, m) \/ Unlock(t, m)
  \/ \E t \in Threads, c \in Conds, m \in Mutexes, us \in Delays : CondWait(t, c, m, us)
  \/ \E t \in Threads : Proceed(t) \/ Expire(t)
  \/ \E c \in Conds, max \in WakeUps : Notify(c, max)

LSpec == LInit /\ [][LNext]_locks
==============================================================================
