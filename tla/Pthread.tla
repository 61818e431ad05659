------------------------------- MODULE Pthread -------------------------------
(***************************************************************************)
(* The kernel's mutexes and condition variables (kernel/pthread.cpp) on    *)
(* top of the scheduler, used by threads that keep the pthread discipline: *)
(* a thread unlocks or waits with a mutex only while its lock call on that *)
(* mutex has returned and it has not unlocked it since.                    *)
(*                                                                         *)
(* A pthread call is one or more stretches between local_irq_disable and   *)
(* local_irq_restore, and an action is one stretch.  A call that has to    *)
(* wait leaves the processor inside its stretch; the rest of the stretch   *)
(* runs when the thread is dispatched again, before any interrupt.         *)
(***************************************************************************)
EXTENDS TaskManager

CONSTANTS Mutexes, Conds,   \* addresses of pthread_mutex_t, pthread_cond_t
          WakeUps           \* what clients use: 1 cond_signal, 0 cond_broadcast

ASSUME PthreadAssumption ==
  /\ Objects = Mutexes \cup Conds /\ Mutexes \cap Conds = {}
  /\ WakeUps \subseteq {0, 1} /\ 0 \in Delays

VARIABLES mutexLock,   \* pthread_mutex_t::iLock
          condLock,    \* pthread_cond_t::iLock
          call,        \* the pthread call each thread is in
          held,        \* the mutexes each thread has locked, as its client sees it
          owed         \* history: threads in cond_wait for whom a broadcast came

pvars == <<vars, mutexLock, condLock, call, held, owed>>

Places == {"client",         \* outside pthread.cpp
           "lockWaiting",    \* in genwait_wait of mutex_lock
           "unlocked",       \* in cond_wait, past its mutex_unlock
           "condWaiting",    \* in genwait_wait of cond_wait
           "relocking"}      \* in cond_wait, before its mutex_lock

Client == [at |-> "client", mutex |-> Null, cond |-> Null, us |-> 0]
At(t, p) == call[t].at = p
\* The current thread is at place p of a call.
Here(p) == ~halted /\ current \in Threads /\ At(current, p)
MoveTo(p) == call' = [call EXCEPT ![current].at = p]

\* A dispatched thread that was waiting resumes with interrupts disabled.
InterruptsOn ==
  current \in Threads => ~At(current, "lockWaiting") /\ ~At(current, "condWaiting")

PInit ==
  /\ Init
  /\ mutexLock = [m \in Mutexes |-> 0]
  /\ condLock = [c \in Conds |-> 1]
  /\ call = [t \in Threads |-> Client]
  /\ held = [t \in Threads |-> {}]
  /\ owed = {}

\* Wrong: the lock counts the threads that took it.
TakeMutexCounting(m) ==
  /\ mutexLock' = [mutexLock EXCEPT ![m] = @ + 1]
  /\ held' = [held EXCEPT ![current] = @ \cup {m}]
  /\ call' = [call EXCEPT ![current] = Client]

\* mutex_lock gets the mutex and returns (from cond_wait too, when it is the
\* last call of that).
TakeMutex(m) ==
  /\ mutexLock' = [mutexLock EXCEPT ![m] = 1]
  /\ held' = [held EXCEPT ![current] = @ \cup {m}]
  /\ call' = [call EXCEPT ![current] = Client]

\* k_pthread_mutex_lock(m) from its entry: takes the mutex or starts waiting.
LockMutex(m) ==
  \/ mutexLock[m] = 0 /\ TakeMutex(m) /\ UNCHANGED vars
  \/ /\ mutexLock[m] # 0
     /\ GenwaitWait(m, 0)
     /\ call' = [call EXCEPT ![current] = [Client EXCEPT !.at = "lockWaiting", !.mutex = m]]
     /\ UNCHANGED <<mutexLock, held>>

Lock(m) ==
  /\ Here("client") /\ m \notin held[current]
  /\ LockMutex(m)
  /\ UNCHANGED <<condLock, owed>>

\* The rest of k_pthread_mutex_lock after genwait_wait: iLock is not looked at
\* again.
LockResumed ==
  /\ Here("lockWaiting")
  /\ TakeMutex(call[current].mutex)
  /\ UNCHANGED <<vars, condLock, owed>>

\* k_pthread_mutex_trylock(m); a failure changes nothing.
TryLock(m) ==
  /\ Here("client") /\ m \notin held[current]
  /\ mutexLock[m] = 0 /\ TakeMutex(m)
  /\ UNCHANGED <<vars, condLock, owed>>

\* Wrong: nobody is woken.
UnlockSilently(m) ==
  /\ held' = [held EXCEPT ![current] = @ \ {m}]
  /\ mutexLock' = [mutexLock EXCEPT ![m] = 0]
  /\ UNCHANGED vars

\* The body of k_pthread_mutex_unlock(m).
UnlockMutex(m) ==
  /\ held' = [held EXCEPT ![current] = @ \ {m}]
  /\ \/ /\ mutexLock[m] = 1
        /\ mutexLock' = [mutexLock EXCEPT ![m] = 0]
        /\ GenwaitWake(m, 1)
     \/ mutexLock[m] # 1 /\ UNCHANGED <<vars, mutexLock>>

Unlock(m) ==
  /\ Here("client") /\ m \in held[current]
  /\ UnlockMutex(m)
  /\ UNCHANGED <<condLock, call, owed>>

\* k_pthread_cond_wait(c, m) (us = 0) and k_pthread_cond_timedwait, up to the
\* end of the mutex_unlock: interrupts are on again until the next stretch.
CondWait(c, m, us) ==
  /\ Here("client") /\ m \in held[current]
  /\ UnlockMutex(m)
  /\ call' = [call EXCEPT ![current] = [at |-> "unlocked", mutex |-> m, cond |-> c, us |-> us]]
  /\ UNCHANGED <<condLock, owed>>

\* Wrong: the flag is not looked at.
CondSleepAlways ==
  /\ Here("unlocked")
  /\ GenwaitWait(call[current].cond, call[current].us)
  /\ MoveTo("condWaiting")
  /\ UNCHANGED <<mutexLock, condLock, held, owed>>

\* The second stretch of cond_wait: wait unless the condition is flagged.
CondSleep ==
  /\ Here("unlocked")
  /\ \E c \in {call[current].cond} :
       \/ /\ condLock[c] # 0
          /\ GenwaitWait(c, call[current].us)
          /\ MoveTo("condWaiting")
          /\ UNCHANGED <<condLock, owed>>
       \/ /\ condLock[c] = 0
          /\ condLock' = [condLock EXCEPT ![c] = 1]
          /\ MoveTo("relocking")
          /\ owed' = owed \ {current}
          /\ UNCHANGED vars
  /\ UNCHANGED <<mutexLock, held>>

\* Wrong: the condition stays flagged.
CondResumedFlagged ==
  /\ Here("condWaiting")
  /\ MoveTo("relocking")
  /\ owed' = owed \ {current}
  /\ UNCHANGED <<vars, mutexLock, condLock, held>>

\* The rest of that stretch after genwait_wait, woken or timed out alike.
CondResumed ==
  /\ Here("condWaiting")
  /\ condLock' = [condLock EXCEPT ![call[current].cond] = 1]
  /\ MoveTo("relocking")
  /\ owed' = owed \ {current}
  /\ UNCHANGED <<vars, mutexLock, held>>

\* The mutex_lock at the end of cond_wait.
Relock ==
  /\ Here("relocking")
  /\ LockMutex(call[current].mutex)
  /\ UNCHANGED <<condLock, owed>>

\* A broadcast is for every thread that has unlocked the mutex in cond_wait(c).
Owe(c, max) ==
  owed' = IF max = 0
          THEN owed \cup {t \in Threads : /\ call[t].cond = c
                                          /\ At(t, "unlocked") \/ At(t, "condWaiting")}
          ELSE owed

\* k_pthread_cond_signal(c) (max = 1) and k_pthread_cond_broadcast(c) (max = 0)
\* by a thread; when the condition is already flagged they only return -1.
Notify(c, max) ==
  /\ Here("client")
  /\ Owe(c, max)
  /\ \/ condLock[c] = 1 /\ condLock' = [condLock EXCEPT ![c] = 0] /\ GenwaitWake(c, max)
     \/ condLock[c] # 1 /\ UNCHANGED <<vars, condLock>>
  /\ UNCHANGED <<mutexLock, call, held>>

\* cond_broadcast(c) in an interrupt handler (video sync, sound), and the
\* schedule(false) at the end of the interrupt.
NotifyFromInterrupt(c) ==
  /\ InterruptsOn /\ 0 \in WakeUps
  /\ Owe(c, 0)
  /\ \/ condLock[c] = 1 /\ condLock' = [condLock EXCEPT ![c] = 0] /\ Interrupt(c, 0)
     \/ condLock[c] # 1 /\ Interrupt(Null, 0) /\ UNCHANGED condLock
  /\ UNCHANGED <<mutexLock, call, held>>

\* The scheduler's own operations, between pthread calls or preempting one.
SchedulerStep ==
  /\ \/ \E t \in Threads : Here("client") /\ Create(t)
     \/ Here("client") /\ held[current] = {} /\ Exit
     \/ \E us \in Delays \ {0} : Here("client") /\ GenwaitWait(Null, us)
     \/ InterruptsOn /\ (Interrupt(Null, 0) \/ Tick)
  /\ UNCHANGED <<mutexLock, condLock, call, held, owed>>

PNext ==
  \/ \E m \in Mutexes : Lock(m) \/ TryLock(m) \/ Unlock(m)
  \/ LockResumed
  \/ \E c \in Conds, m \in Mutexes, us \in Delays : CondWait(c, m, us)
  \/ CondSleep \/ CondResumed \/ Relock
  \/ \E c \in Conds, max \in WakeUps : Notify(c, max)
  \/ \E c \in Conds : NotifyFromInterrupt(c)
  \/ SchedulerStep

PSpec == PInit /\ [][PNext]_pvars

\* Threads get on with it: a thread dispatched again and again completes the
\* stretch of a pthread call it is in and, as the discipline asks, unlocks the
\* mutexes it holds; and the timer interrupt keeps coming.
ProgressOf(t) == current = t /\ (LockResumed \/ CondSleep \/ CondResumed \/ Relock)
UnlockBy(t) == current = t /\ \E m \in Mutexes : Unlock(m)
TimerInterrupt == InterruptsOn /\ Tick /\ UNCHANGED <<mutexLock, condLock, call, held, owed>>
PFairSpec ==
  /\ PSpec
  /\ WF_pvars(TimerInterrupt)
  /\ \A t \in Threads : SF_pvars(ProgressOf(t) \/ UnlockBy(t))

-----------------------------------------------------------------------------
(* Properties.                                                             *)

PTypeOK ==
  /\ TypeOK
  /\ mutexLock \in [Mutexes -> {0, 1}]
  /\ condLock \in [Conds -> {0, 1}]
  /\ call \in [Threads -> [at : Places, mutex : Mutexes \cup {Null},
                           cond : Conds \cup {Null}, us : Delays]]
  /\ held \in [Threads -> SUBSET Mutexes]
  /\ owed \subseteq Threads

\* t sleeps in genwait_wait, on obj.
Asleep(t) == eState[t] = "WAITING"
AsleepOn(t, obj) == Asleep(t) /\ waitObj[t] = obj

\* "The channel lock" (srrChannel.h:99): one holder at a time.
MutualExclusion ==
  \A t, u \in Threads : t # u => held[t] \cap held[u] = {}

\* A thread asleep for a mutex is never forgotten: either the mutex is locked
\* and some thread still has to unlock it, or an unlock has already woken a
\* thread that has yet to take it (and to unlock it in turn).
NoStrandedLocker ==
  \A m \in Mutexes :
    (\E t \in Threads : AsleepOn(t, m)) =>
      \/ mutexLock[m] = 1 /\ \E u \in Threads : m \in held[u]
      \/ \E u \in Threads : At(u, "lockWaiting") /\ call[u].mutex = m /\ ~Asleep(u)

\* "Wake all" (pthread.cpp:169): a broadcast ends the wait of every thread that
\* had unlocked its mutex to wait for the condition.
BroadcastWakesAll == \A t \in owed : ~Asleep(t) \/ At(t, "unlocked")

\* cond_signal and cond_broadcast return early when the condition is flagged, so
\* they pass over a thread that sleeps on a flagged condition.  Where only
\* broadcasts are used, no thread ever does.  Where signals are used too, a thread
\* does only while another, which a signal has woken, has yet to run on and reset
\* the flag: in that time a second notification is lost on those still asleep.
FlagIsBeingReset ==
  \A t \in Threads, c \in Conds :
    AsleepOn(t, c) /\ condLock[c] = 0 =>
      /\ 1 \in WakeUps
      /\ \E u \in Threads : At(u, "condWaiting") /\ call[u].cond = c /\ ~Asleep(u)

\* What callers see of the calls is what module Locks says, where any thread
\* that does not wait may go on.
L == INSTANCE Locks
ImplementsLocks == L!LSpec

\* Every mutex_lock returns: an unlock hands the wake-up on to the next waiter.
LocksReturn == \A t \in Threads : At(t, "lockWaiting") ~> At(t, "client")
==============================================================================
