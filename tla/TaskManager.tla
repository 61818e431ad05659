----------------------------- MODULE TaskManager -----------------------------
(***************************************************************************)
(* The kernel's thread scheduler: CTaskManager (kernel/taskManager.cpp),   *)
(* CThread::state (kernel/task.cpp), generic waits (kernel/genwait.cpp)    *)
(* and the thread calls that drive them (pthread.cpp, unistd.cpp).         *)
(*                                                                         *)
(* One action is one stretch of kernel code that runs with interrupts off: *)
(* a call of genwait_wait / genwait_wake from a cli section, or a whole    *)
(* interrupt service routine.  k_usleep and k_pthread_create/exit do not   *)
(* turn interrupts off; here they are taken whole.                         *)
(*                                                                         *)
(* The definitions whose comments begin with "Wrong:" are not part of the  *)
(* specification: each is a plausible slip in the definition it precedes,  *)
(* there to show which property notices it.                                *)
(*                                                                         *)
(* Threads are the threads other than the boot thread, which bricks_main   *)
(* turns into the idle thread Idle.  Time is counted in microseconds, and  *)
(* a timer interrupt adds Quantum (10000 in the code).                     *)
(***************************************************************************)
EXTENDS TailQueue, FiniteSets

CONSTANTS Threads,    \* threads besides the idle thread
          Tasks,      \* tasks (address spaces)
          TaskOf,     \* CThread::pTask_, fixed at construction
          Main,       \* the thread bricks_main creates
          Idle,       \* CTaskManager::pIdleThread_
          Objects,    \* addresses threads wait on
          Null,       \* the NULL pointer
          Delays,     \* the timeouts callers ask for; 0 is no timeout
          Quantum,    \* microseconds per timer interrupt
          MaxTime     \* bound: no deadline lies beyond MaxTime

ASSUME ThreadsAssumption ==
  /\ IsFiniteSet(Threads)
  /\ Main \in Threads
  /\ Idle \notin Threads /\ Null \notin Threads /\ Idle # Null
ASSUME TasksAssumption == TaskOf \in [Threads -> Tasks] /\ Null \notin Tasks
ASSUME ObjectsAssumption == Null \notin Objects
ASSUME TimeAssumption ==
  Delays \subseteq Nat /\ Quantum \in Nat \ {0} /\ MaxTime \in Nat

VARIABLES eState,       \* CThread::eState_
          readyQ, timerQ, waitQ, deadQ, \* the queues of CTaskManager
          current,      \* CTaskManager::pCurrentThread_
          currentTask,  \* CTaskManager::pCurrentTask_
          time,         \* CTaskManager::iCurrentTime_
          timeout,      \* CThread::iTimeout_
          waitObj,      \* CThread::pWaitObj_
          waitReturn,   \* CThread::iWaitReturn_
          halted        \* panic() was called

waits == <<timerQ, waitQ, timeout, waitObj, waitReturn>>
vars == <<eState, readyQ, deadQ, current, currentTask, time, waits, halted>>

States == {"UNINITIALIZED", "READY", "RUNNING", "WAITING", "DEAD", "DESTROY"}
Gone == {"DEAD", "DESTROY"}

-----------------------------------------------------------------------------
(* Pieces of CThread::state and of CTaskManager::schedule.                 *)

\* Wrong: the preempted thread goes back to the head of the queue.
SwitchBackFirst(st, rest, c, next) ==
  /\ current' = next
  /\ currentTask' = TaskOf[next]
  /\ readyQ' = IF c \in Threads THEN <<c>> \o rest ELSE rest
  /\ eState' = [t \in Threads |-> IF t = next THEN "RUNNING"
                                  ELSE IF t = c THEN "READY" ELSE st[t]]

\* next->state(TS_RUNNING) for a ready thread, rest being the other ready
\* threads: the thread c it preempts goes to the tail of the ready queue.  The
\* idle thread is never queued.
Switch(st, rest, c, next) ==
  /\ current' = next
  /\ currentTask' = TaskOf[next]
  /\ readyQ' = IF c \in Threads THEN Append(rest, c) ELSE rest
  /\ eState' = [t \in Threads |-> IF t = next THEN "RUNNING"
                                  ELSE IF t = c THEN "READY" ELSE st[t]]

\* With no thread ready, whoever is current stays; if nobody is, the idle
\* thread (but not its task) becomes current.
Stay(st, c) ==
  /\ current' = IF c = Null THEN Idle ELSE c
  /\ currentTask' = IF c = Null THEN Null ELSE currentTask
  /\ readyQ' = << >>
  /\ eState' = st

\* Wrong: the idle thread is not preempted.
DispatchKeepsIdle(st, rq, c) ==
  \/ rq # << >> /\ c # Idle /\ Switch(st, Tail(rq), c, Head(rq))
  \/ rq = << >> /\ Stay(st, c)
  \/ c = Idle /\ readyQ' = rq /\ eState' = st /\ UNCHANGED <<current, currentTask>>

\* Wrong: the last ready thread is taken.
DispatchLast(st, rq, c) ==
  \/ rq # << >> /\ Switch(st, SubSeq(rq, 1, Len(rq) - 1), c, rq[Len(rq)])
  \/ rq = << >> /\ Stay(st, c)

\* schedule() after updateSleepers, with thread states st, ready queue rq and
\* current thread c: the first ready thread takes over.
Dispatch(st, rq, c) ==
  \/ rq # << >> /\ Switch(st, Tail(rq), c, Head(rq))
  \/ rq = << >> /\ Stay(st, c)

\* Wrong: a woken thread stays in the timer queue.
LeaveWaitingTimed(w, ret) ==
  /\ timerQ' = timerQ
  /\ waitQ' = Unlink(waitQ, Range(w))
  /\ timeout' = [t \in Threads |-> IF t \in Range(w) THEN 0 ELSE timeout[t]]
  /\ waitObj' = [t \in Threads |-> IF t \in Range(w) THEN Null ELSE waitObj[t]]
  /\ waitReturn' = [t \in Threads |-> IF t \in Range(w) THEN ret[t]
                                      ELSE waitReturn[t]]

\* The threads of the sequence w leave TS_WAITING: unlinked from the timer
\* and wait queues, and returning ret[t] from genwait_wait.
LeaveWaiting(w, ret) ==
  /\ timerQ' = Unlink(timerQ, Range(w))
  /\ waitQ' = Unlink(waitQ, Range(w))
  /\ timeout' = [t \in Threads |-> IF t \in Range(w) THEN 0 ELSE timeout[t]]
  /\ waitObj' = [t \in Threads |-> IF t \in Range(w) THEN Null ELSE waitObj[t]]
  /\ waitReturn' = [t \in Threads |-> IF t \in Range(w) THEN ret[t]
                                      ELSE waitReturn[t]]

\* The thread states once the threads of w entered TS_READY.
MadeReady(w) == [t \in Threads |-> IF t \in Range(w) THEN "READY" ELSE eState[t]]

\* Wrong: the waiters that came last are met first.
WokenLast(obj, max) ==
  LET on == Keep(waitQ, {t \in Threads : waitObj[t] = obj})
  IN  IF 0 < max /\ max < Len(on) THEN SubSeq(on, Len(on) - max + 1, Len(on)) ELSE on

\* The waiters genwait_wake(obj, max) meets, in queue order: the first max of
\* those on obj, or all of them when max is 0.
Woken(obj, max) ==
  LET on == Keep(waitQ, {t \in Threads : waitObj[t] = obj})
  IN  IF 0 < max /\ max < Len(on) THEN SubSeq(on, 1, max) ELSE on

\* Wrong: a deadline that has just been reached does not count.
ExpiredStrictly(now) ==
  IF timerQ # << >> /\ timeout[Head(timerQ)] < now
  THEN <<Head(timerQ)>> ELSE << >>

\* Wrong: the deadline is not looked at.
ExpiredAlways(now) ==
  IF timerQ # << >> THEN <<Head(timerQ)>> ELSE << >>

\* Wrong: a thread that waits for an object is left waiting for it.
ExpiredSleepers(now) ==
  IF timerQ # << >> /\ timeout[Head(timerQ)] <= now /\ waitObj[Head(timerQ)] = Null
  THEN <<Head(timerQ)>> ELSE << >>

\* The threads updateSleepers releases at time now.  The loop walks the timer
\* queue by the link state(TS_READY) has just re-used for the ready queue, so
\* it ends after the first thread it releases.
Expired(now) ==
  IF timerQ # << >> /\ timeout[Head(timerQ)] <= now
  THEN <<Head(timerQ)>> ELSE << >>

\* Wrong: the time and the delay the wrong way round.
DeadlineBackwards(us) == IF us > 0 THEN us - time ELSE 0

\* The deadline of a wait of us microseconds.
Deadline(us) == IF us > 0 THEN time + us ELSE 0

-----------------------------------------------------------------------------
Init ==
  /\ eState = [t \in Threads |-> IF t = Main THEN "READY" ELSE "UNINITIALIZED"]
  /\ readyQ = <<Main>>
  /\ timerQ = << >> /\ waitQ = << >> /\ deadQ = << >>
  /\ current = Null /\ currentTask = Null
  /\ time = 0
  /\ timeout = [t \in Threads |-> 0]
  /\ waitObj = [t \in Threads |-> Null]
  /\ waitReturn = [t \in Threads |-> 0]
  /\ halted = FALSE

\* k_pthread_create by the running thread.
Create(t) ==
  /\ ~halted /\ current \in Threads
  /\ eState[t] = "UNINITIALIZED"
  /\ eState' = [eState EXCEPT ![t] = "READY"]
  /\ readyQ' = Append(readyQ, t)
  /\ UNCHANGED <<deadQ, current, currentTask, time, waits, halted>>

\* Wrong: the exiting thread is still current when schedule() is called.
ExitStillCurrent ==
  /\ ~halted /\ current \in Threads
  /\ deadQ' = Append(deadQ, current)
  /\ Dispatch([eState EXCEPT ![current] = "DEAD"], readyQ, current)
  /\ UNCHANGED <<time, waits, halted>>

\* k_pthread_exit, and the exit system call, by the running thread.
Exit ==
  /\ ~halted /\ current \in Threads
  /\ deadQ' = Append(deadQ, current)
  /\ Dispatch([eState EXCEPT ![current] = "DEAD"], readyQ, Null)
  /\ UNCHANGED <<time, waits, halted>>

\* genwait_wait(obj, us) by the running thread.
GenwaitWait(obj, us) ==
  /\ ~halted /\ current \in Threads
  /\ us > 0 \/ obj # Null
  /\ us > 0 => time + us <= MaxTime
  /\ timeout' = [timeout EXCEPT ![current] = Deadline(us)]
  /\ waitObj' = [waitObj EXCEPT ![current] = obj]
  /\ timerQ' = IF us > 0 THEN InsertSorted(timerQ, timeout', current) ELSE timerQ
  /\ waitQ' = IF obj # Null THEN Append(waitQ, current) ELSE waitQ
  /\ Dispatch([eState EXCEPT ![current] = "WAITING"], readyQ, Null)
  /\ UNCHANGED <<deadQ, time, waitReturn, halted>>

\* genwait_wait(NULL, 0), which is what usleep(0) and sleep(0) ask for:
\* CThread::state panics once the thread has stopped being current.
WaitForNothing ==
  /\ ~halted /\ current \in Threads
  /\ 0 \in Delays
  /\ eState' = [eState EXCEPT ![current] = "WAITING"]
  /\ timeout' = [timeout EXCEPT ![current] = 0]
  /\ waitObj' = [waitObj EXCEPT ![current] = Null]
  /\ current' = Null /\ currentTask' = Null
  /\ halted' = TRUE
  /\ UNCHANGED <<readyQ, timerQ, waitQ, deadQ, time, waitReturn>>

\* genwait_wake(obj, max) by the running thread, which keeps running.
GenwaitWake(obj, max) ==
  /\ ~halted /\ current \in Threads
  /\ LeaveWaiting(Woken(obj, max), [t \in Threads |-> 0])
  /\ eState' = MadeReady(Woken(obj, max))
  /\ readyQ' = readyQ \o Woken(obj, max)
  /\ UNCHANGED <<deadQ, current, currentTask, time, halted>>

\* A device interrupt or the end of a system call: the handler may call
\* genwait_wake (obj is Null when it does not), then isr calls schedule(false).
Interrupt(obj, max) ==
  /\ ~halted
  /\ LeaveWaiting(Woken(obj, max), [t \in Threads |-> 0])
  /\ Dispatch(MadeReady(Woken(obj, max)), readyQ \o Woken(obj, max), current)
  /\ UNCHANGED <<deadQ, time, halted>>

\* The clock after a timer interrupt; it stands still once every deadline
\* the bound MaxTime allows is in the past.
Advanced == IF time < MaxTime THEN time + Quantum ELSE time

\* The timer interrupt, schedule(true): updateSleepers, destroyDeadThreads
\* (which re-queues the dead threads in the order they were in), then dispatch.
Tick ==
  LET w == Expired(Advanced)
      st == MadeReady(w)
  IN  /\ ~halted
      /\ time' = Advanced
      /\ LeaveWaiting(w, [t \in Threads |-> IF waitObj[t] # Null THEN -1 ELSE 0])
      /\ Dispatch([t \in Threads |-> IF st[t] = "DEAD" THEN "DESTROY" ELSE st[t]],
                  readyQ \o w, current)
      /\ UNCHANGED <<deadQ, halted>>

Next ==
  \/ \E t \in Threads : Create(t)
  \/ Exit
  \/ \E obj \in Objects \cup {Null}, us \in Delays : GenwaitWait(obj, us)
  \/ WaitForNothing
  \/ \E obj \in Objects, max \in {0, 1} : GenwaitWake(obj, max)
  \/ \E obj \in Objects \cup {Null}, max \in {0, 1} : Interrupt(obj, max)
  \/ Tick

Spec == Init /\ [][Next]_vars

\* The timer interrupt keeps coming (the i8254 is programmed for 100 Hz);
\* nothing is assumed of the threads.
FairSpec == Spec /\ WF_vars(Tick)

-----------------------------------------------------------------------------
(* Properties.                                                             *)

\* Every variable has its type.
TypeOK ==
  /\ eState \in [Threads -> States]
  /\ readyQ \in Seq(Threads) /\ timerQ \in Seq(Threads)
  /\ waitQ \in Seq(Threads) /\ deadQ \in Seq(Threads)
  /\ current \in Threads \cup {Idle, Null}
  /\ currentTask \in Tasks \cup {Null}
  /\ time \in Nat
  /\ timeout \in [Threads -> Nat]
  /\ waitObj \in [Threads -> Objects \cup {Null}]
  /\ waitReturn \in [Threads -> {0, -1}]
  /\ halted \in BOOLEAN

\* No thread is linked twice into a queue.
QueuesInjective ==
  IsInjective(readyQ) /\ IsInjective(timerQ) /\ IsInjective(waitQ) /\ IsInjective(deadQ)

\* A thread's state tells which queues hold it.
PlaceOfState(t) ==
  /\ t \in Range(readyQ) <=> eState[t] = "READY"
  /\ t \in Range(timerQ) <=> timeout[t] > 0
  /\ t \in Range(waitQ) <=> waitObj[t] # Null
  /\ t \in Range(deadQ) <=> eState[t] \in Gone
  /\ eState[t] = "WAITING" <=> (timeout[t] > 0 \/ waitObj[t] # Null)
  /\ eState[t] = "RUNNING" <=> t = current

\* CThread::state keeps the queues, the state and the current thread in step:
\* no thread is lost (in no queue, so that nothing can ever run it again),
\* queued twice, or linked by its one state_qe into two of the ready, timer
\* and dead queues, and pCurrentTask_ is the task of pCurrentThread_.
QueuesMatchStates ==
  ~halted =>
    /\ QueuesInjective
    /\ \A t \in Threads : PlaceOfState(t)
    /\ currentTask = IF current \in Threads THEN TaskOf[current] ELSE Null

\* The early exit of updateSleepers is right: the timer queue is in the order
\* of the deadlines.
TimerSorted == Sorted(timerQ, timeout)

\* The processor never idles while a thread could run: every handler that
\* makes a thread ready while the idle thread is current also dispatches it.
IdleOnlyIfNothingReady == current = Idle => readyQ = << >>

\* updateSleepers releases one thread per timer interrupt, so a sleeper may be
\* late; it is late by less than a quantum for each thread there is, minus one
\* for each place it still has to move up, whatever the threads do.
LatenessBounded ==
  \A i \in DOMAIN timerQ :
    timeout[timerQ[i]] <= time =>
      (time - timeout[timerQ[i]]) + i * Quantum < Cardinality(Threads) * Quantum

\* A dead thread never runs, waits or is queued for the processor again ("We
\* will never get here", isr.cpp:318), destroyDeadThreads or not.
DeadIsFinal == [][\A t \in Threads : eState[t] \in Gone => eState'[t] \in Gone]_vars

\* A thread leaves a wait only because its object was woken, and then
\* genwait_wait returns 0, or because its deadline has been reached, and then
\* it returns -1 exactly if it was waiting for an object.
WakeIsEarned ==
  [][\A t \in Threads : eState[t] = "WAITING" /\ eState'[t] # "WAITING" =>
       \/ waitObj[t] # Null /\ waitReturn'[t] = 0
       \/ /\ 0 < timeout[t] /\ timeout[t] <= time'
          /\ waitReturn'[t] = IF waitObj[t] = Null THEN 0 ELSE -1]_vars

\* t is ahead of u in queue q.
Ahead(q, t, u) == \E i, j \in DOMAIN q : i < j /\ q[i] = t /\ q[j] = u

\* Round robin: a ready thread is never overtaken by one behind it, so it is
\* dispatched after at most as many dispatches as there are threads ahead.
NoOvertakingInReadyQueue ==
  [][\A t, u \in Threads :
       Ahead(readyQ, t, u) =>
         /\ eState'[u] = "RUNNING" => eState'[t] # "READY"
         /\ eState'[t] = "READY" /\ eState'[u] = "READY" => Ahead(readyQ', t, u)]_vars

\* genwait_wake serves the waiters of one object in the order they came: a
\* waiter released before an earlier one was released by its timeout.
WakersServeInOrder ==
  [][\A t, u \in Threads :
       /\ Ahead(waitQ, t, u) /\ waitObj[t] = waitObj[u]
       /\ eState'[t] = "WAITING" /\ eState'[u] # "WAITING"
       => waitReturn'[u] = -1]_vars

\* Every ready thread gets the processor, whatever the others do, unless the
\* kernel panics.
ReadyThreadsRun ==
  \A t \in Threads : eState[t] = "READY" ~> eState[t] = "RUNNING" \/ halted

\* Every wait with a timeout ends, unless the kernel panics.
TimedWaitsEnd ==
  \A t \in Threads :
    timeout[t] > 0 ~> eState[t] # "WAITING" \/ halted
==============================================================================
