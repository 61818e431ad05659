----------------------------- MODULE ThreadProofs -----------------------------
(***************************************************************************)
(* The safety of the scheduler (TaskManager), for every set of threads,    *)
(* every set of wait objects and every choice of delays, and then of       *)
(* mutexes and condition variables (Pthread), whose calls are steps of the *)
(* scheduler: the lemmas of the first part are about any caller of it.     *)
(***************************************************************************)
EXTENDS Pthread, TailQueueProofs, FiniteSetTheorems

-----------------------------------------------------------------------------
(* The scheduler.                                                          *)

\* The inductive invariant.
IInv == TypeOK /\ QueuesMatchStates /\ TimerSorted /\ IdleOnlyIfNothingReady

\* What schedule() needs of the thread states st, the ready queue rq and the
\* current thread c it works on.
Schedulable(st, rq, c) ==
  /\ st \in [Threads -> States] /\ rq \in Seq(Threads) /\ IsInjective(rq)
  /\ c \in Threads \cup {Idle, Null}
  /\ \A t \in Threads : t \in Range(rq) <=> st[t] = "READY"
  /\ \A t \in Threads : st[t] = "RUNNING" <=> t = c
  /\ c # Null => currentTask = IF c \in Threads THEN TaskOf[c] ELSE Null

\* What it gives: some thread runs, or the idle thread because none is ready.
Scheduled(st) ==
  /\ eState' \in [Threads -> States] /\ readyQ' \in Seq(Threads) /\ IsInjective(readyQ')
  /\ current' \in Threads \cup {Idle} /\ currentTask' \in Tasks \cup {Null}
  /\ \A t \in Threads : t \in Range(readyQ') <=> eState'[t] = "READY"
  /\ \A t \in Threads : eState'[t] = "RUNNING" <=> t = current'
  /\ currentTask' = IF current' \in Threads THEN TaskOf[current'] ELSE Null
  /\ current' = Idle => readyQ' = << >>
  /\ \A t \in Threads : st[t] \notin {"READY", "RUNNING"} => eState'[t] = st[t]
  /\ \A t \in Threads : st[t] \in {"READY", "RUNNING"} => eState'[t] \in {"READY", "RUNNING"}

\* schedule() puts the first ready thread on the processor and loses nobody.
LEMMA DispatchSchedules ==
  ASSUME NEW st, NEW rq, NEW c, Schedulable(st, rq, c), Dispatch(st, rq, c)
  PROVE  Scheduled(st)
<1>0. /\ st \in [Threads -> States] /\ rq \in Seq(Threads) /\ IsInjective(rq)
      /\ c \in Threads \cup {Idle, Null}
      /\ \A t \in Threads : t \in Range(rq) <=> st[t] = "READY"
      /\ \A t \in Threads : st[t] = "RUNNING" <=> t = c
      /\ c # Null => currentTask = IF c \in Threads THEN TaskOf[c] ELSE Null
  BY DEF Schedulable
<1>1. CASE rq # << >>
  <2> DEFINE h == Head(rq)
  <2>1. /\ h \in Threads /\ h \in Range(rq) /\ Tail(rq) \in Seq(Threads)
        /\ Range(Tail(rq)) = Range(rq) \ {h} /\ IsInjective(Tail(rq))
    BY <1>0, <1>1, TailDistinct
  <2> HIDE DEF h
  <2>2. /\ current' = h /\ currentTask' = TaskOf[h]
        /\ readyQ' = IF c \in Threads THEN Append(Tail(rq), c) ELSE Tail(rq)
        /\ eState' = [t \in Threads |-> IF t = h THEN "RUNNING"
                                        ELSE IF t = c THEN "READY" ELSE st[t]]
    BY <1>1 DEF Dispatch, Switch, Stay, h
  <2>3. h # c /\ st[h] = "READY"
    BY <1>0, <2>1
  <2>4. c \notin Range(Tail(rq))
    <3>1. c \in Range(rq) => c \in Threads /\ st[c] = "READY" /\ st[c] = "RUNNING"
      BY <1>0, RangeOfSeq
    <3> QED BY <3>1, <2>1
  <2>5. /\ readyQ' \in Seq(Threads) /\ IsInjective(readyQ')
        /\ Range(readyQ') = (Range(rq) \ {h}) \cup (IF c \in Threads THEN {c} ELSE {})
    <3>1. CASE c \in Threads
      <4>1. readyQ' = Append(Tail(rq), c)
        BY <2>2, <3>1
      <4>2. /\ Append(Tail(rq), c) \in Seq(Threads) /\ IsInjective(Append(Tail(rq), c))
            /\ Range(Append(Tail(rq), c)) = Range(Tail(rq)) \cup {c}
        BY <3>1, <2>1, <2>4, AppendDistinct, ZenonT(60)
      <4> QED BY <4>1, <4>2, <2>1, <3>1
    <3>2. CASE c \notin Threads
      BY <3>2, <2>1, <2>2
    <3> QED BY <3>1, <3>2
  <2>6. eState' \in [Threads -> States]
    BY <1>0, <2>2 DEF States
  <2>7. \A t \in Threads : eState'[t] = IF t = h THEN "RUNNING"
                                        ELSE IF t = c THEN "READY" ELSE st[t]
    BY <2>2
  <2>8. h # Idle
    BY <2>1, ThreadsAssumption
  <2> QED BY <1>0, <2>1, <2>2, <2>3, <2>5, <2>6, <2>7, <2>8, TasksAssumption DEF Scheduled
<1>2. CASE rq = << >>
  <2>1. /\ current' = (IF c = Null THEN Idle ELSE c) /\ readyQ' = rq /\ eState' = st
        /\ currentTask' = IF c = Null THEN Null ELSE currentTask
    BY <1>2 DEF Dispatch, Switch, Stay
  <2>2. Null \notin Threads /\ Idle \notin Threads /\ Idle # Null
    BY ThreadsAssumption
  <2>3. /\ \A t \in Threads : eState'[t] = "RUNNING" <=> t = current'
        /\ currentTask' = IF current' \in Threads THEN TaskOf[current'] ELSE Null
    BY <1>0, <2>1, <2>2
  <2>4. currentTask' \in Tasks \cup {Null}
    BY <2>3, TasksAssumption
  <2> QED BY <1>0, <1>2, <2>1, <2>2, <2>3, <2>4 DEF Scheduled
<1> QED BY <1>1, <1>2

-----------------------------------------------------------------------------
\* The waiters genwait_wake meets are waiting, and it meets each once.
LEMMA WokenWait ==
  ASSUME TypeOK, QueuesMatchStates, ~halted, NEW obj \in Objects \cup {Null}, NEW max \in {0, 1}
  PROVE  /\ Woken(obj, max) \in Seq(Threads) /\ IsInjective(Woken(obj, max))
         /\ \A t \in Range(Woken(obj, max)) : t \in Threads /\ eState[t] = "WAITING"
<1> DEFINE on == Keep(waitQ, {t \in Threads : waitObj[t] = obj})
           w == Woken(obj, max)
<1>1. /\ on \in Seq(Threads) /\ IsInjective(on)
      /\ Range(on) = Range(waitQ) \cap {t \in Threads : waitObj[t] = obj}
  BY KeepProperties DEF TypeOK, QueuesMatchStates, QueuesInjective
<1> HIDE DEF on
<1>2. \A t \in Range(on) : t \in Threads /\ eState[t] = "WAITING"
  BY <1>1 DEF QueuesMatchStates, PlaceOfState
<1>3. w = on \/ (Len(on) \in Nat \ {0} /\ w = SubSeq(on, 1, 1))
  <2>1. w = IF 0 < max /\ max < Len(on) THEN SubSeq(on, 1, max) ELSE on
    BY DEF Woken, on
  <2>2. Len(on) \in Nat
    BY <1>1
  <2> HIDE DEF w
  <2> QED BY <2>1, <2>2
<1>4. CASE w = on
  BY <1>4, <1>1, <1>2
<1>5. CASE Len(on) \in Nat \ {0} /\ w = SubSeq(on, 1, 1)
  <2>1. \A i \in 1 .. 1 : on[i] \in Threads
    BY <1>1, <1>5
  <2>2. on[1] \in Range(on)
    BY <1>1, <1>5 DEF Range
  <2>4. w \in Seq(Threads) /\ Len(w) = 1 /\ w[1] = on[1]
    <3> HIDE DEF w
    <3> QED BY <1>5, <2>1, SubSeqProperties
  <2>3. w \in Seq(Threads) /\ Range(w) = {on[1]} /\ IsInjective(w)
    <3> HIDE DEF w
    <3>1. DOMAIN w = {1}
      BY <2>4
    <3> QED BY <2>4, <3>1 DEF Range, IsInjective
  <2> QED BY <2>2, <2>3, <1>2
<1> QED BY <1>3, <1>4, <1>5

\* So is the sleeper updateSleepers releases.
LEMMA ExpiredWait ==
  ASSUME TypeOK, QueuesMatchStates, ~halted, NEW now \in Nat
  PROVE  /\ Expired(now) \in Seq(Threads) /\ IsInjective(Expired(now))
         /\ \A t \in Range(Expired(now)) : t \in Threads /\ eState[t] = "WAITING"
<1>1. CASE Expired(now) = << >>
  BY <1>1 DEF Range, IsInjective
<1>2. CASE Expired(now) # << >>
  <2>1. timerQ # << >> /\ Expired(now) = <<Head(timerQ)>>
    BY <1>2 DEF Expired
  <2>2. Head(timerQ) \in Threads /\ Head(timerQ) \in Range(timerQ)
    BY <2>1, TailDistinct DEF TypeOK, QueuesMatchStates, QueuesInjective
  <2>3. eState[Head(timerQ)] = "WAITING"
    BY <2>2 DEF QueuesMatchStates, PlaceOfState
  <2>4. Range(Expired(now)) = {Head(timerQ)} /\ IsInjective(Expired(now))
    BY <2>1 DEF Range, IsInjective
  <2> QED BY <2>1, <2>2, <2>3, <2>4
<1> QED BY <1>1, <1>2

-----------------------------------------------------------------------------
\* After a step that leaves the threads in the states st before schedule():
\* the timer and wait queues hold the threads that are waiting in st.
WaitsAgree(st) ==
  /\ timerQ' \in Seq(Threads) /\ IsInjective(timerQ')
  /\ waitQ' \in Seq(Threads) /\ IsInjective(waitQ')
  /\ timeout' \in [Threads -> Nat]
  /\ waitObj' \in [Threads -> Objects \cup {Null}]
  /\ waitReturn' \in [Threads -> {0, -1}]
  /\ Sorted(timerQ', timeout')
  /\ \A t \in Threads : t \in Range(timerQ') <=> timeout'[t] > 0
  /\ \A t \in Threads : t \in Range(waitQ') <=> waitObj'[t] # Null
  /\ \A t \in Threads : st[t] = "WAITING" <=> (timeout'[t] > 0 \/ waitObj'[t] # Null)

\* Likewise the dead queue.
DeadAgree(st) ==
  /\ deadQ' \in Seq(Threads) /\ IsInjective(deadQ')
  /\ \A t \in Threads : t \in Range(deadQ') <=> st[t] \in Gone

\* The dead stay dead.
DeadStay == \A t \in Threads : eState[t] \in Gone => eState'[t] \in Gone

\* A step that keeps the queues in step and ends in schedule() keeps IInv.
LEMMA ScheduledStep ==
  ASSUME NEW st, Scheduled(st), WaitsAgree(st), DeadAgree(st), time' \in Nat, halted' = FALSE,
         \A t \in Threads : eState[t] \in Gone => st[t] \in Gone
  PROVE  IInv' /\ DeadStay
<1>1. \A t \in Threads : /\ eState'[t] \in Gone <=> st[t] \in Gone
                         /\ eState'[t] = "WAITING" <=> st[t] = "WAITING"
  BY DEF Scheduled, Gone
<1>2. TypeOK'
  BY DEF TypeOK, Scheduled, WaitsAgree, DeadAgree
<1>3. \A t \in Threads : PlaceOfState(t)'
  BY <1>1 DEF PlaceOfState, Scheduled, WaitsAgree, DeadAgree
<1>4. QueuesMatchStates'
  BY <1>3 DEF QueuesMatchStates, QueuesInjective, Scheduled, WaitsAgree, DeadAgree
<1>5. TimerSorted' /\ IdleOnlyIfNothingReady'
  BY DEF TimerSorted, IdleOnlyIfNothingReady, WaitsAgree, Scheduled
<1>6. DeadStay
  BY <1>1 DEF DeadStay
<1> QED BY <1>2, <1>4, <1>5, <1>6 DEF IInv

\* Threads that leave TS_WAITING leave the timer and wait queues with it.
LEMMA LeaveWaitingAgrees ==
  ASSUME IInv, ~halted, NEW w \in Seq(Threads), NEW ret \in [Threads -> {0, -1}],
         \A t \in Range(w) : eState[t] = "WAITING",
         LeaveWaiting(w, ret),
         NEW st, \A t \in Threads : st[t] = "WAITING" <=> eState[t] = "WAITING" /\ t \notin Range(w)
  PROVE  WaitsAgree(st)
<1> DEFINE W == Range(w)
<1>1. /\ timerQ \in Seq(Threads) /\ waitQ \in Seq(Threads)
      /\ IsInjective(timerQ) /\ IsInjective(waitQ)
      /\ timeout \in [Threads -> Nat] /\ waitObj \in [Threads -> Objects \cup {Null}]
      /\ waitReturn \in [Threads -> {0, -1}] /\ Sorted(timerQ, timeout)
  BY DEF IInv, TypeOK, QueuesMatchStates, QueuesInjective, TimerSorted
<1>2. /\ \A t \in Threads : t \in Range(timerQ) <=> timeout[t] > 0
      /\ \A t \in Threads : t \in Range(waitQ) <=> waitObj[t] # Null
      /\ \A t \in Threads : eState[t] = "WAITING" <=> (timeout[t] > 0 \/ waitObj[t] # Null)
  BY DEF IInv, QueuesMatchStates, PlaceOfState
<1>3. W \subseteq Threads
  BY RangeOfSeq
<1>4. /\ timerQ' = Unlink(timerQ, W) /\ waitQ' = Unlink(waitQ, W)
      /\ timeout' = [t \in Threads |-> IF t \in W THEN 0 ELSE timeout[t]]
      /\ waitObj' = [t \in Threads |-> IF t \in W THEN Null ELSE waitObj[t]]
      /\ waitReturn' = [t \in Threads |-> IF t \in W THEN ret[t] ELSE waitReturn[t]]
  BY DEF LeaveWaiting
<1> HIDE DEF W
<1>5. /\ timerQ' \in Seq(Threads) /\ IsInjective(timerQ') /\ Range(timerQ') = Range(timerQ) \ W
      /\ waitQ' \in Seq(Threads) /\ IsInjective(waitQ') /\ Range(waitQ') = Range(waitQ) \ W
  BY <1>1, <1>4, UnlinkProperties
<1>6. /\ timeout' \in [Threads -> Nat]
      /\ waitObj' \in [Threads -> Objects \cup {Null}]
      /\ waitReturn' \in [Threads -> {0, -1}]
  BY <1>1, <1>4
<1>7. \A t \in Threads : /\ timeout'[t] = (IF t \in W THEN 0 ELSE timeout[t])
                         /\ waitObj'[t] = (IF t \in W THEN Null ELSE waitObj[t])
  BY <1>4
<1>8. Sorted(timerQ', timeout')
  <2>1. \A x \in Range(timerQ) \ W : timeout'[x] = timeout[x]
    BY <1>7, <1>1, RangeOfSeq
  <2>2. timerQ \in Seq(Threads) /\ Sorted(timerQ, timeout)
    BY <1>1
  <2>3. Sorted(Unlink(timerQ, W), timeout')
    BY <2>1, <2>2, UnlinkSorted
  <2> QED BY <2>3, <1>4
<1>9. \A t \in Threads : t \in Range(timerQ') <=> timeout'[t] > 0
  BY <1>2, <1>5, <1>7
<1>10. \A t \in Threads : t \in Range(waitQ') <=> waitObj'[t] # Null
  BY <1>2, <1>5, <1>7
<1>11. \A t \in Threads : st[t] = "WAITING" <=> (timeout'[t] > 0 \/ waitObj'[t] # Null)
  <2>1. \A t \in Threads : st[t] = "WAITING" <=> eState[t] = "WAITING" /\ t \notin W
    BY DEF W
  <2> QED BY <2>1, <1>2, <1>7
<1> QED BY <1>5, <1>6, <1>8, <1>9, <1>10, <1>11 DEF WaitsAgree

\* The threads released from a wait join the ready queue and can be scheduled.
LEMMA ReleasedSchedulable ==
  ASSUME IInv, ~halted, NEW w \in Seq(Threads), IsInjective(w),
         \A t \in Range(w) : eState[t] = "WAITING",
         NEW st \in [Threads -> States],
         \A t \in Threads : /\ st[t] = "READY" <=> eState[t] = "READY" \/ t \in Range(w)
                            /\ st[t] = "RUNNING" <=> eState[t] = "RUNNING"
  PROVE  Schedulable(st, readyQ \o w, current)
<1>1. /\ readyQ \in Seq(Threads) /\ IsInjective(readyQ)
      /\ \A t \in Threads : t \in Range(readyQ) <=> eState[t] = "READY"
      /\ \A t \in Threads : eState[t] = "RUNNING" <=> t = current
      /\ current \in Threads \cup {Idle, Null}
      /\ currentTask = IF current \in Threads THEN TaskOf[current] ELSE Null
  BY DEF IInv, TypeOK, QueuesMatchStates, QueuesInjective, PlaceOfState
<1>2. Range(readyQ) \cap Range(w) = {}
  BY <1>1, RangeOfSeq
<1>3. /\ readyQ \o w \in Seq(Threads) /\ IsInjective(readyQ \o w)
      /\ Range(readyQ \o w) = Range(readyQ) \cup Range(w)
  BY <1>1, <1>2, ConcatDistinct
<1> QED BY <1>1, <1>3 DEF Schedulable

-----------------------------------------------------------------------------
\* The boot state satisfies the invariant.
LEMMA InitInvariant == Init => IInv
<1> SUFFICES ASSUME Init PROVE IInv
  OBVIOUS
<1>1. /\ readyQ = <<Main>> /\ Main \in Threads
      /\ timerQ = << >> /\ waitQ = << >> /\ deadQ = << >>
      /\ current = Null /\ currentTask = Null /\ halted = FALSE /\ time = 0
      /\ Null \notin Threads /\ Idle # Null
  BY ThreadsAssumption DEF Init
<1>2. \A t \in Threads : /\ eState[t] = IF t = Main THEN "READY" ELSE "UNINITIALIZED"
                         /\ timeout[t] = 0 /\ waitObj[t] = Null
  BY DEF Init
<1>3. /\ Range(readyQ) = {Main} /\ Range(timerQ) = {} /\ Range(waitQ) = {} /\ Range(deadQ) = {}
      /\ IsInjective(readyQ) /\ IsInjective(timerQ) /\ IsInjective(waitQ) /\ IsInjective(deadQ)
  BY <1>1 DEF Range, IsInjective
<1>4. TypeOK
  <2>1. readyQ \in Seq(Threads) /\ timerQ \in Seq(Threads) /\ waitQ \in Seq(Threads) /\ deadQ \in Seq(Threads)
    BY <1>1
  <2>2. eState \in [Threads -> States]
    BY DEF Init, States
  <2>3. /\ timeout \in [Threads -> Nat] /\ waitObj \in [Threads -> Objects \cup {Null}]
        /\ waitReturn \in [Threads -> {0, -1}]
    BY DEF Init
  <2> QED BY <1>1, <2>1, <2>2, <2>3 DEF TypeOK
<1>5. \A t \in Threads : PlaceOfState(t)
  BY <1>1, <1>2, <1>3 DEF PlaceOfState, Gone
<1>6. TimerSorted
  BY <1>1 DEF TimerSorted, Sorted
<1>7. IdleOnlyIfNothingReady
  BY <1>1 DEF IdleOnlyIfNothingReady
<1> QED BY <1>1, <1>3, <1>4, <1>5, <1>6, <1>7 DEF IInv, QueuesMatchStates, QueuesInjective

\* The invariant of a kernel that has not panicked, taken apart.
LEMMA Unpacked ==
  ASSUME IInv, ~halted
  PROVE  /\ TypeOK /\ QueuesInjective /\ Sorted(timerQ, timeout)
         /\ \A t \in Threads : PlaceOfState(t)
         /\ current \in Threads => eState[current] = "RUNNING"
BY DEF IInv, QueuesMatchStates, TimerSorted, PlaceOfState

\* k_pthread_create keeps the invariant.
LEMMA CreateKeeps ==
  ASSUME IInv, NEW t \in Threads, Create(t)
  PROVE  IInv' /\ DeadStay
<1> USE DEF Create
<1>1. /\ TypeOK /\ QueuesInjective /\ Sorted(timerQ, timeout) /\ ~halted
      /\ \A u \in Threads : PlaceOfState(u)
  BY Unpacked
<1>2. /\ Append(readyQ, t) \in Seq(Threads) /\ IsInjective(Append(readyQ, t))
      /\ Range(Append(readyQ, t)) = Range(readyQ) \cup {t}
  BY <1>1, AppendDistinct DEF TypeOK, QueuesInjective, PlaceOfState
<1>3. \A u \in Threads : eState'[u] = IF u = t THEN "READY" ELSE eState[u]
  BY <1>1 DEF TypeOK
<1>4. UNCHANGED <<timerQ, waitQ, timeout, waitObj, waitReturn>>
  BY DEF waits
<1>5. TypeOK'
  BY <1>1, <1>2, <1>4 DEF TypeOK, States
<1>6. \A u \in Threads : PlaceOfState(u)'
  BY <1>1, <1>2, <1>3, <1>4 DEF PlaceOfState, Gone
<1>7. QueuesMatchStates'
  BY <1>1, <1>2, <1>4, <1>6 DEF QueuesMatchStates, QueuesInjective, IInv
<1>8. TimerSorted' /\ IdleOnlyIfNothingReady'
  BY <1>1, <1>4, ThreadsAssumption DEF TimerSorted, IdleOnlyIfNothingReady
<1>9. DeadStay
  BY <1>3 DEF DeadStay, Gone
<1> QED BY <1>5, <1>7, <1>8, <1>9 DEF IInv

\* k_pthread_exit keeps the invariant.
LEMMA ExitKeeps ==
  ASSUME IInv, Exit
  PROVE  IInv' /\ DeadStay
<1> DEFINE st == [eState EXCEPT ![current] = "DEAD"]
<1>1. /\ TypeOK /\ QueuesInjective /\ Sorted(timerQ, timeout) /\ ~halted
      /\ \A u \in Threads : PlaceOfState(u)
      /\ current \in Threads /\ eState[current] = "RUNNING"
  BY Unpacked DEF Exit
<1>2. /\ st \in [Threads -> States]
      /\ \A u \in Threads : st[u] = IF u = current THEN "DEAD" ELSE eState[u]
  BY <1>1 DEF TypeOK, States
<1>3. /\ deadQ' = Append(deadQ, current) /\ Dispatch(st, readyQ, Null)
      /\ UNCHANGED <<timerQ, waitQ, timeout, waitObj, waitReturn, time, halted>>
  BY DEF Exit, waits
<1> HIDE DEF st
<1>4. Schedulable(st, readyQ, Null)
  BY <1>1, <1>2, ThreadsAssumption DEF Schedulable, TypeOK, QueuesInjective, PlaceOfState
<1>5. WaitsAgree(st)
  BY <1>1, <1>2, <1>3 DEF WaitsAgree, TypeOK, QueuesInjective, PlaceOfState
<1>6. /\ deadQ' \in Seq(Threads) /\ IsInjective(deadQ') /\ Range(deadQ') = Range(deadQ) \cup {current}
  <2>1. deadQ \in Seq(Threads) /\ IsInjective(deadQ) /\ current \notin Range(deadQ)
    BY <1>1 DEF TypeOK, QueuesInjective, PlaceOfState, Gone
  <2> QED BY <2>1, <1>1, <1>3, AppendDistinct
<1>7. DeadAgree(st)
  BY <1>1, <1>2, <1>6 DEF DeadAgree, PlaceOfState, Gone
<1>8. \A u \in Threads : eState[u] \in Gone => st[u] \in Gone
  BY <1>2 DEF Gone
<1> QED BY <1>1, <1>3, <1>4, <1>5, <1>7, <1>8, DispatchSchedules, ScheduledStep DEF TypeOK

\* genwait_wait keeps the invariant: sorted insertion into the timer queue.
LEMMA WaitKeeps ==
  ASSUME IInv, NEW obj \in Objects \cup {Null}, NEW us \in Delays, GenwaitWait(obj, us)
  PROVE  IInv' /\ DeadStay
<1> DEFINE st == [eState EXCEPT ![current] = "WAITING"]
           dl == IF us > 0 THEN time + us ELSE 0
<1>1. /\ TypeOK /\ QueuesInjective /\ Sorted(timerQ, timeout) /\ ~halted
      /\ \A u \in Threads : PlaceOfState(u)
      /\ current \in Threads /\ eState[current] = "RUNNING"
      /\ us > 0 \/ obj # Null
  BY Unpacked DEF GenwaitWait
<1>2. /\ st \in [Threads -> States]
      /\ \A u \in Threads : st[u] = IF u = current THEN "WAITING" ELSE eState[u]
  BY <1>1 DEF TypeOK, States
<1>3. /\ timeout' = [timeout EXCEPT ![current] = dl]
      /\ waitObj' = [waitObj EXCEPT ![current] = obj]
      /\ timerQ' = IF us > 0 THEN InsertSorted(timerQ, timeout', current) ELSE timerQ
      /\ waitQ' = IF obj # Null THEN Append(waitQ, current) ELSE waitQ
      /\ Dispatch(st, readyQ, Null)
      /\ UNCHANGED <<deadQ, time, waitReturn, halted>>
  BY DEF GenwaitWait, Deadline
<1>4. us \in Nat /\ dl \in Nat /\ (dl > 0 <=> us > 0)
  BY <1>1, TimeAssumption DEF TypeOK
<1> HIDE DEF st, dl
<1>5. /\ timeout' \in [Threads -> Nat] /\ waitObj' \in [Threads -> Objects \cup {Null}]
      /\ \A u \in Threads : /\ timeout'[u] = (IF u = current THEN dl ELSE timeout[u])
                            /\ waitObj'[u] = (IF u = current THEN obj ELSE waitObj[u])
  BY <1>1, <1>3, <1>4 DEF TypeOK
<1>6. current \notin Range(timerQ) /\ current \notin Range(waitQ)
  BY <1>1 DEF PlaceOfState
<1>7. Schedulable(st, readyQ, Null)
  BY <1>1, <1>2, ThreadsAssumption DEF Schedulable, TypeOK, QueuesInjective, PlaceOfState
<1>8. Sorted(timerQ, timeout')
  <2>1. \A i \in DOMAIN timerQ : timeout'[timerQ[i]] = timeout[timerQ[i]]
    BY <1>1, <1>5, <1>6 DEF TypeOK, Range
  <2> QED BY <2>1, <1>1 DEF Sorted
<1>9. /\ timerQ' \in Seq(Threads) /\ IsInjective(timerQ') /\ Sorted(timerQ', timeout')
      /\ Range(timerQ') = Range(timerQ) \cup (IF us > 0 THEN {current} ELSE {})
  <2>1. timerQ \in Seq(Threads) /\ IsInjective(timerQ)
    BY <1>1 DEF TypeOK, QueuesInjective
  <2>2. CASE us > 0
    <3>1. timerQ' = InsertSorted(timerQ, timeout', current)
      BY <2>2, <1>3
    <3> QED BY <3>1, <2>1, <2>2, <1>1, <1>5, <1>6, <1>8, InsertSortedProperties
  <2>3. CASE ~(us > 0)
    BY <2>1, <2>3, <1>3, <1>8
  <2> QED BY <2>2, <2>3
<1>10. /\ waitQ' \in Seq(Threads) /\ IsInjective(waitQ')
       /\ Range(waitQ') = Range(waitQ) \cup (IF obj # Null THEN {current} ELSE {})
  <2>1. waitQ \in Seq(Threads) /\ IsInjective(waitQ)
    BY <1>1 DEF TypeOK, QueuesInjective
  <2>2. CASE obj # Null
    <3>1. waitQ' = Append(waitQ, current)
      BY <2>2, <1>3
    <3> QED BY <3>1, <2>1, <2>2, <1>1, <1>6, AppendDistinct
  <2>3. CASE obj = Null
    BY <2>1, <2>3, <1>3
  <2> QED BY <2>2, <2>3
<1>11. WaitsAgree(st)
  <2>1. \A u \in Threads : u \in Range(timerQ') <=> timeout'[u] > 0
    BY <1>1, <1>4, <1>5, <1>9 DEF PlaceOfState
  <2>2. \A u \in Threads : u \in Range(waitQ') <=> waitObj'[u] # Null
    BY <1>1, <1>5, <1>10 DEF PlaceOfState
  <2>3. \A u \in Threads : st[u] = "WAITING" <=> (timeout'[u] > 0 \/ waitObj'[u] # Null)
    BY <1>1, <1>2, <1>4, <1>5 DEF PlaceOfState
  <2>4. waitReturn' \in [Threads -> {0, -1}]
    BY <1>1, <1>3 DEF TypeOK
  <2> QED BY <2>1, <2>2, <2>3, <2>4, <1>5, <1>9, <1>10 DEF WaitsAgree
<1>12. DeadAgree(st)
  BY <1>1, <1>2, <1>3 DEF DeadAgree, TypeOK, QueuesInjective, PlaceOfState, Gone
<1>13. \A u \in Threads : eState[u] \in Gone => st[u] \in Gone
  BY <1>1, <1>2 DEF Gone
<1> QED BY <1>1, <1>3, <1>7, <1>11, <1>12, <1>13, DispatchSchedules, ScheduledStep DEF TypeOK

\* So does the panic of a wait for nothing.
LEMMA WaitForNothingKeeps ==
  ASSUME IInv, WaitForNothing
  PROVE  IInv' /\ DeadStay
<1> USE DEF WaitForNothing
<1>1. /\ TypeOK /\ Sorted(timerQ, timeout) /\ \A u \in Threads : PlaceOfState(u)
      /\ current \in Threads /\ eState[current] = "RUNNING"
  BY Unpacked
<1>2. timeout[current] = 0
  BY <1>1 DEF PlaceOfState, TypeOK
<1>3. timeout' = timeout
  BY <1>1, <1>2 DEF TypeOK
<1>4. TypeOK'
  BY <1>1, <1>3 DEF TypeOK, States
<1>5. TimerSorted' /\ QueuesMatchStates'
  BY <1>1, <1>3 DEF TimerSorted, QueuesMatchStates
<1>6. IdleOnlyIfNothingReady'
  BY ThreadsAssumption DEF IdleOnlyIfNothingReady
<1>7. DeadStay
  BY <1>1 DEF DeadStay, TypeOK, Gone
<1> QED BY <1>4, <1>5, <1>6, <1>7 DEF IInv

\* genwait_wake keeps the invariant.
LEMMA WakeKeeps ==
  ASSUME IInv, NEW obj \in Objects, NEW max \in {0, 1}, GenwaitWake(obj, max)
  PROVE  IInv' /\ DeadStay
<1> DEFINE w == Woken(obj, max)
           st == MadeReady(w)
<1>1. /\ TypeOK /\ QueuesInjective /\ QueuesMatchStates /\ ~halted /\ current \in Threads
      /\ \A u \in Threads : PlaceOfState(u)
  BY Unpacked DEF GenwaitWake, IInv
<1>2. /\ w \in Seq(Threads) /\ IsInjective(w)
      /\ \A t \in Range(w) : t \in Threads /\ eState[t] = "WAITING"
  BY <1>1, WokenWait
<1>3. /\ LeaveWaiting(w, [t \in Threads |-> 0]) /\ eState' = st /\ readyQ' = readyQ \o w
      /\ UNCHANGED <<deadQ, current, currentTask, time, halted>>
  BY DEF GenwaitWake
<1> HIDE DEF w
<1>4. /\ st \in [Threads -> States]
      /\ \A u \in Threads : st[u] = IF u \in Range(w) THEN "READY" ELSE eState[u]
  BY <1>1 DEF MadeReady, TypeOK, States
<1> HIDE DEF st
<1>5. WaitsAgree(st)
  <2>1. [t \in Threads |-> 0] \in [Threads -> {0, -1}]
    OBVIOUS
  <2> QED BY <1>1, <1>2, <1>3, <1>4, <2>1, LeaveWaitingAgrees
<1>6. Schedulable(st, readyQ \o w, current)
  BY <1>1, <1>2, <1>4, ReleasedSchedulable
<1>7. TypeOK'
  BY <1>1, <1>3, <1>4, <1>5, <1>6 DEF TypeOK, WaitsAgree, Schedulable
<1>8. \A u \in Threads : PlaceOfState(u)'
  BY <1>1, <1>2, <1>3, <1>4, <1>5, <1>6 DEF PlaceOfState, WaitsAgree, Schedulable, Gone
<1>9. QueuesMatchStates'
  BY <1>1, <1>3, <1>5, <1>6, <1>8 DEF QueuesMatchStates, QueuesInjective, WaitsAgree, Schedulable
<1>10. TimerSorted' /\ IdleOnlyIfNothingReady'
  BY <1>1, <1>3, <1>5, ThreadsAssumption DEF TimerSorted, IdleOnlyIfNothingReady, WaitsAgree
<1>11. DeadStay
  BY <1>2, <1>3, <1>4 DEF DeadStay, Gone
<1> QED BY <1>7, <1>9, <1>10, <1>11 DEF IInv

\* A device interrupt that wakes an object's waiters keeps the invariant.
LEMMA InterruptKeeps ==
  ASSUME IInv, NEW obj \in Objects \cup {Null}, NEW max \in {0, 1}, Interrupt(obj, max)
  PROVE  IInv' /\ DeadStay
<1> DEFINE w == Woken(obj, max)
           st == MadeReady(w)
<1>1. /\ TypeOK /\ QueuesInjective /\ QueuesMatchStates /\ ~halted
      /\ \A u \in Threads : PlaceOfState(u)
  BY Unpacked DEF Interrupt, IInv
<1>2. /\ w \in Seq(Threads) /\ IsInjective(w)
      /\ \A t \in Range(w) : t \in Threads /\ eState[t] = "WAITING"
  BY <1>1, WokenWait
<1>3. /\ LeaveWaiting(w, [t \in Threads |-> 0]) /\ Dispatch(st, readyQ \o w, current)
      /\ UNCHANGED <<deadQ, time, halted>>
  BY DEF Interrupt
<1> HIDE DEF w
<1>4. /\ st \in [Threads -> States]
      /\ \A u \in Threads : st[u] = IF u \in Range(w) THEN "READY" ELSE eState[u]
  BY <1>1 DEF MadeReady, TypeOK, States
<1> HIDE DEF st
<1>5. WaitsAgree(st)
  <2>1. [t \in Threads |-> 0] \in [Threads -> {0, -1}]
    OBVIOUS
  <2> QED BY <1>1, <1>2, <1>3, <1>4, <2>1, LeaveWaitingAgrees
<1>6. Schedulable(st, readyQ \o w, current)
  BY <1>1, <1>2, <1>4, ReleasedSchedulable
<1>7. DeadAgree(st)
  BY <1>1, <1>2, <1>3, <1>4 DEF DeadAgree, TypeOK, QueuesInjective, PlaceOfState, Gone
<1>8. \A u \in Threads : eState[u] \in Gone => st[u] \in Gone
  BY <1>2, <1>4 DEF Gone
<1> QED BY <1>1, <1>3, <1>5, <1>6, <1>7, <1>8, DispatchSchedules, ScheduledStep DEF TypeOK

\* The timer interrupt keeps the invariant.
LEMMA TickKeeps ==
  ASSUME IInv, Tick
  PROVE  IInv' /\ DeadStay
<1> DEFINE w == Expired(Advanced)
           ret == [t \in Threads |-> IF waitObj[t] # Null THEN -1 ELSE 0]
           st == [t \in Threads |-> IF MadeReady(w)[t] = "DEAD" THEN "DESTROY" ELSE MadeReady(w)[t]]
<1>1. /\ TypeOK /\ QueuesInjective /\ QueuesMatchStates /\ ~halted
      /\ \A u \in Threads : PlaceOfState(u)
  BY Unpacked DEF Tick, IInv
<1>2. Advanced \in Nat
  BY <1>1, TimeAssumption DEF Advanced, TypeOK
<1>3. /\ w \in Seq(Threads) /\ IsInjective(w)
      /\ \A t \in Range(w) : t \in Threads /\ eState[t] = "WAITING"
  BY <1>1, <1>2, ExpiredWait
<1>4. /\ LeaveWaiting(w, ret) /\ Dispatch(st, readyQ \o w, current)
      /\ time' = Advanced /\ UNCHANGED <<deadQ, halted>>
  BY DEF Tick
<1> HIDE DEF w
<1>5. ret \in [Threads -> {0, -1}]
  OBVIOUS
<1>6. /\ st \in [Threads -> States]
      /\ \A u \in Threads : st[u] = IF u \in Range(w) THEN "READY"
                                    ELSE IF eState[u] = "DEAD" THEN "DESTROY" ELSE eState[u]
  BY <1>1 DEF MadeReady, TypeOK, States
<1> HIDE DEF st, ret
<1>7. WaitsAgree(st)
  BY <1>1, <1>3, <1>4, <1>5, <1>6, LeaveWaitingAgrees
<1>8. Schedulable(st, readyQ \o w, current)
  BY <1>1, <1>3, <1>6, ReleasedSchedulable
<1>9. DeadAgree(st)
  BY <1>1, <1>3, <1>4, <1>6 DEF DeadAgree, TypeOK, QueuesInjective, PlaceOfState, Gone
<1>10. \A u \in Threads : eState[u] \in Gone => st[u] \in Gone
  BY <1>3, <1>6 DEF Gone
<1> QED BY <1>1, <1>2, <1>4, <1>7, <1>8, <1>9, <1>10, DispatchSchedules, ScheduledStep DEF TypeOK

\* Every step keeps the invariant, and dead threads dead.
LEMMA StepInvariant == IInv /\ [Next]_vars => IInv' /\ DeadStay
<1> SUFFICES ASSUME IInv, [Next]_vars PROVE IInv' /\ DeadStay
  OBVIOUS
<1>1. ASSUME NEW t \in Threads, Create(t) PROVE IInv' /\ DeadStay
  BY <1>1, CreateKeeps
<1>2. CASE Exit
  BY <1>2, ExitKeeps
<1>3. ASSUME NEW obj \in Objects \cup {Null}, NEW us \in Delays, GenwaitWait(obj, us) PROVE IInv' /\ DeadStay
  BY <1>3, WaitKeeps
<1>4. CASE WaitForNothing
  BY <1>4, WaitForNothingKeeps
<1>5. ASSUME NEW obj \in Objects, NEW max \in {0, 1}, GenwaitWake(obj, max) PROVE IInv' /\ DeadStay
  BY <1>5, WakeKeeps
<1>6. ASSUME NEW obj \in Objects \cup {Null}, NEW max \in {0, 1}, Interrupt(obj, max) PROVE IInv' /\ DeadStay
  BY <1>6, InterruptKeeps
<1>7. CASE Tick
  BY <1>7, TickKeeps
<1>8. CASE UNCHANGED vars
  BY <1>8 DEF vars, waits, IInv, TypeOK, QueuesMatchStates, QueuesInjective, PlaceOfState,
              TimerSorted, IdleOnlyIfNothingReady, DeadStay
<1> QED BY <1>1, <1>2, <1>3, <1>4, <1>5, <1>6, <1>7, <1>8 DEF Next

\* In every state the scheduler reaches, the inductive invariant holds.
THEOREM Invariance == Spec => []IInv
<1>1. Init => IInv
  BY InitInvariant
<1>2. IInv /\ [Next]_vars => IInv'
  BY StepInvariant
<1> QED BY <1>1, <1>2, PTL DEF Spec

\* The variables keep their types.
THEOREM TypeCorrect == Spec => []TypeOK
<1>1. IInv => TypeOK
  BY DEF IInv
<1> QED BY <1>1, Invariance, PTL

\* No thread is ever lost, queued twice or queued against its state.
THEOREM NoThreadLost == Spec => []QueuesMatchStates
<1>1. IInv => QueuesMatchStates
  BY DEF IInv
<1> QED BY <1>1, Invariance, PTL

\* The timer queue is in deadline order.
THEOREM TimersInOrder == Spec => []TimerSorted
<1>1. IInv => TimerSorted
  BY DEF IInv
<1> QED BY <1>1, Invariance, PTL

\* The processor does not idle while a thread is ready.
THEOREM WorkConserving == Spec => []IdleOnlyIfNothingReady
<1>1. IInv => IdleOnlyIfNothingReady
  BY DEF IInv
<1> QED BY <1>1, Invariance, PTL

\* A thread that has exited never runs, waits or becomes ready again.
THEOREM DeadNeverRun == Spec => DeadIsFinal
<1>1. IInv /\ [Next]_vars => [\A t \in Threads : eState[t] \in Gone => eState'[t] \in Gone]_vars
  BY StepInvariant DEF DeadStay
<1> QED BY <1>1, Invariance, PTL DEF Spec, DeadIsFinal

-----------------------------------------------------------------------------
(* The order in which threads are dispatched and released.                 *)

\* Being ahead survives longer queues ...
LEMMA AheadConcat ==
  ASSUME NEW T, NEW q \in Seq(T), NEW w \in Seq(T), NEW t, NEW u, Ahead(q, t, u)
  PROVE  Ahead(q \o w, t, u)
<1>1. PICK i, j \in 1 .. Len(q) : i < j /\ q[i] = t /\ q[j] = u
  BY DEF Ahead
<1>2. /\ q \o w \in Seq(T) /\ DOMAIN (q \o w) = 1 .. Len(q) + Len(w)
      /\ Len(q) \in Nat /\ Len(w) \in Nat
      /\ (q \o w)[i] = q[i] /\ (q \o w)[j] = q[j]
  BY <1>1
<1> QED BY <1>1, <1>2 DEF Ahead

LEMMA AheadAppend ==
  ASSUME NEW T, NEW q \in Seq(T), NEW x \in T, NEW t, NEW u, Ahead(q, t, u)
  PROVE  Ahead(Append(q, x), t, u)
<1>1. PICK i, j \in 1 .. Len(q) : i < j /\ q[i] = t /\ q[j] = u
  BY DEF Ahead
<1>2. /\ DOMAIN Append(q, x) = 1 .. Len(q) + 1 /\ Len(q) \in Nat
      /\ Append(q, x)[i] = q[i] /\ Append(q, x)[j] = q[j]
  BY <1>1
<1> QED BY <1>1, <1>2 DEF Ahead

\* ... and the departure of the head, unless the head is the one ahead; the
\* one behind is not the head.
LEMMA AheadTail ==
  ASSUME NEW T, NEW q \in Seq(T), IsInjective(q), NEW t, NEW u, Ahead(q, t, u)
  PROVE  q # << >> /\ u # Head(q) /\ (t # Head(q) => Ahead(Tail(q), t, u))
<1>1. PICK i, j \in 1 .. Len(q) : i < j /\ q[i] = t /\ q[j] = u
  BY DEF Ahead
<1>2. Len(q) \in Nat /\ q # << >> /\ Head(q) = q[1] /\ j # 1 /\ 1 \in 1 .. Len(q)
  BY <1>1
<1>3. u # Head(q)
  BY <1>1, <1>2 DEF IsInjective
<1>4. ASSUME t # Head(q) PROVE Ahead(Tail(q), t, u)
  <2>1. i - 1 \in 1 .. Len(q) - 1 /\ j - 1 \in 1 .. Len(q) - 1 /\ i - 1 < j - 1
    BY <1>1, <1>2, <1>4
  <2>2. /\ DOMAIN Tail(q) = 1 .. Len(q) - 1
        /\ \A n \in 1 .. Len(q) - 1 : Tail(q)[n] = q[n + 1]
    BY <1>2, HeadTailProperties
  <2>3. Tail(q)[i - 1] = t /\ Tail(q)[j - 1] = u
    BY <1>1, <2>1, <2>2
  <2> QED BY <2>1, <2>2, <2>3 DEF Ahead
<1> QED BY <1>2, <1>3, <1>4

\* t, ready and ahead of u, is not overtaken by u in this step.
NotOvertaken(t, u) ==
  /\ eState'[u] = "RUNNING" => eState'[t] # "READY"
  /\ eState'[t] = "READY" /\ eState'[u] = "READY" => Ahead(readyQ', t, u)

\* schedule() takes the ready threads in their order.
LEMMA DispatchInOrder ==
  ASSUME NEW st, NEW rq, NEW c, Schedulable(st, rq, c), Dispatch(st, rq, c),
         NEW t \in Threads, NEW u \in Threads, Ahead(rq, t, u)
  PROVE  NotOvertaken(t, u)
<1>1. /\ rq \in Seq(Threads) /\ IsInjective(rq) /\ c \in Threads \cup {Idle, Null}
      /\ \A x \in Threads : x \in Range(rq) <=> st[x] = "READY"
      /\ \A x \in Threads : st[x] = "RUNNING" <=> x = c
  BY DEF Schedulable
<1>2. rq # << >> /\ u # Head(rq) /\ (t # Head(rq) => Ahead(Tail(rq), t, u))
  BY <1>1, AheadTail
<1>3. /\ readyQ' = IF c \in Threads THEN Append(Tail(rq), c) ELSE Tail(rq)
      /\ eState' = [x \in Threads |-> IF x = Head(rq) THEN "RUNNING"
                                      ELSE IF x = c THEN "READY" ELSE st[x]]
  BY <1>2 DEF Dispatch, Switch, Stay
<1>4. Tail(rq) \in Seq(Threads)
  BY <1>1, <1>2, TailDistinct
<1>5. t \in Range(rq) /\ u \in Range(rq)
  BY DEF Ahead, Range
<1>6. eState'[u] # "RUNNING"
  BY <1>1, <1>2, <1>3, <1>5
<1>7. ASSUME eState'[t] = "READY" PROVE Ahead(readyQ', t, u)
  <2>1. Ahead(Tail(rq), t, u)
    BY <1>2, <1>3, <1>7
  <2>2. CASE c \in Threads
    BY <1>3, <1>4, <2>1, <2>2, AheadAppend
  <2>3. CASE c \notin Threads
    BY <1>3, <2>1, <2>3
  <2> QED BY <2>2, <2>3
<1> QED BY <1>6, <1>7 DEF NotOvertaken

\* When the running thread ends or waits, the others can be scheduled.
LEMMA OthersSchedulable ==
  ASSUME IInv, ~halted, current \in Threads, NEW s \in {"DEAD", "WAITING"}
  PROVE  Schedulable([eState EXCEPT ![current] = s], readyQ, Null)
<1>1. /\ TypeOK /\ QueuesInjective /\ \A u \in Threads : PlaceOfState(u)
      /\ eState[current] = "RUNNING"
  BY Unpacked
<1>2. /\ [eState EXCEPT ![current] = s] \in [Threads -> States]
      /\ \A u \in Threads : [eState EXCEPT ![current] = s][u] = IF u = current THEN s ELSE eState[u]
  BY <1>1 DEF TypeOK, States
<1> QED BY <1>1, <1>2, ThreadsAssumption DEF Schedulable, TypeOK, QueuesInjective, PlaceOfState

\* So can those an interrupt finds or makes ready.
LEMMA InterruptSchedulable ==
  ASSUME IInv, ~halted, NEW obj \in Objects \cup {Null}, NEW max \in {0, 1}
  PROVE  Schedulable(MadeReady(Woken(obj, max)), readyQ \o Woken(obj, max), current)
<1> DEFINE w == Woken(obj, max)
<1>1. /\ w \in Seq(Threads) /\ IsInjective(w)
      /\ \A t \in Range(w) : t \in Threads /\ eState[t] = "WAITING"
  BY WokenWait DEF IInv
<1> HIDE DEF w
<1>2. /\ MadeReady(w) \in [Threads -> States]
      /\ \A t \in Threads : MadeReady(w)[t] = IF t \in Range(w) THEN "READY" ELSE eState[t]
  BY DEF IInv, MadeReady, TypeOK, States
<1>3. Schedulable(MadeReady(w), readyQ \o w, current)
  BY <1>1, <1>2, ReleasedSchedulable
<1> QED BY <1>3 DEF w

\* The thread states after a timer interrupt, before schedule().
AfterTick == [t \in Threads |-> IF MadeReady(Expired(Advanced))[t] = "DEAD" THEN "DESTROY"
                                ELSE MadeReady(Expired(Advanced))[t]]

LEMMA TickSchedulable ==
  ASSUME IInv, ~halted
  PROVE  /\ Schedulable(AfterTick, readyQ \o Expired(Advanced), current)
         /\ \A t \in Threads : eState[t] = "WAITING" =>
              AfterTick[t] = IF t \in Range(Expired(Advanced)) THEN "READY" ELSE "WAITING"
<1> DEFINE w == Expired(Advanced)
<1>1. Advanced \in Nat
  BY TimeAssumption DEF Advanced, IInv, TypeOK
<1>2. /\ w \in Seq(Threads) /\ IsInjective(w)
      /\ \A t \in Range(w) : t \in Threads /\ eState[t] = "WAITING"
  BY <1>1, ExpiredWait DEF IInv
<1>3. \A t \in Threads : AfterTick[t] = IF t \in Range(w) THEN "READY"
                                        ELSE IF eState[t] = "DEAD" THEN "DESTROY" ELSE eState[t]
  BY DEF AfterTick, MadeReady
<1>4. AfterTick \in [Threads -> States]
  <2>1. AfterTick = [t \in Threads |-> AfterTick[t]]
    BY DEF AfterTick
  <2>2. \A t \in Threads : AfterTick[t] \in States
    BY <1>3 DEF IInv, TypeOK, States
  <2> QED BY <2>1, <2>2
<1> HIDE DEF w
<1>5. Schedulable(AfterTick, readyQ \o w, current)
  BY <1>2, <1>3, <1>4, ReleasedSchedulable
<1> QED BY <1>3, <1>5 DEF w

\* Round robin in every step.
LEMMA StepNotOvertaken ==
  ASSUME IInv, Next, NEW t \in Threads, NEW u \in Threads, Ahead(readyQ, t, u)
  PROVE  NotOvertaken(t, u)
<1>1. /\ readyQ \in Seq(Threads) /\ waitQ \in Seq(Threads) /\ eState \in [Threads -> States]
      /\ ~halted => QueuesMatchStates
  BY DEF IInv, TypeOK
<1>2. ~halted => eState[u] = "READY"
  BY <1>1 DEF QueuesMatchStates, PlaceOfState, Ahead, Range
<1>3. ASSUME NEW x \in Threads, Create(x) PROVE NotOvertaken(t, u)
  <2>1. Ahead(readyQ', t, u)
    BY <1>1, <1>3, AheadAppend DEF Create
  <2>2. eState'[u] = "READY"
    BY <1>1, <1>2, <1>3 DEF Create
  <2> QED BY <2>1, <2>2 DEF NotOvertaken
<1>4. CASE Exit
  BY <1>4, OthersSchedulable, DispatchInOrder DEF Exit
<1>5. ASSUME NEW obj \in Objects \cup {Null}, NEW us \in Delays, GenwaitWait(obj, us)
      PROVE  NotOvertaken(t, u)
  BY <1>5, OthersSchedulable, DispatchInOrder DEF GenwaitWait
<1>6. CASE WaitForNothing
  <2>1. readyQ' = readyQ /\ eState'[u] # "RUNNING"
    BY <1>1, <1>2, <1>6 DEF WaitForNothing
  <2> QED BY <2>1 DEF NotOvertaken, Ahead
<1>7. ASSUME NEW obj \in Objects, NEW max \in {0, 1}, GenwaitWake(obj, max)
      PROVE  NotOvertaken(t, u)
  <2> DEFINE w == Woken(obj, max)
  <2>1. ~halted /\ eState' = MadeReady(w) /\ readyQ' = readyQ \o w
    BY <1>7 DEF GenwaitWake
  <2>2. w \in Seq(Threads)
    BY <2>1, WokenWait DEF IInv
  <2> HIDE DEF w
  <2>3. Ahead(readyQ', t, u)
    BY <1>1, <2>1, <2>2, AheadConcat
  <2>4. eState'[u] = "READY"
    BY <1>2, <2>1 DEF MadeReady
  <2> QED BY <2>3, <2>4 DEF NotOvertaken
<1>8. ASSUME NEW obj \in Objects \cup {Null}, NEW max \in {0, 1}, Interrupt(obj, max)
      PROVE  NotOvertaken(t, u)
  <2> DEFINE w == Woken(obj, max)
  <2>1. ~halted /\ Dispatch(MadeReady(w), readyQ \o w, current)
    BY <1>8 DEF Interrupt
  <2>2. w \in Seq(Threads)
    BY <2>1, WokenWait DEF IInv
  <2>3. Schedulable(MadeReady(w), readyQ \o w, current)
    BY <2>1, InterruptSchedulable
  <2> HIDE DEF w
  <2>4. Ahead(readyQ \o w, t, u)
    BY <1>1, <2>2, AheadConcat
  <2> QED BY <2>1, <2>3, <2>4, DispatchInOrder
<1>9. CASE Tick
  <2> DEFINE w == Expired(Advanced)
  <2>1. ~halted /\ Dispatch(AfterTick, readyQ \o w, current)
    BY <1>9 DEF Tick, AfterTick
  <2>2. w \in Seq(Threads)
    <3>1. Advanced \in Nat
      BY TimeAssumption DEF Advanced, IInv, TypeOK
    <3> QED BY <2>1, <3>1, ExpiredWait DEF IInv
  <2>3. Schedulable(AfterTick, readyQ \o w, current)
    BY <2>1, TickSchedulable
  <2> HIDE DEF w
  <2>4. Ahead(readyQ \o w, t, u)
    BY <1>1, <2>2, AheadConcat
  <2> QED BY <2>1, <2>3, <2>4, DispatchInOrder
<1> QED BY <1>3, <1>4, <1>5, <1>6, <1>7, <1>8, <1>9 DEF Next

\* The waiters genwait_wake releases wait for its object, and nobody who waits
\* for it ahead of one of them is passed over.
LEMMA WokenAreFirst ==
  ASSUME IInv, ~halted, NEW obj \in Objects \cup {Null}, NEW max \in {0, 1}
  PROVE  /\ \A u \in Range(Woken(obj, max)) : waitObj[u] = obj /\ waitObj[u] # Null
         /\ \A t \in Threads, u \in Range(Woken(obj, max)) :
              Ahead(waitQ, t, u) /\ waitObj[t] = obj => t \in Range(Woken(obj, max))
<1> DEFINE S == {t \in Threads : waitObj[t] = obj}
           on == Keep(waitQ, S)
           w == Woken(obj, max)
<1>1. /\ waitQ \in Seq(Threads) /\ IsInjective(waitQ)
      /\ \A t \in Threads : t \in Range(waitQ) <=> waitObj[t] # Null
  BY Unpacked DEF TypeOK, QueuesInjective, PlaceOfState
<1>2. PICK e : Embeds(e, on, waitQ, S, Len(waitQ))
  BY <1>1, KeepProperties
<1>3. /\ on \in Seq(Threads) /\ Range(on) = Range(waitQ) \cap S /\ IsInjective(on)
      /\ Len(on) \in Nat /\ DOMAIN on = 1 .. Len(on)
  BY <1>1, KeepProperties
<1>4. w = IF 0 < max /\ max < Len(on) THEN SubSeq(on, 1, max) ELSE on
  BY DEF Woken
<1> HIDE DEF on, w
<1>5. PICK m \in 0 .. Len(on) : DOMAIN w = 1 .. m /\ \A i \in 1 .. m : w[i] = on[i]
  <2>1. CASE 0 < max /\ max < Len(on)
    <3>1. w = SubSeq(on, 1, 1) /\ 1 \in 0 .. Len(on)
      BY <1>3, <1>4, <2>1
    <3>2. \A i \in 1 .. 1 : on[i] \in Threads
      BY <1>3, <2>1
    <3>3. DOMAIN w = 1 .. 1 /\ \A i \in 1 .. 1 : w[i] = on[i]
      BY <1>3, <3>1, <3>2, SubSeqProperties
    <3> QED BY <3>1, <3>3
  <2>2. CASE ~(0 < max /\ max < Len(on))
    BY <1>3, <1>4, <2>2
  <2> QED BY <2>1, <2>2
<1>6. Range(w) \subseteq Range(on)
  BY <1>3, <1>5 DEF Range
<1>7. \A u \in Range(w) : waitObj[u] = obj /\ waitObj[u] # Null
  <2>1. \A u \in Range(w) : u \in Range(waitQ) /\ u \in S
    BY <1>3, <1>6
  <2> QED BY <2>1, <1>1
<1>8. ASSUME NEW t \in Threads, NEW u \in Range(w), Ahead(waitQ, t, u), waitObj[t] = obj
      PROVE  t \in Range(w)
  <2>1. PICK i, j \in 1 .. Len(waitQ) : i < j /\ waitQ[i] = t /\ waitQ[j] = u
    BY <1>1, <1>8 DEF Ahead
  <2>2. PICK b \in 1 .. m : on[b] = u
    BY <1>5 DEF Range
  <2>3. PICK a \in 1 .. Len(on) : e[a] = i
    BY <1>2, <1>8, <2>1 DEF Embeds
  <2>4. b \in 1 .. Len(on) /\ e[b] \in 1 .. Len(waitQ) /\ waitQ[e[b]] = u /\ on[a] = t
    BY <1>2, <1>3, <2>1, <2>2, <2>3, SMTT(30) DEF Embeds
  <2>5. e[b] = j
    BY <1>1, <2>1, <2>4 DEF IsInjective
  <2>6. a < b
    <3>1. \A x, y \in 1 .. Len(on) : x < y => e[x] < e[y]
      BY <1>2 DEF Embeds
    <3>2. ~(b < a) /\ a # b
      BY <3>1, <2>1, <2>3, <2>4, <2>5
    <3> QED BY <3>2, <2>2, <2>3, <1>3
  <2>7. a \in 1 .. m /\ w[a] = t
    BY <1>3, <1>5, <2>2, <2>3, <2>4, <2>6
  <2> QED BY <1>5, <2>7 DEF Range
<1> QED BY <1>7, <1>8 DEF w

\* Who leaves a wait in a step: the threads genwait_wake releases, or the one
\* whose deadline updateSleepers finds in the past.
Departed(w) ==
  \A t \in Threads : eState[t] = "WAITING" => (eState'[t] # "WAITING" <=> t \in Range(w))

LEMMA WhoLeaves ==
  ASSUME IInv, Next
  PROVE  \/ Departed(<< >>)
         \/ \E obj \in Objects \cup {Null}, max \in {0, 1} :
              /\ Departed(Woken(obj, max))
              /\ \A t \in Range(Woken(obj, max)) : waitReturn'[t] = 0
         \/ /\ Departed(Expired(time'))
            /\ \A t \in Range(Expired(time')) :
                 waitReturn'[t] = IF waitObj[t] # Null THEN -1 ELSE 0
<1>0. eState \in [Threads -> States] /\ Range(<< >>) = {}
  BY DEF IInv, TypeOK, Range
<1>1. current \in Threads /\ ~halted => eState[current] # "WAITING"
  BY Unpacked
<1>2. ASSUME NEW t \in Threads, Create(t) PROVE Departed(<< >>)
  BY <1>0, <1>2 DEF Create, Departed
<1>3. CASE Exit
  <2>1. Scheduled([eState EXCEPT ![current] = "DEAD"])
    BY <1>3, OthersSchedulable, DispatchSchedules DEF Exit
  <2> QED BY <1>0, <1>1, <1>3, <2>1 DEF Scheduled, Departed, Exit
<1>4. ASSUME NEW obj \in Objects \cup {Null}, NEW us \in Delays, GenwaitWait(obj, us)
      PROVE  Departed(<< >>)
  <2>1. Scheduled([eState EXCEPT ![current] = "WAITING"])
    BY <1>4, OthersSchedulable, DispatchSchedules DEF GenwaitWait
  <2> QED BY <1>0, <1>1, <1>4, <2>1 DEF Scheduled, Departed, GenwaitWait
<1>5. CASE WaitForNothing
  BY <1>0, <1>5 DEF WaitForNothing, Departed
<1>6. ASSUME NEW obj \in Objects \cup {Null}, NEW max \in {0, 1},
             GenwaitWake(obj, max) \/ Interrupt(obj, max)
      PROVE  /\ Departed(Woken(obj, max))
             /\ \A t \in Range(Woken(obj, max)) : waitReturn'[t] = 0
  <2> DEFINE w == Woken(obj, max)
  <2>1. ~halted /\ LeaveWaiting(w, [t \in Threads |-> 0])
    BY <1>6 DEF GenwaitWake, Interrupt
  <2>2. \A t \in Range(w) : t \in Threads
    BY <2>1, WokenWait DEF IInv
  <2>3. GenwaitWake(obj, max) => eState' = MadeReady(w)
    BY DEF GenwaitWake
  <2>4. Interrupt(obj, max) => Scheduled(MadeReady(w))
    BY <2>1, InterruptSchedulable, DispatchSchedules DEF Interrupt
  <2> HIDE DEF w
  <2>5. \A t \in Threads : MadeReady(w)[t] = IF t \in Range(w) THEN "READY" ELSE eState[t]
    BY DEF MadeReady
  <2>6. Departed(w)
    BY <1>6, <2>3, <2>4, <2>5 DEF Scheduled, Departed, w
  <2>7. \A t \in Range(w) : waitReturn'[t] = 0
    BY <2>1, <2>2 DEF LeaveWaiting
  <2> QED BY <2>6, <2>7 DEF w
<1>7. CASE Tick
  <2> DEFINE w == Expired(Advanced)
             ret == [t \in Threads |-> IF waitObj[t] # Null THEN -1 ELSE 0]
  <2>1. /\ ~halted /\ Dispatch(AfterTick, readyQ \o w, current) /\ LeaveWaiting(w, ret)
        /\ time' = Advanced
    BY <1>7 DEF Tick, AfterTick
  <2>2. Scheduled(AfterTick)
    BY <2>1, TickSchedulable, DispatchSchedules
  <2>3. \A t \in Threads : eState[t] = "WAITING" =>
          AfterTick[t] = IF t \in Range(w) THEN "READY" ELSE "WAITING"
    BY <2>1, TickSchedulable
  <2>4. \A t \in Range(w) : t \in Threads
    <3>1. Advanced \in Nat
      BY TimeAssumption DEF Advanced, IInv, TypeOK
    <3> QED BY <2>1, <3>1, ExpiredWait DEF IInv
  <2> HIDE DEF w
  <2>5. Departed(w)
    BY <2>2, <2>3 DEF Scheduled, Departed
  <2>6. \A t \in Range(w) : waitReturn'[t] = IF waitObj[t] # Null THEN -1 ELSE 0
    BY <2>1, <2>4 DEF LeaveWaiting
  <2> QED BY <2>1, <2>5, <2>6 DEF w
<1> QED BY <1>2, <1>3, <1>4, <1>5, <1>6, <1>7 DEF Next

\* A ready thread is never overtaken.
THEOREM RoundRobin == Spec => NoOvertakingInReadyQueue
<1>1. IInv /\ [Next]_vars
        => [\A t, u \in Threads :
              Ahead(readyQ, t, u) =>
                /\ eState'[u] = "RUNNING" => eState'[t] # "READY"
                /\ eState'[t] = "READY" /\ eState'[u] = "READY" => Ahead(readyQ', t, u)]_vars
  BY StepNotOvertaken DEF NotOvertaken
<1> QED BY <1>1, Invariance, PTL DEF Spec, NoOvertakingInReadyQueue

\* A thread leaves a wait only because it was woken or its deadline has been
\* reached, and genwait_wait tells it which.
THEOREM WaitsEndForAReason == Spec => WakeIsEarned
<1>1. ASSUME IInv, Next, NEW t \in Threads, eState[t] = "WAITING", eState'[t] # "WAITING"
      PROVE  \/ waitObj[t] # Null /\ waitReturn'[t] = 0
             \/ /\ 0 < timeout[t] /\ timeout[t] <= time'
                /\ waitReturn'[t] = IF waitObj[t] = Null THEN 0 ELSE -1
  <2>1. ~halted
    BY <1>1 DEF Next, Create, Exit, GenwaitWait, WaitForNothing, GenwaitWake, Interrupt, Tick
  <2>2. Departed(<< >>) => FALSE
    BY <1>1 DEF Departed, Range
  <2>3. ASSUME NEW obj \in Objects \cup {Null}, NEW max \in {0, 1}, Departed(Woken(obj, max)),
               \A x \in Range(Woken(obj, max)) : waitReturn'[x] = 0
        PROVE  waitObj[t] # Null /\ waitReturn'[t] = 0
    BY <1>1, <2>1, <2>3, WokenAreFirst DEF Departed
  <2>4. ASSUME Departed(Expired(time')),
               \A x \in Range(Expired(time')) : waitReturn'[x] = IF waitObj[x] # Null THEN -1 ELSE 0
        PROVE  /\ 0 < timeout[t] /\ timeout[t] <= time'
               /\ waitReturn'[t] = IF waitObj[t] = Null THEN 0 ELSE -1
    <3>1. t \in Range(Expired(time'))
      BY <1>1, <2>4 DEF Departed
    <3>2. timerQ # << >> /\ t = Head(timerQ) /\ timeout[t] <= time'
      BY <3>1 DEF Expired, Range
    <3>3. t \in Range(timerQ)
      BY <1>1, <2>1, <3>2, Unpacked, TailDistinct DEF TypeOK, QueuesInjective
    <3>4. 0 < timeout[t]
      BY <1>1, <2>1, <3>3, Unpacked DEF PlaceOfState
    <3> QED BY <2>4, <3>1, <3>2, <3>4
  <2> QED BY <1>1, <2>2, <2>3, <2>4, WhoLeaves
<1>2. IInv /\ [Next]_vars
        => [\A t \in Threads : eState[t] = "WAITING" /\ eState'[t] # "WAITING" =>
              \/ waitObj[t] # Null /\ waitReturn'[t] = 0
              \/ /\ 0 < timeout[t] /\ timeout[t] <= time'
                 /\ waitReturn'[t] = IF waitObj[t] = Null THEN 0 ELSE -1]_vars
  BY <1>1
<1> QED BY <1>2, Invariance, PTL DEF Spec, WakeIsEarned

\* genwait_wake serves the waiters of an object in the order they came.
THEOREM WaitersServedInOrder == Spec => WakersServeInOrder
<1>1. ASSUME IInv, Next, NEW t \in Threads, NEW u \in Threads,
             Ahead(waitQ, t, u), waitObj[t] = waitObj[u],
             eState'[t] = "WAITING", eState'[u] # "WAITING"
      PROVE  waitReturn'[u] = -1
  <2>1. ~halted
    BY <1>1 DEF Next, Create, Exit, GenwaitWait, WaitForNothing, GenwaitWake, Interrupt, Tick
  <2>2. /\ eState[t] = "WAITING" /\ eState[u] = "WAITING" /\ waitObj[u] # Null
    <3>1. t \in Range(waitQ) /\ u \in Range(waitQ)
      BY <1>1 DEF Ahead, Range
    <3> QED BY <1>1, <2>1, <3>1, Unpacked DEF PlaceOfState
  <2>3. Departed(<< >>) => FALSE
    BY <1>1, <2>2 DEF Departed, Range
  <2>4. ASSUME NEW obj \in Objects \cup {Null}, NEW max \in {0, 1}, Departed(Woken(obj, max))
        PROVE  FALSE
    <3>1. u \in Range(Woken(obj, max)) /\ t \notin Range(Woken(obj, max))
      BY <1>1, <2>2, <2>4 DEF Departed
    <3> QED BY <1>1, <2>1, <3>1, WokenAreFirst
  <2>5. ASSUME Departed(Expired(time')),
               \A x \in Range(Expired(time')) : waitReturn'[x] = IF waitObj[x] # Null THEN -1 ELSE 0
        PROVE  waitReturn'[u] = -1
    BY <1>1, <2>2, <2>5 DEF Departed
  <2> QED BY <1>1, <2>3, <2>4, <2>5, WhoLeaves
<1>2. IInv /\ [Next]_vars
        => [\A t, u \in Threads :
              /\ Ahead(waitQ, t, u) /\ waitObj[t] = waitObj[u]
              /\ eState'[t] = "WAITING" /\ eState'[u] # "WAITING"
              => waitReturn'[u] = -1]_vars
  BY <1>1
<1> QED BY <1>2, Invariance, PTL DEF Spec, WakersServeInOrder

-----------------------------------------------------------------------------
\* A queue that holds each thread at most once is no longer than the number of
\* threads.
LEMMA QueueLength ==
  ASSUME NEW T, IsFiniteSet(T), NEW q \in Seq(T), IsInjective(q)
  PROVE  Cardinality(T) \in Nat /\ Len(q) <= Cardinality(T)
<1>1. q \in Injection(1 .. Len(q), T) /\ Len(q) \in Nat
  BY DEF Injection
<1>2. Cardinality(1 .. Len(q)) <= Cardinality(T)
  BY <1>1, FS_Injection
<1>3. Cardinality(1 .. Len(q)) = Len(q)
  <2>1. 1 \in Int /\ Len(q) \in Int
    BY <1>1
  <2>2. Cardinality(1 .. Len(q)) = IF 1 > Len(q) THEN 0 ELSE Len(q) - 1 + 1
    BY <2>1, FS_Interval
  <2> QED BY <2>2, <1>1
<1> QED BY <1>2, <1>3, FS_CardinalityType

\* Being i places down the timer queue costs at most as much as being j >= i
\* places down, and a whole quantum less if i < j.
LEMMA PlacesCost ==
  ASSUME NEW i \in Nat, NEW j \in Nat, NEW Q \in Nat
  PROVE  /\ i <= j => i * Q <= j * Q
         /\ i < j => i * Q + Q <= j * Q
         /\ i * Q \in Nat
<1>1. ASSUME NEW a \in Nat, NEW b \in Nat, a <= b PROVE a * Q <= b * Q
  <2>1. b = a + (b - a) /\ b - a \in Nat
    BY <1>1
  <2>2. (a + (b - a)) * Q = a * Q + (b - a) * Q /\ (b - a) * Q >= 0
    BY <2>1
  <2> QED BY <2>1, <2>2
<1>2. i < j => (i + 1) * Q <= j * Q
  BY <1>1
<1>3. (i + 1) * Q = i * Q + Q
  OBVIOUS
<1> QED BY <1>1, <1>2, <1>3

\* What the bound on lateness allows.
Allowance == Cardinality(Threads) * Quantum

\* Releasing threads from their waits moves no sleeper back in the queue, and
\* with the clock standing still nobody gets later.
LEMMA ReleaseKeepsLateness ==
  ASSUME TypeOK, LatenessBounded, NEW w, NEW ret, LeaveWaiting(w, ret), time' = time
  PROVE  LatenessBounded'
<1>1. timerQ \in Seq(Threads) /\ timeout \in [Threads -> Nat] /\ time \in Nat /\ Quantum \in Nat
  BY TimeAssumption DEF TypeOK
<1>2. /\ timerQ' = Unlink(timerQ, Range(w))
      /\ timeout' = [t \in Threads |-> IF t \in Range(w) THEN 0 ELSE timeout[t]]
  BY DEF LeaveWaiting
<1>3. timerQ' \in Seq(Threads) /\ Range(timerQ') = Range(timerQ) \ Range(w)
  BY <1>1, <1>2, UnlinkProperties
<1>4. PICK e : Embeds(e, timerQ', timerQ, Range(timerQ) \ Range(w), Len(timerQ))
  BY <1>1, <1>2, UnlinkProperties
<1>5. SUFFICES ASSUME NEW i \in DOMAIN timerQ', timeout'[timerQ'[i]] <= time
               PROVE  (time - timeout'[timerQ'[i]]) + i * Quantum < Allowance
  BY DEF LatenessBounded, Allowance
<1> DEFINE j == e[i]
           x == timerQ'[i]
<1>6. /\ i \in 1 .. Len(timerQ') /\ i \in Nat /\ j \in 1 .. Len(timerQ) /\ j \in Nat /\ i <= j
      /\ x = timerQ[j] /\ x \in Range(timerQ) \ Range(w)
  BY <1>1, <1>3, <1>4 DEF Embeds
<1>7. j \in DOMAIN timerQ /\ x \in Threads
  BY <1>1, <1>6
<1>8. timeout'[x] = timeout[x] /\ timeout[x] \in Nat
  BY <1>1, <1>2, <1>6, <1>7
<1>9. (time - timeout[x]) + j * Quantum < Allowance
  <2>1. timeout[timerQ[j]] <= time
    BY <1>5, <1>6, <1>8
  <2> QED BY <2>1, <1>6, <1>7 DEF LatenessBounded, Allowance
<1>10. i * Quantum <= j * Quantum /\ i * Quantum \in Nat /\ j * Quantum \in Nat
  BY <1>1, <1>6, PlacesCost
<1>11. Allowance \in Nat
  <2>1. Cardinality(Threads) \in Nat
    BY ThreadsAssumption, FS_CardinalityType
  <2> QED BY <2>1, <1>1, PlacesCost DEF Allowance
<1> HIDE DEF j, x
<1>12. (time - timeout[x]) + i * Quantum < Allowance
  <2>1. time - timeout[x] \in Int
    BY <1>1, <1>8
  <2> QED BY <2>1, <1>9, <1>10, <1>11
<1> QED BY <1>12, <1>8 DEF x

\* A thread that starts to sleep goes behind every overdue sleeper.
LEMMA SleepKeepsLateness ==
  ASSUME TypeOK, QueuesMatchStates, TimerSorted, LatenessBounded,
         NEW obj \in Objects \cup {Null}, NEW us \in Delays, GenwaitWait(obj, us)
  PROVE  LatenessBounded'
<1>1. /\ timerQ \in Seq(Threads) /\ timeout \in [Threads -> Nat] /\ time \in Nat
      /\ us \in Nat /\ current \in Threads /\ ~halted
  BY TimeAssumption DEF TypeOK, GenwaitWait
<1>2. /\ timeout' = [timeout EXCEPT ![current] = IF us > 0 THEN time + us ELSE 0]
      /\ timerQ' = IF us > 0 THEN InsertSorted(timerQ, timeout', current) ELSE timerQ
      /\ time' = time
  BY DEF GenwaitWait, Deadline
<1>3. IsInjective(timerQ) /\ current \notin Range(timerQ)
  BY <1>1 DEF QueuesMatchStates, QueuesInjective, PlaceOfState
<1>4. timeout' \in [Threads -> Nat]
  BY <1>1, <1>2
<1>5. \A i \in DOMAIN timerQ : timerQ[i] \in Threads /\ timeout'[timerQ[i]] = timeout[timerQ[i]]
  BY <1>1, <1>2, <1>3 DEF Range
<1>6. CASE ~(us > 0)
  BY <1>2, <1>5, <1>6 DEF LatenessBounded
<1>7. CASE us > 0
  <2>1. Sorted(timerQ, timeout')
    BY <1>5 DEF TimerSorted, Sorted
  <2>2. timerQ' = InsertSorted(timerQ, timeout', current) /\ timeout'[current] = time + us
    BY <1>1, <1>2, <1>7
  <2>3. /\ timerQ' \in Seq(Threads)
        /\ \A i \in 1 .. Len(timerQ') :
             timeout'[timerQ'[i]] < timeout'[current] => i <= Len(timerQ) /\ timerQ'[i] = timerQ[i]
    <3>1. ASSUME NEW q \in Seq(Threads), NEW key \in [Threads -> Nat], NEW x \in Threads,
                 Sorted(q, key), x \notin Range(q), IsInjective(q)
          PROVE  /\ InsertSorted(q, key, x) \in Seq(Threads)
                 /\ \A i \in 1 .. Len(InsertSorted(q, key, x)) :
                      key[InsertSorted(q, key, x)[i]] < key[x]
                        => i <= Len(q) /\ InsertSorted(q, key, x)[i] = q[i]
      BY <3>1, InsertSortedProperties
    <3> QED BY <1>1, <1>3, <1>4, <2>1, <2>2, <3>1
  <2>4. SUFFICES ASSUME NEW i \in DOMAIN timerQ', timeout'[timerQ'[i]] <= time
                 PROVE  (time - timeout'[timerQ'[i]]) + i * Quantum
                          < Cardinality(Threads) * Quantum
    BY <1>2 DEF LatenessBounded
  <2>5. i \in 1 .. Len(timerQ') /\ timerQ'[i] \in Threads /\ timeout'[timerQ'[i]] \in Nat
    BY <1>4, <2>3
  <2>6. timeout'[timerQ'[i]] < timeout'[current]
    BY <1>1, <1>7, <2>2, <2>4, <2>5
  <2>7. i <= Len(timerQ) /\ timerQ'[i] = timerQ[i]
    BY <2>3, <2>5, <2>6
  <2>8. i \in DOMAIN timerQ
    BY <1>1, <2>5, <2>7
  <2>9. timeout'[timerQ'[i]] = timeout[timerQ[i]]
    BY <1>5, <2>7, <2>8
  <2> QED BY <2>4, <2>8, <2>9 DEF LatenessBounded
<1> QED BY <1>6, <1>7

\* A timer interrupt that releases nobody finds no sleeper overdue.
LEMMA QuietTickKeepsLateness ==
  ASSUME TypeOK, TimerSorted, Advanced \in Nat, Expired(Advanced) = << >>,
         NEW ret, LeaveWaiting(<< >>, ret), time' = Advanced
  PROVE  LatenessBounded'
<1>1. timerQ \in Seq(Threads) /\ timeout \in [Threads -> Nat]
  BY DEF TypeOK
<1>2. Range(<< >>) = {}
  BY DEF Range
<1>3. timeout' = timeout
  BY <1>1, <1>2 DEF LeaveWaiting
<1>4. timerQ' \in Seq(Threads) /\ Range(timerQ') = Range(timerQ)
  <2>1. timerQ' = Unlink(timerQ, {})
    BY <1>2 DEF LeaveWaiting
  <2>2. Unlink(timerQ, {}) \in Seq(Threads) /\ Range(Unlink(timerQ, {})) = Range(timerQ) \ {}
    BY <1>1, UnlinkProperties
  <2> QED BY <2>1, <2>2
<1>5. \A i \in DOMAIN timerQ : Advanced < timeout[timerQ[i]]
  <2>1. SUFFICES ASSUME NEW i \in DOMAIN timerQ PROVE Advanced < timeout[timerQ[i]]
    OBVIOUS
  <2>2. i \in 1 .. Len(timerQ) /\ 1 \in DOMAIN timerQ /\ timerQ # << >> /\ Head(timerQ) = timerQ[1]
    BY <1>1
  <2>3. timeout[timerQ[1]] \in Nat /\ timeout[timerQ[i]] \in Nat
    BY <1>1, <2>2
  <2>4. ~(timeout[timerQ[1]] <= Advanced)
    BY <2>2 DEF Expired
  <2>5. timeout[timerQ[1]] <= timeout[timerQ[i]]
    <3>1. CASE i = 1
      BY <2>3, <3>1
    <3>2. CASE i # 1
      BY <1>1, <2>2, <3>2 DEF TimerSorted, Sorted
    <3> QED BY <3>1, <3>2
  <2> QED BY <2>3, <2>4, <2>5
<1>6. ASSUME NEW i \in DOMAIN timerQ' PROVE ~(timeout'[timerQ'[i]] <= time')
  <2>1. timerQ'[i] \in Range(timerQ)
    BY <1>4 DEF Range
  <2>2. PICK j \in DOMAIN timerQ : timerQ[j] = timerQ'[i]
    BY <2>1 DEF Range
  <2>3. Advanced < timeout[timerQ'[i]] /\ timeout[timerQ'[i]] \in Nat
    BY <1>1, <1>5, <2>2
  <2> QED BY <1>3, <2>3
<1> QED BY <1>6 DEF LatenessBounded

\* A timer interrupt that releases the first sleeper moves every other one up
\* a place, which pays for the quantum that has gone by.
LEMMA ReleasingTickKeepsLateness ==
  ASSUME TypeOK, LatenessBounded, IsInjective(timerQ), Advanced \in Nat,
         timerQ # << >>, NEW ret, LeaveWaiting(<<Head(timerQ)>>, ret), time' = Advanced
  PROVE  LatenessBounded'
<1>1. /\ timerQ \in Seq(Threads) /\ timeout \in [Threads -> Nat] /\ time \in Nat
      /\ Quantum \in Nat
  BY TimeAssumption DEF TypeOK
<1> DEFINE S == {Head(timerQ)}
<1>2. Range(<<Head(timerQ)>>) = S
  BY DEF Range
<1>3. /\ timerQ' = Unlink(timerQ, S)
      /\ timeout' = [t \in Threads |-> IF t \in S THEN 0 ELSE timeout[t]]
  BY <1>2 DEF LeaveWaiting
<1> HIDE DEF S
<1>4. /\ timerQ' \in Seq(Threads) /\ Range(timerQ') = Range(timerQ) \ S /\ IsInjective(timerQ')
  BY <1>1, <1>3, UnlinkProperties
<1>5. PICK e : Embeds(e, timerQ', timerQ, Range(timerQ) \ S, Len(timerQ))
  BY <1>1, <1>3, UnlinkProperties
<1>6. Cardinality(Threads) \in Nat /\ Len(timerQ) <= Cardinality(Threads)
  BY <1>1, QueueLength, ThreadsAssumption
<1>7. Allowance \in Nat
  BY <1>1, <1>6, PlacesCost DEF Allowance
<1>8. SUFFICES ASSUME NEW i \in DOMAIN timerQ', timeout'[timerQ'[i]] <= Advanced
               PROVE  (Advanced - timeout'[timerQ'[i]]) + i * Quantum < Allowance
  BY DEF LatenessBounded, Allowance
<1> DEFINE j == e[i]
           x == timerQ'[i]
<1>9. /\ i \in 1 .. Len(timerQ') /\ i \in Nat /\ j \in 1 .. Len(timerQ) /\ j \in Nat /\ i < j
      /\ x = timerQ[j] /\ x \in Range(timerQ) \ S
  <2>1. i \in 1 .. Len(timerQ') /\ i \in Nat
    BY <1>4
  <2>2. Len(timerQ) > 0 /\ timerQ[1] \notin Range(timerQ) \ S
    BY <1>1 DEF S
  <2>3. j \in 1 .. Len(timerQ) /\ i < j /\ x = timerQ[j] /\ x \in Range(timerQ) \ S
    BY <1>5, <2>1, <2>2 DEF Embeds
  <2> QED BY <2>1, <2>3, <1>1
<1>10. j \in DOMAIN timerQ /\ x \in Threads
  BY <1>1, <1>9
<1>11. timeout'[x] = timeout[x] /\ timeout[x] \in Nat
  BY <1>1, <1>3, <1>9, <1>10
<1>12. timeout[x] <= time => (time - timeout[x]) + j * Quantum < Allowance
  BY <1>9, <1>10 DEF LatenessBounded, Allowance
<1>13. /\ i * Quantum \in Nat /\ j * Quantum \in Nat /\ i * Quantum + Quantum <= j * Quantum
       /\ j * Quantum <= Allowance
  <2>1. j <= Cardinality(Threads)
    BY <1>1, <1>6, <1>9
  <2> QED BY <2>1, <1>1, <1>6, <1>9, PlacesCost DEF Allowance
<1>14. Advanced <= time + Quantum
  BY <1>1 DEF Advanced
<1> DEFINE to == timeout[x]
<1>15. to \in Nat /\ to <= Advanced
  BY <1>8, <1>11
<1>16. to <= time => (time - to) + j * Quantum < Allowance
  BY <1>12
<1> HIDE DEF j, x, to
<1>17. (Advanced - to) + i * Quantum < Allowance
  <2>1. CASE to <= time
    BY <1>1, <1>7, <1>13, <1>14, <1>15, <1>16, <2>1
  <2>2. CASE ~(to <= time)
    BY <1>1, <1>6, <1>7, <1>13, <1>14, <1>15, <2>2
  <2> QED BY <2>1, <2>2
<1> QED BY <1>11, <1>17 DEF x, to

\* Every step of the scheduler keeps the bound on lateness.
LEMMA StepKeepsLateness ==
  ASSUME IInv, LatenessBounded, [Next]_vars
  PROVE  LatenessBounded'
<1>1. TypeOK /\ TimerSorted /\ QueuesMatchStates
  BY DEF IInv
<1>2. ASSUME timerQ' = timerQ, time' = time, \A t \in Range(timerQ) : timeout'[t] = timeout[t]
      PROVE  LatenessBounded'
  BY <1>2 DEF LatenessBounded, Range
<1>3. ASSUME NEW t \in Threads, Create(t) PROVE LatenessBounded'
  BY <1>2, <1>3 DEF Create, waits
<1>4. CASE Exit
  BY <1>2, <1>4 DEF Exit, waits
<1>5. ASSUME NEW obj \in Objects \cup {Null}, NEW us \in Delays, GenwaitWait(obj, us)
      PROVE  LatenessBounded'
  BY <1>1, <1>5, SleepKeepsLateness
<1>6. CASE WaitForNothing
  <2>1. current \notin Range(timerQ)
    BY <1>1, <1>6 DEF WaitForNothing, QueuesMatchStates, PlaceOfState
  <2>2. \A t \in Range(timerQ) : timeout'[t] = timeout[t]
    <3>1. timeout' = [timeout EXCEPT ![current] = 0] /\ timeout \in [Threads -> Nat]
      BY <1>1, <1>6 DEF WaitForNothing, TypeOK
    <3>2. Range(timerQ) \subseteq Threads
      BY <1>1, RangeOfSeq DEF TypeOK
    <3> QED BY <2>1, <3>1, <3>2
  <2> QED BY <1>2, <1>6, <2>2 DEF WaitForNothing
<1>7. ASSUME NEW obj \in Objects, NEW max \in {0, 1}, GenwaitWake(obj, max)
      PROVE  LatenessBounded'
  BY <1>1, <1>7, ReleaseKeepsLateness DEF GenwaitWake
<1>8. ASSUME NEW obj \in Objects \cup {Null}, NEW max \in {0, 1}, Interrupt(obj, max)
      PROVE  LatenessBounded'
  BY <1>1, <1>8, ReleaseKeepsLateness DEF Interrupt
<1>9. CASE Tick
  <2> DEFINE ret == [t \in Threads |-> IF waitObj[t] # Null THEN -1 ELSE 0]
  <2>1. LeaveWaiting(Expired(Advanced), ret) /\ time' = Advanced /\ ~halted
    BY <1>9 DEF Tick
  <2>2. Advanced \in Nat
    BY <1>1, TimeAssumption DEF Advanced, TypeOK
  <2>3. IsInjective(timerQ)
    BY <1>1, <2>1 DEF QueuesMatchStates, QueuesInjective
  <2> HIDE DEF ret
  <2>4. CASE Expired(Advanced) = << >>
    BY <1>1, <2>1, <2>2, <2>4, QuietTickKeepsLateness
  <2>5. CASE Expired(Advanced) # << >>
    <3>1. timerQ # << >> /\ Expired(Advanced) = <<Head(timerQ)>>
      BY <2>5 DEF Expired
    <3> QED BY <1>1, <2>1, <2>2, <2>3, <3>1, ReleasingTickKeepsLateness
  <2> QED BY <2>4, <2>5
<1>10. CASE UNCHANGED vars
  BY <1>2, <1>10 DEF vars, waits
<1> QED BY <1>3, <1>4, <1>5, <1>6, <1>7, <1>8, <1>9, <1>10 DEF Next

\* A sleeper is late by less than a quantum for each thread, although
\* updateSleepers releases one sleeper per timer interrupt.
THEOREM LatenessIsBounded == Spec => []LatenessBounded
<1>1. Init => LatenessBounded
  BY DEF Init, LatenessBounded
<1>2. IInv /\ LatenessBounded /\ [Next]_vars => LatenessBounded'
  BY StepKeepsLateness
<1> QED BY <1>1, <1>2, Invariance, PTL DEF Spec


-----------------------------------------------------------------------------
(* Mutexes and condition variables.                                        *)

\* The types of the variables Pthread adds.
PTyped ==
  /\ mutexLock \in [Mutexes -> {0, 1}]
  /\ condLock \in [Conds -> {0, 1}]
  /\ call \in [Threads -> [at : Places, mutex : Mutexes \cup {Null},
                           cond : Conds \cup {Null}, us : Delays]]
  /\ held \in [Threads -> SUBSET Mutexes]
  /\ owed \subseteq Threads

\* A thread waits on what its call says, and calls have their arguments.
Placed(t) ==
  /\ waitObj[t] \in Mutexes => At(t, "lockWaiting") /\ call[t].mutex = waitObj[t]
  /\ waitObj[t] \in Conds => At(t, "condWaiting") /\ call[t].cond = waitObj[t]
  /\ At(t, "lockWaiting") => call[t].mutex \in Mutexes
  /\ At(t, "unlocked") \/ At(t, "condWaiting") \/ At(t, "relocking") =>
       call[t].mutex \in Mutexes /\ call[t].cond \in Conds

\* Somebody has to unlock a locked mutex.
LockedIsHeld == \A m \in Mutexes : mutexLock[m] = 1 => \E u \in Threads : m \in held[u]

\* What the pthread variables add to the scheduler's invariant.
Calls ==
  /\ PTyped /\ \A t \in Threads : Placed(t)
  /\ LockedIsHeld /\ NoStrandedLocker /\ FlagIsBeingReset

\* The inductive invariant.
PInv == IInv /\ ~halted /\ Calls

-----------------------------------------------------------------------------
(* What the scheduler's steps do to the threads that wait.                 *)

\* The threads of W stop waiting and no others start or stop.
Released(W) ==
  \A t \in Threads : /\ Asleep(t)' <=> Asleep(t) /\ t \notin W
                     /\ waitObj'[t] = IF t \in W THEN Null ELSE waitObj[t]

\* A kernel that has not panicked: who waits, and that the running thread does not.
LEMMA WhoWaits ==
  ASSUME IInv, ~halted
  PROVE  /\ \A t \in Threads : Asleep(t) <=> timeout[t] > 0 \/ waitObj[t] # Null
         /\ current \in Threads => ~Asleep(current) /\ waitObj[current] = Null
         /\ \A t \in Threads, o \in Objects : AsleepOn(t, o) <=> waitObj[t] = o
<1>1. \A t \in Threads : PlaceOfState(t)
  BY Unpacked
<1>2. \A t \in Threads : Asleep(t) <=> timeout[t] > 0 \/ waitObj[t] # Null
  BY <1>1 DEF PlaceOfState, Asleep
<1>3. current \in Threads => ~Asleep(current)
  BY <1>1 DEF PlaceOfState, Asleep
<1> QED BY <1>2, <1>3, ObjectsAssumption DEF AsleepOn

\* LeaveWaiting releases exactly the threads it is given.
LEMMA LeavingReleases ==
  ASSUME IInv, ~halted, IInv', ~halted', NEW w, NEW ret, LeaveWaiting(w, ret)
  PROVE  Released(Range(w))
<1>1. \A t \in Threads : Asleep(t) <=> timeout[t] > 0 \/ waitObj[t] # Null
  BY WhoWaits
<1>2. \A t \in Threads : PlaceOfState(t)'
  BY DEF IInv, QueuesMatchStates
<1>3. \A t \in Threads : /\ timeout'[t] = IF t \in Range(w) THEN 0 ELSE timeout[t]
                         /\ waitObj'[t] = IF t \in Range(w) THEN Null ELSE waitObj[t]
  BY DEF LeaveWaiting
<1>4. \A t \in Threads : Asleep(t)' <=> timeout'[t] > 0 \/ waitObj'[t] # Null
  BY <1>2 DEF PlaceOfState, Asleep
<1> QED BY <1>1, <1>3, <1>4 DEF Released

\* genwait_wake meets waiters of its object only, somebody if there is one, and
\* all of them if it has no limit.
LEMMA WokenServes ==
  ASSUME IInv, ~halted, NEW obj \in Objects, NEW max \in {0, 1}
  PROVE  /\ \A t \in Range(Woken(obj, max)) : t \in Threads /\ AsleepOn(t, obj)
         /\ \A t \in Threads : AsleepOn(t, obj) => Range(Woken(obj, max)) # {}
         /\ max = 0 => \A t \in Threads : AsleepOn(t, obj) => t \in Range(Woken(obj, max))
<1> DEFINE on == Keep(waitQ, {t \in Threads : waitObj[t] = obj})
           w == Woken(obj, max)
<1>1. /\ TypeOK /\ QueuesInjective /\ \A t \in Threads : PlaceOfState(t)
  BY Unpacked
<1>2. on \in Seq(Threads) /\ Range(on) = Range(waitQ) \cap {t \in Threads : waitObj[t] = obj}
  BY <1>1, KeepProperties DEF TypeOK
<1> HIDE DEF on
<1>3. \A t \in Threads : t \in Range(on) <=> AsleepOn(t, obj)
  BY <1>1, <1>2, WhoWaits, ObjectsAssumption DEF PlaceOfState
<1>4. \A t \in Range(on) : t \in Threads
  BY <1>2
<1>5. w = IF 0 < max /\ max < Len(on) THEN SubSeq(on, 1, max) ELSE on
  BY DEF Woken, on
<1> HIDE DEF w
<1>6. CASE w = on
  BY <1>3, <1>4, <1>6 DEF w
<1>7. CASE max = 1 /\ 1 < Len(on) /\ w = SubSeq(on, 1, 1)
  <2>1. Len(on) \in Nat /\ 1 \in DOMAIN on /\ on[1] \in Range(on)
    BY <1>2, <1>7 DEF Range
  <2>2. \A i \in 1 .. 1 : on[i] \in Threads
    BY <2>1, <1>4
  <2>3. Len(w) = 1 /\ w[1] = on[1] /\ w \in Seq(Threads)
    BY <1>7, <2>2, SubSeqProperties
  <2>4. Range(w) = {on[1]}
    <3>1. DOMAIN w = {1}
      BY <2>3
    <3> QED BY <2>3, <3>1 DEF Range
  <2>5. \A t \in Range(w) : t \in Threads /\ AsleepOn(t, obj)
    BY <1>3, <1>4, <2>1, <2>4
  <2>6. Range(w) # {} /\ max # 0
    BY <1>7, <2>4
  <2> QED BY <2>5, <2>6 DEF w
<1> QED BY <1>5, <1>6, <1>7, <1>2


-----------------------------------------------------------------------------
(* The steps of the calls.                                                 *)

\* NoStrandedLocker and FlagIsBeingReset for one object each.
LockersServed(m) ==
  (\E t \in Threads : AsleepOn(t, m)) =>
    \/ mutexLock[m] = 1 /\ \E u \in Threads : m \in held[u]
    \/ \E u \in Threads : At(u, "lockWaiting") /\ call[u].mutex = m /\ ~Asleep(u)
SleepersServed(c) ==
  (\E t \in Threads : AsleepOn(t, c)) /\ condLock[c] = 0 =>
    /\ 1 \in WakeUps
    /\ \E u \in Threads : At(u, "condWaiting") /\ call[u].cond = c /\ ~Asleep(u)

\* What every step may use of the invariant.
LEMMA Known ==
  ASSUME PInv
  PROVE  /\ IInv /\ ~halted /\ PTyped /\ LockedIsHeld
         /\ \A t \in Threads : Placed(t)
         /\ \A m \in Mutexes : LockersServed(m)
         /\ \A c \in Conds : SleepersServed(c)
         /\ current \in Threads => ~Asleep(current) /\ waitObj[current] = Null
         /\ Null \notin Mutexes /\ Null \notin Conds /\ Mutexes \cap Conds = {}
         /\ Mutexes \subseteq Objects /\ Conds \subseteq Objects /\ 0 \in Delays
<1>1. IInv /\ ~halted /\ Calls
  BY DEF PInv
<1>2. \A m \in Mutexes : LockersServed(m)
  BY <1>1 DEF Calls, NoStrandedLocker, LockersServed
<1>3. \A c \in Conds : SleepersServed(c)
  BY <1>1 DEF Calls, FlagIsBeingReset, SleepersServed
<1> QED BY <1>1, <1>2, <1>3, WhoWaits, PthreadAssumption, ObjectsAssumption DEF Calls

\* The parts put together again.
LEMMA Together ==
  ASSUME IInv', ~halted', PTyped', LockedIsHeld',
         \A t \in Threads : Placed(t)',
         \A m \in Mutexes : LockersServed(m)',
         \A c \in Conds : SleepersServed(c)'
  PROVE  PInv'
<1>1. NoStrandedLocker'
  BY DEF NoStrandedLocker, LockersServed
<1>2. FlagIsBeingReset'
  BY DEF FlagIsBeingReset, SleepersServed
<1> QED BY <1>1, <1>2 DEF PInv, Calls

\* A thread whose call does not change, and that does not start to wait.
LEMMA PlacedStays ==
  ASSUME Null \notin Mutexes, Null \notin Conds, NEW t, Placed(t), call'[t] = call[t],
         waitObj'[t] = waitObj[t] \/ waitObj'[t] = Null
  PROVE  Placed(t)'
BY DEF Placed, At

\* A mutex nobody starts to wait for, that is not unlocked and that no woken
\* thread takes.
LEMMA LockersStay ==
  ASSUME NEW m, LockersServed(m),
         \A t \in Threads : AsleepOn(t, m)' => AsleepOn(t, m),
         \A t \in Threads : ~Asleep(t) /\ At(t, "lockWaiting") /\ call[t].mutex = m =>
           call'[t] = call[t] /\ ~Asleep(t)',
         mutexLock'[m] = mutexLock[m],
         \A t \in Threads : m \in held[t] => m \in held'[t]
  PROVE  LockersServed(m)'
BY DEF LockersServed, At

\* A condition nobody starts to wait for, that is not flagged and whose woken
\* threads stay where they are.
LEMMA SleepersStay ==
  ASSUME NEW c, SleepersServed(c),
         \A t \in Threads : AsleepOn(t, c)' => AsleepOn(t, c),
         \A t \in Threads : ~Asleep(t) /\ At(t, "condWaiting") /\ call[t].cond = c =>
           call'[t] = call[t] /\ ~Asleep(t)',
         condLock'[c] = condLock[c]
  PROVE  SleepersServed(c)'
BY DEF SleepersServed, At

\* Nothing the invariant says of the scheduler changes while its variables stay.
LEMMA SchedulerStays ==
  ASSUME IInv, ~halted, UNCHANGED vars
  PROVE  /\ IInv' /\ ~halted' /\ current' = current
         /\ \A t \in Threads : Asleep(t)' <=> Asleep(t)
         /\ \A t \in Threads : waitObj'[t] = waitObj[t]
         /\ \A t \in Threads, o \in Objects : AsleepOn(t, o)' => AsleepOn(t, o)
<1>1. IInv'
  BY StepInvariant
<1>2. eState' = eState /\ waitObj' = waitObj /\ halted' = halted /\ current' = current
  BY DEF vars, waits
<1> QED BY <1>1, <1>2 DEF Asleep, AsleepOn

\* mutex_lock getting the mutex.
LEMMA TakeKeeps ==
  ASSUME PInv, current \in Threads, NEW m \in Mutexes, TakeMutex(m),
         At(current, "client") \/ At(current, "relocking")
           \/ (At(current, "lockWaiting") /\ call[current].mutex = m),
         UNCHANGED <<vars, condLock, owed>>
  PROVE  PInv'
<1>1. /\ IInv' /\ ~halted' /\ current' = current
      /\ \A t \in Threads : Asleep(t)' <=> Asleep(t)
      /\ \A t \in Threads : waitObj'[t] = waitObj[t]
      /\ \A t \in Threads, o \in Objects : AsleepOn(t, o)' => AsleepOn(t, o)
  BY SchedulerStays, Known
<1>2. /\ mutexLock' = [mutexLock EXCEPT ![m] = 1]
      /\ held' = [held EXCEPT ![current] = @ \cup {m}]
      /\ call' = [call EXCEPT ![current] = Client]
      /\ condLock' = condLock /\ owed' = owed
  BY DEF TakeMutex
<1>3. PTyped
  BY Known
<1>4. Client \in [at : Places, mutex : Mutexes \cup {Null}, cond : Conds \cup {Null}, us : Delays]
  BY Known DEF Client, Places
<1>5. PTyped'
  BY <1>2, <1>3, <1>4 DEF PTyped
<1>6. /\ \A t \in Threads : /\ call'[t] = IF t = current THEN Client ELSE call[t]
                            /\ held'[t] = IF t = current THEN held[t] \cup {m} ELSE held[t]
      /\ \A n \in Mutexes : mutexLock'[n] = IF n = m THEN 1 ELSE mutexLock[n]
  BY <1>2, <1>3 DEF PTyped
<1>7. \A t \in Threads : Placed(t)'
  <2> TAKE t \in Threads
  <2>1. CASE t = current
    <3>1. waitObj[current] = Null /\ Null \notin Mutexes /\ Null \notin Conds
      BY Known
    <3>2. waitObj'[t] = Null
      BY <2>1, <3>1, <1>1
    <3>3. call'[t] = Client /\ Client.at = "client"
      BY <2>1, <1>6 DEF Client
    <3> QED BY <3>1, <3>2, <3>3 DEF Placed, At
  <2>2. CASE t # current
    BY <2>2, <1>1, <1>6, Known, PlacedStays
  <2> QED BY <2>1, <2>2
<1>8. LockedIsHeld'
  BY <1>6, Known DEF LockedIsHeld
<1>9. ASSUME NEW n \in Mutexes PROVE LockersServed(n)'
  <2>1. CASE n = m
    BY <1>6, <2>1 DEF LockersServed
  <2>2. CASE n # m
    <3>1. \A t \in Threads : At(t, "lockWaiting") /\ call[t].mutex = n => t # current
      BY <2>2 DEF At
    <3>2. \A t \in Threads : AsleepOn(t, n)' => AsleepOn(t, n)
      BY <1>1, Known
    <3>3. mutexLock'[n] = mutexLock[n] /\ \A t \in Threads : n \in held[t] => n \in held'[t]
      BY <2>2, <1>6
    <3>4. \A t \in Threads : ~Asleep(t) /\ At(t, "lockWaiting") /\ call[t].mutex = n =>
            call'[t] = call[t] /\ ~Asleep(t)'
      BY <3>1, <1>1, <1>6
    <3> QED BY <3>2, <3>3, <3>4, Known, LockersStay
  <2> QED BY <2>1, <2>2
<1>10. ASSUME NEW c \in Conds PROVE SleepersServed(c)'
  <2>1. \A t \in Threads : At(t, "condWaiting") => t # current
    BY DEF At
  <2> QED BY <2>1, <1>1, <1>2, <1>6, Known, SleepersStay
<1> QED BY <1>1, <1>5, <1>7, <1>8, <1>9, <1>10, Together

\* What genwait_wait does to the threads: the running one starts to wait.
LEMMA WaitingStarts ==
  ASSUME PInv, NEW obj \in Objects \cup {Null}, NEW us \in Delays, GenwaitWait(obj, us)
  PROVE  /\ IInv' /\ ~halted' /\ current \in Threads
         /\ \A t \in Threads : t # current => (Asleep(t)' <=> Asleep(t))
         /\ \A t \in Threads : waitObj'[t] = IF t = current THEN obj ELSE waitObj[t]
         /\ \A t \in Threads, o \in Objects : o # obj => (AsleepOn(t, o)' => AsleepOn(t, o))
<1>0. IInv /\ ~halted
  BY Known
<1>1. IInv' /\ ~halted' /\ current \in Threads
  BY <1>0, WaitKeeps DEF GenwaitWait
<1>2. /\ timeout' = [timeout EXCEPT ![current] = Deadline(us)]
      /\ waitObj' = [waitObj EXCEPT ![current] = obj]
  BY DEF GenwaitWait
<1>3. \A t \in Threads : /\ t # current => timeout'[t] = timeout[t]
                         /\ waitObj'[t] = IF t = current THEN obj ELSE waitObj[t]
  BY <1>0, <1>1, <1>2 DEF IInv, TypeOK
<1>4. \A t \in Threads : Asleep(t) <=> timeout[t] > 0 \/ waitObj[t] # Null
  BY <1>0, WhoWaits
<1>5. \A t \in Threads : Asleep(t)' <=> timeout'[t] > 0 \/ waitObj'[t] # Null
  <2>1. \A t \in Threads : PlaceOfState(t)'
    BY <1>1 DEF IInv, QueuesMatchStates
  <2> QED BY <2>1 DEF PlaceOfState, Asleep
<1>6. \A t \in Threads : t # current => (Asleep(t)' <=> Asleep(t))
  BY <1>3, <1>4, <1>5
<1>7. \A t \in Threads, o \in Objects : o # obj => (AsleepOn(t, o)' => AsleepOn(t, o))
  BY <1>3, <1>6 DEF AsleepOn
<1> QED BY <1>1, <1>3, <1>6, <1>7

\* mutex_lock finding the mutex locked.
LEMMA WaitForMutexKeeps ==
  ASSUME PInv, NEW m \in Mutexes, mutexLock[m] # 0, GenwaitWait(m, 0),
         call' = [call EXCEPT ![current] = [Client EXCEPT !.at = "lockWaiting", !.mutex = m]],
         At(current, "client") \/ At(current, "relocking"),
         UNCHANGED <<mutexLock, held, condLock, owed>>
  PROVE  PInv'
<1>1. /\ PTyped /\ Null \notin Mutexes /\ Null \notin Conds /\ Mutexes \cap Conds = {}
      /\ Mutexes \subseteq Objects /\ Conds \subseteq Objects /\ 0 \in Delays
      /\ mutexLock[m] = 1
  BY Known DEF PTyped
<1>2. /\ IInv' /\ ~halted' /\ current \in Threads
      /\ \A t \in Threads : t # current => (Asleep(t)' <=> Asleep(t))
      /\ \A t \in Threads : waitObj'[t] = IF t = current THEN m ELSE waitObj[t]
      /\ \A t \in Threads, o \in Objects : o # m => (AsleepOn(t, o)' => AsleepOn(t, o))
  BY <1>1, WaitingStarts
<1> DEFINE waiting == [Client EXCEPT !.at = "lockWaiting", !.mutex = m]
<1>3. /\ waiting \in [at : Places, mutex : Mutexes \cup {Null}, cond : Conds \cup {Null}, us : Delays]
      /\ waiting.at = "lockWaiting" /\ waiting.mutex = m
  BY <1>1 DEF Client, Places
<1> HIDE DEF waiting
<1>4. call' = [call EXCEPT ![current] = waiting]
  BY DEF waiting
<1>5. \A t \in Threads : call'[t] = IF t = current THEN waiting ELSE call[t]
  BY <1>1, <1>4 DEF PTyped
<1>6. PTyped'
  BY <1>1, <1>3, <1>4, ZenonT(60) DEF PTyped
<1>7. \A t \in Threads : Placed(t)'
  <2> TAKE t \in Threads
  <2>1. CASE t = current
    <3>1. waitObj'[t] = m /\ call'[t].at = "lockWaiting" /\ call'[t].mutex = m
      BY <2>1, <1>2, <1>3, <1>5
    <3> QED BY <1>1, <3>1 DEF Placed, At
  <2>2. CASE t # current
    BY <2>2, <1>2, <1>5, Known, PlacedStays
  <2> QED BY <2>1, <2>2
<1>8. LockedIsHeld'
  BY Known DEF LockedIsHeld
<1>9. ASSUME NEW n \in Mutexes PROVE LockersServed(n)'
  <2>1. CASE n = m
    <3>1. \E u \in Threads : m \in held'[u]
      BY <1>1, Known DEF LockedIsHeld
    <3> QED BY <1>1, <2>1, <3>1 DEF LockersServed
  <2>2. CASE n # m
    <3>1. \A t \in Threads : AsleepOn(t, n)' => AsleepOn(t, n)
      BY <1>1, <1>2, <2>2
    <3>2. \A t \in Threads : ~Asleep(t) /\ At(t, "lockWaiting") /\ call[t].mutex = n =>
            call'[t] = call[t] /\ ~Asleep(t)'
      BY <1>2, <1>5 DEF At
    <3> QED BY <3>1, <3>2, Known, LockersStay
  <2> QED BY <2>1, <2>2
<1>10. ASSUME NEW c \in Conds PROVE SleepersServed(c)'
  <2>1. \A t \in Threads : AsleepOn(t, c)' => AsleepOn(t, c)
    BY <1>1, <1>2
  <2>2. \A t \in Threads : ~Asleep(t) /\ At(t, "condWaiting") /\ call[t].cond = c =>
          call'[t] = call[t] /\ ~Asleep(t)'
    BY <1>2, <1>5 DEF At
  <2> QED BY <2>1, <2>2, Known, SleepersStay
<1> QED BY <1>2, <1>6, <1>7, <1>8, <1>9, <1>10, Together

\* What genwait_wake does to the threads.
LEMMA WakingReleases ==
  ASSUME PInv, NEW obj \in Objects, NEW max \in {0, 1},
         GenwaitWake(obj, max) \/ Interrupt(obj, max)
  PROVE  /\ IInv' /\ ~halted'
         /\ \A t \in Threads : waitObj'[t] = waitObj[t] \/ waitObj'[t] = Null
         /\ \A t \in Threads : Asleep(t)' => Asleep(t)
         /\ \A t \in Threads, o \in Objects : AsleepOn(t, o)' => AsleepOn(t, o)
         /\ (\E t \in Threads : AsleepOn(t, obj)') =>
              /\ max = 1
              /\ \E u \in Threads : waitObj[u] = obj /\ ~Asleep(u)'
<1> DEFINE W == Range(Woken(obj, max))
<1>0. IInv /\ ~halted
  BY Known
<1>1. IInv' /\ ~halted' /\ LeaveWaiting(Woken(obj, max), [t \in Threads |-> 0])
  BY <1>0, WakeKeeps, InterruptKeeps DEF GenwaitWake, Interrupt
<1>2. Released(W)
  BY <1>0, <1>1, LeavingReleases
<1>3. /\ \A t \in W : t \in Threads /\ AsleepOn(t, obj)
      /\ \A t \in Threads : AsleepOn(t, obj) => W # {}
      /\ max = 0 => \A t \in Threads : AsleepOn(t, obj) => t \in W
  BY <1>0, WokenServes
<1> HIDE DEF W
<1>4. /\ \A t \in Threads : waitObj'[t] = waitObj[t] \/ waitObj'[t] = Null
      /\ \A t \in Threads : Asleep(t)' => Asleep(t)
      /\ \A t \in Threads, o \in Objects : AsleepOn(t, o)' => AsleepOn(t, o) /\ t \notin W
  BY <1>2, ObjectsAssumption DEF Released, AsleepOn
<1>5. ASSUME NEW t \in Threads, AsleepOn(t, obj)'
      PROVE  max = 1 /\ \E u \in Threads : waitObj[u] = obj /\ ~Asleep(u)'
  <2>1. AsleepOn(t, obj) /\ t \notin W
    BY <1>4, <1>5
  <2>2. PICK u \in W : TRUE
    BY <2>1, <1>3
  <2>3. u \in Threads /\ waitObj[u] = obj /\ ~Asleep(u)'
    BY <2>2, <1>2, <1>3 DEF Released, AsleepOn
  <2> QED BY <2>1, <2>3, <1>3
<1> QED BY <1>1, <1>4, <1>5

\* mutex_unlock, whose caller goes on with the call r.
LEMMA UnlockKeeps ==
  ASSUME PInv, ~halted, current \in Threads, At(current, "client"), NEW m \in Mutexes, UnlockMutex(m),
         NEW r \in [at : Places, mutex : Mutexes \cup {Null}, cond : Conds \cup {Null}, us : Delays],
         r.at = "client" \/ (r.at = "unlocked" /\ r.mutex \in Mutexes /\ r.cond \in Conds),
         call' = [call EXCEPT ![current] = r],
         UNCHANGED <<condLock, owed>>
  PROVE  PInv'
<1>1. /\ PTyped /\ Null \notin Mutexes /\ Null \notin Conds /\ Mutexes \cap Conds = {}
      /\ Mutexes \subseteq Objects /\ Conds \subseteq Objects /\ waitObj[current] = Null
  BY Known
<1>2. /\ IInv' /\ ~halted'
      /\ \A t \in Threads : waitObj'[t] = waitObj[t] \/ waitObj'[t] = Null
      /\ \A t \in Threads : Asleep(t)' => Asleep(t)
      /\ \A t \in Threads, o \in Objects : AsleepOn(t, o)' => AsleepOn(t, o)
      /\ mutexLock' \in [Mutexes -> {0, 1}]
      /\ \A n \in Mutexes : n # m => mutexLock'[n] = mutexLock[n]
      /\ mutexLock'[m] = 0
      /\ (\E t \in Threads : AsleepOn(t, m)') =>
           \/ \E u \in Threads : waitObj[u] = m /\ ~Asleep(u)'
           \/ mutexLock[m] = 0
  <2>1. CASE mutexLock[m] = 1 /\ mutexLock' = [mutexLock EXCEPT ![m] = 0] /\ GenwaitWake(m, 1)
    <3>1. /\ mutexLock' \in [Mutexes -> {0, 1}] /\ mutexLock'[m] = 0
          /\ \A n \in Mutexes : n # m => mutexLock'[n] = mutexLock[n]
      BY <1>1, <2>1 DEF PTyped
    <3>2. m \in Objects
      BY <1>1
    <3> QED BY <2>1, <3>1, <3>2, WakingReleases
  <2>2. CASE mutexLock[m] # 1 /\ UNCHANGED <<vars, mutexLock>>
    <3>1. mutexLock[m] = 0 /\ mutexLock' \in [Mutexes -> {0, 1}]
      BY <1>1, <2>2 DEF PTyped
    <3> QED BY <2>2, <3>1, SchedulerStays, Known
  <2> QED BY <2>1, <2>2 DEF UnlockMutex
<1>3. held' = [held EXCEPT ![current] = @ \ {m}]
  BY DEF UnlockMutex
<1>4. /\ \A t \in Threads : call'[t] = IF t = current THEN r ELSE call[t]
      /\ \A t \in Threads, n \in Mutexes : n # m /\ n \in held[t] => n \in held'[t]
  BY <1>1, <1>3 DEF PTyped
<1>5. PTyped'
  BY <1>1, <1>2, <1>3 DEF PTyped
<1>6. \A t \in Threads : Placed(t)'
  <2> TAKE t \in Threads
  <2>1. CASE t = current
    <3>1. waitObj'[t] = Null /\ call'[t] = r
      BY <2>1, <1>1, <1>2, <1>4
    <3> QED BY <1>1, <3>1 DEF Placed, At
  <2>2. CASE t # current
    BY <2>2, <1>1, <1>2, <1>4, Known, PlacedStays
  <2> QED BY <2>1, <2>2
<1>7. LockedIsHeld'
  <2> SUFFICES ASSUME NEW n \in Mutexes, mutexLock'[n] = 1
               PROVE  \E u \in Threads : n \in held'[u]
    BY DEF LockedIsHeld
  <2>1. n # m /\ mutexLock[n] = 1
    BY <1>2
  <2> QED BY <2>1, <1>4, Known DEF LockedIsHeld
<1>8. \A t \in Threads : ~Asleep(t) /\ (At(t, "lockWaiting") \/ At(t, "condWaiting")) =>
        call'[t] = call[t] /\ ~Asleep(t)'
  BY <1>2, <1>4 DEF At
<1>9. ASSUME NEW n \in Mutexes PROVE LockersServed(n)'
  <2>1. CASE n # m
    <3>1. /\ \A t \in Threads : AsleepOn(t, n)' => AsleepOn(t, n)
          /\ \A t \in Threads : n \in held[t] => n \in held'[t]
          /\ mutexLock'[n] = mutexLock[n]
      BY <1>1, <1>2, <1>4, <2>1
    <3> QED BY <3>1, <1>8, Known, LockersStay
  <2>2. CASE n = m /\ \E u \in Threads : waitObj[u] = m /\ ~Asleep(u)'
    <3>1. PICK u \in Threads : waitObj[u] = m /\ ~Asleep(u)'
      BY <2>2
    <3>2. At(u, "lockWaiting") /\ call[u].mutex = m
      BY <3>1, Known DEF Placed
    <3>3. call'[u] = call[u]
      BY <3>2, <1>4 DEF At
    <3> QED BY <3>1, <3>2, <3>3, <2>2 DEF LockersServed, At
  <2>3. CASE n = m /\ mutexLock[m] = 0
    <3> SUFFICES ASSUME NEW t \in Threads, AsleepOn(t, n)'
                 PROVE  \E u \in Threads : At(u, "lockWaiting")' /\ call'[u].mutex = n /\ ~Asleep(u)'
      BY DEF LockersServed
    <3>1. AsleepOn(t, n)
      BY <1>1, <1>2
    <3>2. PICK u \in Threads : At(u, "lockWaiting") /\ call[u].mutex = n /\ ~Asleep(u)
      BY <3>1, <2>3, Known DEF LockersServed
    <3> QED BY <3>2, <1>8 DEF At
  <2>4. CASE n = m /\ ~\E t \in Threads : AsleepOn(t, m)'
    BY <2>4 DEF LockersServed
  <2> QED BY <1>2, <2>1, <2>2, <2>3, <2>4
<1>10. ASSUME NEW c \in Conds PROVE SleepersServed(c)'
  <2>1. \A t \in Threads : AsleepOn(t, c)' => AsleepOn(t, c)
    BY <1>1, <1>2
  <2> QED BY <2>1, <1>8, Known, SleepersStay
<1> QED BY <1>2, <1>5, <1>6, <1>7, <1>9, <1>10, Together

\* The current thread moves on in its call.
LEMMA Moving ==
  ASSUME PTyped, current \in Threads, NEW p \in Places, MoveTo(p)
  PROVE  /\ call' \in [Threads -> [at : Places, mutex : Mutexes \cup {Null},
                                   cond : Conds \cup {Null}, us : Delays]]
         /\ \A t \in Threads : t # current => call'[t] = call[t]
         /\ call'[current].at = p /\ call'[current].mutex = call[current].mutex
         /\ call'[current].cond = call[current].cond
<1> DEFINE r == [call[current] EXCEPT !.at = p]
<1>1. call[current] \in [at : Places, mutex : Mutexes \cup {Null},
                         cond : Conds \cup {Null}, us : Delays]
  BY DEF PTyped
<1>2. /\ r \in [at : Places, mutex : Mutexes \cup {Null}, cond : Conds \cup {Null}, us : Delays]
      /\ r.at = p /\ r.mutex = call[current].mutex /\ r.cond = call[current].cond
  BY <1>1
<1>3. call' = [call EXCEPT ![current] = r]
  BY DEF MoveTo
<1> QED BY <1>2, <1>3 DEF PTyped

\* The condition is reset and the mutex locked again: woken, timed out or flagged.
LEMMA RelockingKeeps ==
  ASSUME PInv, current \in Threads, At(current, "unlocked") \/ At(current, "condWaiting"),
         condLock' = [condLock EXCEPT ![call[current].cond] = 1], MoveTo("relocking"),
         owed' = owed \ {current}, UNCHANGED <<vars, mutexLock, held>>
  PROVE  PInv'
<1> DEFINE c == call[current].cond
<1>1. /\ PTyped /\ Null \notin Mutexes /\ Null \notin Conds
      /\ Mutexes \subseteq Objects /\ Conds \subseteq Objects /\ waitObj[current] = Null
  BY Known
<1>2. c \in Conds /\ call[current].mutex \in Mutexes
  BY Known DEF Placed
<1>3. /\ IInv' /\ ~halted'
      /\ \A t \in Threads : Asleep(t)' <=> Asleep(t)
      /\ \A t \in Threads : waitObj'[t] = waitObj[t]
      /\ \A t \in Threads, o \in Objects : AsleepOn(t, o)' => AsleepOn(t, o)
  BY SchedulerStays, Known
<1>4. /\ call' \in [Threads -> [at : Places, mutex : Mutexes \cup {Null},
                                cond : Conds \cup {Null}, us : Delays]]
      /\ \A t \in Threads : t # current => call'[t] = call[t]
      /\ call'[current].at = "relocking" /\ call'[current].mutex = call[current].mutex
      /\ call'[current].cond = c
  BY <1>1, Moving DEF Places
<1>5. condLock' = [condLock EXCEPT ![c] = 1]
  OBVIOUS
<1> HIDE DEF c
<1>6. /\ condLock' \in [Conds -> {0, 1}] /\ condLock'[c] = 1
      /\ \A d \in Conds : d # c => condLock'[d] = condLock[d]
  BY <1>1, <1>2, <1>5 DEF PTyped
<1>7. PTyped'
  BY <1>1, <1>4, <1>6 DEF PTyped
<1>8. \A t \in Threads : Placed(t)'
  <2> TAKE t \in Threads
  <2>1. CASE t = current
    BY <2>1, <1>1, <1>2, <1>3, <1>4 DEF Placed, At
  <2>2. CASE t # current
    BY <2>2, <1>3, <1>4, Known, PlacedStays
  <2> QED BY <2>1, <2>2
<1>9. LockedIsHeld'
  BY Known DEF LockedIsHeld
<1>10. ASSUME NEW n \in Mutexes PROVE LockersServed(n)'
  <2>1. \A t \in Threads : AsleepOn(t, n)' => AsleepOn(t, n)
    BY <1>1, <1>3
  <2>2. \A t \in Threads : ~Asleep(t) /\ At(t, "lockWaiting") => call'[t] = call[t] /\ ~Asleep(t)'
    <3>1. ~At(current, "lockWaiting")
      BY DEF At
    <3> QED BY <3>1, <1>3, <1>4
  <2> QED BY <2>1, <2>2, Known, LockersStay
<1>11. ASSUME NEW d \in Conds PROVE SleepersServed(d)'
  <2>1. CASE d = c
    BY <1>6, <2>1 DEF SleepersServed
  <2>2. CASE d # c
    <3>1. \A t \in Threads : AsleepOn(t, d)' => AsleepOn(t, d)
      BY <1>1, <1>3
    <3>2. \A t \in Threads : ~Asleep(t) /\ At(t, "condWaiting") /\ call[t].cond = d =>
            call'[t] = call[t] /\ ~Asleep(t)'
      <4>1. call[current].cond # d
        BY <2>2 DEF c
      <4> QED BY <4>1, <1>3, <1>4
    <3> QED BY <3>1, <3>2, <1>6, <2>2, Known, SleepersStay
  <2> QED BY <2>1, <2>2
<1> QED BY <1>3, <1>7, <1>8, <1>9, <1>10, <1>11, Together

\* The second stretch of cond_wait: waiting, or consuming the flag.
LEMMA CondSleepKeeps ==
  ASSUME PInv, CondSleep
  PROVE  PInv'
<1> DEFINE c == call[current].cond
<1>1. /\ PTyped /\ Null \notin Mutexes /\ Null \notin Conds /\ Mutexes \cap Conds = {}
      /\ Mutexes \subseteq Objects /\ Conds \subseteq Objects
      /\ current \in Threads /\ At(current, "unlocked") /\ waitObj[current] = Null
      /\ c \in Conds /\ call[current].us \in Delays /\ Placed(current)
      /\ call[current].mutex \in Mutexes
  <2>1. /\ current \in Threads /\ At(current, "unlocked")
    BY DEF CondSleep, Here
  <2>2. PTyped /\ Placed(current)
    BY <2>1, Known
  <2>3. c \in Conds /\ call[current].mutex \in Mutexes
    BY <2>1, <2>2 DEF Placed
  <2>4. call[current].us \in Delays
    BY <2>1, <2>2 DEF PTyped
  <2> QED BY <2>1, <2>2, <2>3, <2>4, Known
<1> HIDE DEF c
<1>2. UNCHANGED <<mutexLock, held>>
  BY DEF CondSleep
<1>3. ASSUME condLock[c] # 0, GenwaitWait(c, call[current].us), MoveTo("condWaiting"),
             UNCHANGED <<condLock, owed>>
      PROVE  PInv'
  <2>1. /\ IInv' /\ ~halted'
        /\ \A t \in Threads : t # current => (Asleep(t)' <=> Asleep(t))
        /\ \A t \in Threads : waitObj'[t] = IF t = current THEN c ELSE waitObj[t]
        /\ \A t \in Threads, o \in Objects : o # c => (AsleepOn(t, o)' => AsleepOn(t, o))
    BY <1>1, <1>3, WaitingStarts
  <2>2. /\ call' \in [Threads -> [at : Places, mutex : Mutexes \cup {Null},
                                  cond : Conds \cup {Null}, us : Delays]]
        /\ \A t \in Threads : t # current => call'[t] = call[t]
        /\ call'[current].at = "condWaiting" /\ call'[current].mutex = call[current].mutex
        /\ call'[current].cond = c
    BY <1>1, <1>3, Moving DEF Places, c
  <2>3. PTyped'
    BY <1>1, <1>2, <1>3, <2>2 DEF PTyped
  <2>4. \A t \in Threads : Placed(t)'
    <3> TAKE t \in Threads
    <3>1. CASE t = current
      BY <3>1, <1>1, <2>1, <2>2 DEF Placed, At
    <3>2. CASE t # current
      BY <3>2, <2>1, <2>2, Known, PlacedStays
    <3> QED BY <3>1, <3>2
  <2>5. LockedIsHeld'
    BY <1>2, Known DEF LockedIsHeld
  <2>6. \A t \in Threads : ~Asleep(t) /\ (At(t, "lockWaiting") \/ At(t, "condWaiting")) =>
          call'[t] = call[t] /\ ~Asleep(t)'
    <3>1. ~At(current, "lockWaiting") /\ ~At(current, "condWaiting")
      BY <1>1 DEF At
    <3> QED BY <3>1, <2>1, <2>2
  <2>7. ASSUME NEW n \in Mutexes PROVE LockersServed(n)'
    <3>1. \A t \in Threads : AsleepOn(t, n)' => AsleepOn(t, n)
      BY <1>1, <2>1
    <3> QED BY <3>1, <1>2, <2>6, Known, LockersStay
  <2>8. ASSUME NEW d \in Conds PROVE SleepersServed(d)'
    <3>1. CASE d = c
      BY <1>3, <3>1 DEF SleepersServed
    <3>2. CASE d # c
      <4>1. \A t \in Threads : AsleepOn(t, d)' => AsleepOn(t, d)
        BY <1>1, <2>1, <3>2
      <4> QED BY <4>1, <1>3, <2>6, Known, SleepersStay
    <3> QED BY <3>1, <3>2
  <2> QED BY <2>1, <2>3, <2>4, <2>5, <2>7, <2>8, Together
<1>4. ASSUME condLock' = [condLock EXCEPT ![c] = 1], MoveTo("relocking"),
             owed' = owed \ {current}, UNCHANGED vars
      PROVE  PInv'
  BY <1>1, <1>2, <1>4, RelockingKeeps DEF c
<1> QED BY <1>3, <1>4 DEF CondSleep, c

\* A wake-up of the waiters for one object and a step of the scheduler that only
\* lets threads stop waiting, when the calls stay as they are.
LEMMA ReleasesKeep ==
  ASSUME PInv, IInv', ~halted', UNCHANGED <<mutexLock, call, held>>, owed' \subseteq Threads,
         \A t \in Threads : waitObj'[t] = waitObj[t] \/ waitObj'[t] = Null,
         \A t \in Threads : Asleep(t)' => Asleep(t),
         \A t \in Threads, o \in Objects : AsleepOn(t, o)' => AsleepOn(t, o),
         condLock' \in [Conds -> {0, 1}],
         \A c \in Conds : condLock'[c] = condLock[c]
                            \/ ((\E t \in Threads : AsleepOn(t, c)') =>
                                  /\ 1 \in WakeUps
                                  /\ \E u \in Threads : waitObj[u] = c /\ ~Asleep(u)')
  PROVE  PInv'
<1>1. /\ PTyped /\ Null \notin Mutexes /\ Null \notin Conds
      /\ Mutexes \subseteq Objects /\ Conds \subseteq Objects
  BY Known
<1>2. PTyped'
  BY <1>1 DEF PTyped
<1>3. \A t \in Threads : Placed(t)'
  BY <1>1, Known, PlacedStays
<1>4. LockedIsHeld'
  BY Known DEF LockedIsHeld
<1>5. \A t \in Threads : ~Asleep(t) => call'[t] = call[t] /\ ~Asleep(t)'
  OBVIOUS
<1>6. ASSUME NEW n \in Mutexes PROVE LockersServed(n)'
  <2>1. \A t \in Threads : AsleepOn(t, n)' => AsleepOn(t, n)
    BY <1>1
  <2> QED BY <2>1, <1>5, Known, LockersStay
<1>7. ASSUME NEW c \in Conds PROVE SleepersServed(c)'
  <2>1. CASE condLock'[c] = condLock[c]
    <3>1. \A t \in Threads : AsleepOn(t, c)' => AsleepOn(t, c)
      BY <1>1
    <3> QED BY <3>1, <2>1, <1>5, Known, SleepersStay
  <2>2. CASE (\E t \in Threads : AsleepOn(t, c)') =>
               1 \in WakeUps /\ \E u \in Threads : waitObj[u] = c /\ ~Asleep(u)'
    <3> SUFFICES ASSUME \E t \in Threads : AsleepOn(t, c)'
                 PROVE  /\ 1 \in WakeUps
                        /\ \E u \in Threads : At(u, "condWaiting")' /\ call'[u].cond = c /\ ~Asleep(u)'
      BY DEF SleepersServed
    <3>1. PICK u \in Threads : 1 \in WakeUps /\ waitObj[u] = c /\ ~Asleep(u)'
      BY <2>2
    <3>2. At(u, "condWaiting") /\ call[u].cond = c
      BY <3>1, Known DEF Placed
    <3> QED BY <3>1, <3>2 DEF At
  <2> QED BY <2>1, <2>2
<1> QED BY <1>2, <1>3, <1>4, <1>6, <1>7, Together

\* cond_signal and cond_broadcast, by a thread or in an interrupt.
LEMMA NotifyKeeps ==
  ASSUME PInv, NEW c \in Conds, NEW max \in WakeUps, condLock[c] = 1,
         condLock' = [condLock EXCEPT ![c] = 0], GenwaitWake(c, max) \/ Interrupt(c, max),
         Owe(c, max), UNCHANGED <<mutexLock, call, held>>
  PROVE  PInv'
<1>1. PTyped /\ c \in Objects /\ max \in {0, 1}
  BY Known, PthreadAssumption
<1>2. owed' \subseteq Threads
  BY <1>1 DEF Owe, PTyped
<1>3. /\ IInv' /\ ~halted'
      /\ \A t \in Threads : waitObj'[t] = waitObj[t] \/ waitObj'[t] = Null
      /\ \A t \in Threads : Asleep(t)' => Asleep(t)
      /\ \A t \in Threads, o \in Objects : AsleepOn(t, o)' => AsleepOn(t, o)
      /\ (\E t \in Threads : AsleepOn(t, c)') =>
           1 \in WakeUps /\ \E u \in Threads : waitObj[u] = c /\ ~Asleep(u)'
  BY <1>1, WakingReleases
<1>4. condLock' \in [Conds -> {0, 1}] /\ \A d \in Conds : d # c => condLock'[d] = condLock[d]
  BY <1>1 DEF PTyped
<1>5. \A d \in Conds : condLock'[d] = condLock[d]
                         \/ ((\E t \in Threads : AsleepOn(t, d)') =>
                               /\ 1 \in WakeUps
                               /\ \E u \in Threads : waitObj[u] = d /\ ~Asleep(u)')
  <2> TAKE d \in Conds
  <2>1. CASE d = c
    BY <2>1, <1>3
  <2>2. CASE d # c
    BY <2>2, <1>4
  <2> QED BY <2>1, <2>2
<1> QED BY <1>2, <1>3, <1>4, <1>5, ReleasesKeep

\* The scheduler's steps that are no wait and no wake-up of an object.
LEMMA SchedulerReleases ==
  ASSUME IInv, ~halted, (\E t \in Threads : Create(t)) \/ Exit \/ Interrupt(Null, 0) \/ Tick
  PROVE  /\ IInv' /\ ~halted'
         /\ \A t \in Threads : waitObj'[t] = waitObj[t] \/ waitObj'[t] = Null
         /\ \A t \in Threads : Asleep(t)' => Asleep(t)
         /\ \A t \in Threads, o \in Objects : AsleepOn(t, o)' => AsleepOn(t, o)
<1>1. CASE (\E t \in Threads : Create(t)) \/ Exit
  <2>1. IInv' /\ ~halted'
    BY <1>1, CreateKeeps, ExitKeeps DEF Create, Exit
  <2>2. timeout' = timeout /\ waitObj' = waitObj
    BY <1>1 DEF Create, Exit, waits
  <2>3. \A t \in Threads : Asleep(t) <=> timeout[t] > 0 \/ waitObj[t] # Null
    BY WhoWaits
  <2>4. \A t \in Threads : Asleep(t)' <=> timeout'[t] > 0 \/ waitObj'[t] # Null
    <3>1. \A t \in Threads : PlaceOfState(t)'
      BY <2>1 DEF IInv, QueuesMatchStates
    <3> QED BY <3>1 DEF PlaceOfState, Asleep
  <2> QED BY <2>1, <2>2, <2>3, <2>4 DEF AsleepOn
<1>2. CASE Interrupt(Null, 0) \/ Tick
  <2>1. IInv' /\ ~halted'
    BY <1>2, InterruptKeeps, TickKeeps DEF Interrupt, Tick
  <2>2. \E w, ret : LeaveWaiting(w, ret)
    BY <1>2 DEF Interrupt, Tick
  <2>3. PICK w, ret : LeaveWaiting(w, ret)
    BY <2>2
  <2>4. Released(Range(w))
    BY <2>1, <2>3, LeavingReleases
  <2> QED BY <2>1, <2>4, ObjectsAssumption DEF Released, AsleepOn
<1> QED BY <1>1, <1>2

\* The scheduler's own operations keep the invariant.
LEMMA SchedulerStepKeeps ==
  ASSUME PInv, SchedulerStep
  PROVE  PInv'
<1>1. PTyped /\ UNCHANGED <<mutexLock, condLock, call, held, owed>>
  BY Known DEF SchedulerStep
<1>2. CASE \E us \in Delays \ {0} : Here("client") /\ GenwaitWait(Null, us)
  <2>1. PICK us \in Delays : Here("client") /\ GenwaitWait(Null, us)
    BY <1>2
  <2>2. /\ IInv' /\ ~halted' /\ current \in Threads /\ At(current, "client")
        /\ \A t \in Threads : t # current => (Asleep(t)' <=> Asleep(t))
        /\ \A t \in Threads : waitObj'[t] = IF t = current THEN Null ELSE waitObj[t]
        /\ \A t \in Threads, o \in Objects : AsleepOn(t, o)' => AsleepOn(t, o)
    BY <2>1, WaitingStarts, ObjectsAssumption DEF Here
  <2>3. PTyped' /\ LockedIsHeld'
    BY <1>1, Known DEF PTyped, LockedIsHeld
  <2>4. \A t \in Threads : Placed(t)'
    BY <1>1, <2>2, Known, PlacedStays
  <2>5. \A t \in Threads : ~Asleep(t) /\ (At(t, "lockWaiting") \/ At(t, "condWaiting")) =>
          call'[t] = call[t] /\ ~Asleep(t)'
    <3>1. ~At(current, "lockWaiting") /\ ~At(current, "condWaiting")
      BY <2>2 DEF At
    <3> QED BY <1>1, <2>2, <3>1
  <2>6. ASSUME NEW n \in Mutexes PROVE LockersServed(n)'
    BY <1>1, <2>2, <2>5, Known, LockersStay
  <2>7. ASSUME NEW c \in Conds PROVE SleepersServed(c)'
    BY <1>1, <2>2, <2>5, Known, SleepersStay
  <2> QED BY <2>2, <2>3, <2>4, <2>6, <2>7, Together
<1>3. CASE (\E t \in Threads : Create(t)) \/ Exit \/ Interrupt(Null, 0) \/ Tick
  <2>1. /\ IInv' /\ ~halted'
        /\ \A t \in Threads : waitObj'[t] = waitObj[t] \/ waitObj'[t] = Null
        /\ \A t \in Threads : Asleep(t)' => Asleep(t)
        /\ \A t \in Threads, o \in Objects : AsleepOn(t, o)' => AsleepOn(t, o)
    BY <1>3, SchedulerReleases, Known
  <2>2. owed' \subseteq Threads /\ condLock' \in [Conds -> {0, 1}]
    BY <1>1 DEF PTyped
  <2> QED BY <1>1, <2>1, <2>2, ReleasesKeep
<1> QED BY <1>2, <1>3 DEF SchedulerStep

-----------------------------------------------------------------------------
\* At boot nobody is in a call.
LEMMA PInitHolds == PInit => PInv
<1> SUFFICES ASSUME PInit PROVE PInv
  OBVIOUS
<1>1. IInv /\ ~halted
  BY InitInvariant DEF PInit, Init
<1>2. /\ mutexLock = [m \in Mutexes |-> 0] /\ condLock = [c \in Conds |-> 1]
      /\ call = [t \in Threads |-> Client] /\ held = [t \in Threads |-> {}] /\ owed = {}
      /\ waitObj = [t \in Threads |-> Null]
  BY DEF PInit, Init
<1>3. Client \in [at : Places, mutex : Mutexes \cup {Null}, cond : Conds \cup {Null}, us : Delays]
  BY PthreadAssumption DEF Client, Places
<1>4. PTyped
  BY <1>2, <1>3 DEF PTyped
<1>5. /\ Null \notin Mutexes /\ Null \notin Conds
      /\ \A t \in Threads : waitObj[t] = Null /\ call[t].at = "client"
  BY <1>2, PthreadAssumption, ObjectsAssumption DEF Client
<1>6. \A t \in Threads : Placed(t)
  BY <1>5 DEF Placed, At
<1>7. LockedIsHeld /\ NoStrandedLocker /\ FlagIsBeingReset
  BY <1>2, <1>5 DEF LockedIsHeld, NoStrandedLocker, FlagIsBeingReset, AsleepOn
<1> QED BY <1>1, <1>4, <1>6, <1>7 DEF PInv, Calls

\* mutex_lock from its entry.
LEMMA LockMutexKeeps ==
  ASSUME PInv, current \in Threads, At(current, "client") \/ At(current, "relocking"),
         NEW m \in Mutexes, LockMutex(m), UNCHANGED <<condLock, owed>>
  PROVE  PInv'
BY TakeKeeps, WaitForMutexKeeps DEF LockMutex

\* Every step keeps the invariant.
LEMMA PStepInvariant == PInv /\ [PNext]_pvars => PInv'
<1> SUFFICES ASSUME PInv, [PNext]_pvars PROVE PInv'
  OBVIOUS
<1>1. ASSUME NEW m \in Mutexes, Lock(m) PROVE PInv'
  BY <1>1, LockMutexKeeps DEF Lock, Here
<1>2. ASSUME NEW m \in Mutexes, TryLock(m) PROVE PInv'
  BY <1>2, TakeKeeps DEF TryLock, Here
<1>3. ASSUME NEW m \in Mutexes, Unlock(m) PROVE PInv'
  <2>1. /\ current \in Threads /\ call[current].at = "client"
        /\ call[current] \in [at : Places, mutex : Mutexes \cup {Null}, cond : Conds \cup {Null}, us : Delays]
        /\ call' = [call EXCEPT ![current] = call[current]]
    BY <1>3, Known DEF Unlock, Here, At, PTyped
  <2> QED BY <1>3, <2>1, UnlockKeeps DEF Unlock, Here
<1>4. CASE LockResumed
  <2>1. /\ current \in Threads /\ At(current, "lockWaiting") /\ TakeMutex(call[current].mutex)
        /\ UNCHANGED <<vars, condLock, owed>>
    BY <1>4 DEF LockResumed, Here
  <2>2. call[current].mutex \in Mutexes
    BY <2>1, Known DEF Placed
  <2> QED BY <2>1, <2>2, TakeKeeps
<1>5. ASSUME NEW c \in Conds, NEW m \in Mutexes, NEW us \in Delays, CondWait(c, m, us) PROVE PInv'
  <2> DEFINE r == [at |-> "unlocked", mutex |-> m, cond |-> c, us |-> us]
  <2>1. /\ r \in [at : Places, mutex : Mutexes \cup {Null}, cond : Conds \cup {Null}, us : Delays]
        /\ r.at = "unlocked" /\ r.mutex \in Mutexes /\ r.cond \in Conds
    BY DEF Places
  <2>2. call' = [call EXCEPT ![current] = r]
    BY <1>5 DEF CondWait
  <2> HIDE DEF r
  <2> QED BY <1>5, <2>1, <2>2, UnlockKeeps DEF CondWait, Here
<1>6. CASE CondSleep
  BY <1>6, CondSleepKeeps
<1>7. CASE CondResumed
  BY <1>7, RelockingKeeps DEF CondResumed, Here
<1>8. CASE Relock
  <2>1. /\ current \in Threads /\ At(current, "relocking") /\ LockMutex(call[current].mutex)
        /\ UNCHANGED <<condLock, owed>>
    BY <1>8 DEF Relock, Here
  <2>2. call[current].mutex \in Mutexes
    BY <2>1, Known DEF Placed
  <2> QED BY <2>1, <2>2, LockMutexKeeps
<1>9. ASSUME NEW c \in Conds, NEW max \in WakeUps, Owe(c, max), UNCHANGED <<mutexLock, call, held>>,
             \/ /\ condLock[c] = 1 /\ condLock' = [condLock EXCEPT ![c] = 0]
                /\ GenwaitWake(c, max) \/ Interrupt(c, max)
             \/ UNCHANGED condLock /\ (UNCHANGED vars \/ Interrupt(Null, 0))
      PROVE  PInv'
  <2>1. CASE UNCHANGED condLock /\ (UNCHANGED vars \/ Interrupt(Null, 0))
    <3>1. /\ IInv' /\ ~halted'
          /\ \A t \in Threads : waitObj'[t] = waitObj[t] \/ waitObj'[t] = Null
          /\ \A t \in Threads : Asleep(t)' => Asleep(t)
          /\ \A t \in Threads, o \in Objects : AsleepOn(t, o)' => AsleepOn(t, o)
      BY <2>1, SchedulerReleases, SchedulerStays, Known
    <3>2. owed' \subseteq Threads /\ condLock' \in [Conds -> {0, 1}]
      BY <1>9, <2>1, Known DEF Owe, PTyped
    <3> QED BY <1>9, <2>1, <3>1, <3>2, ReleasesKeep
  <2> QED BY <1>9, <2>1, NotifyKeeps
<1>10. ASSUME NEW c \in Conds, NEW max \in WakeUps, Notify(c, max) PROVE PInv'
  BY <1>9, <1>10, PthreadAssumption DEF Notify
<1>11. ASSUME NEW c \in Conds, NotifyFromInterrupt(c) PROVE PInv'
  BY <1>9, <1>11 DEF NotifyFromInterrupt
<1>12. CASE SchedulerStep
  BY <1>12, SchedulerStepKeeps
<1>13. CASE UNCHANGED pvars
  <2>1. UNCHANGED <<vars, mutexLock, condLock, call, held, owed>>
    BY <1>13 DEF pvars
  <2>2. owed' \subseteq Threads /\ condLock' \in [Conds -> {0, 1}]
    BY <2>1, Known DEF PTyped
  <2>3. /\ IInv' /\ ~halted'
        /\ \A t \in Threads : waitObj'[t] = waitObj[t] \/ waitObj'[t] = Null
        /\ \A t \in Threads : Asleep(t)' => Asleep(t)
        /\ \A t \in Threads, o \in Objects : AsleepOn(t, o)' => AsleepOn(t, o)
    BY <2>1, SchedulerStays, Known
  <2> QED BY <2>1, <2>2, <2>3, ReleasesKeep
<1> QED BY <1>1, <1>2, <1>3, <1>4, <1>5, <1>6, <1>7, <1>8, <1>10, <1>11, <1>12, <1>13 DEF PNext

\* In every state that threads calling pthread.cpp reach, the invariant holds.
THEOREM PthreadInvariance == PSpec => []PInv
<1> QED BY PInitHolds, PStepInvariant, PTL DEF PSpec

\* The variables keep their types (kernel/pthread.cpp, and the scheduler's).
THEOREM PthreadTypeCorrect == PSpec => []PTypeOK
<1>1. PInv => PTypeOK
  BY DEF PInv, IInv, Calls, PTyped, PTypeOK
<1> QED BY <1>1, PthreadInvariance, PTL

\* The scheduler's invariants hold under pthread.cpp: no thread is lost, and the
\* kernel does not panic, since no call asks genwait_wait for nothing.
THEOREM PthreadNoThreadLost == PSpec => []QueuesMatchStates
<1>1. PInv => QueuesMatchStates
  BY DEF PInv, IInv
<1> QED BY <1>1, PthreadInvariance, PTL

\* k_pthread_mutex_unlock never leaves a thread asleep on a mutex that nobody
\* still has to unlock and nobody has been woken for.
THEOREM NoLockerStranded == PSpec => []NoStrandedLocker
<1>1. PInv => NoStrandedLocker
  BY DEF PInv, Calls
<1> QED BY <1>1, PthreadInvariance, PTL

\* A thread sleeps on a flagged condition, where k_pthread_cond_signal and
\* k_pthread_cond_broadcast return early and pass over it, only while a thread
\* that a signal woke has yet to reset the flag, and never where only broadcasts
\* are used.
THEOREM FlaggedSleepersAwaitReset == PSpec => []FlagIsBeingReset
<1>1. PInv => FlagIsBeingReset
  BY DEF PInv, Calls
<1> QED BY <1>1, PthreadInvariance, PTL
-----------------------------------------------------------------------------
(* Pthread implements Locks.                                               *)

\* Only cond_timedwait waits for an object with a deadline.
TimedSleeper(t) ==
  waitObj[t] # Null /\ timeout[t] > 0 => At(t, "condWaiting") /\ call[t].us > 0
TimedOnConds == \A t \in Threads : TimedSleeper(t)

\* A thread for which a step starts no timed wait.
Quiet(t) ==
  \/ waitObj'[t] = Null \/ timeout'[t] = 0
  \/ waitObj'[t] = waitObj[t] /\ timeout'[t] = timeout[t] /\ call'[t] = call[t]

LEMMA QuietStays ==
  ASSUME NEW t, TimedSleeper(t), Quiet(t)
  PROVE  TimedSleeper(t)'
BY DEF TimedSleeper, Quiet, At

\* Threads other than those released keep their waits.
LEMMA LeavingIsQuiet ==
  ASSUME NEW w, NEW ret, LeaveWaiting(w, ret), NEW t \in Threads
  PROVE  waitObj'[t] = Null \/ (waitObj'[t] = waitObj[t] /\ timeout'[t] = timeout[t])
BY DEF LeaveWaiting

\* The kernel calls of a pthread call start no timed wait but that of cond_wait.
LEMMA CallsAreQuiet ==
  ASSUME PInv, NEW t \in Threads, t = current \/ call'[t] = call[t],
         \/ UNCHANGED vars
         \/ \E obj \in Objects, max \in {0, 1} : GenwaitWake(obj, max)
         \/ \E obj \in Objects : GenwaitWait(obj, 0)
  PROVE  Quiet(t)
<1>1. /\ timeout \in [Threads -> Nat] /\ waitObj \in [Threads -> Objects \cup {Null}]
      /\ current \in Threads => waitObj[current] = Null
  BY Known DEF IInv, TypeOK
<1>2. CASE UNCHANGED vars
  BY <1>1, <1>2 DEF vars, waits, Quiet
<1>3. ASSUME NEW obj \in Objects, NEW max \in {0, 1}, GenwaitWake(obj, max) PROVE Quiet(t)
  <2>1. LeaveWaiting(Woken(obj, max), [x \in Threads |-> 0]) /\ current' = current
    BY <1>3 DEF GenwaitWake
  <2> QED BY <1>1, <2>1, LeavingIsQuiet DEF Quiet
<1>4. ASSUME NEW obj \in Objects, GenwaitWait(obj, 0) PROVE Quiet(t)
  <2>1. /\ current \in Threads /\ timeout' = [timeout EXCEPT ![current] = 0]
        /\ waitObj' = [waitObj EXCEPT ![current] = obj]
    BY <1>4 DEF GenwaitWait, Deadline
  <2> QED BY <1>1, <2>1 DEF Quiet
<1> QED BY <1>2, <1>3, <1>4

\* The second stretch of cond_wait starts a timed wait only if it was asked to.
LEMMA CondSleepTimed ==
  ASSUME PInv, TimedOnConds, CondSleep
  PROVE  TimedOnConds'
<1>1. /\ PTyped /\ IInv /\ current \in Threads /\ At(current, "unlocked")
      /\ timeout \in [Threads -> Nat] /\ waitObj \in [Threads -> Objects \cup {Null}]
      /\ call[current].us \in Delays /\ waitObj[current] = Null
  BY Known DEF CondSleep, Here, IInv, TypeOK, PTyped
<1>2. ASSUME NEW t \in Threads, t # current PROVE call'[t] = call[t]
  BY <1>1, <1>2 DEF CondSleep, MoveTo, PTyped
<1>3. CASE UNCHANGED vars
  BY <1>2, <1>3, CallsAreQuiet, QuietStays DEF TimedOnConds
<1>4. ASSUME NEW c, GenwaitWait(c, call[current].us), MoveTo("condWaiting") PROVE TimedOnConds'
  <2>1. \A t \in Threads : t # current => waitObj'[t] = waitObj[t] /\ timeout'[t] = timeout[t]
    BY <1>1, <1>4 DEF GenwaitWait
  <2>2. ASSUME NEW t \in Threads, t # current PROVE TimedSleeper(t)'
    BY <1>2, <2>1, <2>2, QuietStays DEF Quiet, TimedOnConds
  <2>3. call[current].us \in Nat
    BY <1>1, TimeAssumption
  <2>4. timeout'[current] > 0 => call[current].us > 0
    BY <1>1, <1>4, <2>3 DEF GenwaitWait, Deadline
  <2>5. call'[current].at = "condWaiting" /\ call'[current].us = call[current].us
    <3>1. call[current] \in [at : Places, mutex : Mutexes \cup {Null},
                             cond : Conds \cup {Null}, us : Delays]
      BY <1>1 DEF PTyped
    <3>2. call'[current] = [call[current] EXCEPT !.at = "condWaiting"]
      BY <1>1, <1>4 DEF MoveTo, PTyped
    <3> QED BY <3>1, <3>2
  <2>6. ASSUME NEW t \in Threads PROVE TimedSleeper(t)'
    <3>1. CASE t = current
      BY <3>1, <2>4, <2>5 DEF TimedSleeper, At
    <3> QED BY <3>1, <2>2
  <2> QED BY <2>6 DEF TimedOnConds
<1> QED BY <1>3, <1>4 DEF CondSleep

\* Every step keeps it.
LEMMA TimedStep ==
  ASSUME PInv, TimedOnConds, [PNext]_pvars
  PROVE  TimedOnConds'
<1>1. PTyped /\ IInv /\ ~halted /\ Mutexes \subseteq Objects /\ Conds \subseteq Objects
  BY Known
<1>2. SUFFICES ASSUME ~CondSleep, NEW t \in Threads PROVE Quiet(t)
  BY CondSleepTimed, QuietStays DEF TimedOnConds
<1>3. ASSUME NEW m \in Mutexes, current \in Threads, LockMutex(m) PROVE Quiet(t)
  <2>1. t = current \/ call'[t] = call[t]
    BY <1>1, <1>3 DEF LockMutex, TakeMutex, PTyped
  <2>2. UNCHANGED vars \/ GenwaitWait(m, 0)
    BY <1>3 DEF LockMutex
  <2> QED BY <1>1, <2>1, <2>2, CallsAreQuiet
<1>4. ASSUME NEW m, current \in Threads, TakeMutex(m), UNCHANGED vars PROVE Quiet(t)
  <2>1. t = current \/ call'[t] = call[t]
    BY <1>1, <1>4 DEF TakeMutex, PTyped
  <2> QED BY <1>4, <2>1, CallsAreQuiet
<1>5. ASSUME NEW m \in Mutexes, current \in Threads, UnlockMutex(m),
             t = current \/ call'[t] = call[t]
      PROVE  Quiet(t)
  <2>1. UNCHANGED vars \/ GenwaitWake(m, 1)
    BY <1>5 DEF UnlockMutex
  <2> QED BY <1>1, <1>5, <2>1, CallsAreQuiet
<1>6. ASSUME NEW m \in Mutexes, Lock(m) \/ TryLock(m) \/ Unlock(m) PROVE Quiet(t)
  BY <1>3, <1>4, <1>5, <1>6 DEF Lock, TryLock, Unlock, Here
<1>7. CASE LockResumed
  BY <1>4, <1>7 DEF LockResumed, Here
<1>8. ASSUME NEW c \in Conds, NEW m \in Mutexes, NEW us \in Delays, CondWait(c, m, us) PROVE Quiet(t)
  <2>1. t = current \/ call'[t] = call[t]
    BY <1>1, <1>8 DEF CondWait, PTyped
  <2> QED BY <1>5, <1>8, <2>1 DEF CondWait, Here
<1>9. CASE CondResumed
  <2>1. t = current \/ call'[t] = call[t]
    BY <1>1, <1>9 DEF CondResumed, MoveTo, PTyped
  <2> QED BY <1>9, <2>1, CallsAreQuiet DEF CondResumed
<1>10. CASE Relock
  <2>1. call[current].mutex \in Mutexes
    BY <1>10, Known DEF Relock, Here, Placed
  <2> QED BY <1>3, <1>10, <2>1 DEF Relock, Here
<1>11. ASSUME NEW c \in Conds, NEW max \in WakeUps, Notify(c, max) PROVE Quiet(t)
  <2>1. call' = call /\ (UNCHANGED vars \/ GenwaitWake(c, max))
    BY <1>11 DEF Notify
  <2> QED BY <1>1, <2>1, CallsAreQuiet, PthreadAssumption
<1>12. ASSUME NEW w, NEW ret, LeaveWaiting(w, ret), call' = call PROVE Quiet(t)
  BY <1>12, LeavingIsQuiet DEF Quiet
<1>13. ASSUME NEW c \in Conds, NotifyFromInterrupt(c) PROVE Quiet(t)
  <2>1. call' = call /\ \E w, ret : LeaveWaiting(w, ret)
    BY <1>13 DEF NotifyFromInterrupt, Interrupt
  <2> QED BY <2>1, <1>12
<1>14. CASE SchedulerStep
  <2>1. call' = call
    BY <1>14 DEF SchedulerStep
  <2>2. CASE (\E x \in Threads : Create(x)) \/ Exit
    BY <2>1, <2>2 DEF Create, Exit, waits, Quiet
  <2>3. CASE Interrupt(Null, 0) \/ Tick
    <3>1. \E w, ret : LeaveWaiting(w, ret)
      BY <2>3 DEF Interrupt, Tick
    <3> QED BY <2>1, <3>1, <1>12
  <2>4. ASSUME NEW us, GenwaitWait(Null, us) PROVE Quiet(t)
    <3>1. /\ timeout \in [Threads -> Nat] /\ waitObj \in [Threads -> Objects \cup {Null}]
      BY <1>1 DEF IInv, TypeOK
    <3> QED BY <2>1, <2>4, <3>1 DEF GenwaitWait, Quiet
  <2> QED BY <1>14, <2>2, <2>3, <2>4 DEF SchedulerStep
<1>15. CASE UNCHANGED pvars
  BY <1>15 DEF pvars, vars, waits, Quiet
<1> QED BY <1>2, <1>6, <1>7, <1>8, <1>9, <1>10, <1>11, <1>13, <1>14, <1>15 DEF PNext
-----------------------------------------------------------------------------
\* The operators Locks has from TailQueue are those of TailQueue.
LEMMA SameQueues ==
  ASSUME NEW q, NEW S
  PROVE  L!Keep(q, S) = Keep(q, S) /\ L!Unlink(q, S) = Unlink(q, S) /\ L!Range(q) = Range(q)
BY DEF L!Keep, Keep, L!Unlink, Unlink, L!Range, Range

\* The waits Locks knows of stay as they are.
WaitsStay == waitQ' = waitQ /\ waitObj' = waitObj

\* genwait_wait for an object.
LEMMA SleepRefines ==
  ASSUME NEW obj, obj # Null, NEW us, GenwaitWait(obj, us)
  PROVE  L!Sleep(current, obj)
BY DEF GenwaitWait, L!Sleep

\* genwait_wake.
LEMMA WakeRefines ==
  ASSUME NEW obj, NEW max, NEW ret, LeaveWaiting(Woken(obj, max), ret)
  PROVE  L!Wake(obj, max)
<1>1. L!Wake(obj, max) <=> L!Release(Range(Woken(obj, max)))
  BY SameQueues DEF L!Wake, Woken
<1>2. L!Release(Range(Woken(obj, max)))
  BY SameQueues DEF LeaveWaiting, L!Release
<1> QED BY <1>1, <1>2

\* Releasing threads that wait for no object changes nothing here.
LEMMA SleepersLeave ==
  ASSUME IInv, ~halted, NEW w, NEW ret, LeaveWaiting(w, ret),
         \A t \in Range(w) \cap Threads : waitObj[t] = Null
  PROVE  WaitsStay
<1>1. /\ waitQ \in Seq(Threads) /\ waitObj \in [Threads -> Objects \cup {Null}]
      /\ \A t \in Threads : t \in Range(waitQ) <=> waitObj[t] # Null
  BY Unpacked DEF TypeOK, PlaceOfState
<1>2. Range(waitQ) \cap Range(w) = {}
  BY <1>1, RangeOfSeq
<1>3. waitQ' = waitQ
  BY <1>1, <1>2, UnlinkNothing DEF LeaveWaiting
<1>4. waitObj' = waitObj
  BY <1>1 DEF LeaveWaiting
<1> QED BY <1>3, <1>4 DEF WaitsStay

\* An interrupt that wakes nobody.
LEMMA PlainInterrupt ==
  ASSUME IInv, ~halted, Interrupt(Null, 0)
  PROVE  WaitsStay
<1>1. LeaveWaiting(Woken(Null, 0), [t \in Threads |-> 0])
  BY DEF Interrupt
<1>2. \A t \in Range(Woken(Null, 0)) : waitObj[t] = Null
  BY WokenAreFirst
<1> QED BY <1>1, <1>2, SleepersLeave

\* The end of a timed wait.
LEMMA TickRefines ==
  ASSUME PInv, TimedOnConds, Tick
  PROVE  WaitsStay \/ \E t \in Threads : At(t, "condWaiting") /\ call[t].us > 0
                                          /\ waitObj[t] # Null /\ L!Release({t})
<1> DEFINE w == Expired(Advanced)
           ret == [t \in Threads |-> IF waitObj[t] # Null THEN -1 ELSE 0]
<1>1. IInv /\ ~halted /\ LeaveWaiting(w, ret)
  BY Known DEF Tick
<1> HIDE DEF ret
<1>2. CASE w = << >>
  <2>1. Range(w) = {}
    BY <1>2 DEF Range
  <2> HIDE DEF w
  <2> QED BY <1>1, <2>1, SleepersLeave
<1>3. CASE w # << >>
  <2> DEFINE h == Head(timerQ)
  <2>1. timerQ # << >> /\ w = <<h>>
    BY <1>3 DEF Expired
  <2>2. h \in Threads /\ h \in Range(timerQ)
    BY <1>1, <2>1, Unpacked, TailDistinct DEF TypeOK, QueuesInjective
  <2>3. timeout[h] > 0
    BY <1>1, <2>2, Unpacked DEF PlaceOfState
  <2>4. Range(w) = {h}
    BY <2>1 DEF Range
  <2> HIDE DEF w, h
  <2>5. CASE waitObj[h] = Null
    BY <1>1, <2>4, <2>5, SleepersLeave
  <2>6. CASE waitObj[h] # Null
    <3>1. At(h, "condWaiting") /\ call[h].us > 0
      BY <2>2, <2>3, <2>6 DEF TimedOnConds, TimedSleeper
    <3>2. L!Release({h})
      BY <1>1, <2>4, SameQueues DEF LeaveWaiting, L!Release
    <3> QED BY <2>2, <2>6, <3>1, <3>2
  <2> QED BY <2>5, <2>6
<1> QED BY <1>2, <1>3
\* mutex_lock from its entry.
LEMMA LockMutexRefines ==
  ASSUME NEW m, m # Null, LockMutex(m)
  PROVE  L!LockMutex(current, m)
<1>1. CASE mutexLock[m] = 0 /\ TakeMutex(m) /\ UNCHANGED vars
  BY <1>1 DEF L!LockMutex, L!TakeMutex, TakeMutex, L!Client, Client, vars, waits
<1>2. CASE /\ mutexLock[m] # 0 /\ GenwaitWait(m, 0)
           /\ call' = [call EXCEPT ![current] = [Client EXCEPT !.at = "lockWaiting", !.mutex = m]]
           /\ UNCHANGED <<mutexLock, held>>
  <2>1. L!Sleep(current, m)
    BY <1>2, SleepRefines
  <2> QED BY <1>2, <2>1 DEF L!LockMutex, L!Client, Client
<1> QED BY <1>1, <1>2 DEF LockMutex

\* The body of mutex_unlock.
LEMMA UnlockMutexRefines ==
  ASSUME NEW m, UnlockMutex(m)
  PROVE  L!UnlockMutex(current, m)
<1>1. CASE mutexLock[m] = 1 /\ mutexLock' = [mutexLock EXCEPT ![m] = 0] /\ GenwaitWake(m, 1)
  <2>1. L!Wake(m, 1)
    BY <1>1, WakeRefines DEF GenwaitWake
  <2> QED BY <1>1, <2>1 DEF L!UnlockMutex, UnlockMutex
<1>2. CASE mutexLock[m] # 1 /\ UNCHANGED <<vars, mutexLock>>
  BY <1>2 DEF L!UnlockMutex, UnlockMutex, vars, waits
<1> QED BY <1>1, <1>2 DEF UnlockMutex

\* The running thread may take a step of Locks.
LEMMA HereRefines ==
  ASSUME PInv, NEW p, Here(p)
  PROVE  current \in Threads /\ L!Here(current, p)
BY Known DEF Here, At, L!Here, L!At, L!Asleep

\* The calls' own stretches are steps of Locks.
LEMMA CallsRefine ==
  ASSUME PInv,
         \/ \E m \in Mutexes : Lock(m) \/ TryLock(m) \/ Unlock(m)
         \/ LockResumed
         \/ \E c \in Conds, m \in Mutexes, us \in Delays : CondWait(c, m, us)
         \/ CondSleep \/ CondResumed \/ Relock
  PROVE  L!LNext
<1>1. Null \notin Mutexes /\ Null \notin Conds
  BY Known
<1>2. ASSUME NEW m \in Mutexes, Lock(m) PROVE L!LNext
  <2>1. current \in Threads /\ L!Here(current, "client") /\ L!LockMutex(current, m)
    BY <1>1, <1>2, HereRefines, LockMutexRefines DEF Lock
  <2>2. L!Lock(current, m)
    BY <1>2, <2>1 DEF Lock, L!Lock
  <2> QED BY <2>1, <2>2 DEF L!LNext
<1>3. ASSUME NEW m \in Mutexes, TryLock(m) PROVE L!LNext
  <2>1. LockMutex(m)
    BY <1>3 DEF TryLock, LockMutex
  <2>2. current \in Threads /\ L!Here(current, "client") /\ L!LockMutex(current, m)
    BY <1>1, <1>3, <2>1, HereRefines, LockMutexRefines DEF TryLock
  <2>3. L!Lock(current, m)
    BY <1>3, <2>2 DEF TryLock, L!Lock
  <2> QED BY <2>2, <2>3 DEF L!LNext
<1>4. ASSUME NEW m \in Mutexes, Unlock(m) PROVE L!LNext
  <2>1. current \in Threads /\ L!Here(current, "client") /\ L!UnlockMutex(current, m)
    BY <1>4, HereRefines, UnlockMutexRefines DEF Unlock
  <2>2. L!Unlock(current, m)
    BY <1>4, <2>1 DEF Unlock, L!Unlock
  <2> QED BY <2>1, <2>2 DEF L!LNext
<1>5. CASE LockResumed
  <2>1. current \in Threads /\ L!Here(current, "lockWaiting")
    BY <1>5, HereRefines DEF LockResumed
  <2>2. L!LockResumed(current)
    BY <1>5, <2>1 DEF LockResumed, L!LockResumed, TakeMutex, L!TakeMutex, Client, L!Client, vars, waits
  <2> QED BY <2>1, <2>2 DEF L!LNext, L!Proceed
<1>6. ASSUME NEW c \in Conds, NEW m \in Mutexes, NEW us \in Delays, CondWait(c, m, us)
      PROVE  L!LNext
  <2>1. current \in Threads /\ L!Here(current, "client") /\ L!UnlockMutex(current, m)
    BY <1>6, HereRefines, UnlockMutexRefines DEF CondWait
  <2>2. L!CondWait(current, c, m, us)
    BY <1>6, <2>1 DEF CondWait, L!CondWait
  <2> QED BY <2>1, <2>2 DEF L!LNext
<1>7. CASE CondSleep
  <2>1. current \in Threads /\ L!Here(current, "unlocked") /\ Placed(current) /\ At(current, "unlocked")
    BY <1>7, Known, HereRefines DEF CondSleep, Here
  <2>2. call[current].cond # Null
    BY <1>1, <2>1 DEF Placed
  <2>3. GenwaitWait(call[current].cond, call[current].us) => L!Sleep(current, call[current].cond)
    BY <2>2, SleepRefines
  <2>4. L!CondSleep(current)
    BY <1>7, <2>1, <2>3 DEF CondSleep, MoveTo, L!CondSleep, vars, waits
  <2> QED BY <2>1, <2>4 DEF L!LNext, L!Proceed
<1>8. CASE CondResumed
  <2>1. current \in Threads /\ L!Here(current, "condWaiting")
    BY <1>8, HereRefines DEF CondResumed
  <2>2. L!CondResumed(current)
    BY <1>8, <2>1 DEF CondResumed, L!CondResumed, MoveTo, vars, waits
  <2> QED BY <2>1, <2>2 DEF L!LNext, L!Proceed
<1>9. CASE Relock
  <2>1. current \in Threads /\ L!Here(current, "relocking") /\ call[current].mutex \in Mutexes
    BY <1>9, Known, HereRefines DEF Relock, Here, Placed
  <2>2. L!LockMutex(current, call[current].mutex)
    BY <1>1, <1>9, <2>1, LockMutexRefines DEF Relock
  <2>3. L!Relock(current)
    BY <1>9, <2>1, <2>2 DEF Relock, L!Relock
  <2> QED BY <2>1, <2>3 DEF L!LNext, L!Proceed
<1> QED BY <1>2, <1>3, <1>4, <1>5, <1>6, <1>7, <1>8, <1>9

\* So are signals and broadcasts, or they change nothing.
LEMMA NotifyRefines ==
  ASSUME PInv,
         \/ \E c \in Conds, max \in WakeUps : Notify(c, max)
         \/ \E c \in Conds : NotifyFromInterrupt(c)
  PROVE  L!LNext
<1>1. ASSUME NEW c \in Conds, NEW max \in WakeUps, condLock[c] = 1,
             condLock' = [condLock EXCEPT ![c] = 0], GenwaitWake(c, max) \/ Interrupt(c, max),
             UNCHANGED <<mutexLock, call, held>>
      PROVE  L!LNext
  <2>1. L!Wake(c, max)
    BY <1>1, WakeRefines DEF GenwaitWake, Interrupt
  <2>2. L!Notify(c, max)
    BY <1>1, <2>1 DEF L!Notify
  <2> QED BY <2>2 DEF L!LNext
<1>2. ASSUME NEW c \in Conds, NEW max \in WakeUps, condLock[c] # 1, WaitsStay,
             UNCHANGED <<mutexLock, condLock, call, held>>
      PROVE  L!LNext
  BY <1>2 DEF L!LNext, L!Notify, WaitsStay
<1>3. ASSUME NEW c \in Conds, NEW max \in WakeUps, Notify(c, max) PROVE L!LNext
  BY <1>1, <1>2, <1>3 DEF Notify, WaitsStay, vars, waits
<1>4. ASSUME NEW c \in Conds, NotifyFromInterrupt(c) PROVE L!LNext
  <2>1. 0 \in WakeUps /\ UNCHANGED <<mutexLock, call, held>>
    BY <1>4 DEF NotifyFromInterrupt
  <2>2. Interrupt(Null, 0) => WaitsStay
    BY Known, PlainInterrupt
  <2> QED BY <1>1, <1>2, <1>4, <2>1, <2>2 DEF NotifyFromInterrupt
<1> QED BY <1>3, <1>4

\* The scheduler's own steps are invisible, but for a timed wait that ends.
LEMMA SchedulerRefines ==
  ASSUME PInv, TimedOnConds, SchedulerStep
  PROVE  [L!LNext]_(L!locks)
<1>1. IInv /\ ~halted /\ UNCHANGED <<mutexLock, condLock, call, held>>
  BY Known DEF SchedulerStep
<1>2. WaitsStay => UNCHANGED L!locks
  BY <1>1 DEF WaitsStay, L!locks
<1>3. CASE (\E t \in Threads : Create(t)) \/ Exit
  BY <1>2, <1>3 DEF Create, Exit, waits, WaitsStay
<1>4. ASSUME NEW us, Here("client"), GenwaitWait(Null, us) PROVE WaitsStay
  <2>1. waitObj[current] = Null /\ waitObj \in [Threads -> Objects \cup {Null}]
    BY <1>4, Known DEF Here, IInv, TypeOK
  <2> QED BY <1>4, <2>1 DEF GenwaitWait, WaitsStay
<1>5. CASE Interrupt(Null, 0)
  BY <1>1, <1>2, <1>5, PlainInterrupt
<1>6. CASE Tick
  <2>1. ASSUME NEW t \in Threads, At(t, "condWaiting"), call[t].us > 0, waitObj[t] # Null,
               L!Release({t})
        PROVE  L!LNext
    <3>1. L!Expire(t)
      BY <1>1, <2>1 DEF L!Expire, L!At, At, L!Asleep
    <3> QED BY <3>1 DEF L!LNext
  <2> QED BY <1>2, <1>6, <2>1, TickRefines
<1> QED BY <1>2, <1>3, <1>4, <1>5, <1>6 DEF SchedulerStep

\* What callers see of kernel/pthread.cpp, with the scheduler deciding who runs
\* and the timer ending waits, is what module Locks says.
THEOREM PthreadImplementsLocks == PSpec => ImplementsLocks
<1>1. PInit => L!LInit /\ TimedOnConds
  BY DEF PInit, Init, L!LInit, L!Client, Client, TimedOnConds, TimedSleeper
<1>2. PInv /\ TimedOnConds /\ [PNext]_pvars => TimedOnConds'
  BY TimedStep
<1>3. PInv /\ TimedOnConds /\ [PNext]_pvars => [L!LNext]_(L!locks)
  <2>1. UNCHANGED pvars => UNCHANGED L!locks
    BY DEF pvars, vars, waits, L!locks
  <2> QED BY <2>1, CallsRefine, NotifyRefines, SchedulerRefines DEF PNext
<1> QED BY <1>1, <1>2, <1>3, PthreadInvariance, PTL DEF PSpec, ImplementsLocks, L!LSpec
==============================================================================
