--------------------------- MODULE SrrMessageProofs ---------------------------
(***************************************************************************)
(* The discipline of send, receive and reply for every number of clients,  *)
(* servers and connections: what a thread holds follows from its place     *)
(* alone, whatever the others do.  And one client and one server           *)
(* implement SendReceiveReply: more would need the mutexes to exclude,     *)
(* which the run Pthread_exclusion shows they do not.                      *)
(***************************************************************************)
EXTENDS SrrMessage, TailQueueProofs

\* The types of the lock variables, and of the messages.
Calls == [at : Places, mutex : Mutexes \cup {Null}, cond : Conds \cup {Null}, us : Delays]
LocksTyped ==
  /\ mutexLock \in [Mutexes -> {0, 1}] /\ condLock \in [Conds -> {0, 1}]
  /\ waitQ \in Seq(Threads) /\ waitObj \in [Threads -> Mutexes \cup Conds \cup {Null}]
  /\ held \in [Threads -> SUBSET Mutexes] /\ call \in [Threads -> Calls]

DataTyped ==
  /\ iState \in [Ends -> {"FREE", "MSG_SENT", "MSG_REPLIED"}]
  /\ iState[Channel] # "MSG_REPLIED"
  /\ msgWaiting \in Connections \cup {Null}
  /\ sndMsg \in [Connections -> Messages \cup {Null}]
  /\ retVal \in [Connections -> Messages \cup {Null}]
  /\ message \in [Threads -> Messages \cup {Null}]
  /\ replyTo \in [Servers -> Connections \cup {Null}]
  /\ result \in [Clients -> Messages \cup {Null}]
  /\ iState[Channel] = "MSG_SENT" => msgWaiting \in Connections

\* The places at which a thread has locked the connection, and the channel.
ClientInConnection ==
  {"testFree", "waitFree", "setMessage", "lockChannel", "setConnectionSent", "notifyConnection",
   "testReplied", "waitReply", "takeResult", "setFree", "notifyFree", "unlockConnection"}
ClientInBoth ==
  {"testChannel", "waitChannel", "setWaiting", "setSent", "notifyChannel", "unlockChannel"}
ServerInChannel ==
  {"testSent", "waitSent", "copyMessage", "copyID", "setChannelFree", "notifyTaken", "unlockTaken"}
ServerInConnection == {"testAsked", "copyReply", "setReplied", "notifyReplied", "unlockReply"}

ClientPlaces == ClientInConnection \cup ClientInBoth \cup {"idle", "returned"}
ServerPlaces == ServerInChannel \cup ServerInConnection \cup {"idle", "lockConnection"}

\* The connection a thread works on, and what it holds at place p.
Own(t) == IF t \in Clients THEN ConnectionOf[t] ELSE replyTo[t]
HeldFor(t, p) ==
  (IF p \in ClientInBoth \cup ServerInChannel THEN {MutexOf[Channel]} ELSE {}) \cup
  (IF p \in ClientInBoth \cup ClientInConnection \cup ServerInConnection
   THEN {MutexOf[Own(t)]} ELSE {})

\* A thread can be at place p.
Fits(t, p) ==
  /\ p \in IF t \in Clients THEN ClientPlaces ELSE ServerPlaces
  /\ t \notin Clients /\ p \in {"setChannelFree", "notifyTaken", "unlockTaken", "lockConnection"}
                             \cup ServerInConnection => replyTo[t] \in Connections
  /\ p \in {"setSent", "copyMessage", "copyID"} => msgWaiting \in Connections
  /\ t \in Clients => message[t] \in Messages /\ (p # "idle" => message[t][2] <= MaxSends)

\* While a thread is in a pthread call that ends with the lock of a mutex, all
\* it will hold but that mutex is held.
Holds(t, H) ==
  IF At(t, "client") THEN held[t] = H
  ELSE call[t].mutex \in H /\ held[t] = H \ {call[t].mutex}

Local(t) == Fits(t, pc[t]) /\ Holds(t, HeldFor(t, pc[t]))

\* The inductive invariant.
SInv ==
  /\ LocksTyped /\ DataTyped /\ DOMAIN pc = Threads /\ pc = [t \in Threads |-> pc[t]]
  /\ \A t \in Threads : Local(t)

-----------------------------------------------------------------------------
(* The pthread calls.                                                      *)

\* Wake-ups keep the types.
LEMMA WakeTyped ==
  ASSUME LocksTyped, NEW obj, NEW max, Wake(obj, max)
  PROVE  waitQ' \in Seq(Threads) /\ waitObj' \in [Threads -> Mutexes \cup Conds \cup {Null}]
<1>1. PICK S : Release(S)
  BY DEF Wake
<1>2. waitQ' \in Seq(Threads)
  BY <1>1, UnlinkProperties DEF Release, LocksTyped
<1> QED BY <1>1, <1>2 DEF Release, LocksTyped

\* k_pthread_mutex_lock, up to its return or to its sleep.
LEMMA LockMutexEffect ==
  ASSUME LocksTyped, NEW t \in Threads, NEW m \in Mutexes, LockMutex(t, m), UNCHANGED condLock
  PROVE  /\ LocksTyped'
         /\ \A u \in Threads : u # t => call'[u] = call[u] /\ held'[u] = held[u]
         /\ \/ call'[t].at = "client" /\ held'[t] = held[t] \cup {m}
            \/ call'[t].at # "client" /\ call'[t].mutex = m /\ held'[t] = held[t]
<1> DEFINE sleep == [Client EXCEPT !.at = "lockWaiting", !.mutex = m]
<1>1. /\ Client \in Calls /\ Client.at = "client"
      /\ sleep \in Calls /\ sleep.at = "lockWaiting" /\ sleep.mutex = m
  BY LocksAssumption DEF Client, Calls, Places
<1> HIDE DEF sleep
<1>2. CASE TakeMutex(t, m) /\ UNCHANGED <<waitQ, waitObj>>
  <2>1. LocksTyped'
    BY <1>1, <1>2 DEF LocksTyped, TakeMutex
  <2> QED BY <1>1, <1>2, <2>1 DEF LocksTyped, TakeMutex
<1>3. CASE Sleep(t, m) /\ call' = [call EXCEPT ![t] = sleep] /\ UNCHANGED <<mutexLock, held>>
  <2>1. LocksTyped'
    BY <1>1, <1>3 DEF LocksTyped, Sleep
  <2> QED BY <1>1, <1>3, <2>1 DEF LocksTyped
<1> QED BY <1>2, <1>3 DEF LockMutex, sleep

\* k_pthread_mutex_unlock.
LEMMA UnlockMutexEffect ==
  ASSUME LocksTyped, NEW t \in Threads, NEW m \in Mutexes, UnlockMutex(t, m), UNCHANGED condLock,
         call' \in [Threads -> Calls]
  PROVE  /\ LocksTyped' /\ held'[t] = held[t] \ {m}
         /\ \A u \in Threads : u # t => held'[u] = held[u]
<1>1. held' \in [Threads -> SUBSET Mutexes]
  BY DEF UnlockMutex, LocksTyped
<1>2. /\ waitQ' \in Seq(Threads) /\ waitObj' \in [Threads -> Mutexes \cup Conds \cup {Null}]
      /\ mutexLock' \in [Mutexes -> {0, 1}]
  BY WakeTyped DEF UnlockMutex, LocksTyped
<1> QED BY <1>1, <1>2 DEF LocksTyped, UnlockMutex

\* The stretches of a call after its first.
LEMMA ProceedEffect ==
  ASSUME LocksTyped, NEW t \in Threads, Proceed(t), call[t].mutex \in Mutexes
  PROVE  /\ LocksTyped' /\ call[t].at # "client"
         /\ \A u \in Threads : u # t => call'[u] = call[u] /\ held'[u] = held[u]
         /\ \/ call'[t].at = "client" /\ held'[t] = held[t] \cup {call[t].mutex}
            \/ call'[t].at # "client" /\ call'[t].mutex = call[t].mutex /\ held'[t] = held[t]
<1>1. CASE LockResumed(t)
  <2>1. Client \in Calls /\ Client.at = "client"
    BY LocksAssumption DEF Client, Calls, Places
  <2>2. LocksTyped'
    BY <1>1, <2>1 DEF LocksTyped, LockResumed, TakeMutex
  <2> QED BY <1>1, <2>1, <2>2 DEF LocksTyped, LockResumed, TakeMutex, Here, At
<1>2. CASE Relock(t)
  BY <1>2, LockMutexEffect DEF Relock, Here, At
<1>3. CASE CondSleep(t) \/ CondResumed(t)
  <2>1. PICK p \in {"condWaiting", "relocking"} : call' = [call EXCEPT ![t].at = p]
    BY <1>3 DEF CondSleep, CondResumed
  <2> DEFINE r == [call[t] EXCEPT !.at = p]
  <2>2. call[t] \in Calls
    BY DEF LocksTyped
  <2>3. r \in Calls /\ r.at = p /\ r.mutex = call[t].mutex
    BY <2>2 DEF Calls, Places
  <2>4. call' = [call EXCEPT ![t] = r]
    BY <2>1
  <2> HIDE DEF r
  <2>5. call' \in [Threads -> Calls] /\ call'[t] = r /\ \A u \in Threads : u # t => call'[u] = call[u]
    BY <2>3, <2>4 DEF LocksTyped
  <2>6. call[t].cond \in Conds \cup {Null}
    BY <2>2 DEF Calls
  <2>7. /\ waitQ' \in Seq(Threads) /\ waitObj' \in [Threads -> Mutexes \cup Conds \cup {Null}]
        /\ condLock' \in [Conds -> {0, 1}] /\ UNCHANGED <<mutexLock, held>>
    <3>1. /\ UNCHANGED <<mutexLock, held>>
          /\ condLock' = condLock \/ condLock' = [condLock EXCEPT ![call[t].cond] = 1]
          /\ UNCHANGED <<waitQ, waitObj>> \/ Sleep(t, call[t].cond)
      <4>1. CASE CondSleep(t)
        BY <4>1 DEF CondSleep
      <4>2. CASE CondResumed(t)
        BY <4>2 DEF CondResumed
      <4> QED BY <1>3, <4>1, <4>2
    <3>2. condLock' \in [Conds -> {0, 1}]
      BY <3>1 DEF LocksTyped
    <3>3. waitQ' \in Seq(Threads) /\ waitObj' \in [Threads -> Mutexes \cup Conds \cup {Null}]
      <4>1. ASSUME NEW c \in Conds \cup {Null}, Sleep(t, c)
            PROVE  waitQ' \in Seq(Threads) /\ waitObj' \in [Threads -> Mutexes \cup Conds \cup {Null}]
        BY <4>1 DEF LocksTyped, Sleep
      <4>2. CASE UNCHANGED <<waitQ, waitObj>>
        BY <4>2 DEF LocksTyped
      <4> QED BY <3>1, <2>6, <4>1, <4>2
    <3> QED BY <3>1, <3>2, <3>3
  <2>8. LocksTyped'
    BY <2>5, <2>7 DEF LocksTyped
  <2>9. call[t].at # "client"
    BY <1>3 DEF CondSleep, CondResumed, Here, At
  <2> QED BY <2>3, <2>5, <2>7, <2>8, <2>9
<1> QED BY <1>1, <1>2, <1>3 DEF Proceed

-----------------------------------------------------------------------------
(* The shapes of the steps.                                                *)

\* A step of t leaves the message and the receive id of the other threads alone.
Apart(t) ==
  \A u \in Threads : u # t => /\ message'[u] = message[u]
                              /\ u \notin Clients => replyTo'[u] = replyTo[u]

\* The threads a step of t does not concern.
LEMMA OthersStay ==
  ASSUME NEW t \in Threads, Apart(t), NEW u \in Threads, u # t, Local(u),
         pc'[u] = pc[u], call'[u] = call[u], held'[u] = held[u],
         msgWaiting' = msgWaiting \/ msgWaiting' \in Connections
  PROVE  Local(u)'
<1>1. /\ message'[u] = message[u]
      /\ u \notin Clients => replyTo'[u] = replyTo[u]
  BY DEF Apart
<1>2. Fits(u, pc[u]) => Fits(u, pc[u])'
  BY <1>1 DEF Fits
<1>3. HeldFor(u, pc[u])' = HeldFor(u, pc[u])
  BY <1>1 DEF HeldFor, Own
<1> QED BY <1>2, <1>3 DEF Local, Holds, At

\* A step of t from place p to place q.
LEMMA Going ==
  ASSUME SInv, NEW t \in Threads, NEW p, NEW q, pc[t] = p, GoTo(t, q), LocksTyped', DataTyped',
         \A u \in Threads : u # t => call'[u] = call[u] /\ held'[u] = held[u],
         Apart(t),
         msgWaiting' = msgWaiting \/ msgWaiting' \in Connections,
         Fits(t, q)', Holds(t, HeldFor(t, q))'
  PROVE  SInv'
<1>1. pc' = [pc EXCEPT ![t] = q] /\ DOMAIN pc = Threads /\ pc = [u \in Threads |-> pc[u]]
  BY DEF GoTo, SInv
<1>2. /\ DOMAIN pc' = Threads /\ pc' = [u \in Threads |-> pc'[u]] /\ pc'[t] = q
      /\ \A u \in Threads : u # t => pc'[u] = pc[u]
  BY <1>1
<1>3. ASSUME NEW u \in Threads, u # t PROVE Local(u)'
  BY <1>2, <1>3, OthersStay DEF SInv
<1>4. Local(t)'
  BY <1>2 DEF Local, Holds, HeldFor, At, Fits
<1> QED BY <1>2, <1>3, <1>4 DEF SInv

\* A step that calls nothing in pthread.cpp but cond_broadcast.
LEMMA QuietStep ==
  ASSUME SInv, NEW t \in Threads, NEW p, NEW q, Ready(t, p), GoTo(t, q), LocksTyped', DataTyped',
         UNCHANGED <<call, held>>, Apart(t),
         msgWaiting' = msgWaiting \/ msgWaiting' \in Connections,
         Fits(t, q)', HeldFor(t, q)' = HeldFor(t, p)
  PROVE  SInv'
<1>1. pc[t] = p /\ At(t, "client") /\ held[t] = HeldFor(t, p)
  BY DEF Ready, Here, SInv, Local, Holds
<1>2. Holds(t, HeldFor(t, q))'
  BY <1>1 DEF Holds, At
<1> QED BY <1>1, <1>2, Going

\* k_pthread_mutex_lock(&mutex_) of e.
LEMMA LockStepKeeps ==
  ASSUME SInv, NEW t \in Threads, NEW p, NEW q, NEW e \in Ends, LockStep(t, p, e, q),
         Fits(t, q), HeldFor(t, q) = HeldFor(t, p) \cup {MutexOf[e]}
  PROVE  SInv'
<1>1. /\ pc[t] = p /\ At(t, "client") /\ MutexOf[e] \notin held[t] /\ LockMutex(t, MutexOf[e])
      /\ UNCHANGED condLock /\ GoTo(t, q) /\ UNCHANGED srr
  BY DEF LockStep, Ready, Here, Lock
<1>2. LocksTyped /\ DataTyped /\ held[t] = HeldFor(t, p) /\ MutexOf[e] \in Mutexes
  BY <1>1, SrrAssumption DEF SInv, Local, Holds
<1>3. /\ LocksTyped'
      /\ \A u \in Threads : u # t => call'[u] = call[u] /\ held'[u] = held[u]
      /\ \/ call'[t].at = "client" /\ held'[t] = held[t] \cup {MutexOf[e]}
         \/ call'[t].at # "client" /\ call'[t].mutex = MutexOf[e] /\ held'[t] = held[t]
  BY <1>1, <1>2, LockMutexEffect
<1>4. DataTyped'
  BY <1>1, <1>2 DEF DataTyped, srr
<1>5. Fits(t, q)'
  BY <1>1 DEF Fits, srr
<1>6. HeldFor(t, q)' = HeldFor(t, q)
  BY <1>1 DEF HeldFor, Own, srr
<1>7. Holds(t, HeldFor(t, q))'
  BY <1>1, <1>2, <1>3, <1>6 DEF Holds, At
<1> QED BY <1>1, <1>3, <1>4, <1>5, <1>7, Going DEF srr, Apart

\* k_pthread_mutex_unlock(&mutex_) of e.
LEMMA UnlockStepKeeps ==
  ASSUME SInv, NEW t \in Threads, NEW p, NEW q, NEW e \in Ends, UnlockStep(t, p, e, q),
         Fits(t, q), HeldFor(t, q) = HeldFor(t, p) \ {MutexOf[e]}
  PROVE  SInv'
<1>1. /\ pc[t] = p /\ At(t, "client") /\ UnlockMutex(t, MutexOf[e])
      /\ UNCHANGED <<condLock, call>> /\ GoTo(t, q) /\ UNCHANGED srr
  BY DEF UnlockStep, Ready, Here, Unlock
<1>2. LocksTyped /\ DataTyped /\ held[t] = HeldFor(t, p) /\ MutexOf[e] \in Mutexes
  BY <1>1, SrrAssumption DEF SInv, Local, Holds
<1>3. /\ LocksTyped' /\ held'[t] = held[t] \ {MutexOf[e]}
      /\ \A u \in Threads : u # t => held'[u] = held[u]
  <2>1. call' \in [Threads -> Calls]
    BY <1>1, <1>2 DEF LocksTyped
  <2> QED BY <1>1, <1>2, <2>1, UnlockMutexEffect
<1>4. DataTyped' /\ Fits(t, q)' /\ HeldFor(t, q)' = HeldFor(t, q)
  BY <1>1, <1>2 DEF DataTyped, srr, Fits, HeldFor, Own
<1>5. Holds(t, HeldFor(t, q))'
  BY <1>1, <1>2, <1>3, <1>4 DEF Holds, At
<1> QED BY <1>1, <1>3, <1>4, <1>5, Going DEF srr, Apart

\* k_pthread_cond_wait(&stateCond_, &mutex_) of e, which ends with the lock again.
LEMMA WaitStepKeeps ==
  ASSUME SInv, NEW t \in Threads, NEW p, NEW q, NEW e \in Ends, WaitStep(t, p, e, q),
         Fits(t, q), HeldFor(t, q) = HeldFor(t, p), MutexOf[e] \in HeldFor(t, p)
  PROVE  SInv'
<1> DEFINE r == [at |-> "unlocked", mutex |-> MutexOf[e], cond |-> CondOf[e], us |-> 0]
<1>1. /\ pc[t] = p /\ At(t, "client") /\ UnlockMutex(t, MutexOf[e])
      /\ call' = [call EXCEPT ![t] = r]
      /\ UNCHANGED condLock /\ GoTo(t, q) /\ UNCHANGED srr
  BY DEF WaitStep, Ready, Here, CondWait
<1>2. LocksTyped /\ DataTyped /\ held[t] = HeldFor(t, p) /\ MutexOf[e] \in Mutexes /\ CondOf[e] \in Conds
  BY <1>1, SrrAssumption DEF SInv, Local, Holds
<1>3. r \in Calls /\ r.at = "unlocked" /\ r.mutex = MutexOf[e]
  BY <1>2, LocksAssumption DEF Calls, Places
<1> HIDE DEF r
<1>4. call' \in [Threads -> Calls] /\ call'[t] = r /\ \A u \in Threads : u # t => call'[u] = call[u]
  BY <1>1, <1>2, <1>3 DEF LocksTyped
<1>5. /\ LocksTyped' /\ held'[t] = held[t] \ {MutexOf[e]}
      /\ \A u \in Threads : u # t => held'[u] = held[u]
  BY <1>1, <1>2, <1>4, UnlockMutexEffect
<1>6. DataTyped' /\ Fits(t, q)' /\ HeldFor(t, q)' = HeldFor(t, q)
  BY <1>1, <1>2 DEF DataTyped, srr, Fits, HeldFor, Own
<1>7. Holds(t, HeldFor(t, q))'
  BY <1>2, <1>3, <1>4, <1>5, <1>6 DEF Holds, At
<1> QED BY <1>1, <1>4, <1>5, <1>6, <1>7, Going DEF srr, Apart

\* The test of iState_ in a wait loop.
LEMMA TestStepKeeps ==
  ASSUME SInv, NEW t \in Threads, NEW p, NEW q, NEW wait, NEW e \in Ends, NEW s,
         TestStep(t, p, e, s, wait, q),
         iState[e] = s => Fits(t, q), Fits(t, wait),
         HeldFor(t, q) = HeldFor(t, p), HeldFor(t, wait) = HeldFor(t, p)
  PROVE  SInv'
<1>1. Ready(t, p) /\ UNCHANGED <<locks, srr>> /\ GoTo(t, IF iState[e] = s THEN q ELSE wait)
  BY DEF TestStep
<1>2. LocksTyped' /\ DataTyped' /\ UNCHANGED <<call, held>> /\ Apart(t) /\ msgWaiting' = msgWaiting
  BY <1>1 DEF SInv, LocksTyped, DataTyped, locks, srr, Apart
<1>3. ASSUME NEW x \in {q, wait}, Fits(t, x), GoTo(t, x) PROVE SInv'
  <2>1. HeldFor(t, x) = HeldFor(t, p)
    BY <1>3
  <2>2. HeldFor(t, x)' = HeldFor(t, p) /\ Fits(t, x)'
    BY <1>1, <1>3, <2>1 DEF HeldFor, Own, Fits, srr
  <2> QED BY <1>1, <1>2, <1>3, <2>2, QuietStep
<1> QED BY <1>1, <1>3

\* k_pthread_cond_broadcast(&stateCond_) of e.
LEMMA NotifyStepKeeps ==
  ASSUME SInv, NEW t \in Threads, NEW p, NEW q, NEW e \in Ends, NotifyStep(t, p, e, q),
         Fits(t, q), HeldFor(t, q) = HeldFor(t, p)
  PROVE  SInv'
<1>1. Ready(t, p) /\ Notify(CondOf[e], 0) /\ GoTo(t, q) /\ UNCHANGED srr
  BY DEF NotifyStep
<1>2. LocksTyped' /\ UNCHANGED <<call, held>>
  <2>1. /\ waitQ' \in Seq(Threads) /\ waitObj' \in [Threads -> Mutexes \cup Conds \cup {Null}]
        /\ condLock' \in [Conds -> {0, 1}]
    BY <1>1, WakeTyped DEF Notify, SInv, LocksTyped
  <2> QED BY <1>1, <2>1 DEF Notify, SInv, LocksTyped
<1>3. DataTyped' /\ Apart(t) /\ msgWaiting' = msgWaiting /\ Fits(t, q)' /\ HeldFor(t, q)' = HeldFor(t, p)
  BY <1>1 DEF SInv, DataTyped, srr, Apart, Fits, HeldFor, Own
<1> QED BY <1>1, <1>2, <1>3, QuietStep

\* iState_ = s in e.
LEMMA StateStepKeeps ==
  ASSUME SInv, NEW t \in Threads, NEW p, NEW q, NEW e \in Ends,
         NEW s \in {"FREE", "MSG_SENT", "MSG_REPLIED"}, StateStep(t, p, e, s, q),
         e = Channel => s # "MSG_REPLIED" /\ (s = "MSG_SENT" => msgWaiting \in Connections),
         Fits(t, q), HeldFor(t, q) = HeldFor(t, p)
  PROVE  SInv'
<1>1. /\ Ready(t, p) /\ GoTo(t, q) /\ iState' = [iState EXCEPT ![e] = s]
      /\ UNCHANGED <<locks, msgWaiting, sndMsg, retVal, message, replyTo, result>>
  BY DEF StateStep
<1>2. DataTyped'
  BY <1>1 DEF SInv, DataTyped, Ends
<1>3. LocksTyped' /\ UNCHANGED <<call, held>> /\ Apart(t) /\ Fits(t, q)' /\ HeldFor(t, q)' = HeldFor(t, p)
  BY <1>1 DEF SInv, LocksTyped, locks, Apart, Fits, HeldFor, Own
<1> QED BY <1>1, <1>2, <1>3, QuietStep

-----------------------------------------------------------------------------
(* The functions.                                                          *)

\* A client can be at the place p of msgSend if it is at a place of it but the
\* first, and at most one place needs more.
LEMMA ClientFits ==
  ASSUME SInv, NEW t \in Clients, pc[t] # "idle"
  PROVE  \A p \in ClientPlaces : p # "setSent" => Fits(t, p)
<1>1. t \in Threads /\ Fits(t, pc[t])
  BY SrrAssumption DEF SInv, Local
<1> QED BY <1>1 DEF Fits, ClientPlaces, ClientInConnection, ClientInBoth

\* What a client holds.
LEMMA ClientHolds ==
  ASSUME NEW t \in Clients
  PROVE  /\ t \in Threads /\ ConnectionOf[t] \in Connections /\ ConnectionOf[t] \in Ends /\ Channel \in Ends
         /\ MutexOf[ConnectionOf[t]] # MutexOf[Channel] /\ ConnectionOf[t] # Channel
         /\ \A p \in ClientPlaces :
              HeldFor(t, p) = IF p \in ClientInBoth THEN {MutexOf[Channel], MutexOf[ConnectionOf[t]]}
                              ELSE IF p \in ClientInConnection THEN {MutexOf[ConnectionOf[t]]} ELSE {}
<1>1. /\ t \in Threads /\ ConnectionOf[t] \in Connections /\ ConnectionOf[t] \in Ends /\ Channel \in Ends
      /\ ConnectionOf[t] # Channel /\ MutexOf \in [Ends -> Mutexes]
  BY SrrAssumption DEF Ends
<1>2. MutexOf[ConnectionOf[t]] # MutexOf[Channel]
  BY <1>1, SrrAssumption DEF IsInjective
<1>3. ClientPlaces \cap (ServerInChannel \cup ServerInConnection) = {}
  BY DEF ClientPlaces, ClientInConnection, ClientInBoth, ServerInChannel, ServerInConnection
<1> QED BY <1>1, <1>2, <1>3 DEF HeldFor, Own, ClientPlaces

\* What a server holds, at the places of msgReceive and of msgReply.
LEMMA ServerHolds ==
  ASSUME NEW t \in Servers
  PROVE  /\ t \in Threads /\ t \notin Clients /\ Channel \in Ends
         /\ \A k \in Connections : k \in Ends /\ k # Channel
         /\ \A p \in ServerPlaces :
              HeldFor(t, p) = IF p \in ServerInChannel THEN {MutexOf[Channel]}
                              ELSE IF p \in ServerInConnection THEN {MutexOf[replyTo[t]]} ELSE {}
<1>1. /\ t \in Threads /\ t \notin Clients /\ Channel \in Ends
      /\ \A k \in Connections : k \in Ends /\ k # Channel
  BY SrrAssumption DEF Ends
<1>2. /\ ServerPlaces \cap (ClientInBoth \cup ClientInConnection) = {}
      /\ ServerInChannel \cap ServerInConnection = {}
  BY DEF ServerPlaces, ClientInConnection, ClientInBoth, ServerInChannel, ServerInConnection
<1> QED BY <1>1, <1>2 DEF HeldFor, Own, ServerPlaces

\* msgSend.
LEMMA SendingKeeps ==
  ASSUME SInv, NEW t \in Clients, MsgSend(t)
  PROVE  SInv'
<1> DEFINE k == ConnectionOf[t]
<1>1. /\ t \in Threads /\ k \in Connections /\ k \in Ends /\ Channel \in Ends
      /\ MutexOf[k] # MutexOf[Channel] /\ k # Channel
      /\ \A p \in ClientPlaces :
           HeldFor(t, p) = IF p \in ClientInBoth THEN {MutexOf[Channel], MutexOf[k]}
                           ELSE IF p \in ClientInConnection THEN {MutexOf[k]} ELSE {}
  BY ClientHolds
<1>2. DataTyped /\ LocksTyped /\ Fits(t, pc[t]) /\ message[t] \in Messages
  BY <1>1 DEF SInv, Local, Fits
<1>3. pc[t] # "idle" => \A p \in ClientPlaces : p # "setSent" => Fits(t, p)
  BY ClientFits
<1>4. message[t][2] <= MaxSends => Fits(t, "testFree")
  BY <1>2 DEF Fits, ClientPlaces, ClientInConnection
<1>5. pc[t] = "setWaiting" => Fits(t, "idle")
  BY <1>3 DEF ClientPlaces
<1> HIDE DEF k
<1> USE DEF ClientPlaces, ClientInConnection, ClientInBoth
<1>6. CASE message[t][2] <= MaxSends /\ LockStep(t, "idle", k, "testFree")
  <2>1. pc[t] = "idle"
    BY <1>6 DEF LockStep, Ready
  <2>2. Fits(t, "testFree")
    BY <2>1, <1>3, <1>4, <1>6
  <2>3. HeldFor(t, "testFree") = HeldFor(t, "idle") \cup {MutexOf[k]}
    BY <1>1
  <2> QED BY <1>6, <1>1, <2>2, <2>3, LockStepKeeps
<1>7. CASE TestStep(t, "testFree", k, "FREE", "waitFree", "setMessage")
  <2>1. pc[t] = "testFree"
    BY <1>7 DEF TestStep, Ready
  <2>2. Fits(t, "waitFree") /\ Fits(t, "setMessage")
    BY <2>1, <1>3
  <2>3. HeldFor(t, "setMessage") = HeldFor(t, "testFree") /\ HeldFor(t, "waitFree") = HeldFor(t, "testFree")
    BY <1>1
  <2> QED BY <1>7, <1>1, <2>2, <2>3, TestStepKeeps
<1>8. CASE WaitStep(t, "waitFree", k, "testFree")
  <2>1. pc[t] = "waitFree"
    BY <1>8 DEF WaitStep, Ready
  <2>2. Fits(t, "testFree")
    BY <2>1, <1>3, <1>4, <1>8
  <2>3. HeldFor(t, "testFree") = HeldFor(t, "waitFree") /\ MutexOf[k] \in HeldFor(t, "waitFree")
    BY <1>1
  <2> QED BY <1>8, <1>1, <2>2, <2>3, WaitStepKeeps
<1>9. CASE SetMessage(t, k)
  <2>1. Ready(t, "setMessage") /\ pc[t] = "setMessage" /\ GoTo(t, "lockChannel") /\ UNCHANGED <<locks, replyTo>>
    BY <1>9 DEF SetMessage, Ready
  <2>4. Apart(t) /\ msgWaiting' = msgWaiting /\ Fits(t, "lockChannel")
    BY <1>9, <1>3, <2>1 DEF SetMessage, Apart
  <2>5. DataTyped' /\ Fits(t, "lockChannel")'
    BY <1>9, <1>1, <1>2, <2>4 DEF SetMessage, DataTyped, Fits
  <2>6. LocksTyped' /\ UNCHANGED <<call, held>>
    BY <1>2, <2>1 DEF LocksTyped, locks
  <2>7. HeldFor(t, "lockChannel")' = HeldFor(t, "setMessage")
    <3>1. HeldFor(t, "lockChannel") = HeldFor(t, "setMessage")
      BY <1>1
    <3> QED BY <3>1, <2>1 DEF HeldFor, Own
  <2> QED BY <1>1, <2>1, <2>4, <2>5, <2>6, <2>7, QuietStep
<1>10. CASE LockStep(t, "lockChannel", Channel, "testChannel")
  <2>1. pc[t] = "lockChannel"
    BY <1>10 DEF LockStep, Ready
  <2>2. Fits(t, "testChannel")
    BY <2>1, <1>3, <1>4, <1>10
  <2>3. HeldFor(t, "testChannel") = HeldFor(t, "lockChannel") \cup {MutexOf[Channel]}
    BY <1>1
  <2> QED BY <1>10, <1>1, <2>2, <2>3, LockStepKeeps
<1>11. CASE TestStep(t, "testChannel", Channel, "FREE", "waitChannel", "setWaiting")
  <2>1. pc[t] = "testChannel"
    BY <1>11 DEF TestStep, Ready
  <2>2. Fits(t, "waitChannel") /\ Fits(t, "setWaiting")
    BY <2>1, <1>3
  <2>3. HeldFor(t, "setWaiting") = HeldFor(t, "testChannel") /\ HeldFor(t, "waitChannel") = HeldFor(t, "testChannel")
    BY <1>1
  <2> QED BY <1>11, <1>1, <2>2, <2>3, TestStepKeeps
<1>12. CASE WaitStep(t, "waitChannel", Channel, "testChannel")
  <2>1. pc[t] = "waitChannel"
    BY <1>12 DEF WaitStep, Ready
  <2>2. Fits(t, "testChannel")
    BY <2>1, <1>3, <1>4, <1>12
  <2>3. HeldFor(t, "testChannel") = HeldFor(t, "waitChannel") /\ MutexOf[Channel] \in HeldFor(t, "waitChannel")
    BY <1>1
  <2> QED BY <1>12, <1>1, <2>2, <2>3, WaitStepKeeps
<1>13. CASE SetWaiting(t, k)
  <2>1. Ready(t, "setWaiting") /\ pc[t] = "setWaiting" /\ GoTo(t, "setSent") /\ UNCHANGED <<locks, replyTo>>
    BY <1>13 DEF SetWaiting, Ready
  <2>4. Apart(t) /\ msgWaiting' = k
    BY <1>13 DEF SetWaiting, Apart
  <2>5. DataTyped' /\ Fits(t, "setSent")'
    BY <1>13, <1>1, <1>2, <1>5, <2>1, <2>4 DEF SetWaiting, DataTyped, Fits
  <2>6. LocksTyped' /\ UNCHANGED <<call, held>>
    BY <1>2, <2>1 DEF LocksTyped, locks
  <2>7. HeldFor(t, "setSent")' = HeldFor(t, "setWaiting")
    <3>1. HeldFor(t, "setSent") = HeldFor(t, "setWaiting")
      BY <1>1
    <3> QED BY <3>1, <2>1 DEF HeldFor, Own
  <2> QED BY <1>1, <2>1, <2>4, <2>5, <2>6, <2>7, QuietStep
<1>14. CASE StateStep(t, "setSent", Channel, "MSG_SENT", "notifyChannel")
  <2>1. pc[t] = "setSent"
    BY <1>14 DEF StateStep, Ready
  <2>2. Fits(t, "notifyChannel")
    BY <2>1, <1>3, <1>4, <1>14
  <2>3. HeldFor(t, "notifyChannel") = HeldFor(t, "setSent")
    BY <1>1
  <2>4. msgWaiting \in Connections
    BY <2>1, <1>2 DEF Fits
  <2> QED BY <1>14, <1>1, <2>2, <2>3, <2>4, StateStepKeeps
<1>15. CASE NotifyStep(t, "notifyChannel", Channel, "unlockChannel")
  <2>1. pc[t] = "notifyChannel"
    BY <1>15 DEF NotifyStep, Ready
  <2>2. Fits(t, "unlockChannel")
    BY <2>1, <1>3, <1>4, <1>15
  <2>3. HeldFor(t, "unlockChannel") = HeldFor(t, "notifyChannel")
    BY <1>1
  <2> QED BY <1>15, <1>1, <2>2, <2>3, NotifyStepKeeps
<1>16. CASE UnlockStep(t, "unlockChannel", Channel, "setConnectionSent")
  <2>1. pc[t] = "unlockChannel"
    BY <1>16 DEF UnlockStep, Ready
  <2>2. Fits(t, "setConnectionSent")
    BY <2>1, <1>3, <1>4, <1>16
  <2>3. HeldFor(t, "setConnectionSent") = HeldFor(t, "unlockChannel") \ {MutexOf[Channel]}
    BY <1>1
  <2> QED BY <1>16, <1>1, <2>2, <2>3, UnlockStepKeeps
<1>17. CASE StateStep(t, "setConnectionSent", k, "MSG_SENT", "notifyConnection")
  <2>1. pc[t] = "setConnectionSent"
    BY <1>17 DEF StateStep, Ready
  <2>2. Fits(t, "notifyConnection")
    BY <2>1, <1>3, <1>4, <1>17
  <2>3. HeldFor(t, "notifyConnection") = HeldFor(t, "setConnectionSent")
    BY <1>1
  <2> QED BY <1>17, <1>1, <2>2, <2>3, StateStepKeeps
<1>18. CASE NotifyStep(t, "notifyConnection", k, "testReplied")
  <2>1. pc[t] = "notifyConnection"
    BY <1>18 DEF NotifyStep, Ready
  <2>2. Fits(t, "testReplied")
    BY <2>1, <1>3, <1>4, <1>18
  <2>3. HeldFor(t, "testReplied") = HeldFor(t, "notifyConnection")
    BY <1>1
  <2> QED BY <1>18, <1>1, <2>2, <2>3, NotifyStepKeeps
<1>19. CASE TestStep(t, "testReplied", k, "MSG_REPLIED", "waitReply", "takeResult")
  <2>1. pc[t] = "testReplied"
    BY <1>19 DEF TestStep, Ready
  <2>2. Fits(t, "waitReply") /\ Fits(t, "takeResult")
    BY <2>1, <1>3
  <2>3. HeldFor(t, "takeResult") = HeldFor(t, "testReplied") /\ HeldFor(t, "waitReply") = HeldFor(t, "testReplied")
    BY <1>1
  <2> QED BY <1>19, <1>1, <2>2, <2>3, TestStepKeeps
<1>20. CASE WaitStep(t, "waitReply", k, "testReplied")
  <2>1. pc[t] = "waitReply"
    BY <1>20 DEF WaitStep, Ready
  <2>2. Fits(t, "testReplied")
    BY <2>1, <1>3, <1>4, <1>20
  <2>3. HeldFor(t, "testReplied") = HeldFor(t, "waitReply") /\ MutexOf[k] \in HeldFor(t, "waitReply")
    BY <1>1
  <2> QED BY <1>20, <1>1, <2>2, <2>3, WaitStepKeeps
<1>21. CASE TakeResult(t, k)
  <2>1. Ready(t, "takeResult") /\ pc[t] = "takeResult" /\ GoTo(t, "setFree") /\ UNCHANGED <<locks, replyTo>>
    BY <1>21 DEF TakeResult, Ready
  <2>4. Apart(t) /\ msgWaiting' = msgWaiting /\ Fits(t, "setFree")
    BY <1>21, <1>3, <2>1 DEF TakeResult, Apart
  <2>5. DataTyped' /\ Fits(t, "setFree")'
    BY <1>21, <1>1, <1>2, <2>4 DEF TakeResult, DataTyped, Fits
  <2>6. LocksTyped' /\ UNCHANGED <<call, held>>
    BY <1>2, <2>1 DEF LocksTyped, locks
  <2>7. HeldFor(t, "setFree")' = HeldFor(t, "takeResult")
    <3>1. HeldFor(t, "setFree") = HeldFor(t, "takeResult")
      BY <1>1
    <3> QED BY <3>1, <2>1 DEF HeldFor, Own
  <2> QED BY <1>1, <2>1, <2>4, <2>5, <2>6, <2>7, QuietStep
<1>22. CASE StateStep(t, "setFree", k, "FREE", "notifyFree")
  <2>1. pc[t] = "setFree"
    BY <1>22 DEF StateStep, Ready
  <2>2. Fits(t, "notifyFree")
    BY <2>1, <1>3, <1>4, <1>22
  <2>3. HeldFor(t, "notifyFree") = HeldFor(t, "setFree")
    BY <1>1
  <2> QED BY <1>22, <1>1, <2>2, <2>3, StateStepKeeps
<1>23. CASE NotifyStep(t, "notifyFree", k, "unlockConnection")
  <2>1. pc[t] = "notifyFree"
    BY <1>23 DEF NotifyStep, Ready
  <2>2. Fits(t, "unlockConnection")
    BY <2>1, <1>3, <1>4, <1>23
  <2>3. HeldFor(t, "unlockConnection") = HeldFor(t, "notifyFree")
    BY <1>1
  <2> QED BY <1>23, <1>1, <2>2, <2>3, NotifyStepKeeps
<1>24. CASE UnlockStep(t, "unlockConnection", k, "returned")
  <2>1. pc[t] = "unlockConnection"
    BY <1>24 DEF UnlockStep, Ready
  <2>2. Fits(t, "returned")
    BY <2>1, <1>3, <1>4, <1>24
  <2>3. HeldFor(t, "returned") = HeldFor(t, "unlockConnection") \ {MutexOf[k]}
    BY <1>1
  <2> QED BY <1>24, <1>1, <2>2, <2>3, UnlockStepKeeps
<1>25. CASE SendReturns(t)
  <2>1. Ready(t, "returned") /\ pc[t] = "returned" /\ GoTo(t, "idle") /\ UNCHANGED <<locks, replyTo>>
    BY <1>25 DEF SendReturns, Ready
  <2>2. message[t][2] + 1 \in 1 .. MaxSends + 1
    BY <2>1, <1>2, SrrAssumption DEF Fits, Messages
  <2>3. <<t, message[t][2] + 1>> \in Messages
    BY <2>2 DEF Messages
  <2>4. message' \in [Threads -> Messages \cup {Null}] /\ message'[t] \in Messages /\ Apart(t)
    BY <1>25, <1>1, <1>2, <2>1, <2>3 DEF SendReturns, DataTyped, Apart
  <2>5. DataTyped' /\ Fits(t, "idle")' /\ msgWaiting' = msgWaiting
    BY <1>25, <1>2, <2>4 DEF SendReturns, DataTyped, Fits
  <2>6. LocksTyped' /\ UNCHANGED <<call, held>>
    BY <1>2, <2>1 DEF LocksTyped, locks
  <2>7. HeldFor(t, "idle")' = HeldFor(t, "returned")
    <3>1. HeldFor(t, "idle") = HeldFor(t, "returned")
      BY <1>1
    <3> QED BY <3>1, <2>1 DEF HeldFor, Own
  <2> QED BY <1>1, <2>1, <2>4, <2>5, <2>6, <2>7, QuietStep
<1> QED BY <1>6, <1>7, <1>8, <1>9, <1>10, <1>11, <1>12, <1>13, <1>14, <1>15, <1>16, <1>17, <1>18, <1>19, <1>20, <1>21, <1>22, <1>23, <1>24, <1>25 DEF MsgSend, k

\* msgReceive. A server that sees MSG_SENT finds the connection the message is on.
LEMMA ReceivingKeeps ==
  ASSUME SInv, NEW t \in Servers, MsgReceive(t)
  PROVE  SInv'
<1>1. /\ t \in Threads /\ t \notin Clients /\ Channel \in Ends
      /\ \A e \in Connections : e \in Ends /\ e # Channel
      /\ \A p \in ServerPlaces :
           HeldFor(t, p) = IF p \in ServerInChannel THEN {MutexOf[Channel]}
                           ELSE IF p \in ServerInConnection THEN {MutexOf[replyTo[t]]} ELSE {}
  BY ServerHolds
<1>2. DataTyped /\ LocksTyped /\ Fits(t, pc[t])
  BY <1>1 DEF SInv, Local
<1> USE DEF ServerPlaces, ServerInChannel, ServerInConnection
<1>3. CASE LockStep(t, "idle", Channel, "testSent")
  <2>1. pc[t] = "idle"
    BY <1>3 DEF LockStep, Ready
  <2>2. Fits(t, "testSent")
    BY <2>1, <1>1, <1>2 DEF Fits, DataTyped
  <2>3. HeldFor(t, "testSent") = HeldFor(t, "idle") \cup {MutexOf[Channel]}
    BY <1>1
  <2> QED BY <1>3, <1>1, <2>2, <2>3, LockStepKeeps
<1>4. CASE TestStep(t, "testSent", Channel, "MSG_SENT", "waitSent", "copyMessage")
  <2>1. pc[t] = "testSent"
    BY <1>4 DEF TestStep, Ready
  <2>2. (iState[Channel] = "MSG_SENT" => Fits(t, "copyMessage")) /\ Fits(t, "waitSent")
    BY <2>1, <1>1, <1>2 DEF Fits, DataTyped
  <2>3. HeldFor(t, "copyMessage") = HeldFor(t, "testSent") /\ HeldFor(t, "waitSent") = HeldFor(t, "testSent")
    BY <1>1
  <2> QED BY <1>4, <1>1, <2>2, <2>3, TestStepKeeps
<1>5. CASE WaitStep(t, "waitSent", Channel, "testSent")
  <2>1. pc[t] = "waitSent"
    BY <1>5 DEF WaitStep, Ready
  <2>2. Fits(t, "testSent")
    BY <2>1, <1>1, <1>2 DEF Fits, DataTyped
  <2>3. HeldFor(t, "testSent") = HeldFor(t, "waitSent") /\ MutexOf[Channel] \in HeldFor(t, "waitSent")
    BY <1>1
  <2> QED BY <1>5, <1>1, <2>2, <2>3, WaitStepKeeps
<1>6. CASE CopyMessage(t)
  <2>1. Ready(t, "copyMessage") /\ pc[t] = "copyMessage" /\ GoTo(t, "copyID") /\ UNCHANGED <<locks, msgWaiting, replyTo>>
    BY <1>6 DEF CopyMessage, Ready
  <2>2. DataTyped' /\ Apart(t) /\ Fits(t, "copyID")'
    <3>1. sndMsg[msgWaiting] \in Messages \cup {Null}
      BY <2>1, <1>2 DEF Fits, DataTyped
    <3> QED BY <3>1, <1>6, <1>1, <1>2, <2>1 DEF CopyMessage, DataTyped, Apart, Fits
  <2>3. HeldFor(t, "copyID")' = HeldFor(t, "copyMessage")
    BY <1>1, <2>1 DEF HeldFor, Own
  <2>4. LocksTyped' /\ UNCHANGED <<call, held>> /\ msgWaiting' = msgWaiting
    BY <1>2, <2>1 DEF LocksTyped, locks
  <2> QED BY <1>1, <2>1, <2>2, <2>3, <2>4, QuietStep
<1>7. CASE CopyID(t)
  <2>1. Ready(t, "copyID") /\ pc[t] = "copyID" /\ GoTo(t, "setChannelFree") /\ UNCHANGED <<locks, msgWaiting>>
    BY <1>7 DEF CopyID, Ready
  <2>2. DataTyped' /\ Apart(t) /\ Fits(t, "setChannelFree")'
    BY <1>7, <1>1, <1>2, <2>1 DEF CopyID, DataTyped, Apart, Fits
  <2>3. HeldFor(t, "setChannelFree")' = HeldFor(t, "copyID")
    <3>1. /\ "setChannelFree" \notin ClientInBoth \cup ClientInConnection
          /\ "copyID" \notin ClientInBoth \cup ClientInConnection
      BY DEF ClientInBoth, ClientInConnection
    <3> QED BY <3>1 DEF HeldFor
  <2>4. LocksTyped' /\ UNCHANGED <<call, held>> /\ msgWaiting' = msgWaiting
    BY <1>2, <2>1 DEF LocksTyped, locks
  <2> QED BY <1>1, <2>1, <2>2, <2>3, <2>4, QuietStep
<1>8. CASE StateStep(t, "setChannelFree", Channel, "FREE", "notifyTaken")
  <2>1. pc[t] = "setChannelFree"
    BY <1>8 DEF StateStep, Ready
  <2>2. Fits(t, "notifyTaken")
    BY <2>1, <1>1, <1>2 DEF Fits, DataTyped
  <2>3. HeldFor(t, "notifyTaken") = HeldFor(t, "setChannelFree")
    BY <1>1
  <2> QED BY <1>8, <1>1, <2>2, <2>3, StateStepKeeps
<1>9. CASE NotifyStep(t, "notifyTaken", Channel, "unlockTaken")
  <2>1. pc[t] = "notifyTaken"
    BY <1>9 DEF NotifyStep, Ready
  <2>2. Fits(t, "unlockTaken")
    BY <2>1, <1>1, <1>2 DEF Fits, DataTyped
  <2>3. HeldFor(t, "unlockTaken") = HeldFor(t, "notifyTaken")
    BY <1>1
  <2> QED BY <1>9, <1>1, <2>2, <2>3, NotifyStepKeeps
<1>10. CASE UnlockStep(t, "unlockTaken", Channel, "lockConnection")
  <2>1. pc[t] = "unlockTaken"
    BY <1>10 DEF UnlockStep, Ready
  <2>2. Fits(t, "lockConnection")
    BY <2>1, <1>1, <1>2 DEF Fits, DataTyped
  <2>3. HeldFor(t, "lockConnection") = HeldFor(t, "unlockTaken") \ {MutexOf[Channel]}
    BY <1>1
  <2> QED BY <1>10, <1>1, <2>2, <2>3, UnlockStepKeeps
<1> QED BY <1>3, <1>4, <1>5, <1>6, <1>7, <1>8, <1>9, <1>10 DEF MsgReceive

\* msgReply, on the connection the receive id stands for.
LEMMA ReplyingKeeps ==
  ASSUME SInv, NEW t \in Servers, MsgReply(t)
  PROVE  SInv'
<1> DEFINE k == replyTo[t]
<1>1. /\ t \in Threads /\ t \notin Clients /\ Channel \in Ends
      /\ \A e \in Connections : e \in Ends /\ e # Channel
      /\ \A p \in ServerPlaces :
           HeldFor(t, p) = IF p \in ServerInChannel THEN {MutexOf[Channel]}
                           ELSE IF p \in ServerInConnection THEN {MutexOf[replyTo[t]]} ELSE {}
  BY ServerHolds
<1>2. DataTyped /\ LocksTyped /\ Fits(t, pc[t])
  BY <1>1 DEF SInv, Local
<1> USE DEF ServerPlaces, ServerInChannel, ServerInConnection
<1> HIDE DEF k
<1>3. CASE LockStep(t, "lockConnection", k, "testAsked")
  <2>1. pc[t] = "lockConnection"
    BY <1>3 DEF LockStep, Ready
  <2>0. k \in Connections /\ k \in Ends /\ k # Channel
    BY <2>1, <1>1, <1>2 DEF Fits, k
  <2>2. Fits(t, "testAsked")
    BY <2>1, <1>1, <1>2 DEF Fits, DataTyped
  <2>3. HeldFor(t, "testAsked") = HeldFor(t, "lockConnection") \cup {MutexOf[k]}
    BY <1>1 DEF k
  <2> QED BY <1>3, <1>1, <2>0, <2>2, <2>3, LockStepKeeps
<1>4. CASE TestStep(t, "testAsked", k, "MSG_SENT", "unlockReply", "copyReply")
  <2>1. pc[t] = "testAsked"
    BY <1>4 DEF TestStep, Ready
  <2>0. k \in Connections /\ k \in Ends /\ k # Channel
    BY <2>1, <1>1, <1>2 DEF Fits, k
  <2>2. (iState[k] = "MSG_SENT" => Fits(t, "copyReply")) /\ Fits(t, "unlockReply")
    BY <2>1, <1>1, <1>2 DEF Fits, DataTyped
  <2>3. HeldFor(t, "copyReply") = HeldFor(t, "testAsked") /\ HeldFor(t, "unlockReply") = HeldFor(t, "testAsked")
    BY <1>1 DEF k
  <2> QED BY <1>4, <1>1, <2>0, <2>2, <2>3, TestStepKeeps
<1>5. CASE CopyReply(t, k)
  <2>1. Ready(t, "copyReply") /\ pc[t] = "copyReply" /\ GoTo(t, "setReplied") /\ UNCHANGED <<locks, msgWaiting, replyTo>>
    BY <1>5 DEF CopyReply, Ready
  <2>2. DataTyped' /\ Apart(t) /\ Fits(t, "setReplied")'
    BY <1>5, <1>1, <1>2, <2>1 DEF CopyReply, DataTyped, Apart, Fits
  <2>3. HeldFor(t, "setReplied")' = HeldFor(t, "copyReply")
    <3>1. HeldFor(t, "setReplied") = HeldFor(t, "copyReply")
      BY <1>1
    <3> QED BY <3>1, <2>1 DEF HeldFor, Own
  <2>4. LocksTyped' /\ UNCHANGED <<call, held>> /\ msgWaiting' = msgWaiting
    BY <1>2, <2>1 DEF LocksTyped, locks
  <2> QED BY <1>1, <2>1, <2>2, <2>3, <2>4, QuietStep
<1>6. CASE StateStep(t, "setReplied", k, "MSG_REPLIED", "notifyReplied")
  <2>1. pc[t] = "setReplied"
    BY <1>6 DEF StateStep, Ready
  <2>0. k \in Connections /\ k \in Ends /\ k # Channel
    BY <2>1, <1>1, <1>2 DEF Fits, k
  <2>2. Fits(t, "notifyReplied")
    BY <2>1, <1>1, <1>2 DEF Fits, DataTyped
  <2>3. HeldFor(t, "notifyReplied") = HeldFor(t, "setReplied")
    BY <1>1 DEF k
  <2> QED BY <1>6, <1>1, <2>0, <2>2, <2>3, StateStepKeeps
<1>7. CASE NotifyStep(t, "notifyReplied", k, "unlockReply")
  <2>1. pc[t] = "notifyReplied"
    BY <1>7 DEF NotifyStep, Ready
  <2>0. k \in Connections /\ k \in Ends /\ k # Channel
    BY <2>1, <1>1, <1>2 DEF Fits, k
  <2>2. Fits(t, "unlockReply")
    BY <2>1, <1>1, <1>2 DEF Fits, DataTyped
  <2>3. HeldFor(t, "unlockReply") = HeldFor(t, "notifyReplied")
    BY <1>1 DEF k
  <2> QED BY <1>7, <1>1, <2>0, <2>2, <2>3, NotifyStepKeeps
<1>8. CASE UnlockStep(t, "unlockReply", k, "idle")
  <2>1. pc[t] = "unlockReply"
    BY <1>8 DEF UnlockStep, Ready
  <2>0. k \in Connections /\ k \in Ends /\ k # Channel
    BY <2>1, <1>1, <1>2 DEF Fits, k
  <2>2. Fits(t, "idle")
    BY <2>1, <1>1, <1>2 DEF Fits, DataTyped
  <2>3. HeldFor(t, "idle") = HeldFor(t, "unlockReply") \ {MutexOf[k]}
    BY <1>1 DEF k
  <2> QED BY <1>8, <1>1, <2>0, <2>2, <2>3, UnlockStepKeeps
<1> QED BY <1>3, <1>4, <1>5, <1>6, <1>7, <1>8 DEF MsgReply, k

\* A thread in the middle of a pthread call goes on with it.
LEMMA InPthreadKeeps ==
  ASSUME SInv, NEW t \in Threads, InPthread(t)
  PROVE  SInv'
<1>1. LocksTyped /\ DataTyped /\ Local(t) /\ Proceed(t) /\ UNCHANGED <<pc, srr>>
  BY DEF SInv, InPthread
<1>2. ~At(t, "client")
  BY <1>1 DEF Proceed, LockResumed, CondSleep, CondResumed, Relock, Here, At
<1> DEFINE H == HeldFor(t, pc[t])
<1>3. call[t].mutex \in H /\ held[t] = H \ {call[t].mutex} /\ Fits(t, pc[t])
  BY <1>1, <1>2 DEF Local, Holds
<1>4. H' = H
  BY <1>1 DEF HeldFor, Own, srr
<1>5. call[t].mutex \in Mutexes
  <2>1. /\ Channel \in Ends /\ MutexOf \in [Ends -> Mutexes]
        /\ t \in Clients => Own(t) \in Ends
    BY SrrAssumption DEF Ends, Own
  <2>2. t \notin Clients /\ pc[t] \in ServerInConnection => Own(t) \in Ends
    BY <1>3 DEF Fits, Own, Ends
  <2>3. t \notin Clients => pc[t] \notin ClientInBoth \cup ClientInConnection
    BY <1>3 DEF Fits, ServerPlaces, ServerInChannel, ServerInConnection, ClientInBoth, ClientInConnection
  <2> QED BY <1>3, <2>1, <2>2, <2>3 DEF HeldFor
<1> HIDE DEF H
<1>6. /\ LocksTyped'
      /\ \A u \in Threads : u # t => call'[u] = call[u] /\ held'[u] = held[u]
      /\ \/ call'[t].at = "client" /\ held'[t] = held[t] \cup {call[t].mutex}
         \/ call'[t].at # "client" /\ call'[t].mutex = call[t].mutex /\ held'[t] = held[t]
  BY <1>1, <1>5, ProceedEffect
<1>7. Local(t)'
  <2>1. Fits(t, pc[t])'
    BY <1>1, <1>3 DEF Fits, srr
  <2>2. Holds(t, H)'
    BY <1>3, <1>4, <1>6 DEF Holds, At
  <2> QED BY <2>1, <2>2 DEF Local, H
<1>8. ASSUME NEW u \in Threads, u # t PROVE Local(u)'
  BY <1>1, <1>6, <1>8, OthersStay DEF SInv, srr, Apart
<1>9. DataTyped' /\ DOMAIN pc' = Threads /\ pc' = [u \in Threads |-> pc'[u]]
  BY <1>1 DEF SInv, DataTyped, srr
<1> QED BY <1>6, <1>7, <1>8, <1>9 DEF SInv

-----------------------------------------------------------------------------
\* Before the first message nobody holds anything.
LEMMA SInitHolds == SInit => SInv
<1> SUFFICES ASSUME SInit PROVE SInv
  OBVIOUS
<1>1. LocksTyped
  <2>1. Client \in Calls
    BY LocksAssumption DEF Client, Calls, Places
  <2> QED BY <2>1 DEF SInit, LInit, LocksTyped
<1>2. \A c \in Clients : <<c, 1>> \in Messages
  BY SrrAssumption DEF Messages
<1>3. DataTyped
  BY <1>2, SrrAssumption DEF SInit, DataTyped, Ends
<1>4. ASSUME NEW t \in Threads PROVE Local(t)
  <2>1. /\ pc[t] = "idle" /\ At(t, "client") /\ held[t] = {}
        /\ t \in Clients => message[t] \in Messages
    BY <1>2, SrrAssumption DEF SInit, LInit, At, Client
  <2> QED BY <2>1 DEF Local, Fits, Holds, HeldFor, ClientPlaces, ServerPlaces, ClientInBoth,
             ClientInConnection, ServerInChannel, ServerInConnection
<1> QED BY <1>1, <1>3, <1>4 DEF SInv, SInit

\* Every step keeps the invariant.
LEMMA SStepInvariant == SInv /\ [SNext]_svars => SInv'
<1> SUFFICES ASSUME SInv, [SNext]_svars PROVE SInv'
  OBVIOUS
<1>1. CASE UNCHANGED svars
  BY <1>1 DEF svars, locks, srr, SInv, LocksTyped, DataTyped, Local, Fits, Holds, HeldFor, Own, At
<1> QED BY <1>1, SendingKeeps, ReceivingKeeps, ReplyingKeeps, InPthreadKeeps DEF SNext

\* In every state clients and servers reach, the invariant holds.
THEOREM SrrInvariance == SSpec => []SInv
<1> QED BY SInitHolds, SStepInvariant, PTL DEF SSpec

\* The variables keep their types (kernel/srrChannel.cpp, srrConnection.cpp): a
\* server that finds MSG_SENT finds a connection at pMsgWaiting_.
THEOREM SrrTypeCorrect == SSpec => []STypeOK
<1>1. SInv => STypeOK
  BY DEF SInv, LocksTyped, DataTyped, STypeOK
<1> QED BY <1>1, SrrInvariance, PTL

\* msgSend, msgReceive and msgReply lock no mutex twice, unlock and wait with
\* only what they have locked, and return with nothing locked.
THEOREM SrrKeepsDiscipline == SSpec => []Discipline
<1>1. SInv => Discipline
  <2> SUFFICES ASSUME SInv, NEW t \in Threads, NEW e \in Ends, Here(t, "client"), OfInterest(t, e)
               PROVE  /\ Uses(t, e) => MutexOf[e] \in held[t]
                      /\ pc[t] \in (IF e = Channel THEN {"lockChannel"} ELSE {"lockConnection"})
                           => MutexOf[e] \notin held[t]
                      /\ pc[t] = "idle" => held[t] = {}
    BY DEF Discipline
  <2>1. held[t] = HeldFor(t, pc[t]) /\ Fits(t, pc[t])
    BY DEF SInv, Local, Holds, Here
  <2>2. e = Channel \/ e = Own(t)
    BY DEF OfInterest, Own
  <2>3. Uses(t, e) => MutexOf[e] \in held[t]
    BY <2>1, <2>2 DEF Uses, HeldFor, ClientInBoth, ClientInConnection, ServerInChannel, ServerInConnection
  <2>4. pc[t] \in {"idle", "lockConnection"} => held[t] = {}
    BY <2>1 DEF HeldFor, ClientInBoth, ClientInConnection, ServerInChannel, ServerInConnection
  <2>5. CASE e = Channel /\ pc[t] = "lockChannel"
    <3>1. t \in Clients
      BY <2>1, <2>5 DEF Fits, ServerPlaces, ServerInChannel, ServerInConnection
    <3>2. held[t] = {MutexOf[ConnectionOf[t]]} /\ MutexOf[ConnectionOf[t]] # MutexOf[Channel]
      BY <2>1, <2>5, <3>1, ClientHolds DEF ClientPlaces, ClientInBoth, ClientInConnection
    <3> QED BY <2>3, <2>5, <3>2
  <2> QED BY <2>3, <2>4, <2>5
<1> QED BY <1>1, SrrInvariance, PTL

-----------------------------------------------------------------------------
(* One client and one server.                                              *)

\* The places of a client before its message is with the channel, and of a server
\* done with the message before, taking one from the channel, and answering it.
Preparing == {"idle", "testFree", "waitFree", "setMessage", "lockChannel", "testChannel",
              "waitChannel", "setWaiting", "setSent"}
Quiet == {"notifyReplied", "unlockReply", "idle", "testSent", "waitSent"}
Taking == {"copyMessage", "copyID", "setChannelFree"}
Answering == {"notifyTaken", "unlockTaken", "lockConnection", "testAsked", "copyReply", "setReplied"}

\* The connection is free but while the client waits for the reply.
ConnectionFollows(c, k) ==
  /\ iState[k] = "FREE" <=> pc[c] \in Preparing \cup (Returned \ {"setFree"}) \cup
                                      {"notifyChannel", "unlockChannel", "setConnectionSent"}
  /\ pc[c] \in {"takeResult", "setFree"} => iState[k] = "MSG_REPLIED"

\* A message in the channel is the client's, and the server has not taken it.
ChannelFollows(c, s, k) ==
  iState[Channel] = "MSG_SENT" =>
    /\ pc[c] \in Sent /\ iState[k] # "MSG_REPLIED" /\ pc[s] \in Quiet \cup Taking
    /\ msgWaiting = k /\ sndMsg[k] = message[c]

\* The server takes and answers the message the client has sent.
ServerFollows(c, s, k) ==
  /\ pc[s] \in Taking => iState[Channel] = "MSG_SENT"
  /\ pc[s] \in {"copyID", "setChannelFree"} \cup Answering => message[s] = message[c]
  /\ pc[s] \in {"setChannelFree"} \cup Answering => replyTo[s] = k
  /\ pc[s] \in Answering => pc[c] \in Sent /\ iState[k] # "MSG_REPLIED"
  /\ pc[s] \in {"copyReply", "setReplied"} => iState[k] = "MSG_SENT"
  /\ pc[s] = "setReplied" => retVal[k] = message[c]

\* What the client prepares, and what it is answered.
ClientFollows(c, k) ==
  /\ pc[c] \in {"lockChannel", "testChannel", "waitChannel", "setWaiting", "setSent"}
       => sndMsg[k] = message[c]
  /\ pc[c] = "setSent" => msgWaiting = k
  /\ iState[k] = "MSG_REPLIED" => retVal[k] = message[c]
  /\ pc[c] = "setFree" => result[c] = retVal[k]

\* The inductive invariant of one client and one server.
Pair(c, s) ==
  LET k == ConnectionOf[c] IN
  /\ pc[c] \in ClientPlaces /\ pc[s] \in ServerPlaces
  /\ ConnectionFollows(c, k) /\ ChannelFollows(c, s, k)
  /\ ServerFollows(c, s, k) /\ ClientFollows(c, k)

\* The phase of the client's message, its reply, and what a step of the pair
\* makes of them.
Phase(c) == PhaseOf(c, ConnectionOf[c])
Answer(c) == IF iState[ConnectionOf[c]] = "MSG_REPLIED" THEN retVal[ConnectionOf[c]] ELSE result[c]
Stays(c) == Phase(c)' = Phase(c) /\ message'[c] = message[c] /\ Answer(c)' = Answer(c)
Turns(c, before, after) == Phase(c) = before /\ Phase(c)' = after
PairStep(c) ==
  \/ Stays(c)
  \/ /\ message[c][2] <= MaxSends /\ Turns(c, "none", "sent")
     /\ message'[c] = message[c] /\ Answer(c)' = Answer(c)
  \/ Turns(c, "sent", "received") /\ message'[c] = message[c] /\ Answer(c)' = Answer(c)
  \/ Turns(c, "received", "replied") /\ message'[c] = message[c] /\ Answer(c)' = message[c]
  \/ Turns(c, "replied", "none") /\ message'[c][2] = message[c][2] + 1 /\ Answer(c)' = Answer(c)

\* Where a step of c or of s goes.
LEMMA PairGoes ==
  ASSUME SInv, NEW t \in Threads, NEW q, GoTo(t, q)
  PROVE  pc'[t] = q /\ \A u \in Threads : u # t => pc'[u] = pc[u]
BY DEF SInv, GoTo

\* The places of the pair.
LEMMA PairPlaces ==
  ASSUME NEW c \in Clients, NEW s \in Servers
  PROVE  /\ c \in Threads /\ s \in Threads /\ c # s /\ s \notin Clients
         /\ ConnectionOf[c] \in Connections /\ ConnectionOf[c] \in Ends
         /\ Channel \in Ends /\ ConnectionOf[c] # Channel
BY SrrAssumption DEF Ends

\* The client goes on from p to q and changes nothing but its place.
LEMMA ClientMoves ==
  ASSUME SInv, NEW c \in Clients, NEW s \in Servers, Pair(c, s), NEW p, NEW q,
         pc[c] = p, GoTo(c, q), UNCHANGED srr, q \in ClientPlaces \ {"setSent", "setFree"},
         \A S \in {Preparing, Returned, Sent, {"notifyChannel", "unlockChannel", "setConnectionSent"}} :
           p \in S <=> q \in S,
         q = "takeResult" => iState[ConnectionOf[c]] = "MSG_REPLIED",
         q \in {"lockChannel", "testChannel", "waitChannel", "setWaiting"} =>
           p \in {"lockChannel", "testChannel", "waitChannel"}, p # "setFree"
  PROVE  Pair(c, s)' /\ PairStep(c)
<1> DEFINE k == ConnectionOf[c]
<1>1. /\ pc'[c] = q /\ pc'[s] = pc[s]
      /\ UNCHANGED <<iState, msgWaiting, sndMsg, retVal, message, replyTo, result>>
  BY PairPlaces, PairGoes DEF srr
<1>2. Pair(c, s)'
  <2>1. ConnectionFollows(c, k)'
    BY <1>1 DEF Pair, ConnectionFollows
  <2>2. ChannelFollows(c, s, k)'
    BY <1>1 DEF Pair, ChannelFollows
  <2>3. ServerFollows(c, s, k)'
    BY <1>1 DEF Pair, ServerFollows
  <2>4. ClientFollows(c, k)'
    BY <1>1 DEF Pair, ClientFollows
  <2> QED BY <1>1, <2>1, <2>2, <2>3, <2>4 DEF Pair
<1>3. Stays(c)
  BY <1>1 DEF Stays, Phase, PhaseOf, Answer
<1> QED BY <1>2, <1>3 DEF PairStep

\* The steps of msgSend that change nothing but the client's place.
LEMMA SendingMoves ==
  ASSUME SInv, NEW c \in Clients, NEW s \in Servers, Pair(c, s), NEW p, NEW q, Ready(c, p), GoTo(c, q),
         UNCHANGED srr,
         \/ p = "idle" /\ q = "testFree"
         \/ p = "testFree" /\ q = IF iState[ConnectionOf[c]] = "FREE" THEN "setMessage" ELSE "waitFree"
         \/ p = "waitFree" /\ q = "testFree"
         \/ p = "lockChannel" /\ q = "testChannel"
         \/ p = "testChannel" /\ q = IF iState[Channel] = "FREE" THEN "setWaiting" ELSE "waitChannel"
         \/ p = "waitChannel" /\ q = "testChannel"
         \/ p = "notifyChannel" /\ q = "unlockChannel"
         \/ p = "unlockChannel" /\ q = "setConnectionSent"
         \/ p = "notifyConnection" /\ q = "testReplied"
         \/ p = "testReplied" /\ q = IF iState[ConnectionOf[c]] = "MSG_REPLIED" THEN "takeResult" ELSE "waitReply"
         \/ p = "waitReply" /\ q = "testReplied"
         \/ p = "notifyFree" /\ q = "unlockConnection"
         \/ p = "unlockConnection" /\ q = "returned"
  PROVE  Pair(c, s)' /\ PairStep(c)
<1> USE DEF Preparing, Returned, Sent, ClientPlaces, ClientInConnection, ClientInBoth
<1>1. pc[c] = p
  BY DEF Ready
<1>2. q \in ClientPlaces \ {"setSent", "setFree"} /\ p # "setFree"
  OBVIOUS
<1>3. p \in Preparing <=> q \in Preparing
  OBVIOUS
<1>4. p \in Returned <=> q \in Returned
  OBVIOUS
<1>5. p \in Sent <=> q \in Sent
  OBVIOUS
<1>6. p \in {"notifyChannel", "unlockChannel", "setConnectionSent"} <=> q \in {"notifyChannel", "unlockChannel", "setConnectionSent"}
  OBVIOUS
<1>7. q = "takeResult" => iState[ConnectionOf[c]] = "MSG_REPLIED"
  OBVIOUS
<1>8. q \in {"lockChannel", "testChannel", "waitChannel", "setWaiting"} =>
           p \in {"lockChannel", "testChannel", "waitChannel"}
  OBVIOUS
<1> HIDE DEF Preparing, Returned, Sent, ClientPlaces, ClientInConnection, ClientInBoth
<1> QED BY <1>1, <1>2, <1>3, <1>4, <1>5, <1>6, <1>7, <1>8, ClientMoves

\* A step of msgSend.
LEMMA PairSends ==
  ASSUME SInv, NEW c \in Clients, NEW s \in Servers, Pair(c, s), MsgSend(c)
  PROVE  Pair(c, s)' /\ PairStep(c)
<1> DEFINE k == ConnectionOf[c]
<1>1. /\ c \in Threads /\ s \in Threads /\ c # s /\ s \notin Clients
      /\ k \in Connections /\ k \in Ends /\ Channel \in Ends /\ k # Channel
  BY PairPlaces
<1>2. DataTyped
  BY DEF SInv
<1>3. pc[s] \in ServerPlaces /\ ServerPlaces \subseteq Quiet \cup Taking \cup Answering
  BY DEF Pair, ServerPlaces, ServerInChannel, ServerInConnection, Quiet, Taking, Answering
<1>4. ASSUME NEW p, NEW q, NEW e, \/ LockStep(c, p, e, q) \/ WaitStep(c, p, e, q)
                                  \/ NotifyStep(c, p, e, q) \/ UnlockStep(c, p, e, q)
      PROVE  Ready(c, p) /\ GoTo(c, q) /\ UNCHANGED srr
  BY <1>4 DEF LockStep, WaitStep, NotifyStep, UnlockStep
<1>5. ASSUME NEW p, NEW q, NEW e, NEW x, NEW wait, TestStep(c, p, e, x, wait, q)
      PROVE  Ready(c, p) /\ GoTo(c, IF iState[e] = x THEN q ELSE wait) /\ UNCHANGED srr
  BY <1>5 DEF TestStep
<1>6. CASE \/ LockStep(c, "idle", k, "testFree")
           \/ WaitStep(c, "waitFree", k, "testFree")
           \/ LockStep(c, "lockChannel", Channel, "testChannel")
           \/ WaitStep(c, "waitChannel", Channel, "testChannel")
           \/ NotifyStep(c, "notifyChannel", Channel, "unlockChannel")
           \/ UnlockStep(c, "unlockChannel", Channel, "setConnectionSent")
           \/ NotifyStep(c, "notifyConnection", k, "testReplied")
           \/ WaitStep(c, "waitReply", k, "testReplied")
           \/ NotifyStep(c, "notifyFree", k, "unlockConnection")
           \/ UnlockStep(c, "unlockConnection", k, "returned")
  BY <1>4, <1>6, SendingMoves
<1>7. CASE TestStep(c, "testFree", k, "FREE", "waitFree", "setMessage")
  BY <1>5, <1>7, SendingMoves
<1>8. CASE TestStep(c, "testChannel", Channel, "FREE", "waitChannel", "setWaiting")
  BY <1>5, <1>8, SendingMoves
<1>9. CASE TestStep(c, "testReplied", k, "MSG_REPLIED", "waitReply", "takeResult")
  BY <1>5, <1>9, SendingMoves
<1> USE DEF Preparing, Returned, Sent, Quiet, Taking, Answering, ClientPlaces,
            ClientInConnection, ClientInBoth
\* sndMsg_ = message.
<1>10. CASE SetMessage(c, k)
  <2>1. /\ pc[c] = "setMessage" /\ pc'[c] = "lockChannel" /\ pc'[s] = pc[s]
        /\ sndMsg'[k] = message[c]
        /\ UNCHANGED <<iState, msgWaiting, retVal, message, replyTo, result>>
    BY <1>1, <1>2, <1>10, PairGoes DEF SetMessage, Ready, DataTyped
  <2>2. Pair(c, s)'
    BY <2>1 DEF Pair, ConnectionFollows, ChannelFollows, ServerFollows, ClientFollows
  <2>3. Stays(c)
    BY <2>1 DEF Stays, Phase, PhaseOf, Answer
  <2> QED BY <2>2, <2>3 DEF PairStep
\* pMsgWaiting_ = the connection.
<1>11. CASE SetWaiting(c, k)
  <2>1. /\ pc[c] = "setWaiting" /\ pc'[c] = "setSent" /\ pc'[s] = pc[s]
        /\ msgWaiting' = k
        /\ UNCHANGED <<iState, sndMsg, retVal, message, replyTo, result>>
    BY <1>1, <1>11, PairGoes DEF SetWaiting, Ready
  <2>2. Pair(c, s)'
    BY <2>1 DEF Pair, ConnectionFollows, ChannelFollows, ServerFollows, ClientFollows
  <2>3. Stays(c)
    BY <2>1 DEF Stays, Phase, PhaseOf, Answer
  <2> QED BY <2>2, <2>3 DEF PairStep
\* The channel has the message: it is sent.
<1>12. CASE StateStep(c, "setSent", Channel, "MSG_SENT", "notifyChannel")
  <2>1. /\ pc[c] = "setSent" /\ pc'[c] = "notifyChannel" /\ pc'[s] = pc[s]
        /\ iState'[Channel] = "MSG_SENT" /\ iState'[k] = iState[k]
        /\ UNCHANGED <<msgWaiting, sndMsg, retVal, message, replyTo, result>>
    BY <1>1, <1>2, <1>12, PairGoes DEF StateStep, Ready, DataTyped
  <2>2. Pair(c, s)'
    <3>1. ConnectionFollows(c, k)' /\ ClientFollows(c, k)'
      BY <2>1 DEF Pair, ConnectionFollows, ClientFollows
    <3>2. ChannelFollows(c, s, k)' /\ ServerFollows(c, s, k)'
      BY <1>3, <2>1 DEF Pair, ConnectionFollows, ChannelFollows, ServerFollows, ClientFollows
    <3> QED BY <2>1, <3>1, <3>2 DEF Pair
  <2>3. message[c][2] <= MaxSends
    BY <1>1, <2>1 DEF SInv, Local, Fits
  <2>4. Turns(c, "none", "sent") /\ Answer(c)' = Answer(c)
    BY <2>1 DEF Turns, Phase, PhaseOf, Answer, Pair, ConnectionFollows, ClientFollows
  <2> QED BY <2>1, <2>2, <2>3, <2>4 DEF PairStep
\* The connection waits for the reply.
<1>13. CASE StateStep(c, "setConnectionSent", k, "MSG_SENT", "notifyConnection")
  <2>1. /\ pc[c] = "setConnectionSent" /\ pc'[c] = "notifyConnection" /\ pc'[s] = pc[s]
        /\ iState'[Channel] = iState[Channel] /\ iState'[k] = "MSG_SENT"
        /\ UNCHANGED <<msgWaiting, sndMsg, retVal, message, replyTo, result>>
    BY <1>1, <1>2, <1>13, PairGoes DEF StateStep, Ready, DataTyped
  <2>2. Pair(c, s)'
    BY <2>1 DEF Pair, ConnectionFollows, ChannelFollows, ServerFollows, ClientFollows
  <2>3. Stays(c)
    BY <2>1 DEF Stays, Phase, PhaseOf, Answer, Pair, ConnectionFollows
  <2> QED BY <2>2, <2>3 DEF PairStep
\* The client takes the reply.
<1>14. CASE TakeResult(c, k)
  <2>1. /\ pc[c] = "takeResult" /\ pc'[c] = "setFree" /\ pc'[s] = pc[s]
        /\ result'[c] = retVal[k]
        /\ UNCHANGED <<iState, msgWaiting, sndMsg, retVal, message, replyTo>>
    BY <1>1, <1>2, <1>14, PairGoes DEF TakeResult, Ready, DataTyped
  <2>2. iState[k] = "MSG_REPLIED"
    BY <2>1 DEF Pair, ConnectionFollows
  <2>3. Pair(c, s)'
    BY <2>1, <2>2 DEF Pair, ConnectionFollows, ChannelFollows, ServerFollows, ClientFollows
  <2>4. Stays(c)
    BY <2>1, <2>2 DEF Stays, Phase, PhaseOf, Answer
  <2> QED BY <2>3, <2>4 DEF PairStep
\* The connection is free for the next message.
<1>15. CASE StateStep(c, "setFree", k, "FREE", "notifyFree")
  <2>1. /\ pc[c] = "setFree" /\ pc'[c] = "notifyFree" /\ pc'[s] = pc[s]
        /\ iState'[Channel] = iState[Channel] /\ iState'[k] = "FREE"
        /\ UNCHANGED <<msgWaiting, sndMsg, retVal, message, replyTo, result>>
    BY <1>1, <1>2, <1>15, PairGoes DEF StateStep, Ready, DataTyped
  <2>2. iState[k] = "MSG_REPLIED" /\ result[c] = retVal[k]
    BY <2>1 DEF Pair, ConnectionFollows, ClientFollows
  <2>3. Pair(c, s)'
    BY <2>1, <2>2 DEF Pair, ConnectionFollows, ChannelFollows, ServerFollows, ClientFollows
  <2>4. Stays(c)
    BY <2>1, <2>2 DEF Stays, Phase, PhaseOf, Answer
  <2> QED BY <2>3, <2>4 DEF PairStep
\* msgSend returns.
<1>16. CASE SendReturns(c)
  <2>1. /\ pc[c] = "returned" /\ pc'[c] = "idle" /\ pc'[s] = pc[s]
        /\ message'[c] = <<c, message[c][2] + 1>> /\ message'[s] = message[s]
        /\ UNCHANGED <<iState, msgWaiting, sndMsg, retVal, replyTo, result>>
    BY <1>1, <1>2, <1>16, PairGoes DEF SendReturns, Ready, DataTyped
  <2>2. iState[k] = "FREE" /\ iState[Channel] # "MSG_SENT" /\ pc[s] \in Quiet
    BY <1>3, <2>1 DEF Pair, ConnectionFollows, ChannelFollows, ServerFollows
  <2>3. Pair(c, s)'
    BY <2>1, <2>2 DEF Pair, ConnectionFollows, ChannelFollows, ServerFollows, ClientFollows
  <2>4. Turns(c, "replied", "none") /\ Answer(c)' = Answer(c) /\ message'[c][2] = message[c][2] + 1
    BY <2>1, <2>2 DEF Turns, Phase, PhaseOf, Answer
  <2> QED BY <2>3, <2>4 DEF PairStep
<1> HIDE DEF Preparing, Returned, Sent, Quiet, Taking, Answering, ClientPlaces,
             ClientInConnection, ClientInBoth
<1> QED BY <1>6, <1>7, <1>8, <1>9, <1>10, <1>11, <1>12, <1>13, <1>14, <1>15, <1>16 DEF MsgSend

\* The server goes on from p to q and changes nothing but its place.
LEMMA ServerMoves ==
  ASSUME SInv, NEW c \in Clients, NEW s \in Servers, Pair(c, s), NEW p, NEW q,
         Ready(s, p), GoTo(s, q), UNCHANGED srr,
         \/ p = "idle" /\ q = "testSent"
         \/ p = "testSent" /\ q = IF iState[Channel] = "MSG_SENT" THEN "copyMessage" ELSE "waitSent"
         \/ p = "waitSent" /\ q = "testSent"
         \/ p = "notifyTaken" /\ q = "unlockTaken"
         \/ p = "unlockTaken" /\ q = "lockConnection"
         \/ p = "lockConnection" /\ q = "testAsked"
         \/ p = "testAsked" /\ q = IF iState[replyTo[s]] = "MSG_SENT" THEN "copyReply" ELSE "unlockReply"
         \/ p = "notifyReplied" /\ q = "unlockReply"
         \/ p = "unlockReply" /\ q = "idle"
  PROVE  Pair(c, s)' /\ PairStep(c)
<1> DEFINE k == ConnectionOf[c]
<1>1. /\ pc[s] = p /\ pc'[s] = q /\ pc'[c] = pc[c]
      /\ UNCHANGED <<iState, msgWaiting, sndMsg, retVal, message, replyTo, result>>
  BY PairPlaces, PairGoes DEF srr, Ready
<1> USE DEF Quiet, Taking, Answering, ServerPlaces, ServerInChannel, ServerInConnection
<1>2. Pair(c, s)'
  <2>1. ConnectionFollows(c, k)' /\ ClientFollows(c, k)'
    BY <1>1 DEF Pair, ConnectionFollows, ClientFollows
  <2>2. ChannelFollows(c, s, k)'
    BY <1>1 DEF Pair, ChannelFollows
  <2>3. ServerFollows(c, s, k)'
    BY <1>1 DEF Pair, ServerFollows
  <2>4. pc'[s] \in ServerPlaces
    BY <1>1
  <2> QED BY <1>1, <2>1, <2>2, <2>3, <2>4 DEF Pair
<1>3. Stays(c)
  BY <1>1 DEF Stays, Phase, PhaseOf, Answer
<1> QED BY <1>2, <1>3 DEF PairStep

\* A step of msgReceive.
LEMMA PairReceives ==
  ASSUME SInv, NEW c \in Clients, NEW s \in Servers, Pair(c, s), MsgReceive(s)
  PROVE  Pair(c, s)' /\ PairStep(c)
<1> DEFINE k == ConnectionOf[c]
<1>1. /\ c \in Threads /\ s \in Threads /\ c # s /\ s \notin Clients
      /\ k \in Connections /\ k \in Ends /\ Channel \in Ends /\ k # Channel
  BY PairPlaces
<1>2. DataTyped
  BY DEF SInv
<1>3. ASSUME NEW p, NEW q, NEW e, \/ LockStep(s, p, e, q) \/ WaitStep(s, p, e, q)
                                  \/ NotifyStep(s, p, e, q) \/ UnlockStep(s, p, e, q)
      PROVE  Ready(s, p) /\ GoTo(s, q) /\ UNCHANGED srr
  BY <1>3 DEF LockStep, WaitStep, NotifyStep, UnlockStep
<1>4. CASE \/ LockStep(s, "idle", Channel, "testSent")
           \/ WaitStep(s, "waitSent", Channel, "testSent")
           \/ NotifyStep(s, "notifyTaken", Channel, "unlockTaken")
           \/ UnlockStep(s, "unlockTaken", Channel, "lockConnection")
  BY <1>3, <1>4, ServerMoves
<1>5. CASE TestStep(s, "testSent", Channel, "MSG_SENT", "waitSent", "copyMessage")
  <2>1. /\ Ready(s, "testSent") /\ UNCHANGED srr
        /\ GoTo(s, IF iState[Channel] = "MSG_SENT" THEN "copyMessage" ELSE "waitSent")
    BY <1>5 DEF TestStep
  <2> QED BY <2>1, ServerMoves
<1> USE DEF Quiet, Taking, Answering, ServerPlaces, ServerInChannel, ServerInConnection
\* The server copies the message.
<1>6. CASE CopyMessage(s)
  <2>1. /\ pc[s] = "copyMessage" /\ pc'[s] = "copyID" /\ pc'[c] = pc[c]
        /\ message'[s] = sndMsg[msgWaiting] /\ message'[c] = message[c]
        /\ UNCHANGED <<iState, msgWaiting, sndMsg, retVal, replyTo, result>>
    BY <1>1, <1>2, <1>6, PairGoes DEF CopyMessage, Ready, DataTyped
  <2>2. iState[Channel] = "MSG_SENT" /\ msgWaiting = k /\ sndMsg[k] = message[c]
    BY <2>1 DEF Pair, ServerFollows, ChannelFollows
  <2>3. Pair(c, s)'
    BY <2>1, <2>2 DEF Pair, ConnectionFollows, ChannelFollows, ServerFollows, ClientFollows
  <2>4. Stays(c)
    BY <2>1 DEF Stays, Phase, PhaseOf, Answer
  <2> QED BY <2>3, <2>4 DEF PairStep
\* The server copies the receive id.
<1>7. CASE CopyID(s)
  <2>1. /\ pc[s] = "copyID" /\ pc'[s] = "setChannelFree" /\ pc'[c] = pc[c]
        /\ replyTo'[s] = msgWaiting
        /\ UNCHANGED <<iState, msgWaiting, sndMsg, retVal, message, result>>
    BY <1>1, <1>2, <1>7, PairGoes DEF CopyID, Ready, DataTyped
  <2>2. iState[Channel] = "MSG_SENT" /\ msgWaiting = k
    BY <2>1 DEF Pair, ServerFollows, ChannelFollows
  <2>3. Pair(c, s)'
    BY <2>1, <2>2 DEF Pair, ConnectionFollows, ChannelFollows, ServerFollows, ClientFollows
  <2>4. Stays(c)
    BY <2>1 DEF Stays, Phase, PhaseOf, Answer
  <2> QED BY <2>3, <2>4 DEF PairStep
\* The channel is free: the message is received.
<1>8. CASE StateStep(s, "setChannelFree", Channel, "FREE", "notifyTaken")
  <2>1. /\ pc[s] = "setChannelFree" /\ pc'[s] = "notifyTaken" /\ pc'[c] = pc[c]
        /\ iState'[Channel] = "FREE" /\ iState'[k] = iState[k]
        /\ UNCHANGED <<msgWaiting, sndMsg, retVal, message, replyTo, result>>
    BY <1>1, <1>2, <1>8, PairGoes DEF StateStep, Ready, DataTyped
  <2>2. /\ iState[Channel] = "MSG_SENT" /\ msgWaiting = k
        /\ pc[c] \in Sent /\ pc[c] \notin Returned /\ iState[k] # "MSG_REPLIED"
    BY <2>1 DEF Pair, ServerFollows, ChannelFollows, Sent, Returned
  <2>3. Pair(c, s)'
    BY <2>1, <2>2 DEF Pair, ConnectionFollows, ChannelFollows, ServerFollows, ClientFollows
  <2>4. Turns(c, "sent", "received") /\ Answer(c)' = Answer(c)
    BY <2>1, <2>2 DEF Turns, Phase, PhaseOf, Answer
  <2> QED BY <2>1, <2>3, <2>4 DEF PairStep
<1> QED BY <1>4, <1>5, <1>6, <1>7, <1>8 DEF MsgReceive

\* A step of msgReply.
LEMMA PairReplies ==
  ASSUME SInv, NEW c \in Clients, NEW s \in Servers, Pair(c, s), MsgReply(s)
  PROVE  Pair(c, s)' /\ PairStep(c)
<1> DEFINE k == ConnectionOf[c]
           e == replyTo[s]
<1>1. /\ c \in Threads /\ s \in Threads /\ c # s /\ s \notin Clients
      /\ k \in Connections /\ k \in Ends /\ Channel \in Ends /\ k # Channel
  BY PairPlaces
<1>2. DataTyped
  BY DEF SInv
<1>3. CASE \/ LockStep(s, "lockConnection", e, "testAsked")
           \/ NotifyStep(s, "notifyReplied", e, "unlockReply")
           \/ UnlockStep(s, "unlockReply", e, "idle")
  <2>1. ASSUME NEW p, NEW q, \/ LockStep(s, p, e, q) \/ NotifyStep(s, p, e, q) \/ UnlockStep(s, p, e, q)
        PROVE  Ready(s, p) /\ GoTo(s, q) /\ UNCHANGED srr
    BY <2>1 DEF LockStep, NotifyStep, UnlockStep
  <2> QED BY <1>3, <2>1, ServerMoves
<1>4. CASE TestStep(s, "testAsked", e, "MSG_SENT", "unlockReply", "copyReply")
  <2>1. /\ Ready(s, "testAsked") /\ UNCHANGED srr
        /\ GoTo(s, IF iState[e] = "MSG_SENT" THEN "copyReply" ELSE "unlockReply")
    BY <1>4 DEF TestStep
  <2> QED BY <2>1, ServerMoves
<1> USE DEF Quiet, Taking, Answering, ServerPlaces, ServerInChannel, ServerInConnection
\* iRetVal_ = the status.
<1>5. CASE CopyReply(s, e)
  <2>1. /\ pc[s] = "copyReply" /\ pc'[s] = "setReplied" /\ pc'[c] = pc[c]
        /\ UNCHANGED <<iState, msgWaiting, sndMsg, message, replyTo, result>>
    BY <1>1, <1>5, PairGoes DEF CopyReply, Ready
  <2>2. e = k /\ message[s] = message[c] /\ iState[k] = "MSG_SENT"
    BY <2>1 DEF Pair, ServerFollows
  <2>3. retVal'[k] = message[c]
    BY <1>1, <1>2, <1>5, <2>2 DEF CopyReply, DataTyped
  <2>4. pc[c] # "setFree"
    BY <2>2 DEF Pair, ConnectionFollows
  <2>5. Pair(c, s)'
    BY <2>1, <2>2, <2>3, <2>4 DEF Pair, ConnectionFollows, ChannelFollows, ServerFollows, ClientFollows
  <2>6. Stays(c)
    BY <2>1, <2>2 DEF Stays, Phase, PhaseOf, Answer
  <2> QED BY <2>5, <2>6 DEF PairStep
\* The client has its reply.
<1>6. CASE StateStep(s, "setReplied", e, "MSG_REPLIED", "notifyReplied")
  <2>1. /\ pc[s] = "setReplied" /\ pc'[s] = "notifyReplied" /\ pc'[c] = pc[c]
        /\ UNCHANGED <<msgWaiting, sndMsg, retVal, message, replyTo, result>>
    BY <1>1, <1>6, PairGoes DEF StateStep, Ready
  <2>2. /\ e = k /\ iState[k] = "MSG_SENT" /\ retVal[k] = message[c]
        /\ iState[Channel] # "MSG_SENT" /\ pc[c] \in Sent
    BY <2>1 DEF Pair, ServerFollows, ChannelFollows
  <2>3. iState'[k] = "MSG_REPLIED" /\ iState'[Channel] = iState[Channel]
    BY <1>1, <1>2, <1>6, <2>2 DEF StateStep, DataTyped
  <2>4. pc[c] \in {"notifyConnection", "testReplied", "waitReply"}
    BY <2>2 DEF Pair, ConnectionFollows, Sent
  <2>5. pc[c] \notin Preparing \cup Returned \cup {"notifyChannel", "unlockChannel", "setConnectionSent"}
    BY <2>4 DEF Preparing, Returned
  <2>6. Pair(c, s)'
    BY <2>1, <2>2, <2>3, <2>4, <2>5 DEF Pair, ConnectionFollows, ChannelFollows, ServerFollows, ClientFollows
  <2>7. Turns(c, "received", "replied") /\ Answer(c)' = message[c]
    BY <2>1, <2>2, <2>3, <2>5 DEF Turns, Phase, PhaseOf, Answer
  <2> QED BY <2>1, <2>6, <2>7 DEF PairStep
<1> QED BY <1>3, <1>4, <1>5, <1>6 DEF MsgReply

\* Every step of a program of one client and one server keeps the invariant of
\* the pair and is a step of the rendezvous or none.
LEMMA PairInvariant ==
  ASSUME NEW c, NEW s, Clients = {c}, Servers = {s}
  PROVE  /\ SInit => Pair(c, s)
         /\ SInv /\ Pair(c, s) /\ [SNext]_svars => Pair(c, s)' /\ PairStep(c)
<1>1. c \in Clients /\ s \in Servers /\ Threads = {c, s}
  BY SrrAssumption
<1>2. ASSUME SInit PROVE Pair(c, s)
  <2>1. /\ pc[c] = "idle" /\ pc[s] = "idle" /\ iState[Channel] = "FREE" /\ iState[ConnectionOf[c]] = "FREE"
    BY <1>1, <1>2, PairPlaces DEF SInit
  <2> QED BY <2>1 DEF Pair, ConnectionFollows, ChannelFollows, ServerFollows, ClientFollows, Preparing,
             Taking, Answering, ClientPlaces, ServerPlaces
<1>3. ASSUME SInv, Pair(c, s), [SNext]_svars PROVE Pair(c, s)' /\ PairStep(c)
  <2>1. CASE UNCHANGED <<pc, srr>>
    <3>1. Pair(c, s)'
      BY <1>3, <2>1 DEF srr, Pair, ConnectionFollows, ChannelFollows, ServerFollows, ClientFollows
    <3>2. Stays(c)
      BY <2>1 DEF srr, Stays, Phase, PhaseOf, Answer
    <3> QED BY <3>1, <3>2 DEF PairStep
  <2>2. CASE MsgSend(c)
    BY <1>1, <1>3, <2>2, PairSends
  <2>3. CASE MsgReceive(s)
    BY <1>1, <1>3, <2>3, PairReceives
  <2>4. CASE MsgReply(s)
    BY <1>1, <1>3, <2>4, PairReplies
  <2> QED BY <1>1, <1>3, <2>1, <2>2, <2>3, <2>4 DEF SNext, InPthread, svars
<1> QED BY <1>2, <1>3

\* A step of the pair is a step of the abstract specification.
LEMMA PairStepIsRendezvous ==
  ASSUME NEW c, Clients = {c}, SInv, PairStep(c)
  PROVE  [Rendezvous!RNext]_Rendezvous!rendezvous
<1>1. c \in Clients
  OBVIOUS
<1>2. message[c] = <<c, message[c][2]>>
  <2>1. c \in Threads /\ message[c] \in Messages
    BY <1>1, SrrAssumption DEF SInv, Local, Fits
  <2> QED BY <2>1 DEF Messages
<1> DEFINE phase == [t \in Clients |-> PhaseOf(t, ConnectionOf[t])]
           number == [t \in Clients |-> message[t][2]]
           reply == [t \in Clients |-> IF iState[ConnectionOf[t]] = "MSG_REPLIED"
                                       THEN retVal[ConnectionOf[t]] ELSE result[t]]
<1>3. phase = [t \in {c} |-> Phase(c)] /\ phase' = [t \in {c} |-> Phase(c)']
  BY DEF Phase
<1>4. reply = [t \in {c} |-> Answer(c)] /\ reply' = [t \in {c} |-> Answer(c)']
  BY DEF Answer
<1>5. number = [t \in {c} |-> message[c][2]] /\ number' = [t \in {c} |-> message'[c][2]]
  OBVIOUS
<1>6. ASSUME NEW f, NEW x, NEW y, f = [t \in {c} |-> x]
      PROVE  [f EXCEPT ![c] = y] = [t \in {c} |-> y] /\ f[c] = x
  BY <1>6
<1> HIDE DEF phase, number, reply
<1>7. CASE Stays(c)
  BY <1>3, <1>4, <1>5, <1>7 DEF Stays, Rendezvous!rendezvous, phase, number, reply
<1>8. ASSUME NEW before, NEW after, Turns(c, before, after)
      PROVE  Rendezvous!Becomes(c, before, after)
  <2>1. phase[c] = before /\ phase' = [phase EXCEPT ![c] = after]
    BY <1>3, <1>6, <1>8 DEF Turns
  <2> QED BY <2>1 DEF Rendezvous!Becomes, phase
<1>9. CASE message[c][2] <= MaxSends /\ Turns(c, "none", "sent") /\ message'[c] = message[c] /\ Answer(c)' = Answer(c)
  <2>1. number[c] <= MaxSends /\ UNCHANGED <<number, reply>>
    BY <1>4, <1>5, <1>9
  <2> QED BY <1>1, <1>8, <1>9, <2>1 DEF Rendezvous!RNext, Rendezvous!Send, number, reply
<1>10. CASE Turns(c, "sent", "received") /\ message'[c] = message[c] /\ Answer(c)' = Answer(c)
  <2>1. UNCHANGED <<number, reply>>
    BY <1>4, <1>5, <1>10
  <2> QED BY <1>1, <1>8, <1>10, <2>1 DEF Rendezvous!RNext, Rendezvous!Receive, number, reply
<1>11. CASE Turns(c, "received", "replied") /\ message'[c] = message[c] /\ Answer(c)' = message[c]
  <2>1. UNCHANGED number /\ reply' = [reply EXCEPT ![c] = <<c, number[c]>>]
    BY <1>2, <1>4, <1>5, <1>6, <1>11
  <2> QED BY <1>1, <1>8, <1>11, <2>1 DEF Rendezvous!RNext, Rendezvous!Reply, number, reply
<1>12. CASE Turns(c, "replied", "none") /\ message'[c][2] = message[c][2] + 1 /\ Answer(c)' = Answer(c)
  <2>1. UNCHANGED reply /\ number' = [number EXCEPT ![c] = number[c] + 1]
    BY <1>4, <1>5, <1>6, <1>12
  <2> QED BY <1>1, <1>8, <1>12, <2>1 DEF Rendezvous!RNext, Rendezvous!Return, number, reply
<1> QED BY <1>7, <1>9, <1>10, <1>11, <1>12 DEF PairStep

\* A client and a server meet as SendReceiveReply has it (srrConnection.cpp,
\* srrChannel.cpp): each message is received once and answered with its own
\* reply, which is what msgSend returns, before the client sends another.
THEOREM PairImplementsRendezvous ==
  ASSUME NEW c, NEW s, Clients = {c}, Servers = {s}
  PROVE  SSpec => ImplementsRendezvous
<1>1. SInit => Rendezvous!RInit
  <2> SUFFICES ASSUME SInit PROVE Rendezvous!RInit
    OBVIOUS
  <2>1. c \in Clients /\ c \in Threads /\ ConnectionOf[c] \in Ends
    BY SrrAssumption DEF Ends
  <2>2. pc[c] = "idle" /\ iState[ConnectionOf[c]] = "FREE" /\ message[c] = <<c, 1>> /\ result[c] = Null
    BY <2>1 DEF SInit
  <2>3. PhaseOf(c, ConnectionOf[c]) = "none"
    BY <2>2 DEF PhaseOf, Returned, Sent
  <2> QED BY <2>1, <2>2, <2>3 DEF Rendezvous!RInit
<1>2. SInv /\ Pair(c, s) /\ [SNext]_svars => Pair(c, s)' /\ [Rendezvous!RNext]_Rendezvous!rendezvous
  BY PairInvariant, PairStepIsRendezvous
<1>3. SInit => Pair(c, s)
  BY PairInvariant
<1> QED BY <1>1, <1>2, <1>3, SrrInvariance, PTL DEF SSpec, ImplementsRendezvous, Rendezvous!RSpec
==============================================================================
