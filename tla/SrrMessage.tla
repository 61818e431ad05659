------------------------------ MODULE SrrMessage ------------------------------
(***************************************************************************)
(* Send-receive-reply messages: CConnectionUser (kernel/srrConnection.cpp) *)
(* and CChannelUser (kernel/srrChannel.cpp), one channel with any number   *)
(* of connections to it.                                                   *)
(*                                                                         *)
(* A client thread calls msgSend on its connection again and again, a      *)
(* server thread calls msgReceive on the channel and then msgReply with    *)
(* the receive id it got.  The kernel can be preempted wherever interrupts *)
(* are on, so a step is one pthread call or one access to the shared       *)
(* state; pc is the place in the function a thread has reached.            *)
(* Connections stay connected: disconnect, which the deletion of the       *)
(* connection follows, is left out, and with it the branches for a NULL    *)
(* channel_.  Definitions whose comments begin with "Wrong:" are slips in  *)
(* the ones they precede, as in module TaskManager.                        *)
(***************************************************************************)
EXTENDS Locks, FiniteSets

CONSTANTS Clients, Servers,    \* the threads, by what they do
          Connections,         \* the CConnectionUser objects
          ConnectionOf,        \* the connection a client sends on
          Channel,             \* the CChannelUser object
          MutexOf, CondOf,     \* mutex_ and stateCond_ of each object
          MaxSends             \* bound: messages a client sends

Ends == Connections \cup {Channel}

ASSUME SrrAssumption ==
  /\ Threads = Clients \cup Servers /\ Clients \cap Servers = {}
  /\ ConnectionOf \in [Clients -> Connections]
  /\ Channel \notin Connections /\ Null \notin Ends
  /\ MutexOf \in [Ends -> Mutexes] /\ CondOf \in [Ends -> Conds]
  /\ IsInjective(MutexOf) /\ IsInjective(CondOf)
  /\ MaxSends \in Nat

VARIABLES pc,
          iState,       \* iState_ of the channel and of the connections
          msgWaiting,   \* CChannelUser::pMsgWaiting_
          sndMsg,       \* the message at CConnectionUser::pSndMsg_
          retVal,       \* CConnectionUser::iRetVal_, the reply
          message,      \* client: the message it sends; server: its pRcvMsg
          replyTo,      \* server: the receive id, that is the connection
          result        \* client: what its last msgSend returned

srr == <<iState, msgWaiting, sndMsg, retVal, message, replyTo, result>>
svars == <<locks, pc, srr>>

\* A client numbers its messages.
Messages == Clients \X (1 .. MaxSends + 1)

SInit ==
  /\ LInit
  /\ pc = [t \in Threads |-> "idle"]
  /\ iState = [e \in Ends |-> "FREE"]
  /\ msgWaiting = Null
  /\ sndMsg = [k \in Connections |-> Null]
  /\ retVal = [k \in Connections |-> Null]
  /\ message = [t \in Threads |-> IF t \in Clients THEN <<t, 1>> ELSE Null]
  /\ replyTo = [r \in Servers |-> Null]
  /\ result = [t \in Clients |-> Null]

-----------------------------------------------------------------------------
(* The shapes of the steps.                                                *)

\* t is outside the pthread calls and at place p.
Ready(t, p) == Here(t, "client") /\ pc[t] = p
GoTo(t, p) == pc' = [pc EXCEPT ![t] = p]

\* k_pthread_mutex_lock(&mutex_), k_pthread_mutex_unlock(&mutex_) and
\* k_pthread_cond_broadcast(&stateCond_) of object e.
LockStep(t, p, e, q) ==
  Ready(t, p) /\ Lock(t, MutexOf[e]) /\ GoTo(t, q) /\ UNCHANGED srr

\* Wrong: connections are left locked.
UnlockStepChannel(t, p, e, q) ==
  /\ Ready(t, p) /\ GoTo(t, q) /\ UNCHANGED srr
  /\ IF e # Channel THEN UNCHANGED locks ELSE Unlock(t, MutexOf[e])

UnlockStep(t, p, e, q) ==
  Ready(t, p) /\ Unlock(t, MutexOf[e]) /\ GoTo(t, q) /\ UNCHANGED srr

NotifyStep(t, p, e, q) ==
  Ready(t, p) /\ Notify(CondOf[e], 0) /\ GoTo(t, q) /\ UNCHANGED srr

\* while(iState_ != s) k_pthread_cond_wait(&stateCond_, &mutex_): the test at
\* place p, and the wait, after which the test comes again.
TestStep(t, p, e, s, wait, q) ==
  /\ Ready(t, p)
  /\ GoTo(t, IF iState[e] = s THEN q ELSE wait)
  /\ UNCHANGED <<locks, srr>>
WaitStep(t, wait, e, p) ==
  /\ Ready(t, wait)
  /\ CondWait(t, CondOf[e], MutexOf[e], 0)
  /\ GoTo(t, p)
  /\ UNCHANGED srr

\* iState_ = s in object e.
StateStep(t, p, e, s, q) ==
  /\ Ready(t, p)
  /\ iState' = [iState EXCEPT ![e] = s]
  /\ GoTo(t, q)
  /\ UNCHANGED <<locks, msgWaiting, sndMsg, retVal, message, replyTo, result>>

-----------------------------------------------------------------------------
(* CConnectionUser::msgSend on connection k by client t, with the          *)
(* CChannelUser::msgSend it calls.                                         *)

SetMessage(t, k) ==
  /\ Ready(t, "setMessage")
  /\ sndMsg' = [sndMsg EXCEPT ![k] = message[t]]
  /\ GoTo(t, "lockChannel")
  /\ UNCHANGED <<locks, iState, msgWaiting, retVal, message, replyTo, result>>

SetWaiting(t, k) ==
  /\ Ready(t, "setWaiting")
  /\ msgWaiting' = k
  /\ GoTo(t, "setSent")
  /\ UNCHANGED <<locks, iState, sndMsg, retVal, message, replyTo, result>>

TakeResult(t, k) ==
  /\ Ready(t, "takeResult")
  /\ result' = [result EXCEPT ![t] = retVal[k]]
  /\ GoTo(t, "setFree")
  /\ UNCHANGED <<locks, iState, msgWaiting, sndMsg, retVal, message, replyTo>>

\* msgSend returns, and the client prepares its next message.
SendReturns(t) ==
  /\ Ready(t, "returned")
  /\ message' = [message EXCEPT ![t] = <<t, message[t][2] + 1>>]
  /\ GoTo(t, "idle")
  /\ UNCHANGED <<locks, iState, msgWaiting, sndMsg, retVal, replyTo, result>>

MsgSend(t) ==
  LET k == ConnectionOf[t] IN
  \/ message[t][2] <= MaxSends /\ LockStep(t, "idle", k, "testFree")
  \/ TestStep(t, "testFree", k, "FREE", "waitFree", "setMessage")
  \/ WaitStep(t, "waitFree", k, "testFree")
  \/ SetMessage(t, k)
  \/ LockStep(t, "lockChannel", Channel, "testChannel")
  \/ TestStep(t, "testChannel", Channel, "FREE", "waitChannel", "setWaiting")
  \/ WaitStep(t, "waitChannel", Channel, "testChannel")
  \/ SetWaiting(t, k)
  \/ StateStep(t, "setSent", Channel, "MSG_SENT", "notifyChannel")
  \/ NotifyStep(t, "notifyChannel", Channel, "unlockChannel")
  \/ UnlockStep(t, "unlockChannel", Channel, "setConnectionSent")
  \/ StateStep(t, "setConnectionSent", k, "MSG_SENT", "notifyConnection")
  \/ NotifyStep(t, "notifyConnection", k, "testReplied")
  \/ TestStep(t, "testReplied", k, "MSG_REPLIED", "waitReply", "takeResult")
  \/ WaitStep(t, "waitReply", k, "testReplied")
  \/ TakeResult(t, k)
  \/ StateStep(t, "setFree", k, "FREE", "notifyFree")
  \/ NotifyStep(t, "notifyFree", k, "unlockConnection")
  \/ UnlockStep(t, "unlockConnection", k, "returned")
  \/ SendReturns(t)

-----------------------------------------------------------------------------
(* CChannelUser::msgReceive by server t.                                   *)

CopyMessage(t) ==
  /\ Ready(t, "copyMessage")
  /\ message' = [message EXCEPT ![t] = sndMsg[msgWaiting]]
  /\ GoTo(t, "copyID")
  /\ UNCHANGED <<locks, iState, msgWaiting, sndMsg, retVal, replyTo, result>>

\* Wrong: the receiver gets the client's message number for a receive id.
CopyIDOfMessage(t) ==
  /\ Ready(t, "copyID")
  /\ replyTo' = [replyTo EXCEPT ![t] = sndMsg[msgWaiting]]
  /\ GoTo(t, "setChannelFree")
  /\ UNCHANGED <<locks, iState, msgWaiting, sndMsg, retVal, message, result>>

CopyID(t) ==
  /\ Ready(t, "copyID")
  /\ replyTo' = [replyTo EXCEPT ![t] = msgWaiting]
  /\ GoTo(t, "setChannelFree")
  /\ UNCHANGED <<locks, iState, msgWaiting, sndMsg, retVal, message, result>>

\* Wrong: the channel is not freed.
MsgReceiveKeeps(t) ==
  \/ LockStep(t, "idle", Channel, "testSent")
  \/ TestStep(t, "testSent", Channel, "MSG_SENT", "waitSent", "copyMessage")
  \/ WaitStep(t, "waitSent", Channel, "testSent")
  \/ CopyMessage(t)
  \/ Ready(t, "copyID") /\ replyTo' = [replyTo EXCEPT ![t] = msgWaiting]
     /\ GoTo(t, "unlockTaken")
     /\ UNCHANGED <<locks, iState, msgWaiting, sndMsg, retVal, message, result>>
  \/ UnlockStep(t, "unlockTaken", Channel, "lockConnection")

MsgReceive(t) ==
  \/ LockStep(t, "idle", Channel, "testSent")
  \/ TestStep(t, "testSent", Channel, "MSG_SENT", "waitSent", "copyMessage")
  \/ WaitStep(t, "waitSent", Channel, "testSent")
  \/ CopyMessage(t) \/ CopyID(t)
  \/ StateStep(t, "setChannelFree", Channel, "FREE", "notifyTaken")
  \/ NotifyStep(t, "notifyTaken", Channel, "unlockTaken")
  \/ UnlockStep(t, "unlockTaken", Channel, "lockConnection")

-----------------------------------------------------------------------------
(* CConnectionUser::msgReply by server t, with the message it replies to   *)
(* as the status.                                                          *)

CopyReply(t, k) ==
  /\ Ready(t, "copyReply")
  /\ retVal' = [retVal EXCEPT ![k] = message[t]]
  /\ GoTo(t, "setReplied")
  /\ UNCHANGED <<locks, iState, msgWaiting, sndMsg, message, replyTo, result>>

\* Wrong: the connection is not locked.
MsgReplyUnlocked(t) ==
  LET k == replyTo[t] IN
  \/ Ready(t, "lockConnection") /\ GoTo(t, "testAsked") /\ UNCHANGED <<locks, srr>>
  \/ TestStep(t, "testAsked", k, "MSG_SENT", "idle", "copyReply")
  \/ CopyReply(t, k)
  \/ StateStep(t, "setReplied", k, "MSG_REPLIED", "notifyReplied")
  \/ NotifyStep(t, "notifyReplied", k, "idle")

MsgReply(t) ==
  LET k == replyTo[t] IN
  \/ LockStep(t, "lockConnection", k, "testAsked")
  \/ TestStep(t, "testAsked", k, "MSG_SENT", "unlockReply", "copyReply")
  \/ CopyReply(t, k)
  \/ StateStep(t, "setReplied", k, "MSG_REPLIED", "notifyReplied")
  \/ NotifyStep(t, "notifyReplied", k, "unlockReply")
  \/ UnlockStep(t, "unlockReply", k, "idle")

-----------------------------------------------------------------------------
InPthread(t) == Proceed(t) /\ UNCHANGED <<pc, srr>>

SNext ==
  \/ \E t \in Clients : MsgSend(t)
  \/ \E t \in Servers : MsgReceive(t) \/ MsgReply(t)
  \/ \E t \in Threads : InPthread(t)

SSpec == SInit /\ [][SNext]_svars

Step(t) == IF t \in Clients THEN MsgSend(t) ELSE MsgReceive(t) \/ MsgReply(t)

\* Every thread keeps getting the processor.
SFairSpec == SSpec /\ \A t \in Threads : WF_svars(Step(t) \/ InPthread(t))

-----------------------------------------------------------------------------
(* Properties.                                                             *)

\* Every variable has its type.
STypeOK ==
  /\ mutexLock \in [Mutexes -> {0, 1}] /\ condLock \in [Conds -> {0, 1}]
  /\ waitQ \in Seq(Threads) /\ waitObj \in [Threads -> Mutexes \cup Conds \cup {Null}]
  /\ held \in [Threads -> SUBSET Mutexes]
  /\ iState \in [Ends -> {"FREE", "MSG_SENT", "MSG_REPLIED"}]
  /\ iState[Channel] # "MSG_REPLIED"
  /\ msgWaiting \in Connections \cup {Null}
  /\ sndMsg \in [Connections -> Messages \cup {Null}]
  /\ retVal \in [Connections -> Messages \cup {Null}]
  /\ message \in [Threads -> Messages \cup {Null}]
  /\ replyTo \in [Servers -> Connections \cup {Null}]
  /\ result \in [Clients -> Messages \cup {Null}]

\* A client's first msgSend returns, if its server keeps receiving: the reply
\* is not refused and no wake-up is lost.
FirstSendReturns ==
  \A t \in Clients :
    pc[t] = "setMessage" /\ message[t][2] = 1 ~> pc[t] = "returned"

\* "Can't reply, no message sent" (srrConnection.cpp:162) is not what msgReply
\* says to a server that replies to a message it has received.
NoReplyRefused ==
  \A t \in Servers : pc[t] = "testAsked" /\ Here(t, "client") => iState[replyTo[t]] = "MSG_SENT"

\* t is about to unlock the mutex of e or to wait with it.
Uses(t, e) ==
  pc[t] \in (IF e = Channel
             THEN {"waitChannel", "unlockChannel", "waitSent", "unlockTaken"}
             ELSE {"waitFree", "waitReply", "unlockConnection", "unlockReply"})
OfInterest(t, e) == e = Channel \/ e = IF t \in Clients THEN ConnectionOf[t] ELSE replyTo[t]
\* The functions keep the pthread discipline module Locks asks for: no mutex is
\* locked twice, unlocked or waited with unless locked, or kept on return.
Discipline ==
  \A t \in Threads, e \in Ends :
    Here(t, "client") /\ OfInterest(t, e) =>
      /\ Uses(t, e) => MutexOf[e] \in held[t]
      /\ pc[t] \in (IF e = Channel THEN {"lockChannel"} ELSE {"lockConnection"})
           => MutexOf[e] \notin held[t]
      /\ pc[t] = "idle" => held[t] = {}

-----------------------------------------------------------------------------
(* The protocol the functions implement.                                   *)

Sent == {"notifyChannel", "unlockChannel", "setConnectionSent", "notifyConnection",
         "testReplied", "waitReply", "takeResult"}
Returned == {"setFree", "notifyFree", "unlockConnection", "returned"}
PhaseOf(t, k) ==
  IF iState[k] = "MSG_REPLIED" \/ pc[t] \in Returned THEN "replied"
  ELSE IF pc[t] \notin Sent THEN "none"
  ELSE IF iState[Channel] = "MSG_SENT" /\ msgWaiting = k THEN "sent"
  ELSE "received"

Rendezvous == INSTANCE SendReceiveReply WITH
  phase <- [t \in Clients |-> PhaseOf(t, ConnectionOf[t])],
  number <- [t \in Clients |-> message[t][2]],
  reply <- [t \in Clients |-> IF iState[ConnectionOf[t]] = "MSG_REPLIED"
                              THEN retVal[ConnectionOf[t]] ELSE result[t]]

\* Messages are received once, in order, and answered with their own replies.
ImplementsRendezvous == Rendezvous!RSpec
==============================================================================
