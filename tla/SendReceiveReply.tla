--------------------------- MODULE SendReceiveReply ---------------------------
(***************************************************************************)
(* What msgSend, msgReceive and msgReply promise their callers: a client's *)
(* message is received by one server, replied to once, and the reply is    *)
(* what msgSend returns; the client meanwhile does nothing else.           *)
(***************************************************************************)
EXTENDS Naturals

CONSTANTS Clients,
          MaxSends,  \* bound: messages a client sends
          Null

VARIABLES phase,     \* what has become of each client's message
          number,    \* the number of that message
          reply      \* the last reply each client was given

rendezvous == <<phase, number, reply>>

RInit ==
  /\ phase = [c \in Clients |-> "none"]
  /\ number = [c \in Clients |-> 1]
  /\ reply = [c \in Clients |-> Null]

Becomes(c, before, after) ==
  phase[c] = before /\ phase' = [phase EXCEPT ![c] = after]

Send(c) ==
  number[c] <= MaxSends /\ Becomes(c, "none", "sent") /\ UNCHANGED <<number, reply>>

Receive(c) ==
  Becomes(c, "sent", "received") /\ UNCHANGED <<number, reply>>

Reply(c) ==
  /\ Becomes(c, "received", "replied")
  /\ reply' = [reply EXCEPT ![c] = <<c, number[c]>>]
  /\ UNCHANGED number

Return(c) ==
  /\ Becomes(c, "replied", "none")
  /\ number' = [number EXCEPT ![c] = @ + 1]
  /\ UNCHANGED reply

RNext == \E c \in Clients : Send(c) \/ Receive(c) \/ Reply(c) \/ Return(c)

RSpec == RInit /\ [][RNext]_rendezvous
==============================================================================
