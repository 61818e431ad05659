------------------------------- MODULE MultiBoot -------------------------------
(***************************************************************************)
(* CGBASerial::locateMultiBootSlaves and multiBoot                         *)
(* (arch/arm/gbands/gbaSerial.cpp): a GBA sends a program to others over   *)
(* the multi-player link, with the loop of apps/gba/testserial/main.cpp    *)
(* that calls them again until it succeeds.                                *)
(*                                                                         *)
(* An action is one exchange: sendMulti puts a word on the link, waits for *)
(* the answers for a bounded time, and the caller looks at them.  A word   *)
(* or an answer may be lost, and when the wait runs out slave1 .. slave3   *)
(* keep what they held, which before the first answer is whatever was on   *)
(* the stack.  The slaves are not in this repository: their actions are    *)
(* what multiBoot relies on, and they may be restarted at any time.        *)
(***************************************************************************)
EXTENDS Integers

CONSTANTS Slaves,         \* the slaves on the link, by their bits (1 .. 3)
          HeaderWords,    \* 0x60
          DetectTries,    \* 15
          PaletteTries,   \* 10
          ClientData,     \* the bytes slaves send with 0x7300
          Garbage         \* what slave1 .. slave3 may hold at first

ASSUME MultiBootAssumption ==
  Slaves \subseteq 1 .. 3 /\ HeaderWords \in Nat /\ HeaderWords > 2

VARIABLES pc,            \* the exchange the master comes to next
          i,             \* the loop counter
          client_bit,    \* the slaves detected, as a set of bits
          check,         \* the slaves that have not sent their data yet
          client_data,
          reply,         \* slave1 .. slave3
          slave,         \* each slave's state
          seen,          \* history: the slaves heard of in this call's detection
          held,          \* history: the bits slave1 .. slave3 passed for having
                         \* when this call began
          vouched        \* history: the slaves that had the header when they
                         \* last sent client data
mvars == <<pc, i, client_bit, check, client_data, reply, slave, seen, held, vouched>>

\* Words on the link: 0x6100 + bits, 0x6200 + bits, 0x6300 + n, 0x6400 + n and
\* the words of the header.
Word(kind, bits, n) == [kind |-> kind, bits |-> bits, n |-> n]
Header(n) == Word("header", {}, n)

\* Answers: 0x7200 + bits, 0x7300 + n, (n << 8) | bits, and 0xffff.
Ack(bits) == Word("ack", bits, 0)
Data(n) == Word("data", {}, n)
Left(n, bits) == Word("left", bits, n)
Nothing == Word("nothing", {}, 0)

-----------------------------------------------------------------------------
(* The slaves.                                                             *)

\* n counts the header words a slave has got, right those of them that were the
\* ones it needed.
Waiting == [at |-> "waiting", n |-> 0, right |-> 0]

\* What slave s answers to word w, if it has got data n ready to send or not.
Answer(s, w, ready, n) ==
  LET me == slave[s] IN
  CASE me.at = "header" -> Left(HeaderWords - me.n, {s})
    [] me.at = "loaded" /\ w.kind \in {"63", "64"} /\ ready -> Data(n)
    [] me.at = "waiting" /\ w.kind \notin {"61", "62"} -> Nothing
    [] OTHER -> Ack({s})

\* Slave s after word w.
Heard(s, w) ==
  LET me == slave[s] IN
  CASE me.at = "waiting" /\ w.kind = "61" /\ s \in w.bits -> [me EXCEPT !.at = "header"]
    [] me.at = "header" /\ me.n < HeaderWords ->
         [me EXCEPT !.n = @ + 1, !.right = @ + IF w = Header(me.n) THEN 1 ELSE 0]
    [] me.at = "header" /\ me.n = HeaderWords /\ w.kind = "62" -> [me EXCEPT !.at = "loaded"]
    [] OTHER -> me

Restart(s) ==
  /\ slave' = [slave EXCEPT ![s] = Waiting]
  /\ UNCHANGED <<pc, i, client_bit, check, client_data, reply, seen, held, vouched>>

\* sendMulti(w): the slaves of hearing get the word and answer it, the others
\* do neither; the answers are read if they come before the wait runs out.
SendMulti(w) ==
  \E hearing, ready \in SUBSET Slaves, inTime \in BOOLEAN, n \in ClientData :
    LET answer == [s \in Slaves |-> Answer(s, w, s \in ready, n)]
    IN  /\ slave' = [s \in Slaves |-> IF s \in hearing THEN Heard(s, w) ELSE slave[s]]
        /\ reply' = IF inTime THEN [s \in 1 .. 3 |-> IF s \in hearing THEN answer[s] ELSE Nothing]
                              ELSE reply
        /\ vouched' = {s \in Slaves :
             IF s \in hearing /\ answer[s].kind = "data"
             THEN slave[s].right = HeaderWords ELSE s \in vouched}
        /\ seen' = IF pc \in {"locate", "detect"} /\ inTime
                   THEN seen \cup {s \in hearing : answer[s].kind = "ack"} ELSE seen
        /\ held' = held

-----------------------------------------------------------------------------
(* The master.                                                             *)

MInit ==
  /\ pc = "idle" /\ i = 0
  /\ client_bit = {} /\ check = {}
  /\ client_data = [s \in 1 .. 3 |-> 255]
  /\ reply = [s \in 1 .. 3 |-> Nothing]
  /\ slave = [s \in Slaves |-> Waiting] /\ seen = {} /\ held = {} /\ vouched = {}

\* A call ends, and its variables with it.
Return(place) ==
  /\ pc' = place /\ i' = 0
  /\ client_bit' = {} /\ check' = {}
  /\ client_data' = [s \in 1 .. 3 |-> 255]

\* The bits of the slaves that answer to be there.
Detected == UNION {reply'[s].bits : s \in {x \in 1 .. 3 : reply'[x].kind = "ack"}}

\* A function is entered: its variables slave1 .. slave3 have no value yet.
Enter(from, place) ==
  /\ pc = from /\ pc' = place
  /\ reply' \in [1 .. 3 -> Garbage] /\ client_bit' = {}
  /\ seen' = {} /\ held' = Detected /\ vouched' = {}
  /\ UNCHANGED <<i, check, client_data, slave>>

\* A round of detection at place p: locateMultiBootSlaves and multiBoot begin
\* with the same loop.  found is where a call that finds slaves goes on.
Detect(p, found) ==
  /\ pc = p /\ SendMulti(Word("62", {}, 0))
  /\ \/ /\ i + 1 < DetectTries
        /\ i' = i + 1 /\ client_bit' = client_bit \cup Detected
        /\ UNCHANGED <<pc, check, client_data>>
     \/ /\ i + 1 = DetectTries /\ client_bit \cup Detected # {}
        /\ pc' = found /\ i' = 0 /\ client_bit' = client_bit \cup Detected
        /\ UNCHANGED <<check, client_data>>
     \/ i + 1 = DetectTries /\ client_bit \cup Detected = {} /\ Return("idle")

\* Wrong: one slave that answers is enough.
AgreedSome(answers) == \E s \in client_bit \cap 1 .. 3 : reply'[s] \in answers[s]

\* Every slave detected has answered with one of answers[s].
Agreed(answers) == \A s \in client_bit \cap 1 .. 3 : reply'[s] \in answers[s]

\* The answers the master wants: the slave's bit, the words it still needs, any
\* client data.
Acks == [s \in 1 .. 3 |-> {Ack({s})}]
Lefts(n) == [s \in 1 .. 3 |-> {Left(n, {s})}]
Datas == [s \in 1 .. 3 |-> {Data(n) : n \in ClientData}]

\* The exchange of word w at place p: with the answers the master goes on at
\* next with loop counter j, without them it returns.
Checked(p, w, answers, next, j) ==
  /\ pc = p /\ SendMulti(w)
  /\ \/ /\ Agreed(answers)
        /\ pc' = next /\ i' = j
        /\ check' = IF next = "palette" THEN client_bit ELSE {}
        /\ UNCHANGED <<client_bit, client_data>>
     \/ ~Agreed(answers) /\ Return("idle")

\* The first two words of the header, whose answers are not looked at.
FirstWords ==
  /\ pc = "header" /\ i < 2 /\ SendMulti(Header(i))
  /\ i' = i + 1
  /\ UNCHANGED <<pc, client_bit, check, client_data>>

OtherWords ==
  /\ i >= 2
  /\ Checked("header", Header(i), Lefts(HeaderWords - i),
             IF i + 1 = HeaderWords THEN "counted" ELSE "header",
             IF i + 1 = HeaderWords THEN 0 ELSE i + 1)

\* A try at the client data of the slaves in check.
Palette ==
  LET sending == {s \in check \cap 1 .. 3 : reply'[s].kind = "data"} IN
  /\ pc = "palette" /\ SendMulti(Word("63", {}, 193))
  /\ \/ /\ check \ sending = {} \/ i + 1 < PaletteTries
        /\ client_data' = [s \in 1 .. 3 |-> IF s \in sending THEN reply'[s].n ELSE client_data[s]]
        /\ check' = check \ sending
        /\ \/ check' = {} /\ pc' = "handshake" /\ i' = 0
           \/ check' # {} /\ pc' = "palette" /\ i' = i + 1
        /\ UNCHANGED client_bit
     \/ check \ sending # {} /\ i + 1 = PaletteTries /\ Return("idle")

handshake_data == (17 + client_data[1] + client_data[2] + client_data[3]) % 256

\* MultiBoot of the BIOS sends the program, or fails and the caller tries again.
Transfer ==
  /\ pc = "transfer"
  /\ \E place \in {"done", "idle"} : Return(place)
  /\ UNCHANGED <<reply, slave, seen, held, vouched>>

\* multiBoot returns at once: this is not the device, port or mode it needs.
Refused == pc = "located" /\ Return("idle") /\ UNCHANGED <<reply, slave, seen, held, vouched>>

multiBoot ==
  \/ Refused \/ Enter("located", "detect")
  \/ Detect("detect", "selected")
  \/ Checked("selected", Word("61", client_bit, 0), Acks, "header", 0)
  \/ FirstWords \/ OtherWords
  \/ Checked("counted", Word("62", {}, 0), Lefts(0), "loaded", 0)
  \/ Checked("loaded", Word("62", client_bit, 0), Acks, "palette", 0)
  \/ Palette
  \/ Checked("handshake", Word("64", {}, handshake_data), Datas, "transfer", 0)
  \/ Transfer

\* It is called again and again until A is pressed.
locateMultiBootSlaves ==
  (\E from \in {"idle", "located"} : Enter(from, "locate")) \/ Detect("locate", "located")

MNext ==
  \/ locateMultiBootSlaves \/ multiBoot
  \/ pc # "done" /\ \E s \in Slaves : Restart(s)

MSpec == MInit /\ [][MNext]_mvars

-----------------------------------------------------------------------------
(* Properties.                                                             *)

\* The program is sent only to slaves that sent their client data, in this
\* call, with the whole header in them and in order: whatever words and answers
\* are lost, however slaves restart and whatever an earlier attempt left behind.
\* Every other slave it is sent to was never heard of in the detection, and
\* passed for detected by what slave1 .. slave3 held before the first answer.
SelectedHaveHeader ==
  pc = "transfer" => \A s \in client_bit : s \in vouched \/ s \in held \ seen
================================================================================
