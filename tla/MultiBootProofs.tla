--------------------------- MODULE MultiBootProofs ---------------------------
(***************************************************************************)
(* The safety of multi-boot for any slaves, any length of the header, any  *)
(* number of tries and whatever the variables hold at first.               *)
(***************************************************************************)
EXTENDS MultiBoot, TLAPS

\* The types the proof needs; a slave that waits has heard nothing yet, and one
\* that is selected was heard of or was in what the variables held.
MTyped ==
  /\ i \in Nat /\ seen \subseteq Slaves /\ client_bit \subseteq seen \cup held
  /\ slave \in [Slaves -> [at : {"waiting", "header", "loaded"}, n : Nat, right : Nat]]
  /\ \A s \in Slaves : /\ slave[s].n <= HeaderWords
                       /\ slave[s].at = "waiting" => slave[s] = Waiting

\* The selected slaves that have been heard of in this call.
Known == client_bit \cap seen

\* Slave s has the header.
Complete(s) == slave[s].right = HeaderWords

\* Slave s, if it is still taking the header, has missed a word or has them all
\* up to word k.
Following(s, k) ==
  slave[s].at = "header" => slave[s].n <= k /\ (slave[s].n = k => slave[s].right = k)

\* No answer of slave s that is left over says it needs only k words.
NoneLeft(s, k) == reply[s].kind = "left" => reply[s].n \in Nat /\ reply[s].n > k

\* Slave s has the header or must be started again.
ReadyOrLost(s) == slave[s].at = "waiting" \/ (slave[s].at = "loaded" /\ Complete(s))

\* Where an answer of detection comes from: a slave, or what the variables held.
Traced(s) == reply[s].kind = "ack" => reply[s].bits \subseteq seen \cup held

\* What the master may rely on at each place.
Progress ==
  /\ pc \in {"locate", "detect"} => \A s \in 1 .. 3 : Traced(s)
  /\ pc \in {"locate", "detect", "selected"} =>
       \A s \in seen : slave[s].at \in {"waiting", "loaded"}
  /\ pc = "header" =>
       i < HeaderWords /\ \A s \in Known : Following(s, i) /\ NoneLeft(s, HeaderWords - i)
  /\ pc = "counted" => \A s \in Known : Following(s, HeaderWords) /\ NoneLeft(s, 0)
  /\ pc \in {"loaded", "palette", "handshake"} => \A s \in Known : ReadyOrLost(s)
  /\ pc = "palette" =>
       \A s \in Known : IF s \in check THEN reply[s].kind # "data" ELSE s \in vouched
  /\ pc \in {"handshake", "transfer"} => Known \subseteq vouched

\* The inductive invariant.
MBInv == MTyped /\ Progress

-----------------------------------------------------------------------------
(* One exchange.                                                           *)

\* What a slave does with a word keeps its type.
LEMMA HearingKeepsType ==
  ASSUME MTyped, NEW s \in Slaves, NEW w
  PROVE  LET me == Heard(s, w)
         IN  /\ me \in [at : {"waiting", "header", "loaded"}, n : Nat, right : Nat]
             /\ me.n <= HeaderWords /\ (me.at = "waiting" => me = Waiting)
<1> DEFINE me == slave[s]
<1>1. /\ me \in [at : {"waiting", "header", "loaded"}, n : Nat, right : Nat]
      /\ me.n <= HeaderWords /\ (me.at = "waiting" => me = Waiting)
  BY DEF MTyped
<1>2. HeaderWords \in Nat
  BY MultiBootAssumption
<1>3. CASE me.at = "waiting" /\ w.kind = "61" /\ s \in w.bits
  <2>1. Heard(s, w) = [me EXCEPT !.at = "header"]
    BY <1>3 DEF Heard
  <2> QED BY <1>1, <2>1
<1>4. CASE me.at = "header" /\ me.n < HeaderWords
  <2> DEFINE more == IF w = Header(me.n) THEN 1 ELSE 0
  <2>1. more \in Nat
    OBVIOUS
  <2>2. Heard(s, w) = [me EXCEPT !.n = me.n + 1, !.right = me.right + more]
    BY <1>1, <1>4 DEF Heard
  <2>3. me.n + 1 \in Nat /\ me.right + more \in Nat
    BY <1>1, <2>1
  <2> HIDE DEF more
  <2>4. Heard(s, w) \in [at : {"waiting", "header", "loaded"}, n : Nat, right : Nat]
    BY <1>1, <2>2, <2>3
  <2>5. Heard(s, w).n = me.n + 1 /\ Heard(s, w).at = "header"
    BY <1>1, <1>4, <2>2
  <2> QED BY <1>1, <1>2, <1>4, <2>4, <2>5
<1>5. CASE me.at = "header" /\ me.n = HeaderWords /\ w.kind = "62"
  <2>1. Heard(s, w) = [me EXCEPT !.at = "loaded"]
    BY <1>1, <1>2, <1>5 DEF Heard
  <2> QED BY <1>1, <2>1
<1>6. CASE /\ ~(me.at = "waiting" /\ w.kind = "61" /\ s \in w.bits)
           /\ ~(me.at = "header" /\ me.n < HeaderWords)
           /\ ~(me.at = "header" /\ me.n = HeaderWords /\ w.kind = "62")
  <2>1. Heard(s, w) = me
    BY <1>6 DEF Heard
  <2> QED BY <1>1, <2>1
<1> QED BY <1>3, <1>4, <1>5, <1>6

\* The answer of a slave, by where the slave is.
LEMMA Answers ==
  ASSUME MTyped, NEW s \in Slaves, NEW w, NEW ready \in BOOLEAN, NEW n
  PROVE  LET a == Answer(s, w, ready, n)
         IN  /\ a.kind = "left" => slave[s].at = "header" /\ a.n = HeaderWords - slave[s].n
             /\ a.kind = "data" => slave[s].at = "loaded"
             /\ a.kind = "ack" => slave[s].at \in {"waiting", "loaded"}
BY DEF Answer, MTyped, Left, Data, Nothing, Ack, Word

LEMMA AckBits ==
  ASSUME NEW s \in Slaves, NEW w, NEW ready \in BOOLEAN, NEW n
  PROVE  Answer(s, w, ready, n).kind = "ack" => Answer(s, w, ready, n).bits = {s}
BY DEF Answer, Left, Data, Nothing, Ack, Word

\* What an exchange can do to slave s, its answer and its voucher.
Fresh(s, w) ==
  /\ slave'[s] = Heard(s, w)
  /\ reply'[s].kind = "left" => slave[s].at = "header" /\ reply'[s].n = HeaderWords - slave[s].n
  /\ reply'[s].kind = "data" => slave[s].at = "loaded" /\ (Complete(s) => s \in vouched')

Exchanged(s, w) ==
  /\ slave'[s] = slave[s] \/ slave'[s] = Heard(s, w)
  /\ reply'[s] = reply[s] \/ reply'[s] = Nothing \/ Fresh(s, w)
  /\ s \in vouched /\ (slave[s].at = "loaded" => Complete(s)) => s \in vouched'

LEMMA Exchange ==
  ASSUME MTyped, NEW w, SendMulti(w)
  PROVE  /\ \A s \in Slaves : Exchanged(s, w)
         /\ slave' \in [Slaves -> [at : {"waiting", "header", "loaded"}, n : Nat, right : Nat]]
         /\ \A s \in Slaves : /\ slave'[s].n <= HeaderWords
                              /\ slave'[s].at = "waiting" => slave'[s] = Waiting
         /\ seen' \subseteq Slaves /\ (pc \notin {"locate", "detect"} => seen' = seen)
         /\ \A s \in seen' \ seen : slave[s].at \in {"waiting", "loaded"}
         /\ held' = held /\ seen \subseteq seen'
         /\ pc \in {"locate", "detect"} => \A s \in 1 .. 3 :
              \/ reply'[s] = reply[s]
              \/ reply'[s].kind = "ack" => reply'[s].bits \subseteq seen'
<1>1. PICK hearing \in SUBSET Slaves, ready \in SUBSET Slaves, inTime \in BOOLEAN, n \in ClientData :
        LET answer == [s \in Slaves |-> Answer(s, w, s \in ready, n)]
        IN  /\ slave' = [s \in Slaves |-> IF s \in hearing THEN Heard(s, w) ELSE slave[s]]
            /\ reply' = IF inTime THEN [s \in 1 .. 3 |-> IF s \in hearing THEN answer[s] ELSE Nothing]
                                  ELSE reply
            /\ vouched' = {s \in Slaves :
                 IF s \in hearing /\ answer[s].kind = "data"
                 THEN slave[s].right = HeaderWords ELSE s \in vouched}
            /\ seen' = IF pc \in {"locate", "detect"} /\ inTime
                       THEN seen \cup {s \in hearing : answer[s].kind = "ack"} ELSE seen
            /\ held' = held
  BY DEF SendMulti
<1> DEFINE answer == [s \in Slaves |-> Answer(s, w, s \in ready, n)]
<1>2. \A s \in Slaves : LET a == answer[s] IN
        /\ a.kind = "left" => slave[s].at = "header" /\ a.n = HeaderWords - slave[s].n
        /\ a.kind = "data" => slave[s].at = "loaded"
        /\ a.kind = "ack" => slave[s].at \in {"waiting", "loaded"}
  <2> SUFFICES ASSUME NEW s \in Slaves
               PROVE  LET a == Answer(s, w, s \in ready, n) IN
                      /\ a.kind = "left" => slave[s].at = "header" /\ a.n = HeaderWords - slave[s].n
                      /\ a.kind = "data" => slave[s].at = "loaded"
                      /\ a.kind = "ack" => slave[s].at \in {"waiting", "loaded"}
    OBVIOUS
  <2>1. (s \in ready) \in BOOLEAN
    OBVIOUS
  <2> QED BY <2>1, Answers
<1> HIDE DEF answer
<1>3. /\ slave' = [s \in Slaves |-> IF s \in hearing THEN Heard(s, w) ELSE slave[s]]
      /\ reply' = IF inTime THEN [s \in 1 .. 3 |-> IF s \in hearing THEN answer[s] ELSE Nothing]
                            ELSE reply
      /\ vouched' = {s \in Slaves :
           IF s \in hearing /\ answer[s].kind = "data"
           THEN slave[s].right = HeaderWords ELSE s \in vouched}
      /\ seen' = IF pc \in {"locate", "detect"} /\ inTime
                 THEN seen \cup {s \in hearing : answer[s].kind = "ack"} ELSE seen
      /\ held' = held
  BY <1>1 DEF answer
<1>4. \A s \in Slaves : /\ slave'[s] \in [at : {"waiting", "header", "loaded"}, n : Nat, right : Nat]
                        /\ slave'[s].n <= HeaderWords
                        /\ slave'[s].at = "waiting" => slave'[s] = Waiting
  BY <1>3, HearingKeepsType DEF MTyped
<1>5. slave' \in [Slaves -> [at : {"waiting", "header", "loaded"}, n : Nat, right : Nat]]
  BY <1>3, <1>4
<1>6. ASSUME NEW s \in Slaves PROVE Exchanged(s, w)
  <2>1. s \in 1 .. 3
    BY MultiBootAssumption
  <2>2. slave'[s] = slave[s] \/ slave'[s] = Heard(s, w)
    BY <1>3
  <2>3. s \in vouched /\ (slave[s].at = "loaded" => Complete(s)) => s \in vouched'
    BY <1>2, <1>3 DEF Complete
  <2>4. CASE inTime /\ s \in hearing
    <3>1. slave'[s] = Heard(s, w) /\ reply'[s] = answer[s]
      BY <1>3, <2>1, <2>4
    <3>2. answer[s].kind = "data" /\ Complete(s) => s \in vouched'
      BY <1>3, <2>4 DEF Complete
    <3> QED BY <1>2, <2>2, <2>3, <3>1, <3>2 DEF Exchanged, Fresh
  <2>5. CASE ~(inTime /\ s \in hearing)
    <3>1. reply'[s] = reply[s] \/ reply'[s] = Nothing
      BY <1>3, <2>1, <2>5
    <3> QED BY <2>2, <2>3, <3>1 DEF Exchanged
  <2> QED BY <2>4, <2>5
<1>7. /\ seen' \subseteq Slaves /\ (pc \notin {"locate", "detect"} => seen' = seen)
      /\ \A s \in seen' \ seen : slave[s].at \in {"waiting", "loaded"}
      /\ held' = held /\ seen \subseteq seen'
  BY <1>2, <1>3 DEF MTyped
<1>8. ASSUME pc \in {"locate", "detect"}, NEW s \in 1 .. 3
      PROVE  \/ reply'[s] = reply[s]
             \/ reply'[s].kind = "ack" => reply'[s].bits \subseteq seen'
  <2>1. CASE inTime /\ s \in hearing
    <3>1. reply'[s] = answer[s] /\ s \in Slaves
      BY <1>3, <2>1
    <3>2. answer[s].kind = "ack" => s \in seen'
      BY <1>3, <1>8, <2>1
    <3>3. answer[s].kind = "ack" => answer[s].bits = {s}
      <4>1. answer[s] = Answer(s, w, s \in ready, n) /\ (s \in ready) \in BOOLEAN
        BY <3>1 DEF answer
      <4>2. \A b \in BOOLEAN : LET a == Answer(s, w, b, n) IN a.kind = "ack" => a.bits = {s}
        BY <3>1, AckBits
      <4> QED BY <4>1, <4>2, Zenon
    <3>4. ASSUME reply'[s].kind = "ack" PROVE reply'[s].bits \subseteq seen'
      BY <3>1, <3>2, <3>3, <3>4
    <3> QED BY <3>4
  <2>2. CASE inTime /\ s \notin hearing
    <3>1. reply'[s] = Nothing
      BY <1>3, <2>2
    <3> QED BY <3>1 DEF Nothing, Word
  <2>3. CASE ~inTime
    BY <1>3, <2>3
  <2> QED BY <2>1, <2>2, <2>3
<1> QED BY <1>4, <1>5, <1>6, <1>7, <1>8

\* What a word makes of a slave, by where the slave is.
LEMMA Hearing ==
  ASSUME MTyped, NEW s \in Slaves, NEW w
  PROVE  LET me == slave[s]  you == Heard(s, w)
         IN  /\ me.at = "waiting" /\ ~(w.kind = "61" /\ s \in w.bits) => you = me
             /\ me.at = "waiting" => you.at \in {"waiting", "header"} /\ you.n = 0 /\ you.right = 0
             /\ me.at = "loaded" => you = me
             /\ me.at = "header" /\ me.n < HeaderWords =>
                  /\ you.at = "header" /\ you.n = me.n + 1
                  /\ w = Header(me.n) => you.right = me.right + 1
             /\ me.at = "header" /\ me.n = HeaderWords /\ w.kind = "62" =>
                  you.at = "loaded" /\ you.right = me.right
             /\ me.at = "header" /\ me.n = HeaderWords /\ w.kind # "62" => you = me
<1> DEFINE me == slave[s]
<1>1. /\ me \in [at : {"waiting", "header", "loaded"}, n : Nat, right : Nat]
      /\ me.n <= HeaderWords /\ (me.at = "waiting" => me.n = 0 /\ me.right = 0)
      /\ HeaderWords \in Nat
  BY MultiBootAssumption DEF MTyped, Waiting
<1>2. CASE me.at = "waiting"
  <2>1. CASE w.kind = "61" /\ s \in w.bits
    <3>1. Heard(s, w) = [me EXCEPT !.at = "header"]
      BY <1>2, <2>1 DEF Heard
    <3> QED BY <1>1, <1>2, <2>1, <3>1
  <2>2. CASE ~(w.kind = "61" /\ s \in w.bits)
    <3>1. Heard(s, w) = me
      BY <1>2, <2>2 DEF Heard
    <3> QED BY <1>1, <1>2, <3>1
  <2> QED BY <2>1, <2>2
<1>3. CASE me.at = "loaded"
  <2>1. Heard(s, w) = me
    BY <1>3 DEF Heard
  <2> QED BY <1>3, <2>1
<1>4. CASE me.at = "header" /\ me.n < HeaderWords
  <2> DEFINE more == IF w = Header(me.n) THEN 1 ELSE 0
  <2>1. Heard(s, w) = [me EXCEPT !.n = me.n + 1, !.right = me.right + more]
    BY <1>1, <1>4 DEF Heard
  <2>2. w = Header(me.n) => more = 1
    OBVIOUS
  <2> HIDE DEF more
  <2>3. Heard(s, w).at = "header" /\ Heard(s, w).n = me.n + 1 /\ Heard(s, w).right = me.right + more
    BY <1>1, <1>4, <2>1
  <2> QED BY <1>1, <1>4, <2>2, <2>3
<1>5. CASE me.at = "header" /\ me.n = HeaderWords /\ w.kind = "62"
  <2>1. Heard(s, w) = [me EXCEPT !.at = "loaded"]
    BY <1>1, <1>5 DEF Heard
  <2> QED BY <1>1, <1>5, <2>1
<1>6. CASE me.at = "header" /\ me.n = HeaderWords /\ w.kind # "62"
  <2>1. Heard(s, w) = me
    BY <1>1, <1>6 DEF Heard
  <2> QED BY <1>1, <1>6, <2>1
<1> QED BY <1>1, <1>2, <1>3, <1>4, <1>5, <1>6

-----------------------------------------------------------------------------
(* The invariant holds initially and every step keeps it.                  *)

LEMMA MultiBootStarts == MInit => MBInv
<1> SUFFICES ASSUME MInit PROVE MBInv
  OBVIOUS
<1>1. MTyped
  BY MultiBootAssumption DEF MInit, MTyped, Waiting
<1>2. Progress
  BY DEF MInit, Progress
<1> QED BY <1>1, <1>2 DEF MBInv

\* A slave that is started again helps and harms nobody.
LEMMA RestartKeeps ==
  ASSUME MBInv, NEW s \in Slaves, Restart(s)
  PROVE  MBInv'
<1>1. /\ slave' = [slave EXCEPT ![s] = Waiting]
      /\ UNCHANGED <<pc, i, client_bit, check, client_data, reply, seen, held, vouched>>
  BY DEF Restart
<1>2. MTyped'
  BY <1>1, MultiBootAssumption DEF MBInv, MTyped, Waiting
<1>3. \A u \in Slaves : slave'[u] = slave[u] \/ slave'[u].at = "waiting"
  BY <1>1 DEF MBInv, MTyped, Waiting
<1>4. seen \subseteq Slaves /\ Known \subseteq Slaves /\ Known' = Known
  BY <1>1 DEF MBInv, MTyped, Known
<1>5. Progress'
  BY <1>1, <1>3, <1>4 DEF MBInv, Progress, Traced, Following, NoneLeft, ReadyOrLost, Complete
<1> QED BY <1>2, <1>5 DEF MBInv

\* A function is entered, or a call returns.
LEMMA EnterKeeps ==
  ASSUME MBInv, NEW from, NEW place \in {"locate", "detect"}, Enter(from, place)
  PROVE  MBInv'
<1>1. /\ pc' = place /\ seen' = {} /\ client_bit' = {} /\ UNCHANGED <<i, slave>>
      /\ held' = Detected
  BY DEF Enter
<1>2. \A s \in 1 .. 3 : Traced(s)'
  BY <1>1 DEF Traced, Detected
<1> QED BY <1>1, <1>2 DEF MBInv, MTyped, Progress, Known

LEMMA DetectKeeps ==
  ASSUME MBInv, NEW p \in {"locate", "detect"}, NEW found \in {"located", "selected"},
         Detect(p, found)
  PROVE  MBInv'
<1> DEFINE w == Word("62", {}, 0)
<1>1. MTyped /\ SendMulti(w) /\ pc = p
  BY DEF Detect, MBInv
<1>2. w.kind = "62"
  BY DEF Word
<1> HIDE DEF w
<1>3. /\ \A s \in Slaves : Exchanged(s, w)
      /\ slave' \in [Slaves -> [at : {"waiting", "header", "loaded"}, n : Nat, right : Nat]]
      /\ \A s \in Slaves : /\ slave'[s].n <= HeaderWords
                           /\ slave'[s].at = "waiting" => slave'[s] = Waiting
      /\ seen' \subseteq Slaves
      /\ \A s \in seen' \ seen : slave[s].at \in {"waiting", "loaded"}
      /\ held' = held /\ seen \subseteq seen'
      /\ \A s \in 1 .. 3 : \/ reply'[s] = reply[s]
                           \/ reply'[s].kind = "ack" => reply'[s].bits \subseteq seen'
  BY <1>1, Exchange
<1>4. i' \in Nat /\ pc' \in {p, found, "idle"}
  BY DEF Detect, Return, MBInv, MTyped
<1>5. \A s \in 1 .. 3 : Traced(s)'
  BY <1>1, <1>3 DEF MBInv, Progress, Traced
<1>6. client_bit' \subseteq seen' \cup held'
  <2>1. Detected \subseteq seen' \cup held'
    BY <1>5 DEF Detected, Traced
  <2>2. client_bit \subseteq seen' \cup held'
    BY <1>1, <1>3 DEF MTyped
  <2>3. client_bit' = client_bit \cup Detected \/ client_bit' = {}
    BY DEF Detect, Return
  <2> QED BY <2>1, <2>2, <2>3
<1>7. MTyped'
  BY <1>3, <1>4, <1>6 DEF MTyped
<1>8. ASSUME NEW s \in seen' PROVE slave'[s].at \in {"waiting", "loaded"}
  <2>1. s \in Slaves /\ slave[s].at \in {"waiting", "loaded"}
    BY <1>1, <1>3 DEF MBInv, Progress
  <2>2. Heard(s, w) = slave[s]
    BY <1>1, <1>2, <2>1, Hearing
  <2>3. Exchanged(s, w)
    BY <1>3, <2>1
  <2> QED BY <2>1, <2>2, <2>3 DEF Exchanged
<1>9. Progress'
  BY <1>4, <1>5, <1>8 DEF Progress
<1> QED BY <1>7, <1>9 DEF MBInv

\* What the steps below share: an exchange outside detection.
LEMMA ExchangeKeeps ==
  ASSUME MTyped, NEW w, SendMulti(w), i' \in Nat, client_bit' = client_bit,
         pc \notin {"locate", "detect"}
  PROVE  /\ MTyped' /\ Known' = Known /\ Known \subseteq Slaves
         /\ \A s \in Known : s \in Slaves /\ s \in client_bit \cap 1 .. 3 /\ Exchanged(s, w)
<1>1. /\ \A s \in Slaves : Exchanged(s, w)
      /\ slave' \in [Slaves -> [at : {"waiting", "header", "loaded"}, n : Nat, right : Nat]]
      /\ \A s \in Slaves : /\ slave'[s].n <= HeaderWords
                           /\ slave'[s].at = "waiting" => slave'[s] = Waiting
      /\ seen' = seen /\ held' = held
  BY Exchange
<1>2. MTyped'
  BY <1>1 DEF MTyped
<1>3. Known' = Known /\ Known \subseteq Slaves /\ Known \subseteq client_bit
  BY <1>1 DEF Known, MTyped
<1> QED BY <1>1, <1>2, <1>3, MultiBootAssumption

LEMMA WordKinds ==
  /\ \A k, b, n : Word(k, b, n).kind = k /\ Word(k, b, n).bits = b /\ Word(k, b, n).n = n
  /\ \A n : Header(n).kind = "header"
  /\ \A s : Ack({s}).kind = "ack"
  /\ \A n, b : Left(n, b).kind = "left" /\ Left(n, b).n = n
  /\ Nothing.kind = "nothing"
BY DEF Word, Header, Ack, Left, Nothing

\* The call ends without success.
LEMMA FailureKeeps ==
  ASSUME MTyped, NEW w, SendMulti(w), Return("idle")
  PROVE  MBInv'
<1>1. i' = 0 /\ pc' = "idle" /\ client_bit' = {}
  BY DEF Return
<1>2. MTyped'
  BY <1>1, Exchange DEF MTyped
<1> QED BY <1>1, <1>2 DEF MBInv, Progress

LEMMA SelectedKeeps ==
  ASSUME MBInv, Checked("selected", Word("61", client_bit, 0), Acks, "header", 0)
  PROVE  MBInv'
<1> DEFINE w == Word("61", client_bit, 0)
<1>1. MTyped /\ SendMulti(w) /\ pc = "selected"
  BY DEF Checked, MBInv
<1>2. CASE Return("idle")
  BY <1>1, <1>2, FailureKeeps
<1> HIDE DEF w
<1>3. CASE Agreed(Acks) /\ pc' = "header" /\ i' = 0 /\ UNCHANGED <<client_bit, client_data>>
  <2>1. /\ MTyped' /\ Known' = Known /\ Known \subseteq Slaves
        /\ \A s \in Known : s \in Slaves /\ s \in client_bit \cap 1 .. 3 /\ Exchanged(s, w)
    BY <1>1, <1>3, ExchangeKeeps
  <2>2. 0 < HeaderWords /\ HeaderWords \in Nat
    BY MultiBootAssumption
  <2>3. ASSUME NEW s \in Known PROVE Following(s, 0)' /\ NoneLeft(s, HeaderWords)'
    <3>1. slave[s].at \in {"waiting", "loaded"}
      BY <1>1 DEF MBInv, Progress, Known
    <3>2. slave'[s] = slave[s] \/ slave'[s] = Heard(s, w)
      BY <2>1 DEF Exchanged
    <3>3. Following(s, 0)'
      BY <1>1, <2>1, <3>1, <3>2, Hearing DEF Following
    <3>4. reply'[s] = Ack({s})
      BY <1>3, <2>1, MultiBootAssumption DEF Agreed, Acks
    <3> QED BY <3>3, <3>4, WordKinds DEF NoneLeft
  <2>4. HeaderWords - i' = HeaderWords
    BY <1>3, <2>2
  <2>5. \A s \in Known' : Following(s, i)' /\ NoneLeft(s, HeaderWords - i)'
    BY <1>3, <2>1, <2>3, <2>4 DEF Following, NoneLeft
  <2> QED BY <1>3, <2>1, <2>2, <2>5 DEF MBInv, Progress
<1> QED BY <1>2, <1>3 DEF Checked

\* A word of the header: whoever has not missed one before gets it, or misses it.
LEMMA HeaderWord ==
  ASSUME MTyped, NEW s \in Slaves, NEW k \in Nat, k < HeaderWords, Exchanged(s, Header(k)),
         Following(s, k), NoneLeft(s, HeaderWords - k)
  PROVE  Following(s, k + 1)' /\ NoneLeft(s, HeaderWords - (k + 1))'
<1> DEFINE w == Header(k)
<1>1. w.kind = "header" /\ HeaderWords \in Nat
  BY WordKinds, MultiBootAssumption
<1>2. /\ slave[s] \in [at : {"waiting", "header", "loaded"}, n : Nat, right : Nat]
      /\ slave[s].n <= HeaderWords
  BY DEF MTyped
<1>3. Following(s, k + 1)'
  <2>1. CASE slave'[s] = slave[s]
    BY <1>2, <2>1 DEF Following
  <2>2. CASE slave'[s] = Heard(s, w)
    <3>1. slave[s].n = k => w = Header(slave[s].n)
      OBVIOUS
    <3> HIDE DEF w
    <3>2. CASE slave[s].at = "header" /\ slave[s].n < HeaderWords
      <4>1. /\ slave'[s].n = slave[s].n + 1
            /\ w = Header(slave[s].n) => slave'[s].right = slave[s].right + 1
        BY <2>2, <3>2, Hearing
      <4> QED BY <1>2, <3>1, <3>2, <4>1 DEF Following
    <3>3. CASE ~(slave[s].at = "header" /\ slave[s].n < HeaderWords)
      <4>1. slave'[s] = slave[s]
        BY <1>1, <1>2, <2>2, <3>3, Hearing
      <4> QED BY <1>2, <4>1 DEF Following
    <3> QED BY <3>2, <3>3
  <2> QED BY <2>1, <2>2 DEF Exchanged
<1>4. NoneLeft(s, HeaderWords - (k + 1))'
  <2>1. CASE reply'[s] = reply[s]
    BY <1>1, <2>1 DEF NoneLeft
  <2>2. CASE reply'[s] = Nothing
    BY <2>2, WordKinds DEF NoneLeft
  <2>3. CASE reply'[s].kind = "left" => slave[s].at = "header" /\ reply'[s].n = HeaderWords - slave[s].n
    BY <1>1, <1>2, <2>3 DEF NoneLeft, Following
  <2> QED BY <2>1, <2>2, <2>3 DEF Exchanged, Fresh
<1> QED BY <1>3, <1>4

LEMMA HeaderKeeps ==
  ASSUME MBInv, FirstWords \/ OtherWords
  PROVE  MBInv'
<1>1. MTyped /\ SendMulti(Header(i)) /\ pc = "header" /\ i \in Nat /\ HeaderWords \in Nat
      /\ HeaderWords > 2 /\ i < HeaderWords
  BY MultiBootAssumption DEF FirstWords, OtherWords, Checked, MBInv, MTyped, Progress
<1>2. CASE Return("idle")
  BY <1>1, <1>2, FailureKeeps
<1>3. CASE /\ client_bit' = client_bit
           /\ \/ i + 1 < HeaderWords /\ pc' = "header" /\ i' = i + 1
              \/ i + 1 = HeaderWords /\ pc' = "counted" /\ i' = 0
  <2>1. i' \in Nat
    BY <1>1, <1>3
  <2>2. /\ MTyped' /\ Known' = Known /\ Known \subseteq Slaves
        /\ \A s \in Known : Exchanged(s, Header(i))
    BY <1>1, <1>3, <2>1, ExchangeKeeps
  <2>3. \A s \in Known : Following(s, i) /\ NoneLeft(s, HeaderWords - i)
    BY <1>1 DEF MBInv, Progress
  <2> DEFINE k == i
  <2>4. ASSUME NEW s \in Known
        PROVE  /\ slave'[s].at = "header" =>
                    slave'[s].n <= i + 1 /\ (slave'[s].n = i + 1 => slave'[s].right = i + 1)
               /\ reply'[s].kind = "left" =>
                    reply'[s].n \in Nat /\ reply'[s].n > HeaderWords - (i + 1)
    <3>1. ASSUME NEW j \in Nat, j = i
          PROVE  Following(s, j + 1)' /\ NoneLeft(s, HeaderWords - (j + 1))'
      BY <1>1, <2>2, <2>3, <3>1, HeaderWord
    <3> QED BY <1>1, <3>1 DEF Following, NoneLeft
  <2>5. CASE i + 1 < HeaderWords /\ pc' = "header" /\ i' = i + 1
    <3>1. \A s \in Known' : Following(s, i)' /\ NoneLeft(s, HeaderWords - i)'
      BY <2>2, <2>4, <2>5 DEF Following, NoneLeft
    <3> QED BY <2>2, <2>5, <3>1 DEF MBInv, Progress
  <2>6. CASE i + 1 = HeaderWords /\ pc' = "counted"
    <3>1. HeaderWords - (i + 1) = 0
      BY <1>1, <2>6
    <3>2. \A s \in Known' : Following(s, HeaderWords)' /\ NoneLeft(s, 0)'
      BY <2>2, <2>4, <2>6, <3>1 DEF Following, NoneLeft
    <3> QED BY <2>2, <2>6, <3>2 DEF MBInv, Progress
  <2> QED BY <1>3, <2>5, <2>6
<1>4. CASE FirstWords
  <2>1. i < 2 /\ i' = i + 1 /\ UNCHANGED <<pc, client_bit>>
    BY <1>4 DEF FirstWords
  <2> QED BY <1>1, <1>3, <2>1
<1>5. CASE OtherWords
  BY <1>1, <1>2, <1>3, <1>5 DEF OtherWords, Checked
<1> QED BY <1>4, <1>5

LEMMA CountedKeeps ==
  ASSUME MBInv, Checked("counted", Word("62", {}, 0), Lefts(0), "loaded", 0)
  PROVE  MBInv'
<1> DEFINE w == Word("62", {}, 0)
<1>1. MTyped /\ SendMulti(w) /\ pc = "counted"
  BY DEF Checked, MBInv
<1>2. CASE Return("idle")
  BY <1>1, <1>2, FailureKeeps
<1>3. w.kind = "62" /\ HeaderWords \in Nat
  BY WordKinds, MultiBootAssumption
<1> HIDE DEF w
<1>4. CASE Agreed(Lefts(0)) /\ pc' = "loaded" /\ i' = 0 /\ UNCHANGED <<client_bit, client_data>>
  <2>1. /\ MTyped' /\ Known' = Known /\ Known \subseteq Slaves
        /\ \A s \in Known : s \in Slaves /\ s \in client_bit \cap 1 .. 3 /\ Exchanged(s, w)
    BY <1>1, <1>4, ExchangeKeeps
  <2>2. ASSUME NEW s \in Known PROVE ReadyOrLost(s)'
    <3>1. Following(s, HeaderWords) /\ NoneLeft(s, 0) /\ s \in Slaves
      BY <1>1, <2>1 DEF MBInv, Progress
    <3>2. reply'[s] = Left(0, {s})
      BY <1>4, <2>1, MultiBootAssumption DEF Agreed, Lefts
    <3>3. reply'[s].kind = "left" /\ reply'[s].n = 0
      BY <3>2, WordKinds
    <3>4. reply'[s] # reply[s] /\ reply'[s] # Nothing
      BY <3>1, <3>3, WordKinds DEF NoneLeft
    <3>5. Fresh(s, w)
      BY <2>1, <3>4 DEF Exchanged
    <3>6. slave[s].at = "header" /\ HeaderWords - slave[s].n = 0 /\ slave'[s] = Heard(s, w)
      BY <3>3, <3>5 DEF Fresh
    <3>7. slave[s].n \in Nat
      BY <1>1, <3>1 DEF MTyped
    <3>8. slave[s].n = HeaderWords /\ slave[s].right = HeaderWords
      BY <1>3, <3>1, <3>6, <3>7 DEF Following
    <3>9. slave'[s].at = "loaded" /\ slave'[s].right = HeaderWords
      BY <1>1, <1>3, <3>1, <3>6, <3>8, Hearing
    <3> QED BY <3>9 DEF ReadyOrLost, Complete
  <2> QED BY <1>4, <2>1, <2>2 DEF MBInv, Progress
<1> QED BY <1>2, <1>4 DEF Checked

\* A slave that has the header keeps it, whatever it hears next.
LEMMA ReadyStays ==
  ASSUME MTyped, NEW s \in Slaves, NEW w, w.kind # "61", Exchanged(s, w), ReadyOrLost(s)
  PROVE  /\ ReadyOrLost(s)' /\ (s \in vouched => s \in vouched')
         /\ reply'[s].kind = "data" /\ reply[s].kind # "data" => s \in vouched'
<1>1. Heard(s, w) = slave[s]
  BY Hearing DEF ReadyOrLost
<1>2. slave'[s] = slave[s]
  BY <1>1 DEF Exchanged
<1>3. ReadyOrLost(s)'
  BY <1>2 DEF ReadyOrLost, Complete
<1>4. s \in vouched => s \in vouched'
  BY DEF Exchanged, ReadyOrLost
<1>5. ASSUME reply'[s].kind = "data", reply[s].kind # "data" PROVE s \in vouched'
  <2>1. Fresh(s, w)
    BY <1>5, WordKinds DEF Exchanged
  <2> QED BY <1>5, <2>1 DEF Fresh, ReadyOrLost
<1> QED BY <1>3, <1>4, <1>5

LEMMA LoadedKeeps ==
  ASSUME MBInv, Checked("loaded", Word("62", client_bit, 0), Acks, "palette", 0)
  PROVE  MBInv'
<1> DEFINE w == Word("62", client_bit, 0)
<1>1. MTyped /\ SendMulti(w) /\ pc = "loaded"
  BY DEF Checked, MBInv
<1>2. CASE Return("idle")
  BY <1>1, <1>2, FailureKeeps
<1>3. w.kind # "61"
  BY WordKinds
<1> HIDE DEF w
<1>4. CASE /\ Agreed(Acks) /\ pc' = "palette" /\ i' = 0 /\ check' = client_bit
           /\ UNCHANGED <<client_bit, client_data>>
  <2>1. /\ MTyped' /\ Known' = Known /\ Known \subseteq Slaves
        /\ \A s \in Known : s \in Slaves /\ s \in client_bit \cap 1 .. 3 /\ Exchanged(s, w)
    BY <1>1, <1>4, ExchangeKeeps
  <2>2. ASSUME NEW s \in Known PROVE ReadyOrLost(s)' /\ s \in check' /\ reply'[s].kind # "data"
    <3>1. ReadyOrLost(s)
      BY <1>1 DEF MBInv, Progress
    <3>2. ReadyOrLost(s)'
      BY <1>1, <1>3, <2>1, <3>1, ReadyStays
    <3>3. reply'[s] = Ack({s})
      BY <1>4, <2>1, MultiBootAssumption DEF Agreed, Acks
    <3> QED BY <1>4, <2>1, <3>2, <3>3, WordKinds
  <2> QED BY <1>4, <2>1, <2>2 DEF MBInv, Progress
<1> QED BY <1>2, <1>4 DEF Checked

LEMMA PaletteKeeps ==
  ASSUME MBInv, Palette
  PROVE  MBInv'
<1> DEFINE w == Word("63", {}, 193)
           sending == {s \in check \cap 1 .. 3 : reply'[s].kind = "data"}
<1>1. MTyped /\ SendMulti(w) /\ pc = "palette" /\ i \in Nat
  BY DEF Palette, MBInv, MTyped
<1>2. CASE Return("idle")
  BY <1>1, <1>2, FailureKeeps
<1>3. w.kind # "61"
  BY WordKinds
<1> HIDE DEF w
<1>4. CASE /\ check' = check \ sending /\ client_bit' = client_bit
           /\ \/ check' = {} /\ pc' = "handshake" /\ i' = 0
              \/ check' # {} /\ pc' = "palette" /\ i' = i + 1
  <2>1. /\ MTyped' /\ Known' = Known /\ Known \subseteq Slaves
        /\ \A s \in Known : s \in Slaves /\ s \in client_bit \cap 1 .. 3 /\ Exchanged(s, w)
    BY <1>1, <1>4, ExchangeKeeps
  <2>2. ASSUME NEW s \in Known
        PROVE  /\ ReadyOrLost(s)'
               /\ IF s \in check' THEN reply'[s].kind # "data" ELSE s \in vouched'
    <3>1. /\ ReadyOrLost(s) /\ s \in 1 .. 3
          /\ IF s \in check THEN reply[s].kind # "data" ELSE s \in vouched
      BY <1>1, <2>1 DEF MBInv, Progress
    <3>2. /\ ReadyOrLost(s)' /\ (s \in vouched => s \in vouched')
          /\ reply'[s].kind = "data" /\ reply[s].kind # "data" => s \in vouched'
      BY <1>1, <1>3, <2>1, <3>1, ReadyStays
    <3> QED BY <1>4, <3>1, <3>2
  <2>3. check' = {} => Known' \subseteq vouched'
    BY <2>1, <2>2
  <2> QED BY <1>4, <2>1, <2>2, <2>3 DEF MBInv, Progress
<1> QED BY <1>2, <1>4 DEF Palette

LEMMA HandshakeKeeps ==
  ASSUME MBInv, Checked("handshake", Word("64", {}, handshake_data), Datas, "transfer", 0)
  PROVE  MBInv'
<1> DEFINE w == Word("64", {}, handshake_data)
<1>1. MTyped /\ SendMulti(w) /\ pc = "handshake"
  BY DEF Checked, MBInv
<1>2. CASE Return("idle")
  BY <1>1, <1>2, FailureKeeps
<1>3. w.kind # "61"
  BY WordKinds
<1> HIDE DEF w
<1>4. CASE pc' = "transfer" /\ i' = 0 /\ UNCHANGED <<client_bit, client_data>>
  <2>1. /\ MTyped' /\ Known' = Known /\ Known \subseteq Slaves
        /\ \A s \in Known : s \in Slaves /\ s \in client_bit \cap 1 .. 3 /\ Exchanged(s, w)
    BY <1>1, <1>4, ExchangeKeeps
  <2>2. ASSUME NEW s \in Known PROVE s \in vouched'
    <3>1. ReadyOrLost(s) /\ s \in vouched
      BY <1>1 DEF MBInv, Progress
    <3> QED BY <1>1, <1>3, <2>1, <3>1, ReadyStays
  <2> QED BY <1>4, <2>1, <2>2 DEF MBInv, Progress
<1> QED BY <1>2, <1>4 DEF Checked

LEMMA MultiBootSteps == MBInv /\ [MNext]_mvars => MBInv'
<1> SUFFICES ASSUME MBInv, [MNext]_mvars PROVE MBInv'
  OBVIOUS
<1>1. CASE \E s \in Slaves : Restart(s)
  BY <1>1, RestartKeeps
<1>2. CASE Enter("idle", "locate") \/ Enter("located", "locate") \/ Enter("located", "detect")
  BY <1>2, EnterKeeps
<1>3. CASE Detect("locate", "located") \/ Detect("detect", "selected")
  BY <1>3, DetectKeeps
<1>4. CASE Transfer \/ Refused
  <2>1. pc' \in {"done", "idle"} /\ i' = 0 /\ client_bit' = {} /\ UNCHANGED <<slave, seen, held>>
    BY <1>4 DEF Transfer, Refused, Return
  <2> QED BY <2>1 DEF MBInv, MTyped, Progress
<1>5. CASE UNCHANGED mvars
  BY <1>5 DEF mvars, MBInv, MTyped, Progress, Traced, Known, Following, NoneLeft, ReadyOrLost, Complete
<1> QED
  BY <1>1, <1>2, <1>3, <1>4, <1>5, SelectedKeeps, HeaderKeeps, CountedKeeps, LoadedKeeps,
     PaletteKeeps, HandshakeKeeps
  DEF MNext, multiBoot, locateMultiBootSlaves

-----------------------------------------------------------------------------
(* The theorems.                                                           *)

\* The invariant holds whatever is lost and whenever slaves are started again.
THEOREM MultiBootInvariance == MSpec => []MBInv
BY MultiBootStarts, MultiBootSteps, PTL DEF MSpec

\* The program goes only to slaves that have the whole header, apart from those
\* that CGBASerial::multiBoot never heard of and that its variables passed for
\* having: for headers of any length, any number of tries and any left-over
\* answers.
THEOREM MultiBootSelects == MSpec => []SelectedHaveHeader
<1>1. MBInv => SelectedHaveHeader
  BY DEF MBInv, MTyped, Progress, Known, SelectedHaveHeader
<1> QED BY <1>1, MultiBootInvariance, PTL
==============================================================================
