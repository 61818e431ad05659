---------------------------- MODULE SrrTablesProofs ----------------------------
(***************************************************************************)
(* The safety of the message tables and of the name server, for every set  *)
(* of tasks, threads, channels, connections, slots and names.              *)
(***************************************************************************)
EXTENDS SrrTables, WellFoundedInduction, FiniteSetTheorems, TLAPS

\* The places of a thread, by what it has in its hands.
InHand == {"enter", "findOut", "storeOut"}       \* a connection in no table
Stored == {"findIn", "storeIn"}                  \* one in the out table
DetachAt == {"disconnect", "delete", "clear"}
Attaching == {"connect"} \cup InHand \cup Stored
Registers == {"readTail", "link", "moveTail"}
Places == {"idle", "create", "clearChannel", "compare", "found"}
          \cup Registers \cup Attaching \cup DetachAt

-----------------------------------------------------------------------------
(* Types.                                                                  *)

NamesTyped ==
  /\ sName \in [Entries -> Names \cup {Null}]
  /\ address \in [Entries -> Addresses \cup {Null}]
  /\ \A e \in Entries : sName[e] # Null => address[e] \in Addresses
  /\ next \in [Entries \cup {Head} -> Entries \cup {Null}]
  /\ last \in Entries \cup {Head}
  /\ newEntry \in [Threads -> Entries \cup {Null}]
  /\ tail \in [Threads -> Entries \cup {Head}]
  /\ pEntry \in [Threads -> Entries \cup {Null}]
  /\ wanted \in [Threads -> Names \cup {Null}]
  /\ expected \in [Threads -> BOOLEAN] /\ overlapped \in BOOLEAN
  /\ \A t \in Threads : pc[t] \in Registers => newEntry[t] \in Entries
  /\ \A t \in Threads : pc[t] = "compare" => wanted[t] \in Names

\* What the locals of a thread are good for where it is.
Placed(t) ==
  /\ pc[t] \in {"found"} \cup Attaching => found[t] \in Addresses
  /\ pc[t] \in Attaching => chan[t] \in Channels
  /\ conn[t] # Null <=> pc[t] \in InHand \cup Stored
  /\ id[t] # 0 <=> pc[t] \in {"storeOut"} \cup Stored \cup DetachAt
  /\ pc[t] \in {"enter", "storeIn"} => slot[t] \in InSlots
  /\ pc[t] = "clearChannel" => owns[t] \in ChannelSlots

LocalsTyped ==
  /\ pc \in [Threads -> Places] /\ found \in [Threads -> Addresses \cup {Null}]
  /\ slot \in [Threads -> Nat]
  /\ \A t \in Threads : Placed(t)
  /\ \A t \in Threads, i \in OutSlots : holds[t][i] # NoChannel =>
       holds[t][i] \in [server : Tasks, channel : Channels]

Typed == TTypeOK /\ LocalsTyped /\ NamesTyped

LEMMA LeastNumber ==
  ASSUME NEW T \in SUBSET Nat, T # {}
  PROVE  \E n \in T : \A m \in T : n <= m
<1>1. PICK n \in T : \A m \in T : <<m, n>> \notin OpToRel(<, Nat)
  BY NatLessThanWellFounded, WFMin
<1>2. ASSUME NEW m \in T PROVE n <= m
  <2>1. <<m, n>> \in Nat \X Nat
    OBVIOUS
  <2>2. ~(m < n)
    BY <1>1, <2>1 DEF OpToRel
  <2> QED BY <2>2
<1> QED BY <1>2

\* The search of a table ends at an empty slot, or finds none.
LEMMA FirstEmptyIsEmpty ==
  ASSUME NEW S \in SUBSET (Nat \ {0}), NEW table, DOMAIN table = S, FirstEmpty(table) # 0
  PROVE  FirstEmpty(table) \in S /\ table[FirstEmpty(table)] = Null
<1>1. Empty(table) # {} /\ Empty(table) \in SUBSET Nat
  BY DEF FirstEmpty, Empty
<1>2. Min(Empty(table)) \in Empty(table)
  BY <1>1, LeastNumber DEF Min
<1> QED BY <1>1, <1>2 DEF FirstEmpty, Empty

LEMMA InitTyped == TInit => Typed
<1> SUFFICES ASSUME TInit PROVE Typed
  OBVIOUS
<1> USE TableAssumption, NameAssumption
<1>1. TTypeOK
  BY DEF TInit, NInit, TTypeOK, NoChannel, At
<1>2. LocalsTyped
  BY DEF TInit, NInit, LocalsTyped, Placed, Places, InHand, Stored, DetachAt, Attaching, Registers
<1>3. NamesTyped
  BY DEF TInit, NInit, NamesTyped, Registers
<1> QED BY <1>1, <1>2, <1>3 DEF Typed

\* Nothing but halted changes when the machine stops.
LEMMA HaltTyped ==
  ASSUME Typed, NEW t \in Threads, Halt(t), UNCHANGED queue PROVE Typed'
<1> QED BY DEF Typed, TTypeOK, LocalsTyped, NamesTyped, Placed, Halt, tables, objects, locals, queue, list, At

LEMMA ServerTyped ==
  ASSUME Typed, NEW t \in Threads, ServerStep(t), UNCHANGED <<queue, found>>
  PROVE  TTypeOK' /\ LocalsTyped'
<1> USE TableAssumption, NameAssumption
        DEF Typed, TTypeOK, LocalsTyped, Placed, tables, objects, locals, queue, list, At, Goes,
            Places, InHand, Stored, DetachAt, Attaching, Registers
<1>h. Halt(t) => TTypeOK' /\ LocalsTyped'
  BY HaltTyped
<1>1. ASSUME Create(t) PROVE TTypeOK' /\ LocalsTyped'
  <2>1. DOMAIN pChannel[TaskOf[t]] = ChannelSlots /\ ChannelSlots \in SUBSET (Nat \ {0})
    OBVIOUS
  <2> DEFINE i == FirstEmpty(pChannel[TaskOf[t]])
  <2>2. CASE i = 0
    BY <1>1, <1>h, <2>2 DEF Create
  <2>3. CASE i # 0
    <3>1. i \in ChannelSlots
      BY <2>1, <2>3, FirstEmptyIsEmpty
    <3>2. Goes(t, "idle", "create") /\ slot' = [slot EXCEPT ![t] = i]
          /\ UNCHANGED <<tables, objects, id, chan, conn, owns, holds, clashed, gaveUp, halted>>
      BY <1>1, <2>3 DEF Create
    <3> HIDE DEF i
    <3>3. TTypeOK'
      BY <3>1, <3>2
    <3>4. LocalsTyped'
      BY <3>1, <3>2
    <3> QED BY <3>3, <3>4
  <2> QED BY <2>2, <2>3
<1>2. ASSUME NEW c \in Channels, StoreChannel(t, c) PROVE TTypeOK' /\ LocalsTyped'
  BY <1>2 DEF StoreChannel
<1>3. ASSUME Destroy(t) PROVE TTypeOK' /\ LocalsTyped'
  <2>1. owns[t] \in ChannelSlots
    BY <1>3 DEF Destroy
  <2>2. \/ /\ owns' = [owns EXCEPT ![t] = 0] /\ pc[t] = "idle"
           /\ UNCHANGED <<pc, tables, objects, slot, id, chan, conn, holds, clashed, gaveUp, halted>>
        \/ Halt(t)
        \/ /\ Goes(t, "idle", "clearChannel")
           /\ live' \subseteq live
           /\ UNCHANGED <<tables, channelOf, receiveID, locals, halted>>
    BY <1>3 DEF Destroy
  <2>3. CASE /\ owns' = [owns EXCEPT ![t] = 0] /\ pc[t] = "idle"
             /\ UNCHANGED <<pc, tables, objects, slot, id, chan, conn, holds, clashed, gaveUp, halted>>
    <3>1. TTypeOK'
      BY <2>3
    <3>2. LocalsTyped'
      BY <2>3
    <3> QED BY <3>1, <3>2
  <2>4. CASE /\ Goes(t, "idle", "clearChannel")
             /\ live' \subseteq live
             /\ UNCHANGED <<tables, channelOf, receiveID, locals, halted>>
    <3>1. TTypeOK'
      BY <2>4
    <3>2. LocalsTyped'
      BY <2>1, <2>4
    <3> QED BY <3>1, <3>2
  <2> QED BY <2>2, <2>3, <2>4, <1>h
<1>4. ASSUME ClearChannel(t) PROVE TTypeOK' /\ LocalsTyped'
  BY <1>4 DEF ClearChannel
<1> QED BY <1>1, <1>2, <1>3, <1>4 DEF ServerStep

LEMMA AttachTyped ==
  ASSUME Typed, NEW t \in Threads, AttachStep(t), UNCHANGED queue
  PROVE  TTypeOK' /\ LocalsTyped'
<1> USE TableAssumption, NameAssumption
        DEF Typed, TTypeOK, LocalsTyped, Placed, tables, objects, locals, queue, list, At, Goes,
            Places, InHand, Stored, DetachAt, Attaching, Registers
<1>h. Halt(t) => TTypeOK' /\ LocalsTyped'
  BY HaltTyped
<1>a. pc[t] \in {"found"} \cup Attaching =>
        ServerOf(t) \in Tasks /\ found[t][2] \in ChannelSlots
  BY DEF ServerOf
<1>1. ASSUME Attach(t) PROVE TTypeOK' /\ LocalsTyped'
  <2> DEFINE c == pChannel[ServerOf(t)][found[t][2]]
  <2>1. c \in Channels \cup {Null}
    BY <1>1, <1>a DEF Attach
  <2>2. CASE c # Null
    <3>1. /\ Goes(t, "found", "connect")
          /\ chan' = [chan EXCEPT ![t] = c]
          /\ UNCHANGED <<found, slot, id, conn>>
          /\ UNCHANGED <<tables, objects, owns, holds, clashed, gaveUp, halted>>
      BY <1>1, <2>2 DEF Attach
    <3> HIDE DEF c
    <3>2. TTypeOK'
      BY <2>1, <2>2, <3>1
    <3>3. LocalsTyped'
      BY <2>1, <2>2, <3>1
    <3> QED BY <3>2, <3>3
  <2>3. CASE c = Null
    <3>1. /\ Goes(t, "found", "idle") /\ AttachReturns(t)
          /\ UNCHANGED <<tables, objects, owns, holds, clashed, gaveUp, halted>>
      BY <1>1, <2>3 DEF Attach
    <3> HIDE DEF c
    <3>2. TTypeOK'
      BY <3>1 DEF AttachReturns
    <3>3. LocalsTyped'
      BY <3>1 DEF AttachReturns
    <3> QED BY <3>2, <3>3
  <2> QED BY <2>2, <2>3
<1>2. ASSUME NEW k \in Connections, Connect(t, k) PROVE TTypeOK' /\ LocalsTyped'
  <2> DEFINE i == FirstEmpty(entries[chan[t]])
  <2>1. i = 0 \/ i \in InSlots
    <3>1. DOMAIN entries[chan[t]] = InSlots /\ InSlots \in SUBSET (Nat \ {0})
      BY <1>2 DEF Connect
    <3> QED BY <3>1, FirstEmptyIsEmpty
  <2> HIDE DEF i
  <2>2. CASE chan[t] \notin live
    BY <2>2, <1>2, <1>h DEF Connect
  <2>3. CASE chan[t] \in live
    <3>1. /\ Goes(t, "connect", IF i = 0 THEN "findOut" ELSE "enter")
          /\ channelOf' = [channelOf EXCEPT ![k] = chan[t]]
          /\ receiveID' = [receiveID EXCEPT ![k] = 0]
          /\ live' = live \cup {k}
          /\ conn' = [conn EXCEPT ![t] = k] /\ slot' = [slot EXCEPT ![t] = i]
          /\ UNCHANGED <<found, tables, id, chan, owns, holds, clashed, gaveUp, halted>>
      BY <1>2, <2>3 DEF Connect, i
    <3>2. TTypeOK'
      BY <2>1, <3>1
    <3>3. LocalsTyped'
      BY <2>1, <3>1
    <3> QED BY <3>2, <3>3
  <2> QED BY <2>2, <2>3
<1>3. ASSUME Enter(t) PROVE TTypeOK' /\ LocalsTyped'
  <2>1. CASE chan[t] \notin live
    BY <2>1, <1>3, <1>h DEF Enter
  <2>2. CASE chan[t] \in live
    <3>1. /\ Goes(t, "enter", "findOut")
          /\ entries' = [entries EXCEPT ![chan[t]][slot[t]] = conn[t]]
          /\ UNCHANGED <<pChannel, pConnectionsOut, pConnectionsIn, objects, found, slot, id,
                         chan, conn, owns, holds, clashed, gaveUp, halted>>
      BY <2>2, <1>3 DEF Enter
    <3>2. TTypeOK'
      BY <3>1
    <3>3. LocalsTyped'
      BY <3>1
    <3> QED BY <3>2, <3>3
  <2> QED BY <2>1, <2>2
<1>4. ASSUME FindOut(t) PROVE TTypeOK' /\ LocalsTyped'
  <2> DEFINE i == FirstEmpty(pConnectionsOut[TaskOf[t]])
  <2>1. i = 0 \/ i \in OutSlots
    <3>1. DOMAIN pConnectionsOut[TaskOf[t]] = OutSlots /\ OutSlots \in SUBSET (Nat \ {0})
      OBVIOUS
    <3> QED BY <3>1, FirstEmptyIsEmpty
  <2>2. CASE i # 0
    <3>1. /\ Goes(t, "findOut", "storeOut")
          /\ id' = [id EXCEPT ![t] = i]
          /\ UNCHANGED <<found, slot, chan, conn, gaveUp>>
          /\ UNCHANGED <<tables, objects, owns, holds, clashed, halted>>
      BY <1>4, <2>2 DEF FindOut
    <3> HIDE DEF i
    <3>2. TTypeOK'
      BY <2>1, <2>2, <3>1
    <3>3. LocalsTyped'
      BY <2>1, <2>2, <3>1
    <3> QED BY <3>2, <3>3
  <2>3. CASE i = 0
    <3>1. /\ Goes(t, "findOut", "idle") /\ AttachReturns(t)
          /\ gaveUp' = gaveUp \cup {conn[t]}
          /\ UNCHANGED <<tables, objects, owns, holds, clashed, halted>>
      BY <1>4, <2>3 DEF FindOut
    <3> HIDE DEF i
    <3>2. TTypeOK'
      BY <3>1 DEF AttachReturns
    <3>3. LocalsTyped'
      BY <3>1 DEF AttachReturns
    <3> QED BY <3>2, <3>3
  <2> QED BY <2>2, <2>3
<1>5. ASSUME StoreOut(t) PROVE TTypeOK' /\ LocalsTyped'
  <2>1. TTypeOK'
    BY <1>5 DEF StoreOut, Clash
  <2>2. LocalsTyped'
    BY <1>5 DEF StoreOut
  <2> QED BY <2>1, <2>2
<1>6. ASSUME FindIn(t) PROVE TTypeOK' /\ LocalsTyped'
  <2> DEFINE i == FirstEmpty(pConnectionsIn[ServerOf(t)])
  <2>1. i = 0 \/ i \in InSlots
    <3>1. DOMAIN pConnectionsIn[ServerOf(t)] = InSlots /\ InSlots \in SUBSET (Nat \ {0})
      BY <1>6, <1>a DEF FindIn
    <3> QED BY <3>1, FirstEmptyIsEmpty
  <2>2. CASE i # 0
    <3>1. /\ Goes(t, "findIn", "storeIn")
          /\ slot' = [slot EXCEPT ![t] = i]
          /\ UNCHANGED <<found, id, chan, conn>>
          /\ UNCHANGED <<tables, objects, owns, holds, clashed, gaveUp, halted>>
      BY <1>6, <2>2 DEF FindIn
    <3> HIDE DEF i
    <3>2. TTypeOK'
      BY <2>1, <2>2, <3>1
    <3>3. LocalsTyped'
      BY <2>1, <2>2, <3>1
    <3> QED BY <3>2, <3>3
  <2>3. CASE i = 0
    <3>1. /\ Goes(t, "findIn", "idle") /\ AttachReturns(t)
          /\ UNCHANGED <<tables, objects, owns, holds, clashed, gaveUp, halted>>
      BY <1>6, <2>3 DEF FindIn
    <3> HIDE DEF i
    <3>2. TTypeOK'
      BY <3>1 DEF AttachReturns
    <3>3. LocalsTyped'
      BY <3>1 DEF AttachReturns
    <3> QED BY <3>2, <3>3
  <2> QED BY <2>2, <2>3
<1>7. ASSUME StoreIn(t) PROVE TTypeOK' /\ LocalsTyped'
  <2>1. CASE conn[t] \notin live
    BY <2>1, <1>7, <1>h DEF StoreIn
  <2>2. CASE conn[t] \in live
    <3>1. pc[t] = "storeIn" /\ ServerOf(t) \in Tasks
      BY <1>7, <1>a DEF StoreIn
    <3>2. /\ Goes(t, "storeIn", "idle") /\ AttachReturns(t)
          /\ pConnectionsIn' = [pConnectionsIn EXCEPT ![ServerOf(t)][slot[t]] = conn[t]]
          /\ Clash("in", pConnectionsIn[ServerOf(t)][slot[t]])
          /\ receiveID' = [receiveID EXCEPT ![conn[t]] = slot[t]]
          /\ holds' = [holds EXCEPT ![t][id[t]] =
                                      [server |-> ServerOf(t), channel |-> chan[t]]]
          /\ UNCHANGED <<pChannel, pConnectionsOut, entries, channelOf, live, owns, gaveUp, halted>>
      BY <2>2, <1>7 DEF StoreIn
    <3>3. TTypeOK'
      BY <3>1, <3>2 DEF Clash, AttachReturns
    <3>4. LocalsTyped'
      BY <3>1, <3>2 DEF AttachReturns
    <3> QED BY <3>3, <3>4
  <2> QED BY <2>1, <2>2
<1> QED BY <1>1, <1>2, <1>3, <1>4, <1>5, <1>6, <1>7 DEF AttachStep

LEMMA LeaveTyped ==
  ASSUME TTypeOK, NEW k \in Connections, Leave(k)
  PROVE  /\ entries' \in [Channels -> [InSlots -> Connections \cup {Null}]]
         /\ channelOf' \in [Connections -> Channels \cup {Null}]
         /\ receiveID' \in [Connections -> InSlots \cup {0}]
<1>1. CASE channelOf[k] = Null
  BY <1>1 DEF Leave, TTypeOK
<1>2. CASE channelOf[k] # Null
  <2>1. Without(entries[channelOf[k]], k) \in [InSlots -> Connections \cup {Null}]
    BY <1>2 DEF TTypeOK, Without
  <2>2. /\ entries' = [entries EXCEPT ![channelOf[k]] = Without(@, k)]
        /\ channelOf' = [channelOf EXCEPT ![k] = Null]
        /\ receiveID' = [receiveID EXCEPT ![k] = 0]
    BY <1>2 DEF Leave
  <2>3. entries' = [entries EXCEPT ![channelOf[k]] = Without(entries[channelOf[k]], k)]
    BY <1>2, <2>2 DEF TTypeOK
  <2> QED BY <2>1, <2>2, <2>3 DEF TTypeOK
<1> QED BY <1>1, <1>2

LEMMA DetachTyped ==
  ASSUME Typed, NEW t \in Threads, DetachStep(t), UNCHANGED <<queue, found>>
  PROVE  TTypeOK' /\ LocalsTyped'
<1> USE TableAssumption, NameAssumption
        DEF Typed, TTypeOK, LocalsTyped, Placed, tables, objects, locals, queue, list, At, Goes,
            Places, InHand, Stored, DetachAt, Attaching, Registers
<1>h. Halt(t) => TTypeOK' /\ LocalsTyped'
  BY HaltTyped
<1>d. pc[t] \in DetachAt => ForDetach(t) \in Connections \cup {Null}
  BY DEF ForDetach
<1>n. NoChannel \in [server : Tasks \cup {Null}, channel : Channels \cup {Null}]
  BY DEF NoChannel
<1>1. ASSUME NEW i \in OutSlots, Detach(t, i) PROVE TTypeOK' /\ LocalsTyped'
  <2>1. /\ holds' = [holds EXCEPT ![t][i] = NoChannel] /\ pc[t] = "idle"
        /\ UNCHANGED <<tables, objects, slot, chan, conn, owns, clashed, gaveUp, halted>>
    BY <1>1 DEF Detach
  <2>2. CASE pConnectionsOut[TaskOf[t]][i] = Null
    <3>1. UNCHANGED <<pc, id>>
      BY <2>2, <1>1 DEF Detach
    <3>2. TTypeOK'
      BY <2>1, <3>1, <1>n
    <3>3. LocalsTyped'
      BY <2>1, <3>1
    <3> QED BY <3>2, <3>3
  <2>3. CASE pConnectionsOut[TaskOf[t]][i] # Null
    <3>1. Goes(t, "idle", "disconnect") /\ id' = [id EXCEPT ![t] = i]
      BY <2>3, <1>1 DEF Detach
    <3>2. TTypeOK'
      BY <2>1, <3>1, <1>n
    <3>3. LocalsTyped'
      BY <2>1, <3>1
    <3> QED BY <3>2, <3>3
  <2> QED BY <2>2, <2>3
<1>2. ASSUME Disconnect(t) PROVE TTypeOK' /\ LocalsTyped'
  <2>1. CASE ~ Usable(ForDetach(t))
    BY <2>1, <1>2, <1>h DEF Disconnect
  <2>2. CASE Usable(ForDetach(t))
    <3>1. /\ Goes(t, "disconnect", "delete") /\ Leave(ForDetach(t))
          /\ UNCHANGED <<pChannel, pConnectionsOut, pConnectionsIn, live, locals, halted>>
      BY <2>2, <1>2 DEF Disconnect
    <3>2. ForDetach(t) \in Connections
      BY <2>2, <3>1, <1>d DEF Usable
    <3>3. TTypeOK'
      BY <3>1, <3>2, LeaveTyped
    <3>4. LocalsTyped'
      BY <3>1
    <3> QED BY <3>3, <3>4
  <2> QED BY <2>1, <2>2
<1>3. ASSUME Delete(t) PROVE TTypeOK' /\ LocalsTyped'
  <2> DEFINE k == ForDetach(t)
  <2>1. CASE k = Null
    <3>1. Goes(t, "delete", "clear") /\ UNCHANGED <<tables, objects, locals, halted>>
      BY <2>1, <1>3 DEF Delete
    <3>2. TTypeOK'
      BY <3>1
    <3>3. LocalsTyped'
      BY <3>1
    <3> QED BY <3>2, <3>3
  <2>2. CASE k # Null /\ ~ Usable(k)
    BY <2>2, <1>3, <1>h DEF Delete
  <2>3. CASE k # Null /\ Usable(k)
    <3>1. /\ Goes(t, "delete", "clear") /\ Leave(k) /\ live' = live \ {k}
          /\ UNCHANGED <<pChannel, pConnectionsOut, pConnectionsIn, locals, halted>>
      BY <2>3, <1>3 DEF Delete
    <3>2. k \in Connections
      BY <2>3, <3>1, <1>d
    <3> HIDE DEF k
    <3>3. TTypeOK'
      BY <3>1, <3>2, LeaveTyped
    <3>4. LocalsTyped'
      BY <3>1
    <3> QED BY <3>3, <3>4
  <2> QED BY <2>1, <2>2, <2>3
<1>4. ASSUME Clear(t) PROVE TTypeOK' /\ LocalsTyped'
  <2>1. TTypeOK'
    BY <1>4 DEF Clear
  <2>2. LocalsTyped'
    BY <1>4 DEF Clear
  <2> QED BY <2>1, <2>2
<1> QED BY <1>1, <1>2, <1>3, <1>4 DEF DetachStep

LEMMA NamingTyped ==
  ASSUME Typed, NEW t \in Threads, Naming(t), UNCHANGED <<tables, objects, locals, halted>>
  PROVE  TTypeOK' /\ LocalsTyped'
<1> USE TableAssumption, NameAssumption
        DEF Typed, TTypeOK, LocalsTyped, Placed, tables, objects, locals, queue, list, At, Goes,
            Places, InHand, Stored, DetachAt, Attaching, Registers
<1> USE DEF NamesTyped
<1>1. ASSUME NEW p \in Places, NEW q \in Places, Goes(t, p, q), UNCHANGED found,
             {p, q} \subseteq {"idle", "compare"} \cup Registers
      PROVE  TTypeOK' /\ LocalsTyped'
  <2>1. TTypeOK'
    BY <1>1
  <2>2. LocalsTyped'
    BY <1>1
  <2> QED BY <2>1, <2>2
<1>2. ASSUME ReadTail(t) \/ Link(t) \/ MoveTail(t) PROVE TTypeOK' /\ LocalsTyped'
  <2>1. CASE ReadTail(t)
    BY <1>1, <2>1 DEF ReadTail
  <2>2. CASE Link(t)
    BY <1>1, <2>2 DEF Link
  <2>3. CASE MoveTail(t)
    BY <1>1, <2>3 DEF MoveTail, Registered
  <2> QED BY <1>2, <2>1, <2>2, <2>3
<1>3. ASSUME NEW n, NEW a, Register(t, n, a) PROVE TTypeOK' /\ LocalsTyped'
  BY <1>1, <1>3 DEF Register
<1>4. ASSUME NEW n, Lookup(t, n) PROVE TTypeOK' /\ LocalsTyped'
  BY <1>1, <1>4 DEF Lookup
<1>5. ASSUME Compare(t) PROVE TTypeOK' /\ LocalsTyped'
  <2>1. CASE pEntry[t] = Null
    <3>1. Goes(t, "compare", "idle") /\ found' = [found EXCEPT ![t] = Null]
      BY <1>5, <2>1 DEF Compare, LookupReturns
    <3>2. TTypeOK'
      BY <3>1
    <3>3. LocalsTyped'
      BY <3>1
    <3> QED BY <3>2, <3>3
  <2>2. CASE pEntry[t] # Null /\ sName[pEntry[t]] = wanted[t]
    <3>1. Goes(t, "compare", "found") /\ found' = [found EXCEPT ![t] = address[pEntry[t]]]
      BY <1>5, <2>2 DEF Compare, LookupReturns
    <3>2. address[pEntry[t]] \in Addresses
      BY <2>2, <3>1
    <3>3. TTypeOK'
      BY <3>1
    <3>4. LocalsTyped'
      BY <3>1, <3>2
    <3> QED BY <3>3, <3>4
  <2>3. CASE pEntry[t] # Null /\ sName[pEntry[t]] # wanted[t]
    <3>1. UNCHANGED <<pc, found>>
      BY <1>5, <2>3 DEF Compare, NextEntry
    <3> QED BY <3>1
  <2> QED BY <2>1, <2>2, <2>3
<1> QED BY <1>2, <1>3, <1>4, <1>5 DEF Naming, NameStep

-----------------------------------------------------------------------------
(* The list of names.                                                      *)

\* ch holds the head and the first n entries of the list, all of them filled.
Prefix(n, ch) ==
  /\ ch[0] = Head
  /\ \A i, j \in 0 .. n : ch[i] = ch[j] => i = j
  /\ \A i \in 1 .. n : ch[i] \in Entries /\ sName[ch[i]] # Null
  /\ \A i \in 0 .. n - 1 : next[ch[i]] = ch[i + 1]

\* Nobody is about to store into one of them but the last, or to append one.
Spared(n, ch) ==
  /\ \A i \in 0 .. n - 1 : ch[i] # last
  /\ \A i \in 0 .. n - 1, t \in Threads : pc[t] = "link" => ch[i] # tail[t]
  /\ \A t \in Threads : pc[t] \in Registers =>
       sName[newEntry[t]] # Null /\ \A i \in 0 .. n : ch[i] # newEntry[t]

\* They hold the names that were registered, and a lookup that has to find
\* one of these has not passed it.
Reached(n, ch) ==
  /\ \A m \in registered : \E i \in 1 .. n : sName[ch[i]] = m
  /\ \A t \in Threads : pc[t] = "compare" /\ expected[t] =>
       \E i, j \in 1 .. n : i <= j /\ pEntry[t] = ch[i] /\ sName[ch[j]] = wanted[t]

\* While no two registrations have overlapped they are the whole list.
Whole(n, ch) ==
  ~ overlapped =>
    /\ \A t, u \in Threads : pc[t] \in Registers /\ pc[u] \in Registers => t = u
    /\ last = ch[n]
    /\ \A t \in Threads : pc[t] = "link" => tail[t] = ch[n]
    /\ \A t \in Threads : pc[t] = "moveTail" => next[ch[n]] = newEntry[t]

Chain(n, ch) == Prefix(n, ch) /\ Spared(n, ch) /\ Reached(n, ch) /\ Whole(n, ch)

Chained == \E n \in Nat : \E ch \in [0 .. n -> Entries \cup {Head}] : Chain(n, ch)

LEMMA InitChained == TInit => Chained
<1> SUFFICES ASSUME TInit PROVE Chained
  OBVIOUS
<1> DEFINE ch == [i \in 0 .. 0 |-> Head]
<1>1. ch \in [0 .. 0 -> Entries \cup {Head}]
  OBVIOUS
<1>2. Prefix(0, ch)
  BY DEF Prefix
<1>3. Spared(0, ch) /\ Reached(0, ch) /\ Whole(0, ch)
  BY DEF Spared, Reached, Whole, TInit, NInit, Registers
<1> QED BY <1>1, <1>2, <1>3 DEF Chained, Chain

\* A thread that keeps away from the list does not disturb it.
LEMMA AwayFromList ==
  ASSUME NamesTyped, Chained, UNCHANGED queue,
         \A u \in Threads : \/ pc'[u] = pc[u]
                            \/ {pc[u], pc'[u]} \cap (Registers \cup {"compare"}) = {}
  PROVE  NamesTyped' /\ Chained'
<1> USE DEF queue, list
<1>1. \A u \in Threads :
        /\ pc'[u] \in Registers <=> pc[u] \in Registers
        /\ \A p \in Registers \cup {"compare"} : pc'[u] = p <=> pc[u] = p
  OBVIOUS
<1>2. \A u \in Threads :
        /\ pc'[u] = "link" <=> pc[u] = "link" 
        /\ pc'[u] = "moveTail" <=> pc[u] = "moveTail"
        /\ pc'[u] = "compare" <=> pc[u] = "compare"
  BY <1>1 DEF Registers
<1>3. NamesTyped'
  BY <1>1, <1>2 DEF NamesTyped
<1>3a. PICK n \in Nat : \E ch \in [0 .. n -> Entries \cup {Head}] : Chain(n, ch)
  BY DEF Chained
<1>4. PICK ch \in [0 .. n -> Entries \cup {Head}] : Chain(n, ch)
  BY <1>3a
<1>5. Prefix(n, ch)'
  BY <1>4 DEF Chain, Prefix
<1>6. Spared(n, ch)'
  BY <1>1, <1>2, <1>4 DEF Chain, Spared
<1>7. Reached(n, ch)'
  BY <1>2, <1>4 DEF Chain, Reached
<1>8. Whole(n, ch)'
  BY <1>1, <1>2, <1>4 DEF Chain, Whole
<1> QED BY <1>3, <1>4, <1>5, <1>6, <1>7, <1>8 DEF Chain, Chained

Away == Places \ (Registers \cup {"compare"})

\* The calls of this module keep away from the list.
LEMMA TablesAreAway ==
  ASSUME Typed, NEW t \in Threads, ServerStep(t) \/ AttachStep(t) \/ DetachStep(t)
  PROVE  \A u \in Threads : \/ pc'[u] = pc[u]
                            \/ {pc[u], pc'[u]} \cap (Registers \cup {"compare"}) = {}
<1> DEFINE Aside == \/ UNCHANGED pc
                    \/ \E p, q \in Away : Goes(t, p, q)
<1>1. SUFFICES Aside
  BY DEF Goes, Typed, LocalsTyped, Away
<1>2. \A p, q \in Away : Goes(t, p, q) => Aside
  OBVIOUS
<1>3. Halt(t) => Aside
  BY DEF Halt
<1>4. {"idle", "create", "clearChannel", "found", "connect", "enter", "findOut", "storeOut",
       "findIn", "storeIn", "disconnect", "delete", "clear"} \subseteq Away
  BY DEF Away, Places, InHand, Stored, DetachAt, Attaching, Registers
<1> HIDE DEF Aside
<1>5. ASSUME ServerStep(t) PROVE Aside
  <2>1. Create(t) => Aside
    BY <1>2, <1>3, <1>4 DEF Create
  <2>2. (\E c \in Channels : StoreChannel(t, c)) => Aside
    BY <1>2, <1>4 DEF StoreChannel
  <2>3. Destroy(t) => UNCHANGED pc \/ Halt(t) \/ Goes(t, "idle", "clearChannel")
    BY DEF Destroy
  <2>4. ClearChannel(t) => Aside
    BY <1>2, <1>4 DEF ClearChannel
  <2>5. UNCHANGED pc => Aside
    BY DEF Aside
  <2> QED BY <1>5, <2>1, <2>2, <2>3, <2>4, <2>5, <1>2, <1>3, <1>4 DEF ServerStep
<1>6. ASSUME AttachStep(t) PROVE Aside
  <2>1. Attach(t) => Aside
    BY <1>2, <1>4 DEF Attach
  <2>2. ASSUME NEW k \in Connections, Connect(t, k) PROVE Aside
    <3>1. Halt(t) \/ Goes(t, "connect", "findOut") \/ Goes(t, "connect", "enter")
      BY <2>2 DEF Connect
    <3> QED BY <3>1, <1>2, <1>3, <1>4
  <2>3. Enter(t) => Aside
    BY <1>2, <1>3, <1>4 DEF Enter
  <2>4. FindOut(t) => Aside
    BY <1>2, <1>4 DEF FindOut
  <2>5. StoreOut(t) => Aside
    BY <1>2, <1>4 DEF StoreOut
  <2>6. FindIn(t) => Aside
    BY <1>2, <1>4 DEF FindIn
  <2>7. StoreIn(t) => Aside
    BY <1>2, <1>3, <1>4 DEF StoreIn
  <2> QED BY <1>6, <2>1, <2>2, <2>3, <2>4, <2>5, <2>6, <2>7 DEF AttachStep
<1>7. ASSUME DetachStep(t) PROVE Aside
  <2>1. ASSUME NEW i \in OutSlots, Detach(t, i) PROVE UNCHANGED pc \/ Goes(t, "idle", "disconnect")
    BY <2>1 DEF Detach
  <2>2. Disconnect(t) => Aside
    BY <1>2, <1>3, <1>4 DEF Disconnect
  <2>3. Delete(t) => Halt(t) \/ Goes(t, "delete", "clear")
    BY DEF Delete
  <2>4. Clear(t) => Aside
    BY <1>2, <1>4 DEF Clear
  <2>5. UNCHANGED pc => Aside
    BY DEF Aside
  <2> QED BY <1>7, <2>1, <2>2, <2>3, <2>4, <2>5, <1>2, <1>3, <1>4 DEF DetachStep
<1> QED BY <1>5, <1>6, <1>7

LEMMA ReadTailListed ==
  ASSUME Typed, Chained, NEW t \in Threads, ReadTail(t) PROVE NamesTyped' /\ Chained'
<1>1. /\ pc[t] = "readTail" /\ pc' = [pc EXCEPT ![t] = "link"] /\ pc \in [Threads -> Places]
      /\ tail' = [tail EXCEPT ![t] = last]
      /\ UNCHANGED <<sName, address, next, last, newEntry, pEntry, wanted, found, overlapped, registered, expected>>
  BY DEF ReadTail, Goes, list, Typed, LocalsTyped
<1>2. NamesTyped'
  BY <1>1 DEF Typed, NamesTyped, Registers
<1>3. PICK n \in Nat : \E ch \in [0 .. n -> Entries \cup {Head}] : Chain(n, ch)
  BY DEF Chained
<1>4. PICK ch \in [0 .. n -> Entries \cup {Head}] : Chain(n, ch)
  BY <1>3
<1>t. tail \in [Threads -> Entries \cup {Head}]
  BY DEF Typed, NamesTyped
<1>5. Prefix(n, ch)'
  BY <1>1, <1>4 DEF Chain, Prefix
<1>6. Spared(n, ch)'
  BY <1>1, <1>4, <1>t DEF Chain, Spared, Registers
<1>7. Reached(n, ch)'
  BY <1>1, <1>4 DEF Chain, Reached
<1>8. Whole(n, ch)'
  BY <1>1, <1>4, <1>t DEF Chain, Whole, Registers
<1> QED BY <1>2, <1>5, <1>6, <1>7, <1>8 DEF Chain, Chained

LEMMA LinkListed ==
  ASSUME Typed, Chained, NEW t \in Threads, Link(t) PROVE NamesTyped' /\ Chained'
<1>1. /\ pc[t] = "link" /\ pc' = [pc EXCEPT ![t] = "moveTail"] /\ pc \in [Threads -> Places]
      /\ next' = [next EXCEPT ![tail[t]] = newEntry[t]]
      /\ UNCHANGED <<sName, address, last, newEntry, tail, pEntry, wanted, found, overlapped, registered, expected>>
  BY DEF Link, Goes, Typed, LocalsTyped
<1>2. /\ next \in [Entries \cup {Head} -> Entries \cup {Null}] 
      /\ tail[t] \in Entries \cup {Head} /\ newEntry[t] \in Entries
  BY <1>1 DEF Typed, NamesTyped, Registers
<1>3. NamesTyped'
  BY <1>1, <1>2 DEF Typed, NamesTyped, Registers
<1>4. PICK n \in Nat : \E ch \in [0 .. n -> Entries \cup {Head}] : Chain(n, ch)
  BY DEF Chained
<1>5. PICK ch \in [0 .. n -> Entries \cup {Head}] : Chain(n, ch)
  BY <1>4
<1>6. Prefix(n, ch)'
  BY <1>1, <1>2, <1>5 DEF Chain, Prefix, Spared
<1>7. Spared(n, ch)'
  BY <1>1, <1>5 DEF Chain, Spared, Registers
<1>8. Reached(n, ch)'
  BY <1>1, <1>5 DEF Chain, Reached
<1>9. Whole(n, ch)'
  BY <1>1, <1>2, <1>5 DEF Chain, Whole, Registers
<1> QED BY <1>3, <1>6, <1>7, <1>8, <1>9 DEF Chain, Chained

LEMMA MoveTailListed ==
  ASSUME Typed, Chained, NEW t \in Threads, MoveTail(t) PROVE NamesTyped' /\ Chained'
<1>1. /\ pc[t] = "moveTail" /\ pc' = [pc EXCEPT ![t] = "idle"] /\ pc \in [Threads -> Places]
      /\ last' = newEntry[t]
      /\ registered' = IF overlapped THEN registered ELSE registered \cup {sName[newEntry[t]]}
      /\ newEntry' = [newEntry EXCEPT ![t] = Null] /\ tail' = [tail EXCEPT ![t] = Head]
      /\ UNCHANGED <<sName, address, next, pEntry, wanted, found, overlapped, expected>>
  BY DEF MoveTail, Registered, Goes, Typed, LocalsTyped
<1>2. newEntry[t] \in Entries
  BY <1>1 DEF Typed, NamesTyped, Registers
<1>3. NamesTyped'
  BY <1>1, <1>2 DEF Typed, NamesTyped, Registers
<1>t. newEntry \in [Threads -> Entries \cup {Null}] /\ tail \in [Threads -> Entries \cup {Head}]
  BY DEF Typed, NamesTyped
<1>4. PICK n \in Nat : \E ch \in [0 .. n -> Entries \cup {Head}] : Chain(n, ch)
  BY DEF Chained
<1>5. PICK ch \in [0 .. n -> Entries \cup {Head}] : Chain(n, ch)
  BY <1>4
<1>6. CASE overlapped
  <2>1. Prefix(n, ch)'
    BY <1>1, <1>5 DEF Chain, Prefix
  <2>2. Spared(n, ch)'
    BY <1>1, <1>5, <1>t DEF Chain, Spared, Registers
  <2>3. Reached(n, ch)'
    BY <1>1, <1>5, <1>6 DEF Chain, Reached
  <2>4. Whole(n, ch)'
    BY <1>1, <1>6 DEF Whole
  <2> QED BY <1>3, <2>1, <2>2, <2>3, <2>4 DEF Chain, Chained
<1>7. CASE ~ overlapped
  <2>1. PICK more \in [0 .. n + 1 -> Entries \cup {Head}] :
          more[n + 1] = newEntry[t] /\ \A i \in 0 .. n : more[i] = ch[i]
    <3> DEFINE longer == [i \in 0 .. n + 1 |-> IF i = n + 1 THEN newEntry[t] ELSE ch[i]]
    <3>1. /\ longer \in [0 .. n + 1 -> Entries \cup {Head}]
          /\ longer[n + 1] = newEntry[t] /\ \A i \in 0 .. n : longer[i] = ch[i]
      BY <1>2
    <3> QED BY <3>1
  <2>0. n + 1 \in Nat /\ (n + 1) - 1 = n
    OBVIOUS
  <2>2. /\ \A u \in Threads : pc[u] \in Registers => u = t
        /\ last = ch[n] /\ next[ch[n]] = newEntry[t]
        /\ sName[newEntry[t]] # Null /\ \A i \in 0 .. n : ch[i] # newEntry[t]
    BY <1>1, <1>5, <1>7 DEF Chain, Whole, Spared, Registers
  <2>3. \A u \in Threads : pc'[u] \notin Registers
    BY <1>1, <2>2 DEF Registers
  <2>4. Prefix(n + 1, more)'
    <3>1. more[0] = Head
      BY <1>5, <2>1 DEF Chain, Prefix
    <3>2. ASSUME NEW i \in 0 .. n + 1, NEW j \in 0 .. n + 1, more[i] = more[j] PROVE i = j
      <4>1. CASE i \in 0 .. n /\ j \in 0 .. n
        BY <1>5, <2>1, <3>2, <4>1 DEF Chain, Prefix
      <4>2. CASE i = n + 1 /\ j \in 0 .. n
        BY <2>1, <2>2, <3>2, <4>2
      <4>3. CASE i \in 0 .. n /\ j = n + 1
        BY <2>1, <2>2, <3>2, <4>3
      <4> QED BY <4>1, <4>2, <4>3
    <3>3. ASSUME NEW i \in 1 .. n + 1 PROVE more[i] \in Entries /\ sName'[more[i]] # Null
      <4>1. CASE i \in 1 .. n
        BY <1>1, <1>5, <2>1, <4>1 DEF Chain, Prefix
      <4>2. CASE i = n + 1
        BY <1>1, <1>2, <2>1, <2>2, <4>2
      <4> QED BY <4>1, <4>2
    <3>4. ASSUME NEW i \in 0 .. n PROVE next'[more[i]] = more[i + 1]
      <4>1. CASE i \in 0 .. n - 1
        BY <1>1, <1>5, <2>1, <4>1 DEF Chain, Prefix
      <4>2. CASE i = n
        BY <1>1, <2>1, <2>2, <4>2
      <4> QED BY <4>1, <4>2
    <3> QED BY <2>0, <3>1, <3>2, <3>3, <3>4 DEF Prefix
  <2>5. Spared(n + 1, more)'
    <3>1. \A i \in 0 .. n : more[i] # last'
      BY <1>1, <2>1, <2>2
    <3> QED BY <2>0, <2>3, <3>1 DEF Spared, Registers
  <2>6. Reached(n + 1, more)'
    <3>1. ASSUME NEW m \in registered' PROVE \E i \in 1 .. n + 1 : sName'[more[i]] = m
      <4>1. CASE m = sName[newEntry[t]]
        BY <1>1, <2>1, <4>1
      <4>2. CASE m \in registered
        <5>1. PICK i \in 1 .. n : sName[ch[i]] = m
          BY <1>5, <4>2 DEF Chain, Reached
        <5> QED BY <5>1, <1>1, <2>1
      <4> QED BY <3>1, <4>1, <4>2, <1>1, <1>7
    <3>2. ASSUME NEW u \in Threads, pc'[u] = "compare", expected'[u]
          PROVE  \E i, j \in 1 .. n + 1 : i <= j /\ pEntry'[u] = more[i] /\ sName'[more[j]] = wanted'[u]
      <4>1. pc[u] = "compare" /\ expected[u]
        BY <1>1, <3>2
      <4>2. PICK i \in 1 .. n, j \in 1 .. n : i <= j /\ pEntry[u] = ch[i] /\ sName[ch[j]] = wanted[u]
        BY <1>5, <4>1 DEF Chain, Reached
      <4>3. /\ i \in 1 .. n + 1 /\ j \in 1 .. n + 1 /\ more[i] = ch[i] /\ more[j] = ch[j]
        BY <2>1
      <4> QED BY <4>2, <4>3, <1>1
    <3> QED BY <3>1, <3>2 DEF Reached
  <2>7. Whole(n + 1, more)'
    BY <1>1, <2>1, <2>3 DEF Whole, Registers
  <2> QED BY <1>3, <2>0, <2>1, <2>4, <2>5, <2>6, <2>7 DEF Chain, Chained
<1> QED BY <1>6, <1>7

LEMMA RegisterListed ==
  ASSUME Typed, Chained, NEW t \in Threads, NEW m \in Names, NEW a \in Addresses,
         Register(t, m, a)
  PROVE  NamesTyped' /\ Chained'
<1> USE NameAssumption
<1>1. PICK e \in Entries :
        /\ sName[e] = Null
        /\ newEntry' = [newEntry EXCEPT ![t] = e]
        /\ sName' = [sName EXCEPT ![e] = m]
        /\ address' = [address EXCEPT ![e] = a]
        /\ next' = [next EXCEPT ![e] = Null]
  <2> DEFINE e == CHOOSE x \in Entries : sName[x] = Null
  <2>1. e \in Entries /\ sName[e] = Null
    BY DEF Register
  <2> HIDE DEF e
  <2>2. /\ newEntry' = [newEntry EXCEPT ![t] = e]
        /\ sName' = [sName EXCEPT ![e] = m]
        /\ address' = [address EXCEPT ![e] = a]
        /\ next' = [next EXCEPT ![e] = Null]
    BY DEF Register, e
  <2> QED BY <2>1, <2>2
<1>2. /\ pc[t] = "idle" /\ pc' = [pc EXCEPT ![t] = "readTail"] /\ pc \in [Threads -> Places]
      /\ overlapped' = (overlapped \/ \E u \in Threads : pc[u] \in Registers)
      /\ UNCHANGED <<last, tail, pEntry, wanted, found, registered, expected>>
  BY DEF Register, Goes, Typed, LocalsTyped, Registering, Registers
<1>3. NamesTyped'
  BY <1>1, <1>2 DEF Typed, NamesTyped, Registers
<1>t. /\ newEntry \in [Threads -> Entries \cup {Null}]
      /\ sName \in [Entries -> Names \cup {Null}]
      /\ next \in [Entries \cup {Head} -> Entries \cup {Null}]
      /\ \A u \in Threads : pc[u] \in Registers => newEntry[u] \in Entries
  BY DEF Typed, NamesTyped
<1>4. PICK n \in Nat : \E ch \in [0 .. n -> Entries \cup {Head}] : Chain(n, ch)
  BY DEF Chained
<1>5. PICK ch \in [0 .. n -> Entries \cup {Head}] : Chain(n, ch)
  BY <1>4
<1>6. \A i \in 0 .. n : ch[i] # e /\ next'[ch[i]] = next[ch[i]]
  BY <1>1, <1>5, <1>t DEF Chain, Prefix
<1>7. \A i \in 1 .. n : ch[i] \in Entries /\ sName'[ch[i]] = sName[ch[i]]
  BY <1>1, <1>5, <1>6, <1>t DEF Chain, Prefix
<1>8. Prefix(n, ch)'
  BY <1>5, <1>6, <1>7 DEF Chain, Prefix
<1>9. Spared(n, ch)'
  BY <1>1, <1>2, <1>5, <1>6, <1>t DEF Chain, Spared, Registers
<1>10. Reached(n, ch)'
  BY <1>2, <1>5, <1>7 DEF Chain, Reached
<1>11. Whole(n, ch)'
  BY <1>2, <1>5 DEF Chain, Whole, Registers
<1> QED BY <1>3, <1>8, <1>9, <1>10, <1>11 DEF Chain, Chained

LEMMA LookupListed ==
  ASSUME Typed, Chained, NEW t \in Threads, NEW m \in Names, Lookup(t, m)
  PROVE  NamesTyped' /\ Chained'
<1>1. /\ pc[t] = "idle" /\ pc' = [pc EXCEPT ![t] = "compare"] /\ pc \in [Threads -> Places]
      /\ pEntry' = [pEntry EXCEPT ![t] = next[Head]]
      /\ wanted' = [wanted EXCEPT ![t] = m]
      /\ expected' = [expected EXCEPT ![t] = m \in registered]
      /\ UNCHANGED <<sName, address, next, last, newEntry, tail, found, overlapped, registered>>
  BY DEF Lookup, Goes, list, Typed, LocalsTyped
<1>t. /\ pEntry \in [Threads -> Entries \cup {Null}] /\ wanted \in [Threads -> Names \cup {Null}]
      /\ expected \in [Threads -> BOOLEAN]
  BY DEF Typed, NamesTyped
<1>2. NamesTyped'
  BY <1>1 DEF Typed, NamesTyped, Registers
<1>3. PICK n \in Nat : \E ch \in [0 .. n -> Entries \cup {Head}] : Chain(n, ch)
  BY DEF Chained
<1>4. PICK ch \in [0 .. n -> Entries \cup {Head}] : Chain(n, ch)
  BY <1>3
<1>5. Prefix(n, ch)'
  BY <1>1, <1>4 DEF Chain, Prefix
<1>6. Spared(n, ch)'
  BY <1>1, <1>4 DEF Chain, Spared, Registers
<1>7. Reached(n, ch)'
  <2>1. ASSUME NEW u \in Threads, pc'[u] = "compare", expected'[u]
        PROVE  \E i, j \in 1 .. n : i <= j /\ pEntry'[u] = ch[i] /\ sName'[ch[j]] = wanted'[u]
    <3>1. CASE u # t
      BY <1>1, <1>4, <2>1, <3>1, <1>t DEF Chain, Reached
    <3>2. CASE u = t
      <4>1. m \in registered
        BY <1>1, <2>1, <3>2, <1>t
      <4>2. PICK j \in 1 .. n : sName[ch[j]] = m
        BY <1>4, <4>1 DEF Chain, Reached
      <4>3. 1 \in 1 .. n /\ 1 <= j /\ next[Head] = ch[1]
        BY <1>4 DEF Chain, Prefix
      <4> QED BY <4>2, <4>3, <3>2, <1>1, <1>t
    <3> QED BY <3>1, <3>2
  <2> QED BY <1>1, <1>4, <2>1 DEF Chain, Reached
<1>8. Whole(n, ch)'
  BY <1>1, <1>4 DEF Chain, Whole, Registers
<1> QED BY <1>2, <1>5, <1>6, <1>7, <1>8 DEF Chain, Chained

LEMMA CompareListed ==
  ASSUME Typed, Chained, NEW t \in Threads, Compare(t) PROVE NamesTyped' /\ Chained'
<1>t. /\ pEntry \in [Threads -> Entries \cup {Null}] /\ wanted \in [Threads -> Names \cup {Null}]
      /\ expected \in [Threads -> BOOLEAN] /\ pc \in [Threads -> Places]
      /\ next \in [Entries \cup {Head} -> Entries \cup {Null}]
  BY DEF Typed, NamesTyped, LocalsTyped
<1>1. PICK n \in Nat : \E ch \in [0 .. n -> Entries \cup {Head}] : Chain(n, ch)
  BY DEF Chained
<1>2. PICK ch \in [0 .. n -> Entries \cup {Head}] : Chain(n, ch)
  BY <1>1
<1>3. ASSUME NEW a, NEW q \in {"idle", "found"}, LookupReturns(t, a, q)
      PROVE  NamesTyped' /\ Chained'
  <2>1. /\ pc[t] = "compare" /\ pc' = [pc EXCEPT ![t] = q]
        /\ pEntry' = [pEntry EXCEPT ![t] = Null] /\ wanted' = [wanted EXCEPT ![t] = Null]
        /\ expected' = [expected EXCEPT ![t] = FALSE]
        /\ UNCHANGED <<sName, address, next, last, newEntry, tail, overlapped, registered>>
    BY <1>3 DEF LookupReturns, Goes, list
  <2>2. NamesTyped'
    BY <2>1, <1>t DEF Typed, NamesTyped, Registers
  <2>3. Prefix(n, ch)'
    BY <2>1, <1>2 DEF Chain, Prefix
  <2>4. Spared(n, ch)'
    BY <2>1, <1>2, <1>t DEF Chain, Spared, Registers
  <2>5. Reached(n, ch)'
    BY <2>1, <1>2, <1>t DEF Chain, Reached
  <2>6. Whole(n, ch)'
    BY <2>1, <1>2, <1>t DEF Chain, Whole, Registers
  <2> QED BY <2>2, <2>3, <2>4, <2>5, <2>6 DEF Chain, Chained
<1>4. ASSUME pEntry[t] # Null, sName[pEntry[t]] # wanted[t], NextEntry(t)
      PROVE  NamesTyped' /\ Chained'
  <2>1. /\ pc[t] = "compare" /\ pEntry' = [pEntry EXCEPT ![t] = next[pEntry[t]]]
        /\ UNCHANGED <<pc, sName, address, next, last, newEntry, tail, wanted, found,
                       overlapped, registered, expected>>
    BY <1>4, <1>t DEF NextEntry, At, list
  <2>2. NamesTyped'
    BY <2>1, <1>4, <1>t DEF Typed, NamesTyped, Registers
  <2>3. Prefix(n, ch)'
    BY <2>1, <1>2 DEF Chain, Prefix
  <2>4. Spared(n, ch)'
    BY <2>1, <1>2 DEF Chain, Spared
  <2>5. Reached(n, ch)'
    <3>1. ASSUME NEW u \in Threads, pc'[u] = "compare", expected'[u]
          PROVE  \E i, j \in 1 .. n : i <= j /\ pEntry'[u] = ch[i] /\ sName'[ch[j]] = wanted'[u]
      <4>1. PICK i \in 1 .. n, j \in 1 .. n :
              i <= j /\ pEntry[u] = ch[i] /\ sName[ch[j]] = wanted[u]
        BY <2>1, <1>2, <3>1 DEF Chain, Reached
      <4>2. CASE u # t
        BY <4>1, <4>2, <2>1, <1>t
      <4>3. CASE u = t
        <5>1. i # j
          BY <4>1, <4>3, <1>4
        <5>2. i + 1 \in 1 .. n /\ i + 1 <= j /\ i \in 0 .. n - 1
          BY <5>1, <4>1
        <5>3. pEntry'[t] = ch[i + 1]
          BY <5>2, <4>1, <4>3, <2>1, <1>2, <1>t DEF Chain, Prefix
        <5> QED BY <5>2, <5>3, <4>1, <4>3, <2>1
      <4> QED BY <4>2, <4>3
    <3> QED BY <2>1, <1>2, <3>1 DEF Chain, Reached
  <2>6. Whole(n, ch)'
    BY <2>1, <1>2 DEF Chain, Whole
  <2> QED BY <2>2, <2>3, <2>4, <2>5, <2>6 DEF Chain, Chained
<1>5. CASE pEntry[t] = Null
  BY <1>3, <1>5 DEF Compare
<1>6. CASE pEntry[t] # Null /\ sName[pEntry[t]] = wanted[t]
  BY <1>3, <1>6 DEF Compare
<1>7. CASE pEntry[t] # Null /\ sName[pEntry[t]] # wanted[t]
  BY <1>4, <1>7 DEF Compare
<1> QED BY <1>5, <1>6, <1>7

LEMMA NamingListed ==
  ASSUME Typed, Chained, NEW t \in Threads, Naming(t) PROVE NamesTyped' /\ Chained'
<1>1. ASSUME NEW m \in NamesOf[t], owns[t] # 0, Register(t, m, <<TaskOf[t], owns[t]>>)
      PROVE  NamesTyped' /\ Chained'
  <2>1. m \in Names /\ <<TaskOf[t], owns[t]>> \in Addresses
    BY <1>1, TableAssumption DEF Typed, TTypeOK
  <2> QED BY <2>1, <1>1, RegisterListed
<1> QED BY <1>1, ReadTailListed, LinkListed, MoveTailListed, CompareListed, LookupListed
        DEF Naming, NameStep

\* What NamesAreFound needs: the entry a lookup is at, while it has to find its name.
LEMMA ChainedFinds == Typed /\ Chained => NamesAreFound
<1> SUFFICES ASSUME Typed, Chained, NEW t \in Threads, At(t, "compare"), pEntry[t] = Null, expected[t]
             PROVE  FALSE
  BY DEF NamesAreFound, Typed, NamesTyped
<1>1. PICK n \in Nat : \E ch \in [0 .. n -> Entries \cup {Head}] : Chain(n, ch)
  BY DEF Chained
<1>2. PICK ch \in [0 .. n -> Entries \cup {Head}] : Chain(n, ch)
  BY <1>1
<1> QED BY <1>2, NameAssumption DEF Chain, Prefix, Reached, At

-----------------------------------------------------------------------------
(* Who owns a connection.                                                  *)

Out(p, i) == pConnectionsOut[p][i]

\* No delete of what slot i of task p refers to waits to clear the slot.
Clean(p, i) == \A t \in Threads : TaskOf[t] = p /\ id[t] = i => pc[t] # "clear"

\* Thread t has connection id i, or attaches or detaches under it.
Mine(t, i) ==
  \/ holds[t][i] # NoChannel
  \/ id[t] = i /\ pc[t] \in Stored \cup DetachAt

\* No two threads have one id of a task.
OneOwner ==
  \A t, u \in Threads, i \in OutSlots :
    TaskOf[t] = TaskOf[u] /\ Mine(t, i) /\ Mine(u, i) => t = u

OwnedFull == \A t \in Threads, i \in OutSlots : Mine(t, i) => Out(TaskOf[t], i) # Null

\* A thread that attaches or detaches under an id does not have it.
NotBoth == \A t \in Threads : pc[t] \in Stored \cup DetachAt => holds[t][id[t]] = NoChannel

\* A slot refers to a connection that exists, and no two to the same.
RefLive ==
  \A p \in Tasks, i \in OutSlots : Out(p, i) # Null /\ Clean(p, i) => Out(p, i) \in live
RefOnce ==
  \A p, q \in Tasks, i, j \in OutSlots :
    Out(p, i) # Null /\ Out(p, i) = Out(q, j) /\ Clean(p, i) /\ Clean(q, j)
      => p = q /\ i = j

\* What an attach has in its hands exists, leads to its channel, is in no
\* other hands, and is in no slot until it is stored in one.
HandLive ==
  \A t \in Threads : conn[t] # Null => conn[t] \in live /\ channelOf[conn[t]] = chan[t]
HandOnce == \A t, u \in Threads : conn[t] # Null /\ conn[t] = conn[u] => t = u
HandNotRef ==
  \A t \in Threads, p \in Tasks, i \in OutSlots :
    pc[t] \in InHand /\ Clean(p, i) => Out(p, i) # conn[t]
StoredRef == \A t \in Threads : pc[t] \in Stored => Out(TaskOf[t], id[t]) = conn[t]

Accounted ==
  \A k \in Connections \cap live :
    \/ k \in gaveUp
    \/ \E t \in Threads : conn[t] = k
    \/ \E p \in Tasks, i \in OutSlots : Out(p, i) = k /\ Clean(p, i)

Listed ==
  \A c \in Channels \cap live, i \in InSlots :
    entries[c][i] # Null => entries[c][i] \in live /\ channelOf[entries[c][i]] = c

Owned ==
  /\ OneOwner /\ OwnedFull /\ NotBoth /\ RefLive /\ RefOnce
  /\ HandLive /\ HandOnce /\ HandNotRef /\ StoredRef /\ Accounted /\ Listed

\* The id a thread attaches or detaches under is its own, and only its
\* detach comes to clear the slot.
LEMMA OwnSlot ==
  ASSUME Typed, Owned, NEW t \in Threads, pc[t] \in Stored \cup DetachAt
  PROVE  /\ TaskOf[t] \in Tasks /\ id[t] \in OutSlots /\ Mine(t, id[t])
         /\ Out(TaskOf[t], id[t]) \in Connections
         /\ \A u \in Threads : TaskOf[u] = TaskOf[t] /\ Mine(u, id[t]) => u = t
         /\ pc[t] # "clear" => Clean(TaskOf[t], id[t])
<1>1. TaskOf[t] \in Tasks /\ id[t] \in OutSlots /\ Mine(t, id[t])
  BY TableAssumption DEF Typed, TTypeOK, LocalsTyped, Placed, Mine
<1>2. \A u \in Threads : TaskOf[u] = TaskOf[t] /\ Mine(u, id[t]) => u = t
  BY <1>1 DEF Owned, OneOwner
<1>3. Out(TaskOf[t], id[t]) \in Connections
  BY <1>1 DEF Owned, OwnedFull, Out, Typed, TTypeOK
<1>4. pc[t] # "clear" => Clean(TaskOf[t], id[t])
  BY <1>2 DEF Clean, Mine, DetachAt
<1> QED BY <1>1, <1>2, <1>3, <1>4

LEMMA HeldSlot ==
  ASSUME Typed, Owned, NEW t \in Threads, NEW i \in OutSlots, holds[t][i] # NoChannel
  PROVE  /\ TaskOf[t] \in Tasks /\ Out(TaskOf[t], i) \in Connections /\ Clean(TaskOf[t], i)
         /\ \A u \in Threads : TaskOf[u] = TaskOf[t] /\ Mine(u, i) => u = t
<1>1. TaskOf[t] \in Tasks /\ Mine(t, i)
  BY TableAssumption DEF Mine
<1>2. \A u \in Threads : TaskOf[u] = TaskOf[t] /\ Mine(u, i) => u = t
  BY <1>1 DEF Owned, OneOwner
<1>3. Out(TaskOf[t], i) \in Connections
  BY <1>1 DEF Owned, OwnedFull, Out, Typed, TTypeOK
<1>4. Clean(TaskOf[t], i)
  <2> SUFFICES ASSUME NEW u \in Threads, TaskOf[u] = TaskOf[t], id[u] = i, pc[u] = "clear"
               PROVE  FALSE
    BY DEF Clean
  <2>1. Mine(u, i)
    BY DEF Mine, DetachAt
  <2>2. u = t
    BY <1>2, <2>1
  <2> QED BY <2>2 DEF Owned, NotBoth, DetachAt
<1> QED BY <1>1, <1>2, <1>3, <1>4

\* The connection a thread is about to disconnect or delete belongs to nobody else.
LEMMA DetachedIsOwn ==
  ASSUME Typed, Owned, NEW t \in Threads, pc[t] \in {"disconnect", "delete"}
  PROVE  /\ ForDetach(t) = Out(TaskOf[t], id[t]) /\ ForDetach(t) \in Connections \cap live
         /\ \A u \in Threads : conn[u] # ForDetach(t)
         /\ \A p \in Tasks, i \in OutSlots :
              Out(p, i) = ForDetach(t) /\ Clean(p, i) => p = TaskOf[t] /\ i = id[t]
         /\ \A u \in Threads, i \in OutSlots :
              holds[u][i] # NoChannel => Out(TaskOf[u], i) # ForDetach(t)
<1> DEFINE k == ForDetach(t)
<1>n. Null \notin Connections
  BY TableAssumption
<1>1. k = Out(TaskOf[t], id[t])
  BY DEF ForDetach, Out
<1>2. /\ pc[t] \in Stored \cup DetachAt /\ pc[t] \notin Stored /\ pc[t] # "clear"
  BY DEF DetachAt, Stored
<1>3. /\ TaskOf[t] \in Tasks /\ id[t] \in OutSlots /\ Mine(t, id[t]) /\ k \in Connections
      /\ \A u \in Threads : TaskOf[u] = TaskOf[t] /\ Mine(u, id[t]) => u = t
      /\ Clean(TaskOf[t], id[t])
  BY <1>1, <1>2, OwnSlot
<1>4. k \in live
  BY <1>1, <1>3, <1>n DEF Owned, RefLive
<1> HIDE DEF k
<1>5. \A p \in Tasks, i \in OutSlots : Out(p, i) = k /\ Clean(p, i) => p = TaskOf[t] /\ i = id[t]
  BY <1>1, <1>3, <1>n DEF Owned, RefOnce
<1>6. ASSUME NEW u \in Threads, conn[u] = k PROVE FALSE
  <2>1. pc[u] \in InHand \cup Stored
    BY <1>3, <1>6, <1>n DEF Typed, LocalsTyped, Placed
  <2>2. pc[u] \notin InHand
    BY <1>1, <1>3, <1>6 DEF Owned, HandNotRef
  <2>3. pc[u] \in Stored /\ pc[u] # "clear"
    BY <2>1, <2>2 DEF Stored
  <2>4. TaskOf[u] \in Tasks /\ id[u] \in OutSlots /\ Mine(u, id[u]) /\ Clean(TaskOf[u], id[u])
    BY <2>3, OwnSlot
  <2>5. Out(TaskOf[u], id[u]) = k
    BY <2>3, <1>6 DEF Owned, StoredRef
  <2>6. TaskOf[u] = TaskOf[t] /\ id[u] = id[t]
    BY <2>4, <2>5, <1>5
  <2>7. u = t
    BY <2>4, <2>6, <1>3
  <2> QED BY <2>3, <2>7, <1>2
<1>7. ASSUME NEW u \in Threads, NEW i \in OutSlots, holds[u][i] # NoChannel, Out(TaskOf[u], i) = k
      PROVE  FALSE
  <2>1. TaskOf[u] \in Tasks /\ Clean(TaskOf[u], i) /\ Mine(u, i)
    BY <1>7, HeldSlot DEF Mine
  <2>2. TaskOf[u] = TaskOf[t] /\ i = id[t]
    BY <2>1, <1>5, <1>7
  <2>3. u = t
    BY <2>1, <2>2, <1>3
  <2> QED BY <2>2, <2>3, <1>2, <1>7 DEF Owned, NotBoth
<1> QED BY <1>1, <1>3, <1>4, <1>5, <1>6, <1>7 DEF k

LEMMA InitOwned == TInit => Owned
<1> SUFFICES ASSUME TInit PROVE Owned
  OBVIOUS
<1> USE TableAssumption DEF TInit, NInit, Out, Clean, Mine, Stored, DetachAt, InHand
<1>1. OneOwner /\ OwnedFull /\ NotBoth
  BY DEF OneOwner, OwnedFull, NotBoth
<1>2. RefLive /\ RefOnce
  BY DEF RefLive, RefOnce
<1>3. HandLive /\ HandOnce /\ HandNotRef /\ StoredRef
  BY DEF HandLive, HandOnce, HandNotRef, StoredRef
<1>4. Accounted /\ Listed
  BY DEF Accounted, Listed
<1> QED BY <1>1, <1>2, <1>3, <1>4 DEF Owned

\* A step that leaves out tables and what threads own as they are keeps
\* the ownership, if channels list live connections after it.
LEMMA QuietOwned ==
  ASSUME Typed, Owned,
         UNCHANGED <<pConnectionsOut, holds, gaveUp, conn>>,
         live' \cap Connections = live \cap Connections,
         \A u \in Threads : conn[u] # Null =>
           chan'[u] = chan[u] /\ channelOf'[conn[u]] = channelOf[conn[u]],
         \A u \in Threads : pc[u] \in Stored \cup DetachAt => id'[u] = id[u],
         \A u \in Threads : /\ pc'[u] \in InHand <=> pc[u] \in InHand
                            /\ pc'[u] \in Stored <=> pc[u] \in Stored
                            /\ pc'[u] \in DetachAt <=> pc[u] \in DetachAt
                            /\ pc'[u] = "clear" <=> pc[u] = "clear",
         Listed'
  PROVE  Owned'
<1>c. \A u \in Threads : pc'[u] = "clear" => id'[u] = id[u]
  BY DEF DetachAt
<1>1. \A p, i : Clean(p, i)' <=> Clean(p, i)
  <2>1. ASSUME NEW p, NEW i, Clean(p, i) PROVE Clean(p, i)'
    BY <1>c, <2>1 DEF Clean
  <2>2. ASSUME NEW p, NEW i, Clean(p, i)' PROVE Clean(p, i)
    BY <1>c, <2>2 DEF Clean
  <2> QED BY <2>1, <2>2
<1>2. \A u \in Threads : \A i : Mine(u, i)' <=> Mine(u, i)
  BY DEF Mine
<1>3. \A p, i : Out(p, i)' = Out(p, i)
  BY DEF Out
<1>t. /\ pConnectionsOut \in [Tasks -> [OutSlots -> Connections \cup {Null}]]
      /\ \A u \in Threads : conn[u] \in Connections \cup {Null}
      /\ \A p \in Tasks, i \in OutSlots : Out(p, i) \in Connections \cup {Null}
  BY DEF Typed, TTypeOK, Out
<1>4. OneOwner' /\ OwnedFull'
  BY <1>2, <1>3 DEF Owned, OneOwner, OwnedFull
<1>5. NotBoth'
  BY DEF Owned, NotBoth
<1>6. RefLive'
  BY <1>1, <1>3, <1>t DEF Owned, RefLive
<1>7. RefOnce'
  BY <1>1, <1>3 DEF Owned, RefOnce
<1>8. HandLive'
  BY <1>t DEF Owned, HandLive
<1>9. HandOnce'
  BY DEF Owned, HandOnce
<1>10. HandNotRef'
  BY <1>1, <1>3 DEF Owned, HandNotRef
<1>11. StoredRef'
  BY <1>3 DEF Owned, StoredRef
<1>12. Accounted'
  BY <1>1, <1>3 DEF Owned, Accounted
<1> QED BY <1>4, <1>5, <1>6, <1>7, <1>8, <1>9, <1>10, <1>11, <1>12 DEF Owned

\* A connection that leaves its channel is listed there no more.
LEMMA LeaveListed ==
  ASSUME Typed, Listed, NEW k \in Connections, Leave(k), live' \in {live, live \ {k}}
  PROVE  Listed' /\ \A l \in Connections \ {k} : channelOf'[l] = channelOf[l]
<1> USE TableAssumption
<1>t. /\ channelOf \in [Connections -> Channels \cup {Null}]
      /\ entries \in [Channels -> [InSlots -> Connections \cup {Null}]]
  BY DEF Typed, TTypeOK
<1>1. CASE channelOf[k] = Null
  <2>1. UNCHANGED <<entries, channelOf>>
    BY <1>1 DEF Leave
  <2>2. \A c \in Channels \cap live, i \in InSlots : entries[c][i] # k
    BY <1>1 DEF Listed
  <2>3. Listed'
    BY <2>1, <2>2, <1>t DEF Listed
  <2> QED BY <2>1, <2>3
<1>2. CASE channelOf[k] # Null
  <2> DEFINE d == channelOf[k]
  <2>1. /\ d \in Channels
        /\ entries' = [entries EXCEPT ![d] = Without(entries[d], k)]
        /\ channelOf' = [channelOf EXCEPT ![k] = Null]
    BY <1>2, <1>t DEF Leave
  <2> HIDE DEF d
  <2>2. \A c \in Channels, i \in InSlots :
          entries'[c][i] = IF c = d /\ entries[c][i] = k THEN Null ELSE entries[c][i]
    BY <2>1, <1>t DEF Without
  <2>3. \A c \in Channels \cap live, i \in InSlots : entries[c][i] = k => c = d
    BY DEF Listed, d
  <2>4. Listed'
    <3> SUFFICES ASSUME NEW c \in Channels \cap live', NEW i \in InSlots, entries'[c][i] # Null
                 PROVE  entries'[c][i] \in live' /\ channelOf'[entries'[c][i]] = c
      BY DEF Listed
    <3>1. c \in live
      OBVIOUS
    <3>2. entries'[c][i] = entries[c][i] /\ entries[c][i] # k /\ entries[c][i] \in Connections
      BY <2>2, <2>3, <3>1, <1>t
    <3>3. entries[c][i] \in live /\ channelOf[entries[c][i]] = c
      BY <3>1, <3>2 DEF Listed
    <3> QED BY <3>2, <3>3, <2>1, <1>t
  <2> QED BY <2>1, <2>4, <1>t
<1> QED BY <1>1, <1>2

LEMMA ConnectOwned ==
  ASSUME Typed, Owned, NEW t \in Threads, NEW k \in Connections \ live, NEW q \in {"findOut", "enter"},
         Goes(t, "connect", q), conn' = [conn EXCEPT ![t] = k], live' = live \cup {k},
         channelOf' = [channelOf EXCEPT ![k] = chan[t]],
         UNCHANGED <<pConnectionsOut, entries, id, chan, holds, gaveUp>>
  PROVE  Owned'
<1>t. /\ pc \in [Threads -> Places] /\ conn \in [Threads -> Connections \cup {Null}]
      /\ channelOf \in [Connections -> Channels \cup {Null}] /\ conn[t] = Null
      /\ entries \in [Channels -> [InSlots -> Connections \cup {Null}]]
  BY DEF Typed, TTypeOK, LocalsTyped, Placed, Goes, InHand, Stored
<1>n. Null \notin Connections /\ Channels \cap Connections = {}
  BY TableAssumption
<1>p. /\ pc[t] = "connect" /\ pc'[t] \in InHand
      /\ pc'[t] \notin Stored /\ pc'[t] \notin DetachAt /\ pc[t] \notin Stored /\ pc[t] \notin DetachAt
      /\ pc'[t] # "clear"
      /\ \A u \in Threads : u # t => pc'[u] = pc[u] /\ conn'[u] = conn[u]
      /\ conn'[t] = k
  BY <1>t DEF Goes, InHand, Stored, DetachAt
<1>1. \A p, i : Clean(p, i)' <=> Clean(p, i)
  <2>1. \A u \in Threads : pc'[u] = "clear" <=> pc[u] = "clear"
    BY <1>p
  <2> QED BY <2>1 DEF Clean
<1>2. \A u \in Threads : \A i : Mine(u, i)' <=> Mine(u, i)
  BY <1>p DEF Mine
<1>3. \A p, i : Out(p, i)' = Out(p, i)
  BY DEF Out
<1>4. OneOwner' /\ OwnedFull'
  BY <1>2, <1>3 DEF Owned, OneOwner, OwnedFull
<1>5. NotBoth'
  BY <1>p DEF Owned, NotBoth
<1>6. RefLive'
  BY <1>1, <1>3 DEF Owned, RefLive
<1>7. RefOnce'
  BY <1>1, <1>3 DEF Owned, RefOnce
<1>8. HandLive' /\ HandOnce'
  BY <1>t, <1>n, <1>p DEF Owned, HandLive, HandOnce
<1>9. HandNotRef'
  <2>1. \A p \in Tasks, i \in OutSlots : Clean(p, i) => Out(p, i) # k
    BY <1>n DEF Owned, RefLive
  <2> QED BY <1>1, <1>3, <1>p, <2>1 DEF Owned, HandNotRef
<1>10. StoredRef'
  BY <1>3, <1>p DEF Owned, StoredRef
<1>11. Accounted'
  <2> SUFFICES ASSUME NEW l \in Connections \cap live' 
               PROVE  \/ l \in gaveUp
                      \/ \E u \in Threads : conn'[u] = l
                      \/ \E p \in Tasks, i \in OutSlots : Out(p, i) = l /\ Clean(p, i)
    BY <1>1, <1>3 DEF Accounted
  <2>1. CASE l = k
    BY <2>1, <1>p
  <2>2. CASE l # k
    <3>1. \/ l \in gaveUp
          \/ \E u \in Threads : conn[u] = l
          \/ \E p \in Tasks, i \in OutSlots : Out(p, i) = l /\ Clean(p, i)
      BY <2>2 DEF Owned, Accounted
    <3>2. \A u \in Threads : conn[u] = l => conn'[u] = l
      BY <1>t, <1>n, <1>p
    <3> QED BY <3>1, <3>2
  <2> QED BY <2>1, <2>2
<1>12. Listed'
  BY <1>t, <1>n DEF Owned, Listed
<1> QED BY <1>4, <1>5, <1>6, <1>7, <1>8, <1>9, <1>10, <1>11, <1>12 DEF Owned

\* An attach that finds no out slot leaves its connection behind.
LEMMA GiveUpOwned ==
  ASSUME Typed, Owned, NEW t \in Threads,
         Goes(t, "findOut", "idle"), AttachReturns(t), gaveUp' = gaveUp \cup {conn[t]},
         UNCHANGED <<pConnectionsOut, entries, channelOf, live, holds>>
  PROVE  Owned'
<1>t. /\ pc \in [Threads -> Places] /\ conn \in [Threads -> Connections \cup {Null}]
      /\ chan \in [Threads -> Channels \cup {Null}] /\ id \in [Threads -> OutSlots \cup {0}]
  BY DEF Typed, TTypeOK, LocalsTyped
<1>n. Null \notin Connections
  BY TableAssumption
<1>p. /\ pc[t] = "findOut" /\ pc'[t] = "idle" /\ conn'[t] = Null
      /\ pc'[t] \notin Stored /\ pc'[t] \notin DetachAt /\ pc[t] \notin Stored /\ pc[t] \notin DetachAt
      /\ pc'[t] \notin InHand
      /\ \A u \in Threads : u # t =>
           pc'[u] = pc[u] /\ conn'[u] = conn[u] /\ chan'[u] = chan[u] /\ id'[u] = id[u]
  BY <1>t DEF Goes, AttachReturns, InHand, Stored, DetachAt
<1>1. \A p, i : Clean(p, i)' <=> Clean(p, i)
  <2>1. \A u \in Threads : /\ pc'[u] = "clear" <=> pc[u] = "clear"
                           /\ pc[u] = "clear" => id'[u] = id[u]
    BY <1>p
  <2> QED BY <2>1 DEF Clean
<1>2. \A u \in Threads : \A i : Mine(u, i)' <=> Mine(u, i)
  BY <1>p DEF Mine
<1>3. \A p, i : Out(p, i)' = Out(p, i)
  BY DEF Out
<1>4. OneOwner' /\ OwnedFull'
  BY <1>2, <1>3 DEF Owned, OneOwner, OwnedFull
<1>5. NotBoth'
  BY <1>p DEF Owned, NotBoth
<1>6. RefLive'
  BY <1>1, <1>3 DEF Owned, RefLive
<1>7. RefOnce'
  BY <1>1, <1>3 DEF Owned, RefOnce
<1>8. HandLive' /\ HandOnce'
  BY <1>p DEF Owned, HandLive, HandOnce
<1>9. HandNotRef'
  BY <1>1, <1>3, <1>p DEF Owned, HandNotRef
<1>10. StoredRef'
  BY <1>3, <1>p DEF Owned, StoredRef
<1>11. Accounted'
  <2>1. \A l \in Connections : \A u \in Threads : conn[u] = l => conn'[u] = l \/ l \in gaveUp'
    BY <1>p
  <2> QED BY <1>1, <1>3, <2>1 DEF Owned, Accounted
<1>12. Listed'
  BY DEF Owned, Listed
<1> QED BY <1>4, <1>5, <1>6, <1>7, <1>8, <1>9, <1>10, <1>11, <1>12 DEF Owned

\* The store into a slot that is still empty.
LEMMA StoreOutOwned ==
  ASSUME Typed, Owned, NEW t \in Threads, StoreOut(t), Out(TaskOf[t], id[t]) = Null,
         UNCHANGED queue
  PROVE  Owned'
<1> DEFINE p0 == TaskOf[t]
           i0 == id[t]
<1>n. Null \notin Connections
  BY TableAssumption
<1>t. /\ pc \in [Threads -> Places] /\ conn \in [Threads -> Connections \cup {Null}]
      /\ pConnectionsOut \in [Tasks -> [OutSlots -> Connections \cup {Null}]]
  BY DEF Typed, TTypeOK, LocalsTyped
<1>u. p0 \in Tasks /\ i0 \in OutSlots /\ conn[t] \in Connections
  <2>1. pc[t] = "storeOut"
    BY DEF StoreOut, Goes
  <2>2. id[t] # 0 /\ conn[t] # Null
    BY <2>1 DEF Typed, LocalsTyped, Placed, InHand
  <2> QED BY <2>2, TableAssumption DEF Typed, TTypeOK
<1>p. /\ pc[t] = "storeOut" /\ pc'[t] = "findIn"
      /\ pc[t] \in InHand /\ pc[t] \notin Stored /\ pc[t] \notin DetachAt
      /\ pc'[t] \in Stored /\ pc'[t] \notin InHand /\ pc'[t] \notin DetachAt
      /\ \A u \in Threads : u # t => pc'[u] = pc[u]
      /\ UNCHANGED <<entries, channelOf, live, id, chan, conn, holds, gaveUp>>
  BY <1>t, <1>u DEF StoreOut, Goes, objects, InHand, Stored, DetachAt
<1>3. \A p \in Tasks, i \in OutSlots :
        Out(p, i)' = IF p = p0 /\ i = i0 THEN conn[t] ELSE Out(p, i)
  BY <1>t, <1>u DEF StoreOut, Out
<1> HIDE DEF p0, i0
<1>0. Out(p0, i0) = Null
  BY DEF p0, i0
<1>1. \A p, i : Clean(p, i)' <=> Clean(p, i)
  <2>1. \A u \in Threads : pc'[u] = "clear" <=> pc[u] = "clear"
    BY <1>p
  <2> QED BY <1>p, <2>1 DEF Clean
<1>2. \A u \in Threads : \A i : Mine(u, i)' <=> Mine(u, i) \/ (u = t /\ i = i0)
  BY <1>p DEF Mine, i0
<1>s. \A u \in Threads : TaskOf[u] \in Tasks
  BY TableAssumption
<1>f. \A u \in Threads : ~ (TaskOf[u] = p0 /\ Mine(u, i0))
  BY <1>0, <1>t, <1>u DEF Owned, OwnedFull
<1>4. OneOwner'
  BY <1>2, <1>f DEF Owned, OneOwner, p0
<1>5. OwnedFull'
  BY <1>2, <1>3, <1>n, <1>t, <1>u, <1>s DEF Owned, OwnedFull, p0
<1>6. NotBoth'
  <2>1. holds[t][i0] = NoChannel
    BY <1>f DEF Mine, p0
  <2> QED BY <1>p, <2>1 DEF Owned, NotBoth, i0
<1>7. RefLive'
  BY <1>1, <1>3, <1>n, <1>p, <1>t, <1>u DEF Owned, RefLive, HandLive
<1>8. RefOnce'
  <2>1. \A p \in Tasks, i \in OutSlots : Clean(p, i) => Out(p, i) # conn[t]
    BY <1>p DEF Owned, HandNotRef
  <2> QED BY <1>1, <1>3, <2>1 DEF Owned, RefOnce
<1>9. HandLive' /\ HandOnce'
  BY <1>p DEF Owned, HandLive, HandOnce
<1>10. HandNotRef'
  <2>1. \A u \in Threads : u # t => conn[u] # conn[t]
    BY <1>n, <1>t, <1>u DEF Owned, HandOnce
  <2> QED BY <1>1, <1>3, <1>p, <2>1 DEF Owned, HandNotRef
<1>11. StoredRef'
  <2> SUFFICES ASSUME NEW u \in Threads, pc'[u] \in Stored PROVE Out(TaskOf[u], id[u])' = conn[u]
    BY <1>p DEF StoredRef
  <2>1. CASE u = t
    BY <2>1, <1>3, <1>t, <1>u, <1>p DEF p0, i0, Out
  <2>2. CASE u # t
    <3>1. pc[u] \in Stored
      BY <2>2, <1>p
    <3>2. id[u] \in OutSlots /\ Mine(u, id[u])
      BY <3>1, OwnSlot
    <3>3. Out(TaskOf[u], id[u]) = conn[u]
      BY <3>1 DEF Owned, StoredRef
    <3>4. ~ (TaskOf[u] = p0 /\ id[u] = i0)
      BY <3>2, <1>f
    <3>5. id'[u] = id[u]
      BY <1>p
    <3> QED BY <3>2, <3>3, <3>4, <3>5, <1>3, <1>s DEF Out
  <2> QED BY <2>1, <2>2
<1>12. Accounted'
  BY <1>0, <1>1, <1>3, <1>n, <1>p DEF Owned, Accounted
<1>13. Listed'
  BY <1>p DEF Owned, Listed
<1> QED BY <1>4, <1>5, <1>6, <1>7, <1>8, <1>9, <1>10, <1>11, <1>12, <1>13 DEF Owned

\* An attach that has stored its connection returns: it has the id or,
\* if the in table was full, nobody has it.
LEMMA ReturnOwned ==
  ASSUME Typed, Owned, NEW t \in Threads,
         \/ Goes(t, "findIn", "idle") /\ holds' = holds
         \/ /\ Goes(t, "storeIn", "idle")
            /\ \E h : h # NoChannel /\ holds' = [holds EXCEPT ![t][id[t]] = h],
         AttachReturns(t),
         UNCHANGED <<pConnectionsOut, entries, channelOf, live, gaveUp>>
  PROVE  Owned'
<1> DEFINE i0 == id[t]
<1>n. Null \notin Connections
  BY TableAssumption
<1>t. /\ pc \in [Threads -> Places] /\ conn \in [Threads -> Connections \cup {Null}]
      /\ chan \in [Threads -> Channels \cup {Null}] /\ id \in [Threads -> OutSlots \cup {0}]
      /\ holds \in [Threads -> [OutSlots -> [server : Tasks \cup {Null}, channel : Channels \cup {Null}]]]
      /\ 0 \notin OutSlots
  BY TableAssumption DEF Typed, TTypeOK, LocalsTyped
<1>a. PICK h :
      /\ pc[t] \in {"findIn", "storeIn"} /\ pc' = [pc EXCEPT ![t] = "idle"]
      /\ holds' = holds \/ (h # NoChannel /\ holds' = [holds EXCEPT ![t][i0] = h])
  BY DEF Goes
<1>p. /\ pc[t] \notin InHand /\ pc[t] \in Stored /\ pc[t] \notin DetachAt /\ pc[t] # "clear"
      /\ pc'[t] = "idle" /\ pc'[t] \notin Stored /\ pc'[t] \notin InHand /\ pc'[t] \notin DetachAt
      /\ conn'[t] = Null /\ id'[t] = 0
      /\ \A u \in Threads : u # t =>
           pc'[u] = pc[u] /\ conn'[u] = conn[u] /\ chan'[u] = chan[u] /\ id'[u] = id[u]
  BY <1>a, <1>t DEF AttachReturns, InHand, Stored, DetachAt
<1>o. /\ TaskOf[t] \in Tasks /\ i0 \in OutSlots /\ Mine(t, i0)
      /\ Clean(TaskOf[t], i0) /\ Out(TaskOf[t], i0) = conn[t]
      /\ \A u \in Threads : TaskOf[u] = TaskOf[t] /\ Mine(u, i0) => u = t
  BY <1>p, OwnSlot DEF Owned, StoredRef
<1> HIDE DEF i0
<1>h. \A u \in Threads, i \in OutSlots :
        /\ u # t \/ i # i0 => holds'[u][i] = holds[u][i]
        /\ holds'[u][i] # NoChannel => holds[u][i] # NoChannel \/ (u = t /\ i = i0)
  BY <1>a, <1>t, <1>o
<1>1. \A p, i : Clean(p, i)' <=> Clean(p, i)
  <2>1. \A u \in Threads : /\ pc'[u] = "clear" <=> pc[u] = "clear"
                           /\ pc[u] = "clear" => id'[u] = id[u]
    BY <1>p
  <2> QED BY <2>1 DEF Clean
<1>2. \A u \in Threads, i \in OutSlots : Mine(u, i)' => Mine(u, i)
  BY <1>p, <1>h, <1>o DEF Mine
<1>3. \A p, i : Out(p, i)' = Out(p, i)
  BY DEF Out
<1>4. OneOwner' /\ OwnedFull'
  BY <1>2, <1>3 DEF Owned, OneOwner, OwnedFull
<1>5. NotBoth'
  <2> SUFFICES ASSUME NEW u \in Threads, pc'[u] \in Stored \cup DetachAt
               PROVE  holds'[u][id'[u]] = NoChannel
    BY DEF NotBoth
  <2>1. u # t /\ pc[u] \in Stored \cup DetachAt /\ id'[u] = id[u]
    BY <1>p
  <2>2. id[u] \in OutSlots
    BY <2>1, OwnSlot
  <2> QED BY <2>1, <2>2, <1>h DEF Owned, NotBoth
<1>6. RefLive'
  BY <1>1, <1>3 DEF Owned, RefLive
<1>7. RefOnce'
  BY <1>1, <1>3 DEF Owned, RefOnce
<1>8. HandLive' /\ HandOnce'
  BY <1>p DEF Owned, HandLive, HandOnce
<1>9. HandNotRef'
  BY <1>1, <1>3, <1>p DEF Owned, HandNotRef
<1>10. StoredRef'
  BY <1>3, <1>p DEF Owned, StoredRef
<1>11. Accounted'
  <2>1. \A l \in Connections : \A u \in Threads : conn[u] = l =>
          conn'[u] = l \/ (Out(TaskOf[t], i0) = l /\ Clean(TaskOf[t], i0))
    BY <1>p, <1>o
  <2> QED BY <1>1, <1>3, <1>o, <2>1 DEF Owned, Accounted
<1>12. Listed'
  BY DEF Owned, Listed
<1> QED BY <1>4, <1>5, <1>6, <1>7, <1>8, <1>9, <1>10, <1>11, <1>12 DEF Owned

LEMMA DetachOwned ==
  ASSUME Typed, Owned, NEW t \in Threads, NEW i0 \in OutSlots, Detach(t, i0), UNCHANGED queue
  PROVE  Owned'
<1>a. holds[t][i0] # NoChannel /\ pc[t] = "idle"
  BY DEF Detach, At
<1>o. /\ TaskOf[t] \in Tasks /\ Mine(t, i0) /\ Out(TaskOf[t], i0) # Null
      /\ \A u \in Threads : TaskOf[u] = TaskOf[t] /\ Mine(u, i0) => u = t
  BY <1>a, HeldSlot DEF Mine, Owned, OwnedFull
<1>b. /\ Goes(t, "idle", "disconnect") /\ id' = [id EXCEPT ![t] = i0]
      /\ holds' = [holds EXCEPT ![t][i0] = NoChannel]
      /\ UNCHANGED <<pConnectionsOut, entries, channelOf, live, conn, chan, gaveUp>>
  BY <1>o DEF Detach, Out, tables, objects
<1>t. /\ pc \in [Threads -> Places] /\ id \in [Threads -> OutSlots \cup {0}]
      /\ holds \in [Threads -> [OutSlots -> [server : Tasks \cup {Null}, channel : Channels \cup {Null}]]]
  BY DEF Typed, TTypeOK, LocalsTyped
<1>p. /\ pc[t] \notin InHand /\ pc[t] \notin Stored /\ pc[t] \notin DetachAt /\ pc[t] # "clear"
      /\ pc'[t] \notin Stored /\ pc'[t] \notin InHand /\ pc'[t] \in DetachAt /\ pc'[t] # "clear"
      /\ id'[t] = i0
      /\ \A u \in Threads : u # t => pc'[u] = pc[u] /\ id'[u] = id[u]
  BY <1>b, <1>t DEF Goes, InHand, Stored, DetachAt
<1>h. \A u \in Threads, i \in OutSlots :
        holds'[u][i] = IF u = t /\ i = i0 THEN NoChannel ELSE holds[u][i]
  BY <1>b, <1>t
<1>1. \A p, i : Clean(p, i)' <=> Clean(p, i)
  <2>1. \A u \in Threads : /\ pc'[u] = "clear" <=> pc[u] = "clear"
                           /\ pc[u] = "clear" => id'[u] = id[u]
    BY <1>p
  <2> QED BY <2>1 DEF Clean
<1>2. \A u \in Threads, i \in OutSlots : Mine(u, i)' <=> Mine(u, i)
  BY <1>p, <1>h, <1>o DEF Mine
<1>3. \A p, i : Out(p, i)' = Out(p, i)
  BY <1>b DEF Out
<1>4. OneOwner' /\ OwnedFull'
  BY <1>2, <1>3 DEF Owned, OneOwner, OwnedFull
<1>5. NotBoth'
  <2> SUFFICES ASSUME NEW u \in Threads, pc'[u] \in Stored \cup DetachAt
               PROVE  holds'[u][id'[u]] = NoChannel
    BY DEF NotBoth
  <2>1. CASE u = t
    BY <2>1, <1>p, <1>h
  <2>2. CASE u # t
    <3>1. pc[u] \in Stored \cup DetachAt /\ id'[u] = id[u]
      BY <2>2, <1>p
    <3>2. id[u] \in OutSlots
      BY <3>1, OwnSlot
    <3> QED BY <2>2, <3>1, <3>2, <1>h DEF Owned, NotBoth
  <2> QED BY <2>1, <2>2
<1>6. RefLive'
  BY <1>1, <1>3, <1>b DEF Owned, RefLive
<1>7. RefOnce'
  BY <1>1, <1>3 DEF Owned, RefOnce
<1>8. HandLive' /\ HandOnce'
  BY <1>b DEF Owned, HandLive, HandOnce
<1>9. HandNotRef'
  BY <1>1, <1>3, <1>p, <1>b DEF Owned, HandNotRef
<1>10. StoredRef'
  BY <1>3, <1>p, <1>b DEF Owned, StoredRef
<1>11. Accounted'
  BY <1>1, <1>3, <1>b DEF Owned, Accounted
<1>12. Listed'
  BY <1>b DEF Owned, Listed
<1> QED BY <1>4, <1>5, <1>6, <1>7, <1>8, <1>9, <1>10, <1>11, <1>12 DEF Owned

LEMMA DeleteOwned ==
  ASSUME Typed, Owned, NEW t \in Threads, Goes(t, "delete", "clear"),
         Leave(ForDetach(t)), live' = live \ {ForDetach(t)},
         UNCHANGED <<pConnectionsOut, id, conn, chan, holds, gaveUp>>
  PROVE  Owned'
<1> DEFINE k == ForDetach(t)
           i0 == id[t]
<1>n. Null \notin Connections
  BY TableAssumption
<1>t. /\ pc \in [Threads -> Places] /\ pc[t] = "delete"
      /\ conn \in [Threads -> Connections \cup {Null}]
  BY DEF Typed, TTypeOK, LocalsTyped, Goes
<1>p. /\ pc[t] \in DetachAt /\ pc[t] \notin Stored /\ pc[t] \notin InHand
      /\ pc'[t] \in DetachAt /\ pc'[t] \notin Stored /\ pc'[t] \notin InHand /\ pc'[t] = "clear"
      /\ \A u \in Threads : u # t => pc'[u] = pc[u]
  BY <1>t DEF Goes, DetachAt, Stored, InHand
<1>d. /\ k = Out(TaskOf[t], i0) /\ k \in Connections \cap live
      /\ \A u \in Threads : conn[u] # k
      /\ \A p \in Tasks, i \in OutSlots : Out(p, i) = k /\ Clean(p, i) => p = TaskOf[t] /\ i = i0
  BY <1>t, DetachedIsOwn
<1>o. TaskOf[t] \in Tasks /\ i0 \in OutSlots
  BY <1>p, OwnSlot
<1>l. Listed' /\ \A l \in Connections \ {k} : channelOf'[l] = channelOf[l]
  BY <1>d, LeaveListed DEF Owned
<1>v. live' = live \ {k}
  OBVIOUS
<1>i. id'[t] = i0
  OBVIOUS
<1> HIDE DEF k, i0
<1>1. \A p \in Tasks, i \in OutSlots :
        Clean(p, i)' <=> Clean(p, i) /\ ~ (p = TaskOf[t] /\ i = i0)
  <2>1. ASSUME NEW p \in Tasks, NEW i \in OutSlots, Clean(p, i)'
        PROVE  Clean(p, i) /\ ~ (p = TaskOf[t] /\ i = i0)
    <3>1. ~ (p = TaskOf[t] /\ i = i0)
      BY <2>1, <1>p, <1>i DEF Clean
    <3>2. \A u \in Threads : pc[u] = "clear" => pc'[u] = "clear"
      BY <1>p
    <3> QED BY <2>1, <3>1, <3>2 DEF Clean
  <2>2. ASSUME NEW p \in Tasks, NEW i \in OutSlots, Clean(p, i), ~ (p = TaskOf[t] /\ i = i0)
        PROVE  Clean(p, i)'
    BY <2>2, <1>p, <1>i DEF Clean
  <2> QED BY <2>1, <2>2
<1>2. \A u \in Threads : \A i : Mine(u, i)' <=> Mine(u, i)
  BY <1>p DEF Mine
<1>3. \A p, i : Out(p, i)' = Out(p, i)
  BY DEF Out
<1>4. OneOwner' /\ OwnedFull'
  BY <1>2, <1>3 DEF Owned, OneOwner, OwnedFull
<1>5. NotBoth'
  BY <1>p DEF Owned, NotBoth
<1>6. RefLive'
  BY <1>1, <1>3, <1>d, <1>v DEF Owned, RefLive
<1>7. RefOnce'
  BY <1>1, <1>3 DEF Owned, RefOnce
<1>8. HandLive' /\ HandOnce'
  BY <1>d, <1>l, <1>v, <1>t DEF Owned, HandLive, HandOnce
<1>9. HandNotRef'
  BY <1>1, <1>3, <1>p DEF Owned, HandNotRef
<1>10. StoredRef'
  BY <1>3, <1>p DEF Owned, StoredRef
<1>11. Accounted'
  BY <1>1, <1>3, <1>d, <1>v DEF Owned, Accounted
<1> QED BY <1>4, <1>5, <1>6, <1>7, <1>8, <1>9, <1>10, <1>11, <1>l DEF Owned

LEMMA ClearOwned ==
  ASSUME Typed, Owned, NEW t \in Threads, Clear(t), UNCHANGED queue
  PROVE  Owned'
<1> DEFINE p0 == TaskOf[t]
           i0 == id[t]
<1>n. Null \notin Connections /\ 0 \notin OutSlots
  BY TableAssumption
<1>t. /\ pc \in [Threads -> Places] /\ id \in [Threads -> OutSlots \cup {0}]
      /\ pConnectionsOut \in [Tasks -> [OutSlots -> Connections \cup {Null}]]
      /\ conn \in [Threads -> Connections \cup {Null}]
  BY DEF Typed, TTypeOK, LocalsTyped
<1>p. /\ pc[t] = "clear" /\ pc[t] \in DetachAt /\ pc[t] \notin Stored /\ pc[t] \notin InHand
      /\ pc'[t] = "idle" /\ pc'[t] \notin Stored /\ pc'[t] \notin InHand /\ pc'[t] \notin DetachAt
      /\ \A u \in Threads : u # t => pc'[u] = pc[u] /\ id'[u] = id[u]
      /\ UNCHANGED <<entries, channelOf, live, conn, chan, holds, gaveUp>>
  BY <1>t DEF Clear, Goes, DetachAt, Stored, InHand, objects
<1>o. /\ p0 \in Tasks /\ i0 \in OutSlots /\ Mine(t, i0)
      /\ \A u \in Threads : TaskOf[u] = p0 /\ Mine(u, i0) => u = t
  BY <1>p, OwnSlot
<1>c. ~ Clean(p0, i0) /\ holds[t][i0] = NoChannel
  BY <1>p DEF Clean, Owned, NotBoth
<1>3. \A p \in Tasks, i \in OutSlots :
        Out(p, i)' = IF p = p0 /\ i = i0 THEN Null ELSE Out(p, i)
  BY <1>t, <1>o DEF Clear, Out
<1>i. id'[t] = 0 /\ id[t] = i0 /\ p0 = TaskOf[t]
  BY <1>t DEF Clear
<1> HIDE DEF p0, i0
<1>s. \A u \in Threads : TaskOf[u] \in Tasks
  BY TableAssumption
<1>1. \A p \in Tasks, i \in OutSlots : ~ (p = p0 /\ i = i0) => (Clean(p, i)' <=> Clean(p, i))
  BY <1>p, <1>i DEF Clean
<1>2. \A u \in Threads, i \in OutSlots : Mine(u, i)' <=> Mine(u, i) /\ ~ (u = t /\ i = i0)
  BY <1>p, <1>i, <1>c, <1>n DEF Mine
<1>4. OneOwner'
  BY <1>2 DEF Owned, OneOwner
<1>5. OwnedFull'
  BY <1>2, <1>3, <1>o, <1>s, <1>i DEF Owned, OwnedFull
<1>6. NotBoth'
  BY <1>p DEF Owned, NotBoth
<1>7. RefLive'
  BY <1>1, <1>3, <1>p DEF Owned, RefLive
<1>8. RefOnce'
  BY <1>1, <1>3 DEF Owned, RefOnce
<1>9. HandLive' /\ HandOnce'
  BY <1>p DEF Owned, HandLive, HandOnce
<1>10. HandNotRef'
  <2>1. \A u \in Threads : pc'[u] \in InHand => pc[u] \in InHand /\ conn[u] # Null
    BY <1>p DEF Typed, LocalsTyped, Placed
  <2> QED BY <1>1, <1>3, <1>p, <2>1 DEF Owned, HandNotRef
<1>11. StoredRef'
  <2> SUFFICES ASSUME NEW u \in Threads, pc'[u] \in Stored PROVE Out(TaskOf[u], id[u])' = conn[u]
    BY <1>p DEF StoredRef
  <2>1. u # t /\ pc[u] \in Stored /\ id'[u] = id[u]
    BY <1>p
  <2>2. id[u] \in OutSlots /\ Mine(u, id[u])
    BY <2>1, OwnSlot
  <2>3. ~ (TaskOf[u] = p0 /\ id[u] = i0)
    BY <2>1, <2>2, <1>o
  <2> QED BY <2>1, <2>2, <2>3, <1>3, <1>s DEF Owned, StoredRef, Out
<1>12. Accounted'
  <2>1. \A p \in Tasks, i \in OutSlots : Clean(p, i) => ~ (p = p0 /\ i = i0)
    BY <1>c
  <2> QED BY <1>1, <1>3, <1>p, <2>1 DEF Owned, Accounted
<1>13. Listed'
  BY <1>p DEF Owned, Listed
<1> QED BY <1>4, <1>5, <1>6, <1>7, <1>8, <1>9, <1>10, <1>11, <1>12, <1>13 DEF Owned

\* No two have ever stored into one out slot, or nothing is said.
OwnedUnlessClash == "out" \notin clashed => Owned

\* Thread u keeps what its place says of the connection it has.
Same(u) ==
  /\ pc'[u] \in InHand <=> pc[u] \in InHand
  /\ pc'[u] \in Stored <=> pc[u] \in Stored
  /\ pc'[u] \in DetachAt <=> pc[u] \in DetachAt
  /\ pc'[u] = "clear" <=> pc[u] = "clear"

LEMMA MovesSame ==
  ASSUME Typed, NEW t \in Threads, NEW p, NEW q, Goes(t, p, q),
         \/ p \notin InHand \cup Stored \cup DetachAt /\ q \notin InHand \cup Stored \cup DetachAt
         \/ p \in InHand /\ q \in InHand
         \/ p \in Stored /\ q \in Stored
         \/ p = "disconnect" /\ q = "delete"
  PROVE  \A u \in Threads : Same(u)
<1>1. pc \in [Threads -> Places] /\ pc[t] = p /\ pc' = [pc EXCEPT ![t] = q]
  BY DEF Typed, LocalsTyped, Goes
<1>2. Same(t)
  BY <1>1 DEF Same, InHand, Stored, DetachAt
<1>3. \A u \in Threads : u # t => Same(u)
  BY <1>1 DEF Same
<1> QED BY <1>2, <1>3

LEMMA HaltOwned ==
  ASSUME Typed, Owned, NEW t \in Threads, Halt(t)
  PROVE  Owned'
<1>1. UNCHANGED <<pc, pConnectionsOut, holds, gaveUp, conn, chan, id, live, entries, channelOf>>
  BY DEF Halt, tables, objects, locals
<1>2. Listed'
  BY <1>1 DEF Owned, Listed
<1> QED BY <1>1, <1>2, QuietOwned

LEMMA ServerOwned ==
  ASSUME Typed, Owned, NEW t \in Threads, ServerStep(t)
  PROVE  Owned'
<1>n. Channels \cap Connections = {}
  BY TableAssumption
<1>t. /\ entries \in [Channels -> [InSlots -> Connections \cup {Null}]]
      /\ live \subseteq Channels \cup Connections
  BY DEF Typed, TTypeOK
<1>b. {"idle", "create", "clearChannel"} \cap (InHand \cup Stored \cup DetachAt) = {}
  BY DEF InHand, Stored, DetachAt
<1>1. ASSUME NEW p, NEW q, Goes(t, p, q), {p, q} \subseteq {"idle", "create", "clearChannel"},
             UNCHANGED <<pConnectionsOut, holds, gaveUp, conn, chan, id, channelOf>>,
             live' \cap Connections = live \cap Connections, Listed'
      PROVE  Owned'
  <2>1. \A u \in Threads : Same(u)
    BY <1>1, <1>b, MovesSame
  <2> QED BY <1>1, <2>1, QuietOwned DEF Same
<1>2. ASSUME Create(t) PROVE Owned'
  <2>1. \/ Halt(t)
        \/ Goes(t, "idle", "create") /\ UNCHANGED <<tables, objects, id, chan, conn, holds, gaveUp>>
    BY <1>2 DEF Create
  <2>2. CASE Goes(t, "idle", "create") /\ UNCHANGED <<tables, objects, id, chan, conn, holds, gaveUp>>
    <3>1. /\ Goes(t, "idle", "create")
          /\ UNCHANGED <<pConnectionsOut, holds, gaveUp, conn, chan, id, channelOf, live, entries>>
      BY <2>2 DEF tables, objects
    <3>2. Listed'
      BY <3>1 DEF Owned, Listed
    <3> QED BY <1>1, <3>1, <3>2
  <2> QED BY <2>1, <2>2, HaltOwned
<1>3. ASSUME NEW c \in Channels, StoreChannel(t, c) PROVE Owned'
  <2>1. /\ Goes(t, "create", "idle") /\ live' = live \cup {c}
        /\ entries' = [entries EXCEPT ![c] = [i \in InSlots |-> Null]]
        /\ UNCHANGED <<pConnectionsOut, holds, gaveUp, conn, chan, id, channelOf>>
    BY <1>3 DEF StoreChannel
  <2>2. Listed'
    BY <2>1, <1>t DEF Owned, Listed
  <2> QED BY <1>1, <1>n, <2>1, <2>2
<1>4. ASSUME Destroy(t) PROVE Owned'
  <2> DEFINE c == pChannel[TaskOf[t]][owns[t]]
  <2>1. CASE c = Null
    <3>1. UNCHANGED <<pc, pConnectionsOut, holds, gaveUp, conn, chan, id, channelOf, live, entries>>
      BY <1>4, <2>1 DEF Destroy, tables, objects
    <3>2. Listed'
      BY <3>1 DEF Owned, Listed
    <3> QED BY <3>1, <3>2, QuietOwned
  <2>2. CASE c # Null /\ c \notin live
    BY <1>4, <2>2, HaltOwned DEF Destroy
  <2>3. CASE c # Null /\ c \in live
    <3>1. /\ Goes(t, "idle", "clearChannel") /\ live' = live \ {c}
          /\ UNCHANGED <<pConnectionsOut, holds, gaveUp, conn, chan, id, channelOf, entries>>
      BY <1>4, <2>3 DEF Destroy, tables, locals
    <3>2. c \notin Connections
      <4>1. TaskOf[t] \in Tasks /\ owns[t] \in ChannelSlots
        BY <1>4, TableAssumption DEF Destroy, Typed, TTypeOK
      <4> QED BY <4>1, <2>3, <1>n DEF Typed, TTypeOK
    <3> HIDE DEF c
    <3>3. Listed'
      BY <3>1, <3>2, <1>t DEF Owned, Listed
    <3>4. live' \cap Connections = live \cap Connections
      BY <3>1, <3>2
    <3> QED BY <1>1, <3>1, <3>3, <3>4
  <2> QED BY <2>1, <2>2, <2>3
<1>5. ASSUME ClearChannel(t) PROVE Owned'
  <2>1. /\ Goes(t, "clearChannel", "idle")
        /\ UNCHANGED <<pConnectionsOut, holds, gaveUp, conn, chan, id, channelOf, live, entries>>
    BY <1>5 DEF ClearChannel, objects
  <2>2. Listed'
    BY <2>1 DEF Owned, Listed
  <2> QED BY <1>1, <2>1, <2>2
<1> QED BY <1>2, <1>3, <1>4, <1>5 DEF ServerStep

LEMMA AttachOwned ==
  ASSUME Typed, Owned, NEW t \in Threads, AttachStep(t), UNCHANGED queue, "out" \notin clashed'
  PROVE  Owned'
<1>t. /\ entries \in [Channels -> [InSlots -> Connections \cup {Null}]]
      /\ conn \in [Threads -> Connections \cup {Null}] /\ chan \in [Threads -> Channels \cup {Null}]
      /\ id \in [Threads -> OutSlots \cup {0}]
      /\ \A u \in Threads : Placed(u)
  BY DEF Typed, TTypeOK, LocalsTyped
<1>1. ASSUME Attach(t) PROVE Owned'
  <2>1. /\ Goes(t, "found", "connect") \/ Goes(t, "found", "idle")
        /\ UNCHANGED <<pConnectionsOut, entries, channelOf, live, holds, gaveUp>>
    BY <1>1 DEF Attach, tables, objects
  <2>2. pc[t] = "found" /\ conn[t] = Null /\ id[t] = 0
    BY <2>1, <1>t DEF Goes, Placed, InHand, Stored, DetachAt
  <2>3. /\ conn' = conn /\ id' = id
        /\ \A u \in Threads : u # t => chan'[u] = chan[u]
    <3>1. UNCHANGED <<conn, id>> \/ AttachReturns(t)
      BY <1>1 DEF Attach
    <3>2. chan' = [chan EXCEPT ![t] = pChannel[ServerOf(t)][found[t][2]]] \/ AttachReturns(t)
      BY <1>1 DEF Attach
    <3> QED BY <3>1, <3>2, <2>2, <1>t DEF AttachReturns
  <2>4. \A u \in Threads : Same(u)
    BY <2>1, MovesSame DEF InHand, Stored, DetachAt
  <2>5. Listed'
    BY <2>1 DEF Owned, Listed
  <2> QED BY <2>1, <2>2, <2>3, <2>4, <2>5, QuietOwned DEF Same
<1>2. ASSUME NEW k \in Connections, Connect(t, k) PROVE Owned'
  <2>1. CASE chan[t] \notin live
    BY <1>2, <2>1, HaltOwned DEF Connect
  <2>2. CASE chan[t] \in live
    <3>1. /\ \E q \in {"findOut", "enter"} : Goes(t, "connect", q)
          /\ k \in Connections \ live
          /\ conn' = [conn EXCEPT ![t] = k] /\ live' = live \cup {k}
          /\ channelOf' = [channelOf EXCEPT ![k] = chan[t]]
          /\ UNCHANGED <<pConnectionsOut, entries, id, chan, holds, gaveUp>>
      BY <1>2, <2>2 DEF Connect, tables
    <3> QED BY <3>1, ConnectOwned
  <2> QED BY <2>1, <2>2
<1>3. ASSUME Enter(t) PROVE Owned'
  <2>1. CASE chan[t] \notin live
    BY <1>3, <2>1, HaltOwned DEF Enter
  <2>2. CASE chan[t] \in live
    <3>1. /\ Goes(t, "enter", "findOut")
          /\ entries' = [entries EXCEPT ![chan[t]][slot[t]] = conn[t]]
          /\ UNCHANGED <<pConnectionsOut, channelOf, live, id, chan, conn, holds, gaveUp>>
      BY <1>3, <2>2 DEF Enter, objects
    <3>2. pc[t] = "enter" /\ conn[t] # Null
      BY <3>1, <1>t DEF Goes, Placed, InHand, Stored
    <3>3. conn[t] \in live /\ channelOf[conn[t]] = chan[t]
      BY <3>2 DEF Owned, HandLive
    <3>4. Listed'
      <4> SUFFICES ASSUME NEW c \in Channels \cap live, NEW i \in InSlots, entries'[c][i] # Null
                   PROVE  entries'[c][i] \in live /\ channelOf[entries'[c][i]] = c
        BY <3>1 DEF Listed
      <4>1. CASE c = chan[t] /\ i = slot[t]
        <5>1. entries'[c][i] = conn[t]
          BY <4>1, <3>1, <1>t
        <5> QED BY <5>1, <4>1, <3>3
      <4>2. CASE ~ (c = chan[t] /\ i = slot[t])
        <5>1. entries'[c][i] = entries[c][i]
          BY <4>2, <3>1, <1>t
        <5> QED BY <5>1 DEF Owned, Listed
      <4> QED BY <4>1, <4>2
    <3>5. \A u \in Threads : Same(u)
      BY <3>1, MovesSame DEF InHand
    <3> QED BY <3>1, <3>4, <3>5, QuietOwned DEF Same
  <2> QED BY <2>1, <2>2
<1>4. ASSUME FindOut(t) PROVE Owned'
  <2> DEFINE i == FirstEmpty(pConnectionsOut[TaskOf[t]])
  <2>1. CASE i # 0
    <3>1. /\ Goes(t, "findOut", "storeOut") /\ id' = [id EXCEPT ![t] = i]
          /\ UNCHANGED <<pConnectionsOut, entries, channelOf, live, chan, conn, holds, gaveUp>>
      BY <1>4, <2>1 DEF FindOut, tables, objects
    <3> HIDE DEF i
    <3>2. \A u \in Threads : Same(u)
      BY <3>1, MovesSame DEF InHand
    <3>3. Listed'
      BY <3>1 DEF Owned, Listed
    <3>4. \A u \in Threads : pc[u] \in Stored \cup DetachAt => id'[u] = id[u]
      BY <3>1, <1>t DEF Goes, Stored, DetachAt
    <3> QED BY <3>1, <3>2, <3>3, <3>4, QuietOwned DEF Same
  <2>2. CASE i = 0
    <3>1. /\ Goes(t, "findOut", "idle") /\ AttachReturns(t) /\ gaveUp' = gaveUp \cup {conn[t]}
          /\ UNCHANGED <<pConnectionsOut, entries, channelOf, live, holds>>
      BY <1>4, <2>2 DEF FindOut, tables, objects
    <3> QED BY <3>1, GiveUpOwned
  <2> QED BY <2>1, <2>2
<1>5. ASSUME StoreOut(t) PROVE Owned'
  <2>1. Out(TaskOf[t], id[t]) = Null
    BY <1>5 DEF StoreOut, Clash, Out
  <2> QED BY <1>5, <2>1, StoreOutOwned
<1>6. ASSUME FindIn(t) PROVE Owned'
  <2> DEFINE i == FirstEmpty(pConnectionsIn[ServerOf(t)])
  <2>1. CASE i # 0
    <3>1. /\ Goes(t, "findIn", "storeIn")
          /\ UNCHANGED <<pConnectionsOut, entries, channelOf, live, id, chan, conn, holds, gaveUp>>
      BY <1>6, <2>1 DEF FindIn, tables, objects
    <3>2. \A u \in Threads : Same(u)
      BY <3>1, MovesSame DEF Stored
    <3>3. Listed'
      BY <3>1 DEF Owned, Listed
    <3> QED BY <3>1, <3>2, <3>3, QuietOwned DEF Same
  <2>2. CASE i = 0
    <3>1. /\ Goes(t, "findIn", "idle") /\ holds' = holds /\ AttachReturns(t)
          /\ UNCHANGED <<pConnectionsOut, entries, channelOf, live, gaveUp>>
      BY <1>6, <2>2 DEF FindIn, tables, objects
    <3> QED BY <3>1, ReturnOwned
  <2> QED BY <2>1, <2>2
<1>7. ASSUME StoreIn(t) PROVE Owned'
  <2>1. CASE conn[t] \notin live
    BY <1>7, <2>1, HaltOwned DEF StoreIn
  <2>2. CASE conn[t] \in live
    <3> DEFINE h == [server |-> ServerOf(t), channel |-> chan[t]]
    <3>1. /\ Goes(t, "storeIn", "idle") /\ AttachReturns(t)
          /\ holds' = [holds EXCEPT ![t][id[t]] = h]
          /\ UNCHANGED <<pConnectionsOut, entries, channelOf, live, gaveUp>>
      BY <1>7, <2>2 DEF StoreIn
    <3>2. h # NoChannel
      <4>1. chan[t] \in Channels
        BY <3>1, <1>t DEF Goes, Placed, Attaching, Stored
      <4> QED BY <4>1, TableAssumption DEF NoChannel
    <3> HIDE DEF h
    <3> QED BY <3>1, <3>2, ReturnOwned
  <2> QED BY <2>1, <2>2
<1> QED BY <1>1, <1>2, <1>3, <1>4, <1>5, <1>6, <1>7 DEF AttachStep

LEMMA DetachStepOwned ==
  ASSUME Typed, Owned, NEW t \in Threads, DetachStep(t), UNCHANGED queue
  PROVE  Owned'
<1>1. ASSUME Disconnect(t) PROVE Owned'
  <2> DEFINE k == ForDetach(t)
  <2>1. CASE ~ Usable(k)
    BY <1>1, <2>1, HaltOwned DEF Disconnect
  <2>2. CASE Usable(k)
    <3>1. /\ Goes(t, "disconnect", "delete") /\ Leave(k) /\ live' = live
          /\ UNCHANGED <<pConnectionsOut, id, conn, chan, holds, gaveUp>>
      BY <1>1, <2>2 DEF Disconnect, locals
    <3>2. k \in Connections /\ \A u \in Threads : conn[u] # k
      BY <3>1, DetachedIsOwn DEF Goes
    <3> HIDE DEF k
    <3>3. Listed' /\ \A l \in Connections \ {k} : channelOf'[l] = channelOf[l]
      BY <3>1, <3>2, LeaveListed DEF Owned
    <3>4. \A u \in Threads : conn[u] # Null => channelOf'[conn[u]] = channelOf[conn[u]]
      BY <3>2, <3>3 DEF Typed, TTypeOK
    <3>5. \A u \in Threads : Same(u)
      BY <3>1, MovesSame
    <3> QED BY <3>1, <3>3, <3>4, <3>5, QuietOwned DEF Same
  <2> QED BY <2>1, <2>2
<1>2. ASSUME Delete(t) PROVE Owned'
  <2> DEFINE k == ForDetach(t)
  <2>1. k \in Connections /\ k # Null
    BY <1>2, DetachedIsOwn, TableAssumption DEF Delete, At
  <2>2. CASE ~ Usable(k)
    BY <1>2, <2>1, <2>2, HaltOwned DEF Delete
  <2>3. CASE Usable(k)
    <3>1. /\ Goes(t, "delete", "clear") /\ Leave(k) /\ live' = live \ {k}
          /\ UNCHANGED <<pConnectionsOut, id, conn, chan, holds, gaveUp>>
      BY <1>2, <2>1, <2>3 DEF Delete, locals
    <3> QED BY <3>1, DeleteOwned
  <2> QED BY <2>2, <2>3
<1> QED BY <1>1, <1>2, DetachOwned, ClearOwned DEF DetachStep

LEMMA NamingOwned ==
  ASSUME Typed, Owned, NEW t \in Threads, Naming(t), UNCHANGED <<tables, objects, locals, halted>>
  PROVE  Owned'
<1>1. UNCHANGED <<pConnectionsOut, holds, gaveUp, conn, chan, id, live, entries, channelOf>>
  BY DEF tables, objects, locals
<1>2. \/ UNCHANGED pc
      \/ \E p, q \in {"idle", "compare", "found"} \cup Registers : Goes(t, p, q)
  <2>1. ReadTail(t) => Goes(t, "readTail", "link")
    BY DEF ReadTail
  <2>2. Link(t) => Goes(t, "link", "moveTail")
    BY DEF Link
  <2>3. MoveTail(t) => Goes(t, "moveTail", "idle")
    BY DEF MoveTail
  <2>4. Compare(t) => UNCHANGED pc \/ Goes(t, "compare", "idle") \/ Goes(t, "compare", "found")
    BY DEF Compare, LookupReturns, NextEntry
  <2>5. \A m, a : Register(t, m, a) => Goes(t, "idle", "readTail")
    BY DEF Register
  <2>6. \A m : Lookup(t, m) => Goes(t, "idle", "compare")
    BY DEF Lookup
  <2> QED BY <2>1, <2>2, <2>3, <2>4, <2>5, <2>6 DEF Naming, NameStep, Registers
<1>3. ({"idle", "compare", "found"} \cup Registers) \cap (InHand \cup Stored \cup DetachAt) = {}
  BY DEF Registers, InHand, Stored, DetachAt
<1>4. \A u \in Threads : Same(u)
  <2>1. UNCHANGED pc => \A u \in Threads : Same(u)
    BY DEF Same
  <2> QED BY <1>2, <1>3, <2>1, MovesSame
<1>5. Listed'
  BY <1>1 DEF Owned, Listed
<1> QED BY <1>1, <1>4, <1>5, QuietOwned DEF Same

-----------------------------------------------------------------------------
(* Where ids lead.                                                         *)

\* Connection id i of thread t leads to the channel it was asked for and back.
LeadsBack(t, i) ==
  LET k == Out(TaskOf[t], i)
      h == holds[t][i]
  IN  /\ k \in live /\ channelOf[k] = h.channel
      /\ receiveID[k] \in InSlots /\ pConnectionsIn[h.server][receiveID[k]] = k

Lead == \A t \in Threads, i \in OutSlots : holds[t][i] # NoChannel => LeadsBack(t, i)

LeadUnlessClash == clashed = {} => Lead

LEMMA KeepsLead ==
  ASSUME Typed, Owned, Lead, NEW u \in Threads, NEW i \in OutSlots,
         holds[u][i] # NoChannel, holds'[u][i] = holds[u][i],
         Out(TaskOf[u], i)' = Out(TaskOf[u], i),
         Out(TaskOf[u], i) \in live => Out(TaskOf[u], i) \in live',
         channelOf'[Out(TaskOf[u], i)] = channelOf[Out(TaskOf[u], i)],
         receiveID'[Out(TaskOf[u], i)] = receiveID[Out(TaskOf[u], i)],
         \A p \in Tasks, j \in InSlots :
           pConnectionsIn[p][j] # Null => pConnectionsIn'[p][j] = pConnectionsIn[p][j]
  PROVE  LeadsBack(u, i)'
<1> DEFINE k == Out(TaskOf[u], i)
           h == holds[u][i]
<1>1. k \in Connections /\ k # Null
  BY HeldSlot, TableAssumption
<1>2. h.server \in Tasks
  BY DEF Typed, LocalsTyped
<1>3. /\ k \in live /\ channelOf[k] = h.channel
      /\ receiveID[k] \in InSlots /\ pConnectionsIn[h.server][receiveID[k]] = k
  BY DEF Lead, LeadsBack
<1>4. pConnectionsIn'[h.server][receiveID[k]] = k
  BY <1>1, <1>2, <1>3
<1>5. Out(TaskOf[u], i)' = k /\ holds'[u][i] = h
  OBVIOUS
<1> QED BY <1>3, <1>4, <1>5 DEF LeadsBack

LEMMA QuietLead ==
  ASSUME Typed, Owned, Lead,
         UNCHANGED <<pConnectionsOut, pConnectionsIn, holds, channelOf, receiveID>>,
         live' \cap Connections = live \cap Connections
  PROVE  Lead'
<1> SUFFICES ASSUME NEW u \in Threads, NEW i \in OutSlots, holds'[u][i] # NoChannel
             PROVE  LeadsBack(u, i)'
  BY DEF Lead
<1>1. Out(TaskOf[u], i) \in Connections
  BY HeldSlot
<1>2. Out(TaskOf[u], i)' = Out(TaskOf[u], i)
  BY DEF Out
<1> QED BY <1>1, <1>2, KeepsLead

LEMMA HaltLead ==
  ASSUME Typed, Owned, Lead, NEW t \in Threads, Halt(t) PROVE Lead'
<1>1. UNCHANGED <<pConnectionsOut, pConnectionsIn, holds, channelOf, receiveID, live>>
  BY DEF Halt, tables, objects, locals
<1> QED BY <1>1, QuietLead

LEMMA ServerLead ==
  ASSUME Typed, Owned, Lead, NEW t \in Threads, ServerStep(t) PROVE Lead'
<1>n. Channels \cap Connections = {}
  BY TableAssumption
<1> USE DEF tables, objects, locals
<1>1. Create(t) => \/ Halt(t)
                   \/ UNCHANGED <<pConnectionsOut, pConnectionsIn, holds, channelOf, receiveID, live>>
  BY DEF Create
<1>2. ASSUME NEW c \in Channels, StoreChannel(t, c) PROVE Lead'
  <2>1. /\ UNCHANGED <<pConnectionsOut, pConnectionsIn, holds, channelOf, receiveID>>
        /\ live' = live \cup {c}
    BY <1>2 DEF StoreChannel
  <2> QED BY <2>1, <1>n, QuietLead
<1>3. ASSUME Destroy(t) PROVE Lead'
  <2> DEFINE c == pChannel[TaskOf[t]][owns[t]]
  <2>1. c \in Channels \cup {Null}
    BY <1>3, TableAssumption DEF Destroy, Typed, TTypeOK
  <2>2. c \notin Connections
    BY <2>1, TableAssumption
  <2>3. \/ Halt(t)
        \/ UNCHANGED <<pConnectionsOut, pConnectionsIn, holds, channelOf, receiveID, live>>
        \/ /\ UNCHANGED <<pConnectionsOut, pConnectionsIn, holds, channelOf, receiveID>>
           /\ live' = live \ {c}
    BY <1>3 DEF Destroy
  <2> HIDE DEF c
  <2>4. CASE /\ UNCHANGED <<pConnectionsOut, pConnectionsIn, holds, channelOf, receiveID>>
             /\ live' = live \ {c}
    BY <2>2, <2>4, QuietLead
  <2> QED BY <2>3, <2>4, HaltLead, QuietLead
<1>4. ClearChannel(t) => UNCHANGED <<pConnectionsOut, pConnectionsIn, holds, channelOf, receiveID, live>>
  BY DEF ClearChannel
<1> QED BY <1>1, <1>2, <1>3, <1>4, HaltLead, QuietLead DEF ServerStep

LEMMA AttachLead ==
  ASSUME Typed, Owned, Lead, NEW t \in Threads, AttachStep(t), clashed' = {} PROVE Lead'
<1> DEFINE Quiet == UNCHANGED <<pConnectionsOut, pConnectionsIn, holds, channelOf, receiveID, live>>
<1>q. Quiet => Lead'
  BY QuietLead
<1>1. Attach(t) \/ FindOut(t) \/ FindIn(t) => Quiet
  BY DEF Attach, FindOut, FindIn, tables, objects
<1>2. Enter(t) => Quiet \/ Halt(t)
  BY DEF Enter, objects
<1>3. ASSUME NEW k \in Connections, Connect(t, k) PROVE Lead'
  <2>1. CASE chan[t] \notin live
    BY <1>3, <2>1, HaltLead DEF Connect
  <2>2. CASE chan[t] \in live
    <3>1. /\ k \notin live /\ live' = live \cup {k}
          /\ channelOf' = [channelOf EXCEPT ![k] = chan[t]]
          /\ receiveID' = [receiveID EXCEPT ![k] = 0]
          /\ UNCHANGED <<pConnectionsOut, pConnectionsIn, holds>>
      BY <1>3, <2>2 DEF Connect, tables
    <3> SUFFICES ASSUME NEW u \in Threads, NEW i \in OutSlots, holds'[u][i] # NoChannel
                 PROVE  LeadsBack(u, i)'
      BY DEF Lead
    <3>2. holds'[u][i] = holds[u][i] /\ Out(TaskOf[u], i)' = Out(TaskOf[u], i)
      BY <3>1 DEF Out
    <3>3. Out(TaskOf[u], i) \in Connections /\ Out(TaskOf[u], i) \in live
      BY <3>2, HeldSlot DEF Lead, LeadsBack
    <3>4. /\ channelOf'[Out(TaskOf[u], i)] = channelOf[Out(TaskOf[u], i)]
          /\ receiveID'[Out(TaskOf[u], i)] = receiveID[Out(TaskOf[u], i)]
      BY <3>1, <3>3 DEF Typed, TTypeOK
    <3> QED BY <3>1, <3>2, <3>3, <3>4, KeepsLead
  <2> QED BY <2>1, <2>2
<1>4. ASSUME StoreOut(t) PROVE Lead'
  <2>1. /\ Out(TaskOf[t], id[t]) = Null
        /\ pConnectionsOut' = [pConnectionsOut EXCEPT ![TaskOf[t]][id[t]] = conn[t]]
        /\ UNCHANGED <<pConnectionsIn, holds, channelOf, receiveID, live>>
    BY <1>4 DEF StoreOut, Clash, Out, objects
  <2> SUFFICES ASSUME NEW u \in Threads, NEW i \in OutSlots, holds'[u][i] # NoChannel
               PROVE  LeadsBack(u, i)'
    BY DEF Lead
  <2>2. holds[u][i] # NoChannel
    BY <2>1
  <2>3. TaskOf[u] \in Tasks /\ Out(TaskOf[u], i) \in Connections /\ Null \notin Connections
    BY <2>2, HeldSlot, TableAssumption
  <2>4. Out(TaskOf[u], i)' = Out(TaskOf[u], i)
    BY <2>1, <2>3 DEF Out, Typed, TTypeOK
  <2> QED BY <2>1, <2>2, <2>3, <2>4, KeepsLead
<1>5. ASSUME StoreIn(t) PROVE Lead'
  <2>1. CASE conn[t] \notin live
    BY <1>5, <2>1, HaltLead DEF StoreIn
  <2>2. CASE conn[t] \in live
    <3> DEFINE h0 == [server |-> ServerOf(t), channel |-> chan[t]]
               k0 == conn[t]
    <3>1. /\ pc[t] = "storeIn" /\ pConnectionsIn[ServerOf(t)][slot[t]] = Null
          /\ pConnectionsIn' = [pConnectionsIn EXCEPT ![ServerOf(t)][slot[t]] = k0]
          /\ receiveID' = [receiveID EXCEPT ![k0] = slot[t]]
          /\ holds' = [holds EXCEPT ![t][id[t]] = h0]
          /\ UNCHANGED <<pConnectionsOut, channelOf, live>>
      BY <1>5, <2>2 DEF StoreIn, Clash, Goes
    <3>p. pc[t] \in Stored /\ pc[t] # "clear"
      BY <3>1 DEF Stored
    <3>2. /\ TaskOf[t] \in Tasks /\ id[t] \in OutSlots /\ Mine(t, id[t]) /\ Clean(TaskOf[t], id[t])
          /\ \A u \in Threads : TaskOf[u] = TaskOf[t] /\ Mine(u, id[t]) => u = t
          /\ Out(TaskOf[t], id[t]) = k0 /\ holds[t][id[t]] = NoChannel
      BY <3>p, OwnSlot DEF Owned, StoredRef, NotBoth
    <3>3. /\ k0 # Null /\ slot[t] \in InSlots /\ found[t] \in Addresses
      BY <3>1, <3>p DEF Typed, LocalsTyped, Placed, Attaching
    <3>4. /\ k0 \in Connections /\ ServerOf(t) \in Tasks /\ channelOf[k0] = chan[t]
      BY <3>3, TableAssumption DEF Typed, TTypeOK, ServerOf, Owned, HandLive
    <3> HIDE DEF h0, k0
    <3>5. pConnectionsIn'[ServerOf(t)][slot[t]] = k0 /\ receiveID'[k0] = slot[t]
      BY <3>1, <3>3, <3>4 DEF Typed, TTypeOK
    <3>6. ASSUME NEW p \in Tasks, NEW j \in InSlots, pConnectionsIn[p][j] # Null
          PROVE  pConnectionsIn'[p][j] = pConnectionsIn[p][j]
      BY <3>1, <3>3, <3>4, <3>6 DEF Typed, TTypeOK
    <3> SUFFICES ASSUME NEW u \in Threads, NEW i \in OutSlots, holds'[u][i] # NoChannel
                 PROVE  LeadsBack(u, i)'
      BY DEF Lead
    <3>7. Out(TaskOf[u], i)' = Out(TaskOf[u], i)
      BY <3>1 DEF Out
    <3>8. CASE u = t /\ i = id[t]
      <4>1. holds'[u][i] = h0
        BY <3>1, <3>2, <3>8 DEF Typed, TTypeOK
      <4>2. h0.server = ServerOf(t) /\ h0.channel = chan[t]
        BY DEF h0
      <4>3. Out(TaskOf[u], i)' = k0 /\ k0 \in live' /\ channelOf'[k0] = chan[t]
        BY <3>1, <3>2, <3>4, <3>7, <3>8, <2>2 DEF k0
      <4> QED BY <4>1, <4>2, <4>3, <3>3, <3>5 DEF LeadsBack
    <3>9. CASE ~ (u = t /\ i = id[t])
      <4>1. holds'[u][i] = holds[u][i]
        BY <3>1, <3>9 DEF Typed, TTypeOK
      <4>2. TaskOf[u] \in Tasks /\ Out(TaskOf[u], i) \in Connections /\ Clean(TaskOf[u], i) /\ Mine(u, i)
        BY <4>1, HeldSlot DEF Mine
      <4>3. Out(TaskOf[u], i) # k0
        <5>1. Out(TaskOf[u], i) = k0 => TaskOf[u] = TaskOf[t] /\ i = id[t]
          BY <4>2, <3>2, <3>3 DEF Owned, RefOnce
        <5> QED BY <5>1, <4>2, <3>2, <3>9
      <4>4. receiveID'[Out(TaskOf[u], i)] = receiveID[Out(TaskOf[u], i)]
        BY <3>1, <4>3
      <4> QED BY <3>1, <3>6, <3>7, <4>1, <4>4, KeepsLead
    <3> QED BY <3>8, <3>9
  <2> QED BY <2>1, <2>2
<1> HIDE DEF Quiet
<1> QED BY <1>q, <1>1, <1>2, <1>3, <1>4, <1>5, HaltLead DEF AttachStep

LEMMA DetachLead ==
  ASSUME Typed, Owned, Lead, NEW t \in Threads, DetachStep(t) PROVE Lead'
<1>1. ASSUME NEW j \in OutSlots, Detach(t, j) PROVE Lead'
  <2>1. /\ holds' = [holds EXCEPT ![t][j] = NoChannel]
        /\ UNCHANGED <<pConnectionsOut, pConnectionsIn, channelOf, receiveID, live>>
    BY <1>1 DEF Detach, tables, objects
  <2> SUFFICES ASSUME NEW u \in Threads, NEW i \in OutSlots, holds'[u][i] # NoChannel
               PROVE  LeadsBack(u, i)'
    BY DEF Lead
  <2>2. holds'[u][i] = holds[u][i] /\ Out(TaskOf[u], i)' = Out(TaskOf[u], i)
    BY <2>1 DEF Typed, TTypeOK, Out
  <2> QED BY <2>1, <2>2, KeepsLead
<1>2. ASSUME Leave(ForDetach(t)), pc[t] \in {"disconnect", "delete"},
             live' \in {live, live \ {ForDetach(t)}},
             UNCHANGED <<pConnectionsOut, pConnectionsIn, holds>>
      PROVE  Lead'
  <2> DEFINE k == ForDetach(t)
  <2>1. /\ k \in Connections
        /\ \A u \in Threads, i \in OutSlots : holds[u][i] # NoChannel => Out(TaskOf[u], i) # k
    BY <1>2, DetachedIsOwn
  <2>2. \A l \in Connections \ {k} : channelOf'[l] = channelOf[l] /\ receiveID'[l] = receiveID[l]
    BY <1>2, <2>1 DEF Leave, Typed, TTypeOK
  <2>v. live' \in {live, live \ {k}}
    BY <1>2
  <2> HIDE DEF k
  <2> SUFFICES ASSUME NEW u \in Threads, NEW i \in OutSlots, holds'[u][i] # NoChannel
               PROVE  LeadsBack(u, i)'
    BY DEF Lead
  <2>3. holds'[u][i] = holds[u][i] /\ Out(TaskOf[u], i)' = Out(TaskOf[u], i)
    BY <1>2 DEF Out
  <2>4. Out(TaskOf[u], i) \in Connections \ {k}
    BY <2>1, <2>3, HeldSlot
  <2> QED BY <1>2, <2>2, <2>v, <2>3, <2>4, KeepsLead
<1>3. ASSUME Disconnect(t) PROVE Lead'
  <2>1. \/ Halt(t)
        \/ /\ pc[t] = "disconnect" /\ Leave(ForDetach(t)) /\ live' = live
           /\ UNCHANGED <<pConnectionsOut, pConnectionsIn, holds>>
    BY <1>3 DEF Disconnect, locals, At
  <2> QED BY <2>1, <1>2, HaltLead
<1>4. ASSUME Delete(t) PROVE Lead'
  <2>1. pc[t] = "delete" /\ ForDetach(t) # Null
    BY <1>4, DetachedIsOwn, TableAssumption DEF Delete, At
  <2>2. \/ Halt(t)
        \/ /\ Leave(ForDetach(t)) /\ live' = live \ {ForDetach(t)}
           /\ UNCHANGED <<pConnectionsOut, pConnectionsIn, holds>>
    BY <1>4, <2>1 DEF Delete, locals
  <2> QED BY <2>1, <2>2, <1>2, HaltLead
<1>5. ASSUME Clear(t) PROVE Lead'
  <2>1. /\ pc[t] = "clear" /\ pConnectionsOut' = [pConnectionsOut EXCEPT ![TaskOf[t]][id[t]] = Null]
        /\ UNCHANGED <<pConnectionsIn, holds, channelOf, receiveID, live>>
    BY <1>5 DEF Clear, Goes, objects
  <2>2. /\ TaskOf[t] \in Tasks /\ id[t] \in OutSlots /\ holds[t][id[t]] = NoChannel
        /\ \A u \in Threads : TaskOf[u] = TaskOf[t] /\ Mine(u, id[t]) => u = t
    BY <2>1, OwnSlot DEF DetachAt, Owned, NotBoth
  <2> SUFFICES ASSUME NEW u \in Threads, NEW i \in OutSlots, holds'[u][i] # NoChannel
               PROVE  LeadsBack(u, i)'
    BY DEF Lead
  <2>3. holds'[u][i] = holds[u][i] /\ Mine(u, i) /\ TaskOf[u] \in Tasks
    BY <2>1, TableAssumption DEF Mine
  <2>4. ~ (TaskOf[u] = TaskOf[t] /\ i = id[t])
    BY <2>2, <2>3
  <2>5. Out(TaskOf[u], i)' = Out(TaskOf[u], i)
    BY <2>1, <2>2, <2>3, <2>4 DEF Out, Typed, TTypeOK
  <2> QED BY <2>1, <2>3, <2>5, KeepsLead
<1> QED BY <1>1, <1>3, <1>4, <1>5 DEF DetachStep

-----------------------------------------------------------------------------
(* The theorems.                                                           *)

\* The inductive invariant.
TInv == Typed /\ Chained /\ OwnedUnlessClash /\ LeadUnlessClash

\* A clash is remembered.
LEMMA ClashStays ==
  ASSUME NEW t \in Threads, ServerStep(t) \/ AttachStep(t) \/ DetachStep(t)
  PROVE  clashed \subseteq clashed'
<1> USE DEF locals
<1>h. Halt(t) => UNCHANGED clashed
  BY DEF Halt
<1>1. ServerStep(t) => UNCHANGED clashed
  <2>1. Create(t) \/ Destroy(t) => UNCHANGED clashed
    BY <1>h DEF Create, Destroy
  <2>2. (\E c \in Channels : StoreChannel(t, c)) \/ ClearChannel(t) => UNCHANGED clashed
    BY DEF StoreChannel, ClearChannel
  <2> QED BY <2>1, <2>2 DEF ServerStep
<1>2. AttachStep(t) => clashed \subseteq clashed'
  <2>1. Attach(t) \/ FindOut(t) \/ FindIn(t) => UNCHANGED clashed
    BY DEF Attach, FindOut, FindIn
  <2>2. (\E k \in Connections : Connect(t, k)) \/ Enter(t) => UNCHANGED clashed
    BY <1>h DEF Connect, Enter
  <2>3. StoreOut(t) \/ StoreIn(t) => clashed \subseteq clashed'
    BY <1>h DEF StoreOut, StoreIn, Clash
  <2> QED BY <2>1, <2>2, <2>3 DEF AttachStep
<1>3. DetachStep(t) => UNCHANGED clashed
  <2>1. (\E i \in OutSlots : Detach(t, i)) \/ Clear(t) => UNCHANGED clashed
    BY DEF Detach, Clear
  <2>2. Disconnect(t) \/ Delete(t) => UNCHANGED clashed
    BY <1>h DEF Disconnect, Delete
  <2> QED BY <2>1, <2>2 DEF DetachStep
<1> QED BY <1>1, <1>2, <1>3

LEMMA NextKeepsInv == TInv /\ [TNext]_tvars => TInv'
<1> SUFFICES ASSUME TInv, [TNext]_tvars PROVE TInv'
  OBVIOUS
<1>1. CASE UNCHANGED tvars
  <2> USE DEF tvars, tables, objects, locals, queue, list
  <2>1. Typed'
    BY <1>1 DEF TInv, Typed, TTypeOK, LocalsTyped, Placed, NamesTyped, At
  <2>2. Chained'
    BY <1>1, AwayFromList DEF TInv, Typed
  <2>3. Owned => Owned'
    <3>1. Listed => Listed'
      BY <1>1 DEF Listed
    <3> QED BY <1>1, <3>1, QuietOwned DEF TInv, Owned
  <2>4. Owned /\ Lead => Lead'
    BY <1>1, QuietLead DEF TInv
  <2>5. clashed' = clashed
    BY <1>1
  <2>6. clashed = {} => Owned
    BY DEF TInv, OwnedUnlessClash
  <2> QED BY <2>1, <2>2, <2>3, <2>4, <2>5, <2>6 DEF TInv, OwnedUnlessClash, LeadUnlessClash
<1>2. CASE TNext
  <2>1. ASSUME NEW t \in Threads, ServerStep(t) \/ AttachStep(t) \/ DetachStep(t), UNCHANGED queue,
               TTypeOK' /\ LocalsTyped',
               Owned /\ "out" \notin clashed' => Owned',
               Owned /\ Lead /\ clashed' = {} => Lead'
        PROVE  TInv'
    <3>1. NamesTyped' /\ Chained'
      BY <2>1, TablesAreAway, AwayFromList DEF TInv, Typed
    <3>2. clashed \subseteq clashed'
      BY <2>1, ClashStays
    <3>3. OwnedUnlessClash'
      BY <2>1, <3>2 DEF TInv, OwnedUnlessClash
    <3>4. LeadUnlessClash'
      BY <2>1, <3>2 DEF TInv, OwnedUnlessClash, LeadUnlessClash
    <3> QED BY <2>1, <3>1, <3>3, <3>4 DEF TInv, Typed
  <2>t. Typed /\ Servers \subseteq Threads /\ Clients \subseteq Threads
    BY TableAssumption DEF TInv
  <2>2. ASSUME NEW t \in Servers, ServerStep(t), UNCHANGED <<queue, found>> PROVE TInv'
    <3>1. t \in Threads /\ TTypeOK' /\ LocalsTyped'
      BY <2>t, <2>2, ServerTyped
    <3>2. /\ Owned => Owned'
          /\ Owned /\ Lead => Lead'
      BY <3>1, <2>t, <2>2, ServerOwned, ServerLead
    <3> QED BY <2>1, <2>2, <3>1, <3>2
  <2>3. ASSUME NEW t \in Clients, AttachStep(t), UNCHANGED queue PROVE TInv'
    <3>1. t \in Threads /\ TTypeOK' /\ LocalsTyped'
      BY <2>t, <2>3, AttachTyped
    <3>2. /\ Owned /\ "out" \notin clashed' => Owned'
          /\ Owned /\ Lead /\ clashed' = {} => Lead'
      BY <3>1, <2>t, <2>3, AttachOwned, AttachLead
    <3> QED BY <2>1, <2>3, <3>1, <3>2
  <2>4. ASSUME NEW t \in Clients, DetachStep(t), UNCHANGED <<queue, found>> PROVE TInv'
    <3>1. t \in Threads /\ TTypeOK' /\ LocalsTyped'
      BY <2>t, <2>4, DetachTyped
    <3>2. /\ Owned => Owned'
          /\ Owned /\ Lead => Lead'
      BY <3>1, <2>t, <2>4, DetachStepOwned, DetachLead
    <3> QED BY <2>1, <2>4, <3>1, <3>2
  <2>5. ASSUME NEW t \in Threads, Naming(t), UNCHANGED <<tables, objects, locals, halted>> PROVE TInv'
    <3>1. TTypeOK' /\ LocalsTyped'
      BY <2>t, <2>5, NamingTyped
    <3>2. NamesTyped' /\ Chained'
      BY <2>t, <2>5, NamingListed DEF TInv
    <3>3. Owned => Owned'
      BY <2>t, <2>5, NamingOwned
    <3>4. Owned /\ Lead => Lead'
      BY <2>t, <2>5, QuietLead DEF tables, objects, locals
    <3>5. clashed' = clashed
      BY <2>5 DEF locals
    <3>6. clashed = {} => Owned
      BY DEF TInv, OwnedUnlessClash
    <3> QED BY <3>1, <3>2, <3>3, <3>4, <3>5, <3>6 DEF TInv, Typed, OwnedUnlessClash, LeadUnlessClash
  <2> QED BY <1>2, <2>2, <2>3, <2>4, <2>5 DEF TNext
<1> QED BY <1>1, <1>2

\* Everything below follows from it.
THEOREM TablesInvariance == TSpec => []TInv
<1>1. TInit => TInv
  <2>1. TInit => Lead
    BY DEF TInit, Lead
  <2> QED BY <2>1, InitTyped, InitChained, InitOwned DEF TInv, OwnedUnlessClash, LeadUnlessClash
<1> QED BY <1>1, NextKeepsInv, PTL DEF TSpec

\* The variables have their types, for any tasks, threads and sizes of tables.
THEOREM TablesTypeCorrect == TSpec => []TTypeOK
<1>1. TInv => TTypeOK
  BY DEF TInv, Typed
<1> QED BY <1>1, TablesInvariance, PTL

\* While no two threads store into one out slot, channels list only connections
\* that exist and are connected to them (CAChannel::pConnectionsIn_).
THEOREM ListsAreLive == TSpec => []ChannelsListLiveConnections
<1>1. TInv => ChannelsListLiveConnections
  BY DEF TInv, OwnedUnlessClash, Owned, Listed, ChannelsListLiveConnections
<1> QED BY <1>1, TablesInvariance, PTL

\* While no two threads store into one slot, a connection id leads to the
\* channel it was asked for, and the receive id leads back.
THEOREM IdsAreRight == TSpec => []IdsLeadThereAndBack
<1>1. TInv => IdsLeadThereAndBack
  <2>1. TInv /\ clashed = {} => Lead
    BY DEF TInv, LeadUnlessClash
  <2>2. Clients \subseteq Threads
    BY TableAssumption
  <2> QED BY <2>1, <2>2 DEF IdsLeadThereAndBack, Lead, LeadsBack, Out
<1> QED BY <1>1, TablesInvariance, PTL

\* While no two threads store into one out slot, a connection that exists is in
\* one out table once, or in the hands of its attach, or left behind by one.
THEOREM OneTableOwns == TSpec => []ConnectionsAreOwned
<1>1. TInv => ConnectionsAreOwned
  <2> SUFFICES ASSUME Owned, NEW k \in Connections \cap live, k \notin gaveUp,
                      ~ \E t \in Threads : conn[t] = k
               PROVE  Cardinality(OwnersOf(k)) = 1
    BY DEF TInv, OwnedUnlessClash, ConnectionsAreOwned
  <2>1. PICK p \in Tasks, i \in OutSlots : Out(p, i) = k /\ Clean(p, i)
    BY DEF Owned, Accounted
  <2>2. \A o \in Tasks \X OutSlots :
          o \in OwnersOf(k) <=> Out(o[1], o[2]) = k /\ Clean(o[1], o[2])
    BY DEF OwnersOf, Out, Clean, At
  <2>3. OwnersOf(k) \subseteq Tasks \X OutSlots
    BY DEF OwnersOf
  <2>4. \A o \in OwnersOf(k) : o = <<p, i>>
    <3> SUFFICES ASSUME NEW o \in OwnersOf(k) PROVE o = <<p, i>>
      OBVIOUS
    <3>1. o \in Tasks \X OutSlots /\ Out(o[1], o[2]) = k /\ Clean(o[1], o[2])
      BY <2>2, <2>3
    <3>2. o[1] = p /\ o[2] = i
      BY <2>1, <3>1, TableAssumption DEF Owned, RefOnce
    <3> QED BY <3>1, <3>2
  <2>5. <<p, i>> \in OwnersOf(k)
    BY <2>1, <2>2
  <2>6. OwnersOf(k) = {<<p, i>>}
    BY <2>4, <2>5
  <2> QED BY <2>6, FS_Singleton
<1> QED BY <1>1, TablesInvariance, PTL

\* A lookup (k_lookupName) finds every name registered before it began, for any
\* number of names and threads, unless registrations have overlapped.
THEOREM LookupsFind == TSpec => []NamesAreFound
<1>1. TInv => NamesAreFound
  BY ChainedFinds DEF TInv
<1> QED BY <1>1, TablesInvariance, PTL
===============================================================================
