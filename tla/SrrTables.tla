------------------------------- MODULE SrrTables -------------------------------
(***************************************************************************)
(* The message tables of a task (CTask in kernel/task.cpp), the table of   *)
(* connections in a channel (CAChannel in kernel/srrChannel.cpp), and the  *)
(* life of channels and connections, with the name server by which clients *)
(* find servers.                                                           *)
(*                                                                         *)
(* Nothing is locked.  The search of a table for an empty slot is one step *)
(* and the store into the slot another: in between, another thread may     *)
(* store there.  Indices stand for the ids they are turned into by adding  *)
(* a constant.  An object is its address: once deleted, a new object may   *)
(* get it again.  What the code does after it has used a deleted object is *)
(* not modelled: the machine halts, as it does on a panic.                 *)
(*                                                                         *)
(* Servers make and destroy a channel, and register names for it; clients  *)
(* open and close names (libc/fileio.cpp): they look up and attach, and    *)
(* detach.                                                                 *)
(* Messages are module SrrMessage; here no message is under way when a     *)
(* connection is closed, so disconnect does not wait.                      *)
(***************************************************************************)
EXTENDS NameServer, Naturals, FiniteSetsExt

CONSTANTS Servers, Clients,     \* threads that have a channel, that connect
          NamesOf,              \* the names a thread registers for its channel
          Tasks, TaskOf,        \* CTask objects, and the task of a thread
          Channels,             \* addresses of CChannelUser objects
          Connections,          \* addresses of CConnectionUser objects
          ChannelSlots, OutSlots, InSlots   \* MAX_..._COUNT, as 1 .. n

ASSUME TableAssumption ==
  /\ Servers \cup Clients \subseteq Threads /\ TaskOf \in [Threads -> Tasks]
  /\ NamesOf \in [Threads -> SUBSET Names]
  /\ Addresses = Tasks \X ChannelSlots
  /\ Channels \cap Connections = {} /\ Null \notin Channels \cup Connections
  /\ \A S \in {ChannelSlots, OutSlots, InSlots} : S \subseteq Nat \ {0} /\ IsFiniteSet(S)

VARIABLES pChannel,           \* CTask::pChannel_
          pConnectionsOut,    \* CTask::pConnectionsOut_
          pConnectionsIn,     \* CTask::pConnectionsIn_
          entries,            \* CAChannel::pConnectionsIn_
          channelOf,          \* CConnectionUser::channel_
          receiveID,          \* CConnectionUser::iReceiveID_, 0 for -1
          live,               \* the objects that exist
          halted,
          slot,               \* the empty slot a thread has found
          id,                 \* iCOIDXOut of an attach, iConnectionID of a detach
          chan, conn,         \* pChannel and pConnection of an attach
          owns,               \* the channel id each server has, else 0
          holds,              \* what each client's connection ids stand for
          clashed,            \* history: tables with a store over a used slot
          gaveUp              \* history: connections an attach left behind

tables == <<pChannel, pConnectionsOut, pConnectionsIn, entries>>
objects == <<channelOf, receiveID, live>>
locals == <<slot, id, chan, conn, owns, holds, clashed, gaveUp>>
tvars == <<pc, queue, found, tables, objects, locals, halted>>

NoChannel == [server |-> Null, channel |-> Null]

TInit ==
  /\ NInit
  /\ pChannel = [p \in Tasks |-> [i \in ChannelSlots |-> Null]]
  /\ pConnectionsOut = [p \in Tasks |-> [i \in OutSlots |-> Null]]
  /\ pConnectionsIn = [p \in Tasks |-> [i \in InSlots |-> Null]]
  /\ entries = [c \in Channels |-> [i \in InSlots |-> Null]]
  /\ channelOf = [k \in Connections |-> Null] /\ receiveID = [k \in Connections |-> 0]
  /\ live = {} /\ halted = FALSE
  /\ slot = [t \in Threads |-> 0] /\ id = [t \in Threads |-> 0]
  /\ chan = [t \in Threads |-> Null] /\ conn = [t \in Threads |-> Null]
  /\ owns = [t \in Threads |-> 0]
  /\ holds = [t \in Threads |-> [i \in OutSlots |-> NoChannel]]
  /\ clashed = {} /\ gaveUp = {}

-----------------------------------------------------------------------------
Empty(table) == {i \in DOMAIN table : table[i] = Null}

\* Wrong: the search goes one slot too far.
FirstEmptyTooFar(table) ==
  IF Empty(table) = {} THEN Max(DOMAIN table) + 1 ELSE Min(Empty(table))

\* The index the search of a table ends with, 0 when it is full.
FirstEmpty(table) == IF Empty(table) = {} THEN 0 ELSE Min(Empty(table))

\* A store into a slot of an out or in table that holds x.
Clash(table, x) == clashed' = clashed \cup IF x = Null THEN {} ELSE {table}

\* Panic, or the use of a deleted object.
Halt(t) ==
  /\ halted' = TRUE
  /\ UNCHANGED <<pc, found, tables, objects, locals>>

\* CAChannel::removeConnection(k) in channel c.
Without(table, k) == [i \in DOMAIN table |-> IF table[i] = k THEN Null ELSE table[i]]

-----------------------------------------------------------------------------
(* Channels.                                                               *)

Create(t) ==
  /\ At(t, "idle") /\ owns[t] = 0
  /\ LET i == FirstEmpty(pChannel[TaskOf[t]]) IN
     IF i = 0 THEN Halt(t)
     ELSE /\ Goes(t, "idle", "create")
          /\ slot' = [slot EXCEPT ![t] = i]
          /\ UNCHANGED <<tables, objects, id, chan, conn, owns, holds, clashed, gaveUp, halted>>

StoreChannel(t, c) ==
  /\ Goes(t, "create", "idle") /\ c \notin live
  /\ live' = live \cup {c}
  /\ entries' = [entries EXCEPT ![c] = [i \in InSlots |-> Null]]
  /\ pChannel' = [pChannel EXCEPT ![TaskOf[t]][slot[t]] = c]
  /\ owns' = [owns EXCEPT ![t] = slot[t]] /\ slot' = [slot EXCEPT ![t] = 0]
  /\ UNCHANGED <<pConnectionsOut, pConnectionsIn, channelOf, receiveID, id, chan,
                 conn, holds, clashed, gaveUp, halted>>

Destroy(t) ==
  /\ At(t, "idle") /\ owns[t] # 0
  /\ LET c == pChannel[TaskOf[t]][owns[t]] IN
     IF c = Null
     THEN /\ owns' = [owns EXCEPT ![t] = 0]     \* "Invalid channel id"
          /\ UNCHANGED <<pc, tables, objects, slot, id, chan, conn, holds, clashed, gaveUp, halted>>
     ELSE IF c \notin live THEN Halt(t)
     ELSE /\ Goes(t, "idle", "clearChannel")
          /\ live' = live \ {c}
          /\ UNCHANGED <<tables, channelOf, receiveID, locals, halted>>

ClearChannel(t) ==
  /\ Goes(t, "clearChannel", "idle")
  /\ pChannel' = [pChannel EXCEPT ![TaskOf[t]][owns[t]] = Null]
  /\ owns' = [owns EXCEPT ![t] = 0]
  /\ UNCHANGED <<pConnectionsOut, pConnectionsIn, entries, objects, slot, id, chan,
                 conn, holds, clashed, gaveUp, halted>>

-----------------------------------------------------------------------------
(* channelConnectAttach to the address that open() has looked up.          *)

ServerOf(t) == found[t][1]

\* An attach returns to open(), which returns; their locals are gone.
AttachReturns(t) ==
  /\ found' = [found EXCEPT ![t] = Null]
  /\ slot' = [slot EXCEPT ![t] = 0] /\ id' = [id EXCEPT ![t] = 0]
  /\ chan' = [chan EXCEPT ![t] = Null] /\ conn' = [conn EXCEPT ![t] = Null]

\* The task and the channel are found, or the attach returns -1.
Attach(t) ==
  /\ At(t, "found")
  /\ UNCHANGED <<tables, objects, owns, holds, clashed, gaveUp, halted>>
  /\ LET c == pChannel[ServerOf(t)][found[t][2]] IN
     \/ /\ c # Null /\ Goes(t, "found", "connect")
        /\ chan' = [chan EXCEPT ![t] = c]
        /\ UNCHANGED <<found, slot, id, conn>>
     \/ c = Null /\ Goes(t, "found", "idle") /\ AttachReturns(t)

\* createConnection: the connection is made, and a slot of the channel is found.
\* (A full channel is only reported.)
Connect(t, k) ==
  LET c == chan[t]  i == FirstEmpty(entries[c]) IN
  /\ At(t, "connect") /\ k \notin live
  /\ IF c \notin live THEN Halt(t)
     ELSE /\ Goes(t, "connect", IF i = 0 THEN "findOut" ELSE "enter")
          /\ channelOf' = [channelOf EXCEPT ![k] = c]
          /\ receiveID' = [receiveID EXCEPT ![k] = 0]
          /\ live' = live \cup {k}
          /\ conn' = [conn EXCEPT ![t] = k] /\ slot' = [slot EXCEPT ![t] = i]
          /\ UNCHANGED <<found, tables, id, chan, owns, holds, clashed, gaveUp, halted>>

Enter(t) ==
  /\ At(t, "enter")
  /\ IF chan[t] \notin live THEN Halt(t)
     ELSE /\ Goes(t, "enter", "findOut")
          /\ entries' = [entries EXCEPT ![chan[t]][slot[t]] = conn[t]]
          /\ UNCHANGED <<pChannel, pConnectionsOut, pConnectionsIn, objects, found, slot, id,
                         chan, conn, owns, holds, clashed, gaveUp, halted>>

\* addOutConnection finds a slot; without one the attach returns -1.
FindOut(t) ==
  LET i == FirstEmpty(pConnectionsOut[TaskOf[t]]) IN
  /\ At(t, "findOut")
  /\ UNCHANGED <<tables, objects, owns, holds, clashed, halted>>
  /\ \/ /\ i # 0 /\ Goes(t, "findOut", "storeOut")
        /\ id' = [id EXCEPT ![t] = i]
        /\ UNCHANGED <<found, slot, chan, conn, gaveUp>>
     \/ /\ i = 0 /\ Goes(t, "findOut", "idle") /\ AttachReturns(t)
        /\ gaveUp' = gaveUp \cup {conn[t]}

StoreOut(t) ==
  /\ Goes(t, "storeOut", "findIn")
  /\ pConnectionsOut' = [pConnectionsOut EXCEPT ![TaskOf[t]][id[t]] = conn[t]]
  /\ Clash("out", pConnectionsOut[TaskOf[t]][id[t]])
  /\ UNCHANGED <<pChannel, pConnectionsIn, entries, objects, found, slot, id, chan, conn,
                 owns, holds, gaveUp, halted>>

\* addInConnection finds a slot; without one the attach returns -1, and the
\* connection stays in the out table under an id nobody is told.
FindIn(t) ==
  LET i == FirstEmpty(pConnectionsIn[ServerOf(t)]) IN
  /\ At(t, "findIn")
  /\ UNCHANGED <<tables, objects, owns, holds, clashed, gaveUp, halted>>
  /\ \/ /\ i # 0 /\ Goes(t, "findIn", "storeIn")
        /\ slot' = [slot EXCEPT ![t] = i]
        /\ UNCHANGED <<found, id, chan, conn>>
     \/ i = 0 /\ Goes(t, "findIn", "idle") /\ AttachReturns(t)

\* Wrong: the index into the other table becomes the receive id.
StoreInSwapped(t) ==
  /\ At(t, "storeIn") /\ conn[t] \in live
  /\ Goes(t, "storeIn", "idle") /\ AttachReturns(t)
  /\ pConnectionsIn' = [pConnectionsIn EXCEPT ![ServerOf(t)][slot[t]] = conn[t]]
  /\ Clash("in", pConnectionsIn[ServerOf(t)][slot[t]])
  /\ receiveID' = [receiveID EXCEPT ![conn[t]] = id[t]]
  /\ holds' = [holds EXCEPT ![t][id[t]] = [server |-> ServerOf(t), channel |-> chan[t]]]
  /\ UNCHANGED <<pChannel, pConnectionsOut, entries, channelOf, live, owns, gaveUp, halted>>

\* The store into the in table and setReceiveID; the attach returns the id.
StoreIn(t) ==
  /\ At(t, "storeIn")
  /\ IF conn[t] \notin live THEN Halt(t)
     ELSE /\ Goes(t, "storeIn", "idle") /\ AttachReturns(t)
          /\ pConnectionsIn' = [pConnectionsIn EXCEPT ![ServerOf(t)][slot[t]] = conn[t]]
          /\ Clash("in", pConnectionsIn[ServerOf(t)][slot[t]])
          /\ receiveID' = [receiveID EXCEPT ![conn[t]] = slot[t]]
          /\ holds' = [holds EXCEPT ![t][id[t]] =
                                      [server |-> ServerOf(t), channel |-> chan[t]]]
          /\ UNCHANGED <<pChannel, pConnectionsOut, entries, channelOf, live, owns, gaveUp, halted>>

-----------------------------------------------------------------------------
(* channelConnectDetach.  Every line of it reads the out table again.      *)

ForDetach(t) == pConnectionsOut[TaskOf[t]][id[t]]

Detach(t, i) ==
  /\ At(t, "idle") /\ holds[t][i] # NoChannel
  /\ holds' = [holds EXCEPT ![t][i] = NoChannel]
  /\ IF pConnectionsOut[TaskOf[t]][i] = Null THEN UNCHANGED <<pc, id>>
     ELSE Goes(t, "idle", "disconnect") /\ id' = [id EXCEPT ![t] = i]
  /\ UNCHANGED <<tables, objects, slot, chan, conn, owns, clashed, gaveUp, halted>>

\* Wrong: the connection is not taken out of its channel.
LeaveKeepsEntry(k) ==
  IF channelOf[k] = Null THEN UNCHANGED <<entries, channelOf, receiveID>>
  ELSE /\ channelOf' = [channelOf EXCEPT ![k] = Null]
       /\ receiveID' = [receiveID EXCEPT ![k] = 0]
       /\ UNCHANGED entries

\* k leaves its channel, if it has not yet.
Leave(k) ==
  IF channelOf[k] = Null THEN UNCHANGED <<entries, channelOf, receiveID>>
  ELSE /\ entries' = [entries EXCEPT ![channelOf[k]] = Without(@, k)]
       /\ channelOf' = [channelOf EXCEPT ![k] = Null]
       /\ receiveID' = [receiveID EXCEPT ![k] = 0]

Usable(k) == k \in live /\ channelOf[k] \in live \cup {Null}

\* pConnectionsOut_[i]->disconnect()
Disconnect(t) ==
  /\ At(t, "disconnect")
  /\ IF ~ Usable(ForDetach(t)) THEN Halt(t)
     ELSE /\ Goes(t, "disconnect", "delete")
          /\ Leave(ForDetach(t))
          /\ UNCHANGED <<pChannel, pConnectionsOut, pConnectionsIn, live, locals, halted>>

\* Wrong: the object is not deleted.
DeleteForgotten(t) ==
  Goes(t, "delete", "clear") /\ UNCHANGED <<tables, objects, locals, halted>>

\* delete pConnectionsOut_[i]
Delete(t) ==
  LET k == ForDetach(t) IN
  /\ At(t, "delete")
  /\ IF k = Null
     THEN Goes(t, "delete", "clear") /\ UNCHANGED <<tables, objects, locals, halted>>
     ELSE IF ~ Usable(k) THEN Halt(t)
     ELSE /\ Goes(t, "delete", "clear")
          /\ Leave(k)
          /\ live' = live \ {k}
          /\ UNCHANGED <<pChannel, pConnectionsOut, pConnectionsIn, locals, halted>>

\* pConnectionsOut_[i] = NULL.  The server's pConnectionsIn_ is left as it is.
Clear(t) ==
  /\ Goes(t, "clear", "idle")
  /\ pConnectionsOut' = [pConnectionsOut EXCEPT ![TaskOf[t]][id[t]] = Null]
  /\ id' = [id EXCEPT ![t] = 0]
  /\ UNCHANGED <<pChannel, pConnectionsIn, entries, objects, slot, chan, conn, owns,
                 holds, clashed, gaveUp, halted>>

-----------------------------------------------------------------------------
ServerStep(t) ==
  Create(t) \/ (\E c \in Channels : StoreChannel(t, c)) \/ Destroy(t) \/ ClearChannel(t)
AttachStep(t) ==
  \/ Attach(t) \/ (\E k \in Connections : Connect(t, k)) \/ Enter(t)
  \/ FindOut(t) \/ StoreOut(t) \/ FindIn(t) \/ StoreIn(t)
DetachStep(t) ==
  (\E i \in OutSlots : Detach(t, i)) \/ Disconnect(t) \/ Delete(t) \/ Clear(t)

\* A server registers its channel (bound: each of its names once); open()
\* begins with a lookup.
Naming(t) ==
  \/ NameStep(t)
  \/ \E n \in NamesOf[t] :
       /\ owns[t] # 0 /\ \A e \in Entries : sName[e] # n
       /\ Register(t, n, <<TaskOf[t], owns[t]>>)
  \/ \E n \in Names : t \in Clients /\ Lookup(t, n)

TNext ==
  /\ ~ halted
  /\ \/ \E t \in Servers : ServerStep(t) /\ UNCHANGED <<queue, found>>
     \/ \E t \in Clients : AttachStep(t) /\ UNCHANGED queue
     \/ \E t \in Clients : DetachStep(t) /\ UNCHANGED <<queue, found>>
     \/ \E t \in Threads : Naming(t) /\ UNCHANGED <<tables, objects, locals, halted>>

TSpec == TInit /\ [][TNext]_tvars

-----------------------------------------------------------------------------
(* Properties.                                                             *)

\* Every variable has its type.
TTypeOK ==
  /\ pChannel \in [Tasks -> [ChannelSlots -> Channels \cup {Null}]]
  /\ pConnectionsOut \in [Tasks -> [OutSlots -> Connections \cup {Null}]]
  /\ pConnectionsIn \in [Tasks -> [InSlots -> Connections \cup {Null}]]
  /\ entries \in [Channels -> [InSlots -> Connections \cup {Null}]]
  /\ channelOf \in [Connections -> Channels \cup {Null}]
  /\ receiveID \in [Connections -> InSlots \cup {0}]
  /\ live \subseteq Channels \cup Connections
  /\ halted \in BOOLEAN /\ clashed \subseteq {"out", "in"} /\ gaveUp \subseteq Connections
  /\ \A t \in Threads : slot[t] \in IF At(t, "create") THEN ChannelSlots ELSE InSlots \cup {0}
  /\ id \in [Threads -> OutSlots \cup {0}]
  /\ chan \in [Threads -> Channels \cup {Null}] /\ conn \in [Threads -> Connections \cup {Null}]
  /\ owns \in [Threads -> ChannelSlots \cup {0}]
  /\ holds \in [Threads -> [OutSlots -> [server : Tasks \cup {Null}, channel : Channels \cup {Null}]]]

\* Until two threads of a task store into one out slot, a channel lists only
\* connections that exist and that are connected to it, however attaches,
\* detaches and destroys interleave and whatever addresses come back: the
\* broadcast of a message or a walk of the list never meets a deleted one.
ChannelsListLiveConnections ==
  "out" \notin clashed => \A c \in Channels \cap live, i \in InSlots :
    LET k == entries[c][i] IN k # Null => k \in live /\ channelOf[k] = c

\* Until two threads store into one slot of a table, a connection id leads to a connection
\* of the channel it was asked for, and the receive id a server gets with a
\* message on it leads back to the same connection.
IdsLeadThereAndBack ==
  clashed = {} => \A t \in Clients, i \in OutSlots :
    LET k == pConnectionsOut[TaskOf[t]][i]
        h == holds[t][i]
    IN  h # NoChannel =>
          /\ k \in live /\ channelOf[k] = h.channel
          /\ receiveID[k] \in InSlots /\ pConnectionsIn[h.server][receiveID[k]] = k

\* The out slots that refer to k, without those of a delete that is not over.
OwnersOf(k) ==
  {o \in Tasks \X OutSlots :
     /\ pConnectionsOut[o[1]][o[2]] = k
     /\ \A t \in Threads : TaskOf[t] = o[1] /\ id[t] = o[2] => ~ At(t, "clear")}

\* Until two store into one out slot, "CTask has ownership" (task.h): a connection that exists is in
\* one out table once, or in the hands of the attach that makes it, or was
\* left behind by an attach that found the table full.
ConnectionsAreOwned ==
  "out" \notin clashed => \A k \in Connections \cap live :
    \/ k \in gaveUp
    \/ \E t \in Threads : conn[t] = k
    \/ Cardinality(OwnersOf(k)) = 1
===============================================================================
