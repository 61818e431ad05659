------------------------------ MODULE NameServer ------------------------------
(***************************************************************************)
(* The name server, kernel/srrNameServer.cpp: one list of names for all    *)
(* tasks.  k_registerName appends to it and k_lookupName walks it, both    *)
(* with interrupts on and without a lock, so every access to the list is a *)
(* step.  An entry is filled before it is linked, and is never removed.    *)
(***************************************************************************)
EXTENDS FiniteSets

CONSTANTS Threads,
          Names,
          Addresses,   \* what a name stands for: a process and a channel id
          Entries,     \* bound: the SNameEntry objects
          Head,        \* nameQueue_
          Null

ASSUME NameAssumption ==
  /\ IsFiniteSet(Entries) /\ Null \notin Entries \cup Names \cup Addresses
  /\ Head \notin Entries \cup {Null}

VARIABLES pc,          \* where each thread is
          sName,       \* the name in each entry, Null before it is allocated
          address,     \* iPID and iChannelID of each entry
          next,        \* tqe_next of the entries, tqh_first of the head
          last,        \* tqh_last: the entry, or head, whose next is the last
          newEntry,    \* newEntry of a thread in k_registerName
          tail,        \* the tqh_last it has read
          pEntry,      \* pEntry of a thread in k_lookupName
          wanted,      \* the name it looks for
          found,       \* the address a lookup has returned, while it is used
          overlapped,  \* history: two registrations were under way at once
          registered,  \* history: names registered before that
          expected     \* history: the lookup began with its name in that set

list == <<sName, address, next, last>>
queue == <<list, newEntry, tail, pEntry, wanted, overlapped, registered, expected>>

NInit ==
  /\ pc = [t \in Threads |-> "idle"]
  /\ sName = [e \in Entries |-> Null] /\ address = [e \in Entries |-> Null]
  /\ next = [e \in Entries \cup {Head} |-> Null] /\ last = Head
  /\ newEntry = [t \in Threads |-> Null] /\ tail = [t \in Threads |-> Head]
  /\ pEntry = [t \in Threads |-> Null] /\ wanted = [t \in Threads |-> Null]
  /\ found = [t \in Threads |-> Null]
  /\ overlapped = FALSE /\ registered = {} /\ expected = [t \in Threads |-> FALSE]

At(t, p) == pc[t] = p
Goes(t, p, q) == pc[t] = p /\ pc' = [pc EXCEPT ![t] = q]
Registering(t) == pc[t] \in {"readTail", "link", "moveTail"}

\* k_registerName: the entry is new and filled.
Register(t, n, a) ==
  /\ Goes(t, "idle", "readTail")
  /\ \E e \in Entries : sName[e] = Null
  /\ LET e == CHOOSE x \in Entries : sName[x] = Null IN
     /\ newEntry' = [newEntry EXCEPT ![t] = e]
     /\ sName' = [sName EXCEPT ![e] = n]
     /\ address' = [address EXCEPT ![e] = a]
     /\ next' = [next EXCEPT ![e] = Null]
  /\ overlapped' = (overlapped \/ \E u \in Threads : Registering(u))
  /\ UNCHANGED <<last, tail, pEntry, wanted, found, registered, expected>>

\* TAILQ_INSERT_TAIL: its read of tqh_last, its store through it, and the move
\* of tqh_last, with which k_registerName returns.
ReadTail(t) ==
  /\ Goes(t, "readTail", "link")
  /\ tail' = [tail EXCEPT ![t] = last]
  /\ UNCHANGED <<list, newEntry, pEntry, wanted, found, overlapped, registered, expected>>

Link(t) ==
  /\ Goes(t, "link", "moveTail")
  /\ next' = [next EXCEPT ![tail[t]] = newEntry[t]]
  /\ UNCHANGED <<sName, address, last, newEntry, tail, pEntry, wanted, found,
                 overlapped, registered, expected>>

Registered(t) ==
  /\ registered' = IF overlapped THEN registered
                   ELSE registered \cup {sName[newEntry[t]]}
  /\ newEntry' = [newEntry EXCEPT ![t] = Null] /\ tail' = [tail EXCEPT ![t] = Head]
  /\ UNCHANGED <<sName, address, next, pEntry, wanted, found, overlapped, expected>>

\* Wrong: the tail stays where it was.
MoveTailForgotten(t) ==
  Goes(t, "moveTail", "idle") /\ Registered(t) /\ UNCHANGED last

MoveTail(t) ==
  Goes(t, "moveTail", "idle") /\ last' = newEntry[t] /\ Registered(t)

\* k_lookupName(n), one entry at a time.
Lookup(t, n) ==
  /\ Goes(t, "idle", "compare")
  /\ pEntry' = [pEntry EXCEPT ![t] = next[Head]]
  /\ wanted' = [wanted EXCEPT ![t] = n]
  /\ expected' = [expected EXCEPT ![t] = n \in registered]
  /\ UNCHANGED <<list, newEntry, tail, found, overlapped, registered>>

\* The lookup returns address a, or -1, to a caller that goes on at place q.
LookupReturns(t, a, q) ==
  /\ Goes(t, "compare", q)
  /\ found' = [found EXCEPT ![t] = a]
  /\ pEntry' = [pEntry EXCEPT ![t] = Null] /\ wanted' = [wanted EXCEPT ![t] = Null]
  /\ expected' = [expected EXCEPT ![t] = FALSE]
  /\ UNCHANGED <<list, newEntry, tail, overlapped, registered>>

NextEntry(t) ==
  /\ At(t, "compare") /\ pEntry' = [pEntry EXCEPT ![t] = next[@]]
  /\ UNCHANGED <<pc, list, newEntry, tail, wanted, found, overlapped, registered, expected>>

Compare(t) ==
  IF pEntry[t] = Null THEN LookupReturns(t, Null, "idle")
  ELSE IF sName[pEntry[t]] = wanted[t] THEN LookupReturns(t, address[pEntry[t]], "found")
  ELSE NextEntry(t)

\* A thread goes on with a call of this module.
NameStep(t) == ReadTail(t) \/ Link(t) \/ MoveTail(t) \/ Compare(t)

-----------------------------------------------------------------------------
\* A lookup finds every name that was registered before it began, unless
\* registrations have overlapped: then names may be lost for ever.
NamesAreFound ==
  \A t \in Threads : At(t, "compare") /\ pEntry[t] = Null => ~expected[t]
==============================================================================
