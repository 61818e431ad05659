------------------------------ MODULE MCSrrTables ------------------------------
(* SrrTables instantiated for TLC.                                         *)
EXTENDS SrrTables, TLC

CONSTANTS s1, c1, c2, p1, p2, ch1, k1, k2, n1, n2, e1, e2

MCThreads == Servers \cup Clients
\* A task with a server that has two names, and a task with two clients.
MCTaskOf == [t \in MCThreads |-> IF t = s1 THEN p2 ELSE p1]
MCNamesOf == [t \in MCThreads |-> IF t = s1 THEN {n1, n2} ELSE {}]
MCAddresses == Tasks \X ChannelSlots
MCOneSlot == {1}
MCTwoSlots == {1, 2}
MCSymmetry == Permutations(Connections) \cup Permutations(Clients)
==============================================================================
