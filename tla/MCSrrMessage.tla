---------------------------- MODULE MCSrrMessage -----------------------------
(* SrrMessage instantiated for TLC.                                        *)
EXTENDS SrrMessage

CONSTANTS c1, c2, s1, s2, k1

MCMutexes == {<<"mutex", e>> : e \in Ends}
MCConds == {<<"cond", e>> : e \in Ends}
MCMutexOf == [e \in Ends |-> <<"mutex", e>>]
MCCondOf == [e \in Ends |-> <<"cond", e>>]
MCThreads == Clients \cup Servers
MCOneConnection == [c \in Clients |-> k1]
==============================================================================
