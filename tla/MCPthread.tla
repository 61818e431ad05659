------------------------------ MODULE MCPthread ------------------------------
(* Pthread instantiated for TLC: one mutex and one condition.              *)
EXTENDS Pthread

CONSTANTS t1, t2, t3, p1, m1, c1

MCTwo == {t1, t2}
MCThree == {t1, t2, t3}
MCTasks == {p1}
MCTaskOf == [t \in Threads |-> p1]
MCMutexes == {m1}
MCConds == {c1}
MCObjects == {m1, c1}
==============================================================================
