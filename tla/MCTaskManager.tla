---------------------------- MODULE MCTaskManager ----------------------------
(* TaskManager instantiated for TLC: threads with their tasks, and time in *)
(* units of half a timer interrupt.                                        *)
EXTENDS TaskManager

CONSTANTS t1, t2, t3, p1, p2

MCThreads == {t1, t2, t3}
MCTasks == {p1, p2}
MCTaskOf == [t \in MCThreads |-> IF t = t1 THEN p1 ELSE p2]
==============================================================================
