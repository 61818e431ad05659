----------------------------- MODULE MCMultiBoot -----------------------------
(* MultiBoot instantiated for TLC.                                         *)
EXTENDS MultiBoot

\* What the variables may hold at first: nothing of use, the answer of a slave
\* that is there, and one with a bit no slave has.
MCGarbage == {Nothing, Ack({1}), Ack({0})}
==============================================================================
