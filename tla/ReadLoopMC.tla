------------------------------ MODULE ReadLoopMC ------------------------------
(* Small instances of ReadLoop, the queue and its read loops, for TLC.      *)
EXTENDS ReadLoop, TLC

CONSTANTS p, v, w

AllMsg      == Msg
FirstOfP    == {<<p, 1>>}
LastAndTick == {<<p, 2>>, <<p, 3>>, Tick}
FirstTwo    == {<<p, 1>>, <<p, 2>>}
ButFirstOfP == (Msg \cup {Tick}) \ FirstOfP
Long        == [n \in 1 .. MaxSends |-> IF n = 1 THEN 2 ELSE 1]
===============================================================================
