------------------------------ MODULE SnowflakeMC ------------------------------
(* Small instances of Snowflake for TLC.                                    *)
EXTENDS Snowflake

CONSTANTS m, n

Ones    == [x \in Nodes |-> 1]
OneZero == [x \in Nodes |-> IF x = m THEN 1 ELSE 0]
ZeroOne == [x \in Nodes |-> IF x = m THEN 0 ELSE 1]
===============================================================================
