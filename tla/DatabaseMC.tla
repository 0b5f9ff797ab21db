------------------------------ MODULE DatabaseMC -------------------------------
(* Small instances of Database for TLC.                                     *)
EXTENDS Database, TLC

CONSTANTS c1, c2, e1, e2, e3, x, y, k1, k2

Interchangeable ==
    Permutations(Callers) \cup Permutations(Executors)
        \cup Permutations(Entities) \cup Permutations(Shards)
===============================================================================
