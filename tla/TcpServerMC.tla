------------------------------ MODULE TcpServerMC ------------------------------
(* Small instances of TcpServer for TLC.                                    *)
EXTENDS TcpServer, TLC

CONSTANTS a, b, c, w1, w2

Symmetry == Permutations(Conns) \cup Permutations(Adders) \cup Permutations(Checkers)
===============================================================================
