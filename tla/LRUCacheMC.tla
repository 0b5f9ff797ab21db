------------------------------ MODULE LRUCacheMC ------------------------------
(* Small instances of LRUCache for TLC.                                     *)
EXTENDS LRUCache, TLC

CONSTANTS k1, k2, k3, free, held

KeySymmetry == Permutations(Keys)
===============================================================================
