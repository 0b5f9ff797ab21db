---------------------------- MODULE ShardExecutorMC ----------------------------
(* Small instances of ShardExecutor for TLC.                                *)
EXTENDS ShardExecutor, TLC

CONSTANTS e1, e2, e3, e4

===============================================================================
