-------------------------- MODULE MCBlockExecution --------------------------
(* BlockExecution for TLC.                                                 *)
EXTENDS BlockExecution

=============================================================================
