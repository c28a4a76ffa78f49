---------------------------- MODULE MCScullNodes ----------------------------
(* ScullNodes for TLC.                                                     *)
EXTENDS ScullNodes

AllMayFail == KernelCalls

=============================================================================
