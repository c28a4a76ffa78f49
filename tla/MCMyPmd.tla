------------------------------- MODULE MCMyPmd -------------------------------
(* MyPmd for TLC.                                                          *)
EXTENDS MyPmd

AllMayFail == {"map", "ethdev", "mac", "ring"}

=============================================================================
