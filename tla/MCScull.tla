------------------------------- MODULE MCScull -------------------------------
(* Scull for TLC.  The openers are interchangeable, and the runs check      *)
(* safety only.                                                             *)
EXTENDS Scull, TLC

AllMayFail == KernelCalls
Openers == Permutations(Files)

=============================================================================
