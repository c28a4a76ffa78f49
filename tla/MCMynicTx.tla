------------------------------ MODULE MCMynicTx ------------------------------
(* MynicTx for TLC.  The packets are told apart by the liveness properties, *)
(* so they are not declared symmetric.                                      *)
EXTENDS MynicTx

=============================================================================
