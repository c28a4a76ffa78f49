------------------------------- MODULE MCMynic -------------------------------
(* Mynic for TLC.                                                          *)
EXTENDS Mynic

AllMayFail == Resources \cup {"skb"}

=============================================================================
