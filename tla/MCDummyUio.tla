----------------------------- MODULE MCDummyUio -----------------------------
(* DummyUio for TLC.                                                       *)
EXTENDS DummyUio

AllMayFail == Resources \cup {"msix"}

=============================================================================
