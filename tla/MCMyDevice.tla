----------------------------- MODULE MCMyDevice -----------------------------
(* MyDevice for TLC.                                                       *)
EXTENDS MyDevice

AllMayFail == Resources \cup {"length"}

\* One vector the kernel refuses (-EINVAL) and one it gives.
SomeIrqs == {-22, 11}

\* A device that has no completion pending when it is first probed.
NoDonePending == SUBSET {"BUSY", "IRQ_ENABLE"}

=============================================================================
