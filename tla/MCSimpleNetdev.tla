--------------------------- MODULE MCSimpleNetdev ---------------------------
(* SimpleNetdev for TLC: two CPUs, three packets of different lengths.     *)
EXTENDS SimpleNetdev, TLC

CONSTANTS p1, p2, p3

ThreePackets == {p1, p2, p3}
Lengths == (p1 :> 1) @@ (p2 :> 2) @@ (p3 :> 4)

AllMayFail == {"netdev", "registered", "netif_rx"}

=============================================================================
