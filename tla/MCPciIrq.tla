------------------------------ MODULE MCPciIrq ------------------------------
(* PciIrq for TLC: two devices that share a line, and one on its own.      *)
EXTENDS PciIrq

CONSTANTS d1, d2, d3

ThreeDevices == {d1, d2, d3}
TwoLines == [d \in ThreeDevices |-> IF d = d3 THEN 11 ELSE 10]

AllMayFail == {"pci", "region", "mmio", "irq"}

=============================================================================
