------------------------------ MODULE DummyUio ------------------------------
(***************************************************************************)
(* The UIO driver dummy_uio_full (uio/simple_uio_driver.c), bound to one   *)
(* device again and again: probe with its fallback from MSI-X to the       *)
(* device's own interrupt and its error labels, and remove.                *)
(*                                                                         *)
(* uio_register_device requests the line it is handed.  The driver holds   *)
(* that line by then, and neither request allows sharing, so a probe with  *)
(* an interrupt ends at err_free_irq.  The UIO core requests nothing for   *)
(* the number 0, the only one with which a probe can succeed, and then     *)
(* refuses every read and write: dummy_irqcontrol is never called.         *)
(***************************************************************************)

CONSTANTS
  PdevIrqs,   \* what pdev->irq can be: "legacy", or "none" for the number 0
  MayFail     \* the kernel calls that may fail in this instance

Resources == {"pci", "regions", "mmio", "irq", "uio"}

ASSUME ConstantsAssumption ==
  /\ PdevIrqs \subseteq {"none", "legacy"} /\ PdevIrqs # {}
  /\ MayFail \subseteq Resources \cup {"msix"}

VARIABLES
  pc,         \* place in dummy_probe or dummy_remove
  held,       \* resources acquired and not yet given back
  msix,       \* MSI-X is enabled on the device
  dummy_irq,  \* the number in dummy_irq: a vector's, the legacy line's or 0
  ended       \* how the last binding ended

vars == <<pc, held, msix, dummy_irq, ended>>

ProbePcs    == {"pci", "regions", "mmio", "msix", "irq", "uio", "drvdata"}
RollbackPcs == {"err_free_irq", "err_iounmap", "err_release_regions",
                "err_disable_device", "err_return"}
RemovePcs   == {"rm_uio", "rm_irq", "rm_mmio", "rm_regions", "rm_pci", "rm_msix"}

TypeOK ==
  /\ pc \in ProbePcs \cup RollbackPcs \cup RemovePcs \cup {"unbound", "bound"}
  /\ held \in SUBSET Resources
  /\ msix \in BOOLEAN
  /\ dummy_irq \in {"none", "legacy", "vector"}
  /\ ended \in {"failed", "removed"}

Init ==
  /\ pc = "unbound" /\ held = {} /\ msix = FALSE /\ dummy_irq = "none"
  /\ ended = "removed"

-----------------------------------------------------------------------------
(* dummy_probe                                                             *)

Step(from, to) == pc = from /\ pc' = to

\* A step of probe or remove that takes or gives back nothing.
Move(from, to) == Step(from, to) /\ UNCHANGED <<held, msix, dummy_irq, ended>>

BeginProbe == Move("unbound", "pci")

Acquired(resource, next) ==
  /\ Step(resource, next) /\ held' = held \cup {resource}
  /\ UNCHANGED <<msix, dummy_irq, ended>>

AcquireStep(resource, next, failure) ==
  \/ Acquired(resource, next)
  \/ resource \in MayFail /\ Move(resource, failure)

Acquire ==
  \/ AcquireStep("pci", "regions", "err_return")
  \/ AcquireStep("regions", "mmio", "err_disable_device")
  \/ AcquireStep("mmio", "msix", "err_release_regions")

EnableMsixOr(fallbacks) ==
  /\ Step("msix", "irq")
  /\ \/ ~msix /\ msix' = TRUE /\ dummy_irq' = "vector"
     \/ (msix \/ "msix" \in MayFail) /\ UNCHANGED msix /\ dummy_irq' \in fallbacks
  /\ UNCHANGED <<held, ended>>

\* Faulty variants: the result is not looked at; it is taken for the number.
EnableMsixUnchecked == EnableMsixOr({"vector"})
EnableMsixError     == EnableMsixOr({"-EINVAL"})

\* pci_enable_msix_exact, which refuses a device where MSI-X is still enabled;
\* the interrupt of the device itself is used instead.
EnableMsix == EnableMsixOr(PdevIrqs)

\* Faulty variant: the failure jumps past iounmap.
RequestIrqLeaks == AcquireStep("irq", "uio", "err_release_regions")

RequestIrq == AcquireStep("irq", "uio", "err_iounmap")

\* The second, unshared request of the driver's own line is refused.
LineTaken == "irq" \in held /\ dummy_irq # "none"

\* uio_register_device (external) with info.irq = dummy_irq and irq_flags = 0.
UioRegister ==
  \/ ~LineTaken /\ Acquired("uio", "drvdata")
  \/ (LineTaken \/ "uio" \in MayFail) /\ Move("uio", "err_free_irq")

SetDrvdata == Move("drvdata", "bound")

-----------------------------------------------------------------------------
(* The error labels and dummy_remove                                       *)

ReleaseStep(from, resource, to) ==
  /\ Step(from, to) /\ held' = held \ {resource}
  /\ UNCHANGED <<msix, dummy_irq, ended>>

\* The labels do not disable MSI-X.
Rollback ==
  \/ ReleaseStep("err_free_irq", "irq", "err_iounmap")
  \/ ReleaseStep("err_iounmap", "mmio", "err_release_regions")
  \/ ReleaseStep("err_release_regions", "regions", "err_disable_device")
  \/ ReleaseStep("err_disable_device", "pci", "err_return")

ProbeReturn ==
  /\ Step("err_return", "unbound") /\ ended' = "failed"
  /\ UNCHANGED <<held, msix, dummy_irq>>

BeginRemove == Move("bound", "rm_uio")

Remove ==
  \/ ReleaseStep("rm_uio", "uio", "rm_irq")
  \/ ReleaseStep("rm_irq", "irq", "rm_mmio")
  \/ ReleaseStep("rm_mmio", "mmio", "rm_regions")
  \/ ReleaseStep("rm_regions", "regions", "rm_pci")
  \/ ReleaseStep("rm_pci", "pci", "rm_msix")

\* pci_disable_msix, enabled by this probe or left by an earlier one.
DisableMsix ==
  /\ Step("rm_msix", "unbound") /\ ended' = "removed" /\ msix' = FALSE
  /\ UNCHANGED <<held, dummy_irq>>

-----------------------------------------------------------------------------

dummy_probe ==
  \/ Acquire \/ EnableMsix \/ RequestIrq \/ UioRegister \/ SetDrvdata
  \/ Rollback \/ ProbeReturn

dummy_remove == Remove \/ DisableMsix

Next == BeginProbe \/ dummy_probe \/ BeginRemove \/ dummy_remove

Spec == Init /\ [][Next]_vars

-----------------------------------------------------------------------------
(* Properties                                                              *)

phase ==
  CASE pc = "unbound"     -> "unbound"
    [] pc \in ProbePcs    -> "probing"
    [] pc = "bound"       -> "bound"
    [] OTHER              -> "releasing"

\* The driver keeps the promise of PciBinding for everything but MSI-X: from
\* every place where dummy_probe can fail, and from dummy_remove, the device is
\* left with nothing held, each thing given back once.  dummy_handler touches
\* nothing.
Binding == INSTANCE PciBinding WITH using <- {}, Managed <- {}
BindingSpec == Binding!Spec

\* Whatever failed probes have left behind, a handler sits on a vector only
\* while MSI-X is enabled, and a binding that ends in remove leaves MSI-X off.
VectorAccounted ==
  /\ "irq" \in held /\ dummy_irq = "vector" => msix
  /\ pc = "unbound" /\ ended = "removed" => ~msix

=============================================================================
