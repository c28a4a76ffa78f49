------------------------------- MODULE PciIrq -------------------------------
(***************************************************************************)
(* pci_irq_driver (pci_mmio/pcie.c) bound to any number of devices.  The   *)
(* mapping and the interrupt line are kept in two static variables that    *)
(* all its devices share: every probe overwrites them and every remove     *)
(* gives back what they say by then.  Probes and removes of different      *)
(* devices interleave; the PCI core runs one at a time on each device.     *)
(***************************************************************************)
EXTENDS Integers

CONSTANTS
  Devices,
  Line,         \* pdev->irq of each device
  Addrs,        \* addresses ioremap can return
  NULL,
  MaxHandlers,  \* bound on the handlers one device may pile up on its line
  MayFail       \* the kernel calls that may fail in this instance

ASSUME ConstantsAssumption ==
  /\ Line \in [Devices -> Int] /\ NULL \notin Addrs \cup Devices
  /\ MaxHandlers \in Nat \ {0}
  /\ MayFail \subseteq {"pci", "region", "mmio", "irq"}

VARIABLES
  mod,        \* the module: unloaded, loaded, or in pci_unregister_driver
  pc,         \* place in pci_probe or pci_remove, per device
  held,       \* enabled device and region, per device
  mmio_base,
  irq_line,
  maps,       \* the device each address is mapped to
  handlers,   \* handlers registered on the line of each device, with its dev_id
  together,   \* two devices have been bound at the same time
  mixed       \* two devices with different lines have

vars == <<mod, pc, held, mmio_base, irq_line, maps, handlers, together, mixed>>

statics == <<mmio_base, irq_line>>
history == <<together, mixed>>

ProbePcs   == {"pci", "region", "mmio", "irq"}
ReleasePcs == {"free_irq", "unmap", "release", "disable", "return"}

TypeOK ==
  /\ mod \in {"unloaded", "loaded", "exiting"}
  /\ pc \in [Devices -> ProbePcs \cup ReleasePcs \cup {"unbound", "bound"}]
  /\ held \in [Devices -> SUBSET {"pci", "region"}]
  /\ mmio_base \in Addrs \cup {NULL}
  /\ irq_line \in {Line[d] : d \in Devices} \cup {0}
  /\ maps \in [Addrs -> Devices \cup {NULL}]
  /\ handlers \in [Devices -> 0 .. MaxHandlers]
  /\ together \in BOOLEAN /\ mixed \in BOOLEAN

Init ==
  /\ mod = "unloaded"
  /\ pc = [d \in Devices |-> "unbound"] /\ held = [d \in Devices |-> {}]
  /\ mmio_base = NULL /\ irq_line = 0
  /\ maps = [a \in Addrs |-> NULL] /\ handlers = [d \in Devices |-> 0]
  /\ together = FALSE /\ mixed = FALSE

Step(d, from, to) == pc[d] = from /\ pc' = [pc EXCEPT ![d] = to]

-----------------------------------------------------------------------------
(* pci_probe                                                               *)

BeginProbe(d) ==
  /\ mod = "loaded" /\ handlers[d] < MaxHandlers
  /\ Step(d, "unbound", "pci")
  /\ LET others == {e \in Devices \ {d} : pc[e] # "unbound"}
     IN  /\ together' = (together \/ others # {})
         /\ mixed' = (mixed \/ \E e \in others : Line[e] # Line[d])
  /\ UNCHANGED <<mod, held, maps, handlers, statics>>

\* pci_enable_device, then pci_request_region.
AcquireStep(d, resource, next, failure) ==
  /\ \/ Step(d, resource, next) /\ held' = [held EXCEPT ![d] = @ \cup {resource}]
     \/ resource \in MayFail /\ Step(d, resource, failure) /\ UNCHANGED held
  /\ UNCHANGED <<mod, maps, handlers, statics, history>>

Acquire(d) ==
  \/ AcquireStep(d, "pci", "region", "return")
  \/ AcquireStep(d, "region", "mmio", "disable")

\* A failed ioremap also overwrites what another device has left in mmio_base.
Ioremap(d) ==
  /\ \/ \E a \in Addrs :
          /\ maps[a] = NULL /\ maps' = [maps EXCEPT ![a] = d]
          /\ mmio_base' = a /\ Step(d, "mmio", "irq")
     \/ /\ "mmio" \in MayFail /\ UNCHANGED maps
        /\ mmio_base' = NULL /\ Step(d, "mmio", "release")
  /\ UNCHANGED <<mod, held, irq_line, handlers, history>>

RequestIrqStep(d, failure, line) ==
  /\ irq_line' = line
  /\ \/ Step(d, "irq", "bound") /\ handlers' = [handlers EXCEPT ![d] = @ + 1]
     \/ "irq" \in MayFail /\ Step(d, "irq", failure) /\ UNCHANGED handlers
  /\ UNCHANGED <<mod, held, mmio_base, maps, history>>

\* Faulty variants: irq_line gets an error of request_irq (-EBUSY); the mapping
\* is forgotten when request_irq fails.
RequestIrqKeepsResult(d)  == RequestIrqStep(d, "unmap", -16)
RequestIrqLeaksMapping(d) == RequestIrqStep(d, "release", Line[d])

RequestIrq(d) == RequestIrqStep(d, "unmap", Line[d])

-----------------------------------------------------------------------------
(* pci_remove, and the error paths of pci_probe, which end like it         *)

BeginRemove(d) ==
  /\ Step(d, "bound", "free_irq")
  /\ UNCHANGED <<mod, held, maps, handlers, statics, history>>

\* free_irq(irq_line, pdev) finds the handler only on its own line, and only
\* warns otherwise.
FreeIrq(d) ==
  /\ Step(d, "free_irq", "unmap")
  /\ IF irq_line = Line[d] /\ handlers[d] > 0
       THEN handlers' = [handlers EXCEPT ![d] = @ - 1]
       ELSE UNCHANGED handlers
  /\ UNCHANGED <<mod, held, maps, statics, history>>

\* iounmap(mmio_base), whosever mapping that is; NULL and addresses that are
\* not mapped are passed over.
Iounmap(d) ==
  /\ Step(d, "unmap", "release")
  /\ maps' = [a \in Addrs |-> IF a = mmio_base THEN NULL ELSE maps[a]]
  /\ UNCHANGED <<mod, held, handlers, statics, history>>

ReleaseStep(d, from, resource, to) ==
  /\ Step(d, from, to) /\ held' = [held EXCEPT ![d] = @ \ {resource}]
  /\ UNCHANGED <<mod, maps, handlers, statics, history>>

\* Faulty variant: the region is kept.
ReleaseKeepsRegion(d) ==
  ReleaseStep(d, "release", "pci", "disable") \/ ReleaseStep(d, "disable", "pci", "return")

Release(d) ==
  \/ ReleaseStep(d, "release", "region", "disable")
  \/ ReleaseStep(d, "disable", "pci", "return")

\* probe or remove returns to the PCI core.
Return(d) ==
  /\ Step(d, "return", "unbound")
  /\ UNCHANGED <<mod, held, maps, handlers, statics, history>>

-----------------------------------------------------------------------------
(* pci_irq_init and pci_irq_exit                                           *)

\* insmod zeroes the static variables.
Load ==
  /\ mod = "unloaded" /\ mod' = "loaded"
  /\ mmio_base' = NULL /\ irq_line' = 0
  /\ UNCHANGED <<pc, held, maps, handlers, history>>

\* pci_unregister_driver probes no more and removes every device that is bound.
ExitBegin ==
  /\ mod = "loaded" /\ mod' = "exiting"
  /\ UNCHANGED <<pc, held, maps, handlers, statics, history>>

ExitReturn ==
  /\ mod = "exiting" /\ mod' = "unloaded"
  /\ \A d \in Devices : pc[d] = "unbound"
  /\ UNCHANGED <<pc, held, maps, handlers, statics, history>>

-----------------------------------------------------------------------------

Thread(d) ==
  \/ Acquire(d) \/ Ioremap(d) \/ RequestIrq(d)
  \/ FreeIrq(d) \/ Iounmap(d) \/ Release(d) \/ Return(d)

Next ==
  \/ Load \/ ExitBegin \/ ExitReturn
  \/ \E d \in Devices : BeginProbe(d) \/ BeginRemove(d) \/ Thread(d)

Spec == Init /\ [][Next]_vars

-----------------------------------------------------------------------------
(* Properties                                                              *)

PhaseOf(d) ==
  CASE pc[d] = "unbound"     -> "unbound"
    [] pc[d] \in ProbePcs    -> "probing"
    [] pc[d] = "bound"       -> "bound"
    [] pc[d] \in ReleasePcs  -> "releasing"

\* The handler of an interrupting device, on a line that is its own or shared
\* by all devices bound with it.
Using(d) == IF handlers[d] > 0 /\ ~mixed THEN {"pci", "region"} ELSE {}

\* For each device the driver keeps the promise of PciBinding on what is kept
\* per device, however many devices are bound; and unless devices with
\* different lines were bound together, no device is disabled while its handler
\* is still installed.
Binding(d) == INSTANCE PciBinding
  WITH phase <- PhaseOf(d), held <- held[d], using <- Using(d),
       Resources <- {"pci", "region"}, Managed <- {}
BindingSpec ==
  /\ \A d \in Devices : Binding(d)!Init
  /\ [][\A d \in Devices : [Binding(d)!Next]_(Binding(d)!vars)]_vars

\* What a device gets, it gives back, with the values that other devices have
\* left in the static variables: its handler unless devices with different lines
\* were ever bound together, its mapping unless any two devices were.  So a
\* module that is unloaded leaves no handler pointing into it.
NothingLeft ==
  \A d \in Devices : pc[d] = "unbound" =>
    /\ ~mixed => handlers[d] = 0
    /\ ~together => \A a \in Addrs : maps[a] # d

=============================================================================
