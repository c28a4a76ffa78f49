------------------------------ MODULE MyDevice ------------------------------
(***************************************************************************)
(* The PCI DMA driver my_device (dma_kernel_with_peripheral/driver.c): the *)
(* probe thread, which simulates the DMA and calls the interrupt handler   *)
(* by hand, the same handler run by the kernel on the shared interrupt     *)
(* line, the tasklet, and remove.                                          *)
(*                                                                         *)
(* Registers are the sets of their bits that are set.  The handler reads   *)
(* the status register and writes it back in two steps: the two contexts   *)
(* that run it are not excluded from each other.                           *)
(***************************************************************************)
EXTENDS Integers

CONSTANTS
  IrqNumbers,    \* what pci_irq_vector may return
  PowerOnStatus, \* what the status register may hold before the first probe
  MayFail        \* the kernel calls that may fail in this instance

Resources == {"pci", "priv", "region", "mmio", "dma", "irq"}

ControlBits == {"START", "DIR", "IRQ_ENABLE"}
StatusBits  == {"BUSY", "DONE", "IRQ_ENABLE"}

\* The two contexts that run my_device_isr.
Contexts == {"line", "probe"}

ASSUME ConstantsAssumption ==
  /\ IrqNumbers \subseteq Int
  /\ PowerOnStatus \subseteq SUBSET StatusBits
  /\ MayFail \subseteq Resources \cup {"length"}

VARIABLES
  pc,        \* the thread that probes and removes
  held,      \* resources acquired and not yet given back
  irq,       \* priv->irq
  control,   \* regs->control
  status,    \* regs->status
  isr,       \* my_device_isr in each context
  seen,      \* the handler's local copy of status, in each context
  sched,     \* the tasklet is scheduled
  running,   \* the tasklet handler runs
  completed, \* the DMA of this binding has finished
  processed  \* tasklet runs of this binding

vars == <<pc, held, irq, control, status, isr, seen, sched, running,
          completed, processed>>

tasklet == <<sched, running, processed>>
handler == <<isr, seen>>

ProbePcs    == {"pci", "priv", "region", "mmio", "dma", "vector", "irq",
                "program", "simulate", "complete", "isr", "clear_start"}
RollbackPcs == {"free_dma_buffer", "iounmap_regs", "release_region",
                "disable_pci", "devm"}
RemovePcs   == {"rm_quiet", "rm_irq", "rm_kill", "rm_dma", "rm_unmap",
                "rm_region", "rm_pci"}

TypeOK ==
  /\ pc \in ProbePcs \cup RollbackPcs \cup RemovePcs \cup {"unbound", "bound"}
  /\ held \in SUBSET Resources
  /\ irq \in Int
  /\ control \in SUBSET ControlBits
  /\ status \in SUBSET StatusBits
  /\ isr \in [Contexts -> {"idle", "ack", "schedule"}]
  /\ seen \in [Contexts -> SUBSET StatusBits]
  /\ sched \in BOOLEAN /\ running \in BOOLEAN /\ completed \in BOOLEAN
  /\ processed \in Nat

Init ==
  /\ pc = "unbound" /\ held = {} /\ irq = 0
  /\ control = {} /\ status \in PowerOnStatus
  /\ isr = [c \in Contexts |-> "idle"]
  /\ seen = [c \in Contexts |-> {}]
  /\ sched = FALSE /\ running = FALSE /\ completed = FALSE
  /\ processed = 0

-----------------------------------------------------------------------------
(* my_device_probe                                                         *)

BeginProbe ==
  /\ pc = "unbound"
  /\ pc' = "pci" /\ completed' = FALSE /\ processed' = 0
  /\ UNCHANGED <<held, irq, control, status, sched, running>> /\ UNCHANGED handler

\* One acquisition of probe: go on to next, or to the label its failure jumps to.
AcquireStep(resource, next, failure) ==
  /\ pc = resource
  /\ \/ held' = held \cup {resource} /\ pc' = next
     \/ resource \in MayFail /\ held' = held /\ pc' = failure
  /\ UNCHANGED <<irq, control, status, completed>>
  /\ UNCHANGED handler /\ UNCHANGED tasklet

Acquire ==
  \/ AcquireStep("pci", "priv", "unbound")
  \/ AcquireStep("priv", "region", "disable_pci")
  \/ AcquireStep("region", "mmio", "disable_pci")
  \/ AcquireStep("mmio", "dma", "release_region")
  \/ AcquireStep("dma", "vector", "iounmap_regs")
  \/ AcquireStep("irq", "program", "free_dma_buffer")

\* pci_irq_vector, and tasklet_init when it is not negative.
GetVector ==
  /\ pc = "vector"
  /\ irq' \in IrqNumbers
  /\ pc' = IF irq' < 0 THEN "free_dma_buffer" ELSE "irq"
  /\ UNCHANGED <<held, control, status, completed>>
  /\ UNCHANGED handler /\ UNCHANGED tasklet

\* Faulty variant: the wrong register is read, modified and written.
ProgramFromStatus ==
  /\ pc = "program"
  /\ control' = status \cup {"START", "DIR", "IRQ_ENABLE"}
  /\ pc' = "simulate"
  /\ UNCHANGED <<held, irq, status, completed>>
  /\ UNCHANGED handler /\ UNCHANGED tasklet

\* Address and length, then control: cleared, direction and IRQ enable, start.
Program ==
  /\ pc = "program"
  /\ control' = {"START", "DIR", "IRQ_ENABLE"}
  /\ pc' = "simulate"
  /\ UNCHANGED <<held, irq, status, completed>>
  /\ UNCHANGED handler /\ UNCHANGED tasklet

-----------------------------------------------------------------------------
(* my_device_simulate_dma                                                  *)

\* The length register is read back; a value the device altered is refused.
SimulateTransfer ==
  /\ pc = "simulate"
  /\ \/ pc' = "complete" /\ UNCHANGED status
     \/ "length" \in MayFail /\ pc' = "clear_start" /\ status' = {}
  /\ UNCHANGED <<held, irq, control, completed>>
  /\ UNCHANGED handler /\ UNCHANGED tasklet

SimulateCompletion ==
  /\ pc = "complete"
  /\ status' = {"DONE", "IRQ_ENABLE"} /\ completed' = TRUE
  /\ pc' = "isr"
  /\ UNCHANGED <<held, irq, control>> /\ UNCHANGED handler /\ UNCHANGED tasklet

\* control was read before the transfer and nothing else has written it since.
ClearStart ==
  /\ pc = "clear_start"
  /\ control' = control \ {"START"}
  /\ pc' = "bound"
  /\ UNCHANGED <<held, irq, status, completed>>
  /\ UNCHANGED handler /\ UNCHANGED tasklet

-----------------------------------------------------------------------------
(* my_device_isr                                                           *)

\* The probe thread goes on when the handler it called returns.
IsrReturn(c) == pc' = IF c = "probe" THEN "clear_start" ELSE pc

\* On the line, the kernel calls the handler whenever any device that shares
\* the line interrupts, from request_irq to free_irq.
IsrEntered(c) ==
  /\ isr[c] = "idle"
  /\ IF c = "probe" THEN pc = "isr" ELSE "irq" \in held

\* Faulty variant: the handler does not check whose interrupt it is.
IsrReadUnchecked(c) ==
  /\ IsrEntered(c)
  /\ isr' = [isr EXCEPT ![c] = "ack"]
  /\ seen' = [seen EXCEPT ![c] = status]
  /\ UNCHANGED <<pc, held, irq, control, status, completed>> /\ UNCHANGED tasklet

IsrRead(c) ==
  /\ IsrEntered(c)
  /\ IF "DONE" \in status
       THEN /\ isr' = [isr EXCEPT ![c] = "ack"]
            /\ seen' = [seen EXCEPT ![c] = status]
            /\ UNCHANGED pc
       ELSE IsrReturn(c) /\ UNCHANGED handler
  /\ UNCHANGED <<held, irq, control, status, completed>> /\ UNCHANGED tasklet

IsrAck(c) ==
  /\ isr[c] = "ack"
  /\ status' = seen[c] \ {"DONE"}
  /\ isr' = [isr EXCEPT ![c] = "schedule"]
  /\ UNCHANGED <<pc, held, irq, control, seen, completed>> /\ UNCHANGED tasklet

\* tasklet_schedule does nothing when the tasklet is scheduled already.
IsrSchedule(c) ==
  /\ isr[c] = "schedule"
  /\ sched' = TRUE
  /\ isr' = [isr EXCEPT ![c] = "idle"]
  /\ IsrReturn(c)
  /\ UNCHANGED <<held, irq, control, status, seen, running, completed, processed>>

my_device_isr(c) == IsrRead(c) \/ IsrAck(c) \/ IsrSchedule(c)

-----------------------------------------------------------------------------
(* my_device_tasklet_handler, started by the kernel's softirq              *)

TaskletStart ==
  /\ sched /\ ~running
  /\ sched' = FALSE /\ running' = TRUE
  /\ UNCHANGED <<pc, held, irq, control, status, completed, processed>>
  /\ UNCHANGED handler

\* Faulty variant: the handler waits for the DONE bit the interrupt handler has
\* cleared (the code commented out in it, made to poll).
TaskletWaitsForDone ==
  /\ running /\ running' = FALSE
  /\ IF "DONE" \in status
       THEN processed' = processed + 1 /\ UNCHANGED sched
       ELSE sched' = TRUE /\ UNCHANGED processed
  /\ UNCHANGED <<pc, held, irq, control, status, completed>> /\ UNCHANGED handler

my_device_tasklet_handler ==
  /\ running
  /\ running' = FALSE /\ processed' = processed + 1
  /\ UNCHANGED <<pc, held, irq, control, status, sched, completed>>
  /\ UNCHANGED handler

-----------------------------------------------------------------------------
(* Rollback and my_device_remove                                           *)

ReleaseStep(label, resource, next) ==
  /\ pc = label
  /\ held' = held \ {resource} /\ pc' = next
  /\ UNCHANGED <<irq, control, status, completed>>
  /\ UNCHANGED handler /\ UNCHANGED tasklet

Rollback ==
  \/ ReleaseStep("free_dma_buffer", "dma", "iounmap_regs")
  \/ ReleaseStep("iounmap_regs", "mmio", "release_region")
  \/ ReleaseStep("release_region", "region", "disable_pci")
  \/ ReleaseStep("disable_pci", "pci", "devm")

\* The driver core frees the devm_kzalloc memory after a failed probe and
\* after remove.
DevmRelease == ReleaseStep("devm", "priv", "unbound")

BeginRemove ==
  /\ pc = "bound" /\ pc' = "rm_quiet"
  /\ UNCHANGED <<held, irq, control, status, completed>>
  /\ UNCHANGED handler /\ UNCHANGED tasklet

RemoveQuiet ==
  /\ pc = "rm_quiet" /\ pc' = "rm_irq"
  /\ control' = control \ {"IRQ_ENABLE"}
  /\ UNCHANGED <<held, irq, status, completed>>
  /\ UNCHANGED handler /\ UNCHANGED tasklet

\* Faulty variant: remove does not wait for the handler.
RemoveIrqNoWait ==
  /\ pc = "rm_irq" /\ pc' = "rm_kill"
  /\ held' = IF irq > 0 THEN held \ {"irq"} ELSE held
  /\ UNCHANGED <<irq, control, status, completed>>
  /\ UNCHANGED handler /\ UNCHANGED tasklet

\* free_irq waits for a handler that is running on the line.
RemoveIrq ==
  /\ pc = "rm_irq" /\ pc' = "rm_kill"
  /\ IF irq > 0
       THEN isr["line"] = "idle" /\ held' = held \ {"irq"}
       ELSE UNCHANGED held
  /\ UNCHANGED <<irq, control, status, completed>>
  /\ UNCHANGED handler /\ UNCHANGED tasklet

\* Faulty variant: remove forgets tasklet_kill.
RemoveKillForgotten ==
  /\ pc = "rm_kill" /\ pc' = "rm_dma"
  /\ UNCHANGED <<held, irq, control, status, completed>>
  /\ UNCHANGED handler /\ UNCHANGED tasklet

\* tasklet_kill waits until the tasklet neither runs nor is due to run.
RemoveKill ==
  /\ pc = "rm_kill" /\ pc' = "rm_dma"
  /\ ~sched /\ ~running
  /\ UNCHANGED <<held, irq, control, status, completed>>
  /\ UNCHANGED handler /\ UNCHANGED tasklet

RemoveRelease ==
  \/ ReleaseStep("rm_dma", "dma", "rm_unmap")
  \/ ReleaseStep("rm_unmap", "mmio", "rm_region")
  \/ ReleaseStep("rm_region", "region", "rm_pci")
  \/ ReleaseStep("rm_pci", "pci", "devm")

my_device_remove == BeginRemove \/ RemoveQuiet \/ RemoveIrq \/ RemoveKill \/ RemoveRelease

-----------------------------------------------------------------------------

Thread ==
  \/ Acquire \/ GetVector \/ Program
  \/ SimulateTransfer \/ SimulateCompletion \/ my_device_isr("probe") \/ ClearStart
  \/ Rollback \/ DevmRelease

Tasklet == TaskletStart \/ my_device_tasklet_handler

Next ==
  \/ BeginProbe \/ Thread \/ my_device_remove
  \/ my_device_isr("line")
  \/ Tasklet

Spec == Init /\ [][Next]_vars

\* The kernel runs a probe, a handler it has entered and a scheduled tasklet to
\* their end.  Nothing obliges anyone to probe, to remove or to interrupt.
Fairness ==
  /\ WF_vars(Thread)
  /\ WF_vars(IsrAck("line") \/ IsrSchedule("line"))
  /\ WF_vars(Tasklet)

FairSpec == Spec /\ Fairness

-----------------------------------------------------------------------------
(* Properties                                                              *)

\* What the handler on the line and the tasklet may touch at any moment.
Using ==
  (IF "irq" \in held THEN {"priv", "mmio"} ELSE {})
    \cup (IF isr["line"] # "idle" THEN {"irq", "priv", "mmio"} ELSE {})
    \cup (IF sched \/ running THEN {"priv"} ELSE {})

phase ==
  CASE pc = "unbound"     -> "unbound"
    [] pc \in ProbePcs    -> "probing"
    [] pc = "bound"       -> "bound"
    [] OTHER              -> "releasing"

\* The driver keeps the promise of PciBinding: in particular no register
\* mapping, IRQ or private data goes away while the handler or the tasklet can
\* still reach it, on no rollback path and in no interleaving of remove.
Binding == INSTANCE PciBinding WITH using <- Using, Managed <- {"priv"}
BindingSpec == Binding!Spec

\* A finished DMA is not forgotten: once the probe thread is past its own call
\* of the handler, the tasklet has run, or it is scheduled, or the handler on
\* the line has taken the DONE bit and is about to schedule it; and tasklet_kill
\* in remove does not return before it has run.
CompletionNotLost ==
  /\ completed /\ pc \in RemovePcs \cup {"clear_start", "bound"} =>
       processed > 0 \/ sched \/ running \/ isr["line"] # "idle"
  /\ completed /\ pc \in {"rm_dma", "rm_unmap", "rm_region", "rm_pci"} => processed > 0

\* The tasklet runs only for a DMA that has finished.
NoPhantomCompletion == sched \/ running \/ processed > 0 => completed

\* Every finished DMA is processed by the tasklet in the end, whether or not
\* the device is removed meanwhile.
CompletionProcessed == completed ~> processed > 0

(* What the repository's comments say, and the code does not do.           *)

\* driver.c:95-96: "Acknowledge the interrupt on the device (clear the status
\* bit)", which "prevents the interrupt from firing again immediately".
CompletionProcessedOnce == processed <= 1

=============================================================================
