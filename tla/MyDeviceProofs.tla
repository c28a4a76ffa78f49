--------------------------- MODULE MyDeviceProofs ---------------------------
(***************************************************************************)
(* Proofs about MyDevice: the driver keeps the promise of PciBinding and   *)
(* loses no completion, whatever vector above zero it is given, whatever   *)
(* may fail, and in every interleaving of the two handler contexts, the    *)
(* tasklet and remove.                                                     *)
(***************************************************************************)
EXTENDS MyDevice, TLAPS

\* Where the probe and remove thread holds each resource for certain.
HasIrq    == {"program", "simulate", "complete", "isr", "clear_start", "bound",
              "rm_quiet", "rm_irq"}
HasDma    == HasIrq \cup {"vector", "irq", "free_dma_buffer", "rm_kill", "rm_dma"}
HasMmio   == HasDma \cup {"dma", "iounmap_regs", "rm_unmap"}
HasRegion == HasMmio \cup {"mmio", "release_region", "rm_region"}
HasPriv   == HasRegion \cup {"region", "rm_pci"}
HasPci    == HasPriv \cup {"priv", "disable_pci"}

\* What is held is decided by where the thread is, except that the private
\* data may or may not exist when a failed probe is almost done.
HeldByPlace ==
  /\ "pci" \in held <=> pc \in HasPci
  /\ "region" \in held <=> pc \in HasRegion
  /\ "mmio" \in held <=> pc \in HasMmio
  /\ "dma" \in held <=> pc \in HasDma
  /\ "irq" \in held <=> pc \in HasIrq
  /\ pc \in HasPriv => "priv" \in held
  /\ "priv" \in held => pc \in HasPriv \cup {"disable_pci", "devm"}

\* remove takes an interrupt number above zero for one that was requested.
VectorRequested == pc \in HasIrq \cup {"irq"} => irq > 0

\* Where the two contexts of the handler and the tasklet can be active.
ActiveByPlace ==
  /\ isr["line"] # "idle" => pc \in HasIrq
  /\ isr["probe"] # "idle" => pc = "isr"
  /\ sched \/ running => pc \in HasIrq \cup {"rm_kill"}

\* The completion is with the tasklet, or on its way there.
TaskletKnows == processed > 0 \/ sched \/ running

CompletionTracked ==
  /\ completed /\ pc = "isr" =>
       \/ TaskletKnows \/ isr["line"] # "idle" \/ isr["probe"] # "idle"
       \/ "DONE" \in status
  /\ completed /\ pc \in {"clear_start", "bound", "rm_quiet", "rm_irq"} =>
       TaskletKnows \/ isr["line"] # "idle"
  /\ completed /\ pc = "rm_kill" => TaskletKnows
  /\ completed /\ pc \in {"rm_dma", "rm_unmap", "rm_region", "rm_pci"} =>
       processed > 0
  /\ completed => pc \notin (ProbePcs \cup RollbackPcs) \ {"isr", "clear_start", "devm"}

IInv ==
  /\ TypeOK /\ HeldByPlace /\ VectorRequested /\ ActiveByPlace
  /\ CompletionTracked

-----------------------------------------------------------------------------

\* The unbound device satisfies the invariant.
LEMMA InitIInv == Init => IInv
PROOF
<1> SUFFICES ASSUME Init PROVE IInv
  OBVIOUS
<1> USE ConstantsAssumption DEF Init, Contexts
<1>1. sched \in BOOLEAN /\ running \in BOOLEAN /\ completed \in BOOLEAN
  OBVIOUS
<1>2. TypeOK
  BY <1>1 DEF TypeOK, Resources, ControlBits, StatusBits
<1>3. HeldByPlace /\ VectorRequested
  BY DEF HeldByPlace, VectorRequested, HasIrq, HasDma, HasMmio, HasRegion,
         HasPriv, HasPci
<1>4. ActiveByPlace /\ CompletionTracked
  BY DEF ActiveByPlace, CompletionTracked
<1> QED
  BY <1>2, <1>3, <1>4 DEF IInv

\* Every step of the thread, the handlers and the tasklet keeps the invariant.
LEMMA NextIInv ==
  ASSUME 0 \notin IrqNumbers, IInv, [Next]_vars
  PROVE  IInv'
PROOF
<1> USE ConstantsAssumption DEF IInv, TypeOK, HeldByPlace, VectorRequested,
      ActiveByPlace, CompletionTracked, TaskletKnows, HasIrq, HasDma, HasMmio,
      HasRegion, HasPriv, HasPci, ProbePcs, RollbackPcs, RemovePcs, Contexts,
      Resources, ControlBits, StatusBits, tasklet, handler
<1>1. CASE BeginProbe
  BY <1>1 DEF BeginProbe
<1>2. CASE Acquire
  <2> USE DEF AcquireStep
  <2>1. CASE AcquireStep("pci", "priv", "unbound")
    BY <2>1
  <2>2. CASE AcquireStep("priv", "region", "disable_pci")
    BY <2>2
  <2>3. CASE AcquireStep("region", "mmio", "disable_pci")
    BY <2>3
  <2>4. CASE AcquireStep("mmio", "dma", "release_region")
    BY <2>4
  <2>5. CASE AcquireStep("dma", "vector", "iounmap_regs")
    BY <2>5
  <2>6. CASE AcquireStep("irq", "program", "free_dma_buffer")
    BY <2>6
  <2> QED
    BY <1>2, <2>1, <2>2, <2>3, <2>4, <2>5, <2>6 DEF Acquire
<1>3. CASE GetVector
  BY <1>3 DEF GetVector
<1>4. CASE Program
  BY <1>4 DEF Program
<1>5. CASE SimulateTransfer
  BY <1>5 DEF SimulateTransfer
<1>6. CASE SimulateCompletion
  BY <1>6 DEF SimulateCompletion
<1>7. CASE ClearStart
  BY <1>7 DEF ClearStart
<1>8. ASSUME NEW c \in Contexts, IsrRead(c)
      PROVE  IInv'
  <2> USE <1>8 DEF IsrRead, IsrEntered, IsrReturn
  <2>1. TypeOK'
    <3>1. sched' = sched /\ running' = running /\ completed' = completed
      OBVIOUS
    <3>2. isr' \in [Contexts -> {"idle", "ack", "schedule"}]
      OBVIOUS
    <3>3. seen' = seen \/ seen' = [seen EXCEPT ![c] = status]
      OBVIOUS
    <3>4. pc' \in {pc, "clear_start"}
      OBVIOUS
    <3>5. seen \in [Contexts -> SUBSET StatusBits] /\ status \in SUBSET StatusBits
      OBVIOUS
    <3> HIDE DEF Contexts, StatusBits
    <3>6. seen' \in [Contexts -> SUBSET StatusBits]
      BY <3>3, <3>5
    <3> QED
      BY <3>1, <3>2, <3>4, <3>6
  <2>2. HeldByPlace'
    OBVIOUS
  <2>3. VectorRequested' /\ ActiveByPlace'
    OBVIOUS
  <2>4. CompletionTracked'
    OBVIOUS
  <2> QED
    BY <2>1, <2>2, <2>3, <2>4
<1>9. ASSUME NEW c \in Contexts, IsrAck(c)
      PROVE  IInv'
  BY <1>9 DEF IsrAck
<1>10. ASSUME NEW c \in Contexts, IsrSchedule(c)
       PROVE  IInv'
  BY <1>10 DEF IsrSchedule, IsrReturn
<1>11. CASE TaskletStart
  BY <1>11 DEF TaskletStart
<1>12. CASE my_device_tasklet_handler
  <2> USE <1>12 DEF my_device_tasklet_handler
  <2>1. TypeOK'
    <3>1. sched' \in BOOLEAN /\ running' \in BOOLEAN /\ completed' \in BOOLEAN
      OBVIOUS
    <3>2. processed' \in Nat
      OBVIOUS
    <3> QED
      BY <3>1, <3>2
  <2>2. HeldByPlace'
    OBVIOUS
  <2>3. VectorRequested' /\ ActiveByPlace'
    OBVIOUS
  <2>4. CompletionTracked'
    OBVIOUS
  <2> QED
    BY <2>1, <2>2, <2>3, <2>4
<1>13. CASE Rollback \/ DevmRelease \/ RemoveRelease
  <2> USE DEF ReleaseStep
  <2>1. CASE ReleaseStep("free_dma_buffer", "dma", "iounmap_regs")
    BY <2>1
  <2>2. CASE ReleaseStep("iounmap_regs", "mmio", "release_region")
    BY <2>2
  <2>3. CASE ReleaseStep("release_region", "region", "disable_pci")
    BY <2>3
  <2>4. CASE ReleaseStep("disable_pci", "pci", "devm")
    BY <2>4
  <2>5. CASE ReleaseStep("devm", "priv", "unbound")
    BY <2>5
  <2>6. CASE ReleaseStep("rm_dma", "dma", "rm_unmap")
    BY <2>6
  <2>7. CASE ReleaseStep("rm_unmap", "mmio", "rm_region")
    BY <2>7
  <2>8. CASE ReleaseStep("rm_region", "region", "rm_pci")
    BY <2>8
  <2>9. CASE ReleaseStep("rm_pci", "pci", "devm")
    BY <2>9
  <2> QED
    BY <1>13, <2>1, <2>2, <2>3, <2>4, <2>5, <2>6, <2>7, <2>8, <2>9 DEF Rollback, DevmRelease, RemoveRelease
<1>14. CASE BeginRemove
  BY <1>14 DEF BeginRemove
<1>15. CASE RemoveQuiet
  BY <1>15 DEF RemoveQuiet
<1>16. CASE RemoveIrq
  <2> USE <1>16 DEF RemoveIrq
  <2>1. TypeOK'
    OBVIOUS
  <2>2. HeldByPlace'
    OBVIOUS
  <2>3. VectorRequested' /\ ActiveByPlace'
    OBVIOUS
  <2>4. CompletionTracked'
    OBVIOUS
  <2> QED
    BY <2>1, <2>2, <2>3, <2>4
<1>17. CASE RemoveKill
  BY <1>17 DEF RemoveKill
<1>18. CASE UNCHANGED vars
  BY <1>18 DEF vars
<1> QED
  BY <1>1, <1>2, <1>3, <1>4, <1>5, <1>6, <1>7, <1>8, <1>9, <1>10, <1>11,
     <1>12, <1>13, <1>14, <1>15, <1>16, <1>17, <1>18
     DEF Next, Thread, Tasklet, my_device_isr, my_device_remove

-----------------------------------------------------------------------------

\* The invariant holds in every behaviour of a driver that is never given
\* interrupt number 0, which remove would mistake for one it never requested.
THEOREM Invariance ==
  ASSUME 0 \notin IrqNumbers
  PROVE  Spec => []IInv
PROOF
<1>1. IInv /\ [Next]_vars => IInv'
  BY NextIInv
<1> QED
  BY InitIInv, <1>1, PTL DEF Spec

\* Every variable of the driver stays in its type: the thread in its code, the
\* registers in their bits, the handler in one of its steps.
THEOREM TypeCorrect ==
  ASSUME 0 \notin IrqNumbers
  PROVE  Spec => []TypeOK
PROOF
<1>1. IInv => TypeOK
  BY DEF IInv
<1> QED
  BY Invariance, <1>1, PTL

\* A finished DMA is not forgotten by the handler, the tasklet or remove.
THEOREM CompletionKept ==
  ASSUME 0 \notin IrqNumbers
  PROVE  Spec => []CompletionNotLost
PROOF
<1>1. IInv => CompletionNotLost
  BY DEF IInv, CompletionTracked, CompletionNotLost, TaskletKnows, ActiveByPlace,
         HasIrq, RemovePcs
<1> QED
  BY Invariance, <1>1, PTL

-----------------------------------------------------------------------------
(* No completion without a DMA.                                            *)

\* Where the DONE bit and a handler that has seen it can be met.
DoneByPlace ==
  /\ "DONE" \in status => completed /\ pc = "isr" /\ isr["probe"] # "schedule"
  /\ \A c \in Contexts : isr[c] # "idle" => completed

\* Every step keeps the DONE bit, the handler and the tasklet to the binding
\* whose DMA has finished.
LEMMA NextPhantom ==
  ASSUME IInv, DoneByPlace, NoPhantomCompletion, [Next]_vars
  PROVE  DoneByPlace' /\ NoPhantomCompletion'
PROOF
<1> USE DEF IInv, TypeOK, ActiveByPlace, HasIrq, Contexts, DoneByPlace,
            NoPhantomCompletion, tasklet, handler
<1>1. CASE BeginProbe
  BY <1>1 DEF BeginProbe
<1>2. CASE Acquire
  BY <1>2 DEF Acquire, AcquireStep
<1>3. CASE GetVector \/ Program \/ ClearStart
  BY <1>3 DEF GetVector, Program, ClearStart
<1>4. CASE SimulateTransfer \/ SimulateCompletion
  BY <1>4 DEF SimulateTransfer, SimulateCompletion
<1>5. ASSUME NEW c \in Contexts, IsrRead(c)
      PROVE  DoneByPlace' /\ NoPhantomCompletion'
  BY <1>5 DEF IsrRead, IsrEntered, IsrReturn
<1>6. ASSUME NEW c \in Contexts, IsrAck(c)
      PROVE  DoneByPlace' /\ NoPhantomCompletion'
  BY <1>6 DEF IsrAck
<1>7. ASSUME NEW c \in Contexts, IsrSchedule(c)
      PROVE  DoneByPlace' /\ NoPhantomCompletion'
  BY <1>7 DEF IsrSchedule, IsrReturn
<1>8. CASE Tasklet
  BY <1>8 DEF Tasklet, TaskletStart, my_device_tasklet_handler
<1>9. CASE Rollback \/ DevmRelease \/ RemoveRelease
  BY <1>9 DEF Rollback, DevmRelease, RemoveRelease, ReleaseStep
<1>10. CASE BeginRemove \/ RemoveQuiet \/ RemoveIrq \/ RemoveKill
  BY <1>10 DEF BeginRemove, RemoveQuiet, RemoveIrq, RemoveKill
<1>11. CASE UNCHANGED vars
  BY <1>11 DEF vars
<1> QED
  BY <1>1, <1>2, <1>3, <1>4, <1>5, <1>6, <1>7, <1>8, <1>9, <1>10, <1>11
     DEF Next, Thread, my_device_isr, my_device_remove

\* The tasklet processes no completion the device has not had, provided it has
\* none pending when it is first probed: the driver itself never clears the
\* status register before it requests the interrupt.
THEOREM NoPhantom ==
  ASSUME 0 \notin IrqNumbers, \A s \in PowerOnStatus : "DONE" \notin s
  PROVE  Spec => []NoPhantomCompletion
PROOF
<1>1. Init => DoneByPlace /\ NoPhantomCompletion
  <2> SUFFICES ASSUME Init PROVE DoneByPlace /\ NoPhantomCompletion
    OBVIOUS
  <2>1. ~sched /\ ~running /\ processed = 0
    BY DEF Init
  <2>2. "DONE" \notin status /\ \A c \in Contexts : isr[c] = "idle"
    BY DEF Init
  <2> QED
    BY <2>1, <2>2 DEF DoneByPlace, NoPhantomCompletion
<1>2. IInv /\ DoneByPlace /\ NoPhantomCompletion /\ [Next]_vars
        => DoneByPlace' /\ NoPhantomCompletion'
  BY NextPhantom
<1> QED
  BY <1>1, <1>2, Invariance, PTL DEF Spec

-----------------------------------------------------------------------------
(* MyDevice implements PciBinding.                                         *)

\* Every step of the driver is a step that PciBinding allows.
LEMMA StepSimulation ==
  ASSUME IInv, IInv', [Next]_vars
  PROVE  [Binding!Next]_(Binding!vars)
PROOF
<1>1. Using' \in SUBSET held'
  BY DEF IInv, HeldByPlace, ActiveByPlace, Using, HasIrq, HasDma, HasMmio,
         HasRegion, HasPriv
<1> USE DEF phase, ProbePcs, RollbackPcs, RemovePcs
<1>2. CASE BeginProbe
  <2>1. phase = "unbound" /\ phase' = "probing" /\ held' = held
    BY <1>2 DEF BeginProbe
  <2> QED
    BY <1>1, <2>1 DEF Binding!Next, Binding!BeginProbe
<1>3. ASSUME NEW r \in Resources, NEW next \in ProbePcs,
             NEW failure \in RollbackPcs \cup {"unbound"},
             r \in ProbePcs, AcquireStep(r, next, failure),
             r \notin held, failure = "unbound" => held = {}
      PROVE  [Binding!Next]_(Binding!vars)
  <2>1. CASE held' = held \cup {r} /\ pc' = next
    <3>1. phase = "probing" /\ phase' = "probing"
      BY <1>3, <2>1 DEF AcquireStep
    <3> QED
      BY <1>1, <1>3, <2>1, <3>1 DEF Binding!Next, Binding!Acquire
  <2>2. CASE held' = held /\ pc' = failure
    <3>1. phase = "probing" /\ phase' \in {"releasing", "unbound"}
      BY <1>3, <2>2 DEF AcquireStep
    <3>2. phase' = "unbound" => held = {}
      BY <1>3, <2>2
    <3> QED
      BY <1>1, <2>2, <3>1, <3>2 DEF Binding!Next, Binding!BeginRelease, Binding!Unbind
  <2> QED
    BY <1>3, <2>1, <2>2 DEF AcquireStep
<1>4. CASE Acquire
  <2> USE DEF AcquireStep, IInv, TypeOK, HeldByPlace, Resources, HasIrq, HasDma,
              HasMmio, HasRegion, HasPriv, HasPci
  <2>1. CASE AcquireStep("pci", "priv", "unbound")
    <3>1. held = {}
      BY <2>1
    <3> QED
      BY <1>3, <2>1, <3>1
  <2>2. CASE AcquireStep("priv", "region", "disable_pci")
    BY <1>3, <2>2
  <2>3. CASE AcquireStep("region", "mmio", "disable_pci")
    BY <1>3, <2>3
  <2>4. CASE AcquireStep("mmio", "dma", "release_region")
    BY <1>3, <2>4
  <2>5. CASE AcquireStep("dma", "vector", "iounmap_regs")
    BY <1>3, <2>5
  <2>6. CASE AcquireStep("irq", "program", "free_dma_buffer")
    BY <1>3, <2>6
  <2> QED
    BY <1>4, <2>1, <2>2, <2>3, <2>4, <2>5, <2>6 DEF Acquire
<1>5. CASE \/ GetVector \/ Program \/ SimulateTransfer \/ SimulateCompletion
           \/ ClearStart
  <2>1. held' = held /\ phase = "probing" /\ phase' \in {"probing", "bound", "releasing"}
    BY <1>5 DEF GetVector, Program, SimulateTransfer, SimulateCompletion, ClearStart
  <2> QED
    BY <1>1, <2>1 DEF Binding!Next, Binding!Bind, Binding!BeginRelease, Binding!Use
<1>6. ASSUME NEW c \in Contexts, my_device_isr(c)
      PROVE  [Binding!Next]_(Binding!vars)
  <2>1. held' = held /\ phase' = phase
    BY <1>6 DEF my_device_isr, IsrRead, IsrAck, IsrSchedule, IsrEntered, IsrReturn,
                IInv, ActiveByPlace
  <2> QED
    BY <1>1, <2>1 DEF Binding!Next, Binding!Use
<1>7. CASE Tasklet
  <2>1. held' = held /\ phase' = phase
    BY <1>7 DEF Tasklet, TaskletStart, my_device_tasklet_handler
  <2> QED
    BY <1>1, <2>1 DEF Binding!Next, Binding!Use
<1>8. ASSUME NEW label \in RollbackPcs \cup RemovePcs, NEW r \in held,
             NEW next \in RollbackPcs \cup RemovePcs,
             ReleaseStep(label, r, next), r \notin Using
      PROVE  [Binding!Next]_(Binding!vars)
  <2>1. phase = "releasing" /\ phase' = "releasing"
    BY <1>8 DEF ReleaseStep
  <2> QED
    BY <1>1, <1>8, <2>1 DEF ReleaseStep, Binding!Next, Binding!Release
<1>9. CASE Rollback \/ RemoveRelease
  BY <1>8, <1>9
     DEF Rollback, RemoveRelease, ReleaseStep, IInv, HeldByPlace, ActiveByPlace, Using,
         HasIrq, HasDma, HasMmio, HasRegion, HasPriv, HasPci
<1>10. CASE DevmRelease
  <2>1. phase = "releasing" /\ phase' = "unbound"
    BY <1>10 DEF DevmRelease, ReleaseStep
  <2>2. held \subseteq {"priv"} \ Using /\ held' = {}
    BY <1>10
       DEF DevmRelease, ReleaseStep, IInv, TypeOK, HeldByPlace, ActiveByPlace,
           Using, Resources, HasIrq, HasDma, HasMmio, HasRegion, HasPriv, HasPci
  <2> QED
    BY <1>1, <2>1, <2>2 DEF Binding!Next, Binding!Unbind
<1>11. CASE BeginRemove
  <2>1. phase = "bound" /\ phase' = "releasing" /\ held' = held
    BY <1>11 DEF BeginRemove
  <2> QED
    BY <1>1, <2>1 DEF Binding!Next, Binding!BeginRelease
<1>12. CASE RemoveQuiet \/ RemoveKill
  <2>1. phase' = phase /\ held' = held
    BY <1>12 DEF RemoveQuiet, RemoveKill
  <2> QED
    BY <1>1, <2>1 DEF Binding!Next, Binding!Use
<1>13. CASE RemoveIrq
  <2>1. phase = "releasing" /\ phase' = "releasing"
    BY <1>13 DEF RemoveIrq
  <2>2. "irq" \in held /\ held' = held \ {"irq"} /\ isr["line"] = "idle"
    BY <1>13 DEF RemoveIrq, IInv, TypeOK, HeldByPlace, VectorRequested, HasIrq
  <2>3. "irq" \notin Using
    BY <2>2 DEF Using
  <2> QED
    BY <1>1, <2>1, <2>2, <2>3 DEF Binding!Next, Binding!Release
<1>14. CASE UNCHANGED vars
  <2>1. phase' = phase /\ held' = held
    BY <1>14 DEF vars
  <2> QED
    BY <1>1, <2>1 DEF Binding!Next, Binding!Use
<1> QED
  BY <1>2, <1>4, <1>5, <1>6, <1>7, <1>9, <1>10, <1>11, <1>12, <1>13, <1>14
     DEF Next, Thread, my_device_remove, Contexts

\* The driver implements PciBinding: probe, its rollback and remove acquire and
\* give back in an order that never takes a resource from under the handler or
\* the tasklet, and leave nothing behind.
THEOREM Refinement ==
  ASSUME 0 \notin IrqNumbers
  PROVE  Spec => BindingSpec
PROOF
<1>1. Init => Binding!Init
  <2> SUFFICES ASSUME Init PROVE Binding!Init
    OBVIOUS
  <2>1. ~sched /\ ~running
    BY DEF Init
  <2>2. held = {} /\ isr["line"] = "idle" /\ phase = "unbound"
    BY DEF Init, Contexts, phase, ProbePcs
  <2> QED
    <3>1. Using = {}
      BY <2>1, <2>2 DEF Using
    <3> QED
      BY <2>2, <3>1 DEF Binding!Init
<1>2. IInv /\ IInv' /\ [Next]_vars => [Binding!Next]_(Binding!vars)
  BY StepSimulation
<1> QED
  BY <1>1, <1>2, Invariance, PTL DEF Spec, BindingSpec, Binding!Spec

=============================================================================
