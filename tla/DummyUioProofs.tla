--------------------------- MODULE DummyUioProofs ---------------------------
(***************************************************************************)
(* Proofs about the dummy_uio driver, whichever kernel calls fail and      *)
(* whatever interrupt the device has of its own.                           *)
(***************************************************************************)
EXTENDS DummyUio, TLAPS

\* What dummy_probe has acquired and the labels and dummy_remove have not given
\* back, at each place of the code.
HeldByPlace ==
  /\ pc \in {"unbound", "pci", "err_return", "rm_msix"} => held = {}
  /\ pc \in {"regions", "err_disable_device", "rm_pci"} => held = {"pci"}
  /\ pc \in {"mmio", "err_release_regions", "rm_regions"} => held = {"pci", "regions"}
  /\ pc \in {"msix", "irq", "err_iounmap", "rm_mmio"} => held = {"pci", "regions", "mmio"}
  /\ pc \in {"uio", "err_free_irq", "rm_irq"} => held = {"pci", "regions", "mmio", "irq"}
  /\ pc \in {"drvdata", "bound", "rm_uio"} => held = Resources

\* A vector is in dummy_irq only if this probe has enabled MSI-X.
VectorByPlace ==
  /\ pc \in {"irq", "uio", "drvdata", "bound", "err_free_irq", "rm_uio", "rm_irq"} =>
       (dummy_irq = "vector" => msix)
  /\ pc = "unbound" /\ ended = "removed" => ~msix

IInv == TypeOK /\ HeldByPlace /\ VectorByPlace

-----------------------------------------------------------------------------

\* The state before the first probe satisfies the invariant.
LEMMA InitIInv == Init => IInv
  <1> SUFFICES ASSUME Init PROVE IInv
    OBVIOUS
  <1> USE DEF Init
  <1>1. msix \in BOOLEAN
    OBVIOUS
  <1>2. TypeOK /\ HeldByPlace
    BY <1>1 DEF TypeOK, HeldByPlace
  <1>3. VectorByPlace
    BY Zenon DEF VectorByPlace
  <1>4. QED
    BY <1>2, <1>3 DEF IInv

\* Every step of dummy_probe, of its labels and of dummy_remove keeps the
\* invariant.
LEMMA NextIInv == IInv /\ [Next]_vars => IInv'
  <1> SUFFICES ASSUME IInv, [Next]_vars PROVE IInv'
    OBVIOUS
  <1> USE DEF IInv, Step, Move
  <1>1. CASE BeginProbe \/ SetDrvdata \/ BeginRemove
    <2> USE <1>1 DEF BeginProbe, SetDrvdata, BeginRemove
    <2>1. TypeOK' /\ HeldByPlace'
      BY DEF TypeOK, HeldByPlace, ProbePcs, RemovePcs
    <2>2. VectorByPlace'
      BY DEF VectorByPlace
    <2>3. QED
      BY <2>1, <2>2
  <1>2. CASE Acquire \/ RequestIrq
    <2> USE <1>2 DEF Acquire, RequestIrq, AcquireStep, Acquired
    <2>1. TypeOK' /\ HeldByPlace'
      BY DEF TypeOK, HeldByPlace, ProbePcs, RollbackPcs, Resources
    <2>2. VectorByPlace'
      BY DEF VectorByPlace
    <2>3. QED
      BY <2>1, <2>2
  <1>3. CASE EnableMsix
    <2> USE <1>3 DEF EnableMsix, EnableMsixOr
    <2>1. msix' \in BOOLEAN
      BY Zenon DEF TypeOK
    <2>2. (msix' = TRUE /\ dummy_irq' = "vector") \/ dummy_irq' \in PdevIrqs
      OBVIOUS
    <2>3. TypeOK' /\ HeldByPlace'
      BY <2>1, <2>2, ConstantsAssumption DEF TypeOK, HeldByPlace, ProbePcs
    <2>4. VectorByPlace'
      BY <2>2, ConstantsAssumption DEF VectorByPlace
    <2>5. QED
      BY <2>3, <2>4
  <1>4. CASE UioRegister
    <2> USE <1>4 DEF UioRegister, Acquired
    <2>1. TypeOK' /\ HeldByPlace'
      BY DEF TypeOK, HeldByPlace, ProbePcs, RollbackPcs, Resources
    <2>2. VectorByPlace'
      BY DEF VectorByPlace
    <2>3. QED
      BY <2>1, <2>2
  <1>5. CASE Rollback \/ Remove
    <2> USE <1>5 DEF Rollback, Remove, ReleaseStep
    <2>1. TypeOK' /\ HeldByPlace'
      BY DEF TypeOK, HeldByPlace, RollbackPcs, RemovePcs, Resources
    <2>2. VectorByPlace'
      BY DEF VectorByPlace
    <2>3. QED
      BY <2>1, <2>2
  <1>6. CASE ProbeReturn \/ DisableMsix
    <2> USE <1>6 DEF ProbeReturn, DisableMsix
    <2>1. msix' \in BOOLEAN /\ (ended' = "removed" => ~msix')
      BY DEF TypeOK
    <2>2. TypeOK' /\ HeldByPlace'
      BY <2>1 DEF TypeOK, HeldByPlace
    <2>3. VectorByPlace'
      BY <2>1 DEF VectorByPlace
    <2>4. QED
      BY <2>2, <2>3
  <1>7. CASE UNCHANGED vars
    BY <1>7 DEF vars, TypeOK, HeldByPlace, VectorByPlace
  <1>8. QED
    BY <1>1, <1>2, <1>3, <1>4, <1>5, <1>6, <1>7 DEF Next, dummy_probe, dummy_remove

\* Probes that fail anywhere, and removes, keep IInv.
THEOREM Invariance == Spec => []IInv
  <1>1. QED
    BY InitIInv, NextIInv, PTL DEF Spec

\* Every variable keeps its type; dummy_irq never holds an error code.
THEOREM TypeCorrect == Spec => []TypeOK
  <1>1. IInv => TypeOK
    BY DEF IInv
  <1>2. QED
    BY <1>1, Invariance, PTL

\* A handler sits on a vector only while MSI-X is enabled, whatever earlier
\* probes have left behind, and dummy_remove leaves MSI-X off.
THEOREM VectorsAccounted == Spec => []VectorAccounted
  <1>1. IInv => VectorAccounted
    BY DEF IInv, TypeOK, HeldByPlace, VectorByPlace, VectorAccounted, ProbePcs,
       RollbackPcs, RemovePcs
  <1>2. QED
    BY <1>1, Invariance, PTL

-----------------------------------------------------------------------------
(* The driver implements PciBinding.                                       *)

\* Every step of the driver is a step of the binding or leaves it unchanged.
LEMMA StepSimulation ==
  ASSUME IInv, [Next]_vars
  PROVE  [Binding!Next]_(Binding!vars)
  <1> USE DEF Step, Move, phase, ProbePcs, RollbackPcs, RemovePcs
  <1>1. ASSUME phase' = phase, held' = held
        PROVE  [Binding!Next]_(Binding!vars)
    BY <1>1 DEF Binding!vars
  <1>2. CASE BeginProbe \/ SetDrvdata \/ BeginRemove
    <2>1. held' = held /\ \/ phase = "unbound" /\ phase' = "probing"
                          \/ phase = "probing" /\ phase' = "bound"
                          \/ phase = "bound" /\ phase' = "releasing"
      BY <1>2 DEF BeginProbe, SetDrvdata, BeginRemove
    <2>2. QED
      BY <2>1 DEF Binding!Next, Binding!BeginProbe, Binding!Bind, Binding!BeginRelease
  <1>3. CASE Acquire \/ RequestIrq \/ UioRegister
    <2>1. PICK r \in {"pci", "regions", "mmio", "irq", "uio"} :
            /\ pc = r /\ r \notin held
            /\ \/ pc' \in ProbePcs /\ held' = held \cup {r}
               \/ pc' \in RollbackPcs /\ held' = held
      BY <1>3 DEF Acquire, RequestIrq, UioRegister, AcquireStep, Acquired, IInv, HeldByPlace
    <2>2. r \in Resources
      BY DEF Resources
    <2>3. phase = "probing" /\ phase' = IF pc' \in ProbePcs THEN "probing" ELSE "releasing"
      BY <2>1
    <2>4. QED
      BY <2>1, <2>2, <2>3 DEF Binding!Next, Binding!Acquire, Binding!BeginRelease
  <1>4. CASE EnableMsix
    BY <1>1, <1>4 DEF EnableMsix, EnableMsixOr
  <1>5. CASE Rollback \/ Remove
    <2>1. PICK r \in held : held' = held \ {r}
      BY <1>5 DEF Rollback, Remove, ReleaseStep, IInv, HeldByPlace, Resources
    <2>2. phase = "releasing" /\ phase' = "releasing"
      BY <1>5 DEF Rollback, Remove, ReleaseStep
    <2>3. QED
      BY <2>1, <2>2 DEF Binding!Next, Binding!Release
  <1>6. CASE ProbeReturn \/ DisableMsix
    <2>1. phase = "releasing" /\ phase' = "unbound" /\ held = {} /\ held' = {}
      BY <1>6 DEF ProbeReturn, DisableMsix, IInv, HeldByPlace
    <2>2. QED
      BY <2>1 DEF Binding!Next, Binding!Unbind
  <1>7. CASE UNCHANGED vars
    BY <1>1, <1>7 DEF vars
  <1>8. QED
    BY <1>2, <1>3, <1>4, <1>5, <1>6, <1>7 DEF Next, dummy_probe, dummy_remove

\* dummy_probe, its error labels and dummy_remove implement PciBinding: wherever
\* a probe fails, nothing is given back twice and nothing is left held.
THEOREM Refinement == Spec => BindingSpec
  <1>1. Init => Binding!Init
    <2> SUFFICES ASSUME Init PROVE Binding!Init
      OBVIOUS
    <2>1. phase = "unbound"
      BY DEF Init, phase, ProbePcs
    <2>2. QED
      BY <2>1 DEF Init, Binding!Init
  <1>2. IInv /\ [Next]_vars => [Binding!Next]_(Binding!vars)
    BY StepSimulation
  <1>3. QED
    BY <1>1, <1>2, Invariance, PTL DEF Spec, BindingSpec, Binding!Spec

=============================================================================
