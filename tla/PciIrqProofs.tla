---------------------------- MODULE PciIrqProofs ----------------------------
(***************************************************************************)
(* Proofs about pci_irq_driver, for any number of devices, lines and       *)
(* addresses and whichever kernel calls fail.                              *)
(***************************************************************************)
EXTENDS PciIrq, TLAPS

\* A module that is not loaded is bound to no device.
LoadedWhileBound == mod = "unloaded" => \A d \in Devices : pc[d] = "unbound"

\* What each device holds at each place of its probe or remove.
HeldByPlace ==
  \A d \in Devices :
    /\ pc[d] \in {"unbound", "pci", "return"} => held[d] = {}
    /\ pc[d] \in {"region", "disable"} => held[d] = {"pci"}
    /\ pc[d] \in {"mmio", "irq", "bound", "free_irq", "unmap", "release"} =>
         held[d] = {"pci", "region"}

\* A probe has been begun with room for its handler.
RoomForHandler == \A d \in Devices : pc[d] \in ProbePcs => handlers[d] < MaxHandlers

\* As long as devices with different lines have not been bound together, all
\* devices that are bound have the same line, irq_line is that line, and just
\* the devices between request_irq and free_irq have a handler.
HandlerByPlace ==
  ~mixed =>
    /\ \A d, e \in Devices : pc[d] # "unbound" /\ pc[e] # "unbound" => Line[d] = Line[e]
    /\ \A d \in Devices :
         IF pc[d] \in {"bound", "free_irq"} THEN irq_line = Line[d] /\ handlers[d] = 1
                                            ELSE handlers[d] = 0

\* As long as no two devices have been bound together, there is one device at
\* most, and its mapping is the one in mmio_base.
MappingByPlace ==
  ~together =>
    /\ \A d, e \in Devices : pc[d] # "unbound" /\ pc[e] # "unbound" => d = e
    /\ \A d \in Devices, a \in Addrs : maps[a] = d =>
         pc[d] \in {"irq", "bound", "free_irq", "unmap"} /\ mmio_base = a

IInv ==
  /\ TypeOK /\ LoadedWhileBound /\ HeldByPlace /\ RoomForHandler
  /\ HandlerByPlace /\ MappingByPlace

-----------------------------------------------------------------------------

\* The state before the first load satisfies the invariant.
LEMMA InitIInv == Init => IInv
  <1> SUFFICES ASSUME Init PROVE IInv
    OBVIOUS
  <1>1. together \in BOOLEAN /\ mixed \in BOOLEAN
    BY DEF Init
  <1>2. TypeOK
    BY <1>1, ConstantsAssumption DEF Init, TypeOK
  <1>3. LoadedWhileBound /\ HeldByPlace /\ RoomForHandler
    BY DEF Init, LoadedWhileBound, HeldByPlace, RoomForHandler, ProbePcs
  <1>4. HandlerByPlace
    BY DEF Init, HandlerByPlace
  <1>5. MappingByPlace
    BY ConstantsAssumption DEF Init, MappingByPlace
  <1>6. QED
    BY <1>2, <1>3, <1>4, <1>5 DEF IInv

\* Loading and unloading keep the invariant.
LEMMA ModuleIInv ==
  ASSUME IInv, Load \/ ExitBegin \/ ExitReturn
  PROVE  IInv'
  <1> USE DEF IInv, Load, ExitBegin, ExitReturn, statics, history
  <1>1. TypeOK' /\ LoadedWhileBound' /\ HeldByPlace' /\ RoomForHandler'
    BY DEF TypeOK, LoadedWhileBound, HeldByPlace, RoomForHandler
  <1>2. HandlerByPlace'
    BY DEF HandlerByPlace, LoadedWhileBound
  <1>3. MappingByPlace'
    BY DEF MappingByPlace, LoadedWhileBound
  <1>4. QED
    BY <1>1, <1>2, <1>3

\* A probe that begins is what can bring devices together.
LEMMA BeginProbeIInv ==
  ASSUME IInv, NEW d \in Devices, BeginProbe(d)
  PROVE  IInv'
  <1> USE DEF IInv, BeginProbe, Step, statics
  <1>1. together' \in BOOLEAN /\ mixed' \in BOOLEAN
    OBVIOUS
  <1>2. TypeOK' /\ LoadedWhileBound' /\ HeldByPlace' /\ RoomForHandler'
    BY <1>1 DEF TypeOK, LoadedWhileBound, HeldByPlace, RoomForHandler, ProbePcs
  <1>3. HandlerByPlace'
    <2> SUFFICES ASSUME ~mixed'
                 PROVE  HandlerByPlace'
      BY DEF HandlerByPlace
    <2>1. ~mixed /\ \A e \in Devices \ {d} : pc[e] # "unbound" => Line[e] = Line[d]
      OBVIOUS
    <2>2. QED
      BY <2>1 DEF HandlerByPlace, TypeOK
  <1>4. MappingByPlace'
    <2> SUFFICES ASSUME ~together'
                 PROVE  MappingByPlace'
      BY DEF MappingByPlace
    <2>1. ~together /\ \A e \in Devices \ {d} : pc[e] = "unbound"
      OBVIOUS
    <2>2. QED
      BY <2>1 DEF MappingByPlace, TypeOK
  <1>5. QED
    BY <1>2, <1>3, <1>4

\* Every later step of a probe or a remove keeps the invariant, whatever the
\* static variables hold by then.
LEMMA ThreadIInv ==
  ASSUME IInv, NEW d \in Devices, BeginRemove(d) \/ Thread(d)
  PROVE  IInv'
  <1> USE DEF IInv, Step, statics, history
  <1>1. CASE BeginRemove(d) \/ Return(d)
    <2> USE <1>1 DEF BeginRemove, Return
    <2>1. TypeOK' /\ LoadedWhileBound' /\ HeldByPlace' /\ RoomForHandler'
      BY DEF TypeOK, LoadedWhileBound, HeldByPlace, RoomForHandler, ProbePcs, ReleasePcs
    <2>2. HandlerByPlace'
      BY DEF HandlerByPlace, TypeOK
    <2>3. MappingByPlace'
      BY DEF MappingByPlace, TypeOK
    <2>4. QED
      BY <2>1, <2>2, <2>3
  <1>2. CASE Acquire(d)
    <2> USE <1>2 DEF Acquire, AcquireStep
    <2>1. TypeOK' /\ LoadedWhileBound' /\ HeldByPlace' /\ RoomForHandler'
      BY DEF TypeOK, LoadedWhileBound, HeldByPlace, RoomForHandler, ProbePcs, ReleasePcs
    <2>2. HandlerByPlace'
      BY DEF HandlerByPlace, TypeOK
    <2>3. MappingByPlace'
      BY DEF MappingByPlace, TypeOK
    <2>4. QED
      BY <2>1, <2>2, <2>3
  <1>3. CASE Ioremap(d)
    <2> USE <1>3 DEF Ioremap
    <2>1. TypeOK' /\ LoadedWhileBound' /\ HeldByPlace' /\ RoomForHandler'
      BY DEF TypeOK, LoadedWhileBound, HeldByPlace, RoomForHandler, ProbePcs, ReleasePcs
    <2>2. HandlerByPlace'
      BY DEF HandlerByPlace, TypeOK
    <2>3. MappingByPlace'
      BY ConstantsAssumption DEF MappingByPlace, TypeOK
    <2>4. QED
      BY <2>1, <2>2, <2>3
  <1>4. CASE RequestIrq(d)
    <2> USE <1>4 DEF RequestIrq, RequestIrqStep
    <2>1. TypeOK' /\ LoadedWhileBound' /\ HeldByPlace' /\ RoomForHandler'
      BY ConstantsAssumption
         DEF TypeOK, LoadedWhileBound, HeldByPlace, RoomForHandler, ProbePcs, ReleasePcs
    <2>2. HandlerByPlace'
      BY DEF HandlerByPlace, TypeOK
    <2>3. MappingByPlace'
      BY DEF MappingByPlace, TypeOK
    <2>4. QED
      BY <2>1, <2>2, <2>3
  <1>5. CASE FreeIrq(d)
    <2> USE <1>5 DEF FreeIrq
    <2>1. TypeOK' /\ LoadedWhileBound' /\ HeldByPlace' /\ RoomForHandler'
      BY ConstantsAssumption
         DEF TypeOK, LoadedWhileBound, HeldByPlace, RoomForHandler, ProbePcs, ReleasePcs
    <2>2. HandlerByPlace'
      BY DEF HandlerByPlace, TypeOK
    <2>3. MappingByPlace'
      BY DEF MappingByPlace, TypeOK
    <2>4. QED
      BY <2>1, <2>2, <2>3
  <1>6. CASE Iounmap(d)
    <2> USE <1>6 DEF Iounmap
    <2>1. TypeOK' /\ LoadedWhileBound' /\ HeldByPlace' /\ RoomForHandler'
      BY DEF TypeOK, LoadedWhileBound, HeldByPlace, RoomForHandler, ProbePcs, ReleasePcs
    <2>2. HandlerByPlace'
      BY DEF HandlerByPlace, TypeOK
    <2>3. MappingByPlace'
      BY ConstantsAssumption DEF MappingByPlace, TypeOK
    <2>4. QED
      BY <2>1, <2>2, <2>3
  <1>7. CASE Release(d)
    <2> USE <1>7 DEF Release, ReleaseStep
    <2>1. TypeOK' /\ LoadedWhileBound' /\ HeldByPlace' /\ RoomForHandler'
      BY DEF TypeOK, LoadedWhileBound, HeldByPlace, RoomForHandler, ProbePcs, ReleasePcs
    <2>2. HandlerByPlace'
      BY DEF HandlerByPlace, TypeOK
    <2>3. MappingByPlace'
      BY DEF MappingByPlace, TypeOK
    <2>4. QED
      BY <2>1, <2>2, <2>3
  <1>8. QED
    BY <1>1, <1>2, <1>3, <1>4, <1>5, <1>6, <1>7 DEF Thread

\* Every step of the system keeps the invariant.
LEMMA NextIInv == IInv /\ [Next]_vars => IInv'
  <1> SUFFICES ASSUME IInv, [Next]_vars PROVE IInv'
    OBVIOUS
  <1>1. CASE Load \/ ExitBegin \/ ExitReturn
    BY <1>1, ModuleIInv
  <1>2. ASSUME NEW d \in Devices, BeginProbe(d) PROVE IInv'
    BY <1>2, BeginProbeIInv
  <1>3. ASSUME NEW d \in Devices, BeginRemove(d) \/ Thread(d) PROVE IInv'
    BY <1>3, ThreadIInv
  <1>4. CASE UNCHANGED vars
    BY <1>4 DEF vars, IInv, TypeOK, LoadedWhileBound, HeldByPlace, RoomForHandler,
       HandlerByPlace, MappingByPlace
  <1>5. QED
    BY <1>1, <1>2, <1>3, <1>4 DEF Next

\* Interleaved probes and removes of any number of devices keep IInv.
THEOREM Invariance == Spec => []IInv
  <1>1. QED
    BY InitIInv, NextIInv, PTL DEF Spec

\* Every variable keeps its type; irq_line is a line of some device or 0.
THEOREM TypeCorrect == Spec => []TypeOK
  <1>1. IInv => TypeOK
    BY DEF IInv
  <1>2. QED
    BY <1>1, Invariance, PTL

\* The static variables lose no handler unless devices with different lines were
\* bound together, and no mapping unless any two devices were.
THEOREM GivenBack == Spec => []NothingLeft
  <1>1. IInv => NothingLeft
    BY DEF IInv, HandlerByPlace, MappingByPlace, NothingLeft
  <1>2. QED
    BY <1>1, Invariance, PTL

-----------------------------------------------------------------------------
(* Each device sees an implementation of PciBinding.                       *)

\* While one device takes a step of its probe or remove, another one keeps its
\* phase and what it holds.
LEMMA OthersUntouched ==
  ASSUME IInv, NEW d \in Devices, NEW e \in Devices \ {d},
         BeginProbe(d) \/ BeginRemove(d) \/ Thread(d)
  PROVE  PhaseOf(e)' = PhaseOf(e) /\ held'[e] = held[e]
  <1>1. pc'[e] = pc[e] /\ held'[e] = held[e]
    BY DEF IInv, TypeOK, BeginProbe, BeginRemove, Thread, Acquire, AcquireStep, Ioremap,
       RequestIrq, RequestIrqStep, FreeIrq, Iounmap, Release, ReleaseStep, Return, Step
  <1>2. QED
    BY <1>1 DEF PhaseOf

\* What the handler of a device may touch is held.
LEMMA UsingHeld ==
  ASSUME IInv, NEW d \in Devices
  PROVE  Using(d) \subseteq held[d]
  BY DEF IInv, HandlerByPlace, HeldByPlace, Using, TypeOK

\* Every step of the driver is, for each device, a step of its binding or leaves
\* the binding unchanged.
LEMMA StepSimulation ==
  ASSUME IInv, IInv', [Next]_vars, NEW d \in Devices
  PROVE  [Binding(d)!Next]_(Binding(d)!vars)
  <1>1. Using(d)' \in SUBSET held'[d]
    <2>1. (Using(d) \subseteq held[d])'
      BY UsingHeld, PTL
    <2>2. QED
      BY <2>1
  <1>2. ASSUME PhaseOf(d)' = PhaseOf(d), held'[d] = held[d]
        PROVE  [Binding(d)!Next]_(Binding(d)!vars)
    BY <1>1, <1>2 DEF Binding!Next, Binding!Use
  <1>3. ASSUME NEW e \in Devices \ {d}, BeginProbe(e) \/ BeginRemove(e) \/ Thread(e)
        PROVE  [Binding(d)!Next]_(Binding(d)!vars)
    BY <1>2, <1>3, OthersUntouched
  <1>4. CASE Load \/ ExitBegin \/ ExitReturn \/ UNCHANGED vars
    BY <1>2, <1>4 DEF Load, ExitBegin, ExitReturn, vars, PhaseOf
  <1> USE DEF Step, PhaseOf, ProbePcs, ReleasePcs, IInv, TypeOK
  <1>5. CASE BeginProbe(d)
    <2>1. PhaseOf(d) = "unbound" /\ PhaseOf(d)' = "probing" /\ held'[d] = held[d]
      BY <1>5 DEF BeginProbe
    <2>2. QED
      BY <1>1, <2>1 DEF Binding!Next, Binding!BeginProbe
  <1>6. CASE BeginRemove(d)
    <2>1. PhaseOf(d) = "bound" /\ PhaseOf(d)' = "releasing" /\ held'[d] = held[d]
      BY <1>6 DEF BeginRemove
    <2>2. QED
      BY <1>1, <2>1 DEF Binding!Next, Binding!BeginRelease
  <1>7. CASE Acquire(d)
    <2>1. PICK r \in {"pci", "region"} :
            /\ r \notin held[d] /\ PhaseOf(d) = "probing"
            /\ \/ PhaseOf(d)' = "probing" /\ held'[d] = held[d] \cup {r}
               \/ PhaseOf(d)' = "releasing" /\ held'[d] = held[d]
      BY <1>7 DEF Acquire, AcquireStep, HeldByPlace
    <2>2. QED
      BY <1>1, <2>1 DEF Binding!Next, Binding!Acquire, Binding!BeginRelease
  <1>8. CASE Ioremap(d) \/ RequestIrq(d)
    <2>1. /\ PhaseOf(d) = "probing" /\ held'[d] = held[d]
          /\ PhaseOf(d)' \in {"probing", "bound", "releasing"}
      BY <1>8 DEF Ioremap, RequestIrq, RequestIrqStep
    <2>2. QED
      BY <1>1, <1>2, <2>1 DEF Binding!Next, Binding!Bind, Binding!BeginRelease
  <1>9. CASE FreeIrq(d) \/ Iounmap(d)
    BY <1>2, <1>9 DEF FreeIrq, Iounmap
  <1>10. CASE Release(d)
    <2>1. PICK r \in held[d] \ Using(d) : held'[d] = held[d] \ {r}
      BY <1>10 DEF Release, ReleaseStep, HeldByPlace, HandlerByPlace, Using
    <2>2. PhaseOf(d) = "releasing" /\ PhaseOf(d)' = "releasing"
      BY <1>10 DEF Release, ReleaseStep
    <2>3. QED
      BY <1>1, <2>1, <2>2 DEF Binding!Next, Binding!Release
  <1>11. CASE Return(d)
    <2>1. /\ PhaseOf(d) = "releasing" /\ PhaseOf(d)' = "unbound"
          /\ held[d] = {} /\ held'[d] = {}
      BY <1>11 DEF Return, HeldByPlace
    <2>2. QED
      BY <1>1, <2>1 DEF Binding!Next, Binding!Unbind
  <1>12. QED
    BY <1>3, <1>4, <1>5, <1>6, <1>7, <1>8, <1>9, <1>10, <1>11 DEF Next, Thread

\* With any number of devices bound, each of them gets all it was given taken
\* back in order, and never before its handler is gone unless devices with
\* different lines were bound together.
THEOREM Refinement == Spec => BindingSpec
  <1>1. Init => \A d \in Devices : Binding(d)!Init
    <2> SUFFICES ASSUME Init, NEW d \in Devices PROVE Binding(d)!Init
      OBVIOUS
    <2>1. Using(d) = {} /\ PhaseOf(d) = "unbound" /\ held[d] = {}
      BY DEF Init, Using, PhaseOf, ProbePcs, ReleasePcs
    <2>2. QED
      BY <2>1 DEF Binding!Init
  <1>2. IInv /\ IInv' /\ [Next]_vars =>
          [\A d \in Devices : [Binding(d)!Next]_(Binding(d)!vars)]_vars
    BY StepSimulation
  <1>3. QED
    BY <1>1, <1>2, Invariance, PTL DEF Spec, BindingSpec

=============================================================================
