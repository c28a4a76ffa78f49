----------------------------- MODULE MynicProofs -----------------------------
(***************************************************************************)
(* Proofs about mynic without its transmit ring, for every budget, ring,   *)
(* number of CPUs and failing call: no wakeup is lost, no resource goes    *)
(* away under the handler or a poll, and which oopses remain.              *)
(***************************************************************************)
EXTENDS Mynic, TLAPS

-----------------------------------------------------------------------------
(* The inductive invariant                                                 *)

\* The places at which the context is one netif_napi_add has set up.
AddedPcs == {"bound", "rm_irq", "rm_unregister_netdev", "rm_unregistering", "rm_napi_del"}

\* napi_enable has run and napi_disable has not ended.
Enabled == up \/ op = "open_hw"

\* What is held at each place of probe, its rollback and remove.
HeldByPlace ==
  /\ "pci" \in held <=> pc \notin {"unbound", "pci", "returned"}
  /\ "region" \in held <=>
       pc \notin {"unbound", "pci", "region", "err_disable_pci", "rm_pci", "returned"}
  /\ "mmio" \in held <=>
       pc \notin {"unbound", "pci", "region", "mmio", "err_release_region",
                  "err_disable_pci", "rm_free_netdev", "rm_region", "rm_pci", "returned"}
  /\ "netdev" \in held <=>
       pc \notin {"unbound", "pci", "region", "mmio", "netdev", "err_iounmap",
                  "err_release_region", "err_disable_pci", "rm_region", "rm_pci",
                  "returned"}
  /\ "registered" \in held <=>
       pc \in {"irq", "napi_add", "err_unregister_netdev", "err_unregistering", "bound",
               "rm_irq", "rm_unregister_netdev", "rm_unregistering"}
  /\ "irq" \in held <=> pc \in {"napi_add", "bound", "rm_irq"}

\* A running handler has its interrupt; an operation, an interface that is up
\* and a poll keep the net_device registered.
UsersHold ==
  /\ isr # "idle" => "irq" \in held
  /\ op # "none" \/ up \/ poll # "idle" \/ late > 0 => "registered" \in held

\* The RTNL lock: what is up is stopped, what is down is opened, and nothing
\* opens the interface while it is unregistered.
OneOperation ==
  /\ op \in {"stop_hw", "stop_napi", "stop_wait"} => up
  /\ op \in {"open_napi", "open_hw", "oops"} => ~up
  /\ pc \in {"err_unregistering", "rm_unregistering"} =>
       \/ op \in {"stop_hw", "stop_napi", "stop_wait"}
       \/ op = "none" /\ ~up

\* Outside the span of the context no bit is set and no poll exists.
ContextByPlace ==
  /\ "ADDED" \in napi <=> pc \in AddedPcs
  /\ pc \notin AddedPcs \cup {"napi_add"} => napi = {} /\ poll = "idle" /\ late = 0

\* A poll that runs has a CPU to leave it on.
CpuToLeave == poll \in {"loop", "complete"} => late < Cpus

DisableByStop == "DISABLE" \in napi => op = "stop_wait"

\* An enabled context that says a poll is due has one, and a context that is
\* used before it was added has one that will find no poll function.
ScheduledIsPolled ==
  /\ Enabled /\ "SCHED" \in napi => poll # "idle"
  /\ "ADDED" \notin napi /\ (Enabled \/ "SCHED" \in napi) => poll \in {"queued", "oops"}

\* Packets wait only while the interface runs, and a poll that found no packet
\* and is about to complete is told of the ones that have come since.
FreshIsAnnounced ==
  /\ fresh => up /\ op = "none" /\ pending > 0
  /\ fresh /\ poll = "complete" => intr \/ isr # "idle" \/ "MISSED" \in napi

\* With a device that was off when probe began, nothing touches the context
\* before it is added, and from then on SCHED says what napi_enable and
\* napi_disable take it for: disabled, or a poll is due or running.
CleanStart ==
  ~leftOn =>
    /\ pc \in ProbePcs => control = "0" /\ isr = "idle" /\ poll = "idle" /\ late = 0
                            /\ napi = {}
    /\ poll \in {"queued", "loop", "complete"} => Enabled /\ "SCHED" \in napi
    /\ "ADDED" \in napi /\ ~Enabled => "SCHED" \in napi

IInv ==
  /\ TypeOK /\ HeldByPlace /\ UsersHold /\ OneOperation /\ ContextByPlace
  /\ CpuToLeave /\ DisableByStop /\ ScheduledIsPolled /\ FreshIsAnnounced
  /\ WaitingHasWakeup /\ CleanStart

-----------------------------------------------------------------------------

\* The state before the first probe satisfies the invariant.
LEMMA InitIInv == Init => IInv
<1> SUFFICES ASSUME Init
             PROVE  IInv
  OBVIOUS
<1>1. TypeOK
  <2>1. up \in BOOLEAN /\ intr \in BOOLEAN /\ leftOn \in BOOLEAN /\ fresh \in BOOLEAN
    BY DEF Init
  <2> QED
    BY <2>1, ConstantsAssumption DEF Init, TypeOK
<1>2. HeldByPlace /\ UsersHold /\ OneOperation /\ ContextByPlace
  BY DEF Init, HeldByPlace, UsersHold, OneOperation, ContextByPlace, AddedPcs
<1>3. /\ CpuToLeave /\ DisableByStop /\ ScheduledIsPolled /\ FreshIsAnnounced
      /\ WaitingHasWakeup /\ CleanStart
  BY DEF Init, CpuToLeave, DisableByStop, ScheduledIsPolled, FreshIsAnnounced,
         WaitingHasWakeup, CleanStart, Enabled, ProbePcs
<1> QED
  BY <1>1, <1>2, <1>3 DEF IInv

\* mynic_probe, its rollback and mynic_remove keep it.
LEMMA ThreadIInv ==
  ASSUME IInv, BeginProbe \/ BeginRemove \/ Thread
  PROVE  IInv'
<1> USE DEF
        IInv, TypeOK, HeldByPlace, UsersHold, OneOperation, ContextByPlace,
        CpuToLeave, DisableByStop, ScheduledIsPolled, FreshIsAnnounced,
        WaitingHasWakeup, CleanStart, Enabled, AddedPcs, Resources,
        ProbePcs, RollbackPcs, RemovePcs,
        Running, ThreadGoto, ThreadStep, device, softirq, interface
<1>1. CASE BeginProbe
  BY <1>1 DEF BeginProbe
<1>2. CASE Acquire
  <2>1. UNCHANGED <<op, up, control, intr, pending, arrivals, isr, napi, poll, rx_done,
                    late, leftOn, fresh>>
    BY <1>2 DEF Acquire, AcquireStep
  <2>2. /\ pc \in ProbePcs \ {"napi_add"}
        /\ pc' \in (ProbePcs \ {"pci"}) \cup (RollbackPcs \ {"err_unregistering"}) \cup {"unbound"}
        /\ pc' = "napi_add" => pc = "irq"
    BY <1>2 DEF Acquire, AcquireStep
  <2>3. held' \subseteq Resources /\ held \subseteq held'
    BY <1>2 DEF Acquire, AcquireStep
  <2>4. HeldByPlace'
    BY <1>2 DEF Acquire, AcquireStep
  <2>5. TypeOK'
    BY <2>1, <2>2, <2>3
  <2>6. UsersHold' /\ OneOperation' /\ CpuToLeave' /\ DisableByStop' /\ ScheduledIsPolled'
    BY <2>1, <2>2, <2>3
  <2>7. ContextByPlace' /\ FreshIsAnnounced' /\ WaitingHasWakeup' /\ CleanStart'
    BY <2>1, <2>2
  <2> QED
    BY <2>4, <2>5, <2>6, <2>7
<1>3. CASE NapiAdd
  BY <1>3 DEF NapiAdd
<1>4. CASE BeginRemove
  BY <1>4 DEF BeginRemove
<1>5. CASE RemoveIrq
  BY <1>5 DEF RemoveIrq, ReleaseStep
<1>6. CASE Unregister
  <2>1. CASE UnregisterBegin("err_unregister_netdev", "err_unregistering")
    BY <2>1 DEF UnregisterBegin
  <2>2. CASE UnregisterEnd("err_unregistering", "err_free_netdev")
    BY <2>2 DEF UnregisterEnd, ReleaseStep
  <2>3. CASE UnregisterBegin("rm_unregister_netdev", "rm_unregistering")
    BY <2>3 DEF UnregisterBegin
  <2>4. CASE UnregisterEnd("rm_unregistering", "rm_napi_del")
    BY <2>4 DEF UnregisterEnd, ReleaseStep
  <2> QED
    BY <1>6, <2>1, <2>2, <2>3, <2>4 DEF Unregister
<1>7. CASE NapiDel
  BY <1>7 DEF NapiDel
<1>8. CASE FreeNetdev
  <2>1. CASE ReleaseStep("err_free_netdev", "netdev", "err_iounmap")
    BY <1>8, <2>1 DEF FreeNetdev, ReleaseStep
  <2>2. CASE ReleaseStep("rm_free_netdev", "netdev", "rm_region")
    BY <1>8, <2>2 DEF FreeNetdev, ReleaseStep
  <2> QED
    BY <1>8, <2>1, <2>2 DEF FreeNetdev
<1>9. CASE Release
  <2>1. CASE ReleaseStep("err_iounmap", "mmio", "err_release_region")
    BY <1>9, <2>1 DEF Release, ReleaseStep
  <2>2. CASE ReleaseStep("err_release_region", "region", "err_disable_pci")
    BY <1>9, <2>2 DEF Release, ReleaseStep
  <2>3. CASE ReleaseStep("err_disable_pci", "pci", "returned")
    BY <1>9, <2>3 DEF Release, ReleaseStep
  <2>4. CASE ReleaseStep("rm_iounmap", "mmio", "rm_free_netdev")
    BY <1>9, <2>4 DEF Release, ReleaseStep
  <2>5. CASE ReleaseStep("rm_region", "region", "rm_pci")
    BY <1>9, <2>5 DEF Release, ReleaseStep
  <2>6. CASE ReleaseStep("rm_pci", "pci", "returned")
    BY <1>9, <2>6 DEF Release, ReleaseStep
  <2> QED
    BY <1>9, <2>1, <2>2, <2>3, <2>4, <2>5, <2>6 DEF Release
<1>10. CASE Return
  BY <1>10 DEF Return
<1> QED
  BY <1>1, <1>2, <1>3, <1>4, <1>5, <1>6, <1>7, <1>8, <1>9, <1>10 DEF Thread

\* mynic_open and mynic_stop keep it.
LEMMA InterfaceIInv ==
  ASSUME IInv, OpenBegin \/ StopBegin \/ mynic_open \/ mynic_stop
  PROVE  IInv'
<1> USE ConstantsAssumption
    DEF IInv, TypeOK, HeldByPlace, UsersHold, OneOperation, ContextByPlace,
        CpuToLeave, DisableByStop, ScheduledIsPolled, FreshIsAnnounced,
        WaitingHasWakeup, CleanStart, Enabled, AddedPcs,
        ProbePcs, Running, OpStep, softirq, interface
<1>1. CASE OpenBegin
  BY <1>1 DEF OpenBegin, RtnlTaken
<1>2. CASE OpenNapi
  <2>1. TypeOK'
    BY <1>2 DEF OpenNapi
  <2>2. HeldByPlace' /\ UsersHold' /\ OneOperation' /\ CpuToLeave'
    BY <1>2 DEF OpenNapi
  <2>3. ContextByPlace' /\ DisableByStop'
    BY <1>2 DEF OpenNapi
  <2>4. ScheduledIsPolled'
    BY <1>2 DEF OpenNapi
  <2>5. FreshIsAnnounced' /\ WaitingHasWakeup'
    BY <1>2 DEF OpenNapi
  <2>6. CleanStart'
    BY <1>2 DEF OpenNapi
  <2> QED
    BY <2>1, <2>2, <2>3, <2>4, <2>5, <2>6
<1>3. CASE OpenHw
  BY <1>3 DEF OpenHw
<1>4. CASE StopBegin
  <2>1. fresh' \in BOOLEAN
    BY <1>4 DEF StopBegin
  <2> QED
    BY <1>4, <2>1 DEF StopBegin, RtnlTaken
<1>5. CASE StopHw
  BY <1>5 DEF StopHw
<1>6. CASE StopNapi
  BY <1>6 DEF StopNapi
<1>7. CASE StopWait
  <2>1. up' \in BOOLEAN
    BY <1>7 DEF StopWait
  <2> QED
    BY <1>7, <2>1 DEF StopWait
<1> QED
  BY <1>1, <1>2, <1>3, <1>4, <1>5, <1>6, <1>7 DEF mynic_open, mynic_stop

\* The device and mynic_interrupt keep it.
LEMMA HandlerIInv ==
  ASSUME IInv, Arrive \/ Interrupt \/ mynic_interrupt
  PROVE  IInv'
<1> USE ConstantsAssumption
    DEF IInv, TypeOK, HeldByPlace, UsersHold, OneOperation, ContextByPlace,
        CpuToLeave, DisableByStop, ScheduledIsPolled, FreshIsAnnounced,
        WaitingHasWakeup, CleanStart, Enabled, AddedPcs,
        ProbePcs, Running, device, softirq, interface
<1>1. CASE Arrive
  BY <1>1 DEF Arrive
<1>2. CASE Interrupt
  BY <1>2 DEF Interrupt
<1>3. CASE IsrAck
  <2>1. intr' \in BOOLEAN
    BY <1>3 DEF IsrAck
  <2> QED
    BY <1>3, <2>1 DEF IsrAck
<1>4. CASE IsrSchedule
  BY <1>4 DEF IsrSchedule, napi_schedule
<1> QED
  BY <1>1, <1>2, <1>3, <1>4 DEF mynic_interrupt

\* mynic_poll keeps it.
LEMMA PollIInv ==
  ASSUME IInv, mynic_poll
  PROVE  IInv'
<1> USE ConstantsAssumption
    DEF IInv, TypeOK, HeldByPlace, UsersHold, OneOperation, ContextByPlace,
        CpuToLeave, DisableByStop, ScheduledIsPolled, FreshIsAnnounced,
        WaitingHasWakeup, CleanStart, Enabled, AddedPcs,
        ProbePcs, Running, device, interface
<1>1. CASE PollBegin
  BY <1>1 DEF PollBegin
<1>2. CASE PollReceive
  <2>1. TypeOK'
    BY <1>2 DEF PollReceive
  <2>2. HeldByPlace' /\ UsersHold' /\ OneOperation' /\ CpuToLeave'
    BY <1>2 DEF PollReceive
  <2>3. ContextByPlace' /\ DisableByStop'
    BY <1>2 DEF PollReceive
  <2>4. ScheduledIsPolled'
    BY <1>2 DEF PollReceive
  <2>5. FreshIsAnnounced' /\ WaitingHasWakeup'
    BY <1>2 DEF PollReceive
  <2>6. CleanStart'
    BY <1>2 DEF PollReceive
  <2> QED
    BY <2>1, <2>2, <2>3, <2>4, <2>5, <2>6
<1>3. CASE PollLoopEnd
  <2>1. TypeOK'
    <3>1. fresh' \in BOOLEAN
      BY <1>3 DEF PollLoopEnd
    <3>2. /\ napi' \in SUBSET {"ADDED", "SCHED", "MISSED", "DISABLE"}
          /\ poll' \in {"idle", "queued", "complete"}
      BY <1>3 DEF PollLoopEnd, napi_complete_done
    <3> QED
      BY <1>3, <3>1, <3>2 DEF PollLoopEnd
  <2>2. HeldByPlace' /\ UsersHold' /\ OneOperation' /\ CpuToLeave'
    BY <1>3 DEF PollLoopEnd, napi_complete_done
  <2>3. ContextByPlace' /\ DisableByStop'
    BY <1>3 DEF PollLoopEnd, napi_complete_done
  <2>4. ScheduledIsPolled'
    BY <1>3 DEF PollLoopEnd, napi_complete_done
  <2>5. FreshIsAnnounced' /\ WaitingHasWakeup'
    BY <1>3 DEF PollLoopEnd, napi_complete_done
  <2>6. CleanStart'
    BY <1>3 DEF PollLoopEnd, napi_complete_done
  <2> QED
    BY <2>1, <2>2, <2>3, <2>4, <2>5, <2>6
<1>4. CASE PollComplete
  <2>1. TypeOK'
    <3>1. /\ napi' \in SUBSET {"ADDED", "SCHED", "MISSED", "DISABLE"}
          /\ poll' \in {"idle", "queued"}
      BY <1>4 DEF PollComplete, napi_complete_done
    <3>2. late' \in 0 .. Cpus
      BY <1>4 DEF PollComplete
    <3> QED
      BY <1>4, <3>1, <3>2 DEF PollComplete
  <2>2. HeldByPlace' /\ UsersHold' /\ OneOperation' /\ CpuToLeave'
    BY <1>4 DEF PollComplete, napi_complete_done
  <2>3. ContextByPlace' /\ DisableByStop'
    BY <1>4 DEF PollComplete, napi_complete_done
  <2>4. ScheduledIsPolled'
    BY <1>4 DEF PollComplete, napi_complete_done
  <2>5. FreshIsAnnounced' /\ WaitingHasWakeup'
    BY <1>4 DEF PollComplete, napi_complete_done
  <2>6. CleanStart'
    BY <1>4 DEF PollComplete, napi_complete_done
  <2> QED
    BY <2>1, <2>2, <2>3, <2>4, <2>5, <2>6
<1>5. CASE PollReenable
  BY <1>5 DEF PollReenable
<1> QED
  BY <1>1, <1>2, <1>3, <1>4, <1>5 DEF mynic_poll

\* Every step keeps it.
LEMMA NextIInv == IInv /\ [Next]_vars => IInv'
<1> SUFFICES ASSUME IInv, [Next]_vars
             PROVE  IInv'
  OBVIOUS
<1>1. CASE UNCHANGED vars
  BY <1>1
     DEF vars, IInv, TypeOK, HeldByPlace, UsersHold, OneOperation, ContextByPlace,
         CpuToLeave, DisableByStop, ScheduledIsPolled, FreshIsAnnounced,
         WaitingHasWakeup, CleanStart, Enabled
<1> QED
  BY <1>1, ThreadIInv, InterfaceIInv, HandlerIInv, PollIInv DEF Next

\* The invariant holds throughout.
THEOREM Invariance == Spec => []IInv
  BY InitIInv, NextIInv, PTL DEF Spec

-----------------------------------------------------------------------------
(* What follows from it                                                    *)

\* Every variable keeps its type: among others a poll never takes more than its
\* budget, and no more polls are on their way out than there are CPUs.
THEOREM TypeCorrect == Spec => []TypeOK
  BY Invariance, PTL DEF IInv

\* No order of arrivals, interrupts, polls, opens and stops loses a wakeup
\* between mynic_poll's last look at the ring and its napi_complete_done.
THEOREM NoLostWakeup == Spec => []WaitingHasWakeup
  BY Invariance, PTL DEF IInv

\* Whatever opens, stops, binds and removes came before, napi_enable is a BUG
\* and a poll function is missing only in the cases OopsOnlyEarly leaves.
THEOREM OopsesLeft == Spec => OopsOnlyEarly
<1> DEFINE Oops == /\ op' = "oops" /\ op # "oops" => "ADDED" \notin napi \/ leftOn
                   /\ poll' = "oops" => pc = "napi_add" /\ leftOn
<1>1. IInv /\ [Next]_vars => [Oops]_vars
  <2> SUFFICES ASSUME IInv, Next
               PROVE  Oops
    OBVIOUS
  <2>1. op' = "oops" /\ op # "oops" => "ADDED" \notin napi \/ leftOn
    <3> SUFFICES ASSUME op' = "oops", op # "oops"
                 PROVE  "ADDED" \notin napi \/ leftOn
      OBVIOUS
    <3>1. OpenNapi /\ op = "open_napi" /\ "SCHED" \notin napi
      BY DEF Next, BeginProbe, BeginRemove, Thread, Acquire, AcquireStep, NapiAdd,
             RemoveIrq, Unregister, UnregisterBegin, UnregisterEnd, NapiDel,
             FreeNetdev, Release, Return, ReleaseStep, ThreadStep, ThreadGoto,
             OpenBegin, StopBegin, mynic_open, mynic_stop, OpenNapi, OpenHw, StopHw,
             StopNapi, StopWait, OpStep, Arrive, Interrupt, mynic_interrupt, IsrAck,
             IsrSchedule, mynic_poll, PollBegin, PollReceive, PollLoopEnd,
             PollComplete, PollReenable, interface
    <3> QED
      BY <3>1 DEF IInv, OneOperation, CleanStart, Enabled
  <2>2. poll' = "oops" => pc = "napi_add" /\ leftOn
    <3> SUFFICES ASSUME poll' = "oops"
                 PROVE  pc = "napi_add" /\ leftOn
      OBVIOUS
    <3>1. poll = "queued" /\ "ADDED" \notin napi
      BY DEF Next, BeginProbe, BeginRemove, Thread, Acquire, AcquireStep, NapiAdd,
             RemoveIrq, Unregister, UnregisterBegin, UnregisterEnd, NapiDel,
             FreeNetdev, Release, Return, ReleaseStep, ThreadStep, ThreadGoto,
             OpenBegin, StopBegin, mynic_open, mynic_stop, OpenNapi, OpenHw, StopHw,
             StopNapi, StopWait, OpStep, Arrive, Interrupt, mynic_interrupt, IsrAck,
             IsrSchedule, mynic_poll, PollBegin, PollReceive, PollLoopEnd,
             PollComplete, PollReenable, napi_schedule, napi_complete_done,
             softirq, Running
    <3>2. pc = "napi_add"
      BY <3>1 DEF IInv, ContextByPlace
    <3> QED
      BY <3>1, <3>2 DEF IInv, TypeOK, CleanStart, ProbePcs
  <2> QED
    BY <2>1, <2>2
<1> QED
  BY <1>1, Invariance, PTL DEF Spec, OopsOnlyEarly

-----------------------------------------------------------------------------
(* The driver implements PciBinding                                        *)

\* What may be touched is held.
LEMMA UsingHeld == IInv => Using \in SUBSET held
  BY DEF IInv, TypeOK, UsersHold, HeldByPlace, Using

\* The places of probe and of the releases have the phases they should have.
LEMMA PhaseOf ==
  /\ pc = "unbound" => phase = "unbound"
  /\ pc \in ProbePcs => phase = "probing"
  /\ pc = "bound" => phase = "bound"
  /\ pc \in RollbackPcs \cup RemovePcs \cup {"returned"} => phase = "releasing"
  BY DEF phase, ProbePcs, RollbackPcs, RemovePcs

\* A resource taken in probe was not held.
LEMMA AcquireSimulation ==
  ASSUME IInv, Acquire, Using' \in SUBSET held'
  PROVE  Binding!Next
<1> USE DEF AcquireStep, ThreadStep, ThreadGoto
<1>1. pc \in ProbePcs /\ phase = "probing"
  BY PhaseOf DEF Acquire, ProbePcs
<1>2. CASE held' = held
  <2>1. \/ pc = "pci" /\ pc' = "unbound"
        \/ pc' \in RollbackPcs
        \/ pc' \in ProbePcs
    BY DEF Acquire, RollbackPcs, ProbePcs
  <2>2. CASE pc = "pci" /\ pc' = "unbound"
    <3>1. held = {} /\ phase' = "unbound"
      BY <2>2 DEF IInv, TypeOK, HeldByPlace, Resources, phase, ProbePcs
    <3> QED
      BY <1>1, <1>2, <3>1 DEF Binding!Next, Binding!Unbind
  <2>3. CASE pc' \in RollbackPcs
    <3>1. phase' = "releasing"
      BY <2>3 DEF phase, RollbackPcs, ProbePcs
    <3> QED
      BY <1>1, <1>2, <3>1 DEF Binding!Next, Binding!BeginRelease
  <2>4. CASE pc' \in ProbePcs
    <3>1. phase' = "probing"
      BY <2>4 DEF phase, ProbePcs
    <3> QED
      BY <1>1, <1>2, <3>1 DEF Binding!Next, Binding!Use
  <2> QED
    BY <2>1, <2>2, <2>3, <2>4
<1>3. CASE held' # held
  <2>1. pc' \in ProbePcs /\ pc \in Resources \ held /\ held' = held \cup {pc}
    BY <1>3 DEF Acquire, ProbePcs, Resources, IInv, HeldByPlace
  <2>2. phase' = "probing"
    BY <2>1 DEF phase, ProbePcs
  <2> QED
    BY <1>1, <2>1, <2>2 DEF Binding!Next, Binding!Acquire
<1> QED
  BY <1>2, <1>3

\* A resource given back was held, and nothing may touch it any more.
LEMMA ReleaseSimulation ==
  ASSUME IInv, Using' \in SUBSET held', NEW from, NEW resource, NEW to,
         ReleaseStep(from, resource, to),
         from \in RollbackPcs \cup RemovePcs,
         to \in RollbackPcs \cup RemovePcs \cup {"returned"},
         resource \in held \ Using
  PROVE  Binding!Next
<1>1. pc = from /\ pc' = to /\ held' = held \ {resource}
  BY DEF ReleaseStep, ThreadStep, ThreadGoto
<1>2. phase = "releasing" /\ phase' = "releasing"
  BY <1>1 DEF phase, RollbackPcs, RemovePcs, ProbePcs
<1> QED
  BY <1>1, <1>2 DEF Binding!Next, Binding!Release

\* Every step of the driver is a step of PciBinding or leaves its state alone.
LEMMA StepSimulation ==
  ASSUME IInv, IInv', [Next]_vars
  PROVE  [Binding!Next]_(Binding!vars)
<1>1. Using' \in SUBSET held'
  <2>1. (Using \in SUBSET held)'
    BY UsingHeld, PTL
  <2> QED
    BY <2>1
<1>2. CASE BeginProbe
  <2>1. phase = "unbound" /\ phase' = "probing" /\ held' = held
    BY <1>2 DEF BeginProbe, ThreadGoto, phase, ProbePcs
  <2> QED
    BY <1>1, <2>1 DEF Binding!Next, Binding!BeginProbe
<1>3. CASE Acquire
  BY <1>1, <1>3, AcquireSimulation
<1>4. CASE NapiAdd
  <2>1. phase = "probing" /\ phase' = "bound" /\ held' = held
    BY <1>4 DEF NapiAdd, ThreadStep, ThreadGoto, phase, ProbePcs
  <2> QED
    BY <1>1, <2>1 DEF Binding!Next, Binding!Bind
<1>5. CASE BeginRemove
  <2>1. phase = "bound" /\ phase' = "releasing" /\ held' = held
    BY <1>5 DEF BeginRemove, ThreadStep, ThreadGoto, phase, ProbePcs
  <2> QED
    BY <1>1, <2>1 DEF Binding!Next, Binding!BeginRelease
<1>6. CASE RemoveIrq
  <2>1. "irq" \in held \ Using
    BY <1>6 DEF RemoveIrq, ReleaseStep, ThreadStep, ThreadGoto, IInv, HeldByPlace, Using
  <2> QED
    BY <1>1, <1>6, <2>1, ReleaseSimulation DEF RemoveIrq, RemovePcs
<1>7. CASE Unregister
  <2>1. CASE \/ UnregisterBegin("err_unregister_netdev", "err_unregistering")
             \/ UnregisterBegin("rm_unregister_netdev", "rm_unregistering")
    <3>1. phase = "releasing" /\ phase' = "releasing" /\ held' = held
      BY <2>1 DEF UnregisterBegin, phase, ProbePcs
    <3> QED
      BY <1>1, <3>1 DEF Binding!Next, Binding!Use
  <2>2. ASSUME NEW from \in {"err_unregistering", "rm_unregistering"}, NEW to,
               UnregisterEnd(from, to)
        PROVE  "registered" \in held \ Using
    BY <2>2 DEF UnregisterEnd, ReleaseStep, ThreadStep, ThreadGoto, IInv, HeldByPlace,
                OneOperation, Using
  <2>3. CASE UnregisterEnd("err_unregistering", "err_free_netdev")
    BY <1>1, <2>2, <2>3, ReleaseSimulation DEF UnregisterEnd, RollbackPcs
  <2>4. CASE UnregisterEnd("rm_unregistering", "rm_napi_del")
    BY <1>1, <2>2, <2>4, ReleaseSimulation DEF UnregisterEnd, RemovePcs
  <2> QED
    BY <1>7, <2>1, <2>3, <2>4 DEF Unregister
<1>8. CASE NapiDel
  <2>1. phase = "releasing" /\ phase' = "releasing" /\ held' = held
    BY <1>8 DEF NapiDel, ThreadStep, ThreadGoto, phase, ProbePcs
  <2> QED
    BY <1>1, <2>1 DEF Binding!Next, Binding!Use
<1>9. "registered" \notin held /\ "irq" \notin held => {"mmio", "netdev"} \cap Using = {}
  BY DEF IInv, UsersHold, TypeOK, Using
<1>10. {"pci", "region"} \cap Using = {}
  BY DEF Using
<1>11. CASE FreeNetdev
  <2>1. "netdev" \in held \ Using
    BY <1>9, <1>11 DEF FreeNetdev, ReleaseStep, ThreadStep, ThreadGoto, IInv, HeldByPlace
  <2> QED
    BY <1>1, <1>11, <2>1, ReleaseSimulation DEF FreeNetdev, RollbackPcs, RemovePcs
<1>12. CASE Release
  <2> USE DEF ReleaseStep, ThreadStep, ThreadGoto, IInv, HeldByPlace
  <2>1. pc \in {"err_iounmap", "rm_iounmap"} => "mmio" \in held \ Using
    BY <1>9
  <2>2. pc \in {"err_release_region", "rm_region"} => "region" \in held \ Using
    BY <1>10
  <2>3. pc \in {"err_disable_pci", "rm_pci"} => "pci" \in held \ Using
    BY <1>10
  <2>4. /\ pc \in RollbackPcs \cup RemovePcs
        /\ pc' \in RollbackPcs \cup RemovePcs \cup {"returned"}
        /\ \E r \in held \ Using : held' = held \ {r}
    BY <1>12, <2>1, <2>2, <2>3 DEF Release, RollbackPcs, RemovePcs
  <2>5. phase = "releasing" /\ phase' = "releasing"
    BY <2>4 DEF phase, RollbackPcs, RemovePcs, ProbePcs
  <2> QED
    BY <1>1, <2>4, <2>5 DEF Binding!Next, Binding!Release
<1>13. CASE Return
  <2>1. held = {} /\ held' = held
    BY <1>13 DEF Return, ThreadStep, ThreadGoto, IInv, TypeOK, HeldByPlace, Resources
  <2>2. phase = "releasing" /\ phase' = "unbound"
    BY <1>13 DEF Return, ThreadStep, ThreadGoto, phase, ProbePcs
  <2> QED
    BY <1>1, <2>1, <2>2 DEF Binding!Next, Binding!Unbind
<1>14. ASSUME UNCHANGED <<pc, held>>
       PROVE  Binding!Next
  <2>1. phase' = phase /\ held' = held
    BY <1>14 DEF phase
  <2> QED
    BY <1>1, <2>1 DEF Binding!Next, Binding!Use
<1>15. CASE OpenBegin \/ StopBegin \/ mynic_open \/ mynic_stop
  <2>1. UNCHANGED <<pc, held>>
    BY <1>15 DEF OpenBegin, StopBegin, mynic_open, mynic_stop, OpenNapi, OpenHw,
                 StopHw, StopNapi, StopWait, OpStep
  <2> QED
    BY <1>14, <2>1
<1>16. CASE Arrive \/ Interrupt \/ mynic_interrupt \/ mynic_poll
  <2>1. UNCHANGED <<pc, held>>
    BY <1>16 DEF Arrive, Interrupt, mynic_interrupt, IsrAck, IsrSchedule, mynic_poll,
                 PollBegin, PollReceive, PollLoopEnd, PollComplete, PollReenable
  <2> QED
    BY <1>14, <2>1
<1>17. CASE UNCHANGED vars
  BY <1>14, <1>17 DEF vars
<1> QED
  BY <1>2, <1>3, <1>4, <1>5, <1>6, <1>7, <1>8, <1>11, <1>12, <1>13, <1>15, <1>16, <1>17
     DEF Next, Thread

\* mynic_probe with its rollback, mynic_remove, the handler, the polls and the
\* interface operations implement PciBinding: neither the net_device nor the
\* register mapping goes away under whoever can still reach it.
THEOREM Refinement == Spec => BindingSpec
<1>1. Init => Binding!Init
  <2> SUFFICES ASSUME Init
               PROVE  Binding!Init
    OBVIOUS
  <2>1. Using = {} /\ phase = "unbound"
    BY DEF Init, Using, phase, ProbePcs
  <2> QED
    BY <2>1 DEF Init, Binding!Init
<1>2. IInv /\ IInv' /\ [Next]_vars => [Binding!Next]_(Binding!vars)
  BY StepSimulation
<1> QED
  BY <1>1, <1>2, Invariance, PTL DEF Spec, BindingSpec, Binding!Spec

=============================================================================
