-------------------------------- MODULE Mynic --------------------------------
(***************************************************************************)
(* The mynic driver (network/nic.c) without its transmit ring, which is    *)
(* MynicTx: probe and remove, bringing the interface up and down, the      *)
(* receive half of the interrupt handler and the NAPI poll.                *)
(*                                                                         *)
(* Four parties take steps: the thread that probes and removes, whoever    *)
(* holds the RTNL lock to open or stop the interface, the interrupt        *)
(* handler, and the softirq that polls.  NAPI itself is the kernel's: its  *)
(* state bits are modelled from the calls the driver makes.                *)
(***************************************************************************)
EXTENDS Integers

CONSTANTS
  Budget,       \* packets one poll may take
  RingSize,     \* packets the device can hold
  MaxArrivals,  \* bound on the packets that arrive in a behaviour
  Cpus,         \* number of CPUs, each of which may be leaving a poll
  MayFail       \* the kernel calls that may fail in this instance

Resources == {"pci", "region", "mmio", "netdev", "registered", "irq"}

ASSUME ConstantsAssumption ==
  /\ Budget \in Nat \ {0} /\ RingSize \in Nat /\ MaxArrivals \in Nat
  /\ Cpus \in Nat \ {0}
  /\ MayFail \subseteq Resources \cup {"skb"}

VARIABLES
  pc,       \* the thread that probes and removes
  held,     \* resources acquired and not yet given back
  op,       \* place of the holder of the RTNL lock in open or stop
  up,       \* the interface is up
  control,  \* CONTROL_REG
  intr,     \* the RX_INTR bit of INTR_STATUS_REG is set
  pending,  \* packets in the device
  arrivals, \* packets that have arrived
  isr,      \* place in mynic_interrupt
  napi,     \* the state bits of priv->napi
  poll,     \* place in mynic_poll
  rx_done,  \* its local variable
  late,     \* polls that have completed NAPI and have yet to write CONTROL_REG
  leftOn,   \* CONTROL_REG was not zero when the last probe began
  fresh     \* packets that arrived since open wait, and were not given up

vars == <<pc, held, op, up, control, intr, pending, arrivals, isr, napi, poll,
          rx_done, late, leftOn, fresh>>

device    == <<intr, pending, arrivals, fresh>>
softirq   == <<poll, rx_done, late>>
interface == <<op, up>>

ProbePcs    == {"pci", "region", "mmio", "netdev", "registered", "irq", "napi_add"}
RollbackPcs == {"err_unregister_netdev", "err_unregistering", "err_free_netdev",
                "err_iounmap", "err_release_region", "err_disable_pci"}
RemovePcs   == {"rm_irq", "rm_unregister_netdev", "rm_unregistering", "rm_napi_del",
                "rm_iounmap", "rm_free_netdev", "rm_region", "rm_pci"}

TypeOK ==
  /\ pc \in ProbePcs \cup RollbackPcs \cup RemovePcs
               \cup {"unbound", "bound", "returned"}
  /\ held \in SUBSET Resources
  /\ op \in {"none", "open_napi", "open_hw", "stop_hw", "stop_napi", "stop_wait", "oops"}
  /\ up \in BOOLEAN /\ intr \in BOOLEAN /\ leftOn \in BOOLEAN /\ fresh \in BOOLEAN
  /\ control \in {"0", "ENABLE_IRQ|ENABLE_RX", "ENABLE_RX_IRQ"}
  /\ pending \in 0 .. RingSize /\ arrivals \in 0 .. MaxArrivals
  /\ isr \in {"idle", "read", "schedule"}
  /\ napi \in SUBSET {"ADDED", "SCHED", "MISSED", "DISABLE"}
  /\ poll \in {"idle", "queued", "loop", "complete", "oops"}
  /\ rx_done \in 0 .. Budget
  /\ late \in 0 .. Cpus

Init ==
  /\ pc = "unbound" /\ held = {} /\ op = "none" /\ up = FALSE
  /\ control = "0" /\ intr = FALSE /\ pending = 0 /\ arrivals = 0
  /\ isr = "idle" /\ napi = {} /\ poll = "idle" /\ rx_done = 0 /\ late = 0
  /\ leftOn = FALSE /\ fresh = FALSE

-----------------------------------------------------------------------------
(* NAPI, as the driver uses it (kernel).                                   *)

\* napi_schedule: nothing while being disabled; a poll that is due or running
\* is told to look again; otherwise the poll is queued.
napi_schedule ==
  CASE "DISABLE" \in napi -> UNCHANGED <<napi, poll>>
    [] "DISABLE" \notin napi /\ "SCHED" \in napi ->
         napi' = napi \cup {"MISSED"} /\ UNCHANGED poll
    [] OTHER -> napi' = napi \cup {"SCHED"} /\ poll' = "queued"

\* napi_complete_done: hands the poll back, or queues it again when an
\* interrupt was missed meanwhile.
napi_complete_done ==
  IF "MISSED" \in napi
    THEN napi' = napi \ {"MISSED"} /\ poll' = "queued"
    ELSE napi' = napi \ {"SCHED"} /\ poll' = "idle"

\* Calling the poll function of a context that has none panics the kernel:
\* nothing runs any more.
Running == poll # "oops"

-----------------------------------------------------------------------------
(* mynic_probe                                                             *)

ThreadGoto(from, to) ==
  /\ Running /\ pc = from /\ pc' = to
  /\ UNCHANGED <<control, isr>> /\ UNCHANGED device /\ UNCHANGED softirq

ThreadStep(from, to) == ThreadGoto(from, to) /\ UNCHANGED leftOn

BeginProbe ==
  /\ ThreadGoto("unbound", "pci") /\ leftOn' = (control # "0")
  /\ UNCHANGED <<held, napi>> /\ UNCHANGED interface

AcquireStep(resource, next, failure) ==
  /\ \/ ThreadStep(resource, next) /\ held' = held \cup {resource}
     \/ resource \in MayFail /\ ThreadStep(resource, failure) /\ held' = held
  /\ UNCHANGED napi /\ UNCHANGED interface

\* register_netdev makes the interface visible, so that it can be opened,
\* before the interrupt is requested and the NAPI context is added.
Acquire ==
  \/ AcquireStep("pci", "region", "unbound")
  \/ AcquireStep("region", "mmio", "err_disable_pci")
  \/ AcquireStep("mmio", "netdev", "err_release_region")
  \/ AcquireStep("netdev", "registered", "err_iounmap")
  \/ AcquireStep("registered", "irq", "err_free_netdev")
  \/ AcquireStep("irq", "napi_add", "err_unregister_netdev")

\* netif_napi_add: the context starts disabled, which its SCHED bit says.
NapiAdd ==
  /\ ThreadStep("napi_add", "bound")
  /\ napi' = napi \cup {"ADDED", "SCHED"}
  /\ UNCHANGED held /\ UNCHANGED interface

-----------------------------------------------------------------------------
(* Rollback and mynic_remove                                               *)

ReleaseStep(from, resource, to) ==
  /\ ThreadStep(from, to)
  /\ held' = held \ {resource}
  /\ UNCHANGED interface

BeginRemove ==
  /\ ThreadStep("bound", "rm_irq")
  /\ UNCHANGED <<held, napi>> /\ UNCHANGED interface

\* Faulty variant: remove forgets free_irq.
RemoveIrqForgotten ==
  /\ ThreadStep("rm_irq", "rm_unregister_netdev")
  /\ UNCHANGED <<held, napi>> /\ UNCHANGED interface

\* free_irq waits for a running handler.
RemoveIrq ==
  /\ isr = "idle" /\ ReleaseStep("rm_irq", "irq", "rm_unregister_netdev")
  /\ UNCHANGED napi

\* unregister_netdev takes the RTNL lock and stops the interface if it is up.
UnregisterBegin(from, to) ==
  /\ Running /\ pc = from /\ pc' = to
  /\ op = "none" /\ op' = IF up THEN "stop_hw" ELSE "none"
  /\ fresh' = FALSE
  /\ UNCHANGED <<leftOn, held, up, control, intr, pending, arrivals, isr, napi>>
  /\ UNCHANGED softirq

\* It then waits (synchronize_net) until no softirq is inside the driver.
UnregisterEnd(from, to) ==
  /\ op = "none" /\ poll = "idle" /\ late = 0
  /\ ReleaseStep(from, "registered", to)
  /\ UNCHANGED napi

RtnlTaken == op # "none" \/ pc \in {"err_unregistering", "rm_unregistering"}

\* netif_napi_del, in remove and, for a context that is left, in free_netdev.
NapiDel ==
  /\ ThreadStep("rm_napi_del", "rm_iounmap")
  /\ napi' = {}
  /\ UNCHANGED held /\ UNCHANGED interface

FreeNetdev ==
  /\ \/ ReleaseStep("err_free_netdev", "netdev", "err_iounmap")
     \/ ReleaseStep("rm_free_netdev", "netdev", "rm_region")
  /\ napi' = {}

Release ==
  /\ \/ ReleaseStep("err_iounmap", "mmio", "err_release_region")
     \/ ReleaseStep("err_release_region", "region", "err_disable_pci")
     \/ ReleaseStep("err_disable_pci", "pci", "returned")
     \/ ReleaseStep("rm_iounmap", "mmio", "rm_free_netdev")
     \/ ReleaseStep("rm_region", "region", "rm_pci")
     \/ ReleaseStep("rm_pci", "pci", "returned")
  /\ UNCHANGED napi

\* The failed probe, or remove, returns to the driver core.
Return ==
  /\ ThreadStep("returned", "unbound")
  /\ UNCHANGED <<held, napi>> /\ UNCHANGED interface

Unregister ==
  \/ UnregisterBegin("err_unregister_netdev", "err_unregistering")
  \/ UnregisterEnd("err_unregistering", "err_free_netdev")
  \/ UnregisterBegin("rm_unregister_netdev", "rm_unregistering")
  \/ UnregisterEnd("rm_unregistering", "rm_napi_del")

Thread ==
  \/ Acquire \/ NapiAdd
  \/ RemoveIrq \/ Unregister \/ NapiDel \/ FreeNetdev \/ Release \/ Return

-----------------------------------------------------------------------------
(* mynic_open and mynic_stop, under the RTNL lock                          *)

OpStep(from, to) ==
  /\ Running /\ op = from /\ op' = to
  /\ UNCHANGED <<pc, leftOn, held, isr, intr, pending, arrivals>> /\ UNCHANGED softirq

OpenBegin ==
  /\ "registered" \in held /\ ~up /\ ~RtnlTaken
  /\ OpStep("none", "open_napi")
  /\ UNCHANGED <<up, control, napi, fresh>>

\* napi_enable, which is a BUG on a context that is not disabled; the opener
\* then dies with the RTNL lock held.  Then netif_start_queue.
OpenNapi ==
  /\ IF "SCHED" \in napi
       THEN OpStep("open_napi", "open_hw") /\ napi' = napi \ {"SCHED"}
       ELSE OpStep("open_napi", "oops") /\ UNCHANGED napi
  /\ UNCHANGED <<up, control, fresh>>

OpenHw ==
  /\ OpStep("open_hw", "none")
  /\ control' = "ENABLE_IRQ|ENABLE_RX" /\ up' = TRUE
  /\ UNCHANGED <<napi, fresh>>

StopBegin ==
  /\ up /\ ~RtnlTaken
  /\ OpStep("none", "stop_hw")
  /\ fresh' = FALSE
  /\ UNCHANGED <<up, control, napi>>

StopHw ==
  /\ OpStep("stop_hw", "stop_napi")
  /\ control' = "0"
  /\ UNCHANGED <<up, napi, fresh>>

\* Faulty variant: stop does not disable NAPI.
StopNapiForgotten ==
  /\ OpStep("stop_napi", "none")
  /\ up' = FALSE /\ UNCHANGED <<napi, control, fresh>>

\* netif_stop_queue, and napi_disable: no more polls, and wait for the one that
\* is due or running to hand itself back.
StopNapi ==
  /\ OpStep("stop_napi", "stop_wait")
  /\ napi' = napi \cup {"DISABLE"}
  /\ UNCHANGED <<up, control, fresh>>

StopWait ==
  /\ "SCHED" \notin napi
  /\ OpStep("stop_wait", "none")
  /\ napi' = (napi \cup {"SCHED"}) \ {"DISABLE"} /\ up' = FALSE
  /\ UNCHANGED <<control, fresh>>

mynic_open == OpenNapi \/ OpenHw
mynic_stop == StopHw \/ StopNapi \/ StopWait

-----------------------------------------------------------------------------
(* The device receives while its control register is not zero.             *)

Arrive ==
  /\ Running /\ control # "0" /\ pending < RingSize /\ arrivals < MaxArrivals
  /\ pending' = pending + 1 /\ arrivals' = arrivals + 1 /\ intr' = TRUE
  /\ fresh' = (fresh \/ (up /\ op = "none"))
  /\ UNCHANGED <<pc, leftOn, held, control, isr, napi>>
  /\ UNCHANGED interface /\ UNCHANGED softirq

-----------------------------------------------------------------------------
(* mynic_interrupt                                                         *)

Interrupt ==
  /\ Running /\ isr = "idle" /\ "irq" \in held /\ intr /\ control # "0"
  /\ isr' = "read"
  /\ UNCHANGED <<pc, leftOn, held, control, napi>> /\ UNCHANGED interface
  /\ UNCHANGED device /\ UNCHANGED softirq

\* RX_INTR was set when the handler was called, and is acknowledged.
IsrAck ==
  /\ Running /\ isr = "read" /\ isr' = "schedule"
  /\ intr' = FALSE
  /\ UNCHANGED <<pc, leftOn, held, control, pending, arrivals, fresh, napi>>
  /\ UNCHANGED interface /\ UNCHANGED softirq

IsrSchedule ==
  /\ Running /\ isr = "schedule" /\ isr' = "idle"
  /\ napi_schedule
  /\ UNCHANGED <<pc, leftOn, held, control, rx_done, late>>
  /\ UNCHANGED interface /\ UNCHANGED device

mynic_interrupt == IsrAck \/ IsrSchedule

-----------------------------------------------------------------------------
(* mynic_poll, called by the softirq for a queued context                  *)

\* Faulty variant: rx_done is not reset.
PollBeginKeepsCount ==
  /\ poll = "queued" /\ late < Cpus
  /\ poll' = IF "ADDED" \in napi THEN "loop" ELSE "oops"
  /\ UNCHANGED <<pc, leftOn, held, control, isr, napi, rx_done, late>>
  /\ UNCHANGED interface /\ UNCHANGED device

\* A context that was never added has no poll function to call.
PollBegin ==
  /\ poll = "queued" /\ late < Cpus
  /\ poll' = IF "ADDED" \in napi THEN "loop" ELSE "oops"
  /\ rx_done' = 0
  /\ UNCHANGED <<pc, leftOn, held, control, isr, napi, late>>
  /\ UNCHANGED interface /\ UNCHANGED device

\* Faulty variant: one packet more than the budget.
PollReceiveOverBudget ==
  /\ poll = "loop" /\ rx_done <= Budget /\ pending > 0
  /\ pending' = pending - 1 /\ rx_done' = rx_done + 1
  /\ fresh' = (fresh /\ pending' > 0)
  /\ UNCHANGED <<pc, leftOn, held, control, intr, arrivals, isr, napi, poll, late>>
  /\ UNCHANGED interface

\* One packet: a new skb, the copy, netif_receive_skb.
PollReceive ==
  /\ poll = "loop" /\ rx_done < Budget /\ pending > 0
  /\ pending' = pending - 1 /\ rx_done' = rx_done + 1
  /\ fresh' = (fresh /\ pending' > 0)
  /\ UNCHANGED <<pc, leftOn, held, control, intr, arrivals, isr, napi, poll, late>>
  /\ UNCHANGED interface

\* Faulty variant: NAPI is completed also when the budget was spent.
PollLoopEndAlwaysCompletes ==
  /\ poll = "loop" /\ (rx_done = Budget \/ pending = 0)
  /\ poll' = "complete"
  /\ UNCHANGED <<pc, leftOn, held, control, isr, napi, rx_done, late>>
  /\ UNCHANGED interface /\ UNCHANGED device

\* The loop ends: no packet, the budget, or no memory for the skb.  With the
\* budget spent the softirq polls again, unless the context is being disabled,
\* in which case the softirq completes it.  Without memory the poll gives up
\* on the packets that wait: no interrupt is due for them any more.
PollLoopEnd ==
  /\ poll = "loop"
  /\ \/ (rx_done = Budget \/ pending = 0) /\ UNCHANGED fresh
     \/ "skb" \in MayFail /\ rx_done < Budget /\ pending > 0 /\ fresh' = FALSE
  /\ IF rx_done < Budget
       THEN poll' = "complete" /\ UNCHANGED napi
       ELSE IF "DISABLE" \in napi
              THEN napi_complete_done
              ELSE poll' = "queued" /\ UNCHANGED napi
  /\ UNCHANGED <<pc, leftOn, held, control, isr, rx_done, late, intr, pending, arrivals>>
  /\ UNCHANGED interface

PollComplete ==
  /\ poll = "complete"
  /\ napi_complete_done
  /\ late' = late + 1
  /\ UNCHANGED <<pc, leftOn, held, control, isr, rx_done>>
  /\ UNCHANGED interface /\ UNCHANGED device

PollReenable ==
  /\ Running /\ late > 0 /\ late' = late - 1
  /\ control' = "ENABLE_RX_IRQ"
  /\ UNCHANGED <<pc, leftOn, held, isr, napi, poll, rx_done>>
  /\ UNCHANGED interface /\ UNCHANGED device

mynic_poll == PollBegin \/ PollReceive \/ PollLoopEnd \/ PollComplete \/ PollReenable

-----------------------------------------------------------------------------

Next ==
  \/ BeginProbe \/ BeginRemove \/ Thread
  \/ OpenBegin \/ StopBegin \/ mynic_open \/ mynic_stop
  \/ Arrive
  \/ Interrupt \/ mynic_interrupt
  \/ mynic_poll

Spec == Init /\ [][Next]_vars

\* A raised interrupt is delivered; a handler, a poll, probe and remove and a
\* call under the RTNL lock run to their end; the RTNL lock reaches everyone who
\* waits for it.  Nothing obliges anyone to probe, remove, open, stop or send.
Fairness ==
  /\ WF_vars(Interrupt) /\ WF_vars(mynic_interrupt)
  /\ WF_vars(mynic_poll) /\ WF_vars(PollReenable)
  /\ WF_vars(mynic_open \/ mynic_stop)
  /\ WF_vars(Thread) /\ SF_vars(Unregister)

FairSpec == Spec /\ Fairness

-----------------------------------------------------------------------------
(* Properties                                                              *)

\* What the handler, the poll and the interface operations may touch.
Using ==
  (IF isr # "idle" THEN {"irq"} ELSE {})
    \cup (IF op # "none" \/ up THEN {"registered"} ELSE {})
    \cup (IF held \cap {"irq", "registered"} # {} \/ poll # "idle" \/ late > 0
            THEN {"mmio", "netdev"} ELSE {})

phase ==
  CASE pc = "unbound"  -> "unbound"
    [] pc \in ProbePcs -> "probing"
    [] pc = "bound"    -> "bound"
    [] OTHER           -> "releasing"

\* The driver keeps the promise of PciBinding: neither the net_device nor the
\* register mapping goes away while the handler, a poll (also one that has
\* completed NAPI and has yet to write CONTROL_REG) or an interface operation
\* can still reach them.
Binding == INSTANCE PciBinding WITH using <- Using, Managed <- {}
BindingSpec == Binding!Spec

\* No lost wakeup: while packets that arrived on the running interface wait,
\* their interrupt is raised, its handler runs, or the poll is due or running,
\* or will be queued again because an interrupt was missed.
WaitingHasWakeup ==
  fresh => intr \/ isr # "idle" \/ poll # "idle"

\* Packets that arrive on a running interface are received, unless the
\* interface is stopped, a poll finds no memory, or the kernel has panicked.
WaitingServed == fresh ~> (~fresh \/ ~Running)

\* However often the interface is opened and stopped and the driver bound and
\* removed, opening it never meets the BUG in napi_enable once netif_napi_add
\* has run, and the softirq never misses the poll function, unless the device
\* was still enabled when this probe began: a poll that completes during
\* mynic_stop switches it on (line 280) after line 177 has switched it off.
OopsOnlyEarly ==
  [][/\ op' = "oops" /\ op # "oops" => "ADDED" \notin napi \/ leftOn
     /\ poll' = "oops" => pc = "napi_add" /\ leftOn]_vars

=============================================================================
