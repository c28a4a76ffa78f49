-------------------------------- MODULE MyPmd --------------------------------
(***************************************************************************)
(* The poll-mode driver my_pmd (network/dpdk/pmd.c): its port, and one     *)
(* receive and one transmit queue of it, which share nothing with the      *)
(* other queues.  The application sets the queues up, starts and stops the *)
(* port and removes it; two lcores poll, one on each queue, as DPDK        *)
(* requires.  One step is one iteration of a burst's loop.                 *)
(*                                                                         *)
(* The conditions on the hardware ring are comments in the code.  The      *)
(* device is modelled from them: it works through the descriptors of each  *)
(* ring in their order and wraps where the driver does.                    *)
(***************************************************************************)
EXTENDS Integers, Sequences

CONSTANTS
  MY_PMD_NB_DESC,
  Sizes,       \* numbers of descriptors the application may ask for
  MaxPackets,  \* bound on the packets through a queue between two set-ups
  MaxBurst,    \* bound on nb_pkts
  MayFail      \* the calls that may fail in this instance

ASSUME ConstantsAssumption ==
  /\ MY_PMD_NB_DESC \in Nat \ {0} /\ Sizes \subseteq Nat \ {0}
  /\ MaxPackets \in Nat /\ MaxBurst \in Nat
  /\ MayFail \subseteq {"map", "ethdev", "mac", "ring"}

Queues == {"rx", "tx"}

VARIABLES
  pc,       \* place in my_pmd_pci_probe, or the state of the port
  link_up,
  link,     \* the status my_pmd_link_update has reported
  ready,    \* the queues that were set up
  size,     \* the entries rx_ring and tx_ring were allocated with
  index,    \* rx_head and tx_tail
  left,     \* nb_pkts less what the burst on each queue has handled
  done,     \* descriptors of each ring the driver has handled since its set-up
  device,   \* descriptors the device has handled
  ring,     \* the packet each entry of tx_ring points to
  wire,     \* the packets the device has sent
  wild      \* the queues on which memory outside the ring was accessed

vars == <<pc, link_up, link, ready, size, index, left, done, device, ring, wire, wild>>

queues == <<ready, size, index, left, done, device, ring, wire, wild>>

Entries == 0 .. MY_PMD_NB_DESC - 1
Zero    == [q \in Queues |-> 0]

Init ==
  /\ pc = "unbound" /\ link_up = 0 /\ link = "ETH_LINK_DOWN"
  /\ ready = {} /\ size = Zero /\ index = Zero /\ left = Zero
  /\ done = Zero /\ device = Zero
  /\ ring = [e \in Entries |-> 0] /\ wire = <<>> /\ wild = {}

-----------------------------------------------------------------------------
(* my_pmd_pci_probe, my_pmd_pci_remove and the port                        *)

Step(from, to) == pc = from /\ pc' = to

BeginProbe == Step("unbound", "map") /\ UNCHANGED <<link_up, link, queues>>

\* rte_pci_map_resource; what it maps is not undone here
\* (RTE_PCI_DRV_NEED_MAPPING leaves that to the bus).
MapResource ==
  /\ Step("map", "ethdev") \/ ("map" \in MayFail /\ Step("map", "unbound"))
  /\ UNCHANGED <<link_up, link, queues>>

\* rte_eth_dev_allocate: the private data is zeroed.
Allocate ==
  /\ \/ /\ Step("ethdev", "mac") /\ link_up' = 0 /\ link' = "ETH_LINK_DOWN"
        /\ ready' = {} /\ size' = Zero /\ index' = Zero
        /\ UNCHANGED <<left, done, device, ring, wire, wild>>
     \/ /\ "ethdev" \in MayFail /\ Step("ethdev", "unbound")
        /\ UNCHANGED <<link_up, link, queues>>

\* rte_zmalloc for the address, whose failure memcpy does not survive.
MacAddress ==
  /\ Step("mac", "stopped") \/ ("mac" \in MayFail /\ Step("mac", "crashed"))
  /\ UNCHANGED <<link_up, link, queues>>

Idle == \A q \in Queues : left[q] = 0

my_pmd_start ==
  /\ Step("stopped", "started") /\ link_up' = 1 /\ UNCHANGED <<link, queues>>

\* The application takes its lcores off the queues first.
my_pmd_stop ==
  /\ Step("started", "stopped") /\ Idle /\ link_up' = 0 /\ UNCHANGED <<link, queues>>

my_pmd_link_update ==
  /\ pc \in {"stopped", "started"}
  /\ link' = IF link_up = 1 THEN "ETH_LINK_UP" ELSE "ETH_LINK_DOWN"
  /\ UNCHANGED <<pc, link_up, queues>>

\* rte_eth_dev_release_port, whether or not the port was stopped.
my_pmd_pci_remove ==
  /\ Step("stopped", "unbound") \/ (Idle /\ Step("started", "unbound"))
  /\ UNCHANGED <<link_up, link, queues>>

-----------------------------------------------------------------------------
(* my_pmd_rx_queue_setup and my_pmd_tx_queue_setup                         *)

QueueSetupFrom(q, first) ==
  /\ pc = "stopped"
  /\ \E n \in Sizes \cup (IF "ring" \in MayFail THEN {0} ELSE {}) :
       size' = [size EXCEPT ![q] = n]
  /\ index' = [index EXCEPT ![q] = first]
  /\ ready' = ready \cup {q}
  /\ done' = [done EXCEPT ![q] = 0] /\ device' = [device EXCEPT ![q] = 0]
  /\ IF q = "tx" THEN ring' = [e \in Entries |-> 0] /\ wire' = <<>>
                 ELSE UNCHANGED <<ring, wire>>
  /\ UNCHANGED <<pc, link_up, link, left, wild>>

\* Faulty variant: the indices of an earlier set-up are kept.
QueueSetupKeepsIndex(q) == QueueSetupFrom(q, index[q])

\* The port is stopped.  A ring that could not be allocated, here one of size
\* 0, is reported as success; the hardware set-up, not shown, starts over.  The
\* ring of an earlier set-up is not freed: its memory is lost.
QueueSetup(q) == QueueSetupFrom(q, 0)

-----------------------------------------------------------------------------
(* my_pmd_rx_burst and my_pmd_tx_burst                                     *)

\* The part of each ring the driver can work on: filled by the device, or free.
Available(q) ==
  IF q = "rx" THEN device["rx"] - done["rx"]
              ELSE MY_PMD_NB_DESC - (done["tx"] - device["tx"])

BurstBegin(q, nb_pkts) ==
  /\ pc = "started" /\ q \in ready /\ left[q] = 0
  /\ left' = [left EXCEPT ![q] = nb_pkts]
  /\ UNCHANGED <<pc, link_up, link, ready, size, index, done, device, ring, wire, wild>>

BurstStep(q, wrap) ==
  /\ pc = "started" /\ left[q] > 0 /\ Available(q) > 0 /\ done[q] < MaxPackets
  /\ index' = [index EXCEPT ![q] = (@ + 1) % wrap]
  /\ left' = [left EXCEPT ![q] = @ - 1] /\ done' = [done EXCEPT ![q] = @ + 1]
  /\ IF index[q] < size[q] THEN UNCHANGED <<pc, wild>>
                           ELSE pc' = "crashed" /\ wild' = {q}
  /\ ring' = IF q = "tx" THEN [e \in Entries |-> IF e = index[q] THEN done'[q] ELSE ring[e]]
                         ELSE ring
  /\ UNCHANGED <<link_up, link, ready, size, device, wire>>

\* Faulty variant: the indices wrap one entry late.
BurstLoopLate(q) == BurstStep(q, MY_PMD_NB_DESC + 1)

\* One iteration: the entry at the index is read or written, and the index
\* advances.  Nothing is explored after an access outside the ring.
BurstLoop(q) == BurstStep(q, MY_PMD_NB_DESC)

\* The hardware ring is empty, or full.
BurstReturn(q) ==
  /\ pc = "started" /\ left[q] > 0 /\ (Available(q) = 0 \/ done[q] = MaxPackets)
  /\ left' = [left EXCEPT ![q] = 0]
  /\ UNCHANGED <<pc, link_up, link, ready, size, index, done, device, ring, wire, wild>>

my_pmd_burst(q) == BurstLoop(q) \/ BurstReturn(q)

-----------------------------------------------------------------------------
(* The device, while the port is started                                   *)

DeviceReceive ==
  /\ pc = "started" /\ "rx" \in ready
  /\ Available("rx") < MY_PMD_NB_DESC /\ device["rx"] < MaxPackets
  /\ device' = [device EXCEPT !["rx"] = @ + 1]
  /\ UNCHANGED <<pc, link_up, link, ready, size, index, left, done, ring, wire, wild>>

DeviceSend ==
  /\ pc = "started" /\ device["tx"] < done["tx"]
  /\ wire' = Append(wire, ring[device["tx"] % MY_PMD_NB_DESC])
  /\ device' = [device EXCEPT !["tx"] = @ + 1]
  /\ UNCHANGED <<pc, link_up, link, ready, size, index, left, done, ring, wild>>

-----------------------------------------------------------------------------

Next ==
  \/ BeginProbe \/ MapResource \/ Allocate \/ MacAddress
  \/ my_pmd_start \/ my_pmd_stop \/ my_pmd_link_update \/ my_pmd_pci_remove
  \/ \E q \in Queues : QueueSetup(q) \/ my_pmd_burst(q)
  \/ \E q \in Queues, n \in 1 .. MaxBurst : BurstBegin(q, n)
  \/ DeviceReceive \/ DeviceSend

Spec == Init /\ [][Next]_vars

-----------------------------------------------------------------------------
(* Properties                                                              *)

\* The indices wrap at MY_PMD_NB_DESC and not at the length the application asked
\* for.  A burst leaves its ring exactly at the packet that follows the last
\* entry of a ring shorter than that, at the first if the ring could not be
\* allocated, and never on a longer one, however its set-ups, stops and packets
\* have gone before.
OverrunsShortRings ==
  \A q \in ready : q \in wild <=> size[q] < MY_PMD_NB_DESC /\ done[q] > size[q]

\* Driver and device stay in step across wraps, full and empty rings, stops,
\* new set-ups and removes: the device sends the packets of the bursts in their
\* order, each once, no packet in the ring is overwritten before it was sent,
\* and a receive burst looks at the oldest descriptor the device has filled.
RingsInStep ==
  /\ wire = [n \in 1 .. device["tx"] |-> n]
  /\ \A n \in device["tx"] + 1 .. done["tx"] : ring[(n - 1) % MY_PMD_NB_DESC] = n
  /\ \A q \in ready : index[q] = done[q] % MY_PMD_NB_DESC

=============================================================================
