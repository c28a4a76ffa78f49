------------------------------ MODULE MynicTx -------------------------------
(***************************************************************************)
(* The transmit side of the mynic driver (network/nic.c): mynic_start_xmit *)
(* fills the TX ring under priv->lock, the transmit half of                *)
(* mynic_interrupt reclaims it under the same lock.                        *)
(*                                                                         *)
(* The network core runs one mynic_start_xmit at a time on the single      *)
(* queue, and the kernel one mynic_interrupt at a time, but the interrupt  *)
(* can arrive on the CPU that transmits: spin_lock leaves interrupts on.   *)
(* That CPU then does nothing else until the handler returns.              *)
(*                                                                         *)
(* The model starts where probe ended.  Opening and stopping the interface *)
(* and removing the driver leave the ring as it is.                        *)
(***************************************************************************)
EXTENDS Integers, Sequences, FiniteSets

CONSTANTS
  MYNIC_TX_RING_SIZE,
  Skbs,       \* the packets of the network stack
  NULL,
  XmitCpus,   \* CPUs that transmit
  IrqCpus     \* CPUs the interrupt is routed to

ASSUME ConstantsAssumption ==
  /\ MYNIC_TX_RING_SIZE \in Nat \ {0}
  /\ NULL \notin Skbs

VARIABLES
  tx_skbuff,  \* priv->tx_skbuff
  tx_head,    \* priv->tx_head
  tx_tail,    \* priv->tx_tail
  lock,       \* who holds priv->lock
  xmit,       \* place in mynic_start_xmit
  xmitCpu,    \* the CPU it runs on
  skb,        \* its argument
  isr,        \* place in mynic_interrupt
  isrCpu,     \* the CPU it runs on
  toSend,     \* packets the device has been given and has not sent
  sent,       \* packets the device has sent and the driver has not reclaimed
  status,     \* the TX_INTR bit of INTR_STATUS_REG
  owned,      \* packets the driver has accepted and not freed
  lost,       \* those of them whose slot was given to another packet
  state,      \* of the interface: "down", "up", or "gone" once unregistered
  irq         \* the interrupt is still requested

vars == <<tx_skbuff, tx_head, tx_tail, lock, xmit, xmitCpu, skb, isr, isrCpu,
          toSend, sent, status, owned, lost, state, irq>>

ring   == <<tx_skbuff, tx_head, tx_tail, lost>>
device == <<toSend, sent, status>>
netif  == <<state, irq>>

Slots == 0 .. MYNIC_TX_RING_SIZE - 1

TypeOK ==
  /\ tx_skbuff \in [Slots -> Skbs \cup {NULL}]
  /\ tx_head \in Slots /\ tx_tail \in Slots
  /\ lock \in {"free", "xmit", "isr"}
  /\ xmit \in {"idle", "lock", "fill", "unlock"}
  /\ xmitCpu \in XmitCpus /\ skb \in Skbs
  /\ isr \in {"idle", "status", "lock", "reclaim"}
  /\ isrCpu \in IrqCpus
  /\ toSend \in Seq(Skbs)
  /\ sent \in Nat
  /\ status \in BOOLEAN
  /\ owned \in SUBSET Skbs /\ lost \in SUBSET Skbs
  /\ state \in {"down", "up", "gone"} /\ irq \in BOOLEAN

Init ==
  /\ tx_skbuff = [i \in Slots |-> NULL]   \* alloc_etherdev zeroes the private data
  /\ tx_head = 0 /\ tx_tail = 0
  /\ lock = "free"
  /\ xmit = "idle" /\ xmitCpu \in XmitCpus /\ skb \in Skbs
  /\ isr = "idle" /\ isrCpu \in IrqCpus
  /\ toSend = << >> /\ sent = 0 /\ status = FALSE
  /\ owned = {} /\ lost = {}
  /\ state = "down" /\ irq = TRUE

-----------------------------------------------------------------------------
(* The interface.  The network core calls mynic_stop only once it has      *)
(* waited for a running mynic_start_xmit.                                  *)

transfer == <<lock, xmit, xmitCpu, skb, isr, isrCpu, owned>>

mynic_open ==
  /\ state = "down" /\ state' = "up"
  /\ UNCHANGED irq /\ UNCHANGED transfer /\ UNCHANGED ring /\ UNCHANGED device

\* Faulty variant: stopping starts the ring afresh.
StopResetsRing ==
  /\ state = "up" /\ xmit = "idle" /\ state' = "down"
  /\ tx_head' = 0 /\ tx_tail' = 0
  /\ UNCHANGED <<irq, tx_skbuff, lost>> /\ UNCHANGED transfer /\ UNCHANGED device

\* Neither the device nor the ring loses a packet by it.
mynic_stop ==
  /\ state = "up" /\ xmit = "idle" /\ state' = "down"
  /\ UNCHANGED irq /\ UNCHANGED transfer /\ UNCHANGED ring /\ UNCHANGED device

\* free_irq waits for the running handler.
RemoveFreeIrq ==
  /\ irq /\ isr = "idle" /\ irq' = FALSE
  /\ UNCHANGED state /\ UNCHANGED transfer /\ UNCHANGED ring /\ UNCHANGED device

\* unregister_netdev stops the interface; the memory of the ring is given back.
RemoveUnregister ==
  /\ ~irq /\ state # "gone" /\ xmit = "idle" /\ state' = "gone"
  /\ UNCHANGED irq /\ UNCHANGED transfer /\ UNCHANGED ring /\ UNCHANGED device

mynic_remove == RemoveFreeIrq \/ RemoveUnregister

-----------------------------------------------------------------------------
(* mynic_start_xmit                                                        *)

\* The handler has taken the CPU from the transmit path.
Interrupted(cpu) == isr # "idle" /\ isrCpu = cpu

\* The stack hands over a packet; nothing ever stops the queue, so there may be
\* more of them than slots.  The packet is mapped for DMA before the lock is taken.
XmitBegin(cpu, s) ==
  /\ state = "up" /\ xmit = "idle" /\ s \notin owned /\ ~Interrupted(cpu)
  /\ xmit' = "lock" /\ xmitCpu' = cpu /\ skb' = s
  /\ owned' = owned \cup {s}
  /\ UNCHANGED <<lock, isr, isrCpu>>
  /\ UNCHANGED ring /\ UNCHANGED device /\ UNCHANGED netif

XmitStep(from, to) ==
  /\ xmit = from /\ ~Interrupted(xmitCpu) /\ xmit' = to
  /\ UNCHANGED <<xmitCpu, skb, isr, isrCpu, owned>> /\ UNCHANGED netif

XmitLock ==
  /\ XmitStep("lock", "fill")
  /\ lock = "free" /\ lock' = "xmit"
  /\ UNCHANGED ring /\ UNCHANGED device

\* Faulty variant: the head does not wrap.
XmitFillNoWrap ==
  /\ XmitStep("fill", "unlock")
  /\ tx_skbuff' = [tx_skbuff EXCEPT ![tx_head] = skb]
  /\ tx_head' = tx_head + 1
  /\ toSend' = Append(toSend, skb)
  /\ UNCHANGED <<tx_tail, lost, lock, sent, status>>

\* The slot, the head, and the write to TX_REG that gives the packet away.  The
\* slot is not looked at: what it still held is never freed.
XmitFill ==
  /\ XmitStep("fill", "unlock")
  /\ tx_skbuff' = [tx_skbuff EXCEPT ![tx_head] = skb]
  /\ lost' = lost \cup ({tx_skbuff[tx_head]} \ {NULL})
  /\ tx_head' = (tx_head + 1) % MYNIC_TX_RING_SIZE
  /\ toSend' = Append(toSend, skb)
  /\ UNCHANGED <<tx_tail, lock, sent, status>>

\* Faulty variant: a return that skips the unlock.
XmitUnlockForgotten ==
  /\ XmitStep("unlock", "idle")
  /\ UNCHANGED lock /\ UNCHANGED ring /\ UNCHANGED device

XmitUnlock ==
  /\ XmitStep("unlock", "idle")
  /\ lock' = "free"
  /\ UNCHANGED ring /\ UNCHANGED device

mynic_start_xmit == XmitLock \/ XmitFill \/ XmitUnlock

-----------------------------------------------------------------------------
(* The device sends in order and raises TX_INTR for each packet.           *)

DeviceSend ==
  /\ toSend # << >> /\ state # "gone"
  /\ toSend' = Tail(toSend) /\ sent' = sent + 1 /\ status' = TRUE
  /\ UNCHANGED transfer /\ UNCHANGED ring /\ UNCHANGED netif

-----------------------------------------------------------------------------
(* mynic_interrupt                                                         *)

\* Stopping disables the interrupt, but a poll that ends late enables it again
\* (module Mynic), so it can come to a stopped interface too.
Interrupt(cpu) ==
  /\ irq /\ isr = "idle" /\ status
  /\ isr' = "status" /\ isrCpu' = cpu
  /\ UNCHANGED <<lock, xmit, xmitCpu, skb, owned>>
  /\ UNCHANGED ring /\ UNCHANGED device /\ UNCHANGED netif

IsrStep(from, to) ==
  /\ isr = from /\ isr' = to
  /\ UNCHANGED <<isrCpu, xmit, xmitCpu, skb, toSend>> /\ UNCHANGED netif

\* The status is read and written back; TX_INTR was set, which is why the
\* handler runs, and is now acknowledged.
IsrStatus ==
  /\ IsrStep("status", "lock")
  /\ status' = FALSE
  /\ UNCHANGED <<lock, sent, owned>> /\ UNCHANGED ring

IsrLock ==
  /\ IsrStep("lock", "reclaim")
  /\ lock = "free" /\ lock' = "isr"
  /\ UNCHANGED <<sent, status, owned>> /\ UNCHANGED ring

\* Faulty variant: every filled slot is taken for sent.
IsrReclaimAll ==
  /\ tx_skbuff[tx_tail] # NULL /\ IsrStep("reclaim", "reclaim")
  /\ owned' = owned \ {tx_skbuff[tx_tail]}
  /\ tx_skbuff' = [tx_skbuff EXCEPT ![tx_tail] = NULL]
  /\ tx_tail' = (tx_tail + 1) % MYNIC_TX_RING_SIZE
  /\ sent' = IF sent > 0 THEN sent - 1 ELSE 0
  /\ UNCHANGED <<tx_head, lost, lock, status>>

\* Faulty variant: the slot keeps its pointer.
IsrReclaimKeepsSlot ==
  /\ sent > 0 /\ IsrStep("reclaim", "reclaim")
  /\ owned' = owned \ {tx_skbuff[tx_tail]}
  /\ tx_tail' = (tx_tail + 1) % MYNIC_TX_RING_SIZE
  /\ sent' = sent - 1
  /\ UNCHANGED <<tx_skbuff, tx_head, lost, lock, status>>

\* One round of the while loop; an empty slot is skipped.
IsrReclaim ==
  /\ sent > 0 /\ IsrStep("reclaim", "reclaim")
  /\ owned' = owned \ {tx_skbuff[tx_tail]}
  /\ tx_skbuff' = [tx_skbuff EXCEPT ![tx_tail] = NULL]
  /\ tx_tail' = (tx_tail + 1) % MYNIC_TX_RING_SIZE
  /\ sent' = sent - 1
  /\ UNCHANGED <<tx_head, lost, lock, status>>

\* Faulty variant: the handler returns after any number of rounds.
IsrReturnEarly ==
  /\ IsrStep("reclaim", "idle")
  /\ lock' = "free"
  /\ UNCHANGED <<sent, status, owned>> /\ UNCHANGED ring

\* spin_unlock and netif_wake_queue, on a queue that was never stopped.
IsrReturn ==
  /\ sent = 0 /\ IsrStep("reclaim", "idle")
  /\ lock' = "free"
  /\ UNCHANGED <<sent, status, owned>> /\ UNCHANGED ring

mynic_interrupt == IsrStatus \/ IsrLock \/ IsrReclaim \/ IsrReturn

-----------------------------------------------------------------------------

Next ==
  \/ mynic_open \/ mynic_stop \/ mynic_remove
  \/ \E cpu \in XmitCpus, s \in Skbs : XmitBegin(cpu, s)
  \/ mynic_start_xmit
  \/ DeviceSend
  \/ \E cpu \in IrqCpus : Interrupt(cpu)
  \/ mynic_interrupt

Spec == Init /\ [][Next]_vars

\* A call of the driver that can take its next step takes it, the device sends
\* what it was given, an interrupt raised on a running interface is delivered,
\* and the kernel's spin locks serve their waiters in turn.
Fairness ==
  /\ WF_vars(mynic_start_xmit) /\ WF_vars(mynic_interrupt)
  /\ SF_vars(XmitLock) /\ SF_vars(IsrLock)
  /\ WF_vars(DeviceSend)
  /\ WF_vars(state = "up" /\ \E cpu \in IrqCpus : Interrupt(cpu))

FairSpec == Spec /\ Fairness

-----------------------------------------------------------------------------
(* Properties                                                              *)

Filled == {i \in Slots : tx_skbuff[i] # NULL}

\* Packets the driver has accepted whose slot it has yet to fill.
BeingAdded == IF xmit \in {"lock", "fill"} THEN {skb} ELSE {}

\* Every accepted packet sits in exactly one slot until it is freed, or was
\* overwritten there and is never freed, and the ring refers to no packet that
\* was freed: full rings, wraps, stops and opens lose packets in no other way.
RingHoldsOwned ==
  /\ {tx_skbuff[i] : i \in Filled} = owned \ (BeingAdded \cup lost)
  /\ \A i, j \in Filled : tx_skbuff[i] = tx_skbuff[j] => i = j

\* Nothing is overwritten while the ring has a free slot: the first packet lost
\* met a ring that was full, where nic.c:209 wants the queue stopped.
FirstLossNeedsFullRing == [][lost = {} /\ lost' # {} => Filled = Slots]_vars

\* Until then the interrupt handler never frees a packet the device has still to
\* send: reclaiming keeps step with the device although each has its own index.
DeviceOwnsToSend == lost = {} => \A k \in 1 .. Len(toSend) : toSend[k] \in owned

\* A sent packet is not forgotten: the interrupt that reclaims it is raised, or
\* its handler is still to look.
SentHasInterrupt == sent > 0 => status \/ isr # "idle"

\* The handler waits for a lock that the path it interrupted holds.
SelfDeadlock ==
  xmit # "idle" /\ lock = "xmit" /\ isr = "lock" /\ isrCpu = xmitCpu

\* On an interface that is up for good in the end, every packet handed to the
\* driver is freed, the ones that mynic_stop left in the ring included, unless
\* it is overwritten in a full ring, or the interrupt comes to the transmitting
\* CPU while it holds the lock: no order of stops, opens, sends, interrupts and
\* reclaims keeps another packet for ever, however full the ring has been.
TransmitCompletesOrDeadlocks ==
  <>[](state = "up" /\ irq) =>
    \A s \in Skbs : (s \in owned) ~> (s \notin owned \/ s \in lost \/ SelfDeadlock)

=============================================================================
