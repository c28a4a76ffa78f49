---------------------------- MODULE SimpleNetdev ----------------------------
(***************************************************************************)
(* The two skeleton network drivers: myloop (network/simple_loopback.c),   *)
(* which hands every packet back to the stack, and the mynic of            *)
(* network/simple_nic.c, which frees it.  A behaviour is about one of      *)
(* them, loaded and unloaded any number of times while its interface goes  *)
(* up and down and several CPUs transmit.                                  *)
(*                                                                         *)
(* The stack calls a transmit function with the lock of the interface's    *)
(* only queue held.  The counters of myloop are updated by a read and a    *)
(* write each; a packet given to netif_rx can be received on another CPU   *)
(* at once.                                                                *)
(***************************************************************************)
EXTENDS Integers, FiniteSets, FiniteSetsExt

CONSTANTS
  Cpus,       \* CPUs that transmit
  Packets,    \* packets that are transmitted on one net_device, each once
  Length,     \* skb->len of each, once eth_type_trans has taken the header off
  NetMayFail  \* the kernel calls that may fail in this instance

ASSUME NetAssumption ==
  /\ IsFiniteSet(Packets) /\ Packets # {}
  /\ Length \in [Packets -> Nat \ {0}]
  /\ NetMayFail \subseteq {"netdev", "registered", "netif_rx"}

\* The updates myloop_xmit makes after netif_rx, in their order.
Counters == <<"tx_packets", "tx_bytes", "rx_packets", "rx_bytes">>
Fields   == {Counters[n] : n \in DOMAIN Counters}

VARIABLES
  drv,      \* the driver: "myloop" or "simple_nic"
  at,       \* the thread that loads and unloads, or probes and removes
  held,     \* the net_device, and its registration
  up,       \* the interface is up
  xmit,     \* place of each CPU in the transmit function
  packet,   \* the skb it was called with
  temp,     \* the counter it has read
  skb,      \* who has each skb
  stats,    \* dev->stats
  early     \* the packets that were freed before they were counted

netVars == <<drv, at, held, up, xmit, packet, temp, skb, stats, early>>

traffic == <<xmit, packet, temp, skb, stats, early>>

ProbePcs == {"netdev", "registered", "probed"}

NetInit ==
  /\ drv \in {"myloop", "simple_nic"}
  /\ at = "unbound" /\ held = {} /\ up = FALSE
  /\ xmit = [c \in Cpus |-> 0] /\ packet = [c \in Cpus |-> CHOOSE p \in Packets : TRUE]
  /\ temp = [c \in Cpus |-> 0]
  /\ skb = [p \in Packets |-> "stack"]
  /\ stats = [f \in Fields |-> 0] /\ early = {}

-----------------------------------------------------------------------------
(* myloop_init and mynic_probe                                             *)

Goto(from, to) == at = from /\ at' = to /\ UNCHANGED drv
ThreadStep(from, to) == Goto(from, to) /\ UNCHANGED traffic

BeginLoad == ThreadStep("unbound", "netdev") /\ UNCHANGED <<held, up>>

\* The counters and packets of a net_device that is new.
NewTraffic ==
  /\ stats' = [f \in Fields |-> 0] /\ early' = {}
  /\ skb' = [p \in Packets |-> "stack"]
  /\ UNCHANGED <<xmit, packet, temp>>

\* alloc_netdev: myloop registers the null pointer of a failure, which is an
\* oops in register_netdev.
AllocNetdev ==
  /\ \/ Goto("netdev", "registered") /\ NewTraffic /\ held' = held \cup {"netdev"}
     \/ /\ "netdev" \in NetMayFail /\ UNCHANGED held
        /\ ThreadStep("netdev", IF drv = "myloop" THEN "oops" ELSE "return")
  /\ UNCHANGED up

\* register_netdev: when it fails, myloop does not free the net_device.
Register ==
  /\ \/ ThreadStep("registered", "probed") /\ held' = held \cup {"registered"}
     \/ /\ "registered" \in NetMayFail
        /\ IF drv = "myloop"
             THEN ThreadStep("registered", "return") /\ held' = {}
             ELSE ThreadStep("registered", "free") /\ UNCHANGED held
  /\ UNCHANGED up

ProbeReturn == ThreadStep("probed", "bound") /\ UNCHANGED <<held, up>>

-----------------------------------------------------------------------------
(* myloop_exit and mynic_remove                                            *)

\* Faulty variant: the net_device is freed while it is registered.
BeginRemoveFrees == ThreadStep("bound", "free") /\ UNCHANGED <<held, up>>

BeginRemove == ThreadStep("bound", "unregister") /\ UNCHANGED <<held, up>>

Transmitting == {c \in Cpus : xmit[c] # 0}
InBacklog    == {p \in Packets : skb[p] = "backlog"}

\* unregister_netdev takes the RTNL lock, waits for the transmitters and stops
\* the interface.
UnregisterStop ==
  /\ ThreadStep("unregister", "flush") /\ Transmitting = {}
  /\ up' = FALSE /\ UNCHANGED held

\* It flushes the backlog: the packets of this interface there are freed.
Unregister ==
  /\ ThreadStep("flush", "free") /\ InBacklog = {}
  /\ held' = held \ {"registered"} /\ UNCHANGED up

FreeNetdev ==
  ThreadStep("free", "return") /\ held' = held \ {"netdev"} /\ UNCHANGED up

Return == ThreadStep("return", "unbound") /\ UNCHANGED <<held, up>>

-----------------------------------------------------------------------------
(* The interface                                                           *)

\* myloop_open and mynic_open start the queue.
Open ==
  /\ "registered" \in held /\ at # "flush" /\ ~up /\ up' = TRUE
  /\ UNCHANGED <<drv, at, held, traffic>>

\* myloop_stop and mynic_stop stop the queue; the stack has waited for the
\* transmitters.
Stop ==
  /\ up /\ Transmitting = {} /\ up' = FALSE
  /\ UNCHANGED <<drv, at, held, traffic>>

XmitBeginWhen(c, p, lock) ==
  /\ up /\ xmit[c] = 0 /\ skb[p] = "stack" /\ lock
  /\ xmit' = [xmit EXCEPT ![c] = 1] /\ packet' = [packet EXCEPT ![c] = p]
  /\ skb' = [skb EXCEPT ![p] = "driver"]
  /\ UNCHANGED <<drv, at, held, up, temp, stats, early>>

\* Faulty variant: the driver claims to do its own locking (NETIF_F_LLTX).
XmitBeginUnlocked(c, p) == XmitBeginWhen(c, p, TRUE)

XmitBegin(c, p) == XmitBeginWhen(c, p, Transmitting = {})

XmitStep(c, to) ==
  /\ xmit' = [xmit EXCEPT ![c] = to]
  /\ UNCHANGED <<drv, at, held, up, packet>>

\* The mynic of simple_nic.c: dev_kfree_skb, and the return.
mynic_xmit(c) ==
  /\ drv = "simple_nic" /\ xmit[c] = 1 /\ XmitStep(c, 0)
  /\ skb' = [skb EXCEPT ![packet[c]] = "freed"]
  /\ UNCHANGED <<temp, stats, early>>

\* skb_orphan, eth_type_trans, and netif_rx, which may drop the packet.
MyloopGive(c) ==
  /\ drv = "myloop" /\ xmit[c] = 1 /\ XmitStep(c, 2)
  /\ \/ skb' = [skb EXCEPT ![packet[c]] = "backlog"] /\ UNCHANGED early
     \/ /\ "netif_rx" \in NetMayFail /\ skb' = [skb EXCEPT ![packet[c]] = "freed"]
        /\ early' = early \cup {packet[c]}
  /\ UNCHANGED <<temp, stats>>

\* At 2n and 2n + 1 a CPU reads and writes the n-th of Counters.
Counter(c) == Counters[xmit[c] \div 2]

MyloopRead(c) ==
  /\ xmit[c] > 0 /\ xmit[c] % 2 = 0 /\ XmitStep(c, xmit[c] + 1)
  /\ temp' = [temp EXCEPT ![c] = stats[Counter(c)]]
  /\ UNCHANGED <<skb, stats, early>>

\* skb->len of an skb that has been freed may be anything by now.
LengthsRead(p) == IF skb[p] = "freed" THEN {0, Length[p]} ELSE {Length[p]}

\* The last write is followed by the return.
MyloopWrite(c) ==
  /\ xmit[c] > 1 /\ xmit[c] % 2 = 1
  /\ XmitStep(c, IF xmit[c] = 9 THEN 0 ELSE xmit[c] + 1)
  /\ \E n \in IF Counter(c) \in {"tx_packets", "rx_packets"}
                THEN {1} ELSE LengthsRead(packet[c]) :
       stats' = [stats EXCEPT ![Counter(c)] = temp[c] + n]
  /\ UNCHANGED <<temp, skb, early>>

myloop_xmit(c) == MyloopGive(c) \/ MyloopRead(c) \/ MyloopWrite(c)

\* The stack receives a packet of the backlog, or flushes it, and frees it.
Receive(p) ==
  /\ skb[p] = "backlog" /\ skb' = [skb EXCEPT ![p] = "freed"]
  /\ early' = IF \E c \in Transmitting : packet[c] = p THEN early \cup {p} ELSE early
  /\ UNCHANGED <<drv, at, held, up, xmit, packet, temp, stats>>

-----------------------------------------------------------------------------

Thread ==
  \/ AllocNetdev \/ Register \/ ProbeReturn
  \/ UnregisterStop \/ Unregister \/ FreeNetdev \/ Return

NetNext ==
  \/ BeginLoad \/ BeginRemove \/ Thread
  \/ Open \/ Stop
  \/ \E c \in Cpus : mynic_xmit(c) \/ myloop_xmit(c)
  \/ \E c \in Cpus, p \in Packets : XmitBegin(c, p)
  \/ \E p \in Packets : Receive(p)

NetSpec == NetInit /\ [][NetNext]_netVars

-----------------------------------------------------------------------------
(* Properties                                                              *)

phase ==
  CASE at = "unbound"    -> "unbound"
    [] at \in ProbePcs   -> "probing"
    [] at = "bound"      -> "bound"
    [] OTHER             -> "releasing"

\* The net_device is used by whoever transmits on it and by packets that wait
\* in the backlog in its name; it stays registered while it is up.
Using ==
  (IF up THEN {"registered"} ELSE {})
    \cup (IF up \/ Transmitting # {} \/ InBacklog # {} THEN {"netdev"} ELSE {})

\* Both drivers keep the promise of PciBinding in every step, also with packets
\* under way when they are removed, but for the step in which myloop loses the
\* net_device it could not register.
Binding == INSTANCE PciBinding
  WITH using <- Using, Resources <- {"netdev", "registered"}, Managed <- {}
LosesNetdev == drv = "myloop" /\ at = "registered" /\ at' = "return"
BindingUnlessLost ==
  Binding!Init /\ [][Binding!Next \/ LosesNetdev]_(Binding!vars)

\* When nobody transmits, every packet the drivers were given has been freed or
\* waits in the backlog, and myloop has counted it exactly once in each
\* direction, whichever CPUs sent it; its bytes too, unless a packet was freed
\* between netif_rx and the counting.
PacketsAccounted ==
  Transmitting = {} =>
    LET taken == {p \in Packets : skb[p] # "stack"}
        bytes == MapThenSumSet(LAMBDA p : Length[p], taken)
    IN  /\ \A p \in taken : skb[p] \in {"backlog", "freed"}
        /\ drv = "myloop" =>
             /\ stats["tx_packets"] = Cardinality(taken)
             /\ stats["rx_packets"] = Cardinality(taken)
             /\ early = {} => stats["tx_bytes"] = bytes /\ stats["rx_bytes"] = bytes

=============================================================================
