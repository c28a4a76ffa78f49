---------------------------- MODULE MynicTxProofs ----------------------------
(***************************************************************************)
(* Proofs about mynic's TX ring, for a ring of any size and any set of     *)
(* packets, more than it has slots included, on any CPUs.                  *)
(***************************************************************************)
EXTENDS MynicTx, TLAPS

\* The k-th slot from the tail on.
Slot(k) == IF tx_tail + k < MYNIC_TX_RING_SIZE THEN tx_tail + k
                                               ELSE tx_tail + k - MYNIC_TX_RING_SIZE

\* Packets in the ring: the device has sent the older ones.
Outstanding == sent + Len(toSend)

\* The packets in the ring are in the slots from the tail to the head, a full
\* and an empty ring told apart by their number.
RingContiguous ==
  /\ Outstanding <= MYNIC_TX_RING_SIZE
  /\ tx_head = IF Outstanding = MYNIC_TX_RING_SIZE THEN tx_tail ELSE Slot(Outstanding)
  /\ \A i \in Slots : tx_skbuff[i] # NULL <=> \E k \in 0 .. Outstanding - 1 : i = Slot(k)

\* The device has been given what sits behind the packets it has sent, in order.
DeviceInStep == \A k \in 1 .. Len(toSend) : toSend[k] = tx_skbuff[Slot(sent + k - 1)]

\* Until a packet is overwritten, ring and device agree.
Aligned == lost = {} => RingContiguous /\ DeviceInStep

\* A packet on its way into the ring has been accepted and not been lost; one
\* that was lost is never freed.
AddedOwned == BeingAdded \subseteq owned \ lost /\ lost \subseteq owned

OwnersInv == TypeOK /\ AddedOwned /\ RingHoldsOwned

RingInv == OwnersInv /\ Aligned

-----------------------------------------------------------------------------

\* Indices below twice the size of the ring wrap at most once.
LEMMA ModWraps ==
  ASSUME NEW x \in Nat, x < 2 * MYNIC_TX_RING_SIZE
  PROVE  x % MYNIC_TX_RING_SIZE =
           IF x < MYNIC_TX_RING_SIZE THEN x ELSE x - MYNIC_TX_RING_SIZE
  <1>1. CASE x < MYNIC_TX_RING_SIZE
    BY <1>1, ConstantsAssumption, SMT
  <1>2. CASE x >= MYNIC_TX_RING_SIZE
    BY <1>2, ConstantsAssumption, SMT
  <1>3. QED
    BY <1>1, <1>2, ConstantsAssumption

\* The next slot is found by one addition and one remainder.
LEMMA NextSlot ==
  ASSUME NEW i \in Slots
  PROVE  /\ (i + 1) % MYNIC_TX_RING_SIZE = IF i + 1 = MYNIC_TX_RING_SIZE THEN 0 ELSE i + 1
         /\ (i + 1) % MYNIC_TX_RING_SIZE \in Slots
  <1>1. i + 1 \in Nat /\ i + 1 < 2 * MYNIC_TX_RING_SIZE /\ i + 1 <= MYNIC_TX_RING_SIZE
    BY ConstantsAssumption DEF Slots
  <1>2. (i + 1) % MYNIC_TX_RING_SIZE = IF i + 1 = MYNIC_TX_RING_SIZE THEN 0 ELSE i + 1
    BY <1>1, ModWraps, ConstantsAssumption
  <1>3. QED
    BY <1>1, <1>2, ConstantsAssumption DEF Slots

\* The first slots from the tail on, as many as the ring has, are different slots
\* of the ring.
LEMMA SlotFacts ==
  ASSUME TypeOK
  PROVE  /\ Slot(0) = tx_tail
         /\ \A k \in 0 .. MYNIC_TX_RING_SIZE - 1 : Slot(k) \in Slots
         /\ \A k, l \in 0 .. MYNIC_TX_RING_SIZE - 1 : Slot(k) = Slot(l) => k = l
  BY ConstantsAssumption DEF TypeOK, Slots, Slot

\* Before anything is overwritten, a slot at the head that is not free means that
\* no slot is.
LEMMA HeadMeetsTail ==
  ASSUME TypeOK, RingContiguous, tx_skbuff[tx_head] # NULL
  PROVE  Outstanding = MYNIC_TX_RING_SIZE /\ Filled = Slots
  <1> DEFINE N == MYNIC_TX_RING_SIZE
             n == Outstanding
  <1>1. /\ n \in Nat /\ n <= N /\ N \in Nat /\ tx_tail \in Slots /\ tx_head \in Slots
        /\ tx_tail \in 0 .. N - 1
    BY ConstantsAssumption DEF TypeOK, RingContiguous, Outstanding, Slots
  <1>2. PICK k \in 0 .. n - 1 : tx_head = Slot(k)
    BY <1>1 DEF RingContiguous
  <1>3. n = N
    <2> SUFFICES ASSUME n < N PROVE FALSE
      BY <1>1
    <2>1. tx_head = Slot(n)
      BY <1>1 DEF RingContiguous
    <2>2. k \in 0 .. N - 1 /\ n \in 0 .. N - 1 /\ k # n
      BY <1>1
    <2>3. QED
      BY <1>2, <2>1, <2>2, SlotFacts
  <1>4. ASSUME NEW i \in Slots
        PROVE  \E l \in 0 .. N - 1 : i = Slot(l)
    <2>1. i \in 0 .. N - 1
      BY DEF Slots
    <2>2. CASE i >= tx_tail
      <3>1. i - tx_tail \in 0 .. N - 1 /\ i = Slot(i - tx_tail)
        BY <1>1, <2>1, <2>2 DEF Slot
      <3>2. QED
        BY <3>1
    <2>3. CASE i < tx_tail
      <3>1. i - tx_tail + N \in 0 .. N - 1 /\ i = Slot(i - tx_tail + N)
        BY <1>1, <2>1, <2>3 DEF Slot
      <3>2. QED
        BY <3>1
    <2>4. QED
      BY <1>1, <2>1, <2>2, <2>3
  <1>5. Filled = Slots
    BY <1>3, <1>4 DEF RingContiguous, Filled
  <1>6. QED
    BY <1>3, <1>5

-----------------------------------------------------------------------------

\* The state at the end of probe satisfies the invariant.
LEMMA InitRing == Init => RingInv
  <1> SUFFICES ASSUME Init PROVE RingInv
    OBVIOUS
  <1> USE ConstantsAssumption DEF Init
  <1>1. /\ status \in BOOLEAN /\ irq \in BOOLEAN
        /\ toSend \in Seq(Skbs) /\ Len(toSend) = 0 /\ sent = 0
    <2>1. status \in BOOLEAN /\ irq \in BOOLEAN
      OBVIOUS
    <2>2. toSend = << >> /\ sent = 0
      OBVIOUS
    <2>3. QED
      BY <2>1, <2>2
  <1>2. TypeOK
    BY <1>1 DEF TypeOK, Slots
  <1>3. Outstanding = 0
    BY <1>1 DEF Outstanding
  <1>4. RingContiguous
    BY <1>3 DEF RingContiguous, Slot
  <1>5. DeviceInStep
    BY <1>1 DEF DeviceInStep
  <1>6. BeingAdded = {} /\ Filled = {}
    BY DEF BeingAdded, Filled
  <1>7. AddedOwned /\ RingHoldsOwned
    BY <1>6 DEF AddedOwned, RingHoldsOwned
  <1>8. QED
    BY <1>2, <1>4, <1>5, <1>7 DEF RingInv, OwnersInv, Aligned

\* A step that leaves the ring, the packets and their owners alone keeps what is
\* said about them.
LEMMA RingUntouched ==
  ASSUME RingInv, TypeOK', UNCHANGED ring, UNCHANGED <<toSend, sent>>,
         owned' \ BeingAdded' = owned \ BeingAdded, AddedOwned'
  PROVE  RingInv'
  <1>1. Outstanding' = Outstanding /\ Filled' = Filled /\ \A k : Slot(k)' = Slot(k)
    BY DEF Outstanding, Filled, Slot, ring
  <1>2. Aligned'
    BY <1>1 DEF RingInv, Aligned, RingContiguous, DeviceInStep, ring
  <1>3. owned' \ (BeingAdded' \cup lost') = owned \ (BeingAdded \cup lost)
    BY DEF ring
  <1>4. RingHoldsOwned'
    BY <1>1, <1>3 DEF RingInv, OwnersInv, RingHoldsOwned, ring
  <1>5. QED
    BY <1>2, <1>4 DEF RingInv, OwnersInv

\* The steps that take and give back the lock and start and end a call keep it.
LEMMA LockRing ==
  ASSUME RingInv, TypeOK',
         \/ mynic_open \/ mynic_stop \/ mynic_remove
         \/ \E cpu \in XmitCpus, s \in Skbs : XmitBegin(cpu, s)
         \/ XmitLock \/ XmitUnlock
         \/ \E cpu \in IrqCpus : Interrupt(cpu)
         \/ IsrStatus \/ IsrLock \/ IsrReturn
  PROVE  RingInv'
  <1> USE DEF device, transfer, ring
  <1>1. ASSUME NEW cpu \in XmitCpus, NEW s \in Skbs, XmitBegin(cpu, s)
        PROVE  RingInv'
    <2>1. BeingAdded = {} /\ BeingAdded' = {s}
      BY <1>1 DEF XmitBegin, BeingAdded
    <2>2. AddedOwned'
      BY <1>1, <2>1 DEF XmitBegin, RingInv, OwnersInv, AddedOwned
    <2>3. QED
      BY <1>1, <2>1, <2>2, RingUntouched DEF XmitBegin
  <1>2. ASSUME BeingAdded' = BeingAdded, owned' = owned, UNCHANGED ring,
               UNCHANGED <<toSend, sent>>
        PROVE  RingInv'
    BY <1>2, RingUntouched DEF RingInv, OwnersInv, AddedOwned
  <1>3. CASE mynic_open \/ mynic_stop \/ mynic_remove
    BY <1>2, <1>3 DEF mynic_open, mynic_stop, mynic_remove, RemoveFreeIrq,
       RemoveUnregister, BeingAdded
  <1>4. CASE XmitLock \/ XmitUnlock
    BY <1>2, <1>4 DEF XmitLock, XmitUnlock, XmitStep, BeingAdded
  <1>5. ASSUME NEW cpu \in IrqCpus, Interrupt(cpu)
        PROVE  RingInv'
    BY <1>2, <1>5 DEF Interrupt, BeingAdded
  <1>6. CASE IsrStatus \/ IsrLock \/ IsrReturn
    BY <1>2, <1>6 DEF IsrStatus, IsrLock, IsrReturn, IsrStep, BeingAdded
  <1>7. QED
    BY <1>1, <1>3, <1>4, <1>5, <1>6

\* Filling the slot at the head keeps ring and device in step if it overwrites
\* nothing: the slot is the next from the tail on.
LEMMA FillAligned ==
  ASSUME TypeOK, RingContiguous, DeviceInStep, XmitFill, tx_skbuff[tx_head] = NULL
  PROVE  RingContiguous' /\ DeviceInStep'
  <1> USE ConstantsAssumption DEF XmitFill, XmitStep
  <1> DEFINE N == MYNIC_TX_RING_SIZE
             n == Outstanding
  <1>1. /\ tx_tail \in Slots /\ tx_head \in Slots /\ skb \in Skbs /\ skb # NULL
        /\ toSend \in Seq(Skbs) /\ sent \in Nat /\ Len(toSend) \in Nat
        /\ tx_skbuff \in [Slots -> Skbs \cup {NULL}]
    BY DEF TypeOK
  <1>2. /\ \A k \in 0 .. N - 1 : Slot(k) \in Slots
        /\ \A k, l \in 0 .. N - 1 : Slot(k) = Slot(l) => k = l
        /\ Slot(0) = tx_tail
    BY SlotFacts
  <1>3. n \in Nat /\ n < N
    <2>1. n \in Nat /\ n <= N
      BY <1>1 DEF Outstanding, RingContiguous
    <2>2. ASSUME n = N PROVE FALSE
      <3>1. tx_head = Slot(0) /\ 0 \in 0 .. n - 1
        BY <1>2, <2>2 DEF RingContiguous
      <3>2. QED
        BY <1>1, <3>1 DEF RingContiguous
    <2>3. QED
      BY <2>1, <2>2
  <1>4. tx_head = Slot(n)
    BY <1>3 DEF RingContiguous
  <1>5. /\ toSend' \in Seq(Skbs) /\ Len(toSend') = Len(toSend) + 1
        /\ \A k \in 1 .. Len(toSend) : toSend'[k] = toSend[k]
        /\ toSend'[Len(toSend) + 1] = skb
    BY <1>1
  <1>6. Outstanding' = n + 1 /\ \A k : Slot(k)' = Slot(k)
    BY <1>1, <1>5 DEF Outstanding, Slot
  <1>7. /\ \A i \in Slots \ {tx_head} : tx_skbuff'[i] = tx_skbuff[i]
        /\ tx_skbuff'[tx_head] = skb
    BY <1>1
  <1>8. RingContiguous'
    <2>1. tx_head' = IF n + 1 = N THEN tx_tail ELSE Slot(n + 1)
      <3>1. tx_head' = IF tx_head + 1 = N THEN 0 ELSE tx_head + 1
        BY <1>1, NextSlot
      <3>2. QED
        BY <1>1, <1>3, <1>4, <3>1 DEF Slot, Slots
    <2>2. ASSUME NEW i \in Slots
          PROVE  tx_skbuff'[i] # NULL <=> \E k \in 0 .. n : i = Slot(k)
      <3>1. CASE i = tx_head
        BY <1>1, <1>3, <1>4, <1>7, <3>1
      <3>2. CASE i # tx_head
        <4>1. tx_skbuff[i] # NULL <=> \E k \in 0 .. n - 1 : i = Slot(k)
          BY DEF RingContiguous
        <4>2. (\E k \in 0 .. n : i = Slot(k)) <=> \E k \in 0 .. n - 1 : i = Slot(k)
          BY <1>3, <1>4, <3>2
        <4>3. QED
          BY <1>7, <3>2, <4>1, <4>2
      <3>3. QED
        BY <3>1, <3>2
    <2>3. QED
      BY <1>3, <1>6, <2>1, <2>2 DEF RingContiguous
  <1>9. DeviceInStep'
    <2> SUFFICES ASSUME NEW k \in 1 .. Len(toSend) + 1
                 PROVE  toSend'[k] = tx_skbuff'[Slot(sent + k - 1)]
      BY <1>5, <1>6 DEF DeviceInStep
    <2>1. CASE k = Len(toSend) + 1
      BY <1>1, <1>4, <1>5, <1>7, <2>1 DEF Outstanding
    <2>2. CASE k \in 1 .. Len(toSend)
      <3>1. sent + k - 1 \in 0 .. N - 1 /\ n \in 0 .. N - 1 /\ sent + k - 1 # n
        BY <1>1, <1>3, <2>2 DEF Outstanding
      <3>2. Slot(sent + k - 1) \in Slots \ {tx_head}
        BY <1>2, <1>4, <3>1
      <3>3. QED
        BY <1>5, <1>7, <2>2, <3>2 DEF DeviceInStep
    <2>3. QED
      BY <1>1, <2>1, <2>2
  <1>10. QED
    BY <1>8, <1>9

\* Filling the slot at the head keeps every packet accounted for: what the slot
\* held is lost, all else stays where it is.
LEMMA FillRing ==
  ASSUME RingInv, TypeOK', XmitFill
  PROVE  RingInv'
  <1> USE ConstantsAssumption DEF XmitFill, XmitStep
  <1> DEFINE x == tx_skbuff[tx_head]
  <1>1. /\ TypeOK /\ tx_head \in Slots /\ skb \in Skbs /\ skb # NULL
        /\ tx_skbuff \in [Slots -> Skbs \cup {NULL}]
    BY DEF RingInv, OwnersInv, TypeOK
  <1>2. /\ \A i \in Slots \ {tx_head} : tx_skbuff'[i] = tx_skbuff[i]
        /\ tx_skbuff'[tx_head] = skb
    BY <1>1
  <1>3. Filled' = (Filled \ {tx_head}) \cup {tx_head} /\ (tx_head \in Filled <=> x # NULL)
    BY <1>1, <1>2 DEF Filled
  <1>4. BeingAdded = {skb} /\ BeingAdded' = {} /\ skb \in owned \ lost /\ lost \subseteq owned
    BY DEF BeingAdded, RingInv, OwnersInv, AddedOwned
  <1>5. /\ {tx_skbuff[i] : i \in Filled} = owned \ ({skb} \cup lost)
        /\ \A i, j \in Filled : tx_skbuff[i] = tx_skbuff[j] => i = j
    BY <1>4 DEF RingInv, OwnersInv, RingHoldsOwned
  <1>6. lost' = lost \cup ({x} \ {NULL}) /\ owned' = owned
    OBVIOUS
  <1>7. x # NULL => x \in owned \ ({skb} \cup lost)
    BY <1>3, <1>5
  <1>8. AddedOwned'
    BY <1>4, <1>6, <1>7 DEF AddedOwned
  <1>9. RingHoldsOwned'
    <2>1. \A i \in Filled \ {tx_head} :
            /\ tx_skbuff'[i] = tx_skbuff[i] /\ tx_skbuff[i] # x
            /\ tx_skbuff[i] \in owned \ ({skb} \cup lost)
      BY <1>2, <1>3, <1>5 DEF Filled
    <2>2. {tx_skbuff'[i] : i \in Filled'} = owned \ lost'
      <3>1. ASSUME NEW i \in Filled' PROVE tx_skbuff'[i] \in owned \ lost'
        <4>1. CASE i = tx_head
          BY <1>2, <1>4, <1>6, <1>7, <4>1
        <4>2. CASE i # tx_head
          BY <1>3, <1>6, <2>1, <4>2
        <4>3. QED
          BY <4>1, <4>2
      <3>2. ASSUME NEW s \in owned \ lost' PROVE \E i \in Filled' : tx_skbuff'[i] = s
        <4>1. CASE s = skb
          BY <1>2, <1>3, <4>1
        <4>2. CASE s # skb
          <5>1. PICK i \in Filled : tx_skbuff[i] = s
            BY <1>5, <1>6, <4>2
          <5>2. i # tx_head
            BY <1>3, <1>6, <5>1
          <5>3. QED
            BY <1>3, <2>1, <5>1, <5>2
        <4>3. QED
          BY <4>1, <4>2
      <3>3. QED
        BY <3>1, <3>2
    <2>3. \A i, j \in Filled' : tx_skbuff'[i] = tx_skbuff'[j] => i = j
      BY <1>2, <1>3, <1>5, <2>1
    <2>4. QED
      BY <1>4, <1>6, <2>2, <2>3 DEF RingHoldsOwned
  <1>10. Aligned'
    <2> SUFFICES ASSUME lost' = {} PROVE RingContiguous' /\ DeviceInStep'
      BY DEF Aligned
    <2>1. lost = {} /\ x = NULL
      BY <1>6
    <2>2. QED
      BY <1>1, <2>1, FillAligned DEF RingInv, Aligned
  <1>11. QED
    BY <1>8, <1>9, <1>10 DEF RingInv, OwnersInv

\* The device's progress keeps it: the packet it has sent stays in its slot.
LEMMA SendRing ==
  ASSUME RingInv, TypeOK', DeviceSend
  PROVE  RingInv'
  <1> USE DEF DeviceSend, transfer, ring, netif
  <1>1. toSend \in Seq(Skbs) /\ sent \in Nat /\ toSend # << >>
    BY DEF RingInv, OwnersInv, TypeOK
  <1>2. /\ toSend' \in Seq(Skbs) /\ Len(toSend) \in Nat /\ Len(toSend') = Len(toSend) - 1
        /\ \A k \in 1 .. Len(toSend') : toSend'[k] = toSend[k + 1]
    BY <1>1
  <1>3. Outstanding' = Outstanding /\ Filled' = Filled /\ \A k : Slot(k)' = Slot(k)
    BY <1>1, <1>2 DEF Outstanding, Filled, Slot
  <1>4. RingHoldsOwned' /\ AddedOwned'
    BY <1>3 DEF RingInv, OwnersInv, RingHoldsOwned, AddedOwned, BeingAdded
  <1>5. ASSUME lost = {} PROVE RingContiguous'
    BY <1>3, <1>5 DEF RingInv, Aligned, RingContiguous
  <1>6. ASSUME lost = {} PROVE DeviceInStep'
    <2> SUFFICES ASSUME NEW k \in 1 .. Len(toSend')
                 PROVE  toSend'[k] = tx_skbuff[Slot(sent + k)]
      BY <1>1, <1>2, <1>3 DEF DeviceInStep
    <2>1. k + 1 \in 1 .. Len(toSend) /\ sent + (k + 1) - 1 = sent + k
      BY <1>1, <1>2
    <2>2. QED
      BY <1>2, <1>6, <2>1 DEF RingInv, Aligned, DeviceInStep
  <1>7. QED
    BY <1>4, <1>5, <1>6 DEF RingInv, OwnersInv, Aligned

\* Reclaiming the slot at the tail keeps ring and device in step: it holds the
\* oldest packet, which the device has sent.
LEMMA ReclaimAligned ==
  ASSUME TypeOK, RingContiguous, DeviceInStep, IsrReclaim
  PROVE  RingContiguous' /\ DeviceInStep'
  <1> USE ConstantsAssumption DEF IsrReclaim, IsrStep
  <1> DEFINE N == MYNIC_TX_RING_SIZE
             n == Outstanding
  <1>1. /\ tx_tail \in Slots /\ tx_head \in Slots
        /\ toSend \in Seq(Skbs) /\ sent \in Nat /\ Len(toSend) \in Nat
        /\ tx_skbuff \in [Slots -> Skbs \cup {NULL}]
    BY DEF TypeOK
  <1>2. n \in Nat /\ n <= N /\ n > 0 /\ Outstanding' = n - 1
    BY <1>1 DEF Outstanding, RingContiguous
  <1>3. /\ \A k \in 0 .. N - 1 : Slot(k) \in Slots
        /\ \A k, l \in 0 .. N - 1 : Slot(k) = Slot(l) => k = l
        /\ Slot(0) = tx_tail
    BY SlotFacts
  <1>4. tx_tail' = IF tx_tail + 1 = N THEN 0 ELSE tx_tail + 1
    BY <1>1, NextSlot
  <1>5. \A k \in 0 .. N - 1 : k < N - 1 => Slot(k)' = Slot(k + 1)
    BY <1>1, <1>4 DEF Slot, Slots
  <1>6. /\ \A i \in Slots \ {tx_tail} : tx_skbuff'[i] = tx_skbuff[i]
        /\ tx_skbuff'[tx_tail] = NULL
    BY <1>1
  <1>7. RingContiguous'
    <2>1. tx_head' = (IF Outstanding = N THEN tx_tail ELSE Slot(Outstanding))'
      BY <1>1, <1>2, <1>4 DEF RingContiguous, Slot, Slots
    <2>2. ASSUME NEW i \in Slots
          PROVE  tx_skbuff'[i] # NULL <=> \E k \in 0 .. n - 2 : i = Slot(k)'
      <3>1. (\E k \in 0 .. n - 2 : i = Slot(k)') <=> \E k \in 1 .. n - 1 : i = Slot(k)
        <4>1. ASSUME NEW k \in 0 .. n - 2, i = Slot(k)' PROVE k + 1 \in 1 .. n - 1 /\ i = Slot(k + 1)
          BY <1>2, <1>5, <4>1
        <4>2. ASSUME NEW k \in 1 .. n - 1, i = Slot(k) PROVE k - 1 \in 0 .. n - 2 /\ i = Slot(k - 1)'
          <5>1. k - 1 \in 0 .. N - 1 /\ k - 1 < N - 1 /\ (k - 1) + 1 = k
            BY <1>2
          <5>2. QED
            BY <1>2, <1>5, <4>2, <5>1
        <4>3. QED
          BY <4>1, <4>2
      <3>2. tx_skbuff[i] # NULL <=> \E k \in 0 .. n - 1 : i = Slot(k)
        BY DEF RingContiguous
      <3>3. CASE i = tx_tail
        BY <1>2, <1>3, <1>6, <3>1, <3>3
      <3>4. CASE i # tx_tail
        BY <1>2, <1>3, <1>6, <3>1, <3>2, <3>4
      <3>5. QED
        BY <3>3, <3>4
    <2>3. QED
      BY <1>2, <2>1, <2>2 DEF RingContiguous
  <1>8. DeviceInStep'
    <2> SUFFICES ASSUME NEW k \in 1 .. Len(toSend)
                 PROVE  toSend[k] = tx_skbuff'[Slot(sent + k - 1)']
      BY DEF DeviceInStep
    <2>1. PICK m \in 0 .. N - 1 : m = sent + k - 2 /\ m < N - 1
      BY <1>1, <1>2 DEF Outstanding
    <2>2. m + 1 = sent + k - 1 /\ m = sent' + k - 1
      BY <1>1, <2>1
    <2>3. Slot(sent + k - 1)' = Slot(m)'
      BY <2>2
    <2>4. Slot(m)' = Slot(sent + k - 1)
      BY <1>5, <2>1, <2>2
    <2>5. Slot(sent + k - 1) \in Slots \ {tx_tail}
      BY <1>1, <1>2, <1>3, <2>1, <2>2
    <2>6. QED
      BY <1>6, <2>3, <2>4, <2>5 DEF DeviceInStep
  <1>9. QED
    BY <1>7, <1>8

\* Reclaiming keeps every packet accounted for, also once some are lost and the
\* slot may be empty or hold another packet than the one that was sent.
LEMMA ReclaimRing ==
  ASSUME RingInv, TypeOK', IsrReclaim
  PROVE  RingInv'
  <1> USE DEF IsrReclaim, IsrStep
  <1> DEFINE x == tx_skbuff[tx_tail]
  <1>1. /\ TypeOK /\ tx_tail \in Slots /\ tx_skbuff \in [Slots -> Skbs \cup {NULL}]
        /\ owned \subseteq Skbs /\ NULL \notin Skbs
    BY ConstantsAssumption DEF RingInv, OwnersInv, TypeOK
  <1>2. /\ \A i \in Slots \ {tx_tail} : tx_skbuff'[i] = tx_skbuff[i]
        /\ tx_skbuff'[tx_tail] = NULL
    BY <1>1
  <1>3. /\ Filled' = Filled \ {tx_tail} /\ (tx_tail \in Filled <=> x # NULL)
        /\ BeingAdded' = BeingAdded
    BY <1>1, <1>2 DEF Filled, BeingAdded
  <1>4. owned' = owned \ {x} /\ lost' = lost
    OBVIOUS
  <1>5. /\ {tx_skbuff[i] : i \in Filled} = owned \ (BeingAdded \cup lost)
        /\ \A i, j \in Filled : tx_skbuff[i] = tx_skbuff[j] => i = j
        /\ BeingAdded \subseteq owned \ lost /\ lost \subseteq owned
    BY DEF RingInv, OwnersInv, RingHoldsOwned, AddedOwned
  <1>6. x \notin BeingAdded \cup lost
    BY <1>1, <1>3, <1>5
  <1>7. \A i \in Filled' : tx_skbuff'[i] = tx_skbuff[i] /\ tx_skbuff[i] # x
    BY <1>2, <1>3, <1>5 DEF Filled
  <1>8. {tx_skbuff'[i] : i \in Filled'} = owned' \ (BeingAdded' \cup lost')
    <2>1. ASSUME NEW i \in Filled' PROVE tx_skbuff'[i] \in owned' \ (BeingAdded' \cup lost')
      BY <1>3, <1>4, <1>5, <1>7
    <2>2. ASSUME NEW s \in owned' \ (BeingAdded' \cup lost')
          PROVE  \E i \in Filled' : tx_skbuff'[i] = s
      <3>1. PICK i \in Filled : tx_skbuff[i] = s
        BY <1>3, <1>4, <1>5
      <3>2. i \in Filled'
        BY <1>3, <1>4, <3>1
      <3>3. QED
        BY <1>7, <3>1, <3>2
    <2>3. QED
      BY <2>1, <2>2
  <1>9. RingHoldsOwned' /\ AddedOwned'
    BY <1>3, <1>4, <1>5, <1>6, <1>7, <1>8 DEF RingHoldsOwned, AddedOwned
  <1>10. Aligned'
    BY <1>1, <1>4, ReclaimAligned DEF RingInv, Aligned
  <1>11. QED
    BY <1>9, <1>10 DEF RingInv, OwnersInv

-----------------------------------------------------------------------------

\* Every variable keeps its type, also in a ring that overflows.
LEMMA NextTypeOK == TypeOK /\ [Next]_vars => TypeOK'
  <1> SUFFICES ASSUME TypeOK, [Next]_vars PROVE TypeOK'
    OBVIOUS
  <1>1. status' \in BOOLEAN /\ irq' \in BOOLEAN
    <2> USE DEF TypeOK, transfer, ring, device, netif
    <2>1. CASE mynic_open \/ mynic_stop \/ mynic_remove \/ UNCHANGED vars
      BY <2>1 DEF mynic_open, mynic_stop, mynic_remove, RemoveFreeIrq, RemoveUnregister, vars
    <2>2. CASE (\E cpu \in XmitCpus, s \in Skbs : XmitBegin(cpu, s)) \/ mynic_start_xmit
      BY <2>2 DEF XmitBegin, mynic_start_xmit, XmitLock, XmitFill, XmitUnlock, XmitStep
    <2>3. CASE DeviceSend \/ (\E cpu \in IrqCpus : Interrupt(cpu)) \/ mynic_interrupt
      BY <2>3 DEF DeviceSend, Interrupt, mynic_interrupt, IsrStatus, IsrLock, IsrReclaim,
         IsrReturn, IsrStep
    <2> QED
      BY <2>1, <2>2, <2>3 DEF Next
  <1> USE <1>1 DEF TypeOK, transfer, ring, device, netif
  <1>2. CASE mynic_open \/ mynic_stop \/ mynic_remove
    BY <1>2 DEF mynic_open, mynic_stop, mynic_remove, RemoveFreeIrq, RemoveUnregister
  <1>3. ASSUME NEW cpu \in XmitCpus, NEW s \in Skbs, XmitBegin(cpu, s) PROVE TypeOK'
    BY <1>3 DEF XmitBegin
  <1>4. CASE mynic_start_xmit
    <2>1. CASE XmitFill
      <3>1. Append(toSend, skb) \in Seq(Skbs)
        OBVIOUS
      <3>2. QED
        BY <2>1, <3>1, NextSlot DEF XmitFill, XmitStep
    <2>2. CASE XmitLock \/ XmitUnlock
      BY <2>2 DEF XmitLock, XmitUnlock, XmitStep
    <2>3. QED
      BY <1>4, <2>1, <2>2 DEF mynic_start_xmit
  <1>5. CASE DeviceSend
    BY <1>5 DEF DeviceSend
  <1>6. ASSUME NEW cpu \in IrqCpus, Interrupt(cpu) PROVE TypeOK'
    BY <1>6 DEF Interrupt
  <1>7. CASE mynic_interrupt
    BY <1>7, NextSlot DEF mynic_interrupt, IsrStatus, IsrLock, IsrReclaim, IsrReturn, IsrStep
  <1>8. CASE UNCHANGED vars
    BY <1>8 DEF vars
  <1>9. QED
    BY <1>2, <1>3, <1>4, <1>5, <1>6, <1>7, <1>8 DEF Next

\* Every step of the system keeps the ring, the device and the owners in step.
LEMMA NextRing ==
  ASSUME RingInv, [Next]_vars
  PROVE  RingInv'
  <1>1. TypeOK'
    BY NextTypeOK DEF RingInv, OwnersInv
  <1>2. CASE XmitFill
    BY <1>1, <1>2, FillRing
  <1>3. CASE DeviceSend
    BY <1>1, <1>3, SendRing
  <1>4. CASE IsrReclaim
    BY <1>1, <1>4, ReclaimRing
  <1>5. CASE UNCHANGED vars
    BY <1>1, <1>5, RingUntouched DEF vars, ring, RingInv, OwnersInv, AddedOwned,
       BeingAdded
  <1>6. QED
    BY <1>1, <1>2, <1>3, <1>4, <1>5, LockRing DEF Next, mynic_start_xmit, mynic_interrupt

\* Every variable keeps its type: both indices stay in the ring whatever the
\* number of packets.
THEOREM TypeCorrect == Spec => []TypeOK
  <1>1. Init => TypeOK
    BY InitRing DEF RingInv, OwnersInv
  <1>2. QED
    BY <1>1, NextTypeOK, PTL DEF Spec

\* mynic_start_xmit, the device and the transmit half of mynic_interrupt keep
\* RingInv in a ring of any size, overflowing or not.
THEOREM RingInvariance == Spec => []RingInv
  <1>1. RingInv /\ [Next]_vars => RingInv'
    BY NextRing
  <1>2. QED
    BY <1>1, InitRing, PTL DEF Spec

\* However many packets come and however often the indices wrap, an accepted
\* packet sits in exactly one slot until it is freed or overwritten there, and no
\* slot refers to a packet that was freed.
THEOREM PacketsAccounted == Spec => []RingHoldsOwned
  <1>1. RingInv => RingHoldsOwned
    BY DEF RingInv, OwnersInv
  <1>2. QED
    BY <1>1, RingInvariance, PTL

\* mynic_start_xmit overwrites its first packet in a ring without a free slot.
THEOREM LossNeedsFullRing == Spec => FirstLossNeedsFullRing
  <1>1. RingInv /\ [Next]_vars => [lost = {} /\ lost' # {} => Filled = Slots]_vars
    <2> SUFFICES ASSUME RingInv, Next, lost = {}, lost' # {}
                 PROVE  Filled = Slots
      OBVIOUS
    <2>1. XmitFill
      BY DEF Next, mynic_open, mynic_stop, mynic_remove, RemoveFreeIrq, RemoveUnregister,
         XmitBegin, mynic_start_xmit, XmitLock, XmitUnlock, DeviceSend, Interrupt,
         mynic_interrupt, IsrStatus, IsrLock, IsrReclaim, IsrReturn, ring
    <2>2. tx_skbuff[tx_head] # NULL
      BY <2>1 DEF XmitFill
    <2>3. QED
      BY <2>2, HeadMeetsTail DEF RingInv, OwnersInv, Aligned
  <1>2. QED
    BY <1>1, RingInvariance, PTL DEF Spec, FirstLossNeedsFullRing

\* As long as nothing was overwritten, mynic_interrupt frees no packet that the
\* device has still to send.
THEOREM NothingFreedEarly == Spec => []DeviceOwnsToSend
  <1>1. RingInv => DeviceOwnsToSend
    <2> SUFFICES ASSUME RingInv, lost = {}, NEW k \in 1 .. Len(toSend)
                 PROVE  toSend[k] \in owned
      BY DEF DeviceOwnsToSend
    <2> USE DEF RingInv, OwnersInv, Aligned
    <2>1. /\ toSend \in Seq(Skbs) /\ sent \in Nat /\ Len(toSend) \in Nat
          /\ Outstanding <= MYNIC_TX_RING_SIZE
      BY DEF TypeOK, RingContiguous
    <2>2. /\ sent + k - 1 \in 0 .. Outstanding - 1
          /\ sent + k - 1 \in 0 .. MYNIC_TX_RING_SIZE - 1
      BY <2>1, ConstantsAssumption DEF Outstanding
    <2>3. Slot(sent + k - 1) \in Slots
      BY <2>2, SlotFacts
    <2>4. Slot(sent + k - 1) \in Filled
      BY <2>2, <2>3 DEF RingContiguous, Filled
    <2>5. QED
      BY <2>4 DEF DeviceInStep, RingHoldsOwned
  <1>2. QED
    BY <1>1, RingInvariance, PTL

\* A packet the device has sent is not forgotten: its interrupt is raised or its
\* handler has yet to look, also in a ring that overflows.
THEOREM SentNoticed == Spec => []SentHasInterrupt
  <1>1. Init => SentHasInterrupt
    BY DEF Init, SentHasInterrupt
  <1>2. TypeOK /\ SentHasInterrupt /\ [Next]_vars => SentHasInterrupt'
    <2> SUFFICES ASSUME TypeOK, SentHasInterrupt, [Next]_vars PROVE SentHasInterrupt'
      OBVIOUS
    <2> USE DEF SentHasInterrupt, transfer, ring, device, netif
    <2>1. CASE mynic_open \/ mynic_stop \/ mynic_remove \/ UNCHANGED vars
      BY <2>1 DEF mynic_open, mynic_stop, mynic_remove, RemoveFreeIrq, RemoveUnregister, vars
    <2>2. CASE (\E cpu \in XmitCpus, s \in Skbs : XmitBegin(cpu, s)) \/ mynic_start_xmit
      BY <2>2 DEF XmitBegin, mynic_start_xmit, XmitLock, XmitFill, XmitUnlock, XmitStep
    <2>3. CASE DeviceSend \/ (\E cpu \in IrqCpus : Interrupt(cpu)) \/ mynic_interrupt
      BY <2>3 DEF DeviceSend, Interrupt, mynic_interrupt, IsrStatus, IsrLock, IsrReclaim,
         IsrReturn, IsrStep
    <2> QED
      BY <2>1, <2>2, <2>3 DEF Next
  <1>3. QED
    BY <1>1, <1>2, TypeCorrect, PTL DEF Spec

-----------------------------------------------------------------------------
(* priv->lock                                                              *)

\* The lock is held exactly by the path that is between spin_lock and
\* spin_unlock.
LockHeld ==
  /\ lock = "xmit" <=> xmit \in {"fill", "unlock"}
  /\ lock = "isr" <=> isr = "reclaim"

\* Every step keeps the lock with the path that took it.
LEMMA NextLockHeld == LockHeld /\ [Next]_vars => LockHeld'
  <1> SUFFICES ASSUME LockHeld, [Next]_vars PROVE LockHeld'
    OBVIOUS
  <1> USE DEF LockHeld, transfer, ring, device, netif
  <1>1. CASE mynic_open \/ mynic_stop \/ mynic_remove \/ DeviceSend \/ UNCHANGED vars
    BY <1>1 DEF mynic_open, mynic_stop, mynic_remove, RemoveFreeIrq, RemoveUnregister,
       DeviceSend, vars
  <1>2. CASE \/ \E cpu \in XmitCpus, s \in Skbs : XmitBegin(cpu, s)
             \/ \E cpu \in IrqCpus : Interrupt(cpu)
    BY <1>2 DEF XmitBegin, Interrupt
  <1>3. CASE mynic_start_xmit
    BY <1>3 DEF mynic_start_xmit, XmitLock, XmitFill, XmitUnlock, XmitStep
  <1>4. CASE mynic_interrupt
    BY <1>4 DEF mynic_interrupt, IsrStatus, IsrLock, IsrReclaim, IsrReturn, IsrStep
  <1> QED
    BY <1>1, <1>2, <1>3, <1>4 DEF Next

\* mynic_start_xmit and mynic_interrupt are never both between spin_lock and
\* spin_unlock, also when the handler comes to the CPU that transmits.
THEOREM MutualExclusion == Spec => [](LockHeld /\ ~(lock = "xmit" /\ isr = "reclaim"))
  <1>1. Init => LockHeld
    BY DEF Init, LockHeld
  <1>2. LockHeld => ~(lock = "xmit" /\ isr = "reclaim")
    BY DEF LockHeld
  <1>3. QED
    BY <1>1, <1>2, NextLockHeld, PTL DEF Spec

\* Whoever waits for priv->lock waits for a path that is inside it and free to
\* go on, unless the handler has taken the CPU from the path that holds it.
HolderCanMove ==
  /\ isr = "lock" /\ lock # "free" =>
       SelfDeadlock \/ (xmit \in {"fill", "unlock"} /\ ~Interrupted(xmitCpu))
  /\ xmit = "lock" /\ lock # "free" => isr = "reclaim"

\* An interrupt on the CPU that holds priv->lock is the only way to wait for it
\* for ever: any other holder is free to go on and give it back.
THEOREM OnlySelfDeadlock == Spec => []HolderCanMove
  <1>1. LockHeld /\ TypeOK => HolderCanMove
    BY DEF LockHeld, TypeOK, HolderCanMove, SelfDeadlock, Interrupted
  <1>2. QED
    BY <1>1, MutualExclusion, TypeCorrect, PTL

=============================================================================
