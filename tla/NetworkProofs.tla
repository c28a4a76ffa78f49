---------------------------- MODULE NetworkProofs ----------------------------
(***************************************************************************)
(* Proofs about two network drivers that share nothing.                    *)
(*                                                                         *)
(* my_pmd (MyPmd), for every ring length, every size and every number of   *)
(* packets: which packet leaves a ring that is too short, and that driver  *)
(* and device never lose step.                                             *)
(*                                                                         *)
(* myloop and simple_nic (SimpleNetdev), for any CPUs and any finite set   *)
(* of packets: every packet is counted once, and the net_device outlives   *)
(* whoever uses it.                                                        *)
(***************************************************************************)
EXTENDS MyPmd, SimpleNetdev, FiniteSetTheorems, WellFoundedInduction, TLAPS

-----------------------------------------------------------------------------
(* my_pmd: indices that wrap                                               *)

\* Quotient and remainder.
LEMMA Division ==
  ASSUME NEW N \in Nat \ {0}, NEW x \in Nat
  PROVE  /\ x % N \in 0 .. N - 1 /\ x \div N \in Int
         /\ x % N = x - N * (x \div N)
  <1>1. N \in Int /\ N > 0 /\ x \in Int
    OBVIOUS
  <1>2. x % N \in 0 .. N - 1 /\ x \div N \in Int
    BY <1>1
  <1>3. x % N = x - N * (x \div N)
    BY <1>1
  <1> QED
    BY <1>2, <1>3

\* The remainder is the only number below N that leaves a multiple of N.
LEMMA Remainder ==
  ASSUME NEW N \in Nat \ {0}, NEW x \in Nat, NEW d \in Int, NEW r \in 0 .. N - 1,
         x = N * d + r
  PROVE  x % N = r
  BY SMT

\* Advancing a wrapped index is the same as wrapping the advanced count.
LEMMA WrappedStep ==
  ASSUME NEW N \in Nat \ {0}, NEW x \in Nat
  PROVE  ((x % N) + 1) % N = (x + 1) % N
<1> DEFINE r == x % N
           d == x \div N
<1>1. r \in 0 .. N - 1 /\ d \in Int /\ r = x - N * d
  BY Division
<1> HIDE DEF r, d
<1>2. CASE r + 1 < N
  <2>1. (r + 1) % N = r + 1
    BY <1>1, <1>2
  <2>2. (x + 1) % N = r + 1
    <3>1. r + 1 \in 0 .. N - 1 /\ x + 1 \in Nat
      BY <1>1, <1>2
    <3>2. x + 1 = N * d + (r + 1)
      BY <1>1
    <3> QED
      BY <1>1, <3>1, <3>2, Remainder
  <2> QED
    BY <2>1, <2>2 DEF r
<1>3. CASE r + 1 = N
  <2>1. (r + 1) % N = 0
    BY <1>1, <1>3
  <2>2. (x + 1) % N = 0
    <3>1. d + 1 \in Int /\ 0 \in 0 .. N - 1 /\ x + 1 \in Nat
      BY <1>1
    <3>2. N * (d + 1) = N * d + N
      BY <1>1
    <3>3. x + 1 = N * (d + 1) + 0
      BY <1>1, <1>3, <3>2
    <3> QED
      BY <3>1, <3>3, Remainder
  <2> QED
    BY <2>1, <2>2 DEF r
<1> QED
  BY <1>1, <1>2, <1>3

\* Two counts less than a ring apart have different entries.
LEMMA DistinctEntries ==
  ASSUME NEW N \in Nat \ {0}, NEW x \in Nat, NEW y \in Nat, x < y, y - x < N
  PROVE  x % N # y % N
<1> DEFINE c == x \div N
           d == y \div N
<1>1. /\ c \in Int /\ x % N = x - N * c
      /\ d \in Int /\ y % N = y - N * d
  BY Division
<1> HIDE DEF c, d
<1>2. N * (d - c) = N * d - N * c
  BY <1>1
<1>3. CASE d - c <= 0
  <2>1. N * (d - c) <= 0
    BY <1>1, <1>3
  <2> QED
    BY <1>1, <1>2, <2>1
<1>4. CASE d - c >= 1
  <2>1. N * (d - c) >= N
    BY <1>1, <1>4
  <2> QED
    BY <1>1, <1>2, <2>1
<1> QED
  BY <1>1, <1>3, <1>4

-----------------------------------------------------------------------------
(* my_pmd: the inductive invariant                                         *)

Counts == [Queues -> Nat]

TypeInv ==
  /\ ready \in SUBSET Queues
  /\ size \in Counts /\ left \in Counts /\ done \in Counts /\ device \in Counts
  /\ index \in [Queues -> Entries]
  /\ ring \in [Entries -> Nat]

\* A burst runs on a queue that was set up, and only while the port runs: no
\* set-up and no new probe finds one half done.
BurstsOnStarted ==
  \A q \in Queues : left[q] > 0 => q \in ready /\ pc \in {"started", "crashed"}

\* After a wild access nothing runs that could change the sizes.
WildIsLast == wild \subseteq Queues /\ (wild # {} => pc = "crashed")

IInv == TypeInv /\ BurstsOnStarted /\ WildIsLast /\ OverrunsShortRings /\ RingsInStep

\* The state before the first probe satisfies the invariant.
LEMMA InitIInv == Init => IInv
  BY ConstantsAssumption
     DEF Init, IInv, TypeInv, Counts, BurstsOnStarted, WildIsLast, OverrunsShortRings,
         RingsInStep, Zero, Entries, Queues

\* One iteration of a burst's loop, the step on which the rings turn.
LEMMA LoopIInv ==
  ASSUME IInv, NEW q \in Queues, BurstLoop(q)
  PROVE  IInv'
<1> DEFINE N == MY_PMD_NB_DESC
           d == done["tx"]
<1>1. /\ pc = "started" /\ q \in ready
      /\ index[q] = done[q] % N /\ done[q] \in Nat /\ d \in Nat /\ device["tx"] \in Nat
      /\ left[q] \in Nat \ {0} /\ index[q] \in Entries /\ size[q] \in Nat
      /\ N \in Nat \ {0}
  BY ConstantsAssumption
     DEF IInv, TypeInv, Counts, BurstsOnStarted, RingsInStep, BurstLoop, BurstStep, Queues
<1>2. /\ done' = [done EXCEPT ![q] = done[q] + 1]
      /\ left' = [left EXCEPT ![q] = left[q] - 1]
      /\ index' = [index EXCEPT ![q] = (done[q] + 1) % N]
      /\ UNCHANGED <<ready, size, device, wire>>
  BY <1>1, WrappedStep DEF BurstLoop, BurstStep
<1>3. TypeInv'
  <2>1. done[q] + 1 \in Nat /\ left[q] - 1 \in Nat
    BY <1>1
  <2>2. (done[q] + 1) % N \in Entries
    BY <1>1, <2>1, Division DEF Entries
  <2>3. ring' \in [Entries -> Nat]
    BY <1>1, <1>2, <2>1 DEF IInv, TypeInv, Counts, BurstLoop, BurstStep
  <2> QED
    BY <1>2, <2>1, <2>2, <2>3 DEF IInv, TypeInv, Counts
<1>4. BurstsOnStarted'
  BY <1>1, <1>2 DEF IInv, TypeInv, Counts, BurstsOnStarted, BurstLoop, BurstStep
<1>5. WildIsLast' /\ OverrunsShortRings'
  <2>1. wild = {} /\ (index[q] < size[q] => wild' = {} /\ pc' = pc)
                  /\ (~(index[q] < size[q]) => wild' = {q} /\ pc' = "crashed")
    BY <1>1 DEF IInv, WildIsLast, BurstLoop, BurstStep
  <2>2. index[q] < size[q] <=> ~(size[q] < N /\ done[q] + 1 > size[q])
    <3>1. CASE size[q] >= N
      BY <1>1, <3>1 DEF Entries
    <3>2. CASE size[q] < N
      <4>1. done[q] <= size[q]
        BY <1>1, <2>1, <3>2 DEF IInv, OverrunsShortRings
      <4>2. done[q] % N = done[q]
        BY <1>1, <3>2, <4>1
      <4> QED
        BY <1>1, <3>2, <4>1, <4>2
    <3> QED
      BY <1>1, <3>1, <3>2
  <2>3. ASSUME NEW p \in ready
        PROVE  p \in wild' <=> size[p] < N /\ done'[p] > size[p]
    <3>1. CASE p = q
      BY <1>1, <1>2, <2>1, <2>2, <3>1 DEF IInv, TypeInv, Counts
    <3>2. CASE p # q
      <4>1. done'[p] = done[p] /\ p \notin wild'
        BY <1>2, <2>1, <3>2 DEF IInv, TypeInv, Counts
      <4> QED
        BY <2>1, <4>1 DEF IInv, OverrunsShortRings
    <3> QED
      BY <3>1, <3>2
  <2> QED
    BY <1>2, <2>1, <2>3 DEF WildIsLast, OverrunsShortRings
<1>6. ASSUME NEW n \in device["tx"] + 1 .. done'["tx"]
      PROVE  ring'[(n - 1) % N] = n
  <2>1. done' \in Counts /\ done'["tx"] = IF q = "tx" THEN d + 1 ELSE d
    BY <1>1, <1>2 DEF IInv, TypeInv, Counts, Queues
  <2>2. /\ n \in Nat /\ n - 1 \in Nat /\ n - 1 >= device["tx"]
        /\ n <= d \/ (q = "tx" /\ n = d + 1)
    BY <1>1, <2>1
  <2>3. (n - 1) % N \in Entries
    BY <1>1, <2>2, Division DEF Entries
  <2>4. CASE n <= d
    <3>1. ring[(n - 1) % N] = n
      BY <1>1, <2>2, <2>4 DEF IInv, RingsInStep
    <3>2. q = "tx" => d - device["tx"] < N
      BY <1>1 DEF BurstLoop, BurstStep, Available
    <3>3. q = "tx" => n - 1 < d /\ d - (n - 1) < N
      BY <1>1, <2>2, <2>4, <3>2
    <3>4. q = "tx" => (n - 1) % N # index[q]
      BY <1>1, <2>2, <3>3, DistinctEntries
    <3> QED
      BY <2>3, <3>1, <3>4 DEF BurstLoop, BurstStep
  <2>5. CASE q = "tx" /\ n = d + 1
    <3>1. n - 1 = d
      BY <1>1, <2>5
    <3> QED
      BY <1>1, <2>1, <2>3, <2>5, <3>1 DEF BurstLoop, BurstStep
  <2> QED
    BY <2>2, <2>4, <2>5
<1>7. \A p \in ready : index'[p] = done'[p] % N
  BY <1>1, <1>2 DEF IInv, TypeInv, Counts, RingsInStep
<1>8. RingsInStep'
  BY <1>2, <1>6, <1>7 DEF IInv, RingsInStep
<1> QED
  BY <1>3, <1>4, <1>5, <1>8 DEF IInv

\* Every step of the application, the lcores and the device keeps it.
LEMMA NextIInv == IInv /\ [Next]_vars => IInv'
<1> SUFFICES ASSUME IInv, [Next]_vars
             PROVE  IInv'
  OBVIOUS
<1> USE ConstantsAssumption
        DEF IInv, TypeInv, Counts, BurstsOnStarted, WildIsLast, OverrunsShortRings,
            RingsInStep, Queues, queues
<1>1. CASE BeginProbe \/ MapResource \/ MacAddress
  BY <1>1 DEF BeginProbe, MapResource, MacAddress, Step
<1>2. CASE Allocate
  <2>1. CASE Step("ethdev", "mac")
    <3>1. TypeInv'
      BY <1>2, <2>1 DEF Allocate, Step, Zero, Entries
    <3>2. BurstsOnStarted' /\ WildIsLast' /\ OverrunsShortRings'
      BY <1>2, <2>1 DEF Allocate, Step, Zero
    <3>3. RingsInStep'
      BY <1>2, <2>1 DEF Allocate, Step
    <3> QED
      BY <3>1, <3>2, <3>3
  <2>2. CASE Step("ethdev", "unbound")
    BY <1>2, <2>2 DEF Allocate, Step
  <2> QED
    BY <1>2, <2>1, <2>2 DEF Allocate
<1>3. CASE my_pmd_start \/ my_pmd_stop \/ my_pmd_link_update \/ my_pmd_pci_remove
  <2>1. UNCHANGED queues
    BY <1>3 DEF my_pmd_start, my_pmd_stop, my_pmd_link_update, my_pmd_pci_remove
  <2>2. BurstsOnStarted' /\ WildIsLast'
    BY <1>3 DEF my_pmd_start, my_pmd_stop, my_pmd_link_update, my_pmd_pci_remove,
                Step, Idle
  <2> QED
    BY <2>1, <2>2
<1>4. ASSUME NEW q \in Queues, QueueSetup(q)
      PROVE  IInv'
  <2>1. TypeInv'
    BY <1>4 DEF QueueSetup, QueueSetupFrom, Entries
  <2>2. BurstsOnStarted' /\ WildIsLast' /\ OverrunsShortRings'
    BY <1>4 DEF QueueSetup, QueueSetupFrom
  <2>3. RingsInStep'
    <3>1. 0 % MY_PMD_NB_DESC = 0
      BY Division
    <3>2. CASE q = "rx"
      BY <1>4, <3>1, <3>2 DEF QueueSetup, QueueSetupFrom
    <3>3. CASE q = "tx"
      BY <1>4, <3>1, <3>3 DEF QueueSetup, QueueSetupFrom
    <3> QED
      BY <3>2, <3>3
  <2> QED
    BY <2>1, <2>2, <2>3
<1>5. ASSUME NEW q \in Queues, BurstLoop(q)
      PROVE  IInv'
  BY <1>5, LoopIInv
<1>6. ASSUME NEW q \in Queues, BurstReturn(q)
      PROVE  IInv'
  BY <1>6 DEF BurstReturn
<1>7. ASSUME NEW q \in Queues, NEW n \in 1 .. MaxBurst, BurstBegin(q, n)
      PROVE  IInv'
  BY <1>7 DEF BurstBegin
<1>8. CASE DeviceReceive
  BY <1>8 DEF DeviceReceive
<1>9. CASE DeviceSend
  <2>1. TypeInv' /\ BurstsOnStarted' /\ WildIsLast' /\ OverrunsShortRings'
    BY <1>9 DEF DeviceSend
  <2>2. device["tx"] \in Nat /\ ring[device["tx"] % MY_PMD_NB_DESC] = device["tx"] + 1
    BY <1>9 DEF DeviceSend
  <2>3. wire' = [n \in 1 .. device'["tx"] |-> n]
    BY <1>9, <2>2 DEF DeviceSend
  <2>4. device'["tx"] = device["tx"] + 1 /\ done' = done /\ done["tx"] \in Nat
    BY <1>9 DEF DeviceSend
  <2>5. \A n \in device'["tx"] + 1 .. done'["tx"] : ring'[(n - 1) % MY_PMD_NB_DESC] = n
    BY <1>9, <2>2, <2>4 DEF DeviceSend
  <2>6. \A q \in ready' : index'[q] = done'[q] % MY_PMD_NB_DESC
    BY <1>9 DEF DeviceSend
  <2> QED
    BY <2>1, <2>3, <2>5, <2>6
<1>10. CASE UNCHANGED vars
  BY <1>10 DEF vars
<1> QED
  BY <1>1, <1>2, <1>3, <1>4, <1>5, <1>6, <1>7, <1>8, <1>9, <1>10
     DEF Next, my_pmd_burst

\* The invariant holds throughout.
THEOREM Invariance == Spec => []IInv
  BY InitIInv, NextIInv, PTL DEF Spec

-----------------------------------------------------------------------------
(* What follows from it                                                    *)

\* For every length asked for, my_pmd_rx_burst and my_pmd_tx_burst leave their
\* ring at one packet and at no other: the one after the last entry of a ring
\* with fewer than MY_PMD_NB_DESC entries.
THEOREM BurstsOverrun == Spec => []OverrunsShortRings
  BY Invariance, PTL DEF IInv

\* For every number of descriptors and of packets, rx_head and tx_tail point to
\* the entry the device is at, and the device sends what the transmit bursts
\* queued, in their order, each packet once and none overwritten.
THEOREM InStep == Spec => []RingsInStep
  BY Invariance, PTL DEF IInv

-----------------------------------------------------------------------------
(* The sum of the lengths of a set of packets                              *)

\* What SimpleNetdev compares the byte counters with.
ByteSum(S) == MapThenSumSet(LAMBDA p : Length[p], S)

\* The bytes of the packets in S, one element for each.
Bytes(S) == UNION {{p} \X (1 .. Length[p]) : p \in S}

\* One packet of n bytes has n of them.
LEMMA BytesOfOne ==
  ASSUME NEW p, NEW n \in Nat
  PROVE  LET A == {p} \X (1 .. n) IN IsFiniteSet(A) /\ Cardinality(A) = n
  <1>1. IsFiniteSet({p}) /\ Cardinality({p}) = 1
    BY FS_Singleton
  <1>2. IsFiniteSet(1 .. n) /\ Cardinality(1 .. n) = n
    BY FS_Interval
  <1> DEFINE P == {p}
             B == 1 .. n
  <1> HIDE DEF P, B
  <1>3. IsFiniteSet(P \X B) /\ Cardinality(P \X B) = Cardinality(P) * Cardinality(B)
    BY <1>1, <1>2, FS_Product DEF P, B
  <1> QED
    BY <1>1, <1>2, <1>3 DEF P, B

\* The bytes of finitely many packets are finitely many, and another packet adds
\* as many as it is long.
LEMMA BytesOf ==
  ASSUME NEW S \in SUBSET Packets
  PROVE  /\ IsFiniteSet(Bytes(S)) /\ Cardinality(Bytes(S)) \in Nat
         /\ \A p \in S :
              Cardinality(Bytes(S)) = Length[p] + Cardinality(Bytes(S \ {p}))
  <1>1. ASSUME NEW T \in SUBSET Packets
        PROVE  IsFiniteSet(Bytes(T))
    <2> DEFINE f == [p \in T |-> {p} \X (1 .. Length[p])]
               R == {f[p] : p \in T}
    <2>1. IsFiniteSet(T)
      BY FS_Subset, NetAssumption
    <2>2. \A p \in T : IsFiniteSet(f[p])
      BY BytesOfOne, NetAssumption
    <2>3. UNION R = Bytes(T)
      BY DEF Bytes
    <2> HIDE DEF f
    <2>4. [p \in T |-> f[p]] \in Surjection(T, R)
      BY DEF Surjection
    <2>5. IsFiniteSet(R) /\ \A r \in R : IsFiniteSet(r)
      BY <2>1, <2>2, <2>4, FS_Surjection
    <2> QED
      BY <2>3, <2>5, FS_UNION
  <1>2. ASSUME NEW p \in S
        PROVE  Cardinality(Bytes(S)) = Length[p] + Cardinality(Bytes(S \ {p}))
    <2> DEFINE A == {p} \X (1 .. Length[p])
               B == Bytes(S \ {p})
    <2>1. Length[p] \in Nat
      BY NetAssumption
    <2>2. IsFiniteSet(A) /\ Cardinality(A) = Length[p]
      BY <2>1, BytesOfOne
    <2>3. IsFiniteSet(B) /\ Cardinality(B) \in Nat
      BY <1>1, FS_CardinalityType
    <2>4. A \cap B = {} /\ Bytes(S) = A \cup B
      BY DEF Bytes
    <2> HIDE DEF A, B
    <2>5. Cardinality(A \cup B) = Cardinality(A) + Cardinality(B) - Cardinality(A \cap B)
      BY <2>2, <2>3, FS_Union
    <2>6. Cardinality(A \cap B) = 0
      BY <2>4, FS_EmptySet
    <2> QED
      BY <2>1, <2>2, <2>3, <2>4, <2>5, <2>6 DEF B
  <1> QED
    BY <1>1, <1>2, FS_CardinalityType

\* MapThenSumSet computes the number of those bytes: that number solves the
\* equation of its recursion, and no smallest set has another solution.
LEMMA SumCounts ==
  ASSUME NEW S \in SUBSET Packets
  PROVE  ByteSum(S) = Cardinality(Bytes(S))
  <1> DEFINE Pick(s) == CHOOSE x \in s : TRUE
             Solves(g) == g = [s \in SUBSET S |->
               IF s = {} THEN 0 ELSE Length[Pick(s)] + g[s \ {Pick(s)}]]
             bytes == [s \in SUBSET S |-> Cardinality(Bytes(s))]
             iter == CHOOSE g : Solves(g)
  <1>1. \A s \in SUBSET S : s # {} => Pick(s) \in s /\ s \ {Pick(s)} \in SUBSET S
    OBVIOUS
  <1>2. Bytes({}) = {} /\ Cardinality(Bytes({})) = 0
    BY FS_EmptySet DEF Bytes
  <1>3. ByteSum(S) = iter[S]
    BY DEF ByteSum, MapThenSumSet, MapThenFoldSet
  <1> HIDE DEF Pick
  <1>4. Solves(bytes)
    <2>1. ASSUME NEW s \in SUBSET S
          PROVE  Cardinality(Bytes(s)) =
                   IF s = {} THEN 0 ELSE Length[Pick(s)] + bytes[s \ {Pick(s)}]
      BY <1>1, <1>2, BytesOf
    <2> QED
      BY <2>1
  <1>5. Solves(iter)
    BY <1>4
  <1> HIDE DEF iter
  <1>6. \A s \in SUBSET S : iter[s] = Cardinality(Bytes(s))
    <2> DEFINE Bad == {s \in SUBSET S : iter[s] # Cardinality(Bytes(s))}
    <2> SUFFICES ASSUME Bad # {} PROVE FALSE
      OBVIOUS
    <2>1. IsFiniteSet(S) /\ FiniteSubsetsOf(S) = SUBSET S
      BY FS_Subset, FS_FiniteSubsetsOfFinite, NetAssumption
    <2>2. Bad \subseteq FiniteSubsetsOf(S)
      BY <2>1
    <2>3. \E s \in Bad : \A t \in Bad : <<t, s>> \notin StrictSubsetOrdering(S)
      <3> HIDE DEF Bad
      <3> QED
        BY <2>2, WFMin, FS_StrictSubsetOrderingWellFounded
    <2>4. PICK s \in Bad : \A t \in Bad : <<t, s>> \notin StrictSubsetOrdering(S)
      BY <2>3
    <2>5. s # {}
      BY <1>2, <1>5
    <2>6. Pick(s) \in s /\ s \ {Pick(s)} \in SUBSET S
      BY <1>1, <2>5
    <2>7. <<s \ {Pick(s)}, s>> \in StrictSubsetOrdering(S)
      BY <2>6 DEF StrictSubsetOrdering
    <2>8. iter[s \ {Pick(s)}] = Cardinality(Bytes(s \ {Pick(s)}))
      BY <2>4, <2>6, <2>7
    <2>9. iter[s] = Length[Pick(s)] + Cardinality(Bytes(s \ {Pick(s)}))
      BY <1>5, <2>5, <2>8
    <2> QED
      BY <2>6, <2>9, BytesOf
  <1> QED
    BY <1>3, <1>6

\* A packet more is counted by one, and its bytes by its length.
LEMMA OneMore ==
  ASSUME NEW S \in SUBSET Packets, NEW p \in S
  PROVE  /\ Cardinality(S) = Cardinality(S \ {p}) + 1 /\ ByteSum(S) = ByteSum(S \ {p}) + Length[p]
         /\ Cardinality(S \ {p}) \in Nat /\ ByteSum(S \ {p}) \in Nat
  <1>1. IsFiniteSet(S) /\ IsFiniteSet(S \ {p})
    BY FS_Subset, NetAssumption
  <1>2. Cardinality(S) = Cardinality(S \ {p}) + 1 /\ Cardinality(S \ {p}) \in Nat
    BY <1>1, FS_RemoveElement, FS_CardinalityType
  <1>3. /\ ByteSum(S) = Cardinality(Bytes(S))
        /\ ByteSum(S \ {p}) = Cardinality(Bytes(S \ {p})) /\ ByteSum(S \ {p}) \in Nat
    BY SumCounts, BytesOf
  <1>4. Length[p] \in Nat /\ ByteSum(S) = Length[p] + ByteSum(S \ {p})
    BY <1>3, BytesOf, NetAssumption
  <1> QED
    BY <1>2, <1>3, <1>4

\* Of no packets there is none, with no bytes.
LEMMA NoPackets ==
  Cardinality({}) = 0 /\ ByteSum({}) = 0
  <1>1. Bytes({}) = {}
    BY DEF Bytes
  <1> QED
    BY <1>1, SumCounts, FS_EmptySet

-----------------------------------------------------------------------------
(* myloop and simple_nic: the inductive invariant                          *)

\* The type of each variable.
NetTypeInv ==
  /\ drv \in {"myloop", "simple_nic"}
  /\ at \in {"unbound", "netdev", "registered", "probed", "bound", "unregister",
             "flush", "free", "return", "oops"}
  /\ held \in SUBSET {"netdev", "registered"}
  /\ up \in BOOLEAN
  /\ xmit \in [Cpus -> 0 .. 9] /\ packet \in [Cpus -> Packets] /\ temp \in [Cpus -> Nat]
  /\ skb \in [Packets -> {"stack", "driver", "backlog", "freed"}]
  /\ stats \in [{"tx_packets", "tx_bytes", "rx_packets", "rx_bytes"} -> Nat]
  /\ early \in SUBSET Packets

\* What is held at each place of the thread that loads and unloads.
NetHeld ==
  /\ "netdev" \in held <=>
       at \in {"registered", "probed", "bound", "unregister", "flush", "free"}
  /\ "registered" \in held <=> at \in {"probed", "bound", "unregister", "flush"}

\* An interface that is up is registered, and only then are there packets under
\* way: a new net_device finds none of an old one.
NetInUse ==
  /\ up => "registered" \in held /\ at # "flush"
  /\ (\E c \in Cpus : xmit[c] # 0) => up
  /\ (\E p \in Packets : skb[p] = "backlog") => "registered" \in held

\* The lock of the queue, and how far the CPU that has it is with its packet.
NetTransmit ==
  /\ \A c, d \in Transmitting : c = d
  /\ \A c \in Transmitting :
       /\ drv = "simple_nic" => xmit[c] = 1
       /\ xmit[c] = 1 => skb[packet[c]] = "driver"
       /\ xmit[c] > 1 => \/ skb[packet[c]] = "backlog"
                         \/ skb[packet[c]] = "freed" /\ packet[c] \in early
       /\ xmit[c] = 3 => temp[c] = stats["tx_packets"]
       /\ xmit[c] = 5 => temp[c] = stats["tx_bytes"]
       /\ xmit[c] = 7 => temp[c] = stats["rx_packets"]
       /\ xmit[c] = 9 => temp[c] = stats["rx_bytes"]
  /\ \A p \in Packets : skb[p] = "driver" => \E c \in Transmitting : packet[c] = p

\* The packets the driver has been given.
Taken == {p \in Packets : skb[p] # "stack"}

\* The packets the n-th of the counters shows: all that the driver has taken, but
\* for the one whose turn at this counter is still to come.
Counted(n) ==
  IF \E c \in Transmitting : xmit[c] > 2 * n + 1
    THEN Taken ELSE Taken \ {packet[c] : c \in Transmitting}

\* Each counter is the number, or the bytes, of the packets it shows.
NetCounts ==
  drv = "myloop" =>
    /\ stats["tx_packets"] = Cardinality(Counted(1))
    /\ stats["rx_packets"] = Cardinality(Counted(3))
    /\ early = {} => /\ stats["tx_bytes"] = ByteSum(Counted(2))
                     /\ stats["rx_bytes"] = ByteSum(Counted(4))

\* The counters say what was taken because one CPU at a time adds to them, and the
\* value it adds to is still the counter's.
NetInv == NetTypeInv /\ NetHeld /\ NetInUse /\ NetTransmit /\ NetCounts

-----------------------------------------------------------------------------

\* The counters by name and by the order of their updates.
LEMMA FieldNames ==
  /\ Fields = {"tx_packets", "tx_bytes", "rx_packets", "rx_bytes"}
  /\ Counters[1] = "tx_packets" /\ Counters[2] = "tx_bytes"
  /\ Counters[3] = "rx_packets" /\ Counters[4] = "rx_bytes"
  BY DEF Fields, Counters

\* Before the first load the invariant holds.
LEMMA NetInitInv == ASSUME NetInit PROVE NetInv
  <1> USE DEF NetInit
  <1>1. up \in BOOLEAN
    OBVIOUS
  <1>2. (CHOOSE p \in Packets : TRUE) \in Packets
    BY NetAssumption
  <1>3. NetTypeInv
    <2>1. packet \in [Cpus -> Packets]
      BY <1>2
    <2>2. stats \in [{"tx_packets", "tx_bytes", "rx_packets", "rx_bytes"} -> Nat]
      BY FieldNames
    <2> QED
      BY <1>1, <2>1, <2>2 DEF NetTypeInv
  <1>4. Transmitting = {} /\ \A n : Counted(n) = {}
    BY DEF Transmitting, Counted, Taken
  <1>5. NetHeld /\ NetInUse /\ NetTransmit
    BY <1>4 DEF NetHeld, NetInUse, NetTransmit
  <1>6. NetCounts
    BY <1>4, FieldNames, NoPackets DEF NetCounts
  <1> QED
    BY <1>3, <1>5, <1>6 DEF NetInv

\* A step that leaves the traffic alone keeps what is said about it.
LEMMA TrafficUntouched ==
  ASSUME NetInv, UNCHANGED drv, UNCHANGED traffic
  PROVE  NetTransmit' /\ NetCounts'
  <1>1. Transmitting' = Transmitting /\ \A n : Counted(n)' = Counted(n)
    BY DEF Transmitting, Counted, Taken, traffic
  <1>2. NetTransmit'
    BY <1>1 DEF traffic, NetInv, NetTransmit
  <1>3. NetCounts'
    BY <1>1 DEF traffic, NetInv, NetCounts
  <1> QED
    BY <1>2, <1>3

\* The steps of the thread that loads and unloads keep the invariant.
LEMMA ThreadNet ==
  ASSUME NetInv, BeginLoad \/ BeginRemove \/ Thread
  PROVE  NetInv'
  <1> USE DEF ThreadStep, Goto
  <1>1. NetTypeInv /\ NetHeld /\ NetInUse
    BY DEF NetInv
  <1>2. ASSUME UNCHANGED drv, UNCHANGED traffic, NetHeld', NetInUse',
               up' \in BOOLEAN,
               held' \in SUBSET {"netdev", "registered"},
               at' \in {"unbound", "netdev", "registered", "probed", "bound", "unregister",
                        "flush", "free", "return", "oops"}
        PROVE  NetInv'
    <2>1. NetTypeInv'
      BY <1>1, <1>2 DEF NetTypeInv, traffic
    <2> QED
      BY <1>2, <2>1, TrafficUntouched DEF NetInv
  <1>3. CASE BeginLoad \/ BeginRemove \/ ProbeReturn \/ Return
    BY <1>1, <1>2, <1>3 DEF NetTypeInv, NetHeld, NetInUse, BeginLoad, BeginRemove,
       ProbeReturn, Return, traffic
  <1>4. CASE AllocNetdev
    <2>1. CASE /\ Goto("netdev", "registered") /\ NewTraffic
               /\ held' = held \cup {"netdev"} /\ UNCHANGED up
      <3>1. Transmitting = {} /\ Transmitting' = {} /\ \A n : Counted(n)' = {}
        BY <1>1, <2>1 DEF NetHeld, NetInUse, Transmitting, Counted, Taken,
           NewTraffic
      <3>2. stats' \in [{"tx_packets", "tx_bytes", "rx_packets", "rx_bytes"} -> Nat]
            /\ \A f \in {"tx_packets", "tx_bytes", "rx_packets", "rx_bytes"} : stats'[f] = 0
        BY <2>1, FieldNames DEF NewTraffic
      <3>3. skb' = [p \in Packets |-> "stack"] /\ early' = {}
        BY <2>1 DEF NewTraffic
      <3>4. NetTypeInv'
        <4>1. up' \in BOOLEAN
          BY <1>1, <2>1 DEF NetTypeInv
        <4> QED
          BY <1>1, <2>1, <3>2, <3>3, <4>1 DEF NetTypeInv, NewTraffic
      <3>5. NetHeld' /\ NetInUse'
        BY <1>1, <2>1, <3>3 DEF NetHeld, NetInUse, NewTraffic
      <3>6. NetTransmit'
        BY <3>1, <3>3 DEF NetTransmit
      <3>7. NetCounts'
        BY <3>1, <3>2, NoPackets DEF NetCounts
      <3> QED
        BY <3>4, <3>5, <3>6, <3>7 DEF NetInv
    <2>2. CASE UNCHANGED held /\ UNCHANGED up
               /\ ThreadStep("netdev", IF drv = "myloop" THEN "oops" ELSE "return")
      BY <1>1, <1>2, <2>2 DEF NetTypeInv, NetHeld, NetInUse, traffic
    <2> QED
      BY <1>4, <2>1, <2>2 DEF AllocNetdev
  <1>5. CASE Register
    BY <1>1, <1>2, <1>5 DEF Register, NetTypeInv, NetHeld, NetInUse, traffic
  <1>6. CASE UnregisterStop
    BY <1>1, <1>2, <1>6 DEF UnregisterStop, NetTypeInv, NetHeld, NetInUse, traffic,
       Transmitting
  <1>7. CASE Unregister
    BY <1>1, <1>2, <1>7 DEF Unregister, NetTypeInv, NetHeld, NetInUse, traffic,
       InBacklog
  <1>8. CASE FreeNetdev
    BY <1>1, <1>2, <1>8 DEF FreeNetdev, NetTypeInv, NetHeld, NetInUse, traffic
  <1> QED
    BY <1>3, <1>4, <1>5, <1>6, <1>7, <1>8 DEF Thread

\* Opening and stopping the interface keep it.
LEMMA OpenNet ==
  ASSUME NetInv, Open \/ Stop
  PROVE  NetInv'
  <1>1. NetTypeInv /\ NetHeld /\ NetInUse
    BY DEF NetInv
  <1>2. UNCHANGED <<drv, at, held>> /\ UNCHANGED traffic /\ up' \in BOOLEAN
    BY DEF Open, Stop
  <1>3. NetTypeInv' /\ NetHeld'
    BY <1>1, <1>2 DEF NetTypeInv, NetHeld, traffic
  <1>4. NetInUse'
    BY <1>1, <1>2 DEF NetInUse, Open, Stop, traffic, Transmitting
  <1> QED
    BY <1>2, <1>3, <1>4, TrafficUntouched DEF NetInv

\* The CPU that takes a step in a transmit function is the only one in it, and
\* after the step it still is, or nobody is.
LEMMA XmitStepNet ==
  ASSUME NetInv, NEW c \in Transmitting, NEW to \in 0 .. 9, XmitStep(c, to)
  PROVE  /\ c \in Cpus /\ xmit[c] \in 1 .. 9 /\ Transmitting = {c} /\ xmit'[c] = to
         /\ Transmitting' = IF to = 0 THEN {} ELSE {c}
         /\ packet[c] \in Packets /\ packet' = packet
         /\ xmit' \in [Cpus -> 0 .. 9]
  <1>1. c \in Cpus /\ xmit[c] \in 1 .. 9 /\ Transmitting = {c}
    BY DEF NetInv, NetTypeInv, NetTransmit, Transmitting
  <1>2. /\ xmit' \in [Cpus -> 0 .. 9]
        /\ \A d \in Cpus : xmit'[d] = IF d = c THEN to ELSE xmit[d]
    BY <1>1 DEF NetInv, NetTypeInv, XmitStep
  <1>3. Transmitting' = IF to = 0 THEN {} ELSE {c}
    BY <1>1, <1>2 DEF Transmitting
  <1> QED
    BY <1>1, <1>2, <1>3 DEF XmitStep, NetInv, NetTypeInv

\* Taking a packet from the stack keeps it.
LEMMA BeginNet ==
  ASSUME NetInv, NEW c \in Cpus, NEW p \in Packets, XmitBegin(c, p)
  PROVE  NetInv'
  <1> USE DEF XmitBegin, XmitBeginWhen
  <1>1. NetTypeInv /\ NetHeld /\ NetInUse /\ NetTransmit /\ NetCounts
    BY DEF NetInv
  <1>2. NetTypeInv'
    BY <1>1 DEF NetTypeInv
  <1>3. /\ \A d \in Cpus : xmit'[d] = IF d = c THEN 1 ELSE xmit[d]
        /\ packet'[c] = p
        /\ \A q \in Packets : skb'[q] = IF q = p THEN "driver" ELSE skb[q]
    BY <1>1 DEF NetTypeInv
  <1>4. Transmitting = {} /\ Transmitting' = {c}
    BY <1>3 DEF Transmitting
  <1>5. NetHeld' /\ NetInUse'
    BY <1>1, <1>3 DEF NetHeld, NetInUse
  <1>6. NetTransmit'
    BY <1>1, <1>3, <1>4 DEF NetTransmit
  <1>7. Taken' = Taken \cup {p} /\ p \notin Taken
    BY <1>3 DEF Taken
  <1>8. \A n \in 1 .. 4 : Counted(n)' = Counted(n)
    BY <1>3, <1>4, <1>7 DEF Counted
  <1>9. NetCounts'
    BY <1>1, <1>8 DEF NetCounts
  <1> QED
    BY <1>2, <1>5, <1>6, <1>9 DEF NetInv

\* simple_nic's transmit function keeps it.
LEMMA MynicXmitNet ==
  ASSUME NetInv, NEW c \in Cpus, mynic_xmit(c)
  PROVE  NetInv'
  <1> USE DEF mynic_xmit
  <1>1. NetTypeInv /\ NetHeld /\ NetInUse /\ NetTransmit
    BY DEF NetInv
  <1>2. c \in Transmitting
    BY DEF Transmitting
  <1>3. /\ Transmitting = {c} /\ Transmitting' = {} /\ packet' = packet
        /\ packet[c] \in Packets /\ xmit' \in [Cpus -> 0 .. 9]
    BY <1>2, XmitStepNet
  <1>4. UNCHANGED <<drv, at, held, up>>
    BY DEF XmitStep
  <1>5. \A q \in Packets : skb'[q] = IF q = packet[c] THEN "freed" ELSE skb[q]
    BY <1>1, <1>3 DEF NetTypeInv
  <1>6. NetTypeInv'
    <2>1. up' \in BOOLEAN
      BY <1>1, <1>4 DEF NetTypeInv
    <2>2. skb' \in [Packets -> {"stack", "driver", "backlog", "freed"}]
      BY <1>1, <1>3 DEF NetTypeInv
    <2> QED
      BY <1>1, <1>3, <1>4, <2>1, <2>2 DEF NetTypeInv
  <1>7. NetHeld' /\ NetInUse'
    BY <1>1, <1>3, <1>4, <1>5 DEF NetHeld, NetInUse, Transmitting
  <1>8. NetTransmit'
    BY <1>1, <1>3, <1>5 DEF NetTransmit
  <1>9. NetCounts'
    BY <1>4 DEF NetCounts
  <1> QED
    BY <1>6, <1>7, <1>8, <1>9 DEF NetInv

\* Handing the packet to netif_rx keeps it: it is not counted yet.
LEMMA GiveNet ==
  ASSUME NetInv, NEW c \in Cpus, MyloopGive(c)
  PROVE  NetInv'
  <1> USE DEF MyloopGive
  <1>1. NetTypeInv /\ NetHeld /\ NetInUse /\ NetTransmit /\ NetCounts
    BY DEF NetInv
  <1>2. c \in Transmitting
    BY DEF Transmitting
  <1>3. /\ Transmitting = {c} /\ Transmitting' = {c} /\ packet' = packet
        /\ packet[c] \in Packets /\ xmit' \in [Cpus -> 0 .. 9] /\ xmit'[c] = 2
    BY <1>2, XmitStepNet
  <1>4. UNCHANGED <<drv, at, held, up>>
    BY DEF XmitStep
  <1>5. PICK v \in {"backlog", "freed"} :
          /\ skb' = [skb EXCEPT ![packet[c]] = v]
          /\ v = "backlog" => early' = early
          /\ v = "freed" => early' = early \cup {packet[c]}
    OBVIOUS
  <1>6. /\ \A q \in Packets : skb'[q] = IF q = packet[c] THEN v ELSE skb[q]
        /\ skb' \in [Packets -> {"stack", "driver", "backlog", "freed"}]
    BY <1>1, <1>3, <1>5 DEF NetTypeInv
  <1>7. NetTypeInv'
    <2>1. up' \in BOOLEAN
      BY <1>1, <1>4 DEF NetTypeInv
    <2> QED
      BY <1>1, <1>3, <1>4, <1>5, <1>6, <2>1 DEF NetTypeInv
  <1>8. NetHeld' /\ NetInUse'
    BY <1>1, <1>2, <1>3, <1>4, <1>6 DEF NetHeld, NetInUse, Transmitting
  <1>9. NetTransmit'
    <2>1. skb'[packet[c]] = v /\ (v = "freed" => packet[c] \in early')
      BY <1>3, <1>5, <1>6
    <2>2. \A q \in Packets : skb'[q] # "driver"
      BY <1>1, <1>3, <1>5, <1>6 DEF NetTransmit
    <2> QED
      BY <1>3, <1>4, <2>1, <2>2 DEF NetTransmit
  <1>10. Taken' = Taken
    BY <1>1, <1>2, <1>3, <1>6 DEF Taken, NetTransmit
  <1>11. \A n \in 1 .. 4 : Counted(n)' = Counted(n)
    BY <1>3, <1>10 DEF Counted
  <1>12. early' = {} => early = {}
    BY <1>5
  <1>13. NetCounts'
    BY <1>1, <1>4, <1>11, <1>12 DEF NetCounts
  <1> QED
    BY <1>7, <1>8, <1>9, <1>13 DEF NetInv

\* Reading a counter keeps it.
LEMMA ReadNet ==
  ASSUME NetInv, NEW c \in Cpus, MyloopRead(c)
  PROVE  NetInv'
  <1> USE DEF MyloopRead
  <1>1. NetTypeInv /\ NetHeld /\ NetInUse /\ NetTransmit /\ NetCounts
    BY DEF NetInv
  <1>2. c \in Transmitting /\ xmit[c] \in {2, 4, 6, 8} /\ xmit[c] + 1 \in 0 .. 9
    BY <1>1 DEF Transmitting, NetTypeInv
  <1>3. /\ Transmitting = {c} /\ Transmitting' = {c} /\ packet' = packet
        /\ packet[c] \in Packets /\ xmit' \in [Cpus -> 0 .. 9] /\ xmit'[c] = xmit[c] + 1
    BY <1>2, XmitStepNet
  <1>4. UNCHANGED <<drv, at, held, up, skb, stats, early>>
    BY DEF XmitStep
  <1>5. /\ xmit[c] = 2 => Counter(c) = "tx_packets"
        /\ xmit[c] = 4 => Counter(c) = "tx_bytes"
        /\ xmit[c] = 6 => Counter(c) = "rx_packets"
        /\ xmit[c] = 8 => Counter(c) = "rx_bytes"
    BY FieldNames DEF Counter
  <1>6. temp' \in [Cpus -> Nat] /\ temp'[c] = stats[Counter(c)]
    BY <1>1, <1>2, <1>5 DEF NetTypeInv
  <1>7. NetTypeInv'
    <2>1. up' \in BOOLEAN
      BY <1>1, <1>4 DEF NetTypeInv
    <2> QED
      BY <1>1, <1>3, <1>4, <1>6, <2>1 DEF NetTypeInv
  <1>8. NetHeld' /\ NetInUse'
    BY <1>1, <1>2, <1>3, <1>4 DEF NetHeld, NetInUse, Transmitting
  <1>9. NetTransmit'
    BY <1>1, <1>2, <1>3, <1>4, <1>5, <1>6 DEF NetTransmit
  <1>10. Taken' = Taken
    BY <1>4 DEF Taken
  <1>11. \A n \in 1 .. 4 : Counted(n)' = Counted(n)
    BY <1>2, <1>3, <1>10 DEF Counted
  <1>12. NetCounts'
    BY <1>1, <1>4, <1>11 DEF NetCounts
  <1> QED
    BY <1>7, <1>8, <1>9, <1>12 DEF NetInv

\* Writing a counter keeps it: the value read is still the one the counter has,
\* and the packet is what it was short of.
LEMMA WriteNet ==
  ASSUME NetInv, NEW c \in Cpus, MyloopWrite(c)
  PROVE  NetInv'
  <1> DEFINE k == xmit[c]
             to == IF k = 9 THEN 0 ELSE k + 1
             f == Counter(c)
  <1>1. NetTypeInv /\ NetHeld /\ NetInUse /\ NetTransmit /\ NetCounts
    BY DEF NetInv
  <1>2. c \in Transmitting /\ k \in {3, 5, 7, 9} /\ to \in 0 .. 9 /\ XmitStep(c, to)
    BY <1>1 DEF Transmitting, NetTypeInv, MyloopWrite
  <1>3. /\ Transmitting = {c} /\ Transmitting' = (IF to = 0 THEN {} ELSE {c})
        /\ packet' = packet /\ packet[c] \in Packets
        /\ xmit' \in [Cpus -> 0 .. 9] /\ xmit'[c] = to
    BY <1>2, XmitStepNet
  <1>4. UNCHANGED <<drv, at, held, up, skb, temp, early>>
    BY DEF XmitStep, MyloopWrite
  <1>5. /\ drv = "myloop" /\ temp[c] = stats[f] /\ packet[c] \in Taken
        /\ f = IF k = 3 THEN "tx_packets" ELSE IF k = 5 THEN "tx_bytes"
               ELSE IF k = 7 THEN "rx_packets" ELSE "rx_bytes"
        /\ early = {} => skb[packet[c]] # "freed"
        /\ \A q \in Packets : skb[q] # "driver"
    <2>1. f = IF k = 3 THEN "tx_packets" ELSE IF k = 5 THEN "tx_bytes"
              ELSE IF k = 7 THEN "rx_packets" ELSE "rx_bytes"
      BY <1>2, FieldNames DEF Counter
    <2>2. drv = "myloop" /\ temp[c] = stats[f]
      BY <1>1, <1>2, <2>1 DEF NetTypeInv, NetTransmit
    <2>3. packet[c] \in Taken /\ (early = {} => skb[packet[c]] # "freed")
      BY <1>1, <1>2, <1>3 DEF NetTransmit, Taken
    <2>4. \A q \in Packets : skb[q] # "driver"
      BY <1>1, <1>2, <1>3 DEF NetTransmit
    <2> QED
      BY <2>1, <2>2, <2>3, <2>4
  <1> HIDE DEF f
  <1>6. PICK m \in Nat :
          /\ stats' = [stats EXCEPT ![f] = stats[f] + m]
          /\ k \in {3, 7} => m = 1
          /\ k \in {5, 9} /\ early = {} => m = Length[packet[c]]
    <2>1. PICK m \in IF f \in {"tx_packets", "rx_packets"}
                       THEN {1} ELSE LengthsRead(packet[c]) :
            stats' = [stats EXCEPT ![f] = temp[c] + m]
      BY DEF MyloopWrite, f
    <2>2. Length[packet[c]] \in Nat
      BY <1>3, NetAssumption
    <2>3. /\ m \in Nat /\ (k \in {3, 7} => m = 1)
          /\ k \in {5, 9} /\ early = {} => m = Length[packet[c]]
      BY <1>2, <1>5, <2>1, <2>2 DEF LengthsRead
    <2> QED
      BY <1>5, <2>1, <2>3
  <1>7. /\ stats' \in [{"tx_packets", "tx_bytes", "rx_packets", "rx_bytes"} -> Nat]
        /\ \A g \in {"tx_packets", "tx_bytes", "rx_packets", "rx_bytes"} :
             stats'[g] = IF g = f THEN stats[g] + m ELSE stats[g]
    BY <1>1, <1>5, <1>6 DEF NetTypeInv
  <1>8. NetTypeInv'
    <2>1. up' \in BOOLEAN
      BY <1>1, <1>4 DEF NetTypeInv
    <2> QED
      BY <1>1, <1>3, <1>4, <1>7, <2>1 DEF NetTypeInv
  <1>9. NetHeld' /\ NetInUse'
    BY <1>1, <1>2, <1>3, <1>4 DEF NetHeld, NetInUse, Transmitting
  <1>10. NetTransmit'
    <2>1. CASE to = 0
      BY <1>3, <1>4, <1>5, <2>1 DEF NetTransmit
    <2>2. CASE to # 0
      <3>1. to \in {4, 6, 8}
        BY <1>2, <2>2
      <3> QED
        BY <1>1, <1>2, <1>3, <1>4, <1>5, <3>1 DEF NetTransmit
    <2> QED
      BY <2>1, <2>2
  <1>11. Taken' = Taken /\ Taken \in SUBSET Packets
    BY <1>4 DEF Taken
  <1>12. \A n \in 1 .. 4 :
           /\ k # 2 * n + 1 => Counted(n)' = Counted(n)
           /\ k = 2 * n + 1 => Counted(n) = Taken \ {packet[c]} /\ Counted(n)' = Taken
    <2> TAKE n \in 1 .. 4
    <2>1. /\ Counted(n) = IF k > 2 * n + 1 THEN Taken ELSE Taken \ {packet[c]}
          /\ to = 0 => Counted(n)' = Taken
          /\ to # 0 => Counted(n)' = IF to > 2 * n + 1 THEN Taken ELSE Taken \ {packet[c]}
      BY <1>3, <1>11 DEF Counted
    <2> QED
      BY <1>2, <2>1
  <1>13. /\ Cardinality(Taken) = Cardinality(Taken \ {packet[c]}) + 1
         /\ ByteSum(Taken) = ByteSum(Taken \ {packet[c]}) + Length[packet[c]]
    BY <1>5, <1>11, OneMore
  <1>14. ASSUME NEW n \in {1, 3}, NEW g \in {"tx_packets", "rx_packets"},
                g = IF n = 1 THEN "tx_packets" ELSE "rx_packets"
         PROVE  stats'[g] = Cardinality(Counted(n)')
    <2>1. stats[g] = Cardinality(Counted(n)) /\ (f = g <=> k = 2 * n + 1)
      BY <1>1, <1>2, <1>5, <1>14 DEF NetCounts
    <2>2. CASE k = 2 * n + 1
      <3>1. stats'[g] = stats[g] + 1
        BY <1>6, <1>7, <2>1, <2>2
      <3>2. Counted(n) = Taken \ {packet[c]} /\ Counted(n)' = Taken
        BY <1>12, <2>2
      <3> QED
        BY <1>13, <2>1, <3>1, <3>2
    <2>3. CASE k # 2 * n + 1
      <3>1. stats'[g] = stats[g] /\ Counted(n)' = Counted(n)
        BY <1>7, <1>12, <2>1, <2>3
      <3> QED
        BY <2>1, <3>1
    <2> QED
      BY <2>2, <2>3
  <1>15. ASSUME early = {}, NEW n \in {2, 4}, NEW g \in {"tx_bytes", "rx_bytes"},
                g = IF n = 2 THEN "tx_bytes" ELSE "rx_bytes"
         PROVE  stats'[g] = ByteSum(Counted(n)')
    <2>1. stats[g] = ByteSum(Counted(n)) /\ (f = g <=> k = 2 * n + 1)
      BY <1>1, <1>2, <1>5, <1>15 DEF NetCounts
    <2>2. CASE k = 2 * n + 1
      <3>1. stats'[g] = stats[g] + Length[packet[c]]
        BY <1>6, <1>7, <1>15, <2>1, <2>2
      <3>2. Counted(n) = Taken \ {packet[c]} /\ Counted(n)' = Taken
        BY <1>12, <2>2
      <3> QED
        BY <1>13, <2>1, <3>1, <3>2
    <2>3. CASE k # 2 * n + 1
      <3>1. stats'[g] = stats[g] /\ Counted(n)' = Counted(n)
        BY <1>7, <1>12, <2>1, <2>3
      <3> QED
        BY <2>1, <3>1
    <2> QED
      BY <2>2, <2>3
  <1>16. /\ stats'["tx_packets"] = Cardinality(Counted(1)')
         /\ stats'["rx_packets"] = Cardinality(Counted(3)')
    BY <1>14
  <1>17. early = {} => /\ stats'["tx_bytes"] = ByteSum(Counted(2)')
                       /\ stats'["rx_bytes"] = ByteSum(Counted(4)')
    BY <1>15
  <1>18. NetCounts'
    BY <1>4, <1>16, <1>17 DEF NetCounts
  <1> QED
    BY <1>8, <1>9, <1>10, <1>18 DEF NetInv

\* The stack's receiving of a packet keeps it, whoever is still counting it.
LEMMA ReceiveNet ==
  ASSUME NetInv, NEW p \in Packets, Receive(p)
  PROVE  NetInv'
  <1> USE DEF Receive
  <1>1. NetTypeInv /\ NetHeld /\ NetInUse /\ NetTransmit /\ NetCounts
    BY DEF NetInv
  <1>2. /\ \A q \in Packets : skb'[q] = IF q = p THEN "freed" ELSE skb[q]
        /\ skb' \in [Packets -> {"stack", "driver", "backlog", "freed"}]
    BY <1>1 DEF NetTypeInv
  <1>3. /\ early \subseteq early' /\ early' \in SUBSET Packets
        /\ \A c \in Transmitting : packet[c] = p => p \in early'
    BY <1>1 DEF NetTypeInv
  <1>4. NetTypeInv'
    <2>1. up' \in BOOLEAN
      BY <1>1 DEF NetTypeInv
    <2> QED
      BY <1>1, <1>2, <1>3, <2>1 DEF NetTypeInv
  <1>5. NetHeld' /\ NetInUse'
    BY <1>1, <1>2 DEF NetHeld, NetInUse
  <1>6. Transmitting' = Transmitting /\ Transmitting \subseteq Cpus
    BY DEF Transmitting
  <1>7. NetTransmit'
    <2>1. \A c \in Transmitting : packet[c] \in Packets
      BY <1>1, <1>6 DEF NetTypeInv
    <2>2. ASSUME NEW c \in Transmitting
          PROVE  /\ xmit[c] = 1 => skb'[packet[c]] = "driver"
                 /\ xmit[c] > 1 => \/ skb'[packet[c]] = "backlog"
                                   \/ skb'[packet[c]] = "freed" /\ packet[c] \in early'
      BY <1>1, <1>2, <1>3, <2>1 DEF NetTransmit
    <2>3. \A q \in Packets : skb'[q] = "driver" => \E c \in Transmitting : packet[c] = q
      BY <1>1, <1>2 DEF NetTransmit
    <2> QED
      BY <1>1, <1>6, <2>2, <2>3 DEF NetTransmit
  <1>8. Taken' = Taken
    BY <1>2 DEF Taken
  <1>9. \A n \in 1 .. 4 : Counted(n)' = Counted(n)
    BY <1>6, <1>8 DEF Counted
  <1>10. NetCounts'
    BY <1>1, <1>3, <1>9 DEF NetCounts
  <1> QED
    BY <1>4, <1>5, <1>7, <1>10 DEF NetInv

\* Every step keeps the invariant.
LEMMA NetNextInv ==
  ASSUME NetInv, [NetNext]_netVars
  PROVE  NetInv'
  <1>1. CASE UNCHANGED netVars
    <2>1. UNCHANGED <<drv, at, held, up>> /\ UNCHANGED traffic
      BY <1>1 DEF netVars, traffic
    <2>2. NetTypeInv' /\ NetHeld' /\ NetInUse'
      BY <2>1 DEF NetInv, NetTypeInv, NetHeld, NetInUse, traffic
    <2> QED
      BY <2>1, <2>2, TrafficUntouched DEF NetInv
  <1>2. CASE BeginLoad \/ BeginRemove \/ Thread
    BY <1>2, ThreadNet
  <1>3. CASE Open \/ Stop
    BY <1>3, OpenNet
  <1>4. ASSUME NEW c \in Cpus, mynic_xmit(c) \/ myloop_xmit(c)
        PROVE  NetInv'
    BY <1>4, MynicXmitNet, GiveNet, ReadNet, WriteNet DEF myloop_xmit
  <1>5. ASSUME NEW c \in Cpus, NEW p \in Packets, XmitBegin(c, p)
        PROVE  NetInv'
    BY <1>5, BeginNet
  <1>6. ASSUME NEW p \in Packets, Receive(p)
        PROVE  NetInv'
    BY <1>6, ReceiveNet
  <1> QED
    BY <1>1, <1>2, <1>3, <1>4, <1>5, <1>6 DEF NetNext

\* myloop, simple_nic and the stack keep NetInv, on any CPUs and with any packets.
THEOREM NetInvariance ==
  NetSpec => []NetInv
  <1>1. NetInit => NetInv
    BY NetInitInv
  <1>2. NetInv /\ [NetNext]_netVars => NetInv'
    BY NetNextInv
  <1> QED
    BY <1>1, <1>2, PTL DEF NetSpec

\* Whenever nobody transmits, the drivers have kept no packet, and myloop's four
\* counters are the number and the bytes of all packets it was given, the bytes
\* unless a packet was freed between netif_rx and the counting.
THEOREM EveryPacketCounted ==
  NetSpec => []PacketsAccounted
  <1>1. NetInv => PacketsAccounted
    <2> SUFFICES ASSUME NetInv, Transmitting = {}
                 PROVE  /\ \A p \in Taken : skb[p] \in {"backlog", "freed"}
                        /\ drv = "myloop" =>
                             /\ stats["tx_packets"] = Cardinality(Taken)
                             /\ stats["rx_packets"] = Cardinality(Taken)
                             /\ early = {} => /\ stats["tx_bytes"] = ByteSum(Taken)
                                              /\ stats["rx_bytes"] = ByteSum(Taken)
      BY DEF PacketsAccounted, Taken, ByteSum
    <2>1. \A n : Counted(n) = Taken
      BY DEF Counted
    <2>2. \A p \in Taken : skb[p] \in {"backlog", "freed"}
      BY DEF NetInv, NetTypeInv, NetTransmit, Taken
    <2> QED
      BY <2>1, <2>2 DEF NetInv, NetCounts
  <1> QED
    BY <1>1, NetInvariance, PTL

\* What is used is held.
LEMMA NetUsingHeld == NetInv => Using \in SUBSET held
  BY DEF NetInv, NetHeld, NetInUse, Using, Transmitting, InBacklog

\* The place of the thread decides the phase of the binding.
LEMMA NetPhase ==
  /\ at = "unbound" => phase = "unbound"
  /\ at \in {"netdev", "registered", "probed"} => phase = "probing"
  /\ at = "bound" => phase = "bound"
  /\ at \in {"unregister", "flush", "free", "return", "oops"} => phase = "releasing"
  BY DEF phase, ProbePcs

\* Every step is one of PciBinding, leaves the binding unchanged, or is myloop's
\* loss of a net_device.
LEMMA NetSimulation ==
  ASSUME NetInv, NetInv', [NetNext]_netVars
  PROVE  [Binding!Next \/ LosesNetdev]_(Binding!vars)
  <1> DEFINE Goal == Binding!Next \/ LosesNetdev
  <1> SUFFICES Goal
    OBVIOUS
  <1>1. Using' \in SUBSET held'
    <2>1. (Using \in SUBSET held)'
      BY NetUsingHeld, PTL
    <2> QED
      BY <2>1
  <1>2. /\ at' = "unbound" => phase' = "unbound"
        /\ at' \in {"netdev", "registered", "probed"} => phase' = "probing"
        /\ at' = "bound" => phase' = "bound"
        /\ at' \in {"unregister", "flush", "free", "return", "oops"} =>
             phase' = "releasing"
    BY DEF phase, ProbePcs
  <1>3. NetTypeInv /\ NetHeld /\ NetInUse
    BY DEF NetInv
  <1>4. ASSUME at' = at, held' = held
        PROVE  Goal
    <2>1. phase' = phase
      BY <1>4 DEF phase
    <2> QED
      BY <1>1, <1>4, <2>1 DEF Binding!Next, Binding!Use
  <1>5. CASE \/ UNCHANGED netVars \/ Open \/ Stop
             \/ \E p \in Packets : Receive(p)
    BY <1>4, <1>5 DEF netVars, Open, Stop, Receive
  <1>6. CASE \E c \in Cpus : \/ mynic_xmit(c) \/ myloop_xmit(c)
                             \/ \E p \in Packets : XmitBegin(c, p)
    BY <1>4, <1>6 DEF mynic_xmit, myloop_xmit, MyloopGive, MyloopRead,
       MyloopWrite, XmitStep, XmitBegin, XmitBeginWhen
  <1> USE DEF ThreadStep, Goto
  <1>7. CASE BeginLoad
    BY <1>1, <1>2, <1>7, NetPhase DEF BeginLoad, Binding!Next,
       Binding!BeginProbe
  <1>8. CASE AllocNetdev
    <2>1. CASE held' = held \cup {"netdev"} /\ Goto("netdev", "registered")
      BY <1>1, <1>2, <1>3, <2>1, NetPhase DEF NetHeld, Binding!Next, Binding!Acquire
    <2>2. CASE /\ held' = held
               /\ ThreadStep("netdev", IF drv = "myloop" THEN "oops" ELSE "return")
      BY <1>1, <1>2, <2>2, NetPhase DEF Binding!Next, Binding!BeginRelease
    <2> QED
      BY <1>8, <2>1, <2>2 DEF AllocNetdev
  <1>9. CASE Register
    <2>1. CASE held' = held \cup {"registered"} /\ ThreadStep("registered", "probed")
      BY <1>1, <1>2, <1>3, <2>1, NetPhase DEF NetHeld, Binding!Next, Binding!Acquire
    <2>2. CASE held' = held /\ ThreadStep("registered", "free")
      BY <1>1, <1>2, <2>2, NetPhase DEF Binding!Next, Binding!BeginRelease
    <2>3. CASE drv = "myloop" /\ ThreadStep("registered", "return")
      BY <2>3 DEF LosesNetdev
    <2> QED
      BY <1>9, <2>1, <2>2, <2>3 DEF Register
  <1>10. CASE ProbeReturn
    BY <1>1, <1>2, <1>10, NetPhase DEF ProbeReturn, Binding!Next, Binding!Bind
  <1>11. CASE BeginRemove
    BY <1>1, <1>2, <1>11, NetPhase DEF BeginRemove, Binding!Next,
       Binding!BeginRelease
  <1>12. CASE UnregisterStop
    BY <1>1, <1>2, <1>12, NetPhase DEF UnregisterStop, Binding!Next, Binding!Use
  <1>13. CASE Unregister
    <2>1. "registered" \in held \ Using
      BY <1>3, <1>13 DEF Unregister, Using, NetHeld, NetInUse
    <2> QED
      BY <1>1, <1>2, <1>13, <2>1, NetPhase DEF Unregister, Binding!Next,
         Binding!Release
  <1>14. CASE FreeNetdev
    <2>1. "netdev" \in held \ Using
      BY <1>3, <1>14 DEF FreeNetdev, Using, NetHeld, NetInUse, Transmitting,
         InBacklog
    <2> QED
      BY <1>1, <1>2, <1>14, <2>1, NetPhase DEF FreeNetdev, Binding!Next,
         Binding!Release
  <1>15. CASE Return
    <2>1. held = {} /\ Using = {}
      BY <1>3, <1>15, NetUsingHeld DEF Return, NetHeld, NetTypeInv
    <2> QED
      BY <1>1, <1>2, <1>15, <2>1, NetPhase DEF Return, Binding!Next,
         Binding!Unbind
  <1> QED
    BY <1>5, <1>6, <1>7, <1>8, <1>9, <1>10, <1>11, <1>12, <1>13, <1>14, <1>15
       DEF NetNext, Thread

\* Both drivers free and unregister the net_device only when nobody transmits on
\* it and no packet waits in its name, and leave nothing held when they are not
\* loaded, but for the net_device that myloop could not register.
THEOREM NetRefinement ==
  NetSpec => BindingUnlessLost
  <1>1. NetInit => Binding!Init
    <2>1. NetInit => Using = {} /\ phase = "unbound" /\ held = {}
      BY NetPhase DEF NetInit, Using, Transmitting, InBacklog
    <2> QED
      BY <2>1 DEF Binding!Init
  <1>2. NetInv /\ NetInv' /\ [NetNext]_netVars =>
          [Binding!Next \/ LosesNetdev]_(Binding!vars)
    BY NetSimulation
  <1> QED
    BY <1>1, <1>2, NetInvariance, PTL DEF NetSpec, BindingUnlessLost

=============================================================================
