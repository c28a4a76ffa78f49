--------------------------- MODULE SimpleDmaProofs ---------------------------
(***************************************************************************)
(* Safety of SimpleDma for any number of users, any size of the buffer and *)
(* any set of calls that may fail.                                         *)
(***************************************************************************)
EXTENDS SimpleDma, TLAPS

\* Which places of the loader go with which state of the module, and what
\* simple_dma_init has decided to return by then.
PhaseInv ==
  /\ pc \in InitPcs <=> mod = "coming"
  /\ pc \in ExitPcs <=> mod = "going"
  /\ pc \in {"region", "class", "find", "alloc", "cdev", "node"} => ret = "0"
  /\ pc \in {"del_cdev", "destroy_class", "unregister_chrdev"} => ret # "0"

\* What is registered at each place.  A module that is live although
\* device_create failed has nothing registered.
HeldByPlace ==
  /\ mod = "unloaded" \/ pc \in {"region", "exit_free"} => held = {}
  /\ pc \in {"class", "unregister_chrdev"} => held = {"region"}
  /\ pc \in {"find", "alloc", "cdev", "destroy_class"} => held = {"region", "class"}
  /\ pc \in {"node", "del_cdev"} => held = {"region", "class", "cdev"}
  /\ mod = "live" \/ pc \in {"return", "exit_node"} =>
       held = IF ret = "0" THEN Resources ELSE {}
  /\ pc = "exit_cdev" => held = IF ret = "0" THEN {"region", "class", "cdev"} ELSE {}
  /\ pc = "exit_class" => held = IF ret = "0" THEN {"region", "class"} ELSE {}
  /\ pc = "exit_region" => held = IF ret = "0" THEN {"region"} ELSE {}
  /\ mod \in {"live", "going"} => ret \in {"0", "class pointer"}
  /\ buffer = "freed" => mod = "unloaded"
  /\ mod = "unloaded" /\ buffer = "allocated" => ret # "0"

\* A user is past open only while the load has succeeded, up to its return.
UserByPlace ==
  \A u \in Users :
    /\ user[u] # "closed" => pc \in {"idle", "return"} /\ "node" \in held
    /\ view[u] = "buffer" \/ user[u] \in InIoctl =>
         user[u] # "closed" /\ buffer = "allocated"
    /\ view[u] = "other" => user[u] \notin {"closed", "print"} /\ buffer = "NULL"

\* Between the accesses of a swap both indices are inside the buffer.
SwapInside ==
  \A u \in Users : user[u] \in {"swap_left", "swap_right"} => i[u] < Mirror(i[u])

\* The types of what the loader and of what the users write.
LoaderType ==
  /\ mod \in {"unloaded", "coming", "live", "going"}
  /\ pc \in InitPcs \cup ExitPcs \cup {"idle"}
  /\ ret \in {"0", "error", "class pointer"}
  /\ held \in SUBSET Resources
  /\ dma_device \in BOOLEAN
  /\ buffer \in {"NULL", "allocated", "freed"}
  /\ misused \in SUBSET Resources

UserPcs == InIoctl \cup {"closed", "opened", "mapped", "cleared", "written",
                         "print", "unmap", "closing", "oops"}

UserType ==
  /\ user \in [Users -> UserPcs]
  /\ view \in [Users -> {"none", "buffer", "other"}]
  /\ i \in [Users -> 0 .. DMA_BUFFER_SIZE]
  /\ temp \in [Users -> Bytes]

BufferType == buf \in [Indices -> Bytes] /\ sole \in Users \cup {NoUser}

LoaderInv == LoaderType /\ PhaseInv /\ HeldByPlace /\ TeardownOnce
IInv == LoaderInv /\ UserType /\ BufferType /\ UserByPlace /\ SwapInside

Environment(u) == Open(u) \/ user_app(u) \/ Kill(u)

-----------------------------------------------------------------------------

\* The buffer has a size.
LEMMA SizeFact == DMA_BUFFER_SIZE \in Nat /\ DMA_BUFFER_SIZE > 0
BY ConstantsAssumption

\* What the users write are bytes.
LEMMA ByteFact ==
  /\ NUL \in Bytes
  /\ \A k \in Indices : k < Len(Message) => Message[k + 1] \in Bytes
<1>1. NUL \in Bytes
  BY DEF Bytes
<1>2. ASSUME NEW k \in Indices, k < Len(Message)
      PROVE  Message[k + 1] \in Bytes
  <2>1. Message \in Seq(Bytes)
    BY ConstantsAssumption
  <2> QED BY <1>2, <2>1, SizeFact DEF Indices
<1> QED BY <1>1, <1>2

\* The initial state satisfies the invariant.
LEMMA InitIInv == Init => IInv
<1> SUFFICES ASSUME Init PROVE IInv
  OBVIOUS
<1>1. LoaderInv
  BY DEF Init, LoaderInv, LoaderType, PhaseInv, HeldByPlace, TeardownOnce, Resources,
         InitPcs, ExitPcs
<1>2. UserType /\ BufferType
  BY SizeFact, ByteFact DEF Init, UserType, UserPcs, BufferType
<1>3. UserByPlace /\ SwapInside
  BY DEF Init, UserByPlace, SwapInside, InIoctl
<1> QED BY <1>1, <1>2, <1>3 DEF IInv

\* A step of the loader keeps its own part of the invariant.
LEMMA LoaderKeeps ==
  LoaderInv /\ UserByPlace /\ (Insmod \/ Rmmod \/ Loader) => LoaderInv'
<1> SUFFICES ASSUME LoaderInv, UserByPlace, Insmod \/ Rmmod \/ Loader
             PROVE  LoaderInv'
  OBVIOUS
<1> USE DEF LoaderInv, LoaderType, PhaseInv, HeldByPlace, TeardownOnce, Resources,
            InitPcs, ExitPcs
<1>1. CASE Insmod
  BY <1>1 DEF Insmod
<1>2. CASE Rmmod
  BY <1>2 DEF Rmmod
<1>3. CASE Register
  <2>1. CASE RegisterStep("region", "class", "return", "error")
    BY <2>1 DEF RegisterStep
  <2>2. CASE RegisterStep("class", "find", "unregister_chrdev", "error")
    BY <2>2 DEF RegisterStep
  <2>3. CASE RegisterStep("cdev", "node", "destroy_class", "error")
    BY <2>3 DEF RegisterStep
  <2>4. CASE RegisterStep("node", "return", "del_cdev", "class pointer")
    BY <2>4 DEF RegisterStep
  <2> QED BY <1>3, <2>1, <2>2, <2>3, <2>4 DEF Register
<1>4. CASE FindDevice
  BY <1>4 DEF FindDevice
<1>5. CASE AllocBuffer
  BY <1>5 DEF AllocBuffer
<1>6. CASE Rollback
  <2>1. CASE UnregisterStep("del_cdev", "cdev", "destroy_class")
    BY <2>1 DEF UnregisterStep
  <2>2. CASE UnregisterStep("destroy_class", "class", "unregister_chrdev")
    BY <2>2 DEF UnregisterStep
  <2>3. CASE UnregisterStep("unregister_chrdev", "region", "return")
    BY <2>3 DEF UnregisterStep
  <2> QED BY <1>6, <2>1, <2>2, <2>3 DEF Rollback
<1>7. CASE InitReturn
  BY <1>7 DEF InitReturn
<1>8. CASE ExitUnregister
  <2>1. CASE UnregisterStep("exit_node", "node", "exit_cdev")
    BY <2>1 DEF UnregisterStep
  <2>2. CASE UnregisterStep("exit_cdev", "cdev", "exit_class")
    BY <2>2 DEF UnregisterStep
  <2>3. CASE UnregisterStep("exit_class", "class", "exit_region")
    BY <2>3 DEF UnregisterStep
  <2>4. CASE UnregisterStep("exit_region", "region", "exit_free")
    BY <2>4 DEF UnregisterStep
  <2> QED BY <1>8, <2>1, <2>2, <2>3, <2>4 DEF ExitUnregister
<1>9. CASE ExitFree
  BY <1>9 DEF ExitFree
<1> QED BY <1>1, <1>2, <1>3, <1>4, <1>5, <1>6, <1>7, <1>8, <1>9 DEF Loader


\* The node exists only after a successful load, and until exit removes it first.
LEMMA NodePlace ==
  LoaderInv /\ "node" \in held =>
    held = Resources /\ pc \in {"idle", "return", "exit_node"} /\ mod # "unloaded"
<1> SUFFICES ASSUME LoaderInv, "node" \in held
             PROVE  held = Resources /\ pc \in {"idle", "return", "exit_node"} /\ mod # "unloaded"
  OBVIOUS
<1>1. /\ mod \in {"unloaded", "coming", "live", "going"}
      /\ pc \in InitPcs \cup ExitPcs \cup {"idle"}
  BY DEF LoaderInv, LoaderType
<1>2. PhaseInv /\ HeldByPlace
  BY DEF LoaderInv
<1>3. mod # "unloaded"
  BY <1>2 DEF HeldByPlace
<1>4. pc \in {"idle", "return", "exit_node"}
  <2>1. /\ "node" \notin {} /\ "node" \notin {"region"}
        /\ "node" \notin {"region", "class"} /\ "node" \notin {"region", "class", "cdev"}
    OBVIOUS
  <2>2. pc \notin {"region", "class", "find", "alloc", "cdev", "node", "del_cdev",
                  "destroy_class", "unregister_chrdev"}
    BY <1>2, <2>1 DEF HeldByPlace
  <2>3. pc \notin {"exit_cdev", "exit_class", "exit_region", "exit_free"}
    BY <1>2, <2>1 DEF HeldByPlace
  <2> QED BY <1>1, <2>2, <2>3 DEF InitPcs, ExitPcs
<1>5. mod = "live" \/ pc \in {"return", "exit_node"}
  BY <1>1, <1>2, <1>3, <1>4 DEF PhaseInv, InitPcs, ExitPcs
<1> QED BY <1>2, <1>3, <1>4, <1>5 DEF HeldByPlace

\* A step of the loader takes nothing away from a user: whenever one is past
\* open, the only step left to the loader is the return of simple_dma_init.
LEMMA LoaderSparesUsers ==
  IInv /\ (Insmod \/ Rmmod \/ Loader) =>
    UserType' /\ BufferType' /\ UserByPlace' /\ SwapInside'
<1> SUFFICES ASSUME IInv, Insmod \/ Rmmod \/ Loader
             PROVE  UserType' /\ BufferType' /\ UserByPlace' /\ SwapInside'
  OBVIOUS
<1>1. UNCHANGED userVars
  BY DEF Insmod, Rmmod, Loader, Register, RegisterStep, FindDevice, AllocBuffer,
         Rollback, UnregisterStep, InitReturn, ExitUnregister, ExitFree
<1>2. UserType' /\ SwapInside'
  BY <1>1 DEF IInv, UserType, SwapInside, userVars, Mirror
<1>3. BufferType'
  <2>1. CASE AllocBuffer
    BY <2>1, ByteFact DEF IInv, BufferType, AllocBuffer
  <2>2. CASE ~AllocBuffer
    BY <2>2 DEF IInv, BufferType, Insmod, Rmmod, Loader, Register, RegisterStep,
         FindDevice, Rollback, UnregisterStep, InitReturn, ExitUnregister, ExitFree
  <2> QED BY <2>1, <2>2
<1>4. UserByPlace'
  <2> SUFFICES ASSUME NEW u \in Users
               PROVE  /\ user'[u] # "closed" => pc' \in {"idle", "return"} /\ "node" \in held'
                      /\ view'[u] = "buffer" \/ user'[u] \in InIoctl =>
                           user'[u] # "closed" /\ buffer' = "allocated"
                      /\ view'[u] = "other" =>
                           user'[u] \notin {"closed", "print"} /\ buffer' = "NULL"
    BY DEF UserByPlace
  <2>1. user'[u] = user[u] /\ view'[u] = view[u]
    BY <1>1 DEF userVars
  <2>2. CASE user[u] = "closed"
    BY <2>1, <2>2 DEF IInv, UserByPlace
  <2>3. CASE user[u] # "closed"
    <3>1. pc \in {"idle", "return"} /\ "node" \in held
      BY <2>3 DEF IInv, UserByPlace
    <3>2. mod \in {"coming", "live"} /\ ret = "0"
      BY <3>1 DEF IInv, LoaderInv, LoaderType, PhaseInv, HeldByPlace, InitPcs, ExitPcs
    <3>3. InitReturn
      BY <2>3, <3>1, <3>2
         DEF Insmod, Rmmod, Loader, Register, RegisterStep, FindDevice, AllocBuffer,
             Rollback, UnregisterStep, ExitUnregister, ExitFree
    <3> QED BY <2>1, <2>3, <3>1, <3>3 DEF IInv, UserByPlace, InitReturn
  <2> QED BY <2>2, <2>3
<1> QED BY <1>2, <1>3, <1>4

\* A step of a user keeps the invariant.
LEMMA UserKeeps ==
  ASSUME IInv, NEW u \in Users, Environment(u)
  PROVE  IInv'
<1>1. UNCHANGED loaderVars
  BY DEF Environment, Open, user_app, simple_dma_mmap, Memset, Memcpy, simple_dma_ioctl,
         IoctlBegin, SwapTemp, SwapLeft, SwapRight, PrintBack, Munmap, Close, Kill
<1>2. LoaderInv'
  <2>1. dma_device' \in BOOLEAN
    BY <1>1, Zenon DEF IInv, LoaderInv, LoaderType, loaderVars
  <2>2. LoaderType'
    BY <1>1, <2>1 DEF IInv, LoaderInv, LoaderType, loaderVars
  <2>3. PhaseInv' /\ HeldByPlace' /\ TeardownOnce'
    BY <1>1 DEF IInv, LoaderInv, PhaseInv, HeldByPlace, TeardownOnce, loaderVars
  <2> QED BY <2>2, <2>3 DEF LoaderInv
<1> SUFFICES UserType' /\ BufferType' /\ UserByPlace' /\ SwapInside'
  BY <1>2 DEF IInv
<1>p. pc' = pc /\ held' = held /\ buffer' = buffer
  BY <1>1 DEF loaderVars
<1>n. "node" \in held /\ mod \in {"coming", "live"} => pc \in {"idle", "return"}
  <2>1. "node" \in held => pc \in {"idle", "return", "exit_node"}
    BY NodePlace DEF IInv
  <2>2. pc = "exit_node" => mod = "going"
    BY DEF IInv, LoaderInv, PhaseInv, ExitPcs
  <2> QED BY <2>1, <2>2
<1>b. user[u] # "closed" => buffer \in {"NULL", "allocated"}
  BY DEF IInv, LoaderInv, LoaderType, HeldByPlace, UserByPlace
<1> USE SizeFact
    DEF IInv, UserType, BufferType, UserByPlace, SwapInside, UserStep, UserPcs,
        InIoctl, Indices, Mirror
<1>3. CASE Open(u)
  BY <1>p, <1>n, <1>3 DEF Open
<1>4. CASE simple_dma_mmap(u)
  BY <1>p, <1>4 DEF simple_dma_mmap
<1>5. CASE Memset(u)
  BY <1>p, <1>5, ByteFact DEF Memset, WriteView
<1>6. CASE Memcpy(u)
  <2>1. BufferType'
    BY <1>6, ByteFact DEF Memcpy, WriteView, Touched
  <2> QED BY <1>p, <1>6, <2>1 DEF Memcpy
<1>7. CASE IoctlBegin(u)
  <2>1. CASE buffer = "NULL"
    BY <1>p, <1>7, <2>1 DEF IoctlBegin
  <2>2. CASE buffer = "allocated"
    <3>1. user' = [user EXCEPT ![u] = "swap"] /\ i' = [i EXCEPT ![u] = 0]
      BY <1>7, <2>2 DEF IoctlBegin
    <3> QED BY <1>p, <1>7, <2>2, <3>1 DEF IoctlBegin
  <2> QED BY <1>b, <1>7, <2>1, <2>2 DEF IoctlBegin
<1>8. CASE SwapTemp(u)
  <2>1. i[u] < Mirror(i[u]) => buf[i[u]] \in Bytes
    OBVIOUS
  <2>2. temp' \in [Users -> Bytes]
    BY <1>8, <2>1 DEF SwapTemp
  <2> QED BY <1>p, <1>8, <2>2 DEF SwapTemp
<1>9. CASE SwapLeft(u)
  BY <1>p, <1>9 DEF SwapLeft, Touched
<1>10. CASE SwapRight(u)
  BY <1>p, <1>10 DEF SwapRight, Touched
<1>11. CASE PrintBack(u)
  BY <1>p, <1>11 DEF PrintBack
<1>12. CASE Munmap(u)
  BY <1>p, <1>12 DEF Munmap
<1>13. CASE Close(u)
  BY <1>p, <1>13 DEF Close
<1>14. CASE Kill(u)
  BY <1>p, <1>14 DEF Kill
<1> QED
  BY <1>2, <1>3, <1>4, <1>5, <1>6, <1>7, <1>8, <1>9, <1>10, <1>11, <1>12, <1>13, <1>14
     DEF Environment, user_app, simple_dma_ioctl

-----------------------------------------------------------------------------

\* IInv is an inductive invariant of SimpleDma.
THEOREM Invariance == Spec => []IInv
<1>1. IInv /\ [Next]_vars => IInv'
  <2> SUFFICES ASSUME IInv, [Next]_vars PROVE IInv'
    OBVIOUS
  <2>1. CASE Insmod \/ Rmmod \/ Loader
    <3>1. LoaderInv'
      BY <2>1, LoaderKeeps DEF IInv
    <3>2. UserType' /\ BufferType' /\ UserByPlace' /\ SwapInside'
      BY <2>1, LoaderSparesUsers
    <3> QED BY <3>1, <3>2 DEF IInv
  <2>2. CASE \E u \in Users : Open(u) \/ user_app(u) \/ Kill(u)
    BY <2>2, UserKeeps DEF Environment
  <2>3. CASE UNCHANGED vars
    <3>1. dma_device' \in BOOLEAN
      BY <2>3, Zenon DEF IInv, LoaderInv, LoaderType, vars
    <3>2. LoaderInv'
      <4>1. LoaderType'
        BY <2>3, <3>1 DEF IInv, LoaderInv, LoaderType, vars
      <4>2. PhaseInv' /\ HeldByPlace' /\ TeardownOnce'
        BY <2>3 DEF IInv, LoaderInv, PhaseInv, HeldByPlace, TeardownOnce, vars
      <4> QED BY <4>1, <4>2 DEF LoaderInv
    <3>3. UserType' /\ BufferType' /\ UserByPlace' /\ SwapInside'
      BY <2>3 DEF IInv, UserType, BufferType, UserByPlace, SwapInside, Mirror, vars
    <3> QED BY <3>2, <3>3 DEF IInv
  <2> QED BY <2>1, <2>2, <2>3 DEF Next
<1> QED BY <1>1, InitIInv, PTL DEF Spec

\* Every variable stays in its type; in particular no index of the reversal
\* leaves the buffer.
THEOREM TypeCorrect == Spec => []TypeOK
<1>1. IInv => TypeOK
  <2> SUFFICES ASSUME IInv PROVE TypeOK
    OBVIOUS
  <2>1. dma_device \in BOOLEAN
    BY Zenon DEF IInv, LoaderInv, LoaderType
  <2> QED BY <2>1 DEF IInv, LoaderInv, LoaderType, UserType, UserPcs, BufferType, TypeOK
<1> QED BY <1>1, Invariance, PTL

\* A failed load and an unload leave nothing registered.
THEOREM UnloadClean == Spec => []UnloadedClean
<1>1. IInv => UnloadedClean
  BY DEF IInv, LoaderInv, HeldByPlace, UnloadedClean
<1> QED BY <1>1, Invariance, PTL

\* The device node never outlives what is behind it, and never precedes it.
THEOREM NodeSafe == Spec => []NodeLeadsToDriver
<1>1. IInv => NodeLeadsToDriver
  BY NodePlace DEF IInv, NodeLeadsToDriver, Resources
<1> QED BY <1>1, Invariance, PTL

\* No mapping and no ioctl outlives the buffer or the module, and a mapping made
\* without a buffer is never read back.
THEOREM BufferOutlivesUsers == Spec => []MappedBufferLives
<1>1. IInv => MappedBufferLives
  BY DEF IInv, LoaderInv, LoaderType, PhaseInv, HeldByPlace, UserByPlace,
         MappedBufferLives, InitPcs, ExitPcs
<1> QED BY <1>1, Invariance, PTL

\* Only a failed device_create that passes for success leads to a second
\* teardown.
THEOREM TornDownOnce == Spec => []TeardownOnce
<1>1. IInv => TeardownOnce
  BY DEF IInv, LoaderInv
<1> QED BY <1>1, Invariance, PTL

-----------------------------------------------------------------------------
(* The reversal.                                                           *)

\* The bytes outside the two loop indices have changed places, the ones between
\* them have not.
PartlyReversed(n) ==
  \A k \in Indices :
    buf[k] = IF k < n \/ k > Mirror(n) THEN Written[Mirror(k)] ELSE Written[k]

\* In the middle of the swap of n and Mirror(n), n is done and Mirror(n) is not.
HalfSwapped(n) ==
  \A k \in Indices :
    buf[k] = IF k <= n \/ k > Mirror(n) THEN Written[Mirror(k)] ELSE Written[k]

\* What the buffer holds at each place of its sole user.
Content(u) ==
  sole = u /\ view[u] = "buffer" =>
    /\ user[u] = "cleared" => \A k \in Indices : buf[k] = NUL
    /\ user[u] = "written" => \A k \in Indices : buf[k] = Written[k]
    /\ user[u] \in {"swap", "swap_left"} => PartlyReversed(i[u])
    /\ user[u] = "swap_right" => HalfSwapped(i[u])
    /\ user[u] \in {"swap_left", "swap_right"} => temp[u] = Written[i[u]]
    /\ user[u] = "print" => \A k \in Indices : buf[k] = Written[Mirror(k)]

ContentByPlace == \A u \in Users : Content(u)

\* A step of another user, if it leaves v the sole user, leaves the buffer alone.
LEMMA OthersContent ==
  ASSUME IInv, NEW u \in Users, NEW v \in Users, u # v, Content(v), Environment(u)
  PROVE  Content(v)'
<1> SUFFICES ASSUME sole' = v PROVE Content(v)'
  BY DEF Content
<1>n. v # NoUser
  BY ConstantsAssumption
<1>1. /\ user'[v] = user[v] /\ view'[v] = view[v] /\ i'[v] = i[v] /\ temp'[v] = temp[v]
  BY DEF Environment, Open, user_app, simple_dma_mmap, Memset, Memcpy, simple_dma_ioctl,
         IoctlBegin, SwapTemp, SwapLeft, SwapRight, PrintBack, Munmap, Close, Kill,
         UserStep, IInv, UserType
<1>2. sole = v /\ buf' = buf
  BY <1>n DEF Environment, Open, user_app, simple_dma_mmap, Memset, Memcpy, simple_dma_ioctl,
         IoctlBegin, SwapTemp, SwapLeft, SwapRight, PrintBack, Munmap, Close, Kill,
         WriteView, Touched
<1> QED BY <1>1, <1>2 DEF Content, PartlyReversed, HalfSwapped

\* The first half of a swap: buf[i] = buf[j].
LEMMA LeftHalf ==
  ASSUME NEW n \in Indices, n < Mirror(n), PartlyReversed(n), buf \in [Indices -> Bytes],
         buf' = [buf EXCEPT ![n] = buf[Mirror(n)]]
  PROVE  HalfSwapped(n)'
<1> SUFFICES ASSUME NEW k \in Indices
             PROVE  buf'[k] = IF k <= n \/ k > Mirror(n) THEN Written[Mirror(k)] ELSE Written[k]
  BY DEF HalfSwapped
<1>1. Mirror(n) \in Indices /\ Mirror(n) \in Int /\ n \in Int /\ k \in Int
  BY SizeFact DEF Mirror, Indices
<1>2. CASE k = n
  <2>1. buf[Mirror(n)] = Written[Mirror(n)]
    BY <1>1 DEF PartlyReversed
  <2> QED BY <1>1, <1>2, <2>1
<1>3. CASE k # n
  <2>1. buf'[k] = buf[k]
    BY <1>3
  <2>2. k < n <=> k <= n
    BY <1>1, <1>3
  <2> QED BY <2>1, <2>2 DEF PartlyReversed
<1> QED BY <1>2, <1>3

\* The second half of a swap, with which the indices move on.
LEMMA RightHalf ==
  ASSUME NEW n \in Indices, n < Mirror(n), HalfSwapped(n), buf \in [Indices -> Bytes],
         buf' = [buf EXCEPT ![Mirror(n)] = Written[n]]
  PROVE  PartlyReversed(n + 1)'
<1> SUFFICES ASSUME NEW k \in Indices
             PROVE  buf'[k] = IF k < n + 1 \/ k > Mirror(n + 1)
                                THEN Written[Mirror(k)] ELSE Written[k]
  BY DEF PartlyReversed
<1>1. /\ Mirror(n) \in Indices /\ Mirror(n) \in Int /\ n \in Int /\ k \in Int
      /\ Mirror(n + 1) = Mirror(n) - 1 /\ Mirror(Mirror(n)) = n
  BY SizeFact DEF Mirror, Indices
<1>2. CASE k = Mirror(n)
  BY <1>1, <1>2
<1>3. CASE k # Mirror(n)
  <2>1. buf'[k] = buf[k]
    BY <1>3
  <2>2. k <= n <=> k < n + 1
    BY <1>1
  <2>3. k > Mirror(n) <=> k > Mirror(n + 1)
    BY <1>1, <1>3
  <2> QED BY <2>1, <2>2, <2>3 DEF HalfSwapped
<1> QED BY <1>2, <1>3

\* Before the first swap nothing has changed places.
LEMMA ReversalBegins ==
  ASSUME \A k \in Indices : buf[k] = Written[k]
  PROVE  PartlyReversed(0)
BY SizeFact DEF PartlyReversed, Mirror, Indices

\* When the indices have met, everything has changed places.
LEMMA ReversalEnds ==
  ASSUME NEW n \in 0 .. DMA_BUFFER_SIZE, ~(n < Mirror(n)), PartlyReversed(n)
  PROVE  \A k \in Indices : buf[k] = Written[Mirror(k)]
<1> SUFFICES ASSUME NEW k \in Indices PROVE buf[k] = Written[Mirror(k)]
  OBVIOUS
<1>1. CASE k < n \/ k > Mirror(n)
  BY <1>1 DEF PartlyReversed
<1>2. CASE ~(k < n \/ k > Mirror(n))
  <2>1. Mirror(k) = k
    BY <1>2, SizeFact DEF Mirror, Indices
  <2> QED BY <1>2, <2>1 DEF PartlyReversed
<1> QED BY <1>1, <1>2

\* A step of the sole user itself.
LEMMA OwnContent ==
  ASSUME IInv, NEW u \in Users, Content(u), Environment(u)
  PROVE  Content(u)'
<1> SUFFICES ASSUME sole' = u, view'[u] = "buffer" PROVE Content(u)'
  BY DEF Content
<1>n. u # NoUser
  BY ConstantsAssumption
<1>t. /\ user \in [Users -> UserPcs] /\ view \in [Users -> {"none", "buffer", "other"}]
      /\ i \in [Users -> 0 .. DMA_BUFFER_SIZE] /\ temp \in [Users -> Bytes]
      /\ buf \in [Indices -> Bytes]
  BY DEF IInv, UserType, BufferType
<1>3. CASE Open(u)
  BY <1>3, <1>t DEF Open, UserStep, Content
<1>4. CASE simple_dma_mmap(u)
  BY <1>4, <1>t DEF simple_dma_mmap, UserStep, Content
<1>5. CASE Memset(u)
  <2>1. user'[u] = "cleared" /\ view[u] = "buffer"
    BY <1>5, <1>t DEF Memset, UserStep
  <2>2. buf' = [k \in Indices |-> NUL]
    BY <1>5, <2>1 DEF Memset, WriteView
  <2> QED BY <2>1, <2>2 DEF Content
<1>6. CASE Memcpy(u)
  <2>1. user'[u] = "written" /\ user[u] = "cleared" /\ view[u] = "buffer"
    BY <1>6, <1>t DEF Memcpy, UserStep
  <2>2. sole = u
    BY <1>6, <1>n, <2>1 DEF Memcpy, Touched
  <2>3. \A k \in Indices : buf[k] = NUL
    BY <2>1, <2>2 DEF Content
  <2>4. \A k \in Indices : buf'[k] = Written[k]
    BY <1>6, <2>1, <2>3 DEF Memcpy, WriteView, Written
  <2> QED BY <2>1, <2>4 DEF Content
<1>7. CASE IoctlBegin(u)
  <2>1. CASE buffer = "NULL"
    BY <1>7, <1>t, <2>1 DEF IoctlBegin, UserStep, Content
  <2>2. CASE buffer # "NULL"
    <3>1. /\ user[u] = "written" /\ user'[u] = "swap" /\ i'[u] = 0
          /\ buf' = buf /\ sole = u /\ view[u] = "buffer"
      BY <1>7, <1>t, <2>2 DEF IoctlBegin, UserStep
    <3>2. \A k \in Indices : buf[k] = Written[k]
      BY <3>1 DEF Content
    <3>3. PartlyReversed(i[u])'
      BY <3>1, <3>2, ReversalBegins DEF PartlyReversed
    <3> QED BY <3>1, <3>3 DEF Content
  <2> QED BY <2>1, <2>2
<1>8. CASE SwapTemp(u)
  <2>1. /\ user[u] = "swap" /\ sole = u /\ view[u] = "buffer" /\ buf' = buf
        /\ i' = i /\ PartlyReversed(i[u])
    BY <1>8, <1>t DEF SwapTemp, UserStep, Content
  <2>2. i[u] \in 0 .. DMA_BUFFER_SIZE
    BY <1>t
  <2>3. CASE i[u] < Mirror(i[u])
    <3>1. user'[u] = "swap_left" /\ temp'[u] = buf[i[u]]
      BY <1>8, <1>t, <2>3 DEF SwapTemp, UserStep
    <3>2. i[u] \in Indices /\ ~(i[u] < i[u] \/ i[u] > Mirror(i[u]))
      BY <2>2, <2>3, SizeFact DEF Indices, Mirror
    <3>3. buf[i[u]] = Written[i[u]]
      BY <2>1, <3>2 DEF PartlyReversed
    <3>4. PartlyReversed(i[u])'
      BY <2>1 DEF PartlyReversed
    <3> QED BY <2>1, <3>1, <3>3, <3>4 DEF Content
  <2>4. CASE ~(i[u] < Mirror(i[u]))
    <3>1. user'[u] = "print"
      BY <1>8, <1>t, <2>4 DEF SwapTemp, UserStep
    <3>2. \A k \in Indices : buf[k] = Written[Mirror(k)]
      BY <2>1, <2>2, <2>4, ReversalEnds
    <3> QED BY <2>1, <3>1, <3>2 DEF Content
  <2> QED BY <2>3, <2>4
<1>9. CASE SwapLeft(u)
  <2>1. /\ user[u] = "swap_left" /\ user'[u] = "swap_right" /\ view[u] = "buffer"
        /\ i' = i /\ temp' = temp /\ buf' = [buf EXCEPT ![i[u]] = buf[Mirror(i[u])]]
    BY <1>9, <1>t DEF SwapLeft, UserStep
  <2>2. sole = u
    BY <1>9, <1>n DEF SwapLeft, Touched
  <2>3. i[u] < Mirror(i[u]) /\ i[u] \in Indices
    BY <2>1, <1>t, SizeFact DEF IInv, SwapInside, Mirror, Indices
  <2>4. PartlyReversed(i[u]) /\ temp[u] = Written[i[u]]
    BY <2>1, <2>2 DEF Content
  <2>5. HalfSwapped(i[u])'
    BY <2>1, <2>3, <2>4, <1>t, LeftHalf DEF HalfSwapped
  <2> QED BY <2>1, <2>4, <2>5 DEF Content
<1>10. CASE SwapRight(u)
  <2>1. /\ user[u] = "swap_right" /\ user'[u] = "swap" /\ view[u] = "buffer"
        /\ i'[u] = i[u] + 1 /\ buf' = [buf EXCEPT ![Mirror(i[u])] = temp[u]]
    BY <1>10, <1>t DEF SwapRight, UserStep
  <2>2. sole = u
    BY <1>10, <1>n DEF SwapRight, Touched
  <2>3. i[u] < Mirror(i[u]) /\ i[u] \in Indices
    BY <2>1, <1>t, SizeFact DEF IInv, SwapInside, Mirror, Indices
  <2>4. HalfSwapped(i[u]) /\ temp[u] = Written[i[u]]
    BY <2>1, <2>2 DEF Content
  <2>5. PartlyReversed(i[u])'
    BY <2>1, <2>3, <2>4, <1>t, RightHalf DEF PartlyReversed
  <2> QED BY <2>1, <2>5 DEF Content
<1>11. CASE PrintBack(u)
  BY <1>11, <1>t DEF PrintBack, UserStep, Content
<1>12. CASE Munmap(u)
  BY <1>12, <1>t DEF Munmap, UserStep, Content
<1>13. CASE Close(u)
  BY <1>13, <1>t DEF Close, UserStep, Content
<1>14. CASE Kill(u)
  BY <1>14, <1>t DEF Kill, Content
<1> QED
  BY <1>3, <1>4, <1>5, <1>6, <1>7, <1>8, <1>9, <1>10, <1>11, <1>12, <1>13, <1>14
     DEF Environment, user_app, simple_dma_ioctl

\* A user whom nobody disturbs finds the buffer reversed, for every size of the
\* buffer and every message.
THEOREM ReversesAlone == Spec => []AloneReversed
<1>1. Init => ContentByPlace
  BY DEF Init, ContentByPlace, Content
<1>2. IInv /\ ContentByPlace /\ [Next]_vars => ContentByPlace'
  <2> SUFFICES ASSUME IInv, ContentByPlace, [Next]_vars, NEW v \in Users
               PROVE  Content(v)'
    BY DEF ContentByPlace
  <2>0. Content(v)
    BY DEF ContentByPlace
  <2>1. CASE UNCHANGED userVars /\ UNCHANGED <<buf, sole>>
    BY <2>0, <2>1 DEF Content, PartlyReversed, HalfSwapped, userVars
  <2>2. CASE AllocBuffer
    <3>1. CASE sole' = NoUser
      <4>1. sole' # v
        BY <3>1, ConstantsAssumption
      <4> QED BY <4>1 DEF Content
    <3>2. CASE UNCHANGED <<buf, sole>>
      BY <2>1, <2>2, <3>2 DEF AllocBuffer
    <3> QED BY <2>2, <3>1, <3>2 DEF AllocBuffer
  <2>3. CASE (Insmod \/ Rmmod \/ Loader) /\ ~AllocBuffer
    <3>1. UNCHANGED userVars /\ UNCHANGED <<buf, sole>>
      BY <2>3 DEF Insmod, Rmmod, Loader, Register, RegisterStep, FindDevice,
             Rollback, UnregisterStep, InitReturn, ExitUnregister, ExitFree
    <3> QED BY <2>1, <3>1
  <2>4. ASSUME NEW u \in Users, Open(u) \/ user_app(u) \/ Kill(u)
        PROVE  Content(v)'
    BY <2>0, <2>4, OwnContent, OthersContent DEF Environment
  <2>5. CASE UNCHANGED vars
    BY <2>1, <2>5 DEF vars, userVars
  <2> QED BY <2>2, <2>3, <2>4, <2>5 DEF Next
<1>3. ContentByPlace => AloneReversed
  BY DEF ContentByPlace, Content, AloneReversed
<1> QED BY <1>1, <1>2, <1>3, Invariance, PTL DEF Spec

=============================================================================
