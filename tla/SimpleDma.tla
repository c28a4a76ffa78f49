------------------------------ MODULE SimpleDma ------------------------------
(***************************************************************************)
(* The simple_dma module (dma_user/simple_dma_module.c) and the processes  *)
(* that run user_app (dma_user/user_app.c) on it: loading and unloading    *)
(* with every failure path, and users that map the DMA buffer, fill it,    *)
(* have the driver reverse it and read it back, all on one shared buffer.  *)
(*                                                                         *)
(* The driver takes no lock: the reversal is modelled one memory access at *)
(* a time, the users' memset and memcpy as one step each.                  *)
(***************************************************************************)
EXTENDS Integers, Sequences

CONSTANTS
  Users,            \* processes that run user_app
  NoUser,
  DMA_BUFFER_SIZE,  \* bytes in the buffer, the same number on both sides
  Message,          \* what user_app writes, without its terminator
  NUL,
  MayFail           \* the calls that may fail in this instance

Resources == {"region", "class", "cdev", "node"}

\* Bytes that can be in the buffer.
Bytes == {NUL} \cup {Message[k] : k \in DOMAIN Message}

ASSUME ConstantsAssumption ==
  /\ DMA_BUFFER_SIZE \in Nat \ {0}
  /\ Message \in Seq(Bytes) /\ Len(Message) < DMA_BUFFER_SIZE
  /\ NoUser \notin Users
  /\ MayFail \subseteq Resources \cup {"find", "alloc", "mmap", "munmap"}

VARIABLES
  mod,         \* state of the module in the kernel's module loader
  pc,          \* where the loader is in simple_dma_init or simple_dma_exit
  ret,         \* what simple_dma_init is about to return, or returned last
  held,        \* what is registered with the kernel
  dma_device,  \* a device for DMA was found
  buffer,      \* what dma_buffer_virt points to
  buf,         \* the bytes there
  misused,     \* calls made on something that is no longer there
  user,        \* place of each user_app
  view,        \* what its mapping shows
  i,           \* loop variable of simple_dma_ioctl, per caller (j follows it)
  temp,        \* its local variable
  sole         \* the only user to have touched buf since its memset

vars == <<mod, pc, ret, held, dma_device, buffer, buf, misused, user, view, i,
          temp, sole>>

loaderVars == <<mod, pc, ret, held, dma_device, buffer, misused>>
userVars   == <<user, view, i, temp>>

Indices == 0 .. DMA_BUFFER_SIZE - 1

InitPcs == {"region", "class", "find", "alloc", "cdev", "node", "del_cdev",
            "destroy_class", "unregister_chrdev", "return"}
ExitPcs == {"exit_node", "exit_cdev", "exit_class", "exit_region", "exit_free"}

InIoctl == {"swap", "swap_left", "swap_right"}

TypeOK ==
  /\ mod \in {"unloaded", "coming", "live", "going"}
  /\ pc \in InitPcs \cup ExitPcs \cup {"idle"}
  /\ ret \in {"0", "error", "class pointer"}
  /\ held \in SUBSET Resources
  /\ dma_device \in BOOLEAN
  /\ buffer \in {"NULL", "allocated", "freed"}
  /\ buf \in [Indices -> Bytes]
  /\ misused \in SUBSET Resources
  /\ user \in [Users -> InIoctl \cup {"closed", "opened", "mapped", "cleared",
                                     "written", "print", "unmap", "closing", "oops"}]
  /\ view \in [Users -> {"none", "buffer", "other"}]
  /\ i \in [Users -> 0 .. DMA_BUFFER_SIZE]
  /\ temp \in [Users -> Bytes]
  /\ sole \in Users \cup {NoUser}

Init ==
  /\ mod = "unloaded" /\ pc = "idle" /\ ret = "0" /\ held = {}
  /\ dma_device = FALSE /\ buffer = "NULL" /\ misused = {}
  /\ buf = [k \in Indices |-> NUL]
  /\ user = [u \in Users |-> "closed"] /\ view = [u \in Users |-> "none"]
  /\ i = [u \in Users |-> 0] /\ temp = [u \in Users |-> NUL]
  /\ sole = NoUser

-----------------------------------------------------------------------------
(* simple_dma_init                                                         *)

\* insmod zeroes the static variables.  Nothing is explored after a call on
\* something that was gone: its effect is undefined.
Insmod ==
  /\ mod = "unloaded" /\ misused = {}
  /\ mod' = "coming" /\ pc' = "region" /\ ret' = "0"
  /\ dma_device' = FALSE /\ buffer' = "NULL"
  /\ UNCHANGED <<held, misused, buf, sole>> /\ UNCHANGED userVars

\* One registration of simple_dma_init: on to next, or to the label its failure
\* jumps to with the value it sets ret to.
RegisterStep(resource, next, failure, value) ==
  /\ pc = resource
  /\ \/ held' = held \cup {resource} /\ pc' = next /\ UNCHANGED ret
     \/ resource \in MayFail /\ pc' = failure /\ ret' = value /\ UNCHANGED held
  /\ UNCHANGED <<mod, dma_device, buffer, misused, buf, sole>> /\ UNCHANGED userVars

\* Faulty variant: the failure of cdev_add jumps to the wrong label.
RegisterWrongLabel ==
  \/ RegisterStep("region", "class", "return", "error")
  \/ RegisterStep("class", "find", "unregister_chrdev", "error")
  \/ RegisterStep("cdev", "node", "del_cdev", "error")
  \/ RegisterStep("node", "return", "del_cdev", "class pointer")

\* When device_create fails, ret is PTR_ERR of the class, a valid pointer.
Register ==
  \/ RegisterStep("region", "class", "return", "error")
  \/ RegisterStep("class", "find", "unregister_chrdev", "error")
  \/ RegisterStep("cdev", "node", "destroy_class", "error")
  \/ RegisterStep("node", "return", "del_cdev", "class pointer")

\* class_find_device.  In a class this new it should find nothing; the code
\* provides for both results.
FindDevice ==
  /\ pc = "find"
  /\ \/ dma_device' = TRUE /\ pc' = "alloc"
     \/ "find" \in MayFail /\ dma_device' = FALSE /\ pc' = "cdev"
  /\ UNCHANGED <<mod, ret, held, buffer, misused, buf, sole>> /\ UNCHANGED userVars

\* dma_alloc_coherent and memset; a failure is only logged.
AllocBuffer ==
  /\ pc = "alloc" /\ pc' = "cdev"
  /\ \/ buffer' = "allocated" /\ buf' = [k \in Indices |-> NUL] /\ sole' = NoUser
     \/ "alloc" \in MayFail /\ UNCHANGED <<buffer, buf, sole>>
  /\ UNCHANGED <<mod, ret, held, dma_device, misused>> /\ UNCHANGED userVars

\* Give a registration back; what is not there (or belongs to a class that is
\* not there) is reached through a dangling pointer.
UnregisterStep(label, resource, next) ==
  /\ pc = label /\ pc' = next
  /\ IF resource \in held
       THEN held' = held \ {resource} /\ UNCHANGED misused
       ELSE misused' = misused \cup {resource} /\ UNCHANGED held
  /\ UNCHANGED <<mod, ret, dma_device, buffer, buf, sole>> /\ UNCHANGED userVars

\* Faulty variant: the numbers are not given back.
RollbackKeepsRegion ==
  \/ UnregisterStep("del_cdev", "cdev", "destroy_class")
  \/ UnregisterStep("destroy_class", "class", "return")

\* The labels at the end of simple_dma_init; the buffer is left allocated.
Rollback ==
  \/ UnregisterStep("del_cdev", "cdev", "destroy_class")
  \/ UnregisterStep("destroy_class", "class", "unregister_chrdev")
  \/ UnregisterStep("unregister_chrdev", "region", "return")

\* The module loader takes a negative value for failure and any other for
\* success; an int cut out of a pointer can be either.
InitReturn ==
  /\ pc = "return" /\ pc' = "idle"
  /\ mod' \in CASE ret = "0"     -> {"live"}
                [] ret = "error" -> {"unloaded"}
                [] OTHER         -> {"live", "unloaded"}
  /\ UNCHANGED <<ret, held, dma_device, buffer, misused, buf, sole>>
  /\ UNCHANGED userVars

-----------------------------------------------------------------------------
(* simple_dma_exit                                                         *)

\* Faulty variant: users do not pin the module (no .owner).
RmmodUnpinned ==
  /\ mod = "live" /\ mod' = "going" /\ pc' = "exit_node"
  /\ UNCHANGED <<ret, held, dma_device, buffer, misused, buf, sole>>
  /\ UNCHANGED userVars

\* An open file, and a mapping of it, hold a reference on the module
\* (.owner = THIS_MODULE).
Rmmod ==
  /\ mod = "live" /\ mod' = "going" /\ pc' = "exit_node"
  /\ \A u \in Users : user[u] = "closed"
  /\ UNCHANGED <<ret, held, dma_device, buffer, misused, buf, sole>>
  /\ UNCHANGED userVars

\* Faulty variant: the cdev is deleted before the node.
ExitNodeLast ==
  \/ UnregisterStep("exit_node", "cdev", "exit_cdev")
  \/ UnregisterStep("exit_cdev", "node", "exit_class")
  \/ UnregisterStep("exit_class", "class", "exit_region")
  \/ UnregisterStep("exit_region", "region", "exit_free")

ExitUnregister ==
  \/ UnregisterStep("exit_node", "node", "exit_cdev")
  \/ UnregisterStep("exit_cdev", "cdev", "exit_class")
  \/ UnregisterStep("exit_class", "class", "exit_region")
  \/ UnregisterStep("exit_region", "region", "exit_free")

\* dma_free_coherent with or without a device, and the return.
ExitFree ==
  /\ pc = "exit_free" /\ pc' = "idle" /\ mod' = "unloaded"
  /\ buffer' = IF buffer = "NULL" THEN "NULL" ELSE "freed"
  /\ UNCHANGED <<ret, held, dma_device, misused, buf, sole>> /\ UNCHANGED userVars

-----------------------------------------------------------------------------
(* user_app and the file operations it calls                               *)

UserStep(u, from, to) == user[u] = from /\ user' = [user EXCEPT ![u] = to]

\* The node is there and the module gives out references.
Open(u) ==
  /\ UserStep(u, "closed", "opened")
  /\ "node" \in held /\ mod \in {"coming", "live"}
  /\ UNCHANGED <<buf, view, i, temp, sole>> /\ UNCHANGED loaderVars

\* simple_dma_mmap: user_app asks for the whole buffer at offset 0, so both
\* tests pass.  dma_mmap_coherent is called with what there is: without a
\* device or a buffer it fails, follows a null pointer, or maps bus address 0.
simple_dma_mmap(u) ==
  /\ \/ /\ buffer = "allocated" /\ UserStep(u, "opened", "mapped")
        /\ view' = [view EXCEPT ![u] = "buffer"]
     \/ /\ buffer = "NULL" /\ UserStep(u, "opened", "mapped")
        /\ view' = [view EXCEPT ![u] = "other"]
     \/ /\ buffer = "NULL" /\ ~dma_device /\ UserStep(u, "opened", "oops")
        /\ UNCHANGED view
     \/ /\ "mmap" \in MayFail /\ UserStep(u, "opened", "closing")
        /\ UNCHANGED view
  /\ UNCHANGED <<buf, i, temp, sole>> /\ UNCHANGED loaderVars

\* A user writes through its mapping.
WriteView(u, bytes) ==
  IF view[u] = "buffer" THEN buf' = bytes ELSE UNCHANGED buf

Memset(u) ==
  /\ UserStep(u, "mapped", "cleared")
  /\ WriteView(u, [k \in Indices |-> NUL])
  /\ sole' = IF view[u] = "buffer" THEN u ELSE sole
  /\ UNCHANGED <<view, i, temp>> /\ UNCHANGED loaderVars

\* Somebody other than the sole user touches the buffer.
Touched(u) == sole' = IF sole = u THEN u ELSE NoUser

Memcpy(u) ==
  /\ UserStep(u, "cleared", "written")
  /\ WriteView(u, [k \in Indices |-> IF k < Len(Message) THEN Message[k + 1]
                                     ELSE IF k = Len(Message) THEN NUL ELSE buf[k]])
  /\ IF view[u] = "buffer" THEN Touched(u) ELSE UNCHANGED sole
  /\ UNCHANGED <<view, i, temp>> /\ UNCHANGED loaderVars

\* Faulty variant: the loop starts one byte before the buffer.
IoctlBeginTooLow(u) ==
  /\ IF buffer = "NULL" THEN UserStep(u, "written", "unmap") /\ UNCHANGED i
     ELSE UserStep(u, "written", "swap") /\ i' = [i EXCEPT ![u] = -1]
  /\ UNCHANGED <<buf, view, temp, sole>> /\ UNCHANGED loaderVars

\* simple_dma_ioctl(SIMPLE_DMA_START_TRANSFER): -EFAULT without a buffer.
IoctlBegin(u) ==
  /\ IF buffer = "NULL" THEN UserStep(u, "written", "unmap") /\ UNCHANGED i
     ELSE UserStep(u, "written", "swap") /\ i' = [i EXCEPT ![u] = 0]
  /\ UNCHANGED <<buf, view, temp, sole>> /\ UNCHANGED loaderVars

\* The index that meets k from the other end.
Mirror(k) == DMA_BUFFER_SIZE - 1 - k

\* Faulty variant: the loop stops one pair early.
SwapTempStopsEarly(u) ==
  /\ IF i[u] < Mirror(i[u]) - 1
       THEN UserStep(u, "swap", "swap_left") /\ temp' = [temp EXCEPT ![u] = buf[i[u]]]
       ELSE UserStep(u, "swap", "print") /\ UNCHANGED temp
  /\ UNCHANGED <<buf, view, i, sole>> /\ UNCHANGED loaderVars

\* The loop test and temp = buf[i], or the return.
SwapTemp(u) ==
  /\ IF i[u] < Mirror(i[u])
       THEN UserStep(u, "swap", "swap_left") /\ temp' = [temp EXCEPT ![u] = buf[i[u]]]
       ELSE UserStep(u, "swap", "print") /\ UNCHANGED temp
  /\ UNCHANGED <<buf, view, i, sole>> /\ UNCHANGED loaderVars

\* buf[i] = buf[j]
SwapLeft(u) ==
  /\ UserStep(u, "swap_left", "swap_right")
  /\ buf' = [buf EXCEPT ![i[u]] = buf[Mirror(i[u])]] /\ Touched(u)
  /\ UNCHANGED <<view, i, temp>> /\ UNCHANGED loaderVars

\* Faulty variant: the loop variables do not advance.
SwapRightStuck(u) ==
  /\ UserStep(u, "swap_right", "swap")
  /\ buf' = [buf EXCEPT ![Mirror(i[u])] = temp[u]] /\ Touched(u)
  /\ UNCHANGED <<view, i, temp>> /\ UNCHANGED loaderVars

\* buf[j] = temp, and ++i, --j
SwapRight(u) ==
  /\ UserStep(u, "swap_right", "swap")
  /\ buf' = [buf EXCEPT ![Mirror(i[u])] = temp[u]] /\ Touched(u)
  /\ i' = [i EXCEPT ![u] = @ + 1]
  /\ UNCHANGED <<view, temp>> /\ UNCHANGED loaderVars

simple_dma_ioctl(u) == IoctlBegin(u) \/ SwapTemp(u) \/ SwapLeft(u) \/ SwapRight(u)

\* The user reads the buffer back and prints it.
PrintBack(u) ==
  /\ UserStep(u, "print", "unmap")
  /\ UNCHANGED <<buf, view, i, temp, sole>> /\ UNCHANGED loaderVars

\* munmap; a failure is only reported.
Munmap(u) ==
  /\ UserStep(u, "unmap", "closing")
  /\ \/ view' = [view EXCEPT ![u] = "none"]
     \/ "munmap" \in MayFail /\ UNCHANGED view
  /\ UNCHANGED <<buf, i, temp, sole>> /\ UNCHANGED loaderVars

\* close, and the end of main, which drops a mapping that is left.
Close(u) ==
  /\ UserStep(u, "closing", "closed")
  /\ view' = [view EXCEPT ![u] = "none"]
  /\ UNCHANGED <<buf, i, temp, sole>> /\ UNCHANGED loaderVars

\* The process is killed outside the kernel, which unmaps and closes for it.
Kill(u) ==
  /\ user[u] \in {"opened", "mapped", "cleared", "written", "print", "unmap", "closing"}
  /\ user' = [user EXCEPT ![u] = "closed"]
  /\ view' = [view EXCEPT ![u] = "none"]
  /\ UNCHANGED <<buf, i, temp, sole>> /\ UNCHANGED loaderVars

user_app(u) ==
  \/ simple_dma_mmap(u) \/ Memset(u) \/ Memcpy(u) \/ simple_dma_ioctl(u)
  \/ PrintBack(u) \/ Munmap(u) \/ Close(u)

-----------------------------------------------------------------------------

Loader ==
  \/ Register \/ FindDevice \/ AllocBuffer \/ Rollback \/ InitReturn
  \/ ExitUnregister \/ ExitFree

Next ==
  \/ Insmod \/ Rmmod \/ Loader
  \/ \E u \in Users : Open(u) \/ user_app(u) \/ Kill(u)

Spec == Init /\ [][Next]_vars

\* insmod, rmmod and every user_app run to their end.  Nobody is obliged to
\* load, unload, start user_app or kill it.
FairSpec == Spec /\ WF_vars(Loader) /\ \A u \in Users : WF_vars(user_app(u))

-----------------------------------------------------------------------------
(* Properties                                                              *)

\* Once simple_dma_init has failed or simple_dma_exit has returned, nothing of
\* the module is registered with the kernel, whichever call failed on the way.
\* Only a failed init leaves the buffer allocated (line 264 leaves it to an exit
\* that then never runs).
UnloadedClean ==
  mod = "unloaded" => held = {} /\ (buffer = "allocated" => ret # "0")

\* While /dev/simple_dma exists, everything behind it does: an open never
\* reaches numbers, a cdev or a class that init has yet to set up, that a
\* rollback took away or that exit has begun to take away.
NodeLeadsToDriver ==
  "node" \in held => {"region", "class", "cdev"} \subseteq held

\* Nobody maps the DMA buffer, and no ioctl walks it, once it has been freed or
\* its module unloaded, also when munmap failed or the process was killed; and
\* a mapping made although init got no buffer never shows the result of a
\* transfer: the ioctl refuses it, and user_app ends without reading it back.
MappedBufferLives ==
  \A u \in Users :
    /\ view[u] = "buffer" \/ user[u] \in InIoctl =>
         buffer = "allocated" /\ mod \in {"coming", "live"}
    /\ view[u] = "other" => buffer = "NULL" /\ user[u] # "print"

\* Nothing is torn down that is not there, unless device_create failed and what
\* simple_dma_init returned for it was taken for success (line 251).
TeardownOnce == misused # {} => ret = "class pointer"

\* What user_app leaves in the buffer before the ioctl.
Written == [k \in Indices |-> IF k < Len(Message) THEN Message[k + 1] ELSE NUL]

\* A user whom nobody disturbed between its memset and its reading back finds
\* the whole buffer reversed, every byte exactly once.
AloneReversed ==
  \A u \in Users : user[u] = "print" /\ view[u] = "buffer" /\ sole = u =>
    \A k \in Indices : buf[k] = Written[Mirror(k)]

\* Every user_app comes to its end, whatever fails under it and whoever else
\* uses the buffer, unless the driver follows a null pointer.
UserFinishes ==
  \A u \in Users : (user[u] # "closed") ~> (user[u] \in {"closed", "oops"})

=============================================================================
