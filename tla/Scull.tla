-------------------------------- MODULE Scull --------------------------------
(***************************************************************************)
(* The scull character driver (main.c, main.h, util.c, util.h): loading    *)
(* and unloading the module, and the processes that open and close its     *)
(* devices while that happens.                                             *)
(*                                                                         *)
(* The loader runs scull_init and scull_exit one kernel call at a time; a  *)
(* device can be opened as soon as its cdev_add returns, before scull_init *)
(* has finished.  scull_trim runs without a lock (dev->sem is never        *)
(* initialised nor taken), so its walk and its final assignments are two   *)
(* steps of each opener.                                                   *)
(***************************************************************************)
EXTENDS Integers, FiniteSets

CONSTANTS
  NUM_DEVICES,   \* devices the module creates
  BASE_MINOR,    \* first minor number
  Files,         \* struct file slots, one per opener
  MayFail        \* the kernel calls that may fail in this instance

KernelCalls == {"alloc_chrdev_region", "kmalloc", "cdev_add"}

ASSUME ConstantsAssumption ==
  /\ NUM_DEVICES \in Nat \ {0}
  /\ BASE_MINOR = 0
  /\ MayFail \subseteq KernelCalls

VARIABLES
  mod,      \* state of the module in the kernel's module loader
  pc,       \* where the loader is in scull_init or scull_exit
  idx,      \* loop index of scull_init and scull_exit
  owner,    \* who holds the device numbers in devno
  mem,      \* the scull_dev that scull_devices[d] points to
  cdev,     \* scull_devices[d]->cdev
  data,     \* scull_devices[d]->data
  file,     \* progress of each opener
  fdev,     \* filp->private_data, as a device index
  corrupt   \* memory was reached through a pointer nobody initialised

vars == <<mod, pc, idx, owner, mem, cdev, data, file, fdev, corrupt>>

loaderVars == <<mod, pc, idx>>
fileVars   == <<file, fdev, corrupt>>

Devices == 0 .. NUM_DEVICES - 1

TypeOK ==
  /\ mod \in {"unloaded", "coming", "live", "going"}
  /\ pc \in {"idle", "failed", "region", "kmalloc", "setup", "fail",
             "exit_region", "exit_free"}
  /\ idx \in 0 .. NUM_DEVICES
  /\ owner \in {"free", "scull", "other"}
  /\ mem \in [Devices -> {"null", "allocated", "freed", "double_freed"}]
  /\ cdev \in [Devices -> {"none", "inited", "added"}]
  /\ data \in [Devices -> {"NULL", "uninitialised"}]
  /\ file \in [Files -> {"closed", "trim", "reset", "open", "oops"}]
  /\ fdev \in [Files -> Devices]
  /\ corrupt \in BOOLEAN

Init ==
  /\ mod = "unloaded" /\ pc = "idle" /\ idx = 0
  /\ owner = "free"
  /\ mem = [d \in Devices |-> "null"]
  /\ cdev = [d \in Devices |-> "none"]
  /\ data = [d \in Devices |-> "NULL"]
  /\ file = [f \in Files |-> "closed"]
  /\ fdev = [f \in Files |-> 0]
  /\ corrupt = FALSE

-----------------------------------------------------------------------------
(* Device numbers.                                                         *)

\* The minors alloc_chrdev_region(&devno, BASE_MINOR, NUM_DEVICES) reserves.
RegionMinors == BASE_MINOR .. BASE_MINOR + NUM_DEVICES - 1

\* The minor scull_setup_cdev(scull_devices[d], d + BASE_MINOR) registers:
\* it adds BASE_MINOR to an index that already contains it.
Minor(d) == (d + BASE_MINOR) + BASE_MINOR

(* Kernel calls of the loops over scull_devices.                           *)

\* kfree(scull_devices[d])
Kfree(d) ==
  mem' = [mem EXCEPT ![d] = IF @ = "allocated" THEN "freed" ELSE "double_freed"]

\* Faulty variant: the device is forgotten without kfree.
DeleteDeviceLeaks(d) ==
  /\ cdev' = [cdev EXCEPT ![d] = "none"]
  /\ UNCHANGED mem

\* if (scull_devices[d]) { cdev_del(...); kfree(...); }
DeleteDevice(d) ==
  IF mem[d] = "null"
    THEN UNCHANGED <<mem, cdev>>
    ELSE /\ cdev' = [cdev EXCEPT ![d] = "none"]
         /\ Kfree(d)

-----------------------------------------------------------------------------
(* scull_init                                                              *)

\* insmod: the module's static data, scull_devices[] among it, starts zeroed.
\* A reload over files that a failed load left open is not explored: what
\* they refer to is already gone.
Insmod ==
  /\ mod = "unloaded"
  /\ \A f \in Files : file[f] = "closed"
  /\ mod' = "coming" /\ pc' = "region" /\ idx' = 0
  /\ mem' = [d \in Devices |-> "null"]
  /\ UNCHANGED <<owner, cdev, data>> /\ UNCHANGED fileVars

\* The dynamic allocation hands out numbers nobody else holds.
InitRegion ==
  /\ pc = "region"
  /\ \/ /\ owner' = "scull"
        /\ pc' = "kmalloc"
        /\ UNCHANGED mod
     \/ /\ "alloc_chrdev_region" \in MayFail
        /\ pc' = "failed" /\ mod' = "unloaded"
        /\ UNCHANGED owner
  /\ UNCHANGED <<idx, mem, cdev, data>> /\ UNCHANGED fileVars

\* Faulty variant: a failed kmalloc gives the numbers back before the cleanup.
InitKmallocFreesNumbers ==
  /\ pc = "kmalloc" /\ idx < NUM_DEVICES
  /\ \/ /\ mem' = [mem EXCEPT ![idx] = "allocated"]
        /\ data' = [data EXCEPT ![idx] = "NULL"]
        /\ pc' = "setup"
        /\ UNCHANGED <<idx, owner>>
     \/ /\ "kmalloc" \in MayFail
        /\ pc' = "fail" /\ idx' = 0 /\ owner' = "free"
        /\ UNCHANGED <<mem, data>>
  /\ UNCHANGED <<mod, cdev>> /\ UNCHANGED fileVars

\* kmalloc does not clear what it returns: dev->data is whatever was there.
InitKmalloc ==
  /\ pc = "kmalloc" /\ idx < NUM_DEVICES
  /\ \/ /\ mem' = [mem EXCEPT ![idx] = "allocated"]
        /\ \E junk \in {"NULL", "uninitialised"} :
             data' = [data EXCEPT ![idx] = junk]
        /\ pc' = "setup"
        /\ UNCHANGED idx
     \/ /\ "kmalloc" \in MayFail
        /\ pc' = "fail" /\ idx' = 0
        /\ UNCHANGED <<mem, data>>
  /\ UNCHANGED <<mod, owner, cdev>> /\ UNCHANGED fileVars

\* Faulty variant: the index advances twice.
SetupSkipsDevice ==
  /\ pc = "setup"
  /\ cdev' = [cdev EXCEPT ![idx] = "added"]
  /\ idx' = idx + 2 /\ pc' = "kmalloc"
  /\ UNCHANGED <<mod, owner, mem, data>> /\ UNCHANGED fileVars

\* scull_setup_cdev: a failed cdev_add is logged and otherwise ignored.
scull_setup_cdev ==
  /\ pc = "setup"
  /\ \E result \in {"added"} \cup (IF "cdev_add" \in MayFail THEN {"inited"} ELSE {}) :
       cdev' = [cdev EXCEPT ![idx] = result]
  /\ idx' = idx + 1 /\ pc' = "kmalloc"
  /\ UNCHANGED <<mod, owner, mem, data>> /\ UNCHANGED fileVars

InitReturn ==
  /\ pc = "kmalloc" /\ idx = NUM_DEVICES
  /\ mod' = "live" /\ pc' = "idle"
  /\ UNCHANGED <<idx, owner, mem, cdev, data>> /\ UNCHANGED fileVars

\* The fail: label, one device per step, then the device numbers.
InitFailDevice ==
  /\ pc = "fail" /\ idx < NUM_DEVICES
  /\ DeleteDevice(idx)
  /\ idx' = idx + 1
  /\ UNCHANGED <<mod, pc, owner, data>> /\ UNCHANGED fileVars

InitFailReturn ==
  /\ pc = "fail" /\ idx = NUM_DEVICES
  /\ owner' = "free"
  /\ pc' = "failed" /\ mod' = "unloaded"
  /\ UNCHANGED <<idx, mem, cdev, data>> /\ UNCHANGED fileVars

-----------------------------------------------------------------------------
(* scull_exit                                                              *)

\* Faulty variant: open files do not pin the module (no .owner).
RmmodUnpinned ==
  /\ mod = "live"
  /\ mod' = "going" /\ pc' = "exit_region"
  /\ UNCHANGED <<idx, owner, mem, cdev, data>> /\ UNCHANGED fileVars

\* Every file that is not closed holds a reference on the module
\* (.owner = THIS_MODULE), and rmmod refuses a module that is referenced.
Rmmod ==
  /\ mod = "live"
  /\ \A f \in Files : file[f] = "closed"
  /\ mod' = "going" /\ pc' = "exit_region"
  /\ UNCHANGED <<idx, owner, mem, cdev, data>> /\ UNCHANGED fileVars

ExitRegion ==
  /\ pc = "exit_region"
  /\ owner' = "free"
  /\ pc' = "exit_free" /\ idx' = 0
  /\ UNCHANGED <<mod, mem, cdev, data>> /\ UNCHANGED fileVars

ExitDevice ==
  /\ pc = "exit_free" /\ idx < NUM_DEVICES
  /\ DeleteDevice(idx)
  /\ idx' = idx + 1
  /\ UNCHANGED <<mod, pc, owner, data>> /\ UNCHANGED fileVars

ExitReturn ==
  /\ pc = "exit_free" /\ idx = NUM_DEVICES
  /\ mod' = "unloaded" /\ pc' = "idle"
  /\ UNCHANGED <<idx, owner, mem, cdev, data>> /\ UNCHANGED fileVars

-----------------------------------------------------------------------------
(* File operations                                                         *)

\* A lookup finds the cdev and takes a reference on its owner, which a
\* module that is going away no longer gives.
CanOpen(d) == cdev[d] = "added" /\ mod \in {"coming", "live"}

scull_open(f, d, mode) ==
  /\ file[f] = "closed" /\ CanOpen(d)
  /\ fdev' = [fdev EXCEPT ![f] = d]
  /\ file' = [file EXCEPT ![f] = IF mode = "O_WRONLY" THEN "trim" ELSE "open"]
  /\ UNCHANGED <<owner, mem, cdev, data, corrupt>> /\ UNCHANGED loaderVars

\* The loop of scull_trim.  scull_write stores nothing, so the list is empty
\* unless dev->data was never set or dev itself is gone.  Following such a
\* pointer kills the opener or lets it free memory that is not the device's.
TrimWalk(f) ==
  /\ file[f] = "trim"
  /\ IF data[fdev[f]] = "NULL" /\ mem[fdev[f]] = "allocated"
       THEN /\ file' = [file EXCEPT ![f] = "reset"]
            /\ UNCHANGED corrupt
       ELSE /\ \E outcome \in {"reset", "oops"} :
                 file' = [file EXCEPT ![f] = outcome]
            /\ corrupt' = TRUE
  /\ UNCHANGED <<owner, mem, cdev, data, fdev>> /\ UNCHANGED loaderVars

\* The assignments after the loop: size, quantum and qset, then data = NULL.
TrimReset(f) ==
  /\ file[f] = "reset"
  /\ data' = [data EXCEPT ![fdev[f]] = "NULL"]
  /\ file' = [file EXCEPT ![f] = "open"]
  /\ UNCHANGED <<owner, mem, cdev, fdev, corrupt>> /\ UNCHANGED loaderVars

scull_release(f) ==
  /\ file[f] = "open"
  /\ file' = [file EXCEPT ![f] = "closed"]
  /\ UNCHANGED <<owner, mem, cdev, data, fdev, corrupt>>
  /\ UNCHANGED loaderVars

-----------------------------------------------------------------------------
(* Another driver takes device numbers nobody holds, and gives them back.  *)

OtherDriver ==
  /\ \/ owner = "free" /\ owner' = "other"
     \/ owner = "other" /\ owner' = "free"
  /\ UNCHANGED <<mem, cdev, data>> /\ UNCHANGED loaderVars /\ UNCHANGED fileVars

-----------------------------------------------------------------------------

Loader ==
  \/ InitRegion \/ InitKmalloc \/ scull_setup_cdev \/ InitReturn
  \/ InitFailDevice \/ InitFailReturn
  \/ ExitRegion \/ ExitDevice \/ ExitReturn

Opener(f) ==
  \/ \E d \in Devices, mode \in {"O_RDONLY", "O_WRONLY"} : scull_open(f, d, mode)
  \/ TrimWalk(f)
  \/ TrimReset(f)
  \/ scull_release(f)

Next ==
  \/ Insmod \/ Rmmod \/ Loader
  \/ \E f \in Files : Opener(f)
  \/ OtherDriver

Spec == Init /\ [][Next]_vars

-----------------------------------------------------------------------------
(* Properties                                                              *)

InitFailed == pc \in {"fail", "failed"}

\* Once scull_init has failed or scull_exit has returned, every scull_dev has
\* been freed exactly once, no cdev is left in the kernel's map and the device
\* numbers have been given back, whichever kernel call failed on the way.
UnloadedClean ==
  mod = "unloaded" =>
    /\ owner # "scull"
    /\ \A d \in Devices : mem[d] \in {"null", "freed"} /\ cdev[d] = "none"

\* A file that is open, or on its way through scull_open, loses its scull_dev in
\* one way only: the file was opened while scull_init was still running (main.c:101
\* wants scull_setup_cdev called at its very end), kmalloc failed for a later
\* device, and the fail: label freed the ones before.  It is never freed twice,
\* and scull_exit frees no device under an opener.
OpenFileOnLiveDevice ==
  \A f \in Files : file[f] # "closed" =>
    \/ mem[fdev[f]] = "allocated"
    \/ /\ InitFailed /\ mem[fdev[f]] = "freed"
       /\ \E later \in Devices : later > fdev[f] /\ mem[later] = "null"

\* Device numbers with a cdev of this driver behind them are reserved for this
\* driver, except while scull_exit runs its loop (it gives the numbers back
\* first, although main.c:52-53 lists the two in the other order).
AddedNumbersReserved ==
  \A d \in Devices : cdev[d] = "added" =>
    /\ Minor(d) \in RegionMinors
    /\ owner = "scull" \/ pc = "exit_free"

(* What the repository's comments say, and the code does not do.           *)

\* main.c:20, of scull_init: "create and initialize any necessary data
\* structures"; main.c:72, of scull_open: "initialize device if opened for the
\* first time".
TrimWalksInitialisedList == ~corrupt

=============================================================================
