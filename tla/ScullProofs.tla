----------------------------- MODULE ScullProofs -----------------------------
(***************************************************************************)
(* Proofs about the scull driver and about the scripts that load and       *)
(* unload it, for any number of devices and openers, any set of major      *)
(* numbers and whichever kernel calls fail.                                *)
(***************************************************************************)
EXTENDS ScullNodes, TLAPS

\* What a device looks like once the cleanup loop has passed it.
Gone(d) == mem[d] \in {"null", "freed"} /\ cdev[d] = "none"

\* What a device looks like before scull_init has reached it.
Untouched(d) == mem[d] = "null" /\ cdev[d] = "none"

\* The module loader's state and the loader's place in the code agree.
PhaseInv ==
  /\ mod = "unloaded" => pc \in {"idle", "failed"}
  /\ mod = "coming" => pc \in {"region", "kmalloc", "setup", "fail"}
  /\ mod = "live" => pc = "idle"
  /\ mod = "going" => pc \in {"exit_region", "exit_free"}

\* How far the loops have come: the devices below idx are done.
LoopInv ==
  /\ mod = "unloaded" => owner # "scull" /\ \A d \in Devices : Gone(d)
  /\ pc = "region" => idx = 0 /\ owner # "scull" /\ \A d \in Devices : Untouched(d)
  /\ pc \in {"kmalloc", "setup", "fail", "exit_region"} \/ mod = "live" => owner = "scull"
  /\ pc = "exit_free" => owner # "scull"
  /\ pc = "kmalloc" => \A d \in Devices :
       IF d < idx THEN mem[d] = "allocated" ELSE Untouched(d)
  /\ pc = "setup" =>
       /\ idx \in Devices
       /\ \A d \in Devices : /\ d < idx => mem[d] = "allocated"
                             /\ d = idx => mem[d] = "allocated" /\ cdev[d] = "none"
                             /\ d > idx => Untouched(d)
  /\ pc = "fail" => \A d \in Devices :
       IF d < idx THEN Gone(d) ELSE mem[d] = "allocated" \/ Untouched(d)
  /\ InitFailed => mem[NUM_DEVICES - 1] = "null"
  /\ mod = "live" \/ pc = "exit_region" => \A d \in Devices : mem[d] = "allocated"
  /\ pc = "exit_free" => \A d \in Devices :
       IF d < idx THEN Gone(d) ELSE mem[d] = "allocated"

\* A module that is going away has no opener.
GoingUnused == mod = "going" => \A f \in Files : file[f] = "closed"

IInv == TypeOK /\ PhaseInv /\ LoopInv /\ GoingUnused /\ OpenFileOnLiveDevice

-----------------------------------------------------------------------------

\* Devices is the interval of indices below NUM_DEVICES, and it is not empty.
LEMMA DevicesFacts ==
  /\ NUM_DEVICES \in Nat /\ NUM_DEVICES > 0
  /\ \A d \in Devices : d \in Nat /\ d < NUM_DEVICES
  /\ 0 \in Devices /\ NUM_DEVICES - 1 \in Devices
  /\ \A n \in 0 .. NUM_DEVICES : n < NUM_DEVICES => n \in Devices
  BY ConstantsAssumption DEF Devices

\* The state before the first insmod satisfies the invariant.
LEMMA InitIInv == Init => IInv
  <1> SUFFICES ASSUME Init PROVE IInv
    OBVIOUS
  <1>1. TypeOK
    <2>1. corrupt \in BOOLEAN
      BY DEF Init
    <2>2. QED
      BY <2>1, DevicesFacts DEF Init, TypeOK
  <1>2. PhaseInv /\ LoopInv
    BY DEF Init, PhaseInv, LoopInv, Gone, InitFailed
  <1>3. GoingUnused /\ OpenFileOnLiveDevice
    BY DEF Init, GoingUnused, OpenFileOnLiveDevice
  <1>4. QED
    BY <1>1, <1>2, <1>3 DEF IInv

\* The cleanup of one device, as scull_init's fail: loop and scull_exit do it.
LEMMA DeleteDeviceFacts ==
  ASSUME TypeOK, NEW n \in Devices, DeleteDevice(n),
         mem[n] = "allocated" \/ Untouched(n)
  PROVE  /\ mem' \in [Devices -> {"null", "allocated", "freed", "double_freed"}]
         /\ cdev' \in [Devices -> {"none", "inited", "added"}]
         /\ mem'[n] \in {"null", "freed"} /\ cdev'[n] = "none"
         /\ \A d \in Devices \ {n} : mem'[d] = mem[d] /\ cdev'[d] = cdev[d]
  BY DEF TypeOK, DeleteDevice, Kfree, Untouched

\* Every step of scull_init and scull_exit keeps the invariant.
LEMMA LoaderIInv == IInv /\ (Insmod \/ Rmmod \/ Loader) => IInv'
  <1> SUFFICES ASSUME IInv, Insmod \/ Rmmod \/ Loader PROVE IInv'
    OBVIOUS
  <1> USE DevicesFacts
      DEF IInv, TypeOK, PhaseInv, GoingUnused, OpenFileOnLiveDevice, InitFailed, fileVars
  <1>1. CASE Insmod
    BY <1>1 DEF Insmod, LoopInv, Gone, Untouched
  <1>2. CASE InitRegion
    BY <1>2 DEF InitRegion, LoopInv, Gone, Untouched
  <1>3. CASE InitKmalloc
    BY <1>3 DEF InitKmalloc, LoopInv, Gone, Untouched
  <1>4. CASE scull_setup_cdev
    BY <1>4 DEF scull_setup_cdev, LoopInv, Gone, Untouched
  <1>5. CASE InitReturn
    BY <1>5 DEF InitReturn, LoopInv, Gone, Untouched
  <1>6. CASE InitFailDevice
    <2>1. idx \in Devices /\ (mem[idx] = "allocated" \/ Untouched(idx))
      BY <1>6 DEF InitFailDevice, LoopInv
    <2>2. /\ mem' \in [Devices -> {"null", "allocated", "freed", "double_freed"}]
          /\ cdev' \in [Devices -> {"none", "inited", "added"}]
          /\ mem'[idx] \in {"null", "freed"} /\ cdev'[idx] = "none"
          /\ \A d \in Devices \ {idx} : mem'[d] = mem[d] /\ cdev'[d] = cdev[d]
      BY <1>6, <2>1, DeleteDeviceFacts DEF InitFailDevice, Untouched
    <2>3. mem[NUM_DEVICES - 1] = "null" /\ mem'[NUM_DEVICES - 1] = "null"
      BY <1>6 DEF InitFailDevice, LoopInv, DeleteDevice, Kfree
    <2>4. OpenFileOnLiveDevice'
      <3> SUFFICES ASSUME NEW f \in Files, file[f] # "closed", mem'[fdev[f]] # "allocated"
                   PROVE  mem'[fdev[f]] = "freed" /\ NUM_DEVICES - 1 > fdev[f]
        BY <1>6, <2>3 DEF InitFailDevice
      <3>1. mem[fdev[f]] \in {"allocated", "freed"} /\ fdev[f] \in Devices
        OBVIOUS
      <3>2. mem'[fdev[f]] = "freed"
        BY <1>6, <2>1, <2>2, <3>1 DEF InitFailDevice, DeleteDevice, Kfree
      <3>3. QED
        BY <2>3, <3>1, <3>2
    <2>5. QED
      BY <1>6, <2>1, <2>2, <2>3, <2>4 DEF InitFailDevice, LoopInv, Gone, Untouched
  <1>7. CASE InitFailReturn
    BY <1>7 DEF InitFailReturn, LoopInv, Gone, Untouched
  <1>8. CASE Rmmod
    BY <1>8 DEF Rmmod, LoopInv, Gone, Untouched
  <1>9. CASE ExitRegion
    BY <1>9 DEF ExitRegion, LoopInv, Gone, Untouched
  <1>10. CASE ExitDevice
    <2>1. idx \in Devices /\ mem[idx] = "allocated"
      BY <1>10 DEF ExitDevice, LoopInv
    <2>2. /\ mem' \in [Devices -> {"null", "allocated", "freed", "double_freed"}]
          /\ cdev' \in [Devices -> {"none", "inited", "added"}]
          /\ mem'[idx] \in {"null", "freed"} /\ cdev'[idx] = "none"
          /\ \A d \in Devices \ {idx} : mem'[d] = mem[d] /\ cdev'[d] = cdev[d]
      BY <1>10, <2>1, DeleteDeviceFacts DEF ExitDevice, Untouched
    <2>3. QED
      BY <1>10, <2>1, <2>2 DEF ExitDevice, LoopInv, Gone, Untouched
  <1>11. CASE ExitReturn
    BY <1>11 DEF ExitReturn, LoopInv, Gone, Untouched
  <1>12. QED
    BY <1>1, <1>2, <1>3, <1>4, <1>5, <1>6, <1>7, <1>8, <1>9, <1>10, <1>11 DEF Loader

\* Every step of scull_open, scull_trim and scull_release keeps the invariant.
LEMMA OpenerIInv ==
  ASSUME IInv, NEW f \in Files, Opener(f)
  PROVE  IInv'
  <1> USE DevicesFacts
      DEF IInv, TypeOK, PhaseInv, GoingUnused, OpenFileOnLiveDevice, InitFailed, loaderVars, LoopInv, Gone, Untouched
  <1>1. ASSUME NEW d \in Devices, NEW mode \in {"O_RDONLY", "O_WRONLY"},
               scull_open(f, d, mode)
        PROVE  IInv'
    BY <1>1 DEF scull_open, CanOpen
  <1>2. CASE TrimWalk(f)
    <2>1. PICK outcome \in {"reset", "oops"} : file' = [file EXCEPT ![f] = outcome]
      BY <1>2 DEF TrimWalk
    <2>2. corrupt' \in BOOLEAN
      BY <1>2, Zenon DEF TrimWalk
    <2>3. QED
      BY <1>2, <2>1, <2>2 DEF TrimWalk
  <1>3. CASE TrimReset(f)
    BY <1>3 DEF TrimReset
  <1>4. CASE scull_release(f)
    BY <1>4 DEF scull_release
  <1>5. QED
    BY <1>1, <1>2, <1>3, <1>4 DEF Opener

\* Every step of the system keeps the invariant.
LEMMA NextIInv == IInv /\ [Next]_vars => IInv'
  <1> SUFFICES ASSUME IInv, [Next]_vars PROVE IInv'
    OBVIOUS
  <1>1. CASE Insmod \/ Rmmod \/ Loader
    BY <1>1, LoaderIInv
  <1>2. ASSUME NEW f \in Files, Opener(f)
        PROVE  IInv'
    BY <1>2, OpenerIInv
  <1>3. CASE OtherDriver
    BY <1>3 DEF OtherDriver, IInv, TypeOK, PhaseInv, GoingUnused, InitFailed,
       OpenFileOnLiveDevice, loaderVars, fileVars, LoopInv,
       Gone, Untouched
  <1>4. CASE UNCHANGED vars
    BY <1>4 DEF vars, IInv, TypeOK, PhaseInv, GoingUnused, InitFailed,
       OpenFileOnLiveDevice, LoopInv, Gone, Untouched
  <1>5. QED
    BY <1>1, <1>2, <1>3, <1>4 DEF Next

\* The loops of scull_init and scull_exit, and the openers beside them, keep IInv.
THEOREM Invariance == Spec => []IInv
  <1>1. QED
    BY InitIInv, NextIInv, PTL DEF Spec

\* Every variable keeps its type.
THEOREM TypeCorrect == Spec => []TypeOK
  <1>1. IInv => TypeOK
    BY DEF IInv
  <1>2. QED
    BY <1>1, Invariance, PTL

\* A failed or finished load/unload cycle leaves nothing behind, for any number
\* of devices and any failing call.
THEOREM UnloadClean == Spec => []UnloadedClean
  <1>1. IInv => UnloadedClean
    BY DEF IInv, LoopInv, Gone, UnloadedClean
  <1>2. QED
    BY <1>1, Invariance, PTL

\* scull_exit never frees a device somebody has open or is opening.
THEOREM OpenFilesSafe == Spec => []OpenFileOnLiveDevice
  <1>1. IInv => OpenFileOnLiveDevice
    BY DEF IInv
  <1>2. QED
    BY <1>1, Invariance, PTL

\* A registered cdev has numbers this driver holds, outside scull_exit's loop;
\* the minors are in the reserved range because BASE_MINOR is 0.
THEOREM NumbersReserved == Spec => []AddedNumbersReserved
  <1>1. IInv => AddedNumbersReserved
    <2> SUFFICES ASSUME IInv, NEW d \in Devices, cdev[d] = "added"
                 PROVE  /\ Minor(d) \in RegionMinors
                        /\ owner = "scull" \/ pc = "exit_free"
      BY DEF AddedNumbersReserved
    <2>1. Minor(d) \in RegionMinors
      BY ConstantsAssumption, DevicesFacts DEF Minor, RegionMinors
    <2>2. owner = "scull" \/ pc = "exit_free"
      BY DEF IInv, TypeOK, PhaseInv, LoopInv, Gone, Untouched
    <2>3. QED
      BY <2>1, <2>2
  <1>2. QED
    BY <1>1, Invariance, PTL

-----------------------------------------------------------------------------
(* The scripts.                                                            *)

\* Whatever the scripts, the users of the nodes and other drivers do, the module
\* goes through steps of Scull.
LEMMA NodesStep ==
  ASSUME [NodesNext]_allVars
  PROVE  [Next]_vars
  <1>1. CASE LoaderStep
    BY <1>1 DEF LoaderStep, Next
  <1>2. ASSUME NEW f \in Files, UserStep(f)
        PROVE  [Next]_vars
    BY <1>2 DEF UserStep, Opener, Next
  <1>3. CASE Others
    BY <1>3 DEF Others, Next
  <1>4. CASE Start \/ Kill \/ UNCHANGED allVars
    BY <1>4 DEF Start, Kill, allVars
  <1>5. CASE Script
    BY <1>5 DEF Script, RunInsmod, InsmodReturn, RmStale, Awk, Mknod, AllocReturn, RunRmmod,
       RunRmmodThen, RmmodReturn, RmNodes, Next
  <1>6. QED
    BY <1>1, <1>2, <1>3, <1>4, <1>5 DEF NodesNext

\* scull under its scripts is scull: all that is proved above holds there too.
THEOREM ScriptsRunScull == NodesSpec => Spec
  <1>1. NodesInit => Init
    BY DEF NodesInit
  <1>2. [NodesNext]_allVars => [Next]_vars
    BY NodesStep
  <1>3. QED
    BY <1>1, <1>2, PTL DEF NodesSpec, Spec

\* The commands at which a script leaves the result of the one before it.
Before == {"idle", "insmod", "rmmod"}

\* A script that makes nodes has a module that stays loaded; the nodes of a
\* complete load, and their absence after an unload, last until a script gets as
\* far as changing something.
ScriptInv ==
  /\ script \in Before \cup {"loading", "rm", "awk", "mknod", "unloading", "rm_nodes"}
  /\ result \in {"loaded", "removed", "broken"}
  /\ nodes \in [Devices -> Majors \cup {NONE}]
  /\ k \in 0 .. NUM_DEVICES
  /\ script \in {"rm", "awk", "mknod"} => mod = "live"
  /\ script = "awk" /\ clean => nodes = NoNodes
  /\ script = "mknod" /\ clean =>
       /\ major = devno
       /\ \A n \in Devices : nodes[n] = IF n < k THEN devno ELSE NONE
  /\ result = "loaded" =>
       script \in Before /\ mod = "live" /\ \A n \in Devices : nodes[n] = devno
  /\ result = "removed" => script \in Before \cup {"loading"} /\ nodes = NoNodes

\* The numbers the kernel knows scull by, and a node's.
MajorsOK == devno \in Majors \cup {NONE} /\ major \in Majors \cup {NONE}

\* A step of the module alone keeps it: it does not end a load that is live, and
\* only a load that has yet to begin gets another number.
LEMMA ModuleScript ==
  ASSUME IInv, ScriptInv, MajorsOK,
         LoaderStep \/ (\E f \in Files : UserStep(f)) \/ Others
  PROVE  ScriptInv' /\ MajorsOK'
  <1> USE DEF ScriptInv, MajorsOK, scriptVars, Before
  <1>1. CASE LoaderStep
    <2>1. Loader /\ UNCHANGED scriptVars
      BY <1>1 DEF LoaderStep
    <2>2. mod # "live"
      BY <2>1 DEF IInv, PhaseInv, TypeOK, Loader, InitRegion, InitKmalloc, scull_setup_cdev,
         InitReturn, InitFailDevice, InitFailReturn, ExitRegion, ExitDevice, ExitReturn
    <2>3. devno' \in Majors \cup {NONE}
      BY <1>1 DEF LoaderStep
    <2>4. QED
      BY <2>1, <2>2, <2>3 DEF NoNodes
  <1>2. ASSUME NEW f \in Files, UserStep(f)
        PROVE  ScriptInv' /\ MajorsOK'
    BY <1>2 DEF UserStep, scull_open, TrimWalk, TrimReset, scull_release, loaderVars, NoNodes
  <1>3. CASE Others
    BY <1>3 DEF Others, OtherDriver, loaderVars, NoNodes
  <1>4. QED
    BY <1>1, <1>2, <1>3

\* A command of a script, and a script that ends between two of them, keep it.
LEMMA CommandScript ==
  ASSUME IInv, ScriptInv, MajorsOK, Start \/ Script \/ Kill
  PROVE  ScriptInv' /\ MajorsOK'
  <1> USE DevicesFacts DEF ScriptInv, MajorsOK, Command, Before, vars
  <1>1. CASE Start \/ Kill
    BY <1>1 DEF Start, Kill, NoNodes
  <1>2. CASE RunInsmod
    BY <1>2 DEF RunInsmod, Insmod, NoNodes
  <1>3. CASE InsmodReturn
    BY <1>3 DEF InsmodReturn, NoNodes
  <1>4. CASE RmStale
    BY <1>4 DEF RmStale, NoNodes
  <1>5. CASE Awk
    <2>1. mod = "live" /\ owner = "scull"
      BY <1>5 DEF Awk, IInv, LoopInv
    <2>2. QED
      BY <1>5, <2>1 DEF Awk, NoNodes
  <1>6. CASE Mknod
    <2>1. CASE nodes[k] = NONE /\ nodes' = [nodes EXCEPT ![k] = major] /\ clean
      <3>1. k \in Devices /\ major = devno /\ script = "mknod"
        BY <1>6, <2>1 DEF Mknod, Devices
      <3>2. \A n \in Devices : nodes'[n] = IF n < k + 1 THEN devno ELSE NONE
        BY <2>1, <3>1 DEF Devices
      <3>3. QED
        BY <1>6, <2>1, <3>1, <3>2 DEF Mknod, NoNodes
    <2>2. CASE UNCHANGED nodes \/ ~clean
      <3>1. clean' = FALSE
        BY <1>6, <2>2, Zenon DEF Mknod
      <3>2. nodes' \in [Devices -> Majors \cup {NONE}]
        BY <1>6 DEF Mknod
      <3>3. QED
        BY <1>6, <3>1, <3>2 DEF Mknod, NoNodes
    <2>3. QED
      BY <1>6, <2>1, <2>2 DEF Mknod
  <1>7. CASE AllocReturn
    BY <1>7 DEF AllocReturn, NoNodes
  <1>8. CASE RunRmmod
    BY <1>8 DEF RunRmmod, RunRmmodThen, Rmmod, NoNodes
  <1>9. CASE RmmodReturn \/ RmNodes
    BY <1>9 DEF RmmodReturn, RmNodes, NoNodes
  <1>10. QED
    BY <1>1, <1>2, <1>3, <1>4, <1>5, <1>6, <1>7, <1>8, <1>9 DEF Script

\* A load that ran to its end over clean nodes leads every node to scull, and an
\* unload leaves none, whatever was killed, refused or left behind before.
THEOREM NodesRight == NodesSpec => []NodesAsLeft
  <1>1. NodesInit => ScriptInv /\ MajorsOK
    BY DevicesFacts DEF NodesInit, ScriptInv, MajorsOK, Before, NoNodes
  <1>2. IInv /\ ScriptInv /\ MajorsOK /\ [NodesNext]_allVars => ScriptInv' /\ MajorsOK'
    <2> SUFFICES ASSUME IInv, ScriptInv, MajorsOK, [NodesNext]_allVars
                 PROVE  ScriptInv' /\ MajorsOK'
      OBVIOUS
    <2>1. CASE UNCHANGED allVars
      BY <2>1 DEF allVars, vars, scriptVars, ScriptInv, MajorsOK, NoNodes
    <2>2. QED
      BY <2>1, ModuleScript, CommandScript DEF NodesNext
  <1>3. IInv /\ ScriptInv => NodesAsLeft
    BY DEF IInv, LoopInv, ScriptInv, NodesAsLeft
  <1>4. NodesSpec => []IInv
    BY ScriptsRunScull, Invariance, PTL
  <1>5. QED
    BY <1>1, <1>2, <1>3, <1>4, PTL DEF NodesSpec

=============================================================================
