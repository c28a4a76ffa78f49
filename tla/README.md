# A TLA+ verification of the scull repository

The repository is a collection of small Linux drivers: the character driver
`scull` and a family of PCI, network, UIO and DMA drivers written around it.
They share no code. What they have in common is what makes kernel drivers hard:
a setup that can fail at any call and must be undone in order, handlers that run
at any moment between two calls of that setup, and a teardown that has to wait
for all of them. This directory models those parts, checks them with TLC on small
instances and proves the results that matter most for every instance with TLAPS.

1. Inventory of the system
2. The modules and how they correspond to the code
3. The runs, their bounds and their fairness
4. What is proved
5. Where the code and its comments disagree
6. What is not modelled
7. Plan

Line numbers refer to the files under `src/`.

## 1. Inventory

### scull (`main.c`, `main.h`, `util.c`, `util.h`)

*State*: the module's place in the kernel's loader; `scull_devices[]`, an array of
pointers to allocated `scull_dev`s, each with a `cdev` that is registered on its
own and a data list; the device numbers `devno`; one `filp->private_data` per
open file.
*Operations*: `scull_init` (numbers, then per device `kmalloc` and
`scull_setup_cdev`, with a `fail:` label that undoes everything), `scull_exit`,
`scull_open` (which trims when opened `O_WRONLY`), `scull_release`, `scull_read`
and `scull_write` (stubs), `scull_trim`.
*Interaction*: the kernel calls the file operations as soon as `cdev_add` has
returned, while `scull_init` is still in its loop. `.owner = THIS_MODULE` keeps
the module loaded while a file is open.
*Hard*: failure of any call at any iteration; opens before the load has finished;
`scull_trim` by several processes at once with a semaphore nobody initialises or
takes; memory that `kmalloc` does not clear; the order of teardown.
*Correct means*: everything is freed exactly once and the numbers are given back;
no device is freed under an open file; the minors a device is registered under
are the ones reserved; loading ends.

### my_device (`dma_kernel_with_peripheral/driver.c`)

*State*: the PCI device's resources (enabled device, private data, regions,
mapping, coherent buffer, IRQ), its registers, one tasklet.
*Operations*: `my_device_probe` with its chain of rollback labels,
`my_device_simulate_dma` (which plays the device and calls the interrupt handler
by hand), `my_device_isr`, `my_device_tasklet_handler`, `my_device_remove`.
*Interaction*: the handler runs in two contexts, called by the probe thread and
by the kernel on an `IRQF_SHARED` line, and both schedule the same tasklet.
*Hard*: the two contexts are not excluded from each other; a neighbour on the
shared line calls the handler between any two steps; remove races both handler
and tasklet; six rollback paths.
*Correct means*: nothing the handler or tasklet can reach is given back; no
completion is lost, invented or processed twice; every resource is given back.

### mynic (`network/nic.c`)

*State*: as above, plus the `net_device`, a NAPI context, a TX ring with
`tx_head`, `tx_tail` and a spin lock.
*Operations*: `mynic_probe`, `mynic_remove`, `mynic_open`, `mynic_stop`,
`mynic_start_xmit`, `mynic_interrupt`, `mynic_poll`.
*Interaction*: the RTNL lock serialises open, stop and unregistration; the
interrupt schedules the poll; the poll re-enables interrupts; transmit and the
interrupt share the TX ring under `priv->lock`.
*Hard*: the interface is visible before the IRQ is requested and NAPI is added; a
poll that has completed NAPI still has a register to write; budget and missed
interrupts; ring wrap; a spin lock shared with an interrupt handler.
*Correct means*: the mapping and the `net_device` outlive everyone who can touch
them; no wakeup is lost; received packets reach the stack; the ring, the device
and the reclaiming interrupt agree on who owns a packet.

### simple_dma and user_app (`dma_user/`)

*State*: the region, class, cdev and device node; `dma_device` and the one
coherent buffer `dma_buffer_virt`, which all users share; in user_app the
mapping of it.
*Operations*: `simple_dma_init` with its rollback labels, `simple_dma_exit`,
`simple_dma_mmap`, `simple_dma_ioctl` (reverses the buffer in place);
user_app's `main`: open, mmap, memset, memcpy, ioctl, print, munmap, close.
*Interaction*: users reach the buffer through their mapping and through the
ioctl, at the same time and without a lock; a file or a mapping pins the module.
*Hard*: init goes on when it has no device or no buffer; failure after the
buffer was allocated; concurrent reversals; a user that is killed anywhere.
*Correct means*: nothing stays registered; the node never dangles; the buffer
outlives its mappings; an undisturbed user reads back its data, reversed.

### scull scripts (`dynamic_device_alloc.sh`, `device_delloc.sh`)

*State*: the nodes `/dev/scull[0-3]`, the shell variable with the major number,
and through insmod and rmmod the state of scull.
*Operations*: one script loads the module, looks its major number up, removes old
nodes and makes new ones; the other unloads the module and removes the nodes.
*Hard*: insmod fails, rmmod is refused while a file is open, `rm` is not allowed
to, a `mknod` fails, the script is killed between two commands, another driver
gets the number.
*Correct means*: after a load that ran to its end every node leads to scull, after
an unload there is none, and no script hangs.

### pci_irq_driver (`pci_mmio/pcie.c`)

*State*: per device what the PCI core and `request_irq` keep; `mmio_base` and
`irq_line` are static, one pair for all devices.
*Operations*: `pci_probe`, `pci_remove`, the handler (which returns at once), load
and unload.
*Hard*: probes and removes of different devices interleave and each remove gives
back what the static variables say by then.
*Correct means*: a device gets all its resources back to the kernel; a handler
never outlives the device it belongs to.

### dummy_uio (`uio/simple_uio_driver.c`)

*State*: the resources, MSI-X and `dummy_irq`.
*Operations*: `dummy_probe` (MSI-X, else the legacy interrupt; four error labels),
`dummy_remove`. `dummy_irqcontrol` is never called: `uio_register_device` requests
the line it is told, with the `irq_flags` 0 of lines 78-82, and the driver has held
that line unshared since line 69, so no device with an interrupt is registered;
without an interrupt the UIO core refuses every read and write.
*Hard*: the probe of a device with an interrupt always fails at its last step; the
error labels skip MSI-X, and the next probe finds it enabled and falls back.
*Correct means*: wherever a probe ends, everything is given back, each thing once;
a handler sits on a vector only while MSI-X is on.

### myloop and simple_nic (`network/simple_loopback.c`, `network/simple_nic.c`)

*State*: the `net_device`, its registration, the skbs under way, `dev->stats`.
*Operations*: load or probe, exit or remove, open, stop, and the two transmit
functions: one loops the packet back with `netif_rx`, the other frees it.
*Hard*: a packet given to `netif_rx` is received on another CPU while it is still
being counted; registration can fail with the `net_device` allocated.
*Correct means*: every packet is freed once and counted once; the `net_device`
outlives transmitters and backlog.

### my_pmd (`network/dpdk/pmd.c`)

*State*: the port, per queue a ring with an index of the driver, `link_up`.
*Operations*: probe, remove, start, stop, queue set-up, link update, the two
bursts.
*Hard*: the application chooses the length of a ring and the indices wrap at a
constant; a ring at its limits; set-up while the device is part of the way round.
*Correct means*: driver and device keep step; no burst leaves a ring that is long
enough, and it is known at which packet one leaves a ring that is not.

### multi_vector (`interrupts/driver.c`)

A fragment with two handlers that are declared and never defined; requesting and
freeing the vectors are comments. There is no behaviour to model.

PROJECT.json lists each hazard at its line under `hazards`.

## 2. Modules

| module | what it is |
|---|---|
| `Scull` | scull's load, unload and openers |
| `ScullProofs` | its inductive invariant and theorems, and those of the scripts |
| `PciBinding` | abstract: what every PCI driver here promises between probe and remove |
| `MyDevice` | the my_device driver, which implements `PciBinding` |
| `MyDeviceProofs` | its inductive invariant, theorems and the refinement proof |
| `Mynic` | the mynic driver without transmit, which implements `PciBinding` |
| `MynicProofs` | its inductive invariant, theorems and the refinement proof |
| `MynicTx` | mynic's TX ring and the transmit half of its interrupt, across open, stop and remove |
| `MynicTxProofs` | the invariant of the ring and its theorems |
| `SimpleDma` | the simple_dma module and the processes that run user_app |
| `SimpleDmaProofs` | its inductive invariant, the loop invariant of the reversal, theorems |
| `ScullNodes` | the two scripts and the nodes in /dev, composed with `Scull` |
| `PciIrq` | pci_irq_driver bound to several devices, each of which implements `PciBinding` |
| `PciIrqProofs` | its inductive invariant, theorems and the refinement proof |
| `DummyUio` | the dummy_uio driver; implements `PciBinding` |
| `DummyUioProofs` | its inductive invariant, theorems and the refinement proof |
| `SimpleNetdev` | the drivers myloop and simple_nic |
| `MyPmd` | the poll-mode driver my_pmd |
| `NetworkProofs` | for `MyPmd` and for `SimpleNetdev`, which share nothing: the inductive invariants, theorems and a refinement proof |
| `MC...` | one per module above that is checked: values for its constants |

A definition called a *faulty variant* in a comment is a plausible mistake in the
definition that follows it. No specification uses it; `PROJECT.json` pairs it
with the property that notices the mistake.

### Scull

The loader is one process whose `pc` is its place in `scull_init` or
`scull_exit`, one kernel call per action: `InitRegion`, `InitKmalloc`,
`scull_setup_cdev`, `InitReturn`, the two actions of the `fail:` label, and
`ExitRegion`, `ExitDevice`, `ExitReturn`. `idx` is the loop variable. `mem[d]`
is what `scull_devices[d]` points to, and records a second `kfree`; `cdev[d]`
is the registration; `data[d]` is `NULL` or whatever `kmalloc` left there.
`owner` is who holds the numbers: another driver may take them when they are
free. Each element of `Files` is a process that opens a device, trims it in two
steps (the walk, then the assignments: no lock holds them together) and closes
it. `scull_write` stores nothing, so the list is empty unless nobody initialised
it: walking an uninitialised pointer, or the list of a freed device, either
kills the opener or goes on and corrupts memory. A load that fails leaves its
openers behind; a new load over such files is not explored, since what they
refer to is undefined from there on.

### PciBinding

A binding goes through the phases unbound, probing, bound and releasing. It may
acquire only while probing, and give back, one resource at a time, only what no
handler may touch (`using`); it is unbound only when nothing is held except what
the driver core frees itself (`Managed`). `using` stays a subset of `held` in
every step.

### MyDevice

`pc` is the place of the thread that probes and removes; its values are the
resource about to be acquired, the rollback labels of the source, and the steps
of remove. Registers are sets of bits. `my_device_isr(c)` runs in a context `c`,
`"probe"` or `"line"`, in three steps (read status; write it back without DONE;
`tasklet_schedule`), because the two contexts interleave. On the line it may
enter whenever the IRQ is requested, since other devices share the line. The
mapping to `PciBinding` takes `using` to what the handler on the line and the
tasklet may touch.

### Mynic

The thread that probes and removes, the holder of the RTNL lock (`op`), the
interrupt handler (`isr`) and the softirq (`poll`) are the four parties. `late`
counts polls that have called `napi_complete_done` and have yet to write
`CONTROL_REG`: from that moment another CPU may poll, so there may be several,
at most one for each CPU. `fresh` is an auxiliary variable: packets that arrived
on the running interface wait, and the driver has not given them up (a stop, or
a poll that found no memory). `leftOn` is another: `CONTROL_REG` was not zero
when the last probe began. Nothing in probe or remove writes that register, so
a device that a late poll has enabled again stays enabled for the next binding.

What the kernel and the hardware do is modelled from how the driver uses it:

- the NAPI state bits SCHED, MISSED and DISABLE behave as in the kernels for
  which `netif_napi_add` has a weight argument, as the call in the source has;
  `napi_enable` on a context that is not disabled is a BUG, and polling a context
  that was never added calls a null pointer and panics;
- the device receives and interrupts while `CONTROL_REG` is not zero. The source
  writes two different nonzero values and names no bit of either;
- status registers are cleared by writing the bits back;
- `unregister_netdev` stops an interface that is up and waits for softirqs that
  are queued or running; `free_irq` waits for the running handler.

### MynicTx

`mynic_start_xmit` takes the lock, fills the slot at `tx_head`, gives the packet
to the device and unlocks; the handler acknowledges, takes the lock and reclaims
one slot per packet the device has sent. Both run on a CPU, and a CPU that took
the interrupt does not run the transmit path until the handler returns. The
network core runs one `ndo_start_xmit` at a time on a single queue. `Skbs` are
the packets of the stack, any number of them: the source never stops the queue, so a
slot may be filled that still holds a packet. `lost` is auxiliary and collects those
packets: nothing refers to them any more, and they are never freed. What the device
was given (`toSend`) is its own, and it sends an overwritten packet all the same; from
then on the driver's tail and the device are out of step. The model begins where
probe ended. `mynic_open`, `mynic_stop` and the two steps of `mynic_remove` leave
the ring as it is: what stop leaves there is reclaimed by the first interrupt
that comes later, what remove leaves there is lost. The network core waits for a
running transmit before it stops an interface, `free_irq` for a running handler.
An interrupt can come to a stopped interface (see `late` above), but none is due.

### ScullNodes

It extends `Scull`: `insmod` and `rmmod` start the loader of that module, whose
steps go on while the script waits, and openers reach a device only through a
node with the right numbers. `devno` is the major number `alloc_chrdev_region`
chose; `nodes` is the major number of each node; `script` is the command a script
is at, one action each; `major` its shell variable. Every command may fail, `rm` and
`mknod` included, which the scripts do not look at. `clean` says that those of the
load script have done their work so far, and `result` what the last
script that changed anything has completed, so that a property can speak of the
scripts that ran to their end. `Kill` ends a script between two commands.

### PciIrq

`pc`, `held` and `handlers` are per device, `mmio_base` and `irq_line` are not.
`maps` records which device each mapping belongs to, so that a remove that unmaps
the mapping of another device shows. `request_irq` and the assignment of
`irq_line` are one step. `together` and `mixed` are auxiliary: two devices, or two
with different lines, have been bound at the same time. `BindingSpec` is
`PciBinding` once for each device.

### DummyUio

One device is probed and removed again and again. `dummy_irq` is the kind of number
the variable holds: a vector, the device's legacy line, or 0 (`"none"`).
`uio_register_device` is external and modelled by what it does with the arguments it
is given: it requests `info.irq` with `irq_flags`, which the kernel refuses for a line
that is held unshared (`LineTaken`), and requests nothing for the number 0. A probe
therefore succeeds only on a device without an interrupt, on a platform where
`request_irq` accepts the number 0, and only there remove is reached. `ended` is
auxiliary: whether the last binding ended in a failed probe or in remove.

### SimpleNetdev

One behaviour is about one driver, chosen in `NetInit` (`drv`); `at` is the place of the
thread that loads and unloads it. A transmit function
runs under the queue's lock, so the two CPUs take turns, but a packet that was
given to `netif_rx` can be freed by the receiving side before the transmitter
reads `skb->len`; `early` records those packets. Each counter is updated by a read
and a write. `LosesNetdev` is the one step in which myloop's init returns although
its `net_device` could not be registered, and does not free it.

### MyPmd

One port with one receive and one transmit queue; queues share nothing, so others
would behave alike. The conditions on hardware descriptors are comments in the
source, and the device is modelled from them: it works through each ring in
order. `ring` holds the number of the packet each entry points to and `wire` the
numbers the device has sent. A queue may be set up again: the pointer to the earlier
ring is overwritten (151, 163) and its memory lost, which changes nothing else.
`wild` records a burst that used an index beyond
the ring that was allocated; nothing is explored after it.

### SimpleDma

The loader's `pc` is the resource `simple_dma_init` is about to register, a
rollback label, or a step of exit. `held` is what is registered, `misused`
records a teardown of what is not there. `ret` is what init returns: when
`device_create` fails it is `PTR_ERR` of a valid class pointer (251), whose low 32
bits may be negative or not, so the module loader may take it for a failure or
for success. Each element of `Users` is a process in user_app's `main`. Its
memset and memcpy are one step each; the ioctl's loop is three steps per
iteration (`temp = buf[i]`, `buf[i] = buf[j]`, `buf[j] = temp`), so concurrent
reversals can mix the bytes in every way. `j` is always `Mirror(i)`. `sole` is
auxiliary: the user since whose memset nobody else has written to the buffer.
`Kill` ends a process anywhere outside the kernel. `view` is `"other"` when
`dma_mmap_coherent` was called without a buffer and mapped something all the
same. `class_find_device` should find nothing in a class that was just created;
the code provides for both results, and so does the model.

## 3. Runs

| run | what it shows |
|---|---|
| `scull_lifecycle` | through any number of loads and unloads, with every kernel call failing anywhere and three openers: `UnloadedClean`, `AddedNumbersReserved`, and a file loses its device only to an init whose `kmalloc` failed for a later one (`OpenFileOnLiveDevice`) |
| `my_device` | all failures, both handler contexts, tasklet and remove: the driver implements `PciBinding` (`BindingSpec`), loses no completion (`CompletionNotLost`), invents none (`NoPhantomCompletion`) and processes each in the end (`CompletionProcessed`) |
| `mynic` | probe failures, early opens, interrupts, polls on two CPUs, stop and remove: `BindingSpec`, no lost wakeup (`WaitingHasWakeup`), packets are received (`WaitingServed`), and only an open in the window of probe before NAPI exists, or a device left enabled, meets the BUG or the panic (`OopsOnlyEarly`) |
| `mynic_tx` | with more packets than slots, across stops, opens and a remove: every packet is in one slot, freed or overwritten (`RingHoldsOwned`), the first one overwritten met a full ring (`FirstLossNeedsFullRing`), until then nothing is freed that the device has yet to send (`DeviceOwnsToSend`), a sent packet has an interrupt (`SentHasInterrupt`), and on an interface that stays up only overwriting and the self-deadlock of section 5 keep a packet for ever (`TransmitCompletesOrDeadlocks`) |
| `simple_dma` | loads, unloads and two user_apps, every call failing, every process killed anywhere: nothing stays registered and only a failed init leaves the buffer (`UnloadedClean`), `NodeLeadsToDriver`, `MappedBufferLives`, `TeardownOnce`, the reversal (`AloneReversed`), and every user_app ends (`UserFinishes`) |
| `scull_nodes` | both scripts in any order, failing, refused and killed anywhere, with an opener and another driver that takes numbers: what they leave in /dev (`NodesAsLeft`), and every script ends (`ScriptEnds`) |
| `pci_irq` | three devices on two lines: `BindingSpec` for each device, and the static variables lose a mapping or a handler only once devices were bound together (`NothingLeft`) |
| `dummy_uio` | every failure of probe, among them the one the driver brings on itself, and removes: `BindingSpec`, MSI-X (`VectorAccounted`) |
| `simple_netdev` | either driver, loaded and unloaded while two CPUs transmit: `PacketsAccounted`, and `PciBinding` but for one step of myloop (`BindingUnlessLost`) |
| `my_pmd` | set-ups with rings of several sizes, starts, stops and removes under polling: at which packet a burst leaves its ring, if it does (`OverrunsShortRings`), `RingsInStep` |
| `scull_trim_garbage`, `my_device_twice` | each violates one property that a comment states: section 5 |

### Bounds, and why they are enough

- *scull*: 3 devices stand for the source's 4. The loops treat all iterations
  alike, so first, middle and last are the cases; the theorems of section 4 hold
  for any number. Three openers, which are symmetric, let two trim the device a
  third one holds. Nothing bounds the number of loads, opens or trims. The
  violation run needs one device and one opener.
- *scull_nodes*: 2 devices let a script be killed with some nodes made and some
  not, and an opener hold one device while the other goes; 2 major numbers let
  the kernel hand out the old one or another. One opener is enough for rmmod to
  be refused; what several openers do to each other is the run above.
- *my_device*: `pci_irq_vector` returns an error (-22) or a vector (11). `processed`
  is not capped; each binding performs one DMA, so it stays at 2 or less.
- *mynic*: a budget of 2 with 3 packets in the device makes a poll end for want
  of packets, for want of budget, and after a second round; 4 arrivals allow one
  to come while the last poll completes. With 2 CPUs one poll can be about to
  write `CONTROL_REG` while the next one runs or also gets there. The budget
  test, the ring bound and the arrival bound are the guards named `Budget`,
  `RingSize` and `MaxArrivals`.
- *mynic_tx*: 2 slots and 4 packets that are reused for ever: the ring is empty,
  partly full, full and overfull by as many packets as it has slots, and both
  indices wrap any number of times. A packet that was overwritten is not handed
  out again; the others go on round the ring. Nothing bounds the number of opens
  and stops.
- *simple_dma*: two users are enough for one to disturb another at any of its
  steps. Four bytes make two iterations of the loop, and the message with its
  terminator leaves one byte over; `ReversesAlone` holds for every size, odd ones
  included. Nothing bounds the number of loads or of user_app runs.
- *pci_irq*: three devices on two lines give pairs that share a line and pairs that
  do not; 2 addresses let a mapping be reused or not. `MaxHandlers` lets one
  device pile up a second handler on its line, after which it is not probed again.
- *dummy_uio*: no bound. `PdevIrqs` has both kinds of number a device can have, and
  every call may fail.
- *simple_netdev*: three packets of lengths 1, 2 and 4, so that every subset has its
  own sum, on 2 CPUs. A packet is transmitted once for each `net_device`.
- *my_pmd*: the indices wrap at 3, with rings of 2, 3 and 4 entries: too short, as
  long as the wrap, longer. `MaxPackets` 7 wraps twice, `MaxBurst` 3 fills a ring
  in one burst.

### Deadlock

Deadlock is checked for my_device, pci_irq, dummy_uio and scull_nodes. It is not
for the others, because there the system may really stop: in scull_lifecycle an
opener killed in the trim pins the module for ever; in mynic a panic stops
everything, and an opener that hits the BUG in `napi_enable` dies holding the RTNL
lock; in mynic_tx a CPU may wait for itself, and nothing happens after remove; in
simple_dma nothing is explored after a call on something that was gone, and a user
killed by a null pointer pins the module; in simple_netdev myloop's init goes on
with a null pointer when there is no memory; in my_pmd probe writes through an
unchecked pointer, and an access outside a ring is not followed further.

### Fairness

Weak fairness of what the kernel runs to its end once begun: a system call of
the loader (scull_nodes, simple_dma), the commands of a script (scull_nodes), the
steps of a user_app (simple_dma), a probe, a handler that was entered, a scheduled tasklet
(my_device), a raised interrupt, a queued poll, an operation under the RTNL lock
(mynic), an interrupt raised on an interface that is up (mynic_tx). Strong fairness only for locks that hand over to their waiters in turn:
the queued spin locks of the kernel (`XmitLock`, `IsrLock`) and the RTNL mutex
(`Unregister`). Nobody is obliged to load, unload, open, close, probe, remove,
send, or run a script, and the neighbours on a shared line are not obliged to interrupt.

## 4. Proofs

All theorems are of the specification without fairness, for every value of the
constants that satisfies the named `ASSUME`s. A hypothesis beyond those is part of the
theorem's statement and named below.

`ScullProofs` (any number of devices, any set of openers, any set of calls that
may fail). The properties are not inductive: that `scull_exit` leaves nothing
behind depends on which iteration each loop has reached, and that it frees
nothing in use depends on how the module got there. The invariant `IInv` adds

- `PhaseInv`: which `mod`, `pc` and `owner` go together;
- `LoopInv`: during each loop, the state of the devices below the index and of
  those from the index on (allocated so far, or already deleted);
- `GoingUnused`: once `scull_exit` has begun, no file is open.

From it follow `TypeCorrect`, `UnloadClean` (`UnloadedClean`), `OpenFilesSafe`
(`OpenFileOnLiveDevice`, since a failing init never got as far as the last device)
and `NumbersReserved` (`AddedNumbersReserved`).

For the scripts, `ScriptsRunScull` says that every behaviour of `ScullNodes` is one
of `Scull`, so that `IInv` holds there too. `ScriptInv` adds what each script has
done at the command it is at: while nodes are being made the module is live, those
below the loop variable have its number and the others do not exist, unless an `rm`
or a `mknod` failed; and what a complete load or unload has left lasts until the next script
changes something. From both follows `NodesRight` (`NodesAsLeft`), for any number of
devices and of major numbers.

`MyDeviceProofs` (any set of vector numbers, any power-on status, any set of
failing calls). The invariant consists of

- `HeldByPlace`: the resources held, as a function of `pc`;
- `VectorRequested`: a requested IRQ has a positive vector;
- `ActiveByPlace`: at which places a handler can be inside and the tasklet
  scheduled or running;
- `CompletionTracked`: where a finished DMA is on its way to the tasklet.

Two hypotheses are needed and stated in the theorems. `0 \notin IrqNumbers`:
remove frees the IRQ only `if (priv->irq > 0)` (line 322) while probe accepts 0,
so with vector 0 it would be left requested. And, for `NoPhantom` only, no DONE
bit in the power-on status: a handler called by a neighbour before the first DMA
would take it for a completion. From the invariant follow `TypeCorrect`,
`CompletionKept`, `NoPhantom` and `Refinement`: every step of `MyDevice` is a
step of `PciBinding` or leaves it unchanged.

`SimpleDmaProofs` (any set of users, any size of the buffer, any message that
fits, any set of failing calls). `IInv` consists of `PhaseInv` and `HeldByPlace`
(what is registered at each place, which differs after a load that only passes
for successful), `UserByPlace` (a user is past open only while the load has
succeeded, and only before exit begins) and `SwapInside` (both indices are in the
buffer during a swap). It gives `TypeCorrect`, `UnloadClean`, `NodeSafe`,
`BufferOutlivesUsers` and `TornDownOnce`. `BufferOutlivesUsers` also says what a
user can have mapped when there is no buffer: something else, which the ioctl
refuses to touch, so that it never gets as far as printing. `ReversesAlone` adds `ContentByPlace`,
the loop invariant: for the sole user at index `n`, bytes below `n` and above
`Mirror(n)` have changed places and those between have not (`PartlyReversed`), and
in the middle of a swap one of the two has (`HalfSwapped`). It needs no induction
over data, since each step of the loop is a step of the specification.

`MynicProofs` (any budget, ring, bound on arrivals, number of CPUs and set of failing
calls). Neither `WaitingHasWakeup` nor `OopsOnlyEarly` is inductive; what they rest on
is the meaning of the NAPI bits, which changes with the place of four parties.
`IInv` consists of

- `HeldByPlace` and `UsersHold`: what is held at each place, and what a handler, a
  poll, a poll on its way out and an operation under the RTNL lock keep held;
- `OneOperation`: what the RTNL lock excludes;
- `ContextByPlace` and `DisableByStop`: when the context exists, and who sets DISABLE;
- `ScheduledIsPolled`: an enabled context with SCHED set has a poll, so an interrupt
  that only sets MISSED is not lost;
- `FreshIsAnnounced`: between the last look of a poll at the device and its
  `napi_complete_done`, packets that have come since have an interrupt, a handler
  or MISSED. This is where a wakeup could be lost;
- `CpuToLeave`: a poll that runs has a CPU to leave on;
- `CleanStart`: with a device that was off when probe began, nothing touches the
  context before it is added, and from then on SCHED means "disabled, or a poll is
  due". The cases `OopsOnlyEarly` excepts are the ones where this fails.

It gives `TypeCorrect`, `NoLostWakeup`, `OopsesLeft` and `Refinement`. TLC has checked
`IInv` on the instance of the run `mynic`.

`MynicTxProofs` (a ring of any size, any packets, any CPUs; no hypothesis that the
ring suffices, since the code does not see to it). There are two invariants.
`OwnersInv`, with `RingHoldsOwned`, holds for ever: filling a slot moves what it held
to `lost`, reclaiming one frees what it holds (`FillRing`, `ReclaimRing`). `Aligned`
holds until the first loss: the slots from `tx_tail` on hold, in order, first the
packets the device has sent and then those it was given, and the slots from there to
`tx_head` are all the filled ones (`FillAligned`, `ReclaimAligned`). While it does, a
slot at `tx_head` that is in use means that the head has met the tail and every slot
is in use (`HeadMeetsTail`), so that the ring cannot lose its first packet otherwise.
They give `PacketsAccounted` (`RingHoldsOwned`), `LossNeedsFullRing`
(`FirstLossNeedsFullRing`), `NothingFreedEarly` (`DeviceOwnsToSend`), `TypeCorrect` and
`SentNoticed`. The theorems about the lock say that it is held exactly between
`spin_lock` and `spin_unlock` (`MutualExclusion`), so that the interrupt on the CPU that
holds it is the only way to wait in vain (`OnlySelfDeadlock`).
That the wait then ends is fairness and stays with TLC.

`PciIrqProofs` (any number of devices, lines and addresses). The static variables
belong to all devices, so the invariant says for how long they can be trusted:
`HandlerByPlace` while no devices with different lines were bound together,
`MappingByPlace` while no two devices were. With `HeldByPlace`, `LoadedWhileBound` and
`RoomForHandler` it gives `TypeCorrect`, `GivenBack` (`NothingLeft`) and `Refinement`,
one `PciBinding` for each device.

`DummyUioProofs` (any numbers a device can have, any set of failing calls).
`HeldByPlace` says what is held at each place and `VectorByPlace` how the number in
`dummy_irq` and MSI-X go together from the request to the end of remove. They give
`TypeCorrect`, `VectorsAccounted` and `Refinement`.

`NetworkProofs`, first part (any number of descriptors, any sizes, packets and bursts). `RingsInStep`
is inductive once a burst runs only on a queue that was set up and a port that was
started (`BurstsOnStarted`) and nothing happens after a wild access (`WildIsLast`). The
step that matters is one iteration of a burst (`LoopIInv`). It rests on two facts
about remainders, proved from their definition: advancing a wrapped index is
wrapping the advanced count (`WrappedStep`), and two counts less than a ring apart
have different entries (`DistinctEntries`), so a packet in the ring is not
overwritten. It gives `InStep` (`RingsInStep`) and `BurstsOverrun`
(`OverrunsShortRings`): before the wrap the index is the number of packets handled, so a
ring shorter than the wrap is left at the packet after its last entry, and a ring as
long as the wrap is never left.

`NetworkProofs`, second part (any CPUs, any finite set of packets with any lengths). The
definitions of `SimpleNetdev` have names of their own (`NetInit`, `NetNext`, `NetSpec`), so
that this module can extend it next to `MyPmd`. The counters agree with the packets only
when nobody transmits, so the invariant says what each shows in between: `NetCounts`
relates each of the four to the packets taken, without the one whose update of this
counter is still to come (`Counted`). It is kept because `NetTransmit` says that one CPU
transmits at a time and that a value it has read is still the counter's when it
writes, and that a packet which was freed under it is in `early`. `NetInUse` and
`NetHeld` say that no packet is under way when a `net_device` is new, which is why
counters that start at zero are right. They give `EveryPacketCounted`
(`PacketsAccounted`) and `NetRefinement` (`BindingUnlessLost`).

The byte counters are compared with a sum over a set, which is defined by recursion.
`SumCounts` shows what the recursion computes without an induction rule: the number of
elements of `Bytes(S)`, one for each byte of each packet, solves the equation of the
recursion, which therefore has a solution; and among the subsets on which the two
differ there would be a smallest one (well-foundedness of inclusion), on which the
equation makes them equal. That the sum grows by the length of a packet that is added
(`OneMore`) is then cardinality of a disjoint union.

*Model-checked only*: everything that needs fairness (`ScriptEnds`,
`CompletionProcessed`, `WaitingServed`, `TransmitCompletesOrDeadlocks`,
`UserFinishes`), which is out of TLAPS's reach. Every invariant and every other action
property that a passing run checks is also a theorem.

## 5. Where the code and its comments disagree

Two have a run in which TLC produces the behaviour as a counterexample:

| run | the comment | what the code does |
|---|---|---|
| `scull_trim_garbage` | main.c:20 and 72, structures are initialised | `kmalloc` leaves `data` as it was (33) and the first `O_WRONLY` open walks it |
| `my_device_twice` | driver.c:95-96, acknowledging "prevents the interrupt from firing again immediately" | both handler contexts can read DONE before either clears it (98) |

The others were seen while modelling and are part of the models. Where a property
would otherwise fail, it names the exception, as narrowly as it can: the passing runs
and the theorems then say that this is the only way for it to fail, and the entry in
`hazards` says so too.

*scull and its scripts*

- `scull_setup_cdev` "should be called at the very end of module init" (main.c:101)
  and is called in the allocation loop (35), so a device that was opened is freed
  when a later `kmalloc` fails: the one case in `OpenFileOnLiveDevice`;
- `scull_exit` gives the numbers back before it deletes the cdevs (57), the
  reverse of the order main.c:52-53 lists: the exception in
  `AddedNumbersReserved`;
- a failed `cdev_add` is only logged (109), so a load succeeds with a device that
  cannot be opened;
- `BASE_MINOR` is added twice to the minor number of a device, which shows only if
  it is not 0;
- `scull_read` ignores `count` and `f_pos`, and `scull_write` returns 0;
- the nodes are removed although rmmod was refused, after which scull is loaded
  and cannot be reached; `rm` runs without the `sudo` of the other commands, so that
  stale nodes may stay, and a failed `mknod` is not noticed: the condition on `result`
  in `NodesAsLeft`.

*my_device*

- the interrupt enable bit is defined among the bits of the status register
  (driver.c:37), and probe and remove write it to control (317);
- probe succeeds although the simulated transfer was refused (152);
- remove takes a number above 0 to mean "IRQ was successfully requested" (322), and
  probe requests 0 too (231): the hypothesis `0 \notin IrqNumbers`;
- the status register is not cleared before the handler is installed (245), and a DONE
  bit that was there is taken for a completion: the hypothesis on the power-on status.

*mynic*

- the interface can be opened before NAPI is added (nic.c:101, 106) and then hits
  the BUG in `napi_enable`: `OopsOnlyEarly`;
- stop is to "Disable RX/interrupts" (176), but a poll that ends meanwhile writes
  `CONTROL_REG` after stop has cleared it; the device can stay enabled across a
  remove and a probe, and then interrupts before NAPI exists: `leftOn` in
  `OopsOnlyEarly`;
- a poll that finds no memory for an skb (264) leaves the loop with packets
  waiting and no interrupt due for them: the exception in `fresh`;
- `spin_lock` in transmit (194) leaves interrupts on and the handler takes the
  same lock (230): the exception `SelfDeadlock`;
- "If TX ring is full, call netif_stop_queue(dev)" (209) is not done, and with more
  packets than slots a slot in use is overwritten (201). The packet in it is never
  freed, and the handler then reclaims packets the device has yet to send: `lost` in
  `RingHoldsOwned` and `DeviceOwnsToSend`;
- packets in the ring when the driver is removed are never freed or unmapped.

*simple_dma and user_app*

- the buffer "will be handled in exit" (simple_dma_module.c:264), but exit never
  runs after a failed init, and nothing frees it: the second part of `UnloadedClean`;
- a failed `device_create` can count as a successful load (251), after which exit
  tears everything down a second time: the exception in `TeardownOnce`;
- `simple_dma_mmap` does not check that there is a buffer (76), although line 220
  says "mmap will fail later": `view = "other"` in `MappedBufferLives`;
- user_app expects "the reversed string" (user_app.c:67), but the whole buffer is
  reversed, so what it prints starts with the zeros that follow the message.

*pci_irq_driver*

- the statics of pcie.c are overwritten by a second device: with two devices bound
  together a mapping is never undone and another is undone twice, and with
  different lines a handler stays installed: `together` and `mixed` in
  `NothingLeft` and `BindingSpec`.

*dummy_uio*

- the driver requests its line without `IRQF_SHARED` (69) and has
  `uio_register_device` request it again (78-82), which is refused: no device with an
  interrupt is ever bound, although the notes at lines 150-154 go on to list
  `/dev/uio*`. Hence `dummy_irqcontrol` ("`write(1)` to enable", 160) is dead code, and
  so is remove except for the number 0;
- `dummy_handler` does not notify the readers of `/dev/uioX`;
- the error labels leave MSI-X enabled: `ended` in `VectorAccounted`.

*myloop and simple_nic*

- myloop reads `skb->len` after `netif_rx` has given the skb away: `early` in
  `PacketsAccounted`;
- it does not look whether `alloc_netdev` has failed, and does not free the
  `net_device` that could not be registered: the exception in `BindingUnlessLost`.

*my_pmd*

- the rings have the length the application asks for and the indices wrap at a
  constant (pmd.c:179): `OverrunsShortRings` says at which packet that is noticed;
- a second set-up of a queue loses the ring of the first (151, 163), and remove frees
  none;
- a ring that could not be allocated is reported as success, and the memory for
  the MAC address is not checked;
- nothing fills `rx_ring`, so receive hands out null pointers, and transmit never
  frees the mbufs it was given.

## 6. What is not modelled

- Contents: buffers, addresses, register layouts, log texts, MAC addresses.
- `dummy_irqcontrol`, which is never called (section 5).
- `scull_read` and `scull_write`, which transfer nothing and change no state.
- A `BASE_MINOR` other than 0, which the source does not have.
- Memory ordering between CPUs: every step is atomic and seen at once.
- `Mynic` and `MynicTx` as one state machine. They share the interface's state,
  which each models, and the handler, whose receive and transmit halves touch
  different state; `MynicTx` lets the interrupt come whenever `Mynic` could.
- multi_vector: the calls that would request and free its vectors are comments
  and its handlers have no body.
- The functions of my_pmd without a body (configure, close).
- A reload of scull over files left by a failed load.
- Build files, generated code (`scull.mod.c`), notes and the empty
  `uio/simple_uio_mmap.c` and the text in `vfio/`: no behaviour of their own.

## 7. Plan

In this order; all are done.

1. `Scull` with its proofs.
2. `PciBinding` and `MyDevice` with the refinement and its proof.
3. `Mynic` and `MynicTx`.
4. `SimpleDma` with user_app as its client, and its proofs.
5. `PciIrq`: several devices sharing the static variables, against one `PciBinding`
   per device.
6. `DummyUio` and `MyPmd`.
7. `SimpleNetdev`, and `ScullNodes` on top of `Scull`.
8. Open, stop and remove in `MynicTx`.
9. Proofs: `MynicTx` for a ring of any size; `MyPmd` likewise; `DummyUio`, `PciIrq` and
   `Mynic` implement `PciBinding`; no lost wakeup in `Mynic`; `NodesAsLeft` on top of the
   invariant of `Scull`.
10. Proofs about `SimpleNetdev`, with the sum over a set of packets, and about the lock
    of `MynicTx`.

The runs stay few: one passing run per module, and a violation run for the two
comments whose breach no passing property describes.
