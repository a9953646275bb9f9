# TLA+ models and proofs for tii-sel4-vm

This directory is the formal specification kept beside the code of
`tii-sel4-vm`: the VMM extensions that let a guest on seL4 (the *driver VM*) use
virtio devices emulated by QEMU in another guest (the *device VM*).  The modules
are written from the C sources; `PROJECT.json` maps each definition to the lines
it models.

## 1. The system

A guest access to an emulated region faults into the VMM.  The VMM lends a
message buffer, writes the access into it, enqueues the buffer's id on a
lock-free ring in shared memory and rings a doorbell.  The device VM takes ids
from the ring, answers in any order on a second ring and rings back.  The
VMM's notification thread takes the answers, completes the access and gives the
buffer back.  A third ring carries events from the device VM: interrupts, PCI
device registrations, MMIO regions, and the message that starts the guest.

| Part | Source | State | Operations |
|---|---|---|---|
| RPC queue | `include/sel4/rpc_queue.h` | per bound (prod, cons) a tail and a head marker (pos, count); ring of ids | `rpcmsg_enqueue`, `rpcmsg_dequeue` |
| Message buffers | `include/sel4/rpc_queue.h`, `rpc.h` | message table, bitmap `buffer_state` | lend, request, receive, reply, receive response, reclaim |
| I/O proxy | `src/io_proxy.c` | `ioacks[slot]`, native slot per thread, hand-off semaphore, `ok_to_run`, `backend_started` | `ioreq_start`, `ioreq_finish`, `ioreq_native`, `io_proxy_wait_for_backend` |
| VMM glue | `src/libsel4vm_glue.c` | `pci_devs`, `pci_intx` | `mmio_fault_handler`, `rpc_run` and its five handlers, initialisation |
| Shared interrupt line | `src/shared_irq_line.c` | `sources`, a 64-bit word | `shared_irq_line_change` |
| Emulated devices | `src/emulated_device.c`, `irq_reservations.c`, `mmio_reservations.c`, `irq_line.c` | list of lines, list of regions | `emudev_irq_set`, `mmio_res_assign`, `mmio_res_free` |
| MSI frame | `src/gicv2m.c`, `src/plat/*/msi.c` | MSI range, its lines | `v2m_init`, `v2m_inject_irq`, `v2m_fault_handler` |
| Notifications | `templates/seL4VirtIODriverVM.template.c` | one-shot callback registration | `ntfn_callback`, `notify`, `io_proxy_run` |
| Guest memory | `src/ram_dataport.c`, `camkes/modules/init_dataport_ram.c` | dataports, the VM's RAM regions | `init_ram_module` |
| Device tree | `src/guest_linux.c`, `src/fdt.c`, `src/plat/rpi4/fdt.c` | the tree, `generated` flags of the nodes | `guest_configure`, `fdt_plat_customize` |
| Boot order | `camkes/modules/*`, the template's module dependencies | stage of the boot | memory, proxies, device tree, guest |
| Console, tracing | `camkes/modules/pl011.c`, `trace.c` | none, trace names | see Not modelled |

Who runs concurrently:

* the VMM **main thread** (faults of all vCPUs, PCI configuration accesses
  through `ioreq_native`, the MSI register frame, and at boot memory, proxies,
  `rpc_run` once, and the device tree);
* the **notification thread** (`ntfn_callback`, `rpc_run`);
* the **device VM**, whose kernel module and QEMU process both use the header.

They share the rings, the bitmap, `ioacks`, and at boot the device tables and
interrupt lines.  There are no locks.

What is hard: claim, copy and commit of several threads interleave on the ring
and commits come in any order; markers are 32 bits and wrap; the two builds of
the compare-and-swap differ in what they do on failure and in the ordering they
give; a resumed vCPU may fault again before its previous completion has been
cleaned up; notifications coalesce; two threads handle events at boot and
change tables, lines and lists without a lock, access by access; the table of PCI
devices changes while the device tree is made from it; events may be
in the queue before the driver VM has initialised anything; main and
notification thread pulse the same MSI lines.  Each of these is a hazard in
`PROJECT.json`, with the properties that watch it.

## 2. Modules

| Module | Models | Abstraction |
|---|---|---|
| `RpcQueue` | the ring, one memory access per action | markers are unwrapped numbers, compared on their low 32 bits; a cell holds the ticket of the enqueue that wrote it instead of a message id, which tells two enqueues of one id apart |
| `RpcFifo` | what the ring promises: a bounded FIFO | abstract |
| `IoProxy` | request, answer and completion of an access, all three parties | the two rings are FIFO sequences, which is what `RpcQueue` shows; mr0 is the number the bit-field macros make, the payload the number of the request |
| `MmioAccess` | what the proxy promises a client: asked once, answered once, with the answer to that request | abstract |
| `DeviceEvents` | event queue, `rpc_run`'s event handlers, PCI interrupt registers, the wait at boot | every access of what the threads share is a step; a list is a sequence, MMIO regions are names; one backend |
| `GuestBoot` | extends `DeviceEvents` with the main thread's boot: memory, proxies, device tree | addresses in frames; the tree is its reserved-memory, PCI and USB nodes; a node's name is what it is looked up by |
| `SharedIrqLine` | `shared_irq_line_change`: load, store, call of the vGIC | the word is the set of its bits |
| `IrqLines` | extends `SharedIrqLine` with the MSI frame: registers, injection | registers by offset; ten-bit and 16-bit fields are arithmetic |
| `RpcQueueProofs`, `RpcQueueRefinement` | theorems about `RpcQueue`; that it implements `RpcFifo` | |
| `IoProxyProofs` | theorems about `IoProxy`; that it implements `MmioAccess` | |
| `DeviceEventsLemmas`, `DeviceEventsProofs` | the inductive invariant of `DeviceEvents` with its lemmas; the theorems | |
| `GuestBootProofs` | theorems about `GuestBoot` | |
| `IrqLinesProofs` | theorems about `SharedIrqLine` and `IrqLines` | |
| `MC*` | instances for TLC; `MCRpcQueue` adds the symmetry of equal threads | |

How state and actions correspond to the code:

* **RpcQueue.**  `tail` and `head` are `q->prod.tail` ... `q->cons.head`; `ot`,
  `oh`, `nt` are the locals of that name (`t` in `rpcmsg_commit_update` is
  `nt`); `pc` is the place in the call.  `AcquireLoad`, `TailWait`,
  `TailReload`, `AcquireFail`, `AcquireCheck`, `AcquireCas` are
  `rpcmsg_acquire_*_entry`; `EnqueueElem`, `DequeueElem` the copy functions;
  `CommitLoadHead`, `CommitLoadTail`, `CommitDone`, `CommitRetry` are
  `rpcmsg_commit_update`.  `KernelThreads` are threads built with `__KERNEL__`.
  With `MultiCore` a ring store of a user thread waits in `pend` until
  `StoreLands`, because nothing in the user build orders it before the commit;
  the kernel's `arch_cmpxchg` is a full barrier.
* **IoProxy.**  `ioacks`, `lent` (`buffer_state`), `buf` (messages), `tls`
  (`ioreq_native_data.slot`), `freeSlot`, `sem` are the variables of the code;
  `asked` and `done` number requests and completions per client.
  `ioreq_finish` is `NtfnAck` (callback) then `NtfnClear` (reset), and
  `rpcmsg_lend_buffer` is `LendFind` then `LendMark`: other threads may run in
  between.  An assertion or a NULL write that stops the VMM sets `failed`.
* **DeviceEvents.**  `hand[t]` is the event thread `t` has dequeued, `pc[t]`
  where it is in the handler, `at`, `dev` and `saved` its locals.  A handler is
  as many steps as it accesses shared state: `FindTest` and `FindEntry` are the
  loop of `pcidev_find`; `ChangeLoad`, `ChangeStore`, `ChangeLevel` are
  `shared_irq_line_change`; `RegisterCheck`, `AddEntryFind`, `AddEntryTake`,
  `RegisterCount`, `RegisterStoreCount`, `RegisterStoreDev` are
  `pcidev_register`, the last two in either order, since
  `pci_devs[pci_dev_count++] = pcidev` orders neither store for another thread;
  `LineFind`, `ListEnd`, `LineLink`, `LineFindAgain`, `LineSet` are
  `emudev_irq_set`; `AssignReserve`, `ListEnd`, `AssignLink` and `FreeFind`,
  `FreeRemove`, `FreeRelease` the two MMIO calls; `Rise` and `Fall` the two
  calls of the vGIC that make a pulse.  `overlapped` is history: both threads
  have had an event in hand at the same time.  The device VM's own view (`wire`, `msis`, `claimed`) is kept to
  compare with what the guest sees.
* **SharedIrqLine.**  `Shift` is `1 << source` on a 32-bit `int`, converted to
  64 bits.  `saved` is the register copy between load and store.
* **IrqLines.**  `pulse[t]` is where thread `t` is in `irq_line_pulse`, between
  its two calls of the vGIC; `HandleMsi` is an event, `GuestWrite` and
  `GuestRead` the two halves of `v2m_fault_handler`.  `owed` are the MSIs
  somebody asked for, `latch` those the vGIC has pending.
* **GuestBoot.**  `stage` is what the main thread does next: `init_ram_module`,
  one `IoProxyInit`, `Backend` and `BackendUp` per proxy, then the modules that
  work on the tree, `guest_configure` and `fdt_plat_customize`, in any order.
  `GeneratePciTest` reads the count, `GeneratePciNode` the entry; an entry that
  is still NULL stops the VM (`EntryMissing`).
  `Announces` and `RpcRun` are the other two parties.  `generated` is the flag
  of that name; `reserved_fdt`, `pci_fdt`, `usb_fdt` are the nodes added.

Refinements:

* `ImplementsFifo`: `RpcQueue` with its claimed, visible and freed tickets as
  `RpcFifo`'s.  A ticket is visible below the producers' head, freed below the
  consumers' head; what a consumer has claimed and not returned is its `hand`.
* `ImplementsAccess`: `IoProxy` with `Phase(c)` of a vCPU read off its state and
  of a native caller off its program counter, as `MmioAccess`.

External (not under `src/`), modelled from how the code uses them: the guest,
`vm_set_irq_level` (an MSI input latches a rising edge until the guest takes
it), `vm_reserve_memory_at` and `vm_ram_reserve_at` (refuse what overlaps),
`is_ram_region`, `vmm_pci_add_entry`, `load_linux`, the device VM's doorbell
handler.

## 3. Runs

| Run | Result | Question |
|---|---|---|
| `rpc_queue_user` | pass | 3 producers, 2 consumers, one core: a FIFO (`ImplementsFifo`); cells exclusive, nothing stranded, distance and order of markers, refusals justified, heads advance across the wrap |
| `rpc_queue_live` | pass | delayed stores, user producers, kernel consumer: once no claim moves a tail, every call under way returns; `IInv` holds |
| `rpc_queue_mixed` | violation | `CallsReturn` with a kernel and a user producer on one queue |
| `rpc_queue_stale` | violation | `ReadsOwnTicket` for the user build on several cores |
| `io_proxy_safe` | pass | two vCPUs and native accesses: buffers, fields of answers, each access asked and answered once (`ImplementsAccess`), and that only one assertion can fail |
| `io_proxy_live` | pass | every access is served |
| `io_proxy_assert` | violation | the assertion in `ioreq_start` |
| `device_events_safe` | pass | interrupt levels as the guest reads them, MSIs, regions and failures, for both threads' accesses interleaved; and when two events can be in hand at once |
| `device_events_boot` | violation | interrupt levels when two threads have events in hand at once |
| `irq_lines` | pass | wired OR for PCI slots, bit 31 included; MSIs from events and guest writes delivered, lines at rest low, advertised range right |
| `shared_irq_line_wide` | violation | wired OR for sources above 31 |
| `guest_boot` | pass | every device registered before the start is in the tree, its DMA pool is its own proxy's, all memory the tree names is mapped once, and the guest runs |

Every property of a passing run has a mutant: a changed definition, defined just
before the original (suffix `_...`), for which TLC must report that property.

### What the violations show

* `rpc_queue_mixed`.  The kernel macro never stores the value it found, on which
  both retry loops rely.  After losing one race on a head, the kernel thread
  compares with the same old marker for ever.  The response queue is used by the
  device VM's kernel module and by QEMU.
* `rpc_queue_stale`.  The user commit is acquire-only.  On several cores
  (`KernelMaxNumNodes`, `settings.cmake`) a consumer may read the old cell.
* `io_proxy_assert`.  `ioreq_finish` lets the vCPU run, then resets the slot.
  `FailsOnlyInAckWindow` in `io_proxy_safe` shows that this window is the only
  way the VMM can stop.
* `device_events_boot`.  `io_proxy_run` registers the notification callback and
  then drains the queue on the main thread; the notification thread may drain it
  at the same time.  In the trace one thread is in `shared_irq_line_change` for
  a device's set while the other is there for its clear: the clear compares words
  it read before the set stored its own, sees no change and leaves the line high.
  An event need not be
  overtaken for harm: two handlers that overlap can also lose a source of a line,
  a device of the table or an element of a list, or follow an entry that is still
  NULL.  All of this needs an event in the hand of each thread at once
  (`overlapped`): `FailsOnlyWhenOverlapped`, `LinesFollowBackend`,
  `RegionsReserved` and the last part of `MsisInjected` show that without it
  nothing goes wrong, and `OverlapOnlyAtBoot` that it takes the drain in
  `io_proxy_run`.
* `shared_irq_line_wide`.  The header promises 64 sources; the shift is on an
  `int`.  PCI uses slots below 32 only.

### Bounds

* Ring of 4 cells (`RPCMSG_HTD_MAX` is then 1), word of 16, starting 2 or 3
  below the wrap, 5 enqueues: the ring fills, empties, wraps in position and in
  word, and with 3 producers the tail wait really waits.  Nothing else in the
  code depends on the size 32; the proofs are for every size.
* `NotLapped` and `HeadNotLapped` exclude a thread asleep in a loop while others
  make 2^32 operations: then a 64-bit compare-and-swap can succeed wrongly
  (ABA).  This is an assumption about the environment, not about the ring.
* `MaxRequests` 4 (5 for liveness): a client's slot is reused, and all clients
  have a request at once.  4 message buffers for 3 clients is tighter than the
  code (32 for 32 slots): a buffer is given back after its vCPU runs again, so
  that one more buffer than clients is in use.
* `device_events_safe`: `MaxEvents` 4 with a queue of 1 and two threads, so that
  there is an event in the hand of each and one in the queue.  Device slots 1 and
  5 share pin 1; a pulse of a device is a set and a clear, so that 4 events
  register two devices on one pin, raise one and clear the other's line.
  `MaxDevs` 2 is the number of devices: two overlapping registrations reach an
  index past the table.  `device_events_boot` needs PCI events only: 3 of them
  and a queue of 2.
* `rpc_queue_live`: `MaxOps` bounds the enqueues that claim an entry, and so the
  contention.  `CallsReturn` does not rest on that: its premise, that from some
  moment no claim moves a tail, is what the bound brings about in the run and
  what has to be asked of the environment in general.  The calls are lock-free
  and not wait-free, in the code as in the model: a thread may lose its
  compare-and-swap for ever to others that keep calling.
* `MsiFrames`: the ranges of both platforms, ranges that reach 1019 and one past
  it, one of 129 interrupts.  Accesses are to both ends of the range, just
  beyond them, and to a ten-bit alias; `WordSize` 2^16 wraps like 2^32, since
  the numbers subtracted are below 2^11.
* `Confs`: guest RAM from the dataport; a separate pool as large as RAM beside a
  node of another kind; a smaller pool; missing parent nodes; no device tree;
  two backends; overlapping memory.  `MaxEvents` 3 with a queue of 2: two
  devices and the start message, in every order, each registration access by
  access beside the main thread's loop over the table.
* IoProxy, DeviceEvents, IrqLines and GuestBoot runs stop when the bounded
  requests or events are used up or the VMM has stopped, so they do not check
  deadlock; `Served` and `Boots` are what rule out getting stuck.

### Fairness

Weak fairness of each thread inside a call, of the notification thread and of
the device VM, one condition per party: seL4 schedules runnable threads of equal
priority round-robin, and the device VM is an ordinary guest.  A party's next
step is its own choice, so no condition is put on a particular step.  Nobody has
to start a call, to fault or to announce a device.  `Served`, `Boots` and
`CallsReturn` are checked without symmetry.

## 4. Proofs

Every safety property of a passing run, invariants, action properties and the
two refinements, is also a theorem that TLAPS checks for every value of the
constants.  The assumptions on constants are the named `ASSUME`s of the models
(`QueueAssumption`, `IoProxyAssumption`, `EventAssumption`, `LineAssumption`,
`FrameAssumption`, `ConfAssumption`), which TLC evaluates on the instances.  What a
theorem needs beyond them is a named hypothesis in its statement:

| Hypothesis | Says | Why the code meets it |
|---|---|---|
| `InOrder` | no ring store is seen after its commit | one core, or producers built for the kernel; without it `rpc_queue_stale` is the counterexample |
| `OneCaller` (`IoProxyProofs`) | the only thread that calls `ioreq_native` is the main thread | the PCI configuration handlers, its only callers, run in the VMM's fault loop |
| `EnoughBuffers` | more message buffers than clients | 32 buffers; a client per vCPU, at most 16 (`SEL4_MMIO_MAX_VCPU`), and the main thread; a client's old buffer is given back after the client runs again, hence one more than clients |
| `OneCaller` (`IrqLinesProofs`) | one thread changes a shared line | the notification thread, after boot |
| `PciSources` | sources are below 32 | they are PCI slots; without it `shared_irq_line_wide` is the counterexample |
| `RoomForDevices` | the backend has no more devices than `pci_devs` has entries and the virtual bus has slots | both hold 31 (`PCI_NUM_AVAIL_DEVICES`), as many as a bus of 32 slots has beside its bridge |

### RPC queue

For any finite sets of producers and consumers, any of them built for the
kernel, one core or several, any buffer size that divides the word size, any
word size larger than the buffer plus one, any starting position.

| Theorem | Statement |
|---|---|
| `TypeCorrect`, `Inductive` | `Spec => []TypeOK`, `Spec => []IInv` |
| `MarkersInOrder`, `TailBounded`, `NothingStranded`, `CellsExclusive` | `Spec => []MarkerOrder`, `[]TailDistance`, `[]QuiescentPublished`, `[]SlotExclusive` |
| `InOrderDelivery` | `InOrder /\ Spec => []ReadsOwnTicket` |
| `HeadsOnlyAdvance`, `RefusalsAreTrue` | `Spec => HeadsAdvance`, `Spec => RefusalIsTrue` |
| `RingIsFifo` | `InOrder /\ Spec => ImplementsFifo` |

None of the safety properties is inductive alone.  `IInv` adds:

* `MarkersOK`, `CountsOK`: a tail's position and count are equal, and tail count
  minus head count is the number of calls between claim and commit.  So a commit
  that makes the counts equal is the last one.
* `TicketsOK`: tickets of a bound are distinct and lie between head and tail.
* `AcquireOK`: while a snapshot is current, the distance and size tests made
  with it still hold, because heads only advance; a compare-and-swap that
  succeeds had a current snapshot (`SameSmall`: no wrap in between).
* `CommitOK`: if a committing thread has seen itself to be the only one
  outstanding, everybody who claimed since has a ticket beyond the tail it read,
  so that the head may jump there.
* `RingOK`, `PendOK`: under `InOrder` every claimed entry whose copy is complete
  is in its cell; `RingIndexDistinct` keeps other entries' stores away.

`RingIsFifo` goes through the actions: a successful compare-and-swap on a tail
is a claim of the FIFO, the commit that moves a head makes visible (or frees)
every entry up to the tail it read, and all other steps stutter.

### I/O proxy

With `OneCaller` and `EnoughBuffers`, for any vCPUs, any number of buffers, and
a device VM that answers in any order.

| Theorem | Statement |
|---|---|
| `ProxyInductive`, `ProxyTypeCorrect` | `[]ProxyInv`, `[]TypeOK` |
| `OnlyAckWindowFails` | `[]FailsOnlyInAckWindow` |
| `BuffersLentOnce`, `AnswersAlwaysMatch` | `[]BufferLentOnce`, `[]AnswersMatch` |
| `ProxyImplementsAccess` | `ImplementsAccess` |

`ProxyInv` follows a message id around: `PlacesOK` says that request queue,
device VM, response queue and the two threads' locals hold different ids, all
of them marked; `MessagesOK` what the bit fields of each say (the lemmas on
`BIT_FIELD_SET` and `BIT_FIELD_GET` give slot, direction, space and length back);
`CallerOK`, `AcksOK`, `ClientsOK` who waits for which slot.  Together they count:
each client has at most one buffer in flight, and at most one more is waiting to
be reclaimed, so `EnoughBuffers` leaves one to lend.

### Device events and boot

With `RoomForDevices`, for any devices, interrupts, regions, queue length and
table size, and every interleaving of the accesses of the two threads that run
`rpc_run`.

| Theorem | Statement |
|---|---|
| `EventsInductive`, `EventsTypeCorrect` | `Spec => []EventInv`, `[]TypeOK` |
| `FailureMeansOverlap`, `NoOverlapAfterBoot` | `Spec => []FailsOnlyWhenOverlapped`, `OverlapOnlyAtBoot` |
| `MsisInjectedInOrder`, `ReservationsAgree`, `GuestSeesBackendLines` | `Spec => []MsisInjected`, `[]RegionsReserved`, `[]LinesFollowBackend` |
| `BootRunsEvents` | `BootSpec => Spec`, for every constant |
| `BootKeepsEvents`, `BootInductive`, `BootTypeCorrect` | `BootSpec => []EventInv`, `[](EventInv /\ BootInv)`, `[]BootTypeOK` |
| `EarlyDevicesInTree`, `DevicesUseOwnPool`, `GuestMemoryBacked` | `BootSpec => []DevicesInTree`, `[]PciUsesOwnPool`, `[]MemoryBacked` |

The properties speak of moments at which nothing is under way; `EventInv` says
what they mean at every other moment, in terms of the events in the queue and in
the threads' hands (`Pend`).  It has two halves.

What holds however the threads interleave:

* `OrderOK`, `PendOK`, `PcOK`: events under way are numbered, the queue holds them
  in the order they were sent, and a thread is in a handler of the event in its
  hand.
* `MsisOK`: edges of an MSI and events that have yet to raise it are no more than
  its raises, and one that was raised has had an edge or will get one.  Two
  pulses that overlap may merge into one edge.
* `StartsOK`: the guest is started once.

What holds as long as no two events have been in hand at once (`SeqInv`); then a
thread in a handler is alone with the oldest event (`OneBusy`, lemma `InHand`),
but the device VM may send between any two of its accesses:

* `TableOK`, `RegisterOK`, `KnownOK`: which entries are complete (`Listed`), what
  the half-stored one is, and that a device is in the table once or on its way
  there.  They say in which of its two orders the stores may be at each step.
* `FindOK`, `IntxOK`: how far the search of `pcidev_find` is, that the saved word
  of `shared_irq_line_change` is current, and that the level is the word's OR
  except before the call of the vGIC.
* `ListsOK`: the lists against the reservations, at each step of an append or a
  removal.
* `EdgesOK`, `LinesOK`, `RegionsOK`: the last event under way about an MSI, a line
  or a region is what the backend has now, and without one the VMM agrees with
  the backend.
* `~failed`: handlers meet the state the sender had in mind.

`BootInv` adds what is mapped (`MapOK`), the stages with the single backend of a
VM that gets to its tree (`StageOK`), the nodes made so far (`TreeOK`) and, without
overlap, that the main thread has read complete entries only, the i-th node being
that of the i-th entry (`ReadOK`), and where the registration of an early device
is (`EarlyOK`: before the start message).  `Progress` is what a step of `rpc_run`
may do to all this: the table only grows by complete entries.

### Interrupt lines

| Theorem | Statement |
|---|---|
| `LineTypeCorrect` | `Spec => []TypeOK` |
| `LineIsWiredOr` | `OneCaller /\ PciSources /\ Spec => []WiredOr` |
| `LinesRefineLine`, `LinesWiredOr` | `LinesSpec => Spec`, `OneCaller /\ PciSources /\ LinesSpec => []TypeOK /\ []WiredOr` |
| `MsiInductive`, `LinesTypeCorrect` | `LinesSpec => []MsiInv`, `[]LinesTypeOK` |
| `LinesComeToRest`, `MsisAreDelivered`, `TyperIsTrue` | `LinesSpec => []LinesRest`, `[]MsiDelivered`, `[]AdvertisedRange` |

`LineInv` relates the word to the wires at each point of a call (before the load,
between load and store, before the call of the vGIC); different PCI slots have
different bits, bit 31 included, which sign-extends.  `MsiInv` says that a line
that is high is being pulsed (`HighOK`), that an owed MSI is latched or about to
rise (`OwedOK`), and that frame and registers agree (`FrameOK`).

### Only model-checked

* Liveness: `CallsReturn`, `Served`, `Boots`.  The prover has no rules for
  fairness and ENABLED.
* The five violations, which are counterexamples.

The inductive invariants `ProxyInv`, `EventInv` and `BootInv` were checked with
TLC on the constants of `IoProxySafe.cfg`, `DeviceEventsSafe.cfg` and
`GuestBoot.cfg`, or smaller ones, before they were proved; `IInv` is part of
`rpc_queue_live`.

## 5. Not modelled

* Tracing.  `trace.c` is compiled only with `CONFIG_BENCHMARK_TRACK_KERNEL_ENTRIES`
  and then calls `fdt_generate_reserved_node` with six arguments, which
  `include/tii/fdt.h` declares with five: there is no build to model.
* The PL011 console, a register frame without state.
* Formatting of the device tree: node names, `reg` cells, the memory node beside
  a reserved one.  Copying of images (`load_linux` is external).
* `fdt_node_add`, `irq_res_free`, `rpcmsg_forward`, `driver_rpc_request_fwd`,
  `rpcmsg_queue_full` and `driver_rpc_request_pending`, the only caller of
  `rpcmsg_queue_empty`: nothing in the repository calls them.  The two tests make
  two loads each, so that what they report may be out of date either way while
  other threads use the queue.
* Allocation failures; `vm_set_irq_level` and `vm_register_irq` failing.  Where
  they happen in a handler, `rpc_run` fails and the VMM stops.
* A VM with two backends beyond the point where it stops (`msi_init`).
* A device VM that breaks the protocol (answers twice, makes up a slot, frees a
  region it does not own), and one that restarts: the header mentions it, the
  driver VM's code has no path for it.
* Addresses and data of accesses are not interpreted.
* Several native threads.  `ioreq_native` is called by the main thread only; the
  modules allow more (`Natives`), and with two of them the non-atomic steps of
  `ioreq_native_slot` and `rpcmsg_lend_buffer` collide.
* In `SharedIrqLine` and `IrqLines`, overlapping calls of `shared_irq_line_change`:
  the modules allow several `Threads`; with two an update of the word can be lost.
  The checked instance has the one notification thread that remains after boot.
  `DeviceEvents` has both threads, and its line properties exclude `overlapped`.
* Two overlapping pulses of one MSI line may merge into one edge: `MsiDelivered`
  excludes `overlap`, and `MsisInjected` asks for one edge at least; `LinesRest`
  holds for them too.
* What two processors may reorder inside `DeviceEvents`: only the count and the
  entry of a registered device may be seen in either order.  What a `pci_devs`
  entry points to is taken as written before the pointer, other stores as seen
  in the order of the program.  A race on a list is what it does to the list's
  elements: kept, lost or linked behind a removed one.

## 6. Plan

Done: `RpcQueue` with its refinement of `RpcFifo`, `IoProxy` with its refinement
of `MmioAccess`, `DeviceEvents`, `GuestBoot`, `SharedIrqLine`, `IrqLines`; each
of their safety properties is proved.

Next:

1. The counterpart of the hypothesis `OneCaller`: that an overlapping call of
   `shared_irq_line_change` is the only way a wired OR is lost (`LineIsWiredOr`
   for several threads, with a history of overlaps).
2. Action properties of the proxy: a slot of `ioacks` changes only from free to
   taken and back, by its owner and the notification thread.
