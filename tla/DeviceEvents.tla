----------------------------- MODULE DeviceEvents -----------------------------
(***************************************************************************)
(* Device events: what the device VM sends over the event queue and what   *)
(* rpc_run (src/libsel4vm_glue.c) does with it.  rpc_process offers an     *)
(* event to handle_msi, handle_pci, handle_emudev and handle_control in    *)
(* that order.  Two threads may run rpc_run: the notification thread, and  *)
(* the main thread once, from io_proxy_run in libsel4vm_io_proxy_init,     *)
(* before it waits for the backend in io_proxy_wait_for_backend.           *)
(*                                                                         *)
(* The two threads share the table of PCI devices, the interrupt lines and *)
(* the lists without a lock, and nothing they share is volatile or atomic, *)
(* so every access of shared state is a step: a handler is as many steps   *)
(* as it makes loads, stores, list operations and calls of the vGIC.  What *)
(* is written to two places may be seen in either order.                   *)
(***************************************************************************)
EXTENDS Integers, Sequences, FiniteSets, SequencesExt

CONSTANTS
  BackendSlots,   \* PCI slots the device VM gives its devices
  VmmSlots,       \* slots vmm_pci_add_entry can hand out
  MaxDevs,        \* PCI_NUM_AVAIL_DEVICES
  IntxBase,       \* INTERRUPT_PCI_INTX_BASE
  MsiBase,        \* v2m.irq_base
  MsiNum,         \* v2m.num_irq
  MsiIrqs,        \* MSIs the device VM raises
  EmuIrqs,        \* interrupts of its other emulated devices
  Regions,        \* MMIO regions it configures, pairwise disjoint
  QueueSize,      \* bound: events in the queue
  MaxEvents       \* bound: events sent during a run

PCI_NUM_SLOTS == 32
PCI_NUM_PINS  == 4

\* irq_is_pci, v2m_irq_valid, pci_swizzle
irq_is_pci(irq)    == irq < PCI_NUM_SLOTS
v2m_irq_valid(irq) == irq >= MsiBase /\ irq < MsiBase + MsiNum
pci_map_irq(s)     == s % PCI_NUM_PINS

PciRegister_BackendSlot(d, reg) ==
  IF reg = "line" THEN IntxBase + pci_map_irq(d.bslot) ELSE pci_map_irq(d.bslot) + 1

\* pci_cfg_read8: the interrupt line and pin registers of a device are made up
\* by the VMM; the other registers are read from the device VM (IoProxy).
PciRegister(d, reg) ==
  IF reg = "line" THEN IntxBase + pci_map_irq(d.slot) ELSE pci_map_irq(d.slot) + 1

Pins     == 0 .. PCI_NUM_PINS - 1
IntxIrqs == {IntxBase + p : p \in Pins}
AllIrqs  == IntxIrqs \cup MsiIrqs \cup EmuIrqs

ASSUME EventAssumption ==
  /\ BackendSlots \subseteq 0 .. PCI_NUM_SLOTS - 1
  /\ VmmSlots \subseteq 1 .. PCI_NUM_SLOTS - 1
  /\ \A i \in MsiIrqs : v2m_irq_valid(i)
  /\ \A i \in EmuIrqs : ~v2m_irq_valid(i) /\ ~irq_is_pci(i)
  /\ IntxIrqs \cap (MsiIrqs \cup EmuIrqs) = {}
  /\ MsiIrqs \cup EmuIrqs \subseteq Nat
  /\ IntxBase \in Nat /\ MsiBase \in Nat /\ MsiNum \in Nat
  /\ MsiBase >= PCI_NUM_SLOTS
  /\ MaxDevs \in Nat /\ QueueSize \in Nat /\ MaxEvents \in Nat

Threads == {"main", "ntfn"}
NoEvent == [n |-> 0, op |-> "none", arg |-> 0, irqop |-> "none"]

\* pci_devs[i] that nobody has stored to: NULL.
NoDev == [bslot |-> -1, slot |-> 0]

VARIABLES
  queue,          \* the event queue
  sent,           \* events sent so far
  known,          \* device VM: PCI slots it has registered
  wire,           \* device VM: level it last gave a PCI slot or emulated irq
  msis,           \* device VM: times it raised each MSI
  claimed,        \* device VM: regions it has configured and not freed
  started,        \* device VM: it has sent QEMU_OP_START_VM
  hand,           \* per thread: the event in hand
  pc,             \* per thread: where it is in the handler of that event
  at,             \* per thread: i of pcidev_find, or the place it will store to
  dev,            \* per thread: slot of the device it works on
  saved,          \* per thread: saved_sources, then the new word
  clearing,       \* per thread: in the second half of a pulse of an INTx line
  boot,           \* main thread: drain, test, wait, run
  ok_to_run,      \* io_proxy->ok_to_run
  sem,            \* io_proxy->backend_started
  pci_devs,       \* table of registered devices, [bslot, slot]
  pci_dev_count,
  bus,            \* external: slots of the PCI space that are taken
  intx,           \* per pin: sources of the shared line
  irqs,           \* irq_line objects of emulated devices, a list
  regions,        \* mmio_reservations, a list
  reserved,       \* external: the VM's memory reservations
  level,          \* external: level of each interrupt input of the vGIC
  pulses,         \* external: rising edges each MSI has had
  overlapped,     \* both threads have had an event in hand at the same time
  failed          \* rpc_run has failed, the VMM is stopped

devVars  == <<sent, known, wire, msis, claimed, started>>
locals   == <<at, dev, saved, clearing>>
runVars  == <<hand, pc, locals>>
pciVars  == <<pci_devs, pci_dev_count, bus>>
gicVars  == <<level, pulses>>
listVars == <<irqs, regions, reserved>>
shared   == <<ok_to_run, sem, pciVars, intx, listVars, gicVars>>
vars == <<queue, devVars, runVars, boot, shared, overlapped, failed>>

Init ==
  /\ queue = <<>> /\ sent = 0
  /\ known = {} /\ claimed = {} /\ started = FALSE
  /\ wire = [i \in BackendSlots \cup EmuIrqs |-> FALSE]
  /\ msis = [i \in MsiIrqs |-> 0]
  /\ hand = [t \in Threads |-> NoEvent]
  /\ pc = [t \in Threads |-> "idle"]
  /\ at = [t \in Threads |-> 0] /\ dev = [t \in Threads |-> 0]
  /\ saved = [t \in Threads |-> {}] /\ clearing = [t \in Threads |-> FALSE]
  /\ boot = "drain" /\ ok_to_run = FALSE /\ sem = 0
  /\ pci_devs = [i \in 0 .. MaxDevs - 1 |-> NoDev] /\ pci_dev_count = 0
  /\ bus = {} /\ intx = [p \in Pins |-> {}]
  /\ irqs = <<>> /\ regions = <<>> /\ reserved = {}
  /\ level = [i \in AllIrqs |-> FALSE]
  /\ pulses = [i \in MsiIrqs |-> 0]
  /\ overlapped = FALSE /\ failed = FALSE

---------------------------------------------------------------------------
(* The device VM: external, sending through the device_rpc_req_* calls *)

\* device_event_tx; a full queue is retried by the device VM.
Send(op, arg, irqop) ==
  /\ sent < MaxEvents /\ Len(queue) < QueueSize
  /\ sent' = sent + 1
  /\ queue' = Append(queue, [n |-> sent + 1, op |-> op, arg |-> arg,
                             irqop |-> irqop])
  /\ UNCHANGED <<runVars, boot, shared, overlapped, failed>>

SendRegister(b) ==
  /\ b \notin known
  /\ Send("register", b, "none")
  /\ known' = known \cup {b}
  /\ UNCHANGED <<wire, msis, claimed, started>>

SendIrq(i, irqop) ==
  /\ i \in known \cup EmuIrqs \cup MsiIrqs
  /\ Send("set_irq", i, irqop)
  /\ wire' = [j \in DOMAIN wire |-> IF j = i THEN irqop = "set" ELSE wire[j]]
  /\ msis' = [j \in MsiIrqs |-> IF j = i /\ irqop # "clr" THEN msis[j] + 1
                                                         ELSE msis[j]]
  /\ UNCHANGED <<known, claimed, started>>

SendRegion(r, free) ==
  /\ free <=> r \in claimed
  /\ Send(IF free THEN "free" ELSE "assign", r, "none")
  /\ claimed' = IF free THEN claimed \ {r} ELSE claimed \cup {r}
  /\ UNCHANGED <<known, wire, msis, started>>

SendStart ==
  /\ ~started
  /\ Send("start", 0, "none")
  /\ started' = TRUE
  /\ UNCHANGED <<known, wire, msis, claimed>>

---------------------------------------------------------------------------
(* rpc_run *)

MayRun_Always(t) == TRUE

\* The main thread runs rpc_run once, at boot.
MayRun(t) == t = "ntfn" \/ boot = "drain"

\* rpc_process: the callback that takes the event, and its first step.
Entry(e) ==
  CASE e.op = "set_irq" /\ v2m_irq_valid(e.arg) -> "msi"
    [] e.op = "set_irq" /\ ~v2m_irq_valid(e.arg) /\ irq_is_pci(e.arg) -> "find"
    [] e.op = "set_irq" /\ ~v2m_irq_valid(e.arg) /\ ~irq_is_pci(e.arg) -> "line"
    [] e.op = "register" -> "check"
    [] e.op = "assign" -> "reserve"
    [] e.op = "free" -> "search"
    [] e.op = "start" -> "ok"

\* rpcmsg_event_rx copies the oldest event, which goes to rpc_process.
EventRx(t) ==
  /\ MayRun(t) /\ pc[t] = "idle" /\ queue # <<>>
  /\ hand' = [hand EXCEPT ![t] = Head(queue)]
  /\ pc' = [pc EXCEPT ![t] = Entry(Head(queue))]
  /\ queue' = Tail(queue)
  /\ overlapped' = (overlapped \/ \E u \in Threads \ {t} : pc[u] # "idle")
  /\ UNCHANGED <<devVars, locals, boot, shared, failed>>

\* What a step of a handler leaves alone.
InHandler == UNCHANGED <<queue, devVars, boot, overlapped>>

Goto(t, l) == pc' = [pc EXCEPT ![t] = l] /\ UNCHANGED <<hand, failed>>

\* A step that only reads shared state.
Proceed(t, l) == Goto(t, l) /\ UNCHANGED <<locals, shared>>

\* The handler returns: the event is used up, the locals are gone.
Done(t) ==
  /\ hand' = [hand EXCEPT ![t] = NoEvent] /\ pc' = [pc EXCEPT ![t] = "idle"]
  /\ at' = [at EXCEPT ![t] = 0] /\ dev' = [dev EXCEPT ![t] = 0]
  /\ saved' = [saved EXCEPT ![t] = {}]
  /\ clearing' = [clearing EXCEPT ![t] = FALSE]
  /\ UNCHANGED failed

\* The handler reports an error, or follows a pointer that is NULL.
Fail ==
  /\ failed' = TRUE
  /\ UNCHANGED <<runVars, shared>>

---------------------------------------------------------------------------
(* irq_line.c, for MSIs and emulated devices *)

\* vm_set_irq_level
SetLevel(irq, active) == level' = [level EXCEPT ![irq] = active]

\* irq_line_pulse, first call of the vGIC: an edge if the line was low.
Rise(t) ==
  LET i == hand[t].arg IN
  /\ SetLevel(i, TRUE)
  /\ pulses' = [j \in MsiIrqs |-> IF j = i /\ ~level[i] THEN pulses[j] + 1 ELSE pulses[j]]
  /\ Goto(t, "fall")
  /\ UNCHANGED <<locals, ok_to_run, sem, pciVars, intx, listVars>>

\* irq_line_pulse, second call.
Fall(t) ==
  /\ pc[t] = "fall"
  /\ SetLevel(hand[t].arg, FALSE)
  /\ Done(t)
  /\ UNCHANGED <<ok_to_run, sem, pciVars, intx, listVars, pulses>>

HandleMsi_LevelOnly(t) ==
  /\ pc[t] = "msi"
  /\ \/ hand[t].irqop = "set" /\ Rise(t)
     \/ /\ hand[t].irqop # "set" /\ Done(t)
        /\ UNCHANGED shared

\* msi_irq_set: set and pulse inject an edge, clear is ignored.
HandleMsi(t) ==
  /\ pc[t] = "msi"
  /\ \/ hand[t].irqop # "clr" /\ Rise(t)
     \/ /\ hand[t].irqop = "clr" /\ Done(t)
        /\ UNCHANGED shared

---------------------------------------------------------------------------
(* handle_pci_intx: pcidev_find, then shared_irq_line_change *)

\* Loop condition of pcidev_find; an unknown device is an error.
FindTest(t) ==
  /\ pc[t] = "find"
  /\ \/ at[t] >= pci_dev_count /\ Fail
     \/ at[t] < pci_dev_count /\ Proceed(t, "entry")

FindEntry_VmmSlot(t) ==
  LET d == pci_devs[at[t]] IN
  /\ pc[t] = "entry" /\ d # NoDev
  /\ \/ /\ d.slot = hand[t].arg
        /\ dev' = [dev EXCEPT ![t] = d.slot] /\ Goto(t, "load") /\ UNCHANGED at
     \/ /\ d.slot # hand[t].arg
        /\ at' = [at EXCEPT ![t] = @ + 1] /\ Goto(t, "find") /\ UNCHANGED dev
  /\ UNCHANGED <<saved, clearing, shared>>

\* Its body: the entry is compared.  It may be NULL still, or none at all.
FindEntry(t) ==
  LET d == pci_devs[at[t]] IN
  /\ pc[t] = "entry"
  /\ \/ (at[t] >= MaxDevs \/ d = NoDev) /\ Fail
     \/ /\ at[t] < MaxDevs /\ d # NoDev /\ d.bslot = hand[t].arg
        /\ dev' = [dev EXCEPT ![t] = d.slot]
        /\ Goto(t, "load")
        /\ UNCHANGED <<at, saved, clearing, shared>>
     \/ /\ at[t] < MaxDevs /\ d # NoDev /\ d.bslot # hand[t].arg
        /\ at' = [at EXCEPT ![t] = @ + 1]
        /\ Goto(t, "find")
        /\ UNCHANGED <<dev, saved, clearing, shared>>

Pin(t) == pci_map_irq(dev[t])

\* The level handle_pci_intx asks for.  A pulse is a set, then a clear.
Active(t) == hand[t].irqop = "set" \/ (hand[t].irqop = "pulse" /\ ~clearing[t])

\* pcidev_intx_set returns; handle_pci_intx does so too or goes on to the clear.
IntxReturn(t) ==
  \/ /\ hand[t].irqop = "pulse" /\ ~clearing[t]
     /\ clearing' = [clearing EXCEPT ![t] = TRUE]
     /\ at' = [at EXCEPT ![t] = 0] /\ dev' = [dev EXCEPT ![t] = 0]
     /\ saved' = [saved EXCEPT ![t] = {}]
     /\ Goto(t, "find")
  \/ ~(hand[t].irqop = "pulse" /\ ~clearing[t]) /\ Done(t)

\* shared_irq_line_change: load the word ...
ChangeLoad(t) ==
  /\ pc[t] = "load"
  /\ saved' = [saved EXCEPT ![t] = intx[Pin(t)]]
  /\ Goto(t, "store")
  /\ UNCHANGED <<at, dev, clearing, shared>>

Sources_SetOnly(old, s, active) == IF active THEN {s} ELSE old \ {s}

\* line->sources |= 1 << source, or line->sources &= ~(1 << source); a PCI slot
\* has a bit of its own, see SharedIrqLine.
Sources(old, s, active) == IF active THEN old \cup {s} ELSE old \ {s}

\* ... store it, and return when its OR has not changed ...
ChangeStore(t) ==
  LET new == Sources(saved[t], dev[t], Active(t)) IN
  /\ pc[t] = "store"
  /\ intx' = [intx EXCEPT ![Pin(t)] = new]
  /\ \/ (saved[t] # {}) = (new # {}) /\ IntxReturn(t)
     \/ /\ (saved[t] # {}) # (new # {})
        /\ saved' = [saved EXCEPT ![t] = new]
        /\ Goto(t, "level") /\ UNCHANGED <<at, dev, clearing>>
  /\ UNCHANGED <<ok_to_run, sem, pciVars, listVars, gicVars>>

\* ... else tell the vGIC.
ChangeLevel(t) ==
  /\ pc[t] = "level"
  /\ SetLevel(IntxBase + Pin(t), saved[t] # {})
  /\ IntxReturn(t)
  /\ UNCHANGED <<ok_to_run, sem, pciVars, intx, listVars, pulses>>

---------------------------------------------------------------------------
(* pcidev_register *)

RegisterCheck(t) ==
  /\ pc[t] = "check"
  /\ \/ pci_dev_count >= MaxDevs /\ Fail
     \/ pci_dev_count < MaxDevs /\ Proceed(t, "add")

\* External: vmm_pci_add_entry looks for a slot that is free ...
AddEntryFind(t) ==
  /\ pc[t] = "add"
  /\ \/ VmmSlots \subseteq bus /\ Fail
     \/ /\ \E s \in VmmSlots \ bus : dev' = [dev EXCEPT ![t] = s]
        /\ Goto(t, "take")
        /\ UNCHANGED <<at, saved, clearing, shared>>

\* ... and takes it.
AddEntryTake(t) ==
  /\ pc[t] = "take"
  /\ bus' = bus \cup {dev[t]}
  /\ Goto(t, "count")
  /\ UNCHANGED <<locals, ok_to_run, sem, pci_devs, pci_dev_count, intx, listVars, gicVars>>

\* pci_devs[pci_dev_count++] = pcidev: load the count, then store the count
\* and the entry, which another thread may see in either order.
RegisterCount(t) ==
  /\ pc[t] = "count"
  /\ at' = [at EXCEPT ![t] = pci_dev_count]
  /\ Goto(t, "publish")
  /\ UNCHANGED <<dev, saved, clearing, shared>>

RegisterStoreCount(t) ==
  /\ pc[t] \in {"publish", "put_count"}
  /\ pci_dev_count' = at[t] + 1
  /\ \/ /\ pc[t] = "publish" /\ Goto(t, "put_dev")
        /\ UNCHANGED locals
     \/ pc[t] = "put_count" /\ Done(t)
  /\ UNCHANGED <<ok_to_run, sem, pci_devs, bus, intx, listVars, gicVars>>

\* A store beyond the table corrupts the VMM.
RegisterStoreDev(t) ==
  /\ pc[t] \in {"publish", "put_dev"}
  /\ \/ at[t] >= MaxDevs /\ Fail
     \/ /\ at[t] < MaxDevs
        /\ pci_devs' = [pci_devs EXCEPT ![at[t]] = [bslot |-> hand[t].arg, slot |-> dev[t]]]
        /\ \/ /\ pc[t] = "publish" /\ Goto(t, "put_count")
              /\ UNCHANGED locals
           \/ pc[t] = "put_dev" /\ Done(t)
        /\ UNCHANGED <<ok_to_run, sem, pci_dev_count, bus, intx, listVars, gicVars>>

---------------------------------------------------------------------------
(* emudev_irq_set, mmio_res_assign, mmio_res_free *)

LineFind_Never(t) ==
  /\ pc[t] = "line" /\ Proceed(t, "end")

\* irq_res_find
LineFind(t) ==
  /\ pc[t] = "line"
  /\ Proceed(t, IF Contains(irqs, hand[t].arg) THEN "set" ELSE "end")

\* External: list_append goes to the end of the list ...
ListEnd(t) ==
  /\ pc[t] = "end"
  /\ at' = [at EXCEPT ![t] = Len(IF hand[t].op = "assign" THEN regions ELSE irqs)]
  /\ Goto(t, "link")
  /\ UNCHANGED <<dev, saved, clearing, shared>>

\* ... and hangs x on the element that was the last then, the n-th: whatever
\* is behind that one is lost, and so may x be if it has been removed.
Linked(list, n, x) ==
  IF n <= Len(list) THEN {Append(SubSeq(list, 1, n), x)}
                    ELSE {list, Append(list, x)}

\* irq_res_assign: list_append.
LineLink(t) ==
  /\ pc[t] = "link" /\ hand[t].op = "set_irq"
  /\ irqs' \in Linked(irqs, at[t], hand[t].arg)
  /\ Goto(t, "again")
  /\ UNCHANGED <<locals, ok_to_run, sem, pciVars, intx, regions, reserved, gicVars>>

\* emudev_irq_register looks for the line it has registered.
LineFindAgain(t) ==
  /\ pc[t] = "again"
  /\ \/ ~Contains(irqs, hand[t].arg) /\ Fail
     \/ Contains(irqs, hand[t].arg) /\ Proceed(t, "set")

\* irq_line_change or irq_line_pulse.
LineSet(t) ==
  /\ pc[t] = "set"
  /\ \/ hand[t].irqop = "pulse" /\ Rise(t)
     \/ /\ hand[t].irqop # "pulse"
        /\ SetLevel(hand[t].arg, hand[t].irqop = "set") /\ Done(t)
        /\ UNCHANGED <<ok_to_run, sem, pciVars, intx, listVars, pulses>>

\* mmio_res_assign: external vm_reserve_memory_at refuses a taken region.
AssignReserve(t) ==
  LET r == hand[t].arg IN
  /\ pc[t] = "reserve"
  /\ \/ r \in reserved /\ Fail
     \/ /\ r \notin reserved
        /\ reserved' = reserved \cup {r}
        /\ Goto(t, "end")
        /\ UNCHANGED <<locals, ok_to_run, sem, pciVars, intx, irqs, regions, gicVars>>

\* mmio_res_assign: list_append.
AssignLink(t) ==
  /\ pc[t] = "link" /\ hand[t].op = "assign"
  /\ regions' \in Linked(regions, at[t], hand[t].arg)
  /\ Done(t)
  /\ UNCHANGED <<ok_to_run, sem, pciVars, intx, irqs, reserved, gicVars>>

\* mmio_res_free: list_item finds the entry ...
FreeFind(t) ==
  /\ pc[t] = "search"
  /\ \/ ~Contains(regions, hand[t].arg) /\ Fail
     \/ Contains(regions, hand[t].arg) /\ Proceed(t, "remove")

FreeRemove_KeepsEntry(t) ==
  /\ pc[t] = "remove" /\ Proceed(t, "release")

\* ... list_remove takes it off the list, if it is there still ...
FreeRemove(t) ==
  /\ pc[t] = "remove"
  /\ regions' = RemoveFirst(regions, hand[t].arg)
  /\ Goto(t, "release")
  /\ UNCHANGED <<locals, ok_to_run, sem, pciVars, intx, irqs, reserved, gicVars>>

\* ... and vm_reservation_free gives the memory back.
FreeRelease(t) ==
  /\ pc[t] = "release"
  /\ reserved' = reserved \ {hand[t].arg}
  /\ Done(t)
  /\ UNCHANGED <<ok_to_run, sem, pciVars, intx, irqs, regions, gicVars>>

---------------------------------------------------------------------------
(* handle_control *)

ControlOk(t) ==
  /\ pc[t] = "ok"
  /\ ok_to_run' = TRUE
  /\ Goto(t, "post")
  /\ UNCHANGED <<locals, sem, pciVars, intx, listVars, gicVars>>

ControlPost(t) ==
  /\ pc[t] = "post"
  /\ sem' = sem + 1
  /\ Done(t)
  /\ UNCHANGED <<ok_to_run, pciVars, intx, listVars, gicVars>>

HandlePci(t) ==
  \/ FindTest(t) \/ FindEntry(t) \/ ChangeLoad(t) \/ ChangeStore(t) \/ ChangeLevel(t)
  \/ RegisterCheck(t) \/ AddEntryFind(t) \/ AddEntryTake(t) \/ RegisterCount(t)
  \/ RegisterStoreCount(t) \/ RegisterStoreDev(t)

HandleEmudev(t) ==
  \/ LineFind(t) \/ ListEnd(t) \/ LineLink(t) \/ LineFindAgain(t) \/ LineSet(t)
  \/ AssignReserve(t) \/ AssignLink(t) \/ FreeFind(t) \/ FreeRemove(t) \/ FreeRelease(t)

Handle(t) ==
  /\ \/ HandleMsi(t) \/ Fall(t) \/ HandlePci(t) \/ HandleEmudev(t)
     \/ ControlOk(t) \/ ControlPost(t)
  /\ InHandler

---------------------------------------------------------------------------
(* The main thread at boot *)

\* rpc_run returns when the queue is empty.
BootDrained ==
  /\ boot = "drain" /\ pc["main"] = "idle" /\ queue = <<>>
  /\ boot' = "test"
  /\ UNCHANGED sem

BootTest_NoWait ==
  /\ boot = "test"
  /\ boot' = "run"
  /\ UNCHANGED sem

\* io_proxy_wait_for_backend: while (!*ok_to_run) sync_sem_wait(...)
BootTest ==
  /\ boot = "test"
  /\ boot' = IF ok_to_run THEN "run" ELSE "wait"
  /\ UNCHANGED sem

BootWait ==
  /\ boot = "wait" /\ sem > 0
  /\ sem' = sem - 1
  /\ boot' = "test"

---------------------------------------------------------------------------

DeviceSends ==
  \/ \E b \in BackendSlots : SendRegister(b)
  \/ \E i \in BackendSlots \cup EmuIrqs \cup MsiIrqs, o \in {"set", "clr", "pulse"} :
       SendIrq(i, o)
  \/ \E r \in Regions, f \in BOOLEAN : SendRegion(r, f)
  \/ SendStart

Run(t) == ~failed /\ (EventRx(t) \/ Handle(t))

Boot ==
  /\ ~failed
  /\ BootDrained \/ BootTest \/ BootWait
  /\ UNCHANGED <<queue, devVars, runVars, ok_to_run, pciVars, intx, listVars,
                 gicVars, overlapped, failed>>

Next ==
  \/ ~failed /\ DeviceSends
  \/ \E t \in Threads : Run(t)
  \/ Boot

Spec == Init /\ [][Next]_vars

---------------------------------------------------------------------------
(* Properties *)

Events == [n : 0 .. MaxEvents, op : {"none", "register", "set_irq", "assign",
                                     "free", "start"},
           arg : {0} \cup BackendSlots \cup EmuIrqs \cup MsiIrqs \cup Regions,
           irqop : {"none", "set", "clr", "pulse"}]

Places == {"idle", "msi", "fall", "find", "entry", "load", "store", "level",
           "check", "add", "take", "count", "publish", "put_count", "put_dev",
           "line", "end", "link", "again", "set", "reserve", "search", "remove",
           "release", "ok", "post"}

\* Every variable keeps its range, and an emulated interrupt has at most one
\* irq_line object as long as one event is handled at a time.
TypeOK ==
  /\ queue \in Seq(Events) /\ Len(queue) <= QueueSize
  /\ sent \in 0 .. MaxEvents /\ known \subseteq BackendSlots
  /\ wire \in [BackendSlots \cup EmuIrqs -> BOOLEAN]
  /\ msis \in [MsiIrqs -> 0 .. MaxEvents] /\ claimed \subseteq Regions
  /\ hand \in [Threads -> Events] /\ pc \in [Threads -> Places]
  /\ at \in [Threads -> Nat] /\ dev \in [Threads -> {0} \cup VmmSlots]
  /\ saved \in [Threads -> SUBSET VmmSlots] /\ clearing \in [Threads -> BOOLEAN]
  /\ boot \in {"drain", "test", "wait", "run"} /\ sem \in 0 .. 1
  /\ {started, ok_to_run, overlapped, failed} \subseteq BOOLEAN
  /\ pci_devs \in [0 .. MaxDevs - 1 -> [bslot : BackendSlots, slot : VmmSlots] \cup {NoDev}]
  /\ pci_dev_count \in Nat /\ bus \subseteq VmmSlots
  /\ intx \in [Pins -> SUBSET VmmSlots]
  /\ irqs \in Seq(EmuIrqs) /\ (~overlapped => IsInjective(irqs))
  /\ regions \in Seq(Regions) /\ reserved \subseteq Regions
  /\ level \in [AllIrqs -> BOOLEAN] /\ pulses \in [MsiIrqs -> 0 .. MaxEvents]

\* Every event sent has been handled.
Quiet == queue = <<>> /\ \A t \in Threads : pc[t] = "idle"

\* The table entry of a device.
pcidev(b) == CHOOSE d \in {pci_devs[i] : i \in 0 .. MaxDevs - 1} : d.bslot = b

\* As the guest sees it: the line it reads from a device's registers is the
\* wired OR of the devices that read the same, whether it goes by the line
\* or by the pin; an emulated interrupt has the level given it last.
LinesAgree ==
  /\ \A p \in Pins :
       LET on == {b \in known : wire[b]} IN
       /\ level[IntxBase + p] =
            \E b \in on : PciRegister(pcidev(b), "line") = IntxBase + p
       /\ level[IntxBase + p] =
            \E b \in on : PciRegister(pcidev(b), "pin") = p + 1
  /\ \A i \in EmuIrqs : level[i] = wire[i]

\* End to end: once all events are handled, the guest's interrupt inputs show
\* what the device VM's devices drive, for devices that share a pin too,
\* provided the two threads that may run rpc_run at boot have never had an
\* event in hand at the same time.
LinesFollowBackend == Quiet /\ ~failed /\ ~overlapped => LinesAgree

\* The same without the proviso: the line is the wired OR of its sources.
LinesAlwaysFollowBackend == Quiet /\ ~failed => LinesAgree

\* However the two threads interleave, an MSI never has more edges than the
\* device VM raised it, and at least one once it has been handled; pulses
\* that overlap may merge, and without overlap each raise is an edge.
MsisInjected ==
  \A i \in MsiIrqs :
    /\ pulses[i] <= msis[i]
    /\ Quiet /\ msis[i] > 0 => pulses[i] > 0
    /\ Quiet /\ ~overlapped => pulses[i] = msis[i]

\* Once all events are handled the list of MMIO reservations and the VM's
\* reservations are the regions the device VM has, each of them once.
RegionsReserved ==
  Quiet /\ ~failed /\ ~overlapped =>
    /\ reserved = claimed
    /\ ToSet(regions) = claimed /\ IsInjective(regions)

\* A device VM that registers before it raises and frees what it assigned
\* never makes rpc_run fail, and nobody follows a NULL pointer or runs out of
\* the table, except when both threads handle events at the same time.
FailsOnlyWhenOverlapped == failed => overlapped

\* Two events can be in hand at once only while the main thread drains the
\* queue in io_proxy_run.
OverlapOnlyAtBoot == [][boot # "drain" => overlapped' = overlapped]_vars
==============================================================================
