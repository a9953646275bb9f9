---------------------------- MODULE GuestBootProofs ----------------------------
(***************************************************************************)
(* Proofs about the boot of a driver VM, for every configuration, every    *)
(* set of devices and both threads.  What DeviceEventsProofs shows of the  *)
(* device events holds here too, because a boot is a run of DeviceEvents.  *)
(***************************************************************************)
EXTENDS GuestBoot, DeviceEventsProofs

---------------------------------------------------------------------------
(* The inductive invariant *)

Own  == conf.pools[1]
Late == {"dtb", "pools", "pci", "node", "running"}

\* From init_ram_module on, the dataports are mapped, guest RAM is part of
\* what is mapped, and nothing is mapped twice.
MapOK ==
  stage \notin {"ram", "halted"} =>
    /\ Dataports \subseteq mapped
    /\ \E s \in mapped : Frames(conf.ram) \subseteq Frames(s)
    /\ \A r, s \in mapped : r # s => ~Overlap(r, s)

\* A VM that gets to its device tree has one backend, and that has started.
StageOK ==
  /\ proxies <= 1 /\ (stage = "ram" => proxies = 0)
  /\ stage = "proxy" /\ proxies > 0 => boot = "run"
  /\ stage \in Late => boot = "run" /\ Len(conf.pools) = 1
  /\ boot = "run" => ok_to_run
  /\ ok_to_run => started

Fresh == reserved_fdt = {} /\ generated = {} /\ pci_fdt = <<>>

\* The memory-region of every PCI node, and what it names.
RegionsIn ==
  \/ /\ Own = conf.ram /\ reserved_fdt = {}
     /\ \A i \in DOMAIN pci_fdt : pci_fdt[i].region = 0
  \/ /\ reserved_fdt = {[at |-> Own, phandle |-> MaxPhandle + 1]}
     /\ \A i \in DOMAIN pci_fdt : pci_fdt[i].region = MaxPhandle + 1

\* guest_configure works on the tree once.
TreeOK ==
  /\ stage \in {"ram", "proxy", "backend", "pools"} => Fresh
  /\ stage = "dtb" /\ "guest_config" \in todo => Fresh
  /\ stage \in {"ram", "proxy", "backend", "pools", "pci", "node", "halted"} => "guest_config" \in todo
  /\ stage = "running" => todo = {}
  /\ (Fresh /\ stage \notin {"pci", "node"}) \/ (RegionsIn /\ Own \in mapped)
  /\ pci_fdt \in Seq([slot : VmmSlots, region : Nat])

\* Without overlap the main thread reads only entries that are complete, and
\* the i-th node is that of the i-th entry.
ReadOK ==
  /\ stage = "node" => next < pci_dev_count
  /\ \A j \in 0 .. MaxDevs - 1 : j < next => j \in Listed /\ pci_fdt[j + 1].slot = pci_devs[j].slot

\* Without overlap the registration of an early device is handled before the
\* start of the guest: the device is in the table when the guest may start,
\* and has its node when the main thread has gone through the table.
AllRead == conf.dtb /\ Complete /\ "guest_config" \notin todo

EarlyOK ==
  /\ \A b \in early :
       \/ Registered(b)
       \/ \E e \in Pend : /\ e.op = "register" /\ e.arg = b
                          /\ \A s \in Starts : e.n < s.n
  /\ ok_to_run => \A b \in early : Registered(b)
  /\ AllRead =>
       \A b \in early : \E j \in 0 .. MaxDevs - 1 : j < next /\ pci_devs[j].bslot = b

BootInv ==
  /\ BootTypeOK /\ MapOK /\ StageOK /\ TreeOK
  /\ ~started => early = {}
  /\ ~overlapped => ReadOK /\ EarlyOK

---------------------------------------------------------------------------
(* A boot is a run of DeviceEvents *)

\* Every step of the boot is a step of DeviceEvents or leaves its variables
\* alone.
LEMMA BootStepIsEventStep ==
  ASSUME [BootNext]_bootVars
  PROVE  [Next]_vars
<1>1. CASE ~failed /\ Announces
  <2>1. DeviceSends
    BY <1>1 DEF Announces, DeviceSends
  <2> QED
    BY <1>1, <2>1 DEF Next
<1>2. ASSUME NEW t \in Threads, RpcRun(t) PROVE [Next]_vars
  BY <1>2 DEF RpcRun, Next
<1>3. CASE ~failed /\ MainStep
  <2>1. CASE Backend
    BY <2>1 DEF Backend, Next
  <2>2. CASE IoProxyInit
    <3>1. queue' = queue
      BY <2>2 DEF IoProxyInit, vso_driver_rpc_init
    <3> QED
      BY <2>2, <3>1 DEF IoProxyInit, vars
  <2>3. CASE init_ram_module \/ BackendUp \/ ProxiesUp
    BY <2>3 DEF init_ram_module, BackendUp, ProxiesUp
  <2>4. CASE guest_configure \/ GeneratePools
    BY <2>4 DEF guest_configure, GeneratePools
  <2>5. CASE GeneratePciTest \/ GeneratePciNode \/ GeneratePciDone
    BY <2>5 DEF GeneratePciTest, GeneratePciNode, GeneratePciDone
  <2>6. CASE fdt_plat_customize \/ GuestRuns
    BY <2>6 DEF fdt_plat_customize, GuestRuns
  <2> QED
    BY <1>3, <2>1, <2>2, <2>3, <2>4, <2>5, <2>6 DEF MainStep
<1>4. CASE UNCHANGED bootVars
  BY <1>4 DEF bootVars
<1> QED
  BY <1>1, <1>2, <1>3, <1>4 DEF BootNext

\* A boot is a run of DeviceEvents: the memory set-up, the proxies and the
\* device tree take nothing away from the events.
THEOREM BootRunsEvents == BootSpec => Spec
<1>1. BootInit => Init
  BY DEF BootInit
<1>2. [BootNext]_bootVars => [Next]_vars
  BY BootStepIsEventStep
<1> QED
  BY <1>1, <1>2, PTL DEF BootSpec, Spec

\* So the invariant of the events holds during a boot.
THEOREM BootKeepsEvents == RoomForDevices /\ BootSpec => []EventInv
BY BootRunsEvents, EventsInductive, PTL

---------------------------------------------------------------------------
(* What steps of DeviceEvents do to what the boot looks at *)

\* Without overlap the table only grows, a registration under way stays so or
\* ends in the table, and only the oldest event starts the guest.
Grows ==
  /\ pci_dev_count <= pci_dev_count'
  /\ \A j \in Listed : j \in Listed' /\ pci_devs'[j] = pci_devs[j]
  /\ Starts' \subseteq Starts
  /\ \A e \in Pend : e.op = "register" => e \in Pend' \/ Registered(e.arg)'
  /\ ok_to_run' /\ ~ok_to_run => \E x \in Starts : Oldest(x, Pend)

\* Steps other than those of the device VM.
Progress ==
  /\ UNCHANGED <<known, started>>
  /\ overlapped => overlapped'
  /\ ok_to_run => ok_to_run'
  /\ ok_to_run' => started \/ ok_to_run
  /\ boot = "run" => boot' = "run"
  /\ boot' = "run" /\ boot # "run" => ok_to_run
  /\ ~overlapped' => Grows

\* The main thread's steps, and those that only wait.
LEMMA SameTable ==
  ASSUME UNCHANGED <<queue, hand, pc, at, pci_devs, pci_dev_count>>
  PROVE  /\ Pend' = Pend /\ Starts' = Starts /\ Listed' = Listed
         /\ \A b : Registered(b)' = Registered(b)
<1>1. Pend' = Pend
  BY DEF Pend, ToSet
<1>2. Starts' = Starts
  BY <1>1 DEF Starts
<1>3. Listed' = Listed
  BY DEF Listed
<1> QED
  BY <1>1, <1>2, <1>3 DEF Registered

LEMMA SameEvents ==
  ASSUME UNCHANGED vars
  PROVE  /\ UNCHANGED <<queue, hand, pc, at, pci_devs, pci_dev_count>>
         /\ UNCHANGED <<boot, ok_to_run, started, known, overlapped>>
         /\ Pend' = Pend /\ Starts' = Starts /\ Listed' = Listed
         /\ \A b : Registered(b)' = Registered(b)
<1>1. /\ UNCHANGED <<queue, hand, pc, at, pci_devs, pci_dev_count>>
      /\ UNCHANGED <<boot, ok_to_run, started, known, overlapped>>
  BY DEF vars, devVars, runVars, locals, shared, pciVars
<1> QED
  BY <1>1, SameTable

\* A step of a handler that changes neither table nor count.
LEMMA CalmGrows ==
  ASSUME EventInv, ~overlapped, NEW t \in Threads, pc[t] # "idle", Others(t),
         UNCHANGED <<pci_devs, pci_dev_count>>, pc[t] # "put_dev", pc'[t] # "put_dev",
         \/ Pend' = Pend
         \/ Pend' = Pend \ {hand[t]} /\ hand[t].op # "register",
         ok_to_run' = ok_to_run \/ (hand[t].op = "start" /\ ok_to_run' = TRUE)
  PROVE  Grows
<1>1. Solo(t) /\ Oldest(hand[t], Pend) /\ TypeOK
  BY Alone DEF EventInv
<1>2. Listed' = Listed
  BY <1>1, PciAlone
<1>3. Starts' \subseteq Starts
  BY DEF Starts
<1>4. ok_to_run' /\ ~ok_to_run => \E x \in Starts : Oldest(x, Pend)
  BY <1>1 DEF Starts, Oldest
<1>5. pci_dev_count <= pci_dev_count'
  BY <1>1 DEF TypeOK
<1> QED
  BY <1>2, <1>3, <1>4, <1>5 DEF Grows

\* The stores of pcidev_register: the table grows by the device of the event.
LEMMA TableGrows ==
  ASSUME RoomForDevices, EventInv, ~overlapped, NEW t \in Threads, InHandler, TableStep(t),
         Others(t), ok_to_run' = ok_to_run
  PROVE  Grows
<1> PICK x : x = hand[t]
  OBVIOUS
<1> PICK n : n = at[t]
  OBVIOUS
<1>1. TypeOK /\ OrderOK /\ PendOK /\ PcOK /\ pc[t] \in {"publish", "put_count", "put_dev"}
  BY DEF EventInv, TableStep, RegisterStoreCount, RegisterStoreDev
<1>2. Solo(t) /\ SeqInv
  BY <1>1, Alone
<1>3. PciAt(t)
  BY <1>2, PciAlone DEF SeqInv
<1>4. /\ n \in 0 .. MaxDevs - 1 /\ n < MaxDevs
      /\ Listed = {j \in 0 .. MaxDevs - 1 : j < n}
      /\ pc[t] # "put_dev" => n = pci_dev_count
      /\ pc[t] = "put_dev" => n + 1 = pci_dev_count
  BY <1>1, <1>2, <1>3, TableFull
<1>5. Listed' = {j \in 0 .. MaxDevs - 1 : j < pci_dev_count' /\ (pc'[t] = "put_dev" => j # at'[t])}
  BY <1>2, PciAlone
<1>6. n \in Nat /\ MaxDevs \in Nat /\ ~(n >= MaxDevs)
  BY <1>1, <1>4, EventAssumption DEF TypeOK
<1>7. ASSUME NEW l, Goto(t, l), \A j \in Listed : j \in Listed' /\ pci_devs'[j] = pci_devs[j],
             pci_dev_count <= pci_dev_count'
      PROVE  Grows
  <2>1. Pend' = Pend
    BY <1>1, <1>7, GotoFrame
  <2>2. Starts' = Starts
    BY <2>1 DEF Starts
  <2> QED
    BY <1>7, <2>1, <2>2 DEF Grows
<1>8. ASSUME Done(t), \A j \in Listed : j \in Listed' /\ pci_devs'[j] = pci_devs[j],
             pci_dev_count <= pci_dev_count', n \in Listed', pci_devs'[n].bslot = x.arg
      PROVE  Grows
  <2>1. Pend' = Pend \ {x} /\ x \in Pend
    BY <1>1, <1>8, DoneFrame
  <2>2. Registered(x.arg)'
    BY <1>8 DEF Registered
  <2>3. Starts' \subseteq Starts
    BY <2>1 DEF Starts
  <2> QED
    BY <1>8, <2>1, <2>2, <2>3 DEF Grows
<1>9. CASE RegisterStoreCount(t)
  <2>1. pci_dev_count' = n + 1 /\ pci_devs' = pci_devs /\ pci_dev_count <= pci_dev_count'
    BY <1>4, <1>6, <1>9 DEF RegisterStoreCount
  <2>2. CASE pc[t] = "publish" /\ Goto(t, "put_dev") /\ UNCHANGED locals
    <3>1. at' = at /\ pc'[t] = "put_dev"
      BY <1>1, <2>2 DEF locals, Goto, TypeOK
    <3>2. \A j \in Listed : j \in Listed'
      BY <1>4, <1>5, <1>6, <2>1, <3>1
    <3> QED
      BY <1>7, <2>1, <2>2, <3>2
  <2>3. CASE pc[t] = "put_count" /\ Done(t)
    <3>1. pc'[t] = "idle"
      BY <1>1, <2>3 DEF Done, TypeOK
    <3>2. n \in Listed' /\ \A j \in Listed : j \in Listed'
      BY <1>4, <1>5, <1>6, <2>1, <3>1
    <3>3. pci_devs[n].bslot = x.arg
      BY <1>3, <2>3 DEF PciAt, RegisterAt
    <3> QED
      BY <1>8, <2>1, <2>3, <3>2, <3>3
  <2> QED
    BY <1>9, <2>2, <2>3 DEF RegisterStoreCount
<1>10. CASE RegisterStoreDev(t)
  <2>1. /\ pci_devs' = [pci_devs EXCEPT ![n] = [bslot |-> x.arg, slot |-> dev[t]]]
        /\ pci_dev_count' = pci_dev_count
    BY <1>6, <1>10 DEF RegisterStoreDev
  <2>2. /\ pci_devs'[n].bslot = x.arg /\ pci_dev_count <= pci_dev_count'
        /\ \A j \in Listed : pci_devs'[j] = pci_devs[j]
    <3>1. pci_dev_count \in Nat /\ \A j \in Listed : j # n
      BY <1>1, <1>4, <1>6 DEF TypeOK
    <3> QED
      BY <1>1, <1>4, <2>1, <3>1 DEF TypeOK
  <2>3. CASE pc[t] = "publish" /\ Goto(t, "put_count")
    <3>1. pc'[t] = "put_count"
      BY <1>1, <2>3 DEF Goto, TypeOK
    <3>2. \A j \in Listed : j \in Listed'
      BY <1>4, <1>5, <1>6, <2>1, <2>3, <3>1
    <3> QED
      BY <1>7, <2>2, <2>3, <3>2
  <2>4. CASE pc[t] = "put_dev" /\ Done(t)
    <3>1. pc'[t] = "idle"
      BY <1>1, <2>4 DEF Done, TypeOK
    <3>2. n \in Listed' /\ \A j \in Listed : j \in Listed'
      BY <1>4, <1>5, <1>6, <2>1, <2>4, <3>1
    <3> QED
      BY <1>8, <2>2, <2>4, <3>2
  <2> QED
    BY <1>6, <1>10, <2>3, <2>4 DEF RegisterStoreDev
<1> QED
  BY <1>9, <1>10 DEF TableStep

\* Every step of a handler is progress.
LEMMA HandleProgress ==
  ASSUME RoomForDevices, EventInv, NEW t \in Threads, Handle(t)
  PROVE  Progress
<1>1. TypeOK /\ OrderOK /\ PendOK /\ PcOK /\ StartsOK /\ PcAt(t)
  BY DEF EventInv, PcOK
<1>2. /\ InHandler /\ pc[t] # "idle" /\ Others(t)
      /\ hand' = hand \/ (Done(t) /\ pc[t] \in Ends)
      /\ ok_to_run' = ok_to_run \/ (pc[t] = "ok" /\ ok_to_run' = TRUE)
      /\ \/ /\ UNCHANGED <<pci_devs, pci_dev_count>>
            /\ pc[t] \notin {"put_count", "put_dev"} /\ pc'[t] # "put_dev"
         \/ TableStep(t)
  BY <1>1, HandlerShape
<1>3. UNCHANGED <<queue, known, started, boot, overlapped>>
  BY <1>2 DEF InHandler, devVars
<1>4. hand[t] \in Pend /\ (pc[t] = "ok" => hand[t].op = "start")
  BY <1>1, <1>2 DEF PcAt, Pend
<1>5. pc[t] = "ok" => started
  BY <1>1, <1>4 DEF StartsOK, Starts
<1>6. \/ Pend' = Pend
      \/ /\ Pend' = Pend \ {hand[t]} /\ pc[t] \in Ends /\ Done(t)
  <2>1. hand' = hand => Pend' = Pend
    BY <1>3 DEF Pend, ToSet
  <2>2. Done(t) => Pend' = Pend \ {hand[t]}
    BY <1>1, <1>2, DoneFrame
  <2> QED
    BY <1>2, <2>1, <2>2
<1>7. ASSUME ~overlapped' PROVE Grows
  <2>1. CASE TableStep(t)
    <3>1. pc[t] # "ok"
      BY <2>1 DEF TableStep, RegisterStoreCount, RegisterStoreDev
    <3> QED
      BY <1>2, <1>3, <1>7, <2>1, <3>1, TableGrows
  <2>2. CASE ~TableStep(t)
    <3>1. pc[t] \in Ends /\ pc[t] \notin {"put_count", "put_dev"} => hand[t].op # "register"
      BY <1>1 DEF PcAt, Ends, IrqFor, IntxSteps, LineSteps, FreeSteps, AppendSteps
    <3>2. Pend' = Pend \/ (Pend' = Pend \ {hand[t]} /\ hand[t].op # "register")
      BY <1>2, <1>6, <2>2, <3>1
    <3> QED
      BY <1>2, <1>3, <1>4, <1>7, <2>2, <3>2, CalmGrows
  <2> QED
    BY <2>1, <2>2
<1>8. ok_to_run => ok_to_run'
  BY <1>2
<1>9. ok_to_run' => started \/ ok_to_run
  BY <1>2, <1>5
<1> QED
  BY <1>3, <1>7, <1>8, <1>9 DEF Progress

\* rpc_run
LEMMA RunProgress ==
  ASSUME RoomForDevices, EventInv, NEW t \in Threads, Run(t)
  PROVE  Progress
<1>1. CASE EventRx(t)
  <2>1. TypeOK /\ OrderOK /\ PendOK /\ PcOK
    BY DEF EventInv
  <2>2. Pend' = Pend /\ Head(queue) \in Pend
    BY <1>1, <2>1, RxPend
  <2>3. Starts' = Starts
    BY <2>2 DEF Starts
  <2>4. /\ UNCHANGED <<known, started, boot, ok_to_run, pci_devs, pci_dev_count, at>>
        /\ pc[t] = "idle" /\ pc' = [pc EXCEPT ![t] = Entry(Head(queue))]
        /\ overlapped => overlapped'
    BY <1>1 DEF EventRx, devVars, shared, pciVars, locals
  <2>5. Entry(Head(queue)) # "put_dev"
    <3>1. Head(queue) \in Events /\ Good(Head(queue))
      BY <2>1, <2>2, PendFacts DEF PendOK
    <3> QED
      BY <3>1, EntryFacts
  <2>6. \A u \in Threads : pc[u] = "put_dev" <=> pc'[u] = "put_dev"
    BY <2>1, <2>4, <2>5 DEF TypeOK
  <2>7. Listed' = Listed
    BY <2>4, <2>6 DEF Listed
  <2>8. Grows
    BY <2>1, <2>2, <2>3, <2>4, <2>7 DEF Grows, TypeOK
  <2> QED
    BY <2>4, <2>8 DEF Progress
<1>2. CASE Handle(t)
  BY <1>2, HandleProgress
<1> QED
  BY <1>1, <1>2 DEF Run

\* io_proxy_wait_for_backend
LEMMA WaitProgress ==
  ASSUME EventInv, Boot \/ UNCHANGED vars
  PROVE  Progress
<1>1. /\ UNCHANGED <<queue, hand, pc, at, known, started, ok_to_run, pci_devs, pci_dev_count, overlapped>>
      /\ boot = "run" => boot' = "run"
      /\ boot' = "run" /\ boot # "run" => ok_to_run
  <2>1. CASE Boot
    <3>1. UNCHANGED <<queue, hand, pc, at, known, started, ok_to_run, pci_devs, pci_dev_count, overlapped>>
      BY <2>1 DEF Boot, devVars, runVars, locals, pciVars
    <3>2. BootDrained \/ BootTest \/ BootWait
      BY <2>1 DEF Boot
    <3> QED
      BY <3>1, <3>2 DEF BootDrained, BootTest, BootWait
  <2>2. CASE UNCHANGED vars
    BY <2>2, SameEvents
  <2> QED
    BY <2>1, <2>2
<1>2. Pend' = Pend /\ Starts' = Starts /\ Listed' = Listed
  BY <1>1, SameTable
<1>3. Grows
  BY <1>1, <1>2 DEF Grows, EventInv, TypeOK
<1> QED
  BY <1>1, <1>3 DEF Progress

\* The device VM registers a device.
LEMMA RegisterStep ==
  ASSUME EventInv, NEW b \in BackendSlots, SendRegister(b)
  PROVE  /\ UNCHANGED <<started, ok_to_run, boot, overlapped, pci_devs, pci_dev_count>>
         /\ known \subseteq known' /\ Pend \subseteq Pend' /\ Starts' = Starts /\ Listed' = Listed
<1> PICK x : x = [n |-> sent + 1, op |-> "register", arg |-> b, irqop |-> "none"]
  OBVIOUS
<1>1. /\ Send("register", b, "none") /\ known' = known \cup {b} /\ started' = started
      /\ UNCHANGED <<ok_to_run, boot, overlapped, pci_devs, pci_dev_count, pc, at>>
  BY DEF SendRegister, Send, shared, pciVars, runVars, locals
<1>2. TypeOK /\ OrderOK /\ PendOK
  BY DEF EventInv
<1>3. Pend' = Pend \cup {x}
  BY <1>1, <1>2, SendPend
<1>4. Starts' = Starts
  BY <1>3 DEF Starts
<1>5. Listed' = Listed
  BY <1>1 DEF Listed
<1> QED
  BY <1>1, <1>3, <1>4, <1>5

\* The device VM starts the guest: the registrations it has sent are older.
LEMMA StartStep ==
  ASSUME EventInv, SendStart
  PROVE  /\ UNCHANGED <<known, ok_to_run, boot, overlapped, pci_devs, pci_dev_count>>
         /\ ~started /\ started' /\ Pend \subseteq Pend' /\ Listed' = Listed
         /\ \A e \in Pend, s \in Starts' : e.n < s.n
<1> PICK x : x = [n |-> sent + 1, op |-> "start", arg |-> 0, irqop |-> "none"]
  OBVIOUS
<1>1. /\ Send("start", 0, "none") /\ known' = known /\ ~started /\ started' = TRUE
      /\ UNCHANGED <<ok_to_run, boot, overlapped, pci_devs, pci_dev_count, pc, at>>
  BY DEF SendStart, Send, shared, pciVars, runVars, locals
<1>2. TypeOK /\ OrderOK /\ PendOK /\ StartsOK
  BY DEF EventInv
<1>3. Pend' = Pend \cup {x} /\ \A e \in Pend : e.n < x.n
  BY <1>1, <1>2, SendPend
<1>4. Starts = {}
  BY <1>1, <1>2 DEF StartsOK
<1>5. Starts' \subseteq {x}
  BY <1>3, <1>4 DEF Starts
<1>6. Listed' = Listed
  BY <1>1 DEF Listed
<1> QED
  BY <1>1, <1>3, <1>5, <1>6

---------------------------------------------------------------------------
(* Events keep the invariant *)

\* What a configuration is.
LEMMA ConfFacts ==
  ASSUME conf \in Confs
  PROVE  /\ MaxPhandle \in Nat /\ ConfType(conf)
         /\ conf.ram \in Area /\ conf.pools \in Seq(Area) /\ Own \in Area
         /\ Len(conf.pools) \in Nat /\ Len(conf.pools) >= 1
         /\ DOMAIN conf.pools = 1 .. Len(conf.pools)
         /\ Own \in Dataports
         /\ Len(conf.pools) = 1 => Dataports = {Own}
         /\ DOMAIN conf.nodes \subseteq Nat
         /\ \A i \in DOMAIN conf.nodes : conf.nodes[i].compatible = Pool => conf.nodes[i].at \in Dataports
         /\ \A d \in Dataports : \E i \in DOMAIN conf.nodes :
              conf.nodes[i].compatible = Pool /\ conf.nodes[i].at = d
<1>1. MaxPhandle \in Nat /\ ConfType(conf)
  BY ConfAssumption
<1>2. /\ conf.ram \in Area /\ conf.pools \in Seq(Area) /\ conf.pools # <<>>
      /\ conf.nodes \in Seq([compatible : STRING, at : Area])
      /\ {n.at : n \in {m \in ToSet(conf.nodes) : m.compatible = Pool}} = ToSet(conf.pools)
  BY <1>1 DEF ConfType
<1>3. /\ Len(conf.pools) \in Nat /\ Len(conf.pools) >= 1 /\ DOMAIN conf.pools = 1 .. Len(conf.pools)
  BY <1>2, EmptySeq, LenProperties
<1>4. 1 \in DOMAIN conf.pools
  BY <1>3
<1>5. Own \in Area /\ Own \in Dataports
  BY <1>2, <1>3, <1>4, ElementOfSeq DEF Own, Dataports, ToSet
<1>6. Len(conf.pools) = 1 => Dataports = {Own}
  <2> SUFFICES ASSUME Len(conf.pools) = 1 PROVE Dataports = {Own}
    OBVIOUS
  <2>1. \A i \in DOMAIN conf.pools : i = 1
    BY <1>3
  <2> QED
    BY <1>4, <2>1 DEF Own, Dataports, ToSet
<1>7. DOMAIN conf.nodes \subseteq Nat
  BY <1>2, LenProperties
<1>8. \A i \in DOMAIN conf.nodes : conf.nodes[i].compatible = Pool => conf.nodes[i].at \in Dataports
  BY <1>2 DEF Dataports, ToSet
<1>9. \A d \in Dataports : \E i \in DOMAIN conf.nodes : conf.nodes[i].compatible = Pool /\ conf.nodes[i].at = d
  BY <1>2 DEF Dataports, ToSet
<1> QED
  BY <1>1, <1>2, <1>3, <1>5, <1>6, <1>7, <1>8, <1>9

\* The nodes made so far are those of the entries read.
LEMMA NodesOfEntries ==
  ASSUME BootTypeOK, TreeOK
  PROVE  /\ DOMAIN pci_fdt = 1 .. next /\ Len(pci_fdt) = next /\ next \in Nat /\ next <= MaxDevs
         /\ MaxDevs \in Nat /\ pci_fdt \in Seq([slot : VmmSlots, region : Nat])
<1>1. next \in 0 .. MaxDevs /\ Len(pci_fdt) = next /\ MaxDevs \in Nat
  BY EventAssumption DEF BootTypeOK
<1>2. pci_fdt \in Seq([slot : VmmSlots, region : Nat])
  BY DEF TreeOK
<1>3. DOMAIN pci_fdt = 1 .. next
  BY <1>1, <1>2, LenProperties
<1> QED
  BY <1>1, <1>2, <1>3

\* What the main thread keeps of a step of the notification thread.
LEMMA GuestSame ==
  ASSUME UNCHANGED <<conf, stage, mapped, todo, generated, reserved_fdt, pci_fdt>>
  PROVE  /\ MapOK => MapOK'
         /\ TreeOK => TreeOK'
         /\ Dataports' = Dataports /\ (AllRead' <=> AllRead)
<1>1. Dataports' = Dataports
  BY DEF Dataports, ToSet
<1>2. MapOK => MapOK'
  BY <1>1 DEF MapOK, Frames, Overlap
<1>3. (Fresh' <=> Fresh) /\ (RegionsIn' <=> RegionsIn) /\ Own' = Own
  BY DEF Fresh, RegionsIn, Own
<1>4. TreeOK => TreeOK'
  BY <1>3 DEF TreeOK
<1>5. AllRead' <=> AllRead
  BY DEF AllRead, Complete
<1> QED
  BY <1>1, <1>2, <1>4, <1>5

\* rpc_run and io_proxy_wait_for_backend keep the invariant.
LEMMA ProgressKeeps ==
  ASSUME EventInv, TypeOK', BootInv, Progress, UNCHANGED guestVars
  PROVE  BootInv'
<1> USE DEF BootInv
<1>1. UNCHANGED <<conf, stage, mapped, proxies, early, todo, generated, reserved_fdt, pci_fdt, usb_fdt, next, logged>>
  BY DEF guestVars, treeVars
<1>2. /\ UNCHANGED <<known, started>> /\ (overlapped => overlapped') /\ (~overlapped' => Grows)
  BY DEF Progress
<1>3. pci_dev_count \in Nat /\ pci_dev_count' \in Nat
  BY DEF EventInv, TypeOK
<1>4. BootTypeOK'
  <2>1. ~overlapped' => next <= pci_dev_count'
    <3> SUFFICES ASSUME ~overlapped' PROVE next <= pci_dev_count'
      OBVIOUS
    <3>1. next <= pci_dev_count /\ next \in Nat /\ pci_dev_count <= pci_dev_count'
      BY <1>2, NodesOfEntries DEF BootTypeOK, Grows
    <3> QED
      BY <1>3, <3>1
  <2> QED
    BY <1>1, <1>2, <2>1 DEF BootTypeOK, Dataports, ToSet
<1>5. MapOK' /\ TreeOK' /\ (AllRead' <=> AllRead)
  BY <1>1, GuestSame
<1>6. StageOK'
  <2>1. ok_to_run' => started'
    BY DEF StageOK, Progress
  <2>2. boot' = "run" => ok_to_run'
    BY DEF StageOK, Progress
  <2> QED
    BY <1>1, <2>1, <2>2 DEF StageOK, Progress
<1>7. ASSUME ~overlapped' PROVE ReadOK' /\ EarlyOK'
  <2>1. /\ ReadOK /\ EarlyOK /\ next \in Nat /\ pci_dev_count <= pci_dev_count'
        /\ \A j \in Listed : j \in Listed' /\ pci_devs'[j] = pci_devs[j]
        /\ Starts' \subseteq Starts
        /\ \A e \in Pend : e.op = "register" => e \in Pend' \/ Registered(e.arg)'
        /\ ok_to_run' /\ ~ok_to_run => \E x \in Starts : Oldest(x, Pend)
    BY <1>2, <1>7, NodesOfEntries DEF Grows
  <2>2. \A b : Registered(b) => Registered(b)'
    BY <2>1 DEF Registered
  <2>3. ReadOK'
    BY <1>1, <1>3, <2>1 DEF ReadOK
  <2>4. ASSUME NEW b \in early
        PROVE  \/ Registered(b)'
               \/ \E e \in Pend' : e.op = "register" /\ e.arg = b /\ \A s \in Starts' : e.n < s.n
    BY <2>1, <2>2, <2>4 DEF EarlyOK
  <2>5. ASSUME ok_to_run', NEW b \in early PROVE Registered(b)'
    <3>1. CASE ok_to_run
      BY <2>1, <2>2, <2>5, <3>1 DEF EarlyOK
    <3>2. CASE ~ok_to_run
      <4>1. PICK x \in Starts : Oldest(x, Pend)
        BY <2>1, <2>5, <3>2
      <4>2. \A e \in Pend : x.n <= e.n /\ e.n \in Nat /\ x.n \in Nat
        BY <4>1, PendFacts DEF Oldest, EventInv, Starts
      <4>3. ~\E e \in Pend : e.op = "register" /\ e.arg = b /\ \A s \in Starts : e.n < s.n
        BY <4>1, <4>2
      <4> QED
        BY <2>1, <2>2, <2>5, <4>3 DEF EarlyOK
    <3> QED
      BY <3>1, <3>2
  <2>6. ASSUME AllRead, NEW b \in early
        PROVE  \E j \in 0 .. MaxDevs - 1 : j < next /\ pci_devs'[j].bslot = b
    <3>1. PICK j \in 0 .. MaxDevs - 1 : j < next /\ pci_devs[j].bslot = b
      BY <2>1, <2>6 DEF EarlyOK
    <3>2. j \in Listed
      BY <2>1, <3>1 DEF ReadOK
    <3> QED
      BY <2>1, <3>1, <3>2
  <2>7. EarlyOK'
    BY <1>1, <1>5, <2>4, <2>5, <2>6 DEF EarlyOK
  <2> QED
    BY <2>3, <2>7
<1> QED
  BY <1>1, <1>2, <1>4, <1>5, <1>6, <1>7

\* What the device VM announces keeps the invariant; it starts the guest
\* before the main thread gets past io_proxy_wait_for_backend.
LEMMA AnnouncesKeeps ==
  ASSUME EventInv, BootInv, ~failed, Announces
  PROVE  BootInv'
<1> USE DEF BootInv
<1>1. UNCHANGED <<conf, stage, mapped, proxies, todo, generated, reserved_fdt, pci_fdt, usb_fdt, next, logged>>
  BY DEF Announces, treeVars
<1>2. /\ UNCHANGED <<ok_to_run, boot, overlapped, pci_devs, pci_dev_count>> /\ Listed' = Listed
      /\ known \subseteq known' /\ Pend \subseteq Pend' /\ (started => started')
      /\ \/ started' = started /\ early' = early /\ Starts' = Starts
         \/ ~started /\ started' /\ early' = known /\ \A e \in Pend, s \in Starts' : e.n < s.n
  <2>1. CASE \E b \in BackendSlots : SendRegister(b) /\ early' = early
    BY <2>1, RegisterStep
  <2>2. CASE SendStart /\ early' = known
    BY <2>2, StartStep
  <2> QED
    BY <2>1, <2>2 DEF Announces
<1>3. \A b : Registered(b)' <=> Registered(b)
  BY <1>2 DEF Registered
<1>4. BootTypeOK'
  BY <1>1, <1>2 DEF BootTypeOK, Dataports, ToSet
<1>5. MapOK' /\ TreeOK' /\ (AllRead' <=> AllRead)
  BY <1>1, GuestSame
<1>6. StageOK'
  BY <1>1, <1>2 DEF StageOK
<1>7. ~started' => early' = {}
  BY <1>2
<1>8. ASSUME ~overlapped' PROVE ReadOK' /\ EarlyOK'
  <2>1. ReadOK /\ EarlyOK /\ SeqInv /\ KnownOK
    BY <1>2, <1>8 DEF EventInv, SeqInv
  <2>2. ReadOK'
    BY <1>1, <1>2, <2>1 DEF ReadOK
  <2>3. CASE started' = started /\ early' = early /\ Starts' = Starts
    <3>1. ASSUME NEW b \in early'
          PROVE  \/ Registered(b)'
                 \/ \E e \in Pend' : e.op = "register" /\ e.arg = b /\ \A s \in Starts' : e.n < s.n
      BY <1>2, <1>3, <2>1, <2>3, <3>1 DEF EarlyOK
    <3> QED
      BY <1>1, <1>2, <1>3, <1>5, <2>1, <2>2, <2>3, <3>1 DEF EarlyOK
  <2>4. CASE ~started /\ started' /\ early' = known /\ \A e \in Pend, s \in Starts' : e.n < s.n
    <3>1. ~ok_to_run /\ stage \notin Late
      BY <2>4 DEF StageOK
    <3>2. ~AllRead
      BY <3>1 DEF TreeOK, BootTypeOK, Stages, Late, AllRead
    <3>3. \A b \in known : Registered(b) \/ \E e \in Pend : e.op = "register" /\ e.arg = b
      BY <2>1 DEF KnownOK
    <3>4. ASSUME NEW b \in early'
          PROVE  \/ Registered(b)'
                 \/ \E e \in Pend' : e.op = "register" /\ e.arg = b /\ \A s \in Starts' : e.n < s.n
      BY <1>2, <1>3, <2>4, <3>3, <3>4
    <3> QED
      BY <1>2, <1>5, <2>2, <3>1, <3>2, <3>4 DEF EarlyOK
  <2> QED
    BY <1>2, <2>3, <2>4
<1> QED
  BY <1>4, <1>5, <1>6, <1>7, <1>8

---------------------------------------------------------------------------
(* The main thread keeps the invariant *)

\* What a step of the main thread that leaves the events alone has to show.
LEMMA MainKeeps ==
  ASSUME EventInv, BootInv, UNCHANGED vars, UNCHANGED early,
         BootTypeOK', MapOK', StageOK', TreeOK',
         ~overlapped =>
           /\ ReadOK'
           /\ AllRead' => \A b \in early : \E j \in 0 .. MaxDevs - 1 : j < next' /\ pci_devs[j].bslot = b
  PROVE  BootInv'
<1>1. /\ UNCHANGED <<ok_to_run, started, overlapped, pci_devs>>
      /\ Pend' = Pend /\ Starts' = Starts /\ \A b : Registered(b)' = Registered(b)
  BY SameEvents
<1>2. ASSUME ~overlapped PROVE EarlyOK'
  <2>1. EarlyOK
    BY <1>2 DEF BootInv
  <2> QED
    BY <1>1, <1>2, <2>1 DEF EarlyOK
<1> QED
  BY <1>1, <1>2 DEF BootInv

\* Steps that neither read the table nor end the loop over it.
LEMMA ReadSame ==
  ASSUME BootInv, UNCHANGED vars, UNCHANGED <<conf, early, next, pci_fdt>>, stage' # "node",
         AllRead' => AllRead, ~overlapped
  PROVE  /\ ReadOK'
         /\ AllRead' => \A b \in early : \E j \in 0 .. MaxDevs - 1 : j < next' /\ pci_devs[j].bslot = b
<1>1. UNCHANGED <<pci_devs, pci_dev_count>> /\ Listed' = Listed /\ ReadOK /\ EarlyOK
  BY SameEvents DEF BootInv
<1>2. ReadOK'
  BY <1>1 DEF ReadOK
<1> QED
  BY <1>1, <1>2 DEF EarlyOK

\* Memory stays mapped.
LEMMA MapMain ==
  ASSUME MapOK, UNCHANGED <<conf, mapped>>,
         stage' \in {"ram", "halted"} \/ stage \notin {"ram", "halted"}
  PROVE  MapOK'
BY DEF MapOK, Dataports, ToSet, Frames, Overlap

\* init_ram_module
LEMMA InitRamKeeps ==
  ASSUME EventInv, BootInv, init_ram_module
  PROVE  BootInv'
<1> USE DEF BootInv
<1>1. /\ stage = "ram" /\ UNCHANGED <<conf, proxies, early, todo, generated, reserved_fdt, pci_fdt, usb_fdt, next, logged>>
      /\ UNCHANGED vars /\ stage' \in {"proxy", "halted"}
  BY DEF init_ram_module, treeVars
<1>2. UNCHANGED <<boot, ok_to_run, started, known, pci_dev_count, overlapped>>
  BY <1>1, SameEvents
<1>3. MapOK' /\ mapped' \subseteq Dataports \cup {conf.ram}
  <2>1. \A r, s \in Dataports : ram_dataport_map_all /\ r # s => ~Overlap(r, s)
    BY DEF Dataports, ToSet, ram_dataport_map_all
  <2>2. Dataports' = Dataports
    BY <1>1 DEF Dataports, ToSet
  <2>3. CASE ram_dataport_map_all /\ is_ram_region(conf.ram) /\ mapped' = Dataports
    BY <1>1, <2>1, <2>2, <2>3 DEF MapOK, is_ram_region, Frames, Overlap
  <2>4. CASE /\ ram_dataport_map_all /\ \A d \in Dataports : ~Overlap(conf.ram, d)
             /\ mapped' = Dataports \cup {conf.ram}
    <3>1. \A r, s \in mapped' : r # s => ~Overlap(r, s)
      BY <2>1, <2>4 DEF Overlap
    <3> QED
      BY <1>1, <2>2, <2>4, <3>1 DEF MapOK, Frames, Overlap
  <2>5. CASE stage' = "halted" /\ UNCHANGED mapped
    BY <1>1, <2>2, <2>5 DEF MapOK, BootTypeOK
  <2> QED
    BY <2>3, <2>4, <2>5 DEF init_ram_module
<1>4. BootTypeOK'
  BY <1>1, <1>2, <1>3 DEF BootTypeOK, Dataports, ToSet, Stages
<1>5. StageOK'
  BY <1>1, <1>2 DEF StageOK, BootTypeOK, Late
<1>6. TreeOK'
  BY <1>1 DEF TreeOK, Fresh
<1>7. ~AllRead' /\ stage' # "node"
  BY <1>1 DEF AllRead, TreeOK
<1> QED
  BY <1>1, <1>3, <1>4, <1>5, <1>6, <1>7, MainKeeps, ReadSame

\* The I/O proxies
LEMMA ProxyStepsKeep ==
  ASSUME EventInv, BootInv, IoProxyInit \/ BackendUp \/ ProxiesUp
  PROVE  BootInv'
<1> USE DEF BootInv
<1>1. /\ UNCHANGED <<conf, mapped, early, todo, generated, reserved_fdt, pci_fdt, usb_fdt, next, logged>>
      /\ UNCHANGED vars
  BY DEF IoProxyInit, vso_driver_rpc_init, BackendUp, ProxiesUp, treeVars, vars
<1>2. UNCHANGED <<boot, ok_to_run, started, known, pci_dev_count, overlapped>>
  BY <1>1, SameEvents
<1>3. stage \in {"proxy", "backend"} /\ stage' \in {"proxy", "backend", "dtb", "halted"}
  BY DEF IoProxyInit, BackendUp, ProxiesUp
<1>4. MapOK'
  BY <1>1, <1>3, MapMain
<1>5. proxies \in 0 .. Len(conf.pools) /\ proxies <= 1 /\ Len(conf.pools) \in Nat /\ Len(conf.pools) >= 1
  BY ConfFacts DEF BootTypeOK, StageOK
<1>6. proxies' \in 0 .. Len(conf.pools) /\ StageOK'
  <2>1. CASE IoProxyInit
    <3>1. \/ stage' = "backend" /\ proxies = 0 /\ proxies' = 1
          \/ stage' = "halted" /\ proxies' = proxies
      BY <1>5, <2>1 DEF IoProxyInit
    <3> QED
      BY <1>1, <1>2, <1>5, <3>1 DEF StageOK, Late
  <2>2. CASE BackendUp
    <3>1. stage' = "proxy" /\ boot = "run" /\ proxies' = proxies
      BY <2>2 DEF BackendUp
    <3> QED
      BY <1>1, <1>2, <1>5, <3>1 DEF StageOK, Late
  <2>3. CASE ProxiesUp
    <3>1. stage = "proxy" /\ stage' = "dtb" /\ proxies' = proxies /\ proxies = Len(conf.pools)
      BY <2>3 DEF ProxiesUp
    <3>2. Len(conf.pools) = 1 /\ proxies > 0
      <4>1. \A m \in Nat : m >= 1 /\ m <= 1 => m = 1
        OBVIOUS
      <4>2. Len(conf.pools) = 1 /\ proxies = 1
        BY <1>5, <3>1, <4>1, Zenon
      <4> QED
        BY <4>2
    <3>3. boot = "run"
      BY <3>1, <3>2 DEF StageOK
    <3> QED
      BY <1>1, <1>2, <1>5, <3>1, <3>2, <3>3 DEF StageOK, Late
  <2> QED
    BY <2>1, <2>2, <2>3
<1>7. BootTypeOK'
  BY <1>1, <1>2, <1>3, <1>6 DEF BootTypeOK, Dataports, ToSet, Stages
<1>8. TreeOK'
  BY <1>1, <1>3 DEF TreeOK, Fresh
<1>9. ~AllRead' /\ stage' # "node"
  BY <1>1, <1>3 DEF AllRead, TreeOK
<1> QED
  BY <1>1, <1>4, <1>6, <1>7, <1>8, <1>9, MainKeeps, ReadSame

\* camkes_guest_configure starts, or has nothing to do.
LEMMA GuestConfigureKeeps ==
  ASSUME EventInv, BootInv, guest_configure
  PROVE  BootInv'
<1> USE DEF BootInv
<1>1. /\ UNCHANGED <<conf, mapped, proxies, early, generated, reserved_fdt, pci_fdt, usb_fdt, next, logged>>
      /\ UNCHANGED vars
      /\ stage = "dtb" /\ "guest_config" \in todo
      /\ IF conf.dtb THEN stage' = "pools" /\ todo' = todo
                     ELSE todo' = todo \ {"guest_config"} /\ stage' = stage
  BY DEF guest_configure
<1>2. UNCHANGED <<boot, ok_to_run, started, known, pci_dev_count, overlapped>>
  BY <1>1, SameEvents
<1>3. MapOK'
  BY <1>1, MapMain
<1>4. StageOK'
  BY <1>1, <1>2 DEF StageOK, Late
<1>5. BootTypeOK'
  BY <1>1, <1>2 DEF BootTypeOK, Dataports, ToSet, Stages
<1>6. TreeOK'
  BY <1>1 DEF TreeOK, Fresh
<1>7. ~AllRead' /\ stage' # "node"
  BY <1>1 DEF AllRead
<1> QED
  BY <1>1, <1>3, <1>4, <1>5, <1>6, <1>7, MainKeeps, ReadSame

\* fdt_node_generate_compatibles: with one backend the pool is its own, and
\* there is none only if the pool is guest RAM.
LEMMA GeneratePoolsKeeps ==
  ASSUME EventInv, BootInv, GeneratePools
  PROVE  BootInv'
<1> USE DEF BootInv
<1> DEFINE is == Generates(Pool)
           i  == CHOOSE j \in is : \A k \in is : j <= k
<1>1. /\ UNCHANGED <<conf, mapped, proxies, early, pci_fdt, usb_fdt, next>>
      /\ UNCHANGED vars
      /\ stage = "pools" /\ stage' \in {"pci", "dtb"}
  BY DEF GeneratePools, ConfigureFails
<1>2. UNCHANGED <<boot, ok_to_run, started, known, pci_dev_count, overlapped>>
  BY <1>1, SameEvents
<1>3. /\ Fresh /\ "guest_config" \in todo /\ Len(conf.pools) = 1 /\ conf \in Confs
      /\ Own \in mapped
  <2>1. Fresh /\ "guest_config" \in todo /\ Len(conf.pools) = 1 /\ conf \in Confs
    BY <1>1 DEF TreeOK, StageOK, BootTypeOK, Late
  <2>2. Own \in mapped
    BY <1>1, <2>1, ConfFacts DEF MapOK
  <2> QED
    BY <2>1, <2>2
<1>4. MapOK' /\ StageOK'
  BY <1>1, <1>2, MapMain DEF StageOK, Late
<1>5. Own' = Own
  BY <1>1 DEF Own
<1>6. ASSUME TreeOK', BootTypeOK', AllRead' => AllRead PROVE BootInv'
  <2>1. stage' # "node"
    BY <1>1
  <2> QED
    BY <1>1, <1>4, <1>6, <2>1, MainKeeps, ReadSame
<1>7. CASE is = {} /\ stage' = "pci" /\ UNCHANGED <<generated, reserved_fdt, todo, logged>>
  <2>1. PICK k \in DOMAIN conf.nodes : conf.nodes[k].compatible = Pool /\ conf.nodes[k].at = Own
    BY <1>3, ConfFacts
  <2>2. IsGuestRam(Own)
    BY <1>3, <1>7, <2>1 DEF Generates, Fresh
  <2>3. Own = conf.ram
    <3>1. Own \in [base : Nat, size : Nat] /\ conf.ram \in [base : Nat, size : Nat]
      BY <1>3, ConfFacts DEF Area
    <3>2. Own.base = conf.ram.base /\ Own.size = conf.ram.size
      BY <2>2 DEF IsGuestRam
    <3>3. \A r, s \in [base : Nat, size : Nat] : r.base = s.base /\ r.size = s.size => r = s
      OBVIOUS
    <3> QED
      BY <3>1, <3>2, <3>3
  <2>4. RegionsIn'
    BY <1>1, <1>3, <1>5, <1>7, <2>3 DEF RegionsIn, Fresh
  <2>5. TreeOK'
    BY <1>1, <1>3, <1>5, <1>7, <2>4 DEF TreeOK
  <2>6. BootTypeOK'
    BY <1>1, <1>2, <1>7 DEF BootTypeOK, Dataports, ToSet, Stages
  <2>7. ~AllRead'
    BY <1>3, <1>7 DEF AllRead
  <2> QED
    BY <1>6, <2>5, <2>6, <2>7
<1>8. CASE /\ is # {} /\ generated' = generated \cup {i}
           /\ reserved_fdt' = reserved_fdt \cup {[at |-> conf.nodes[i].at, phandle |-> NewPhandle]}
           /\ stage' = "pci" /\ UNCHANGED <<todo, logged>>
  <2>1. is \subseteq DOMAIN conf.nodes /\ \A k \in is : conf.nodes[k].compatible = Pool
    BY DEF Generates
  <2>2. i \in is
    <3>1. is \in SUBSET Nat
      BY <1>3, <2>1, ConfFacts
    <3>2. Min(is) \in is
      BY <1>8, <3>1, MinIn
    <3> QED
      BY <3>2 DEF Min
  <2> HIDE DEF i, is
  <2>3. conf.nodes[i].at = Own
    BY <1>3, <2>1, <2>2, ConfFacts
  <2>4. NewPhandle = MaxPhandle + 1
    <3>1. Cardinality({}) = 0
      BY FS_EmptySet
    <3> QED
      BY <1>3, <3>1, ConfFacts DEF NewPhandle, Fresh
  <2>5. reserved_fdt' = {[at |-> Own, phandle |-> MaxPhandle + 1]}
    BY <1>3, <1>8, <2>3, <2>4 DEF Fresh
  <2>6. RegionsIn'
    BY <1>1, <1>3, <1>5, <2>5 DEF RegionsIn, Fresh
  <2>7. TreeOK'
    BY <1>1, <1>3, <1>5, <1>8, <2>6 DEF TreeOK
  <2>8. BootTypeOK'
    BY <1>1, <1>2, <1>8, <2>1, <2>2 DEF BootTypeOK, Dataports, ToSet, Stages
  <2>9. ~AllRead'
    BY <1>3, <1>8 DEF AllRead
  <2> QED
    BY <1>6, <2>7, <2>8, <2>9
<1>9. CASE "reserved-memory" \notin conf.parents /\ ConfigureFails /\ UNCHANGED <<generated, reserved_fdt>>
  <2>1. stage' = "dtb" /\ todo' = todo \ {"guest_config"} /\ logged' = TRUE
    BY <1>9 DEF ConfigureFails
  <2>2. TreeOK'
    BY <1>1, <1>3, <1>9, <2>1 DEF TreeOK, Fresh
  <2>3. ~AllRead'
    BY <1>1, <1>9 DEF AllRead, Complete
  <2>4. BootTypeOK'
    BY <1>1, <1>2, <1>9, <2>1 DEF BootTypeOK, Dataports, ToSet, Stages
  <2> QED
    BY <1>6, <2>2, <2>3, <2>4
<1> QED
  BY <1>7, <1>8, <1>9 DEF GeneratePools


\* The loop condition of fdt_generate_pci_config.
LEMMA GeneratePciTestKeeps ==
  ASSUME EventInv, BootInv, GeneratePciTest
  PROVE  BootInv'
<1> USE DEF BootInv
<1>1. /\ UNCHANGED <<conf, mapped, proxies, early, todo, generated, reserved_fdt, pci_fdt, usb_fdt, next, logged>>
      /\ UNCHANGED vars
      /\ stage = "pci" /\ next < pci_dev_count /\ stage' = "node"
  BY DEF GeneratePciTest, treeVars
<1>2. UNCHANGED <<boot, ok_to_run, started, known, pci_devs, pci_dev_count, overlapped>> /\ Listed' = Listed
  BY <1>1, SameEvents
<1>3. MapOK'
  BY <1>1, MapMain
<1>4. StageOK'
  BY <1>1, <1>2 DEF StageOK, Late
<1>5. BootTypeOK'
  BY <1>1, <1>2 DEF BootTypeOK, Dataports, ToSet, Stages
<1>6. TreeOK'
  <2>1. RegionsIn' <=> RegionsIn
    BY <1>1 DEF RegionsIn, Own
  <2> QED
    BY <1>1, <2>1 DEF TreeOK, Own
<1>7. ~AllRead'
  BY <1>1 DEF AllRead, TreeOK
<1>8. ~overlapped => ReadOK'
  BY <1>1, <1>2 DEF ReadOK
<1> QED
  BY <1>1, <1>3, <1>4, <1>5, <1>6, <1>7, <1>8, MainKeeps

\* Without overlap an entry that is not NULL is complete when the main thread
\* reads it, and no earlier node has its slot.
LEMMA EntryRead ==
  ASSUME EventInv, BootInv, stage = "node", pci_devs[next] # NoDev, ~overlapped
  PROVE  /\ next \in Listed
         /\ \A n \in ToSet(pci_fdt) : n.slot # pci_devs[next].slot
<1>1. /\ TypeOK /\ TableOK /\ RegisterOK /\ ReadOK
      /\ next < pci_dev_count /\ next \in Nat /\ MaxDevs \in Nat
      /\ pci_dev_count \in Nat /\ pci_dev_count <= MaxDevs
  BY NodesOfEntries DEF EventInv, SeqInv, BootInv, ReadOK, TypeOK, TableOK
<1>2. next \in 0 .. MaxDevs - 1
  BY <1>1
<1>3. next \in Listed
  <2>1. \A t \in Threads : pc[t] = "put_count" => at[t] # next
    <3>1. \A t \in Threads : pc[t] = "put_count" => at[t] = pci_dev_count
      BY <1>1 DEF RegisterOK
    <3>2. pci_dev_count # next
      BY <1>1
    <3> QED
      BY <3>1, <3>2
  <2> QED
    BY <1>1, <1>2, <2>1 DEF TableOK
<1>4. ASSUME NEW n \in ToSet(pci_fdt) PROVE n.slot # pci_devs[next].slot
  <2>1. PICK k \in 1 .. next : n = pci_fdt[k]
    BY NodesOfEntries DEF BootInv, ToSet
  <2> PICK j : j = k - 1
    OBVIOUS
  <2>2. j \in 0 .. MaxDevs - 1 /\ j < next /\ j + 1 = k /\ j # next
    BY <1>1, <1>2
  <2>3. j \in Listed /\ n.slot = pci_devs[j].slot
    BY <1>1, <2>1, <2>2 DEF ReadOK
  <2> QED
    BY <1>1, <1>3, <2>2, <2>3 DEF TableOK
<1> QED
  BY <1>3, <1>4

\* One iteration of fdt_generate_pci_config.
LEMMA GeneratePciNodeKeeps ==
  ASSUME EventInv, BootInv, GeneratePciNode
  PROVE  BootInv'
<1> USE DEF BootInv
<1> PICK d : d = pci_devs[next]
  OBVIOUS
<1>1. /\ UNCHANGED <<conf, mapped, proxies, early, generated, reserved_fdt, usb_fdt>>
      /\ UNCHANGED vars
      /\ stage = "node" /\ stage' \in {"pci", "dtb", "halted"}
      /\ \/ stage' = "halted" /\ UNCHANGED <<pci_fdt, next, todo, logged>>
         \/ /\ ~EntryMissing /\ NodeAdded(d)
            /\ pci_fdt' = Append(pci_fdt, PciNode(d)) /\ next' = next + 1
            /\ stage' = "pci" /\ UNCHANGED <<todo, logged>>
         \/ /\ ~EntryMissing /\ ~NodeAdded(d) /\ UNCHANGED <<pci_fdt, next>>
            /\ logged' = TRUE /\ todo' = todo \ {"guest_config"} /\ stage' = "dtb"
  BY DEF GeneratePciNode, ConfigureFails
<1>2. UNCHANGED <<boot, ok_to_run, started, known, pci_devs, pci_dev_count, overlapped>> /\ Listed' = Listed
  BY <1>1, SameEvents
<1>3. RegionsIn /\ Own \in mapped /\ "guest_config" \in todo /\ conf \in Confs /\ Own' = Own
  BY <1>1 DEF TreeOK, BootTypeOK, Own
<1>4. MapOK' /\ StageOK'
  BY <1>1, <1>2, MapMain DEF StageOK, Late
<1>5. /\ DOMAIN pci_fdt = 1 .. next /\ Len(pci_fdt) = next /\ next \in Nat /\ next <= MaxDevs
      /\ MaxDevs \in Nat /\ pci_fdt \in Seq([slot : VmmSlots, region : Nat])
      /\ pci_dev_count \in Nat
  BY NodesOfEntries DEF EventInv, TypeOK
<1>6. CASE stage' = "halted" /\ UNCHANGED <<pci_fdt, next, todo, logged>>
  <2>1. RegionsIn'
    BY <1>1, <1>3, <1>6 DEF RegionsIn
  <2>2. TreeOK'
    BY <1>1, <1>3, <1>6, <2>1 DEF TreeOK
  <2>3. BootTypeOK'
    BY <1>1, <1>2, <1>6 DEF BootTypeOK, Dataports, ToSet, Stages
  <2>4. ~AllRead' /\ stage' # "node" /\ (AllRead' => AllRead)
    BY <1>3, <1>6 DEF AllRead
  <2> QED
    BY <1>1, <1>4, <1>6, <2>2, <2>3, <2>4, MainKeeps, ReadSame
<1>7. CASE /\ ~EntryMissing /\ NodeAdded(d)
           /\ pci_fdt' = Append(pci_fdt, PciNode(d)) /\ next' = next + 1
           /\ stage' = "pci" /\ UNCHANGED <<todo, logged>>
  <2> PICK c : c = PciNode(d)
    OBVIOUS
  <2>1. next \in 0 .. MaxDevs - 1 /\ d # NoDev
    BY <1>5, <1>7 DEF EntryMissing
  <2>2. d \in [bslot : BackendSlots, slot : VmmSlots]
    BY <2>1 DEF EventInv, TypeOK
  <2>3. c.slot = d.slot /\ c.region = MemoryRegion(Own.base)
    BY DEF PciNode, Own
  <2>4. \/ Own = conf.ram /\ reserved_fdt = {} /\ c.region = 0
        \/ reserved_fdt = {[at |-> Own, phandle |-> MaxPhandle + 1]} /\ c.region = MaxPhandle + 1
    <3>1. CASE Own = conf.ram /\ reserved_fdt = {}
      BY <2>3, <3>1 DEF MemoryRegion
    <3>2. CASE reserved_fdt = {[at |-> Own, phandle |-> MaxPhandle + 1]}
      <4> PICK n : n = [at |-> Own, phandle |-> MaxPhandle + 1]
        OBVIOUS
      <4>1. {m \in reserved_fdt : m.at.base = Own.base} = {n} /\ n.phandle = MaxPhandle + 1
        BY <3>2
      <4>2. (CHOOSE m \in {n} : TRUE) = n
        OBVIOUS
      <4>3. MemoryRegion(Own.base) = MaxPhandle + 1
        BY <4>1, <4>2 DEF MemoryRegion
      <4> QED
        BY <2>3, <3>2, <4>3
    <3> QED
      BY <1>3, <3>1, <3>2 DEF RegionsIn
  <2>5. c \in [slot : VmmSlots, region : Nat]
    <3>1. c.region \in Nat
      BY <1>3, <2>4, ConfFacts
    <3> QED
      BY <2>2, <2>3, <3>1 DEF PciNode
  <2>6. /\ pci_fdt' \in Seq([slot : VmmSlots, region : Nat]) /\ Len(pci_fdt') = next + 1
        /\ \A k \in DOMAIN pci_fdt : pci_fdt'[k] = pci_fdt[k]
        /\ pci_fdt'[next + 1] = c
        /\ \A k \in DOMAIN pci_fdt' : k \in DOMAIN pci_fdt \/ k = next + 1
    BY <1>5, <1>7, <2>5, AppendFacts
  <2>7. RegionsIn'
    BY <1>1, <1>3, <2>4, <2>6 DEF RegionsIn
  <2>8. TreeOK'
    BY <1>1, <1>3, <1>7, <2>6, <2>7 DEF TreeOK
  <2>9. BootTypeOK'
    <3>1. next' \in 0 .. MaxDevs /\ Len(pci_fdt') = next'
      BY <1>5, <1>7, <2>1, <2>6
    <3>2. ~overlapped => next' <= pci_dev_count
      <4> SUFFICES ASSUME ~overlapped PROVE next + 1 <= pci_dev_count
        BY <1>7
      <4>1. next < pci_dev_count
        BY <1>1 DEF ReadOK
      <4> QED
        BY <1>5, <4>1
    <3> QED
      BY <1>1, <1>2, <1>7, <3>1, <3>2 DEF BootTypeOK, Dataports, ToSet, Stages
  <2>10. ~AllRead'
    BY <1>3, <1>7 DEF AllRead
  <2>11. ASSUME ~overlapped PROVE ReadOK'
    <3>1. next \in Listed /\ ReadOK
      BY <1>1, <2>1, <2>11, EntryRead
    <3>2. ASSUME NEW j \in 0 .. MaxDevs - 1, j < next'
          PROVE  j \in Listed' /\ pci_fdt'[j + 1].slot = pci_devs'[j].slot
      <4>1. CASE j < next
        <5>1. j \in Listed /\ pci_fdt[j + 1].slot = pci_devs[j].slot
          BY <3>1, <4>1 DEF ReadOK
        <5>2. j + 1 \in DOMAIN pci_fdt
          BY <1>5, <4>1
        <5> QED
          BY <1>2, <2>6, <5>1, <5>2
      <4>2. CASE j = next
        BY <1>2, <2>3, <2>6, <3>1, <4>2
      <4> QED
        BY <1>5, <1>7, <3>2, <4>1, <4>2
    <3> QED
      BY <1>7, <3>2 DEF ReadOK
  <2> QED
    BY <1>1, <1>4, <2>8, <2>9, <2>10, <2>11, MainKeeps
<1>8. CASE /\ ~EntryMissing /\ ~NodeAdded(d) /\ UNCHANGED <<pci_fdt, next>>
           /\ logged' = TRUE /\ todo' = todo \ {"guest_config"} /\ stage' = "dtb"
  <2>1. RegionsIn'
    BY <1>1, <1>3, <1>8 DEF RegionsIn
  <2>2. TreeOK'
    BY <1>1, <1>3, <1>8, <2>1 DEF TreeOK
  <2>3. BootTypeOK'
    BY <1>1, <1>2, <1>8 DEF BootTypeOK, Dataports, ToSet, Stages
  <2>4. ASSUME ~overlapped PROVE ReadOK' /\ ~AllRead'
    <3>1. ReadOK'
      BY <1>1, <1>2, <1>8, <2>4 DEF ReadOK
    <3>2. d # NoDev
      BY <1>8 DEF EntryMissing
    <3>3. \A n \in ToSet(pci_fdt) : n.slot # d.slot
      BY <1>1, <2>4, <3>2, EntryRead
    <3>4. "pci" \notin conf.parents
      BY <1>8, <3>3 DEF NodeAdded
    <3> QED
      BY <1>1, <3>1, <3>4 DEF AllRead, Complete
  <2> QED
    BY <1>1, <1>4, <2>2, <2>3, <2>4, MainKeeps
<1> QED
  BY <1>1, <1>6, <1>7, <1>8

\* The loop ends: every device in the table has its node.
LEMMA GeneratePciDoneKeeps ==
  ASSUME EventInv, BootInv, GeneratePciDone
  PROVE  BootInv'
<1> USE DEF BootInv
<1>1. /\ UNCHANGED <<conf, mapped, proxies, early, generated, reserved_fdt, pci_fdt, usb_fdt, next, logged>>
      /\ UNCHANGED vars
      /\ stage = "pci" /\ next >= pci_dev_count /\ stage' = "dtb" /\ todo' = todo \ {"guest_config"}
  BY DEF GeneratePciDone
<1>2. UNCHANGED <<boot, ok_to_run, started, known, pci_devs, pci_dev_count, overlapped>> /\ Listed' = Listed
  BY <1>1, SameEvents
<1>3. MapOK' /\ StageOK'
  BY <1>1, <1>2, MapMain DEF StageOK, Late
<1>4. BootTypeOK'
  BY <1>1, <1>2 DEF BootTypeOK, Dataports, ToSet, Stages
<1>5. TreeOK'
  BY <1>1 DEF TreeOK, RegionsIn, Own
<1>6. ASSUME ~overlapped
      PROVE  /\ ReadOK'
             /\ \A b \in early : \E j \in 0 .. MaxDevs - 1 : j < next' /\ pci_devs[j].bslot = b
  <2>1. ReadOK'
    BY <1>1, <1>2, <1>6 DEF ReadOK
  <2>2. ok_to_run /\ \A b \in early : Registered(b)
    BY <1>1, <1>6 DEF StageOK, Late, EarlyOK
  <2>3. \A j \in Listed : j \in 0 .. MaxDevs - 1 /\ j < next
    <3>1. next \in Nat /\ pci_dev_count \in Nat /\ MaxDevs \in Nat
      BY NodesOfEntries DEF EventInv, TypeOK
    <3> QED
      BY <1>1, <3>1 DEF Listed
  <2> QED
    BY <1>1, <2>1, <2>2, <2>3 DEF Registered
<1> QED
  BY <1>1, <1>3, <1>4, <1>5, <1>6, MainKeeps

\* fdt_plat_customize, and the guest runs.
LEMMA LastStepsKeep ==
  ASSUME EventInv, BootInv, fdt_plat_customize \/ GuestRuns
  PROVE  BootInv'
<1> USE DEF BootInv
<1>1. /\ UNCHANGED <<conf, mapped, proxies, early, generated, reserved_fdt, pci_fdt, next, logged>>
      /\ UNCHANGED vars
      /\ stage = "dtb" /\ usb_fdt' \in BOOLEAN
      /\ \/ stage' = "dtb" /\ todo' = todo \ {"fdt_plat_customize"}
         \/ stage' = "running" /\ todo = {} /\ todo' = todo
  <2>1. usb_fdt \in BOOLEAN
    BY DEF BootTypeOK
  <2> QED
    BY <2>1 DEF fdt_plat_customize, GuestRuns, treeVars
<1>2. UNCHANGED <<boot, ok_to_run, started, known, pci_dev_count, overlapped>>
  BY <1>1, SameEvents
<1>3. MapOK' /\ StageOK'
  BY <1>1, <1>2, MapMain DEF StageOK, Late
<1>4. BootTypeOK'
  BY <1>1, <1>2 DEF BootTypeOK, Dataports, ToSet, Stages
<1>5. "guest_config" \in todo' <=> "guest_config" \in todo
  BY <1>1
<1>6. TreeOK'
  <2>1. (Fresh' <=> Fresh) /\ (RegionsIn' <=> RegionsIn) /\ Own' = Own
    BY <1>1 DEF Fresh, RegionsIn, Own
  <2> QED
    BY <1>1, <1>5, <2>1 DEF TreeOK
<1>7. (AllRead' => AllRead) /\ stage' # "node"
  BY <1>1, <1>5 DEF AllRead, Complete
<1> QED
  BY <1>1, <1>3, <1>4, <1>6, <1>7, MainKeeps, ReadSame

---------------------------------------------------------------------------
(* The whole *)

\* The invariant holds at first.
LEMMA InitBoot == BootInit => BootInv
<1> SUFFICES ASSUME BootInit PROVE BootInv
  OBVIOUS
<1>1. /\ conf \in Confs /\ stage = "ram" /\ mapped = {} /\ proxies = 0 /\ early = {}
      /\ todo = {"guest_config", "fdt_plat_customize"}
      /\ generated = {} /\ reserved_fdt = {} /\ pci_fdt = <<>> /\ usb_fdt = FALSE
      /\ next = 0 /\ logged = FALSE /\ Fresh
      /\ pci_dev_count = 0 /\ boot = "drain" /\ ok_to_run = FALSE /\ started = FALSE
  BY DEF BootInit, Init, Fresh
<1>2. Len(conf.pools) \in Nat /\ MaxDevs \in Nat
  BY <1>1, ConfFacts, EventAssumption
<1>3. BootTypeOK
  <2>1. proxies \in 0 .. Len(conf.pools)
    BY <1>1, <1>2
  <2>2. next \in 0 .. MaxDevs /\ Len(pci_fdt) = next /\ next <= pci_dev_count
    BY <1>1, <1>2
  <2>3. conf \in Confs /\ stage \in Stages /\ mapped \subseteq Dataports \cup {conf.ram} /\ early \subseteq known
    BY <1>1 DEF Stages
  <2>4. /\ todo \subseteq {"guest_config", "fdt_plat_customize"} /\ generated \subseteq DOMAIN conf.nodes
        /\ {usb_fdt, logged} \subseteq BOOLEAN
    BY <1>1
  <2> QED
    BY <2>1, <2>2, <2>3, <2>4 DEF BootTypeOK
<1>4. MapOK /\ StageOK
  BY <1>1 DEF MapOK, StageOK, Late
<1>5. TreeOK
  <2>1. pci_fdt \in Seq([slot : VmmSlots, region : Nat]) /\ DOMAIN pci_fdt = {}
    BY <1>1, EmptySeq
  <2> QED
    BY <1>1, <2>1 DEF TreeOK
<1>6. ReadOK
  <2>1. \A j \in 0 .. MaxDevs - 1 : ~(j < next)
    BY <1>1
  <2> QED
    BY <1>1, <2>1 DEF ReadOK
<1>7. EarlyOK
  BY <1>1 DEF EarlyOK
<1> QED
  BY <1>1, <1>3, <1>4, <1>5, <1>6, <1>7 DEF BootInv

\* Every step of a boot keeps the invariant.
LEMMA NextBoot ==
  ASSUME RoomForDevices, EventInv, BootInv, [BootNext]_bootVars
  PROVE  BootInv'
<1> TypeOK'
  <2>1. EventInv'
    BY BootStepIsEventStep, NextEvents
  <2> QED
    BY <2>1 DEF EventInv
<1>1. CASE ~failed /\ Announces
  BY <1>1, AnnouncesKeeps
<1>2. ASSUME NEW t \in Threads, RpcRun(t) PROVE BootInv'
  <2>1. Run(t) /\ UNCHANGED guestVars
    BY <1>2 DEF RpcRun
  <2> QED
    BY <2>1, RunProgress, ProgressKeeps
<1>3. CASE Backend
  <2>1. Boot /\ UNCHANGED guestVars
    BY <1>3 DEF Backend
  <2> QED
    BY <2>1, WaitProgress, ProgressKeeps
<1>4. CASE UNCHANGED bootVars
  <2>1. UNCHANGED vars /\ UNCHANGED guestVars
    BY <1>4 DEF bootVars
  <2> QED
    BY <2>1, WaitProgress, ProgressKeeps
<1>5. CASE init_ram_module
  BY <1>5, InitRamKeeps
<1>6. CASE IoProxyInit \/ BackendUp \/ ProxiesUp
  BY <1>6, ProxyStepsKeep
<1>7. CASE guest_configure
  BY <1>7, GuestConfigureKeeps
<1>8. CASE GeneratePools
  BY <1>8, GeneratePoolsKeeps
<1>9. CASE GeneratePciTest \/ GeneratePciNode
  BY <1>9, GeneratePciTestKeeps, GeneratePciNodeKeeps
<1>10. CASE GeneratePciDone
  BY <1>10, GeneratePciDoneKeeps
<1>11. CASE fdt_plat_customize \/ GuestRuns
  BY <1>11, LastStepsKeep
<1> QED
  BY <1>1, <1>2, <1>3, <1>4, <1>5, <1>6, <1>7, <1>8, <1>9, <1>10, <1>11 DEF BootNext, MainStep

\* The invariant of the boot, for every configuration.
THEOREM BootInductive == RoomForDevices /\ BootSpec => [](EventInv /\ BootInv)
<1>1. BootInit => BootInv
  BY InitBoot
<1>2. RoomForDevices /\ EventInv /\ BootInv /\ [BootNext]_bootVars => BootInv'
  BY NextBoot
<1>3. RoomForDevices /\ [BootNext]_bootVars => RoomForDevices'
  BY DEF RoomForDevices
<1> QED
  BY <1>1, <1>2, <1>3, BootKeepsEvents, PTL DEF BootSpec

\* Every variable of the boot keeps its range, and the tree has one PCI node
\* for each entry read, never more than the devices counted without overlap.
THEOREM BootTypeCorrect == RoomForDevices /\ BootSpec => []BootTypeOK
<1>1. BootInv => BootTypeOK
  BY DEF BootInv
<1> QED
  BY <1>1, BootInductive, PTL

\* Without overlap the table lists a registered device once.
LEMMA EntryOfDevice ==
  ASSUME EventInv, ~overlapped, NEW j \in Listed
  PROVE  pcidev(pci_devs[j].bslot) = pci_devs[j]
<1>1. TypeOK /\ PcOK /\ TableOK /\ RegisterOK /\ KnownOK
  BY DEF EventInv, SeqInv
<1>2. j \in 0 .. MaxDevs - 1 /\ pci_devs[j].bslot \in BackendSlots /\ pci_devs[j].bslot # -1
  BY <1>1, Entries, Kinds
<1>3. ASSUME NEW k \in 0 .. MaxDevs - 1, pci_devs[k].bslot = pci_devs[j].bslot PROVE k = j
  <2>1. pci_devs[k] # NoDev
    BY <1>2, <1>3 DEF NoDev
  <2>2. CASE k \in Listed
    BY <1>1, <1>3, <2>2 DEF TableOK
  <2>3. CASE k \notin Listed
    <3>1. PICK t \in Threads : pc[t] = "put_count" /\ at[t] = k
      BY <1>1, <2>1, <2>3 DEF TableOK
    <3> PICK e : e = hand[t]
      OBVIOUS
    <3>2. pci_devs[k].bslot = e.arg
      <4>1. pci_devs[at[t]] = [bslot |-> hand[t].arg, slot |-> dev[t]]
        BY <1>1, <3>1 DEF RegisterOK
      <4> QED
        BY <3>1, <4>1
    <3>3. e \in Pend /\ e.op = "register"
      BY <1>1, <3>1 DEF PcOK, PcAt, Pend, RegisterSteps
    <3>4. ~Registered(e.arg)
      BY <1>1, <3>3 DEF KnownOK
    <3> QED
      BY <1>3, <3>2, <3>4 DEF Registered
  <2> QED
    BY <2>2, <2>3
<1> DEFINE D == {pci_devs[i] : i \in 0 .. MaxDevs - 1}
<1>5. pci_devs[j] \in D /\ \A d \in D : d.bslot = pci_devs[j].bslot => d = pci_devs[j]
  BY <1>2, <1>3
<1>6. pcidev(pci_devs[j].bslot) = CHOOSE d \in D : d.bslot = pci_devs[j].bslot
  BY DEF pcidev
<1> HIDE DEF D
<1> QED
  BY <1>5, <1>6

\* The guest's tree has exactly one node for each device registered before
\* the guest was started, although the count and the entries may change
\* between any two reads of the main thread, unless both threads had an event
\* in hand at the same time.
THEOREM EarlyDevicesInTree == RoomForDevices /\ BootSpec => []DevicesInTree
<1>1. ASSUME EventInv, BootInv, stage = "running", conf.dtb, Complete, ~overlapped, NEW b \in early
      PROVE  Cardinality({i \in DOMAIN pci_fdt : pci_fdt[i].slot = pcidev(b).slot}) = 1
  <2>1. AllRead /\ ReadOK /\ EarlyOK /\ TableOK
    BY <1>1 DEF BootInv, TreeOK, AllRead, EventInv, SeqInv
  <2>2. PICK j \in 0 .. MaxDevs - 1 : j < next /\ pci_devs[j].bslot = b
    BY <1>1, <2>1 DEF EarlyOK
  <2>3. j \in Listed /\ pci_fdt[j + 1].slot = pci_devs[j].slot
    BY <2>1, <2>2 DEF ReadOK
  <2>4. pcidev(b) = pci_devs[j]
    BY <1>1, <2>2, <2>3, EntryOfDevice
  <2>5. DOMAIN pci_fdt = 1 .. next /\ next \in Nat /\ next <= MaxDevs /\ MaxDevs \in Nat /\ j \in Nat
    BY <1>1, <2>2, NodesOfEntries DEF BootInv
  <2>6. j + 1 \in DOMAIN pci_fdt
    BY <2>2, <2>5
  <2>7. ASSUME NEW i \in DOMAIN pci_fdt, pci_fdt[i].slot = pci_devs[j].slot PROVE i = j + 1
    <3> PICK k : k = i - 1
      OBVIOUS
    <3>1. k \in 0 .. MaxDevs - 1 /\ k < next /\ k + 1 = i
      BY <2>5, <2>7
    <3>2. k \in Listed /\ pci_fdt[i].slot = pci_devs[k].slot
      BY <2>1, <3>1 DEF ReadOK
    <3>3. \A m, n \in Listed : pci_devs[m].slot = pci_devs[n].slot => m = n
      BY <2>1 DEF TableOK
    <3>4. k = j
      BY <2>3, <2>7, <3>2, <3>3
    <3> QED
      BY <3>1, <3>4
  <2>8. {i \in DOMAIN pci_fdt : pci_fdt[i].slot = pcidev(b).slot} = {j + 1}
    BY <2>3, <2>4, <2>6, <2>7
  <2> QED
    BY <2>8, FS_Singleton
<1>2. EventInv /\ BootInv => DevicesInTree
  BY <1>1 DEF DevicesInTree
<1> QED
  BY <1>2, BootInductive, PTL

\* DMA of every PCI device goes to guest RAM shared with its device VM, or to
\* the pool of its own I/O proxy, which is mapped.
THEOREM DevicesUseOwnPool == RoomForDevices /\ BootSpec => []PciUsesOwnPool
<1>1. ASSUME BootInv, NEW i \in DOMAIN pci_fdt
      PROVE  \/ Own = conf.ram /\ pci_fdt[i].region = 0
             \/ /\ pci_fdt[i].region > MaxPhandle
                /\ {n.at : n \in {m \in reserved_fdt : m.phandle = pci_fdt[i].region}} = {Own}
                /\ Own \in mapped
  <2>1. pci_fdt # <<>>
    BY <1>1
  <2>2. ~Fresh
    BY <2>1 DEF Fresh
  <2>3. RegionsIn /\ Own \in mapped
    BY <1>1, <2>2 DEF BootInv, TreeOK
  <2>4. MaxPhandle \in Nat
    BY <1>1, ConfFacts DEF BootInv, BootTypeOK
  <2>6. CASE reserved_fdt = {[at |-> Own, phandle |-> MaxPhandle + 1]} /\ pci_fdt[i].region = MaxPhandle + 1
    <3>1. pci_fdt[i].region > MaxPhandle
      BY <2>4, <2>6
    <3>2. {m \in reserved_fdt : m.phandle = pci_fdt[i].region} = {[at |-> Own, phandle |-> MaxPhandle + 1]}
      BY <2>6
    <3>3. {n.at : n \in {[at |-> Own, phandle |-> MaxPhandle + 1]}} = {Own}
      OBVIOUS
    <3> QED
      BY <2>3, <3>1, <3>2, <3>3
  <2> QED
    BY <2>3, <2>6 DEF RegionsIn
<1>2. BootInv => PciUsesOwnPool
  BY <1>1 DEF PciUsesOwnPool, Own
<1> QED
  BY <1>2, BootInductive, PTL

\* A guest that runs has all its RAM and its reserved memory mapped, and no
\* frame twice.
THEOREM GuestMemoryBacked == RoomForDevices /\ BootSpec => []MemoryBacked
<1>1. ASSUME BootInv, stage = "running"
      PROVE  /\ \A r \in {conf.ram} \cup {n.at : n \in reserved_fdt} :
                  Frames(r) \subseteq UNION {Frames(s) : s \in mapped}
             /\ \A r, s \in mapped : r # s => ~Overlap(r, s)
  <2>1. /\ Dataports \subseteq mapped /\ \E s \in mapped : Frames(conf.ram) \subseteq Frames(s)
        /\ \A r, s \in mapped : r # s => ~Overlap(r, s)
    BY <1>1 DEF BootInv, MapOK
  <2>2. Own \in mapped
    BY <1>1, <2>1, ConfFacts DEF BootInv, BootTypeOK
  <2>3. \A n \in reserved_fdt : n.at = Own
    BY <1>1 DEF BootInv, TreeOK, Fresh, RegionsIn
  <2>4. \A s \in mapped : Frames(s) \subseteq UNION {Frames(w) : w \in mapped}
    OBVIOUS
  <2>5. Frames(conf.ram) \subseteq UNION {Frames(w) : w \in mapped}
    BY <2>1, <2>4
  <2>6. Frames(Own) \subseteq UNION {Frames(w) : w \in mapped}
    BY <2>2, <2>4
  <2> HIDE DEF Frames
  <2> QED
    BY <2>1, <2>3, <2>5, <2>6
<1>2. BootInv => MemoryBacked
  BY <1>1 DEF MemoryBacked
<1> QED
  BY <1>2, BootInductive, PTL
===============================================================================
