------------------------------ MODULE GuestBoot ------------------------------
(***************************************************************************)
(* How a driver VM boots: guest RAM and dataports                          *)
(* (camkes/modules/init_dataport_ram.c, ram_dataport.c), the I/O proxies   *)
(* (camkes/modules/io_proxy.c, libsel4vm_io_proxy_init), then the device   *)
(* tree (guest_linux.c, fdt.c).  The main thread does all of it; meanwhile *)
(* the device VM registers PCI devices and starts the guest, and the       *)
(* notification thread handles those events (DeviceEvents), so that the    *)
(* table of PCI devices may change between any two reads of the main       *)
(* thread.                                                                 *)
(*                                                                         *)
(* The device tree is kept as what the properties look at: the nodes under *)
(* /reserved-memory with their phandles, and the nodes under /pci with     *)
(* their memory-region.  Addresses are in units of a frame.                *)
(***************************************************************************)
EXTENDS DeviceEvents

CONSTANTS
  Confs,        \* configurations of the VM, see ConfType
  MaxPhandle    \* largest phandle of the tree before boot

Frames(r) == r.base .. r.base + r.size - 1
Pool == "restricted-dma-pool"

Area == [base : Nat, size : Nat]

\* ram: vm_config.ram; pools: memory of each entry of vm_virtio_devices; nodes:
\* the _fdt_node section in link order, where the template puts a pool for each
\* of these entries and no other; dtb: vm_config.generate_dtb; parents: nodes
\* the tree has before boot.
ConfType(c) ==
  /\ c.ram \in Area /\ c.pools \in Seq(Area) /\ c.pools # <<>>
  /\ c.nodes \in Seq([compatible : STRING, at : Area])
  /\ c.dtb \in BOOLEAN
  /\ c.parents \subseteq {"reserved-memory", "pci", "usb"}
  /\ {n.at : n \in {m \in ToSet(c.nodes) : m.compatible = Pool}} = ToSet(c.pools)

ASSUME ConfAssumption == (\A c \in Confs : ConfType(c)) /\ MaxPhandle \in Nat

VARIABLES
  conf,        \* the configuration
  stage,       \* main thread: what it does next
  mapped,      \* external: the VM's RAM regions
  proxies,     \* I/O proxies initialised
  early,       \* device VM: slots registered when it sent QEMU_OP_START_VM
  todo,        \* modules that have not yet worked on the tree
  generated,   \* indices of conf.nodes with the generated flag
  reserved_fdt, \* nodes of /reserved-memory made at boot, [at, phandle]
  pci_fdt,     \* nodes of /pci made at boot, [slot, region]
  usb_fdt,     \* fdt_generate_usb_node has added its node
  next,        \* i of fdt_generate_pci_config
  logged       \* guest_configure has failed, which is only logged

treeVars  == <<todo, generated, reserved_fdt, pci_fdt, usb_fdt, next, logged>>
guestVars == <<conf, stage, mapped, proxies, early, treeVars>>
bootVars  == <<vars, guestVars>>

BootInit ==
  /\ Init
  /\ conf \in Confs
  /\ stage = "ram" /\ mapped = {} /\ proxies = 0 /\ early = {}
  /\ todo = {"guest_config", "fdt_plat_customize"}
  /\ generated = {} /\ reserved_fdt = {} /\ pci_fdt = <<>> /\ usb_fdt = FALSE
  /\ next = 0 /\ logged = FALSE

---------------------------------------------------------------------------
(* Memory *)

Overlap(r, s) == Frames(r) \cap Frames(s) # {}

\* ram_dataport_setup: one dataport per entry of vm_virtio_devices, as large
\* as the device's data_size.
Dataports == ToSet(conf.pools)

\* ram_dataport_map_all maps all dataports.  External: vm_ram_reserve_at
\* refuses what overlaps memory that is mapped already.
ram_dataport_map_all ==
  \A i, j \in DOMAIN conf.pools : i # j => ~Overlap(conf.pools[i], conf.pools[j])

is_ram_region(r) == \E d \in Dataports : Frames(r) \subseteq Frames(d)

init_ram_module_AnyDataport ==
  /\ stage = "ram"
  /\ mapped' = Dataports
  /\ stage' = "proxy"
  /\ UNCHANGED <<vars, conf, proxies, early, treeVars>>

\* Guest RAM that no dataport contains is mapped too, by vm_ram_register_at,
\* which must not overlap one.  A failure stops the VMM.
init_ram_module ==
  /\ stage = "ram"
  /\ \/ /\ ram_dataport_map_all /\ is_ram_region(conf.ram)
        /\ mapped' = Dataports /\ stage' = "proxy"
     \/ /\ ram_dataport_map_all /\ \A d \in Dataports : ~Overlap(conf.ram, d)
        /\ mapped' = Dataports \cup {conf.ram} /\ stage' = "proxy"
     \/ /\ \/ ~ram_dataport_map_all
           \/ ~is_ram_region(conf.ram) /\ \E d \in Dataports : Overlap(conf.ram, d)
        /\ stage' = "halted" /\ UNCHANGED mapped
  /\ UNCHANGED <<vars, conf, proxies, early, treeVars>>

---------------------------------------------------------------------------
(* The I/O proxies *)

vso_driver_rpc_init_AllQueues == queue' = <<>>

\* vso_driver_rpc_init empties the request and the response queue, which no
\* event goes through; the event queue may hold what the device VM has
\* already announced and stays as it is.
vso_driver_rpc_init == queue' = queue

\* camkes_io_proxy_module_init up to io_proxy_run: the first proxy's control
\* region and the MSI frame are reserved and the lines and lists initialised.
\* A second one finds the MSI frame reserved: msi_init fails, and so does
\* libsel4vm_io_proxy_init, which stops the VMM.
IoProxyInit ==
  /\ stage = "proxy" /\ proxies < Len(conf.pools)
  /\ IF proxies = 0
       THEN stage' = "backend" /\ proxies' = proxies + 1 /\ vso_driver_rpc_init
       ELSE stage' = "halted" /\ UNCHANGED <<proxies, queue>>
  /\ UNCHANGED <<devVars, runVars, boot, shared, overlapped, failed, conf,
                 mapped, early, treeVars>>

\* io_proxy_run and io_proxy_wait_for_backend, of DeviceEvents.
Backend == stage = "backend" /\ Boot /\ UNCHANGED guestVars

\* libsel4vm_io_proxy_init returns.
BackendUp ==
  /\ stage = "backend" /\ boot = "run"
  /\ stage' = "proxy"
  /\ UNCHANGED <<vars, conf, mapped, proxies, early, treeVars>>

\* Every proxy is up: vpci_register_devices and then load_linux follow.
ProxiesUp ==
  /\ stage = "proxy" /\ proxies = Len(conf.pools)
  /\ stage' = "dtb"
  /\ UNCHANGED <<vars, conf, mapped, proxies, early, treeVars>>

---------------------------------------------------------------------------
(* The device tree *)

\* guest_configure has failed: the error is logged and the boot goes on.
ConfigureFails ==
  /\ logged' = TRUE
  /\ todo' = todo \ {"guest_config"}
  /\ stage' = "dtb"

\* camkes_guest_configure: after vpci_install, nothing without generate_dtb.
guest_configure ==
  /\ stage = "dtb" /\ "guest_config" \in todo
  /\ IF conf.dtb
       THEN stage' = "pools" /\ UNCHANGED todo
       ELSE todo' = todo \ {"guest_config"} /\ UNCHANGED stage
  /\ UNCHANGED <<vars, conf, mapped, proxies, early, generated, reserved_fdt,
                 pci_fdt, usb_fdt, next, logged>>

IsGuestRam_SizeOnly(r) == r.size = conf.ram.size

\* The test of fdt_node_generate_swiotlb: the pool is all of guest RAM.
IsGuestRam(r) == r.base = conf.ram.base /\ r.size = conf.ram.size

\* Indices fdt_node_generate_filter hands to fdt_node_generate and that
\* generate something.  It stops at the first of them: the loop goes on only
\* while rc is 0, which is also what a node that is skipped leaves.
Generates(compatible) ==
  {i \in DOMAIN conf.nodes :
     /\ conf.nodes[i].compatible = compatible
     /\ i \notin generated
     /\ compatible = Pool => ~IsGuestRam(conf.nodes[i].at)}

\* fdt_assign_phandle: one more than the largest phandle of the tree.
NewPhandle == MaxPhandle + Cardinality(reserved_fdt) + 1

\* fdt_node_generate_compatibles: fdt_generate_reserved_node for the first.
GeneratePools ==
  LET is == Generates(Pool)
      i  == CHOOSE j \in is : \A k \in is : j <= k
  IN
  /\ stage = "pools"
  /\ \/ /\ is = {}
        /\ stage' = "pci" /\ UNCHANGED <<generated, reserved_fdt, todo, logged>>
     \/ /\ is # {} /\ "reserved-memory" \in conf.parents
        /\ generated' = generated \cup {i}
        /\ reserved_fdt' = reserved_fdt \cup
             {[at |-> conf.nodes[i].at, phandle |-> NewPhandle]}
        /\ stage' = "pci" /\ UNCHANGED <<todo, logged>>
     \/ /\ is # {} /\ "reserved-memory" \notin conf.parents
        /\ ConfigureFails /\ UNCHANGED <<generated, reserved_fdt>>
  /\ UNCHANGED <<vars, conf, mapped, proxies, early, pci_fdt, usb_fdt, next>>

\* fdt_assign_reserved_memory: the phandle of swiotlb@data_base, if there is
\* such a node; 0 stands for no memory-region.
MemoryRegion(base) ==
  LET found == {n \in reserved_fdt : n.at.base = base} IN
  IF found = {} THEN 0 ELSE (CHOOSE n \in found : TRUE).phandle

\* The node of a device: fdt_generate_pci_node and its memory-region, looked
\* up with the data_base of the device's I/O proxy.
PciNode(d) == [slot |-> d.slot, region |-> MemoryRegion(conf.pools[1].base)]

\* Loop condition of fdt_generate_pci_config: the count is read anew each time.
GeneratePciTest ==
  /\ stage = "pci" /\ next < pci_dev_count
  /\ stage' = "node"
  /\ UNCHANGED <<vars, conf, mapped, proxies, early, treeVars>>

\* The entry counted is NULL still, or beyond the table: the main thread faults.
EntryMissing == next >= MaxDevs \/ pci_devs[next] = NoDev

\* fdt_generate_pci_node can add a node for the device.
NodeAdded(d) == "pci" \in conf.parents /\ \A n \in ToSet(pci_fdt) : n.slot # d.slot

GeneratePciNode_SkipsFailed ==
  LET d == pci_devs[next] IN
  /\ stage = "node" /\ ~EntryMissing
  /\ pci_fdt' = IF NodeAdded(d) THEN Append(pci_fdt, PciNode(d)) ELSE pci_fdt
  /\ next' = next + 1 /\ stage' = "pci"
  /\ UNCHANGED <<vars, conf, mapped, proxies, early, todo, generated,
                 reserved_fdt, usb_fdt, logged>>

\* Its body: the notification thread may have counted a device whose entry it
\* has yet to store, or replaced the entry.
GeneratePciNode ==
  LET d == pci_devs[next] IN
  /\ stage = "node"
  /\ \/ /\ EntryMissing
        /\ stage' = "halted" /\ UNCHANGED <<pci_fdt, next, todo, logged>>
     \/ /\ ~EntryMissing /\ NodeAdded(d)
        /\ pci_fdt' = Append(pci_fdt, PciNode(d))
        /\ next' = next + 1
        /\ stage' = "pci" /\ UNCHANGED <<todo, logged>>
     \/ /\ ~EntryMissing /\ ~NodeAdded(d)
        /\ ConfigureFails /\ UNCHANGED <<pci_fdt, next>>
  /\ UNCHANGED <<vars, conf, mapped, proxies, early, generated, reserved_fdt, usb_fdt>>

\* The loop ends.  fdt_node_generate_all follows, which generates nothing:
\* without a filter rc stays 0 and every node is passed over.
GeneratePciDone ==
  /\ stage = "pci" /\ next >= pci_dev_count
  /\ stage' = "dtb" /\ todo' = todo \ {"guest_config"}
  /\ UNCHANGED <<vars, conf, mapped, proxies, early, generated, reserved_fdt,
                 pci_fdt, usb_fdt, next, logged>>

\* fdt_plat_customize: the USB node of rpi4, where its parent exists.
fdt_plat_customize ==
  /\ stage = "dtb" /\ "fdt_plat_customize" \in todo
  /\ usb_fdt' = (conf.dtb /\ "usb" \in conf.parents)
  /\ todo' = todo \ {"fdt_plat_customize"}
  /\ UNCHANGED <<vars, conf, stage, mapped, proxies, early, generated,
                 reserved_fdt, pci_fdt, next, logged>>

\* External: load_linux copies the tree and the guest runs.
GuestRuns ==
  /\ stage = "dtb" /\ todo = {}
  /\ stage' = "running"
  /\ UNCHANGED <<vars, conf, mapped, proxies, early, treeVars>>

---------------------------------------------------------------------------

\* The device VM registers devices and starts the guest at any time.
Announces ==
  /\ \/ (\E b \in BackendSlots : SendRegister(b)) /\ UNCHANGED early
     \/ SendStart /\ early' = known
  /\ UNCHANGED <<conf, stage, mapped, proxies, treeVars>>

\* rpc_run: by the main thread in io_proxy_run, by the notification thread
\* from then on.
RpcRun(t) == stage \notin {"ram", "halted"} /\ proxies > 0 /\ Run(t) /\ UNCHANGED guestVars

MainStep ==
  \/ init_ram_module \/ IoProxyInit \/ Backend \/ BackendUp \/ ProxiesUp
  \/ guest_configure \/ GeneratePools
  \/ GeneratePciTest \/ GeneratePciNode \/ GeneratePciDone
  \/ fdt_plat_customize \/ GuestRuns

BootNext ==
  \/ ~failed /\ Announces
  \/ \E t \in Threads : RpcRun(t)
  \/ ~failed /\ MainStep

\* Both threads run; nobody makes the device VM announce anything.
BootSpec ==
  /\ BootInit /\ [][BootNext]_bootVars
  /\ WF_bootVars(RpcRun("main") \/ (~failed /\ MainStep))
  /\ WF_bootVars(RpcRun("ntfn"))

---------------------------------------------------------------------------
(* Properties *)

Stages == {"ram", "proxy", "backend", "dtb", "pools", "pci", "node",
           "running", "halted"}

\* Every variable keeps its range, and the tree has one PCI node for each entry
\* read: never more than devices are counted, unless overlapping registrations
\* have lost count.
BootTypeOK ==
  /\ conf \in Confs /\ stage \in Stages /\ mapped \subseteq Dataports \cup {conf.ram}
  /\ proxies \in 0 .. Len(conf.pools) /\ early \subseteq known
  /\ todo \subseteq {"guest_config", "fdt_plat_customize"}
  /\ generated \subseteq DOMAIN conf.nodes
  /\ {usb_fdt, logged} \subseteq BOOLEAN
  /\ next \in 0 .. MaxDevs /\ Len(pci_fdt) = next
  /\ ~overlapped => next <= pci_dev_count

Complete == {"reserved-memory", "pci"} \subseteq conf.parents

\* The guest's tree has exactly one node for every device the device VM
\* registered before it started the guest, although the notification thread
\* changes the count and the table while the main thread reads them; only when
\* both threads had an event in hand at once can a device miss.
DevicesInTree ==
  stage = "running" /\ conf.dtb /\ Complete /\ ~overlapped =>
    \A b \in early :
      Cardinality({i \in DOMAIN pci_fdt : pci_fdt[i].slot = pcidev(b).slot}) = 1

\* DMA of a PCI device goes where the device VM can see it: either guest RAM
\* is the shared memory, or the memory-region of the device's node is a
\* phandle that names the pool of its own I/O proxy and nothing else, and that
\* pool is memory mapped from the dataport.
PciUsesOwnPool ==
  \A i \in DOMAIN pci_fdt :
    LET own == conf.pools[1] IN
    \/ own = conf.ram /\ pci_fdt[i].region = 0
    \/ /\ pci_fdt[i].region > MaxPhandle
       /\ {n.at : n \in {m \in reserved_fdt : m.phandle = pci_fdt[i].region}} = {own}
       /\ own \in mapped

\* When the guest runs, guest RAM and every region its tree reserves are
\* mapped, and no frame is mapped twice.
MemoryBacked ==
  stage = "running" =>
    /\ \A r \in {conf.ram} \cup {n.at : n \in reserved_fdt} :
         Frames(r) \subseteq UNION {Frames(s) : s \in mapped}
    /\ \A r, s \in mapped : r # s => ~Overlap(r, s)

\* One backend, whose dataport contains guest RAM or is apart from it.
Bootable ==
  /\ Len(conf.pools) = 1
  /\ Frames(conf.ram) \cap Frames(conf.pools[1]) \in {{}, Frames(conf.ram)}

\* When the device VM says it has started, at whatever stage of the boot, a
\* VM with one backend gets past io_proxy_wait_for_backend and runs, whichever
\* thread handles QEMU_OP_START_VM.  It may only halt on an entry that is still
\* NULL, which takes a device registered after the start or two events handled
\* at once.
Boots ==
  started /\ Bootable ~>
    \/ stage = "running" \/ failed
    \/ stage = "halted" /\ (overlapped \/ known # early)
==============================================================================
