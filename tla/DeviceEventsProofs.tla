-------------------------- MODULE DeviceEventsProofs --------------------------
(***************************************************************************)
(* Proofs about the device events: for every set of devices, interrupts    *)
(* and regions, every queue length and every interleaving of the steps of  *)
(* the two threads that may run rpc_run.                                   *)
(***************************************************************************)
EXTENDS DeviceEventsLemmas

---------------------------------------------------------------------------
(* The device VM sends *)

\* What the device VM does to its own state as it sends x.
Tracks(x) ==
  /\ x.op \in {"register", "set_irq", "assign", "free", "start"}
  /\ x.arg \in {0} \cup BackendSlots \cup EmuIrqs \cup MsiIrqs \cup Regions
  /\ x.irqop \in {"none", "set", "clr", "pulse"} /\ Good(x)
  /\ known' \subseteq BackendSlots /\ claimed' \subseteq Regions /\ started' \in BOOLEAN
  /\ wire' \in [BackendSlots \cup EmuIrqs -> BOOLEAN] /\ msis' \in [MsiIrqs -> Nat]
  /\ \A i \in MsiIrqs : msis'[i] = IF IsRaise(x, i) THEN msis[i] + 1 ELSE msis[i]
  /\ IF x.op = "start" THEN ~started /\ started' = TRUE ELSE started' = started
  /\ IF x.op = "register" THEN x.arg \notin known /\ known' = known \cup {x.arg}
                          ELSE known' = known
  /\ \A k \in BackendSlots \cup EmuIrqs :
       wire'[k] = IF IsIrq(x, k) THEN x.irqop = "set" ELSE wire[k]
  /\ x.op = "set_irq" /\ x.arg \in BackendSlots => x.arg \in known
  /\ \A r \in Regions :
       /\ r \in claimed' <=> IF IsRegion(x, r) THEN x.op = "assign" ELSE r \in claimed
       /\ IsRegion(x, r) => (x.op = "assign" <=> r \notin claimed)

\* An event the device VM sends keeps the invariant.
LEMMA SendKeeps ==
  ASSUME EventInv, NEW op, NEW arg, NEW irqop, Send(op, arg, irqop),
         NEW x, x = [n |-> sent + 1, op |-> op, arg |-> arg, irqop |-> irqop], Tracks(x)
  PROVE  EventInv'
<1> USE DEF Tracks
<1>1. TypeOK /\ OrderOK /\ PendOK /\ PcOK /\ MsisOK /\ StartsOK /\ (~overlapped => SeqInv)
  BY DEF EventInv
<1>2. /\ Pend' = Pend \cup {x} /\ x \notin Pend /\ OrderOK' /\ x \in Events
      /\ sent \in Nat /\ sent' = sent + 1 /\ sent' \in 0 .. MaxEvents
      /\ queue' \in Seq(Events) /\ Len(queue') <= QueueSize
      /\ \A e \in Pend : e.n < x.n /\ e.n \in Nat
  <2>1. /\ op \in {"register", "set_irq", "assign", "free", "start"}
        /\ arg \in {0} \cup BackendSlots \cup EmuIrqs \cup MsiIrqs \cup Regions
        /\ irqop \in {"none", "set", "clr", "pulse"}
    OBVIOUS
  <2> QED
    BY <1>1, <2>1, SendPend
<1>3. /\ UNCHANGED <<hand, pc, at, dev, saved, clearing, boot, ok_to_run, sem, pci_devs,
                     pci_dev_count, bus, intx, irqs, regions, reserved, level, pulses,
                     overlapped, failed>>
      /\ UNCHANGED <<runVars, pciVars, listVars, gicVars>>
  BY DEF Send, runVars, locals, shared, pciVars, listVars, gicVars
<1>4. x.n = sent + 1 /\ x.n \in Nat
  BY <1>2
<1>5. PendOK'
  BY <1>1, <1>2, <1>4, PendAdd
<1>6. PcOK'
  BY <1>1, <1>3 DEF PcOK, PcAt
<1>7. MsisOK' /\ (EdgesOK => EdgesOK')
  BY <1>1, <1>2, <1>3, MsisAdd
<1>8. StartsOK'
  BY <1>1, <1>2, <1>3, StartsAdd
<1>9. TypeOK'
  <2>1. msis' \in [MsiIrqs -> 0 .. MaxEvents]
    <3>1. \A i \in MsiIrqs : msis'[i] \in Nat /\ msis'[i] <= sent'
      BY <1>7 DEF MsisOK
    <3>2. \A i \in MsiIrqs : msis'[i] \in 0 .. MaxEvents
      BY <1>2, <3>1, EventAssumption
    <3> QED
      BY <3>2
  <2>2. SendType'
    BY <1>2, <2>1 DEF SendType
  <2> QED
    BY <1>1, <1>3, <2>2, TypeParts, TypePartsNext, TypeSame
<1>10. ASSUME ~overlapped PROVE SeqInv'
  <2>1. /\ ~failed /\ OneBusy /\ EdgesOK /\ TableOK /\ RegisterOK /\ KnownOK /\ FindOK
        /\ IntxOK /\ LinesOK /\ RegionsOK /\ ListsOK
    BY <1>1, <1>10 DEF SeqInv
  <2>2. Listed' = Listed /\ known \subseteq known'
    BY <1>3 DEF Listed
  <2>3. /\ \A b : Registered(b)' = Registered(b)
        /\ \A s : Taken(s)' = Taken(s)
        /\ \A b : On(b)' = On(b)
    BY <1>3, <2>2, TableSame
  <2>4. \A b : Registered(b) => b \in known
    BY <2>1 DEF TableOK, Registered
  <2>5. KnownOK'
    BY <1>2, <2>1, <2>3, <2>4, KnownAdd
  <2>6. TableOK'
    <3>1. \A s \in bus' : \/ Taken(s)'
                          \/ \E u \in Threads : /\ pc'[u] \in {"count", "publish", "put_count", "put_dev"}
                                                /\ dev'[u] = s
      BY <1>3, <2>1, <2>3 DEF TableOK
    <3> QED
      BY <1>3, <2>1, <2>2, <3>1 DEF TableOK
  <2>7. RegisterOK'
    BY <1>3, <2>1, <2>3 DEF RegisterOK
  <2>8. FindOK'
    BY <1>3, <2>1, <2>2 DEF FindOK
  <2>9. IntxOK'
    <3>1. \A u \in Threads : Pin(u)' = Pin(u) /\ Active(u)' = Active(u)
      BY <1>3 DEF Pin, Active
    <3> QED
      BY <1>3, <2>1, <2>3, <3>1 DEF IntxOK
  <2>10. LinesOK'
    <3>1. \A k \in BackendSlots \cup EmuIrqs : Current(k)' = Current(k)
      BY <1>3, <2>3 DEF Current
    <3>2. x.op = "set_irq" /\ x.arg \in BackendSlots =>
            Registered(x.arg) \/ \E f \in Pend : f.op = "register" /\ f.arg = x.arg
      BY <2>1 DEF KnownOK
    <3> QED
      BY <1>2, <1>4, <2>1, <2>3, <3>1, <3>2, LinesAdd
  <2>11. Kept' = Kept
    BY <1>3 DEF Kept, Assigning
  <2>12. RegionsOK'
    BY <1>2, <1>4, <2>1, <2>11, RegionsAdd
  <2>13. ListsOK'
    <3>1. \A u \in Threads : Assigning(u)' = Assigning(u)
      BY <1>3 DEF Assigning
    <3> QED
      BY <1>3, <2>1, <2>11, <3>1 DEF ListsOK
  <2>14. ~failed' /\ OneBusy' /\ EdgesOK'
    BY <1>3, <1>7, <2>1 DEF OneBusy
  <2> QED
    BY <2>5, <2>6, <2>7, <2>8, <2>9, <2>10, <2>12, <2>13, <2>14 DEF SeqInv
<1> QED
  BY <1>2, <1>3, <1>5, <1>6, <1>7, <1>8, <1>9, <1>10 DEF EventInv

\* rpc_req_pci_device_add
LEMMA SendRegisterKeeps ==
  ASSUME EventInv, ~failed, NEW b \in BackendSlots, SendRegister(b)
  PROVE  EventInv'
<1> PICK x : x = [n |-> sent + 1, op |-> "register", arg |-> b, irqop |-> "none"]
  OBVIOUS
<1>1. /\ b \notin known /\ Send("register", b, "none") /\ known' = known \cup {b}
      /\ UNCHANGED <<wire, msis, claimed, started>>
  BY DEF SendRegister
<1>2. /\ known \subseteq BackendSlots /\ claimed \subseteq Regions /\ started \in BOOLEAN
      /\ wire \in [BackendSlots \cup EmuIrqs -> BOOLEAN] /\ msis \in [MsiIrqs -> Nat]
  BY EventAssumption DEF EventInv, TypeOK
<1>3. x.op = "register" /\ x.arg = b /\ Good(x)
  BY DEF Good
<1>4. \A k : ~IsIrq(x, k) /\ ~IsRegion(x, k) /\ ~IsRaise(x, k)
  BY <1>3 DEF IsIrq, IsRegion, IsRaise
<1>5. Tracks(x)
  BY <1>1, <1>2, <1>3, <1>4 DEF Tracks
<1> QED
  BY <1>1, <1>5, SendKeeps

\* An interrupt is set, cleared or pulsed.
LEMMA SendIrqKeeps ==
  ASSUME EventInv, ~failed, NEW i \in BackendSlots \cup EmuIrqs \cup MsiIrqs,
         NEW o \in {"set", "clr", "pulse"}, SendIrq(i, o)
  PROVE  EventInv'
<1> PICK x : x = [n |-> sent + 1, op |-> "set_irq", arg |-> i, irqop |-> o]
  OBVIOUS
<1>1. /\ i \in known \cup EmuIrqs \cup MsiIrqs /\ Send("set_irq", i, o)
      /\ wire' = [j \in DOMAIN wire |-> IF j = i THEN o = "set" ELSE wire[j]]
      /\ msis' = [j \in MsiIrqs |-> IF j = i /\ o # "clr" THEN msis[j] + 1 ELSE msis[j]]
      /\ UNCHANGED <<known, claimed, started>>
  BY DEF SendIrq
<1>2. /\ known \subseteq BackendSlots /\ claimed \subseteq Regions /\ started \in BOOLEAN
      /\ wire \in [BackendSlots \cup EmuIrqs -> BOOLEAN] /\ msis \in [MsiIrqs -> Nat]
  BY EventAssumption DEF EventInv, TypeOK
<1>3. x.op = "set_irq" /\ x.arg = i /\ x.irqop = o /\ Good(x)
  BY DEF Good
<1>4. \A k : ~IsRegion(x, k) /\ (IsIrq(x, k) <=> k = i) /\ (IsRaise(x, k) <=> k = i /\ o # "clr")
  BY <1>3 DEF IsIrq, IsRegion, IsRaise
<1>5. wire' \in [BackendSlots \cup EmuIrqs -> BOOLEAN] /\ msis' \in [MsiIrqs -> Nat]
  <2>1. DOMAIN wire = BackendSlots \cup EmuIrqs
    BY <1>2
  <2>2. wire' \in [BackendSlots \cup EmuIrqs -> BOOLEAN]
    BY <1>1, <1>2, <2>1
  <2>3. msis' \in [MsiIrqs -> Nat]
    BY <1>1, <1>2
  <2> QED
    BY <2>2, <2>3
<1>6. /\ \A j \in MsiIrqs : msis'[j] = IF IsRaise(x, j) THEN msis[j] + 1 ELSE msis[j]
      /\ \A k \in BackendSlots \cup EmuIrqs : wire'[k] = IF IsIrq(x, k) THEN x.irqop = "set" ELSE wire[k]
  BY <1>1, <1>2, <1>3, <1>4
<1>7. x.arg \in BackendSlots => x.arg \in known
  BY <1>1, <1>3, Kinds
<1>8. x.irqop \in {"none", "set", "clr", "pulse"}
  BY <1>3
<1>9. Tracks(x)
  BY <1>1, <1>2, <1>3, <1>4, <1>5, <1>6, <1>7, <1>8 DEF Tracks
<1> QED
  BY <1>1, <1>9, SendKeeps

\* A region is configured or freed.
LEMMA SendRegionKeeps ==
  ASSUME EventInv, ~failed, NEW r \in Regions, NEW f \in BOOLEAN, SendRegion(r, f)
  PROVE  EventInv'
<1> PICK o : o = IF f THEN "free" ELSE "assign"
  OBVIOUS
<1> PICK x : x = [n |-> sent + 1, op |-> o, arg |-> r, irqop |-> "none"]
  OBVIOUS
<1>1. /\ (f <=> r \in claimed) /\ Send(o, r, "none")
      /\ claimed' = IF f THEN claimed \ {r} ELSE claimed \cup {r}
      /\ UNCHANGED <<known, wire, msis, started>>
  BY DEF SendRegion
<1>2. /\ known \subseteq BackendSlots /\ claimed \subseteq Regions /\ started \in BOOLEAN
      /\ wire \in [BackendSlots \cup EmuIrqs -> BOOLEAN] /\ msis \in [MsiIrqs -> Nat]
  BY EventAssumption DEF EventInv, TypeOK
<1>3. /\ o \in {"assign", "free"} /\ x.op = o /\ x.arg = r /\ Good(x)
      /\ o # "start" /\ o # "register" /\ o # "set_irq"
      /\ (o = "assign" <=> ~f)
  BY DEF Good
<1>4. \A k : (IsRegion(x, k) <=> k = r) /\ ~IsIrq(x, k) /\ ~IsRaise(x, k)
  BY <1>3 DEF IsIrq, IsRegion, IsRaise
<1>5. Tracks(x)
  BY <1>1, <1>2, <1>3, <1>4 DEF Tracks
<1> QED
  BY <1>1, <1>5, SendKeeps

\* rpc_req_start_vm
LEMMA SendStartKeeps ==
  ASSUME EventInv, ~failed, SendStart
  PROVE  EventInv'
<1> PICK x : x = [n |-> sent + 1, op |-> "start", arg |-> 0, irqop |-> "none"]
  OBVIOUS
<1>1. /\ ~started /\ Send("start", 0, "none") /\ started' = TRUE
      /\ UNCHANGED <<known, wire, msis, claimed>>
  BY DEF SendStart
<1>2. /\ known \subseteq BackendSlots /\ claimed \subseteq Regions /\ started \in BOOLEAN
      /\ wire \in [BackendSlots \cup EmuIrqs -> BOOLEAN] /\ msis \in [MsiIrqs -> Nat]
  BY EventAssumption DEF EventInv, TypeOK
<1>3. x.op = "start" /\ x.arg = 0 /\ Good(x)
  BY DEF Good
<1>4. \A k : ~IsIrq(x, k) /\ ~IsRegion(x, k) /\ ~IsRaise(x, k)
  BY <1>3 DEF IsIrq, IsRegion, IsRaise
<1>5. Tracks(x)
  BY <1>1, <1>2, <1>3, <1>4 DEF Tracks
<1> QED
  BY <1>1, <1>5, SendKeeps

---------------------------------------------------------------------------
(* The steps of rpc_run in general *)

\* rpc_process gives an event to the callback it is for.
LEMMA EntryFacts ==
  ASSUME NEW e \in Events, Good(e)
  PROVE  /\ Entry(e) \in {"msi", "find", "line", "check", "reserve", "search", "ok"}
         /\ Entry(e) = "msi" => IrqFor(e, MsiIrqs)
         /\ Entry(e) = "find" => IrqFor(e, BackendSlots)
         /\ Entry(e) = "line" => IrqFor(e, EmuIrqs)
         /\ Entry(e) = "check" => e.op = "register"
         /\ Entry(e) = "reserve" => e.op = "assign"
         /\ Entry(e) = "search" => e.op = "free"
         /\ Entry(e) = "ok" => e.op = "start"
<1>1. e.op \in {"register", "set_irq", "assign", "free", "start"}
  BY DEF Events, Good
<1>2. CASE e.op = "set_irq"
  <2>1. e.arg \in BackendSlots \cup EmuIrqs \cup MsiIrqs
    BY <1>2 DEF Good
  <2>2. CASE e.arg \in MsiIrqs
    <3>1. v2m_irq_valid(e.arg)
      BY <2>2, Kinds
    <3>2. Entry(e) = "msi"
      BY <1>2, <3>1 DEF Entry
    <3> QED
      BY <1>2, <2>2, <3>2 DEF IrqFor
  <2>3. CASE e.arg \in BackendSlots
    <3>1. ~v2m_irq_valid(e.arg) /\ irq_is_pci(e.arg)
      BY <2>3, Kinds
    <3>2. Entry(e) = "find"
      BY <1>2, <3>1 DEF Entry
    <3> QED
      BY <1>2, <2>3, <3>2 DEF IrqFor
  <2>4. CASE e.arg \in EmuIrqs
    <3>1. ~v2m_irq_valid(e.arg) /\ ~irq_is_pci(e.arg)
      BY <2>4, Kinds
    <3>2. Entry(e) = "line"
      BY <1>2, <3>1 DEF Entry
    <3> QED
      BY <1>2, <2>4, <3>2 DEF IrqFor
  <2> QED
    BY <2>1, <2>2, <2>3, <2>4
<1>3. CASE e.op = "register"
  <2>1. Entry(e) = "check"
    BY <1>3 DEF Entry
  <2> QED
    BY <1>3, <2>1
<1>4. CASE e.op = "assign"
  <2>1. Entry(e) = "reserve"
    BY <1>4 DEF Entry
  <2> QED
    BY <1>4, <2>1
<1>5. CASE e.op = "free"
  <2>1. Entry(e) = "search"
    BY <1>5 DEF Entry
  <2> QED
    BY <1>5, <2>1
<1>6. CASE e.op = "start"
  <2>1. Entry(e) = "ok"
    BY <1>6 DEF Entry
  <2> QED
    BY <1>6, <2>1
<1> QED
  BY <1>1, <1>2, <1>3, <1>4, <1>5, <1>6

\* rpcmsg_event_rx
LEMMA EventRxKeeps ==
  ASSUME EventInv, NEW t \in Threads, EventRx(t)
  PROVE  EventInv'
<1> PICK h : h = Head(queue)
  OBVIOUS
<1>1. TypeOK /\ OrderOK /\ PendOK /\ PcOK /\ MsisOK /\ StartsOK /\ (~overlapped => SeqInv)
  BY DEF EventInv
<1>2. /\ Pend' = Pend /\ OrderOK' /\ h \in Pend /\ h # NoEvent /\ hand' \in [Threads -> Events]
      /\ queue' \in Seq(Events) /\ Len(queue') <= QueueSize
  BY <1>1, RxPend
<1>3. /\ pc[t] = "idle" /\ hand' = [hand EXCEPT ![t] = h] /\ pc' = [pc EXCEPT ![t] = Entry(h)]
      /\ overlapped' = (overlapped \/ \E u \in Threads \ {t} : pc[u] # "idle")
      /\ UNCHANGED <<sent, known, wire, msis, claimed, started, at, dev, saved, clearing, boot,
                     ok_to_run, sem, pci_devs, pci_dev_count, bus, intx, irqs, regions,
                     reserved, level, pulses, failed>>
      /\ UNCHANGED <<pciVars, listVars, gicVars>>
  BY DEF EventRx, devVars, locals, shared, pciVars, listVars, gicVars
<1>4. h \in Events /\ Good(h)
  BY <1>1, <1>2, PendFacts DEF PendOK
<1> PICK l : l = Entry(h)
  OBVIOUS
<1>5. /\ l \in {"msi", "find", "line", "check", "reserve", "search", "ok"}
      /\ l = "msi" => IrqFor(h, MsiIrqs)
      /\ l = "find" => IrqFor(h, BackendSlots)
      /\ l = "line" => IrqFor(h, EmuIrqs)
      /\ l = "check" => h.op = "register"
      /\ l = "reserve" => h.op = "assign"
      /\ l = "search" => h.op = "free"
      /\ l = "ok" => h.op = "start"
  BY <1>4, EntryFacts
<1>6. /\ hand'[t] = h /\ pc'[t] = l /\ at'[t] = 0 /\ ~clearing'[t]
      /\ \A u \in Threads : u # t => hand'[u] = hand[u] /\ pc'[u] = pc[u]
  BY <1>1, <1>3 DEF TypeOK, PcOK, PcAt
<1>7. PendOK'
  BY <1>1, <1>2, <1>3 DEF PendOK
<1>8. PcOK'
  <2>1. PcAt(t)'
    BY <1>2, <1>5, <1>6 DEF PcAt, IntxSteps, LineSteps, AppendSteps, RegisterSteps, FreeSteps, SlotSteps
  <2>2. Others(t)
    BY <1>3, <1>6 DEF Others
  <2> QED
    BY <1>1, <2>1, <2>2, PcGoto
<1>9. \A i : Unrisen(i)' = Unrisen(i)
  <2>1. \A u \in Threads : (pc[u] = "fall" <=> pc'[u] = "fall") /\ (pc[u] = "fall" => hand'[u] = hand[u])
    BY <1>3, <1>5, <1>6
  <2> QED
    BY <1>2, <2>1, UnrisenSame
<1>10. MsisOK'
  BY <1>1, <1>3, <1>9, MsisSame
<1>11. StartsOK'
  BY <1>1, <1>2, <1>3, StartsSame
<1>12. TypeOK'
  <2>1. SendType'
    BY <1>1, <1>2, <1>3, TypeParts DEF SendType
  <2>2. RunType'
    <3>1. pc' \in [Threads -> Places]
      BY <1>1, <1>3, <1>5, TypeParts DEF RunType, Places
    <3> QED
      BY <1>1, <1>2, <1>3, <3>1, TypeParts DEF RunType
  <2>3. ListType' /\ ControlType'
    <3>1. overlapped' \in BOOLEAN /\ (~overlapped' => ~overlapped)
      BY <1>1, <1>3, TypeParts DEF ControlType
    <3>2. IsInjective(irqs)' = IsInjective(irqs)
      BY <1>3 DEF IsInjective
    <3> QED
      BY <1>1, <1>3, <3>1, <3>2, TypeParts DEF ControlType, ListType
  <2> QED
    BY <1>1, <1>3, <2>1, <2>2, <2>3, TypeParts, TypePartsNext, TypeSame
<1>13. ASSUME ~overlapped' PROVE SeqInv'
  <2>1. ~overlapped /\ \A u \in Threads : u # t => pc[u] = "idle"
    BY <1>3, <1>13
  <2>2. /\ ~failed /\ EdgesOK /\ TableOK /\ RegisterOK /\ KnownOK /\ FindOK
        /\ IntxOK /\ LinesOK /\ RegionsOK /\ ListsOK
    BY <1>1, <2>1 DEF SeqInv
  <2>3. Solo(t)
    BY <1>1, <1>3, <1>6, <2>1 DEF Solo, PcOK, PcAt
  <2>4. /\ pc[t] \notin PciBusy /\ pc'[t] \notin PciBusy
        /\ pc[t] \notin ListBusy /\ pc'[t] \notin ListBusy
    BY <1>3, <1>5, <1>6 DEF PciBusy, ListBusy
  <2>5. \A j \in Listed : ~(j < at'[t])
    <3>1. \A j \in Listed : j \in Nat
      BY <1>1, <2>2, Entries
    <3> QED
      BY <1>6, <3>1
  <2>6. /\ TableOK' /\ RegisterOK' /\ FindOK' /\ IntxOK'
        /\ \A b : Registered(b)' = Registered(b)
        /\ \A b : On(b)' = On(b)
    BY <1>3, <1>6, <2>2, <2>3, <2>4, <2>5, PciFrame
  <2>7. ListsOK' /\ Kept' = Kept
    BY <1>3, <2>2, <2>3, <2>4, ListsFrame
  <2>8. KnownOK'
    BY <1>2, <1>3, <2>2, <2>6, KnownSame
  <2>9. LinesOK'
    <3>1. \A k \in BackendSlots \cup EmuIrqs : Current(k)' = Current(k)
      BY <1>3, <2>6 DEF Current
    <3> QED
      BY <1>2, <1>3, <2>2, <2>6, <3>1, LinesMid
  <2>10. RegionsOK'
    BY <1>2, <1>3, <2>2, <2>7, RegionsMid
  <2>11. EdgesOK'
    <3>1. \A i \in MsiIrqs : level'[i] => \E u \in Threads : pc'[u] = "fall" /\ hand'[u].arg = i
      BY <1>3, <1>6, <2>2 DEF EdgesOK
    <3> QED
      BY <1>1, <1>3, <1>9, <2>2, <3>1, MsisSame
  <2>12. OneBusy'
    BY <2>3 DEF OneBusy, Solo
  <2> QED
    BY <1>3, <2>2, <2>6, <2>7, <2>8, <2>9, <2>10, <2>11, <2>12 DEF SeqInv
<1> QED
  BY <1>2, <1>7, <1>8, <1>10, <1>11, <1>12, <1>13 DEF EventInv

\* Without overlap the other thread does nothing during a step of a handler.
LEMMA Alone ==
  ASSUME EventInv, ~overlapped, NEW t \in Threads, pc[t] # "idle", Others(t)
  PROVE  /\ Solo(t) /\ Oldest(hand[t], Pend) /\ SeqInv
         /\ \A u \in Threads : u # t => pc[u] = "idle" /\ pc'[u] = "idle"
<1>1. TypeOK /\ OrderOK /\ PendOK /\ PcOK /\ SeqInv /\ OneBusy
  BY DEF EventInv, SeqInv
<1>2. /\ Oldest(hand[t], Pend)
      /\ \A u \in Threads : u # t => pc[u] = "idle" /\ ~clearing[u]
  BY <1>1, InHand
<1> QED
  BY <1>1, <1>2 DEF Solo, Others

\* An error stops the VMM.  It must not happen without overlap.
LEMMA FailKeeps ==
  ASSUME EventInv, InHandler, Fail, overlapped
  PROVE  EventInv'
<1>1. /\ UNCHANGED <<queue, devVars, boot, overlapped, runVars, shared>> /\ failed' = TRUE
      /\ UNCHANGED <<queue, sent, known, wire, msis, claimed, started, hand, pc, at, dev, saved,
                     clearing, boot, ok_to_run, sem, pci_devs, pci_dev_count, bus, intx, irqs,
                     regions, reserved, level, pulses, overlapped>>
      /\ UNCHANGED <<pciVars, listVars, gicVars>>
  BY DEF InHandler, Fail, devVars, runVars, locals, shared, pciVars, listVars, gicVars
<1>2. TypeOK /\ OrderOK /\ PendOK /\ PcOK /\ MsisOK /\ StartsOK
  BY DEF EventInv
<1>3. Pend' = Pend
  BY <1>1 DEF Pend, ToSet
<1>4. OrderOK' /\ PendOK' /\ PcOK'
  BY <1>1, <1>2, <1>3 DEF OrderOK, PendOK, PcOK, PcAt
<1>5. \A i : Unrisen(i)' = Unrisen(i)
  BY <1>1, <1>3, UnrisenSame
<1>6. MsisOK'
  BY <1>1, <1>2, <1>5, MsisSame
<1>7. StartsOK'
  BY <1>1, <1>2, <1>3, StartsSame
<1>8. TypeOK'
  <2>1. ControlType'
    BY <1>1, <1>2, TypeParts DEF ControlType
  <2> QED
    BY <1>1, <1>2, <2>1, TypeParts, TypePartsNext, TypeSame
<1> QED
  BY <1>1, <1>4, <1>6, <1>7, <1>8 DEF EventInv

\* What a step inside a handler has to show.
LEMMA GotoStep ==
  ASSUME EventInv, NEW t \in Threads, NEW l, InHandler, Goto(t, l),
         pc[t] \notin {"idle", "fall"}, l \notin {"idle", "fall"}, Others(t),
         TypeOK', PcAt(t)', sem' = sem,
         \A i \in MsiIrqs : pulses'[i] = pulses[i] /\ level'[i] = level[i],
         ~overlapped =>
           /\ TableOK' /\ RegisterOK' /\ FindOK' /\ IntxOK' /\ ListsOK' /\ Kept' = Kept
           /\ \A b : Registered(b)' = Registered(b)
           /\ \A k \in BackendSlots \cup EmuIrqs : IrqEvents(k) = {} => Current(k)' = Current(k)
  PROVE  EventInv'
<1>1. TypeOK /\ OrderOK /\ PendOK /\ PcOK /\ MsisOK /\ StartsOK /\ (~overlapped => SeqInv)
  BY DEF EventInv
<1>2. /\ Pend' = Pend /\ OrderOK' /\ PendOK' /\ hand' = hand /\ failed' = failed
      /\ pc'[t] = l /\ \A u \in Threads : u # t => pc'[u] = pc[u]
  BY <1>1, GotoFrame
<1>3. UNCHANGED <<sent, known, wire, msis, claimed, started, overlapped>>
  BY DEF InHandler, devVars
<1>4. PcOK'
  BY <1>1, PcGoto
<1>5. \A i : Unrisen(i)' = Unrisen(i)
  BY <1>2, UnrisenSame
<1>6. MsisOK'
  BY <1>1, <1>3, <1>5, MsisSame
<1>7. StartsOK'
  BY <1>1, <1>2, <1>3, StartsSame
<1>8. ASSUME ~overlapped PROVE SeqInv'
  <2>1. /\ ~failed /\ OneBusy /\ EdgesOK /\ KnownOK /\ LinesOK /\ RegionsOK
    BY <1>1, <1>8 DEF SeqInv
  <2>2. Solo(t)
    BY <1>8, Alone
  <2>3. KnownOK'
    BY <1>2, <1>3, <1>8, <2>1, KnownSame
  <2>4. LinesOK'
    BY <1>2, <1>3, <1>8, <2>1, LinesMid
  <2>5. RegionsOK'
    BY <1>2, <1>3, <1>8, <2>1, RegionsMid
  <2>6. EdgesOK'
    <3>1. \A i \in MsiIrqs : level'[i] => \E u \in Threads : pc'[u] = "fall" /\ hand'[u].arg = i
      BY <1>2, <2>1 DEF EdgesOK
    <3> QED
      BY <1>1, <1>3, <1>5, <2>1, <3>1, MsisSame
  <2>7. OneBusy'
    BY <2>2 DEF OneBusy, Solo
  <2> QED
    BY <1>2, <1>8, <2>1, <2>3, <2>4, <2>5, <2>6, <2>7 DEF SeqInv
<1> QED
  BY <1>2, <1>3, <1>4, <1>6, <1>7, <1>8 DEF EventInv

\* What the last step of a handler has to show.
LEMMA DoneStep ==
  ASSUME EventInv, NEW t \in Threads, InHandler, Done(t), pc[t] # "idle", TypeOK', StartsOK',
         \A i \in MsiIrqs : /\ pulses'[i] = pulses[i]
                            /\ level'[i] => level[i] /\ (pc[t] = "fall" => i # hand[t].arg)
                            /\ pc[t] = "fall" \/ ~IsRaise(hand[t], i),
         ~overlapped =>
           /\ TableOK' /\ RegisterOK' /\ FindOK' /\ IntxOK' /\ ListsOK' /\ KnownOK'
           /\ \A k \in BackendSlots \cup EmuIrqs :
                /\ ~IsIrq(hand[t], k) => Current(k)' = Current(k)
                /\ IsIrq(hand[t], k) => Current(k)' = (hand[t].irqop = "set")
           /\ \A b \in BackendSlots :
                Registered(b) \/ (hand[t].op = "register" /\ hand[t].arg = b) => Registered(b)'
           /\ \A r \in Regions : r \in Kept' <=> IF IsRegion(hand[t], r) THEN hand[t].op = "assign"
                                                                         ELSE r \in Kept
  PROVE  EventInv'
<1>1. TypeOK /\ OrderOK /\ PendOK /\ PcOK /\ MsisOK /\ StartsOK /\ (~overlapped => SeqInv)
  BY DEF EventInv
<1> PICK x : x = hand[t]
  OBVIOUS
<1>2. /\ Pend' = Pend \ {x} /\ x \in Pend /\ OrderOK' /\ PendOK' /\ failed' = failed
      /\ pc'[t] = "idle" /\ Others(t) /\ PcOK'
  BY <1>1, DoneFrame
<1>3. UNCHANGED <<sent, known, wire, msis, claimed, started, overlapped>>
  BY DEF InHandler, devVars
<1>4. \A i \in MsiIrqs : Unrisen(i)' = Unrisen(i)
  <2>1. \A u \in Threads : u # t => pc'[u] = pc[u] /\ hand'[u] = hand[u]
    BY <1>2 DEF Others
  <2> TAKE i \in MsiIrqs
  <2>2. pc[t] = "fall" \/ ~IsRaise(hand[t], i)
    OBVIOUS
  <2> QED
    BY <1>2, <2>1, <2>2, UnrisenDone
<1>5. MsisOK'
  BY <1>1, <1>3, <1>4, MsisSame
<1>6. ASSUME ~overlapped PROVE SeqInv'
  <2>1. /\ ~failed /\ OneBusy /\ EdgesOK /\ LinesOK /\ RegionsOK
    BY <1>1, <1>6 DEF SeqInv
  <2>2. /\ Solo(t) /\ Oldest(x, Pend)
        /\ \A u \in Threads : u # t => pc[u] = "idle" /\ pc'[u] = "idle"
    BY <1>2, <1>6, Alone
  <2>3. LinesOK'
    BY <1>2, <1>3, <1>6, <2>1, <2>2, LinesRemove
  <2>4. RegionsOK'
    BY <1>1, <1>2, <1>3, <1>6, <2>1, <2>2, PendFacts, RegionsRemove
  <2>5. EdgesOK'
    <3>1. \A i \in MsiIrqs : ~level'[i]
      <4> SUFFICES ASSUME NEW i \in MsiIrqs, level'[i] PROVE FALSE
        OBVIOUS
      <4>1. level[i] /\ (pc[t] = "fall" => i # hand[t].arg)
        OBVIOUS
      <4>2. PICK u \in Threads : pc[u] = "fall" /\ hand[u].arg = i
        BY <2>1, <4>1 DEF EdgesOK
      <4> QED
        BY <2>2, <4>1, <4>2
    <3> QED
      BY <1>1, <1>3, <1>4, <2>1, <3>1, MsisSame
  <2>6. OneBusy'
    BY <2>2 DEF OneBusy
  <2> QED
    BY <1>2, <1>6, <2>1, <2>3, <2>4, <2>5, <2>6 DEF SeqInv
<1> QED
  BY <1>2, <1>3, <1>5, <1>6 DEF EventInv

---------------------------------------------------------------------------
(* irq_line.c and handle_control *)

\* irq_line_pulse, first call: an event for the line is no longer to rise.
LEMMA RiseKeeps ==
  ASSUME EventInv, NEW t \in Threads, InHandler, Rise(t),
         \/ pc[t] = "msi" /\ hand[t].irqop # "clr"
         \/ pc[t] = "set" /\ hand[t].irqop = "pulse"
  PROVE  EventInv'
<1> PICK i : i = hand[t].arg
  OBVIOUS
<1> PICK x : x = hand[t]
  OBVIOUS
<1>1. TypeOK /\ OrderOK /\ PendOK /\ PcOK /\ MsisOK /\ StartsOK /\ (~overlapped => SeqInv)
  BY DEF EventInv
<1>2. /\ level' = [level EXCEPT ![i] = TRUE] /\ Goto(t, "fall")
      /\ pulses' = [j \in MsiIrqs |-> IF j = i /\ ~level[i] THEN pulses[j] + 1 ELSE pulses[j]]
      /\ UNCHANGED <<at, dev, saved, clearing, ok_to_run, sem, intx>>
      /\ UNCHANGED <<pciVars, listVars, sent, known, wire, msis, claimed, started, overlapped, boot>>
  BY DEF Rise, SetLevel, InHandler, devVars, locals
<1>3. /\ Pend' = Pend /\ OrderOK' /\ PendOK' /\ SendType' /\ hand' = hand /\ failed' = failed
      /\ pc'[t] = "fall" /\ \A u \in Threads : u # t => pc'[u] = pc[u]
      /\ pc' \in [Threads -> Places]
  BY <1>1, <1>2, GotoFrame DEF Places
<1>4. Others(t)
  BY <1>2, <1>3 DEF Others
<1>5. /\ pc[t] # "fall" /\ pc[t] # "idle" /\ x.op = "set_irq" /\ x.arg = i /\ x.irqop # "clr"
      /\ i \in MsiIrqs \cup EmuIrqs /\ (i \in EmuIrqs => x.irqop = "pulse")
  BY <1>1, Kinds DEF PcOK, PcAt, IrqFor, LineSteps
<1>6. x \in Pend /\ \A u \in Threads : pc[u] = "fall" => hand[u] # x
  <2>1. x \in Pend /\ x # NoEvent
    BY <1>1, <1>5 DEF Pend, PcOK, PcAt
  <2>2. \A u \in Threads : u # t /\ hand[u] = x => FALSE
    BY <1>1, <2>1 DEF OrderOK, Threads
  <2> QED
    BY <1>5, <2>1, <2>2
<1>7. PcOK'
  <2>1. PcAt(t)'
    <3>1. PcAt(t)
      BY <1>1 DEF PcOK
    <3> QED
      BY <1>2, <1>3, <1>5, <3>1 DEF PcAt, IrqFor, IntxSteps, LineSteps, AppendSteps, RegisterSteps, FreeSteps, SlotSteps
  <2> QED
    BY <1>1, <1>4, <2>1, PcGoto
<1>8. \A j \in MsiIrqs : /\ j = i => Unrisen(j)' = Unrisen(j) \ {x} /\ x \in Unrisen(j)
                         /\ j # i => Unrisen(j)' = Unrisen(j)
  <2> SUFFICES ASSUME NEW j \in MsiIrqs
               PROVE  /\ j = i => Unrisen(j)' = Unrisen(j) \ {x} /\ x \in Unrisen(j)
                      /\ j # i => Unrisen(j)' = Unrisen(j)
    OBVIOUS
  <2>1. \A e : (\A u \in Threads : pc'[u] = "fall" => e # hand'[u])
                 <=> e # x /\ \A u \in Threads : pc[u] = "fall" => e # hand[u]
    BY <1>3, <1>5
  <2> QED
    BY <1>3, <1>5, <1>6, <2>1 DEF Unrisen
<1>9. /\ \A j : Cardinality(Unrisen(j)) \in Nat
      /\ \A j \in MsiIrqs : j = i => Cardinality(Unrisen(j)') = Cardinality(Unrisen(j)) - 1
  <2>1. \A j : IsFiniteSet(Unrisen(j)) /\ Cardinality(Unrisen(j)) \in Nat
    BY <1>1, CountedFinite
  <2> QED
    BY <1>8, <2>1, FS_RemoveElement
<1>10. /\ \A j \in MsiIrqs : pulses[j] \in Nat /\ msis[j] \in Nat /\ level[j] \in BOOLEAN
       /\ i \in AllIrqs /\ sent \in Nat
  BY <1>1, <1>5, EventAssumption, Kinds DEF TypeOK
<1>11. /\ \A j \in MsiIrqs : pulses'[j] = IF j = i /\ ~level[i] THEN pulses[j] + 1 ELSE pulses[j]
       /\ \A j \in AllIrqs : level'[j] = IF j = i THEN TRUE ELSE level[j]
  BY <1>1, <1>2 DEF TypeOK
<1>12. MsisOK'
  <2> SUFFICES ASSUME NEW j \in MsiIrqs
               PROVE  /\ pulses'[j] + Cardinality(Unrisen(j)') <= msis'[j] /\ msis'[j] <= sent'
                      /\ msis'[j] > 0 => pulses'[j] > 0 \/ Unrisen(j)' # {}
                      /\ level'[j] => pulses'[j] > 0
    BY DEF MsisOK
  <2>1. /\ pulses[j] + Cardinality(Unrisen(j)) <= msis[j] /\ msis[j] <= sent
        /\ msis[j] > 0 => pulses[j] > 0 \/ Unrisen(j) # {}
        /\ level[j] => pulses[j] > 0
    BY <1>1 DEF MsisOK
  <2>2. CASE j = i
    <3>1. Cardinality(Unrisen(j)') = Cardinality(Unrisen(j)) - 1
      BY <1>9, <2>2
    <3>2. pulses'[j] > 0 /\ pulses'[j] <= pulses[j] + 1
      BY <1>10, <1>11, <2>1, <2>2
    <3> QED
      BY <1>2, <1>9, <1>10, <1>11, <2>1, <3>1, <3>2
  <2>3. CASE j # i
    <3>1. Unrisen(j)' = Unrisen(j) /\ pulses'[j] = pulses[j] /\ level'[j] = level[j]
      BY <1>8, <1>11, <2>3, Kinds
    <3> QED
      BY <1>2, <2>1, <3>1
  <2> QED
    BY <2>2, <2>3
<1>13. StartsOK'
  BY <1>1, <1>2, <1>3, StartsSame
<1>14. TypeOK'
  <2>1. RunType'
    BY <1>1, <1>2, <1>3, TypeParts DEF RunType
  <2>2. LineType'
    <3>1. level' \in [AllIrqs -> BOOLEAN]
      BY <1>1, <1>2, TypeParts DEF LineType
    <3>2. \A j \in MsiIrqs : pulses'[j] \in 0 .. MaxEvents
      <4> TAKE j \in MsiIrqs
      <4>1. pulses'[j] + Cardinality(Unrisen(j)') <= msis'[j] /\ msis'[j] = msis[j] /\ msis[j] \in 0 .. MaxEvents
        BY <1>1, <1>2, <1>12, TypeParts DEF MsisOK, SendType
      <4>2. Cardinality(Unrisen(j)') \in Nat
        <5>1. CASE j = i
          <6>1. Cardinality(Unrisen(j)) # 0
            BY <1>1, <1>8, <5>1, CountedFinite, FS_EmptySet
          <6> QED
            BY <1>9, <5>1, <6>1
        <5>2. CASE j # i
          BY <1>8, <1>9, <5>2
        <5> QED
          BY <5>1, <5>2
      <4> QED
        BY <1>10, <1>11, <4>1, <4>2, EventAssumption
    <3>3. pulses' \in [MsiIrqs -> 0 .. MaxEvents]
      BY <1>2, <3>2
    <3> QED
      BY <1>1, <1>2, <3>1, <3>3, TypeParts DEF LineType
  <2>3. ControlType'
    BY <1>1, <1>2, <1>3, TypeParts DEF ControlType
  <2> QED
    BY <1>1, <1>2, <1>3, <2>1, <2>2, <2>3, TypeParts, TypePartsNext, TypeSame
<1>15. ASSUME ~overlapped PROVE SeqInv'
  <2>1. /\ ~failed /\ OneBusy /\ EdgesOK /\ TableOK /\ RegisterOK /\ KnownOK /\ FindOK
        /\ IntxOK /\ LinesOK /\ RegionsOK /\ ListsOK
    BY <1>1, <1>15 DEF SeqInv
  <2>2. Solo(t) /\ \A u \in Threads : u # t => pc[u] = "idle" /\ pc'[u] = "idle"
    BY <1>4, <1>5, <1>15, Alone
  <2>3. /\ pc[t] \notin PciBusy /\ pc'[t] \notin PciBusy /\ pc'[t] # "find"
        /\ pc[t] \notin ListBusy /\ pc'[t] \notin ListBusy
    BY <1>3 DEF PciBusy, ListBusy
  <2>4. \A p \in Pins : level'[IntxBase + p] = level[IntxBase + p]
    BY <1>5, <1>11, Kinds
  <2>5. clearing'[t] => hand'[t].irqop = "pulse"
    BY <1>2, <1>3, <2>1 DEF FindOK
  <2>6. /\ TableOK' /\ RegisterOK' /\ FindOK' /\ IntxOK'
        /\ \A b : Registered(b)' = Registered(b)
        /\ \A b : On(b)' = On(b)
    BY <1>2, <2>1, <2>2, <2>3, <2>4, <2>5, PciFrame
  <2>7. ListsOK' /\ Kept' = Kept
    BY <1>2, <2>1, <2>2, <2>3, ListsFrame
  <2>8. KnownOK'
    BY <1>2, <1>3, <2>1, <2>6, KnownSame
  <2>9. LinesOK'
    <3>1. \A k \in BackendSlots \cup EmuIrqs : IrqEvents(k) = {} => Current(k)' = Current(k)
      <4> SUFFICES ASSUME NEW k \in EmuIrqs, IrqEvents(k) = {}, k \notin BackendSlots
                   PROVE  level'[k] = level[k]
        BY <2>6 DEF Current
      <4>1. k # i
        BY <1>5, <1>6 DEF IrqEvents
      <4> QED
        BY <1>11, <4>1, Kinds
    <3> QED
      BY <1>2, <1>3, <2>1, <2>6, <3>1, LinesMid
  <2>10. RegionsOK'
    BY <1>2, <1>3, <2>1, <2>7, RegionsMid
  <2>11. EdgesOK'
    <3> SUFFICES ASSUME NEW j \in MsiIrqs
                 PROVE  /\ pulses'[j] + Cardinality(Unrisen(j)') = msis'[j]
                        /\ level'[j] => \E u \in Threads : pc'[u] = "fall" /\ hand'[u].arg = j
      BY DEF EdgesOK
    <3>1. pulses[j] + Cardinality(Unrisen(j)) = msis[j] /\ ~level[j]
      <4>1. \A u \in Threads : pc[u] # "fall"
        BY <1>5, <2>2
      <4> QED
        BY <2>1, <4>1 DEF EdgesOK
    <3>2. CASE j = i
      BY <1>2, <1>3, <1>9, <1>10, <1>11, <3>1, <3>2
    <3>3. CASE j # i
      BY <1>2, <1>8, <1>11, <3>1, <3>3, Kinds
    <3> QED
      BY <3>2, <3>3
  <2>12. OneBusy'
    BY <2>2 DEF OneBusy
  <2> QED
    BY <1>3, <2>1, <2>6, <2>7, <2>8, <2>9, <2>10, <2>11, <2>12 DEF SeqInv
<1> QED
  BY <1>2, <1>3, <1>7, <1>12, <1>13, <1>14, <1>15 DEF EventInv

\* What the last step of a handler that is not about PCI has to show.
LEMMA OtherDone ==
  ASSUME EventInv, NEW t \in Threads, InHandler, Done(t),
         pc[t] \notin PciBusy \cup {"idle", "find"}, hand[t].op # "register",
         ~IrqFor(hand[t], BackendSlots), UNCHANGED <<pciVars, intx>>, StartsOK',
         LineType', ListType', ControlType',
         \A p \in Pins : level'[IntxBase + p] = level[IntxBase + p],
         \A i \in MsiIrqs : /\ pulses'[i] = pulses[i]
                            /\ level'[i] => level[i] /\ (pc[t] = "fall" => i # hand[t].arg)
                            /\ pc[t] = "fall" \/ ~IsRaise(hand[t], i),
         ~overlapped =>
           /\ ListsOK'
           /\ \A k \in EmuIrqs : /\ ~IsIrq(hand[t], k) => level'[k] = level[k]
                                 /\ IsIrq(hand[t], k) => level'[k] = (hand[t].irqop = "set")
           /\ \A r \in Regions : r \in Kept' <=> IF IsRegion(hand[t], r) THEN hand[t].op = "assign"
                                                                         ELSE r \in Kept
  PROVE  EventInv'
<1>1. TypeOK /\ OrderOK /\ PendOK /\ PcOK /\ (~overlapped => SeqInv) /\ pc[t] # "idle"
  BY DEF EventInv
<1>2. /\ Pend' = Pend \ {hand[t]} /\ hand[t] \in Pend /\ SendType' /\ RunType' /\ pc'[t] = "idle"
      /\ at'[t] = 0 /\ clearing'[t] = FALSE /\ Others(t)
  BY <1>1, DoneFrame
<1>3. TypeOK'
  BY <1>1, <1>2, TypeParts, TypePartsNext, TypeSame
<1>4. UNCHANGED <<known, overlapped>>
  BY DEF InHandler, devVars
<1>5. ASSUME ~overlapped
      PROVE  /\ TableOK' /\ RegisterOK' /\ FindOK' /\ IntxOK' /\ KnownOK'
             /\ \A b : Registered(b)' = Registered(b)
             /\ \A b : On(b)' = On(b)
  <2>1. /\ TableOK /\ RegisterOK /\ FindOK /\ IntxOK /\ KnownOK
    BY <1>1, <1>5 DEF SeqInv
  <2>2. Solo(t)
    BY <1>1, <1>2, <1>5, Alone
  <2>3. pc[t] \notin PciBusy /\ pc'[t] \notin PciBusy /\ pc'[t] # "find" /\ ~clearing'[t]
    BY <1>2 DEF PciBusy
  <2>4. /\ TableOK' /\ RegisterOK' /\ FindOK' /\ IntxOK'
        /\ \A b : Registered(b)' = Registered(b)
        /\ \A b : On(b)' = On(b)
    BY <1>4, <2>1, <2>2, <2>3, PciFrame
  <2>5. KnownOK'
    BY <1>2, <1>4, <2>1, <2>4, KnownSame
  <2> QED
    BY <2>4, <2>5
<1>6. ASSUME ~overlapped, NEW k \in BackendSlots \cup EmuIrqs
      PROVE  /\ ~IsIrq(hand[t], k) => Current(k)' = Current(k)
             /\ IsIrq(hand[t], k) => Current(k)' = (hand[t].irqop = "set")
  <2>1. CASE k \in BackendSlots
    <3>1. ~IsIrq(hand[t], k)
      BY <2>1 DEF IsIrq, IrqFor
    <3> QED
      BY <1>5, <1>6, <2>1, <3>1 DEF Current
  <2>2. CASE k \notin BackendSlots
    BY <1>6, <2>2 DEF Current
  <2> QED
    BY <2>1, <2>2
<1>7. ~overlapped =>
        \A b \in BackendSlots :
          Registered(b) \/ (hand[t].op = "register" /\ hand[t].arg = b) => Registered(b)'
  BY <1>5
<1> QED
  BY <1>1, <1>3, <1>5, <1>6, <1>7, DoneStep

\* The same of one that changes no list.
LEMMA LevelDone ==
  ASSUME EventInv, NEW t \in Threads, InHandler, Done(t), pc[t] \in {"msi", "fall", "set", "post"},
         UNCHANGED <<pciVars, intx, listVars>>, StartsOK', LineType', ControlType',
         \A p \in Pins : level'[IntxBase + p] = level[IntxBase + p],
         \A i \in MsiIrqs : /\ pulses'[i] = pulses[i]
                            /\ level'[i] => level[i] /\ (pc[t] = "fall" => i # hand[t].arg)
                            /\ pc[t] = "fall" \/ ~IsRaise(hand[t], i),
         \A k \in EmuIrqs : /\ ~IsIrq(hand[t], k) => level'[k] = level[k]
                            /\ IsIrq(hand[t], k) => level'[k] = (hand[t].irqop = "set")
  PROVE  EventInv'
<1>1. TypeOK /\ OrderOK /\ PendOK /\ PcOK /\ (~overlapped => SeqInv) /\ pc[t] # "idle"
  BY DEF EventInv
<1>2. hand[t].op \in {"set_irq", "start"} /\ ~IrqFor(hand[t], BackendSlots) /\ \A r : ~IsRegion(hand[t], r)
  BY <1>1, Kinds DEF PcOK, PcAt, IrqFor, LineSteps, IsRegion
<1>3. pc'[t] = "idle" /\ Others(t)
  BY <1>1, DoneFrame
<1>4. ListType'
  <2>1. UNCHANGED overlapped
    BY DEF InHandler
  <2> QED
    BY <1>1, <2>1, TypeParts, TypeSame
<1>5. ~overlapped => ListsOK' /\ Kept' = Kept
  <2> SUFFICES ASSUME ~overlapped PROVE ListsOK' /\ Kept' = Kept
    OBVIOUS
  <2>1. Solo(t) /\ ListsOK
    BY <1>1, <1>3, Alone DEF SeqInv
  <2>2. pc[t] \notin ListBusy /\ pc'[t] \notin ListBusy
    BY <1>3 DEF ListBusy
  <2> QED
    BY <2>1, <2>2, ListsFrame
<1>6. pc[t] \notin PciBusy \cup {"idle", "find"} /\ hand[t].op # "register"
  BY <1>2 DEF PciBusy
<1> QED
  BY <1>2, <1>4, <1>5, <1>6, OtherDone

\* irq_line_pulse, second call.
LEMMA FallKeeps ==
  ASSUME EventInv, NEW t \in Threads, InHandler, Fall(t)
  PROVE  EventInv'
<1> PICK i : i = hand[t].arg
  OBVIOUS
<1>1. TypeOK /\ OrderOK /\ PendOK /\ PcOK /\ StartsOK
  BY DEF EventInv
<1>2. /\ pc[t] = "fall" /\ level' = [level EXCEPT ![i] = FALSE] /\ Done(t)
      /\ UNCHANGED <<ok_to_run, sem, pciVars, intx, listVars, pulses>>
      /\ UNCHANGED <<started, boot, overlapped>>
  BY DEF Fall, SetLevel, InHandler, devVars
<1>3. /\ hand[t].op = "set_irq" /\ i \in MsiIrqs \cup EmuIrqs
      /\ (i \in EmuIrqs => hand[t].irqop = "pulse")
  BY <1>1, <1>2, Kinds DEF PcOK, PcAt, IrqFor
<1>4. /\ \A j \in AllIrqs : level'[j] = IF j = i THEN FALSE ELSE level[j]
      /\ level' \in [AllIrqs -> BOOLEAN]
  BY <1>1, <1>2 DEF TypeOK
<1>5. Pend' = Pend \ {hand[t]} /\ hand[t] \in Pend /\ failed' = failed
  BY <1>1, <1>2, DoneFrame
<1>6. StartsOK'
  BY <1>1, <1>2, <1>3, <1>5, StartsSame
<1>7. LineType' /\ ControlType'
  BY <1>1, <1>2, <1>4, <1>5, TypeParts DEF LineType, ControlType
<1>8. \A p \in Pins : level'[IntxBase + p] = level[IntxBase + p]
  BY <1>3, <1>4, Kinds
<1>9. \A j \in MsiIrqs : pulses'[j] = pulses[j] /\ (level'[j] => level[j] /\ j # hand[t].arg)
  BY <1>2, <1>4, Kinds
<1>10. \A k \in EmuIrqs : /\ ~IsIrq(hand[t], k) => level'[k] = level[k]
                          /\ IsIrq(hand[t], k) => level'[k] = (hand[t].irqop = "set")
  BY <1>3, <1>4, Kinds DEF IsIrq
<1> QED
  BY <1>2, <1>6, <1>7, <1>8, <1>9, <1>10, LevelDone

\* msi_irq_set
LEMMA HandleMsiKeeps ==
  ASSUME EventInv, NEW t \in Threads, InHandler, HandleMsi(t)
  PROVE  EventInv'
<1>1. TypeOK /\ OrderOK /\ PendOK /\ PcOK /\ StartsOK /\ pc[t] = "msi"
  BY DEF EventInv, HandleMsi
<1>2. CASE hand[t].irqop # "clr" /\ Rise(t)
  BY <1>1, <1>2, RiseKeeps
<1>3. CASE hand[t].irqop = "clr" /\ Done(t) /\ UNCHANGED shared
  <2>1. /\ UNCHANGED <<ok_to_run, sem, pciVars, intx, listVars, gicVars, level, pulses>>
        /\ UNCHANGED <<started, boot, overlapped>>
    BY <1>3 DEF shared, gicVars, InHandler, devVars
  <2>2. IrqFor(hand[t], MsiIrqs)
    BY <1>1 DEF PcOK, PcAt
  <2>3. Pend' = Pend \ {hand[t]} /\ hand[t] \in Pend /\ failed' = failed
    BY <1>1, <1>3, DoneFrame
  <2>4. StartsOK'
    BY <1>1, <2>1, <2>2, <2>3, StartsSame DEF IrqFor
  <2>5. LineType' /\ ControlType'
    BY <1>1, <2>1, <2>3, TypeParts DEF LineType, ControlType
  <2>6. \A i : ~IsRaise(hand[t], i)
    BY <1>3 DEF IsRaise
  <2>7. \A k \in EmuIrqs : ~IsIrq(hand[t], k)
    BY <2>2, Kinds DEF IsIrq, IrqFor
  <2> QED
    BY <1>1, <1>3, <2>1, <2>4, <2>5, <2>6, <2>7, LevelDone
<1> QED
  BY <1>2, <1>3 DEF HandleMsi

\* irq_line_change or irq_line_pulse of an emulated device.
LEMMA LineSetKeeps ==
  ASSUME EventInv, NEW t \in Threads, InHandler, LineSet(t)
  PROVE  EventInv'
<1> PICK i : i = hand[t].arg
  OBVIOUS
<1>1. TypeOK /\ OrderOK /\ PendOK /\ PcOK /\ StartsOK /\ pc[t] = "set"
  BY DEF EventInv, LineSet
<1>2. CASE hand[t].irqop = "pulse" /\ Rise(t)
  BY <1>1, <1>2, RiseKeeps
<1>3. CASE /\ level' = [level EXCEPT ![i] = (hand[t].irqop = "set")] /\ Done(t)
           /\ UNCHANGED <<ok_to_run, sem, pciVars, intx, listVars, pulses>>
  <2>1. UNCHANGED <<started, boot, overlapped>>
    BY DEF InHandler, devVars
  <2>2. hand[t].op = "set_irq" /\ i \in EmuIrqs
    BY <1>1 DEF PcOK, PcAt, IrqFor, LineSteps
  <2>3. /\ \A j \in AllIrqs : level'[j] = IF j = i THEN hand[t].irqop = "set" ELSE level[j]
        /\ level' \in [AllIrqs -> BOOLEAN]
    <3>1. (hand[t].irqop = "set") \in BOOLEAN
      OBVIOUS
    <3> QED
      BY <1>1, <1>3, <3>1 DEF TypeOK
  <2>4. Pend' = Pend \ {hand[t]} /\ hand[t] \in Pend /\ failed' = failed
    BY <1>1, <1>3, DoneFrame
  <2>5. StartsOK'
    BY <1>1, <1>3, <2>1, <2>2, <2>4, StartsSame
  <2>6. LineType' /\ ControlType'
    BY <1>1, <1>3, <2>1, <2>3, <2>4, TypeParts DEF LineType, ControlType
  <2>7. \A p \in Pins : level'[IntxBase + p] = level[IntxBase + p]
    BY <2>2, <2>3, Kinds
  <2>8. \A j \in MsiIrqs : pulses'[j] = pulses[j] /\ level'[j] = level[j] /\ ~IsRaise(hand[t], j)
    BY <1>3, <2>2, <2>3, Kinds DEF IsRaise
  <2>9. \A k \in EmuIrqs : /\ ~IsIrq(hand[t], k) => level'[k] = level[k]
                           /\ IsIrq(hand[t], k) => level'[k] = (hand[t].irqop = "set")
    BY <2>2, <2>3, Kinds DEF IsIrq
  <2> QED
    BY <1>1, <1>3, <2>5, <2>6, <2>7, <2>8, <2>9, LevelDone
<1> QED
  BY <1>2, <1>3 DEF LineSet, SetLevel

\* handle_control, last step.
LEMMA ControlPostKeeps ==
  ASSUME EventInv, NEW t \in Threads, InHandler, ControlPost(t)
  PROVE  EventInv'
<1>1. TypeOK /\ OrderOK /\ PendOK /\ PcOK /\ StartsOK
  BY DEF EventInv
<1>2. /\ pc[t] = "post" /\ sem' = sem + 1 /\ Done(t)
      /\ UNCHANGED <<ok_to_run, pciVars, intx, listVars, level, pulses>>
      /\ UNCHANGED <<started, boot, overlapped>>
  BY DEF ControlPost, gicVars, InHandler, devVars
<1>3. hand[t].op = "start"
  BY <1>1, <1>2 DEF PcOK, PcAt
<1>4. Pend' = Pend \ {hand[t]} /\ hand[t] \in Pend /\ failed' = failed
  BY <1>1, <1>2, DoneFrame
<1>5. StartsOK' /\ sem' \in 0 .. 1
  BY <1>1, <1>2, <1>3, <1>4, StartsPost
<1>6. LineType' /\ ControlType'
  BY <1>1, <1>2, <1>4, <1>5, TypeParts DEF LineType, ControlType
<1>7. \A i : ~IsRaise(hand[t], i) /\ ~IsIrq(hand[t], i)
  BY <1>3 DEF IsRaise, IsIrq
<1> QED
  BY <1>2, <1>5, <1>6, <1>7, LevelDone

---------------------------------------------------------------------------
(* The lists of emudev_irq_set, mmio_res_assign and mmio_res_free *)

\* What a step inside a handler that is not about PCI has to show.
LEMMA ListStep ==
  ASSUME EventInv, NEW t \in Threads, NEW l \in Places, InHandler, Goto(t, l), UNCHANGED <<dev, saved, clearing>>,
         at' \in [Threads -> Nat], \A u \in Threads : u # t => at'[u] = at[u],
         UNCHANGED <<sem, pciVars, intx, gicVars>>, ok_to_run' \in BOOLEAN, ListType',
         pc[t] \notin PciBusy \cup {"idle", "fall", "find"}, l \notin PciBusy \cup {"idle", "fall", "find"},
         PcAt(t)',
         ~overlapped => ListsOK' /\ Kept' = Kept
  PROVE  EventInv'
<1>1. TypeOK /\ OrderOK /\ PendOK /\ PcOK /\ (~overlapped => SeqInv) /\ pc[t] # "idle"
  BY DEF EventInv
<1>2. /\ SendType' /\ hand' = hand /\ failed' = failed /\ pc'[t] = l
      /\ \A u \in Threads : u # t => pc'[u] = pc[u]
      /\ pc' \in [Threads -> Places]
  BY <1>1, GotoFrame
<1>3. UNCHANGED <<known, overlapped, boot, level, pulses>>
  BY DEF InHandler, devVars, gicVars
<1>4. Others(t)
  BY <1>2 DEF Others
<1>5. TypeOK'
  <2>1. RunType'
    BY <1>1, <1>2, TypeParts DEF RunType
  <2>2. ControlType'
    BY <1>1, <1>2, <1>3, TypeParts DEF ControlType
  <2> QED
    BY <1>1, <1>2, <2>1, <2>2, TypeParts, TypePartsNext, TypeSame
<1>6. ASSUME ~overlapped
      PROVE  /\ TableOK' /\ RegisterOK' /\ FindOK' /\ IntxOK'
             /\ \A b : Registered(b)' = Registered(b)
             /\ \A k \in BackendSlots \cup EmuIrqs : Current(k)' = Current(k)
  <2>1. /\ TableOK /\ RegisterOK /\ FindOK /\ IntxOK
    BY <1>1, <1>6 DEF SeqInv
  <2>2. Solo(t)
    BY <1>1, <1>4, <1>6, Alone
  <2>3. pc[t] \notin PciBusy /\ pc'[t] \notin PciBusy /\ pc'[t] # "find"
    BY <1>2
  <2>4. clearing'[t] => hand'[t].irqop = "pulse"
    BY <1>2, <2>1 DEF FindOK
  <2>5. /\ TableOK' /\ RegisterOK' /\ FindOK' /\ IntxOK'
        /\ \A b : Registered(b)' = Registered(b)
        /\ \A b : On(b)' = On(b)
    BY <1>3, <2>1, <2>2, <2>3, <2>4, PciFrame
  <2> QED
    BY <1>3, <2>5 DEF Current
<1> QED
  BY <1>1, <1>3, <1>4, <1>5, <1>6, GotoStep

\* handle_control, first step.
LEMMA ControlOkKeeps ==
  ASSUME EventInv, NEW t \in Threads, InHandler, ControlOk(t)
  PROVE  EventInv'
<1>1. TypeOK /\ OrderOK /\ PendOK /\ PcOK /\ (~overlapped => SeqInv)
  BY DEF EventInv
<1>2. /\ pc[t] = "ok" /\ ok_to_run' = TRUE /\ Goto(t, "post")
      /\ UNCHANGED <<at, dev, saved, clearing, sem, pciVars, intx, listVars, gicVars, overlapped>>
  BY DEF ControlOk, locals, InHandler
<1>3. /\ hand' = hand /\ pc'[t] = "post" /\ \A u \in Threads : u # t => pc'[u] = pc[u]
  BY <1>1, <1>2, GotoFrame
<1>4. PcAt(t)'
  <2>1. PcAt(t)
    BY <1>1 DEF PcOK
  <2> QED
    BY <1>2, <1>3, <2>1 DEF PcAt, IntxSteps, LineSteps, AppendSteps, RegisterSteps, FreeSteps, SlotSteps
<1>5. ListType'
  BY <1>1, <1>2, TypeParts, TypeSame
<1>6. ~overlapped => ListsOK' /\ Kept' = Kept
  <2> SUFFICES ASSUME ~overlapped PROVE ListsOK' /\ Kept' = Kept
    OBVIOUS
  <2>1. Others(t)
    BY <1>2, <1>3 DEF Others
  <2>2. Solo(t) /\ ListsOK
    BY <1>2, <2>1, Alone DEF SeqInv
  <2>3. pc[t] \notin ListBusy /\ pc'[t] \notin ListBusy
    BY <1>2, <1>3 DEF ListBusy
  <2> QED
    BY <1>2, <2>2, <2>3, ListsFrame
<1>7. /\ "post" \in Places /\ at' \in [Threads -> Nat] /\ ok_to_run' \in BOOLEAN
      /\ \A u \in Threads : u # t => at'[u] = at[u]
  BY <1>1, <1>2 DEF TypeOK, Places
<1>8. /\ pc[t] \notin PciBusy \cup {"idle", "fall", "find"}
      /\ "post" \notin PciBusy \cup {"idle", "fall", "find"}
  BY <1>2 DEF PciBusy
<1> QED
  BY <1>2, <1>4, <1>5, <1>6, <1>7, <1>8, ListStep

\* An element is put into a list it is not in.
LEMMA LinkInjective ==
  ASSUME NEW S, NEW s \in Seq(S), NEW x \in S, IsInjective(s), x \notin ToSet(s)
  PROVE  IsInjective(Append(s, x))
<1>1. PICK r : r = Append(s, x)
  OBVIOUS
<1>2. /\ \A k \in DOMAIN s : r[k] = s[k]
      /\ r[Len(s) + 1] = x
      /\ \A k \in DOMAIN r : k \in DOMAIN s \/ k = Len(s) + 1
  BY <1>1, AppendFacts
<1>3. \A k \in DOMAIN s : s[k] # x
  BY DEF ToSet
<1>4. ASSUME NEW j \in DOMAIN r, NEW k \in DOMAIN r, r[j] = r[k] PROVE j = k
  <2>1. CASE j \in DOMAIN s /\ k \in DOMAIN s
    <3>1. s[j] = s[k]
      BY <1>2, <1>4, <2>1
    <3> QED
      BY <2>1, <3>1 DEF IsInjective
  <2>2. CASE j \in DOMAIN s /\ k = Len(s) + 1
    BY <1>2, <1>3, <1>4, <2>2
  <2>3. CASE j = Len(s) + 1 /\ k \in DOMAIN s
    BY <1>2, <1>3, <1>4, <2>3
  <2> QED
    BY <1>2, <2>1, <2>2, <2>3
<1> QED
  BY <1>1, <1>4 DEF IsInjective

LEMMA ContainsIn ==
  ASSUME NEW S, NEW s \in Seq(S), NEW x
  PROVE  Contains(s, x) <=> x \in ToSet(s)
<1>1. DOMAIN s = 1 .. Len(s)
  BY LenProperties
<1> QED
  BY <1>1 DEF Contains, ToSet

\* The lists and the thread that works on them, the other being idle.
ListsAt(t) ==
  /\ IsInjective(irqs) /\ IsInjective(regions)
  /\ ToSet(regions) = {r \in Kept : pc[t] = "release" => r # hand[t].arg}
  /\ Assigning(t) => hand[t].arg \in reserved
  /\ pc[t] = "link" => at[t] = Len(IF hand[t].op = "assign" THEN regions ELSE irqs)
  /\ pc[t] \in AppendSteps /\ hand[t].op = "set_irq" => hand[t].arg \notin ToSet(irqs)
  /\ pc[t] = "again" => hand[t].arg \in ToSet(irqs)
  /\ pc[t] = "remove" => hand[t].arg \in ToSet(regions)

LEMMA ListsAlone ==
  ASSUME NEW t \in Threads, Solo(t)
  PROVE  /\ ListsOK <=> ListsAt(t)
         /\ ListsOK' <=> ListsAt(t)'
         /\ Kept = {r \in reserved : Assigning(t) => r # hand[t].arg}
         /\ Kept' = {r \in reserved' : Assigning(t)' => r # hand'[t].arg}
<1>1. \A u \in Threads : u # t => pc[u] = "idle" /\ pc'[u] = "idle"
  BY DEF Solo
<1>2. \A u \in Threads : u # t => ~Assigning(u) /\ ~Assigning(u)'
  BY <1>1 DEF Assigning, AppendSteps
<1>3. ListsOK <=> ListsAt(t)
  BY <1>1, <1>2 DEF ListsOK, ListsAt, AppendSteps
<1>4. ListsOK' <=> ListsAt(t)'
  BY <1>1, <1>2 DEF ListsOK, ListsAt, AppendSteps
<1>5. Kept = {r \in reserved : Assigning(t) => r # hand[t].arg}
  BY <1>2 DEF Kept
<1>6. Kept' = {r \in reserved' : Assigning(t)' => r # hand'[t].arg}
  BY <1>2 DEF Kept
<1> QED
  BY <1>3, <1>4, <1>5, <1>6

\* A step on the lists: what it leaves alone, and what it has to show.
LEMMA ListsMove ==
  ASSUME EventInv, NEW t \in Threads, NEW l \in Places, InHandler, Goto(t, l), UNCHANGED <<dev, saved, clearing>>,
         at' \in [Threads -> Nat], \A u \in Threads : u # t => at'[u] = at[u],
         UNCHANGED <<ok_to_run, sem, pciVars, intx, gicVars>>,
         irqs' \in Seq(EmuIrqs), regions' \in Seq(Regions), reserved' \subseteq Regions,
         pc[t] \in {"line", "end", "link", "again", "reserve", "search", "remove"},
         l \in {"end", "link", "again", "set", "remove", "release"},
         PcAt(t) => PcAt(t)',
         ~overlapped /\ Solo(t) /\ SeqInv /\ ListsAt(t) /\ Oldest(hand[t], Pend)
           => ListsAt(t)' /\ Kept' = Kept
  PROVE  EventInv'
<1>1. TypeOK /\ OrderOK /\ PendOK /\ PcOK /\ (~overlapped => SeqInv)
  BY DEF EventInv
<1>2. /\ hand' = hand /\ \A u \in Threads : u # t => pc'[u] = pc[u]
  BY <1>1, GotoFrame
<1>3. Others(t)
  BY <1>2 DEF Others
<1>4. ~overlapped => ListsOK' /\ Kept' = Kept
  <2> SUFFICES ASSUME ~overlapped PROVE ListsOK' /\ Kept' = Kept
    OBVIOUS
  <2>1. Solo(t) /\ SeqInv /\ ListsOK /\ Oldest(hand[t], Pend)
    BY <1>3, Alone DEF SeqInv
  <2> QED
    BY <2>1, ListsAlone
<1>5. ListType'
  <2>1. overlapped' = overlapped
    BY DEF InHandler
  <2>2. ~overlapped => IsInjective(irqs)'
    BY <1>4 DEF ListsOK
  <2> QED
    BY <2>1, <2>2 DEF ListType
<1>6. PcAt(t)' /\ ok_to_run' \in BOOLEAN
  BY <1>1 DEF PcOK, TypeOK
<1>7. /\ pc[t] \notin PciBusy \cup {"idle", "fall", "find"}
      /\ l \notin PciBusy \cup {"idle", "fall", "find"}
  BY DEF PciBusy
<1> QED
  BY <1>4, <1>5, <1>6, <1>7, ListStep

\* What a thread at a place of the lists knows of its event.
LEMMA ListHand ==
  ASSUME EventInv, NEW t \in Threads, pc[t] # "idle"
  PROVE  /\ hand[t] \in Pend
         /\ pc[t] \in LineSteps => hand[t].op = "set_irq" /\ hand[t].arg \in EmuIrqs
         /\ pc[t] = "reserve" => hand[t].op = "assign"
         /\ pc[t] \in FreeSteps => hand[t].op = "free"
         /\ pc[t] \in AppendSteps => (hand[t].op = "set_irq" /\ hand[t].arg \in EmuIrqs) \/ hand[t].op = "assign"
         /\ hand[t].op \in {"assign", "free"} =>
              /\ hand[t].arg \in Regions
              /\ Oldest(hand[t], Pend) => Oldest(hand[t], RegionEvents(hand[t].arg))
<1>1. PcAt(t) /\ PendOK
  BY DEF EventInv, PcOK
<1>2. hand[t] \in Pend
  BY <1>1 DEF PcAt, Pend
<1>3. Good(hand[t])
  BY <1>1, <1>2 DEF PendOK
<1>4. hand[t].op \in {"assign", "free"} =>
              /\ hand[t].arg \in Regions
              /\ Oldest(hand[t], Pend) => Oldest(hand[t], RegionEvents(hand[t].arg))
  BY <1>3 DEF Good, Oldest, RegionEvents
<1> QED
  BY <1>1, <1>2, <1>4 DEF PcAt, IrqFor

\* irq_res_find
LEMMA LineFindKeeps ==
  ASSUME EventInv, NEW t \in Threads, InHandler, LineFind(t)
  PROVE  EventInv'
<1> PICK l : l = IF Contains(irqs, hand[t].arg) THEN "set" ELSE "end"
  OBVIOUS
<1>1. TypeOK /\ OrderOK /\ PendOK
  BY DEF EventInv
<1>2. /\ pc[t] = "line" /\ Goto(t, l)
      /\ UNCHANGED <<at, dev, saved, clearing, ok_to_run, sem, pciVars, intx, gicVars, irqs,
                     regions, reserved>>
  BY DEF LineFind, Proceed, locals, shared, listVars
<1>3. hand' = hand /\ pc'[t] = l /\ l \in {"set", "end"}
  BY <1>1, <1>2, GotoFrame
<1>4. hand[t].op = "set_irq" /\ hand[t].arg \in EmuIrqs
  BY <1>2, ListHand DEF LineSteps
<1>5. PcAt(t) => PcAt(t)'
  BY <1>2, <1>3, <1>4 DEF PcAt, IrqFor, IntxSteps, LineSteps, AppendSteps, RegisterSteps, FreeSteps, SlotSteps
<1>6. ASSUME Solo(t), ListsAt(t)
      PROVE  ListsAt(t)' /\ Kept' = Kept
  <2>1. ~Assigning(t) /\ ~Assigning(t)'
    BY <1>3, <1>4 DEF Assigning
  <2>2. Kept = reserved /\ Kept' = reserved'
    BY <1>6, <2>1, ListsAlone
  <2>3. ToSet(irqs)' = ToSet(irqs) /\ ToSet(regions)' = ToSet(regions)
    BY <1>2 DEF ToSet
  <2>4. l = "end" => hand[t].arg \notin ToSet(irqs)
    BY <1>1, ContainsIn DEF TypeOK
  <2>5. ListsAt(t)'
    BY <1>2, <1>3, <1>4, <1>6, <2>1, <2>2, <2>3, <2>4 DEF ListsAt, AppendSteps
  <2> QED
    BY <1>2, <2>2, <2>5
<1>7. /\ l \in Places /\ at' \in [Threads -> Nat] /\ \A u \in Threads : u # t => at'[u] = at[u]
      /\ irqs' \in Seq(EmuIrqs) /\ regions' \in Seq(Regions) /\ reserved' \subseteq Regions
  BY <1>1, <1>2, <1>3 DEF TypeOK, Places
<1> QED
  BY <1>2, <1>3, <1>5, <1>6, <1>7, ListsMove

\* list_append, to the end of the list.
LEMMA ListEndKeeps ==
  ASSUME EventInv, NEW t \in Threads, InHandler, ListEnd(t)
  PROVE  EventInv'
<1> PICK n : n = Len(IF hand[t].op = "assign" THEN regions ELSE irqs)
  OBVIOUS
<1>1. TypeOK /\ OrderOK /\ PendOK
  BY DEF EventInv
<1>2. /\ pc[t] = "end" /\ Goto(t, "link") /\ at' = [at EXCEPT ![t] = n]
      /\ UNCHANGED <<dev, saved, clearing, ok_to_run, sem, pciVars, intx, gicVars, irqs,
                     regions, reserved>>
  BY DEF ListEnd, shared, listVars
<1>3. hand' = hand /\ pc'[t] = "link"
  BY <1>1, <1>2, GotoFrame
<1>4. n \in Nat
  BY <1>1, LenProperties DEF TypeOK
<1>5. at'[t] = n /\ at' \in [Threads -> Nat] /\ \A u \in Threads : u # t => at'[u] = at[u]
  BY <1>1, <1>2, <1>4 DEF TypeOK
<1>6. PcAt(t) => PcAt(t)'
  BY <1>2, <1>3 DEF PcAt, IrqFor, IntxSteps, LineSteps, AppendSteps, RegisterSteps, FreeSteps, SlotSteps
<1>7. ASSUME Solo(t), ListsAt(t)
      PROVE  ListsAt(t)' /\ Kept' = Kept
  <2>1. Assigning(t)' = Assigning(t)
    BY <1>2, <1>3 DEF Assigning, AppendSteps
  <2>2. Kept' = Kept
    BY <1>2, <1>3, <1>7, <2>1, ListsAlone
  <2>3. ToSet(irqs)' = ToSet(irqs) /\ ToSet(regions)' = ToSet(regions)
    BY <1>2 DEF ToSet
  <2> QED
    BY <1>2, <1>3, <1>5, <1>7, <2>1, <2>2, <2>3 DEF ListsAt, AppendSteps
<1>8. /\ "link" \in Places
      /\ irqs' \in Seq(EmuIrqs) /\ regions' \in Seq(Regions) /\ reserved' \subseteq Regions
  BY <1>1, <1>2 DEF TypeOK, Places
<1> QED
  BY <1>2, <1>5, <1>6, <1>7, <1>8, ListsMove

\* irq_res_assign
LEMMA LineLinkKeeps ==
  ASSUME EventInv, NEW t \in Threads, InHandler, LineLink(t)
  PROVE  EventInv'
<1> PICK x : x = hand[t].arg
  OBVIOUS
<1>1. TypeOK /\ OrderOK /\ PendOK
  BY DEF EventInv
<1>2. /\ pc[t] = "link" /\ Goto(t, "again") /\ hand[t].op = "set_irq"
      /\ irqs' \in Linked(irqs, at[t], x)
      /\ UNCHANGED <<at, dev, saved, clearing, ok_to_run, sem, pciVars, intx, gicVars,
                     regions, reserved>>
  BY DEF LineLink, locals
<1>3. hand' = hand /\ pc'[t] = "again"
  BY <1>1, <1>2, GotoFrame
<1>4. x \in EmuIrqs
  BY <1>2, ListHand DEF AppendSteps
<1>5. irqs \in Seq(EmuIrqs) /\ at[t] \in Nat
  BY <1>1 DEF TypeOK
<1>6. irqs' \in Seq(EmuIrqs) /\ (at[t] = Len(irqs) => irqs' = Append(irqs, x))
  BY <1>2, <1>4, <1>5, LinkFacts
<1>7. PcAt(t) => PcAt(t)'
  BY <1>2, <1>3, <1>4 DEF PcAt, IrqFor, IntxSteps, LineSteps, AppendSteps, RegisterSteps, FreeSteps, SlotSteps
<1>8. ASSUME Solo(t), ListsAt(t)
      PROVE  ListsAt(t)' /\ Kept' = Kept
  <2>1. ~Assigning(t) /\ ~Assigning(t)'
    BY <1>2, <1>3 DEF Assigning
  <2>2. Kept = reserved /\ Kept' = reserved'
    BY <1>8, <2>1, ListsAlone
  <2>3. irqs' = Append(irqs, x) /\ x \notin ToSet(irqs) /\ IsInjective(irqs)
    BY <1>2, <1>6, <1>8 DEF ListsAt, AppendSteps
  <2>4. IsInjective(irqs') /\ ToSet(irqs') = ToSet(irqs) \cup {x}
    BY <1>4, <1>5, <2>3, AppendFacts, LinkInjective
  <2>5. /\ ToSet(irqs)' = ToSet(irqs') /\ ToSet(regions)' = ToSet(regions)
        /\ IsInjective(irqs)' = IsInjective(irqs')
    BY <1>2 DEF ToSet, IsInjective
  <2>6. ListsAt(t)'
    BY <1>2, <1>3, <1>8, <2>1, <2>2, <2>4, <2>5 DEF ListsAt, AppendSteps
  <2> QED
    BY <1>2, <2>2, <2>6
<1>9. /\ "again" \in Places /\ at' \in [Threads -> Nat] /\ \A u \in Threads : u # t => at'[u] = at[u]
      /\ regions' \in Seq(Regions) /\ reserved' \subseteq Regions
  BY <1>1, <1>2 DEF TypeOK, Places
<1> QED
  BY <1>2, <1>6, <1>7, <1>8, <1>9, ListsMove

\* emudev_irq_register finds the line it has registered, except with overlap.
LEMMA LineFindAgainKeeps ==
  ASSUME EventInv, NEW t \in Threads, InHandler, LineFindAgain(t)
  PROVE  EventInv'
<1>1. TypeOK /\ OrderOK /\ PendOK /\ pc[t] = "again"
  BY DEF EventInv, LineFindAgain
<1>2. CASE ~Contains(irqs, hand[t].arg) /\ Fail
  <2>1. overlapped
    <3> SUFFICES ASSUME ~overlapped PROVE FALSE
      OBVIOUS
    <3>1. hand[t].arg \in ToSet(irqs)
      BY <1>1 DEF EventInv, SeqInv, ListsOK
    <3> QED
      BY <1>1, <1>2, <3>1, ContainsIn DEF TypeOK
  <2> QED
    BY <1>2, <2>1, FailKeeps
<1>3. CASE Proceed(t, "set")
  <2>1. /\ Goto(t, "set")
        /\ UNCHANGED <<at, dev, saved, clearing, ok_to_run, sem, pciVars, intx, gicVars, irqs,
                       regions, reserved>>
    BY <1>3 DEF Proceed, locals, shared, listVars
  <2>2. hand' = hand /\ pc'[t] = "set"
    BY <1>1, <2>1, GotoFrame
  <2>3. hand[t].op = "set_irq"
    BY <1>1, ListHand DEF LineSteps
  <2>4. PcAt(t) => PcAt(t)'
    BY <1>1, <2>1, <2>2 DEF PcAt, IrqFor, IntxSteps, LineSteps, AppendSteps, RegisterSteps, FreeSteps, SlotSteps
  <2>5. ASSUME Solo(t), ListsAt(t)
        PROVE  ListsAt(t)' /\ Kept' = Kept
    <3>1. ~Assigning(t) /\ ~Assigning(t)'
      BY <2>2, <2>3 DEF Assigning
    <3>2. Kept = reserved /\ Kept' = reserved'
      BY <2>5, <3>1, ListsAlone
    <3>3. ToSet(irqs)' = ToSet(irqs) /\ ToSet(regions)' = ToSet(regions)
      BY <2>1 DEF ToSet
    <3>4. ListsAt(t)'
      BY <1>1, <2>1, <2>2, <2>5, <3>1, <3>2, <3>3 DEF ListsAt, AppendSteps
    <3> QED
      BY <2>1, <3>2, <3>4
  <2>6. /\ "set" \in Places /\ at' \in [Threads -> Nat] /\ \A u \in Threads : u # t => at'[u] = at[u]
        /\ irqs' \in Seq(EmuIrqs) /\ regions' \in Seq(Regions) /\ reserved' \subseteq Regions
    BY <1>1, <2>1 DEF TypeOK, Places
  <2> QED
    BY <1>1, <2>1, <2>4, <2>5, <2>6, ListsMove
<1> QED
  BY <1>2, <1>3 DEF LineFindAgain

\* mmio_res_assign reserves a region nobody has, except with overlap.
LEMMA AssignReserveKeeps ==
  ASSUME EventInv, NEW t \in Threads, InHandler, AssignReserve(t)
  PROVE  EventInv'
<1> PICK x : x = hand[t].arg
  OBVIOUS
<1>1. TypeOK /\ OrderOK /\ PendOK /\ pc[t] = "reserve"
  BY DEF EventInv, AssignReserve
<1>2. hand[t].op = "assign" /\ x \in Regions /\ hand[t] \in Pend
  BY <1>1, ListHand
<1>3. CASE x \in reserved /\ Fail
  <2>1. overlapped
    <3> SUFFICES ASSUME ~overlapped PROVE FALSE
      OBVIOUS
    <3>1. OneBusy /\ RegionsOK /\ PcOK
      BY DEF EventInv, SeqInv
    <3>2. Oldest(hand[t], Pend) /\ \A u \in Threads : u # t => pc[u] = "idle"
      BY <1>1, <3>1, InHand
    <3>3. Oldest(hand[t], RegionEvents(x))
      BY <1>1, <1>2, <3>2, ListHand
    <3>4. x \notin Kept
      BY <1>2, <3>1, <3>3 DEF RegionsOK
    <3>5. \A u \in Threads : ~Assigning(u)
      BY <1>1, <3>2 DEF Assigning, AppendSteps
    <3> QED
      BY <1>3, <3>4, <3>5 DEF Kept
  <2> QED
    BY <1>3, <2>1, FailKeeps
<1>4. CASE /\ x \notin reserved /\ reserved' = reserved \cup {x} /\ Goto(t, "end")
           /\ UNCHANGED <<locals, ok_to_run, sem, pciVars, intx, irqs, regions, gicVars>>
  <2>1. /\ Goto(t, "end")
        /\ UNCHANGED <<at, dev, saved, clearing, ok_to_run, sem, pciVars, intx, gicVars, irqs, regions>>
    BY <1>4 DEF locals
  <2>2. hand' = hand /\ pc'[t] = "end"
    BY <1>1, <2>1, GotoFrame
  <2>3. PcAt(t) => PcAt(t)'
    BY <1>1, <1>2, <2>1, <2>2 DEF PcAt, IrqFor, IntxSteps, LineSteps, AppendSteps, RegisterSteps, FreeSteps, SlotSteps
  <2>4. ASSUME Solo(t), ListsAt(t)
        PROVE  ListsAt(t)' /\ Kept' = Kept
    <3>1. ~Assigning(t) /\ Assigning(t)'
      BY <1>1, <1>2, <2>2 DEF Assigning, AppendSteps
    <3>2. Kept = reserved /\ Kept' = reserved' \ {x}
      BY <2>2, <2>4, <3>1, ListsAlone
    <3>3. Kept' = Kept
      BY <1>4, <3>2
    <3>4. ToSet(irqs)' = ToSet(irqs) /\ ToSet(regions)' = ToSet(regions)
      BY <2>1 DEF ToSet
    <3>5. ListsAt(t)'
      BY <1>1, <1>2, <1>4, <2>1, <2>2, <2>4, <3>1, <3>3, <3>4 DEF ListsAt, AppendSteps
    <3> QED
      BY <3>3, <3>5
  <2>5. /\ "end" \in Places /\ at' \in [Threads -> Nat] /\ \A u \in Threads : u # t => at'[u] = at[u]
        /\ irqs' \in Seq(EmuIrqs) /\ regions' \in Seq(Regions) /\ reserved' \subseteq Regions
    BY <1>1, <1>2, <1>4, <2>1 DEF TypeOK, Places
  <2> QED
    BY <1>1, <2>1, <2>3, <2>4, <2>5, ListsMove
<1> QED
  BY <1>3, <1>4 DEF AssignReserve

\* mmio_res_free finds the region, except with overlap.
LEMMA FreeFindKeeps ==
  ASSUME EventInv, NEW t \in Threads, InHandler, FreeFind(t)
  PROVE  EventInv'
<1> PICK x : x = hand[t].arg
  OBVIOUS
<1>1. TypeOK /\ OrderOK /\ PendOK /\ pc[t] = "search"
  BY DEF EventInv, FreeFind
<1>2. hand[t].op = "free" /\ x \in Regions /\ hand[t] \in Pend
  BY <1>1, ListHand DEF FreeSteps
<1>3. CASE ~Contains(regions, x) /\ Fail
  <2>1. overlapped
    <3> SUFFICES ASSUME ~overlapped PROVE FALSE
      OBVIOUS
    <3>1. OneBusy /\ RegionsOK /\ ListsOK /\ PcOK
      BY DEF EventInv, SeqInv
    <3>2. Oldest(hand[t], Pend) /\ \A u \in Threads : u # t => pc[u] = "idle"
      BY <1>1, <3>1, InHand
    <3>3. Oldest(hand[t], RegionEvents(x))
      BY <1>1, <1>2, <3>2, ListHand
    <3>4. x \in Kept
      BY <1>2, <3>1, <3>3 DEF RegionsOK
    <3>5. x \in ToSet(regions)
      BY <1>1, <3>1, <3>2, <3>4 DEF ListsOK
    <3> QED
      BY <1>1, <1>3, <3>5, ContainsIn DEF TypeOK
  <2> QED
    BY <1>3, <2>1, FailKeeps
<1>4. CASE Contains(regions, x) /\ Proceed(t, "remove")
  <2>1. /\ Goto(t, "remove")
        /\ UNCHANGED <<at, dev, saved, clearing, ok_to_run, sem, pciVars, intx, gicVars, irqs,
                       regions, reserved>>
    BY <1>4 DEF Proceed, locals, shared, listVars
  <2>2. hand' = hand /\ pc'[t] = "remove"
    BY <1>1, <2>1, GotoFrame
  <2>3. PcAt(t) => PcAt(t)'
    BY <1>1, <2>1, <2>2 DEF PcAt, IrqFor, IntxSteps, LineSteps, AppendSteps, RegisterSteps, FreeSteps, SlotSteps
  <2>4. ASSUME Solo(t), ListsAt(t)
        PROVE  ListsAt(t)' /\ Kept' = Kept
    <3>1. ~Assigning(t) /\ ~Assigning(t)'
      BY <1>2, <2>2 DEF Assigning
    <3>2. Kept = reserved /\ Kept' = reserved'
      BY <2>4, <3>1, ListsAlone
    <3>3. ToSet(irqs)' = ToSet(irqs) /\ ToSet(regions)' = ToSet(regions)
      BY <2>1 DEF ToSet
    <3>4. x \in ToSet(regions)
      BY <1>1, <1>4, ContainsIn DEF TypeOK
    <3>5. ListsAt(t)'
      BY <1>1, <2>1, <2>2, <2>4, <3>1, <3>2, <3>3, <3>4 DEF ListsAt, AppendSteps
    <3> QED
      BY <2>1, <3>2, <3>5
  <2>5. /\ "remove" \in Places /\ at' \in [Threads -> Nat] /\ \A u \in Threads : u # t => at'[u] = at[u]
        /\ irqs' \in Seq(EmuIrqs) /\ regions' \in Seq(Regions) /\ reserved' \subseteq Regions
    BY <1>1, <2>1 DEF TypeOK, Places
  <2> QED
    BY <1>1, <2>1, <2>3, <2>4, <2>5, ListsMove
<1> QED
  BY <1>3, <1>4 DEF FreeFind

\* list_remove
LEMMA FreeRemoveKeeps ==
  ASSUME EventInv, NEW t \in Threads, InHandler, FreeRemove(t)
  PROVE  EventInv'
<1> PICK x : x = hand[t].arg
  OBVIOUS
<1>1. TypeOK /\ OrderOK /\ PendOK
  BY DEF EventInv
<1>2. /\ pc[t] = "remove" /\ Goto(t, "release") /\ regions' = RemoveFirst(regions, x)
      /\ UNCHANGED <<at, dev, saved, clearing, ok_to_run, sem, pciVars, intx, gicVars, irqs, reserved>>
  BY DEF FreeRemove, locals
<1>3. hand' = hand /\ pc'[t] = "release"
  BY <1>1, <1>2, GotoFrame
<1>4. hand[t].op = "free"
  BY <1>2, ListHand DEF FreeSteps
<1>5. regions \in Seq(Regions)
  BY <1>1 DEF TypeOK
<1>6. PcAt(t) => PcAt(t)'
  BY <1>2, <1>3 DEF PcAt, IrqFor, IntxSteps, LineSteps, AppendSteps, RegisterSteps, FreeSteps, SlotSteps
<1>7. ASSUME Solo(t), ListsAt(t)
      PROVE  ListsAt(t)' /\ Kept' = Kept
  <2>1. ~Assigning(t) /\ ~Assigning(t)'
    BY <1>3, <1>4 DEF Assigning
  <2>2. Kept = reserved /\ Kept' = reserved'
    BY <1>7, <2>1, ListsAlone
  <2>3. Contains(regions, x) /\ IsInjective(regions) /\ ToSet(regions) = Kept
    BY <1>2, <1>5, <1>7, ContainsIn DEF ListsAt
  <2>4. IsInjective(regions') /\ ToSet(regions') = ToSet(regions) \ {x}
    BY <1>2, <1>5, <2>3, RemoveFacts
  <2>5. /\ ToSet(irqs)' = ToSet(irqs) /\ ToSet(regions)' = ToSet(regions')
        /\ IsInjective(regions)' = IsInjective(regions')
    BY <1>2 DEF ToSet, IsInjective
  <2>6. ToSet(regions)' = {r \in Kept' : r # x}
    BY <1>2, <2>2, <2>3, <2>4, <2>5
  <2>7. ListsAt(t)'
    BY <1>2, <1>3, <1>7, <2>1, <2>4, <2>5, <2>6 DEF ListsAt, AppendSteps
  <2> QED
    BY <1>2, <2>2, <2>7
<1>8. regions' \in Seq(Regions)
  BY <1>2, <1>5, RemoveType
<1>9. /\ "release" \in Places /\ at' \in [Threads -> Nat] /\ \A u \in Threads : u # t => at'[u] = at[u]
      /\ irqs' \in Seq(EmuIrqs) /\ reserved' \subseteq Regions
  BY <1>1, <1>2 DEF TypeOK, Places
<1> QED
  BY <1>2, <1>6, <1>7, <1>8, <1>9, ListsMove

\* What the last step on a list has to show.
LEMMA ListsDone ==
  ASSUME EventInv, NEW t \in Threads, InHandler, Done(t),
         UNCHANGED <<ok_to_run, sem, pciVars, intx, irqs, gicVars>>,
         regions' \in Seq(Regions), reserved' \subseteq Regions,
         pc[t] \in {"link", "release"}, hand[t].op \in {"assign", "free"},
         Solo(t) /\ SeqInv /\ ListsAt(t) =>
           /\ IsInjective(regions') /\ ToSet(regions') = reserved'
           /\ \A r \in Regions : r \in reserved' <=> IF r = hand[t].arg THEN hand[t].op = "assign"
                                                                       ELSE r \in Kept
  PROVE  EventInv'
<1>1. TypeOK /\ OrderOK /\ PendOK /\ PcOK /\ StartsOK /\ (~overlapped => SeqInv) /\ pc[t] # "idle"
  BY DEF EventInv
<1>2. UNCHANGED <<started, boot, overlapped, level, pulses>>
  BY DEF InHandler, devVars, gicVars
<1>3. /\ Pend' = Pend \ {hand[t]} /\ hand[t] \in Pend /\ failed' = failed /\ pc'[t] = "idle" /\ Others(t)
  BY <1>1, DoneFrame
<1>4. StartsOK'
  BY <1>1, <1>2, <1>3, StartsSame
<1>5. LineType' /\ ControlType'
  BY <1>1, <1>2, <1>3, TypeParts DEF LineType, ControlType
<1>6. IsInjective(irqs)' = IsInjective(irqs) /\ ToSet(regions)' = ToSet(regions')
      /\ IsInjective(regions)' = IsInjective(regions')
  BY DEF IsInjective, ToSet
<1>7. ListType'
  BY <1>1, <1>2, <1>6, TypeParts DEF ListType
<1>8. \A i : ~IsIrq(hand[t], i) /\ ~IsRaise(hand[t], i) /\ (IsRegion(hand[t], i) <=> i = hand[t].arg)
  BY DEF IsIrq, IsRaise, IsRegion
<1>9. ASSUME ~overlapped
      PROVE  /\ ListsOK'
             /\ \A r \in Regions : r \in Kept' <=> IF IsRegion(hand[t], r) THEN hand[t].op = "assign"
                                                                           ELSE r \in Kept
  <2>1. Solo(t) /\ SeqInv /\ ListsOK
    BY <1>1, <1>3, <1>9, Alone DEF SeqInv
  <2>2. ListsAt(t) /\ (ListsOK' <=> ListsAt(t)')
        /\ Kept' = {r \in reserved' : Assigning(t)' => r # hand'[t].arg}
    BY <2>1, ListsAlone
  <2>3. ~Assigning(t)'
    BY <1>3 DEF Assigning, AppendSteps
  <2>4. Kept' = reserved'
    BY <2>2, <2>3
  <2>5. ListsAt(t)'
    BY <1>3, <1>6, <2>1, <2>2, <2>3, <2>4 DEF ListsAt, AppendSteps
  <2> QED
    BY <1>8, <2>1, <2>2, <2>4, <2>5
<1>10. /\ pc[t] \notin PciBusy \cup {"idle", "find"} /\ pc[t] # "fall" /\ hand[t].op # "register"
       /\ ~IrqFor(hand[t], BackendSlots)
  BY DEF PciBusy, IrqFor
<1> QED
  BY <1>2, <1>4, <1>5, <1>7, <1>8, <1>9, <1>10, OtherDone

\* mmio_res_assign: list_append.
LEMMA AssignLinkKeeps ==
  ASSUME EventInv, NEW t \in Threads, InHandler, AssignLink(t)
  PROVE  EventInv'
<1> PICK x : x = hand[t].arg
  OBVIOUS
<1>1. TypeOK
  BY DEF EventInv
<1>2. /\ pc[t] = "link" /\ hand[t].op = "assign" /\ regions' \in Linked(regions, at[t], x) /\ Done(t)
      /\ UNCHANGED <<ok_to_run, sem, pciVars, intx, irqs, reserved, gicVars>>
  BY DEF AssignLink
<1>3. x \in Regions
  BY <1>2, ListHand
<1>4. regions \in Seq(Regions) /\ at[t] \in Nat /\ reserved' \subseteq Regions
  BY <1>1, <1>2 DEF TypeOK
<1>5. regions' \in Seq(Regions) /\ (at[t] = Len(regions) => regions' = Append(regions, x))
  BY <1>2, <1>3, <1>4, LinkFacts
<1>6. ASSUME Solo(t), ListsAt(t)
      PROVE  /\ IsInjective(regions') /\ ToSet(regions') = reserved'
             /\ \A r \in Regions : r \in reserved' <=> IF r = hand[t].arg THEN hand[t].op = "assign"
                                                                         ELSE r \in Kept
  <2>1. Assigning(t)
    BY <1>2 DEF Assigning, AppendSteps
  <2>2. Kept = reserved \ {x} /\ x \in reserved
    BY <1>6, <2>1, ListsAlone DEF ListsAt
  <2>3. ToSet(regions) = Kept /\ IsInjective(regions) /\ at[t] = Len(regions)
    BY <1>2, <1>6 DEF ListsAt
  <2>4. regions' = Append(regions, x) /\ x \notin ToSet(regions)
    BY <1>5, <2>2, <2>3
  <2>5. IsInjective(regions') /\ ToSet(regions') = ToSet(regions) \cup {x}
    BY <1>3, <1>4, <2>3, <2>4, AppendFacts, LinkInjective
  <2> QED
    BY <1>2, <2>2, <2>3, <2>5
<1> QED
  BY <1>2, <1>4, <1>5, <1>6, ListsDone

\* mmio_res_free: vm_reservation_free.
LEMMA FreeReleaseKeeps ==
  ASSUME EventInv, NEW t \in Threads, InHandler, FreeRelease(t)
  PROVE  EventInv'
<1> PICK x : x = hand[t].arg
  OBVIOUS
<1>1. TypeOK
  BY DEF EventInv
<1>2. /\ pc[t] = "release" /\ reserved' = reserved \ {x} /\ Done(t)
      /\ UNCHANGED <<ok_to_run, sem, pciVars, intx, irqs, regions, gicVars>>
  BY DEF FreeRelease
<1>3. hand[t].op = "free"
  BY <1>2, ListHand DEF FreeSteps
<1>4. regions' \in Seq(Regions) /\ reserved' \subseteq Regions
  BY <1>1, <1>2 DEF TypeOK
<1>5. ASSUME Solo(t), ListsAt(t)
      PROVE  /\ IsInjective(regions') /\ ToSet(regions') = reserved'
             /\ \A r \in Regions : r \in reserved' <=> IF r = hand[t].arg THEN hand[t].op = "assign"
                                                                         ELSE r \in Kept
  <2>1. ~Assigning(t)
    BY <1>3 DEF Assigning
  <2>2. Kept = reserved
    BY <1>5, <2>1, ListsAlone
  <2>3. ToSet(regions) = {r \in Kept : r # x} /\ IsInjective(regions)
    BY <1>2, <1>5 DEF ListsAt
  <2>4. ToSet(regions) = reserved'
    BY <1>2, <2>2, <2>3
  <2> QED
    BY <1>2, <1>3, <2>2, <2>3, <2>4
<1> QED
  BY <1>2, <1>3, <1>4, <1>5, ListsDone

---------------------------------------------------------------------------
(* The table of PCI devices and the shared lines *)

\* The table, the lines and the thread that works on them, the other being
\* idle.
TableAt(t) ==
  /\ pci_dev_count <= MaxDevs
  /\ \A j \in Listed : pci_devs[j] # NoDev /\ pci_devs[j].bslot \in known
                                           /\ pci_devs[j].slot \in bus
  /\ \A j \in 0 .. MaxDevs - 1 : j \in Listed \/ pci_devs[j] = NoDev
                                 \/ (pc[t] = "put_count" /\ at[t] = j)
  /\ \A j, k \in Listed :
       pci_devs[j].bslot = pci_devs[k].bslot \/ pci_devs[j].slot = pci_devs[k].slot => j = k
  /\ \A s \in bus :
       Taken(s) \/ (pc[t] \in {"count", "publish", "put_count", "put_dev"} /\ dev[t] = s)

RegisterAt(t) ==
  /\ pc[t] = "take" => dev[t] \notin bus
  /\ pc[t] \in {"count", "publish", "put_count", "put_dev"} => dev[t] \in bus /\ ~Taken(dev[t])
  /\ pc[t] \in {"publish", "put_count"} => at[t] = pci_dev_count
  /\ pc[t] = "put_dev" => at[t] + 1 = pci_dev_count
  /\ pc[t] = "put_count" =>
       at[t] < MaxDevs /\ pci_devs[at[t]] = [bslot |-> hand[t].arg, slot |-> dev[t]]

FindAt(t) ==
  /\ pc[t] \in {"find", "entry"} => \A j \in Listed : j < at[t] => pci_devs[j].bslot # hand[t].arg
  /\ pc[t] = "entry" => at[t] < pci_dev_count
  /\ pc[t] \in {"load", "store", "level"} =>
       \E j \in Listed : pci_devs[j].bslot = hand[t].arg /\ pci_devs[j].slot = dev[t]
  /\ clearing[t] => hand[t].irqop = "pulse"

IntxAt(t) ==
  /\ \A p \in Pins : \A s \in intx[p] : pci_map_irq(s) = p /\ Taken(s)
  /\ \A p \in Pins : level[IntxBase + p] = (intx[p] # {}) \/ (pc[t] = "level" /\ Pin(t) = p)
  /\ pc[t] \in {"store", "level"} => saved[t] = intx[Pin(t)]
  /\ pc[t] = "level" => (dev[t] \in saved[t] <=> Active(t))

PciAt(t) == TableAt(t) /\ RegisterAt(t) /\ FindAt(t) /\ IntxAt(t)

LEMMA PciAlone ==
  ASSUME NEW t \in Threads, Solo(t)
  PROVE  /\ TableOK /\ RegisterOK /\ FindOK /\ IntxOK <=> PciAt(t)
         /\ TableOK' /\ RegisterOK' /\ FindOK' /\ IntxOK' <=> PciAt(t)'
         /\ Listed = {j \in 0 .. MaxDevs - 1 : j < pci_dev_count /\ (pc[t] = "put_dev" => j # at[t])}
         /\ Listed' = {j \in 0 .. MaxDevs - 1 : j < pci_dev_count' /\ (pc'[t] = "put_dev" => j # at'[t])}
<1>1. \A u \in Threads : u # t => pc[u] = "idle" /\ pc'[u] = "idle" /\ ~clearing[u] /\ ~clearing'[u]
  BY DEF Solo
<1>2. TableOK <=> TableAt(t)
  BY <1>1 DEF TableOK, TableAt
<1>3. TableOK' <=> TableAt(t)'
  BY <1>1 DEF TableOK, TableAt
<1>4. RegisterOK <=> RegisterAt(t)
  BY <1>1 DEF RegisterOK, RegisterAt
<1>5. RegisterOK' <=> RegisterAt(t)'
  BY <1>1 DEF RegisterOK, RegisterAt
<1>6. FindOK <=> FindAt(t)
  BY <1>1 DEF FindOK, FindAt
<1>7. FindOK' <=> FindAt(t)'
  BY <1>1 DEF FindOK, FindAt
<1>8. IntxOK <=> IntxAt(t)
  BY <1>1 DEF IntxOK, IntxAt
<1>9. IntxOK' <=> IntxAt(t)'
  BY <1>1 DEF IntxOK, IntxAt
<1>10. Listed = {j \in 0 .. MaxDevs - 1 : j < pci_dev_count /\ (pc[t] = "put_dev" => j # at[t])}
  BY <1>1 DEF Listed
<1>11. Listed' = {j \in 0 .. MaxDevs - 1 : j < pci_dev_count' /\ (pc'[t] = "put_dev" => j # at'[t])}
  BY <1>1 DEF Listed
<1> QED
  BY <1>2, <1>3, <1>4, <1>5, <1>6, <1>7, <1>8, <1>9, <1>10, <1>11 DEF PciAt

\* What a thread at a place of the table or the lines knows of its event.
LEMMA PciHand ==
  ASSUME EventInv, NEW t \in Threads, pc[t] \in IntxSteps \cup RegisterSteps
  PROVE  /\ hand[t] \in Pend /\ hand[t].arg \in BackendSlots
         /\ pc[t] \in IntxSteps => hand[t].op = "set_irq" /\ hand[t].irqop \in {"set", "clr", "pulse"}
         /\ pc[t] \in RegisterSteps => hand[t].op = "register"
         /\ pc[t] \in SlotSteps => dev[t] \in VmmSlots /\ Pin(t) \in Pins
<1>1. TypeOK /\ PcAt(t) /\ PendOK
  BY DEF EventInv, PcOK
<1>2. hand[t] \in Pend /\ hand[t] \in Events
  BY <1>1 DEF PcAt, Pend, TypeOK, IntxSteps, RegisterSteps
<1>3. Good(hand[t])
  BY <1>1, <1>2 DEF PendOK
<1>4. pc[t] \in IntxSteps => hand[t].op = "set_irq" /\ hand[t].arg \in BackendSlots
  BY <1>1 DEF PcAt, IrqFor
<1>5. pc[t] \in RegisterSteps => hand[t].op = "register"
  BY <1>1 DEF PcAt
<1>6. hand[t].arg \in BackendSlots
  BY <1>3, <1>4, <1>5 DEF Good
<1>7. pc[t] \in IntxSteps => hand[t].irqop \in {"set", "clr", "pulse"}
  BY <1>2, <1>3, <1>4 DEF Good, Events
<1>8. pc[t] \in SlotSteps => dev[t] \in VmmSlots /\ Pin(t) \in Pins
  BY <1>1, Kinds DEF PcAt, Pin
<1> QED
  BY <1>2, <1>4, <1>5, <1>6, <1>7, <1>8

\* Without overlap: the event in hand is about a device that is in the table,
\* or that is not and for which there is room.
LEMMA PciNow ==
  ASSUME RoomForDevices, EventInv, ~overlapped, NEW t \in Threads,
         pc[t] \in IntxSteps \cup RegisterSteps
  PROVE  /\ pc[t] \in IntxSteps => Registered(hand[t].arg)
         /\ pc[t] \in RegisterSteps => hand[t].arg \in known /\ ~Registered(hand[t].arg)
         /\ pc[t] \in RegisterSteps /\ pc[t] # "put_dev" =>
              pci_dev_count < MaxDevs /\ \E s \in VmmSlots : ~Taken(s)
<1>1. TypeOK /\ OrderOK /\ PendOK /\ PcOK /\ OneBusy /\ TableOK /\ KnownOK /\ LinesOK /\ pc[t] # "idle"
  BY DEF EventInv, SeqInv, IntxSteps, RegisterSteps
<1>2. Oldest(hand[t], Pend) /\ \A u \in Threads : u # t => pc[u] = "idle"
  BY <1>1, InHand
<1>3. /\ hand[t] \in Pend /\ hand[t].arg \in BackendSlots
      /\ pc[t] \in IntxSteps => hand[t].op = "set_irq"
      /\ pc[t] \in RegisterSteps => hand[t].op = "register"
  BY PciHand
<1>4. pc[t] \in IntxSteps => Registered(hand[t].arg)
  <2> SUFFICES ASSUME pc[t] \in IntxSteps, ~Registered(hand[t].arg) PROVE FALSE
    OBVIOUS
  <2>1. PICK f \in Pend : f.n < hand[t].n
    BY <1>1, <1>3 DEF LinesOK
  <2>2. hand[t].n <= f.n /\ f.n \in Nat /\ hand[t].n \in Nat
    BY <1>1, <1>2, <1>3, <2>1, PendFacts DEF Oldest
  <2> QED
    BY <2>1, <2>2
<1>5. pc[t] \in RegisterSteps => hand[t].arg \in known /\ ~Registered(hand[t].arg)
  BY <1>1, <1>3 DEF KnownOK
<1>6. pc[t] \in RegisterSteps /\ pc[t] # "put_dev" =>
        pci_dev_count < MaxDevs /\ \E s \in VmmSlots : ~Taken(s)
  <2> SUFFICES ASSUME pc[t] \in RegisterSteps, pc[t] # "put_dev"
               PROVE  pci_dev_count < MaxDevs /\ \E s \in VmmSlots : ~Taken(s)
    OBVIOUS
  <2>1. \A u \in Threads : pc[u] # "put_dev"
    BY <1>2
  <2> QED
    BY <1>1, <1>3, <1>5, <2>1, RoomLeft
<1> QED
  BY <1>4, <1>5, <1>6

\* What a step inside a handler of PCI events has to show.
LEMMA PciMove ==
  ASSUME EventInv, NEW t \in Threads, NEW l, InHandler, Goto(t, l), Others(t),
         RunType', TableType', LineType', UNCHANGED <<ok_to_run, sem, listVars, pulses>>,
         \A i \in MsiIrqs \cup EmuIrqs : level'[i] = level[i],
         pc[t] \in IntxSteps \cup RegisterSteps, l \in IntxSteps \cup RegisterSteps,
         PcAt(t) => PcAt(t)',
         ~overlapped /\ Solo(t) /\ SeqInv /\ PciAt(t) =>
           /\ PciAt(t)'
           /\ \A b : Registered(b)' = Registered(b)
           /\ \A b \in BackendSlots : ~IsIrq(hand[t], b) => On(b)' = On(b)
  PROVE  EventInv'
<1>1. TypeOK /\ OrderOK /\ PendOK /\ PcOK /\ (~overlapped => SeqInv) /\ pc[t] # "idle"
  BY DEF EventInv, IntxSteps, RegisterSteps
<1>2. /\ SendType' /\ hand' = hand /\ failed' = failed /\ pc'[t] = l
  BY <1>1, GotoFrame
<1>3. UNCHANGED <<overlapped, boot>>
  BY DEF InHandler
<1>4. TypeOK'
  <2>1. ControlType'
    BY <1>1, <1>2, <1>3, TypeParts DEF ControlType
  <2>2. ListType'
    BY <1>1, <1>3, TypeParts, TypeSame
  <2> QED
    BY <1>2, <2>1, <2>2, TypePartsNext
<1>5. ASSUME ~overlapped
      PROVE  /\ TableOK' /\ RegisterOK' /\ FindOK' /\ IntxOK' /\ ListsOK' /\ Kept' = Kept
             /\ \A b : Registered(b)' = Registered(b)
             /\ \A k \in BackendSlots \cup EmuIrqs : IrqEvents(k) = {} => Current(k)' = Current(k)
  <2>1. Solo(t) /\ SeqInv
    BY <1>1, <1>5, Alone
  <2>2. PciAt(t)
    BY <2>1, PciAlone DEF SeqInv
  <2>3. TableOK' /\ RegisterOK' /\ FindOK' /\ IntxOK'
    BY <1>5, <2>1, <2>2, PciAlone
  <2>4. pc[t] \notin ListBusy /\ pc'[t] \notin ListBusy
    BY <1>2 DEF ListBusy, IntxSteps, RegisterSteps
  <2>5. ListsOK' /\ Kept' = Kept
    BY <2>1, <2>4, ListsFrame DEF SeqInv
  <2>6. \A k \in BackendSlots \cup EmuIrqs : IrqEvents(k) = {} => Current(k)' = Current(k)
    <3> SUFFICES ASSUME NEW k \in BackendSlots \cup EmuIrqs, IrqEvents(k) = {}
                 PROVE  Current(k)' = Current(k)
      OBVIOUS
    <3>1. ~IsIrq(hand[t], k)
      BY PciHand DEF IrqEvents, IsIrq
    <3> QED
      BY <1>5, <2>1, <2>2, <3>1 DEF Current
  <2> QED
    BY <1>5, <2>1, <2>2, <2>3, <2>5, <2>6
<1>6. pc[t] \notin {"idle", "fall"} /\ l \notin {"idle", "fall"} /\ PcAt(t)'
  BY <1>1 DEF IntxSteps, RegisterSteps, PcOK
<1> QED
  BY <1>4, <1>5, <1>6, GotoStep

---------------------------------------------------------------------------
(* handle_pci_intx *)

\* A step that changes no shared state: what it has to show.
LEMMA PciRead ==
  ASSUME EventInv, NEW t \in Threads, NEW l \in Places, InHandler, Goto(t, l), UNCHANGED shared,
         at' \in [Threads -> Nat], dev' \in [Threads -> {0} \cup VmmSlots],
         saved' \in [Threads -> SUBSET VmmSlots], clearing' = clearing,
         \A u \in Threads : u # t => at'[u] = at[u] /\ dev'[u] = dev[u] /\ saved'[u] = saved[u],
         pc[t] \in IntxSteps \cup RegisterSteps, l \in IntxSteps \cup RegisterSteps,
         pc[t] # "put_dev", l # "put_dev",
         PcAt(t) /\ hand' = hand /\ pc'[t] = l => PcAt(t)',
         /\ ~overlapped /\ Solo(t) /\ SeqInv /\ PciAt(t) /\ hand' = hand /\ pc'[t] = l /\ Listed' = Listed
         /\ \A s : Taken(s)' = Taken(s)
         => PciAt(t)'
  PROVE  EventInv'
<1>1. TypeOK /\ OrderOK /\ PendOK
  BY DEF EventInv
<1>2. /\ hand' = hand /\ pc'[t] = l /\ \A u \in Threads : u # t => pc'[u] = pc[u]
      /\ pc' \in [Threads -> Places]
  BY <1>1, GotoFrame
<1>3. Others(t)
  BY <1>2 DEF Others
<1>4. /\ UNCHANGED <<ok_to_run, sem, pciVars, listVars, gicVars, intx, level, pulses, pci_devs, pci_dev_count>>
  BY DEF shared, gicVars, pciVars
<1>5. RunType' /\ TableType' /\ LineType'
  <2>1. RunType'
    BY <1>1, <1>2, TypeParts DEF RunType
  <2> QED
    BY <1>1, <1>4, <2>1, TypeParts, TypeSame
<1>6. ASSUME ~overlapped, Solo(t), SeqInv, PciAt(t)
      PROVE  /\ PciAt(t)'
             /\ \A b : Registered(b)' = Registered(b)
             /\ \A b \in BackendSlots : On(b)' = On(b)
  <2>1. Listed' = Listed
    BY <1>2, <1>4, <1>6, PciAlone
  <2>2. /\ \A b : Registered(b)' = Registered(b)
        /\ \A s : Taken(s)' = Taken(s)
        /\ \A b : On(b)' = On(b)
    BY <1>4, <2>1, TableSame
  <2> QED
    BY <1>2, <1>6, <2>1, <2>2
<1> QED
  BY <1>2, <1>3, <1>4, <1>5, <1>6, PciMove

\* pcidev_find, loop condition: it finds a device, except with overlap.
LEMMA FindTestKeeps ==
  ASSUME RoomForDevices, EventInv, NEW t \in Threads, InHandler, FindTest(t)
  PROVE  EventInv'
<1>1. TypeOK /\ pc[t] = "find" /\ pc[t] \in IntxSteps \cup RegisterSteps
  BY DEF EventInv, FindTest, IntxSteps
<1>2. CASE at[t] >= pci_dev_count /\ Fail
  <2>1. overlapped
    <3> SUFFICES ASSUME ~overlapped PROVE FALSE
      OBVIOUS
    <3>1. TableOK /\ FindOK
      BY DEF EventInv, SeqInv
    <3>2. Registered(hand[t].arg)
      BY <1>1, PciNow DEF IntxSteps
    <3>3. PICK j \in Listed : pci_devs[j].bslot = hand[t].arg
      BY <3>2 DEF Registered
    <3>4. j < pci_dev_count /\ j \in Nat
      BY <1>1, <3>1, Entries
    <3>5. ~(j < at[t])
      BY <1>1, <3>1, <3>3 DEF FindOK
    <3> QED
      BY <1>1, <1>2, <3>4, <3>5 DEF TypeOK
  <2> QED
    BY <1>2, <2>1, FailKeeps
<1>3. CASE at[t] < pci_dev_count /\ Proceed(t, "entry")
  <2>1. Goto(t, "entry") /\ UNCHANGED <<at, dev, saved, clearing, shared>>
    BY <1>3 DEF Proceed, locals
  <2>2. PcAt(t) /\ hand' = hand /\ pc'[t] = "entry" => PcAt(t)'
    BY <1>1, <2>1 DEF PcAt, IrqFor, IntxSteps, LineSteps, AppendSteps, RegisterSteps, FreeSteps, SlotSteps
  <2>3. ASSUME PciAt(t), hand' = hand, pc'[t] = "entry", Listed' = Listed, \A s : Taken(s)' = Taken(s)
        PROVE  PciAt(t)'
    <3>1. UNCHANGED <<pci_devs, pci_dev_count, bus, intx, level, known>>
      BY <2>1 DEF shared, pciVars, gicVars, InHandler, devVars
    <3>2. TableAt(t)'
      BY <1>1, <2>3, <3>1 DEF PciAt, TableAt
    <3>3. RegisterAt(t)'
      BY <2>3 DEF RegisterAt
    <3>4. FindAt(t)'
      BY <1>1, <1>3, <2>1, <2>3, <3>1 DEF PciAt, FindAt
    <3>5. IntxAt(t)'
      BY <1>1, <2>3, <3>1 DEF PciAt, IntxAt
    <3> QED
      BY <3>2, <3>3, <3>4, <3>5 DEF PciAt
  <2>4. /\ at \in [Threads -> Nat] /\ dev \in [Threads -> {0} \cup VmmSlots]
        /\ saved \in [Threads -> SUBSET VmmSlots] /\ "entry" \in Places
        /\ "entry" \in IntxSteps \cup RegisterSteps
    BY <1>1 DEF TypeOK, Places, IntxSteps
  <2> QED
    BY <1>1, <2>1, <2>2, <2>3, <2>4, PciRead
<1> QED
  BY <1>2, <1>3 DEF FindTest

\* pcidev_find, body: the entry is there, except with overlap.
LEMMA FindEntryKeeps ==
  ASSUME EventInv, NEW t \in Threads, InHandler, FindEntry(t)
  PROVE  EventInv'
<1> PICK d : d = pci_devs[at[t]]
  OBVIOUS
<1>1. TypeOK /\ pc[t] = "entry" /\ pc[t] \in IntxSteps \cup RegisterSteps
  BY DEF EventInv, FindEntry, IntxSteps
<1>2. CASE (at[t] >= MaxDevs \/ d = NoDev) /\ Fail
  <2>1. overlapped
    <3> SUFFICES ASSUME ~overlapped PROVE FALSE
      OBVIOUS
    <3>1. TableOK /\ FindOK /\ OneBusy /\ OrderOK /\ PendOK /\ PcOK
      BY DEF EventInv, SeqInv
    <3>2. \A u \in Threads : pc[u] # "put_dev"
      <4>1. \A u \in Threads : u # t => pc[u] = "idle"
        BY <1>1, <3>1, InHand
      <4> QED
        BY <1>1, <4>1
    <3>3. at[t] < pci_dev_count /\ pci_dev_count <= MaxDevs /\ at[t] \in Nat /\ pci_dev_count \in Nat /\ MaxDevs \in Nat
      BY <1>1, <3>1, EventAssumption DEF FindOK, TableOK, TypeOK
    <3>4. at[t] \in Listed
      BY <3>2, <3>3 DEF Listed
    <3> QED
      BY <1>2, <3>1, <3>3, <3>4 DEF TableOK
  <2> QED
    BY <1>2, <2>1, FailKeeps
<1>3. ASSUME at[t] < MaxDevs, d # NoDev
      PROVE  at[t] \in 0 .. MaxDevs - 1 /\ d.bslot \in BackendSlots /\ d.slot \in VmmSlots /\ at[t] \in Nat
  <2>1. at[t] \in 0 .. MaxDevs - 1 /\ at[t] \in Nat
    BY <1>1, <1>3, EventAssumption DEF TypeOK
  <2>2. d \in [bslot : BackendSlots, slot : VmmSlots] \cup {NoDev}
    BY <1>1, <2>1 DEF TypeOK
  <2> QED
    BY <1>3, <2>1, <2>2
<1>4. CASE /\ at[t] < MaxDevs /\ d # NoDev /\ d.bslot = hand[t].arg
           /\ dev' = [dev EXCEPT ![t] = d.slot] /\ Goto(t, "load")
           /\ UNCHANGED <<at, saved, clearing, shared>>
  <2>1. /\ dev' \in [Threads -> {0} \cup VmmSlots] /\ dev'[t] = d.slot /\ d.slot \in VmmSlots
        /\ \A u \in Threads : u # t => dev'[u] = dev[u]
    BY <1>1, <1>3, <1>4 DEF TypeOK
  <2>2. PcAt(t) /\ hand' = hand /\ pc'[t] = "load" => PcAt(t)'
    BY <1>1, <1>4, <2>1 DEF PcAt, IrqFor, IntxSteps, LineSteps, AppendSteps, RegisterSteps, FreeSteps, SlotSteps
  <2>3. ASSUME Solo(t), PciAt(t), hand' = hand, pc'[t] = "load", Listed' = Listed, \A s : Taken(s)' = Taken(s)
        PROVE  PciAt(t)'
    <3>1. UNCHANGED <<pci_devs, pci_dev_count, bus, intx, level, known>>
      BY <1>4 DEF shared, pciVars, gicVars, InHandler, devVars
    <3>2. TableAt(t)'
      BY <1>1, <2>3, <3>1 DEF PciAt, TableAt
    <3>3. RegisterAt(t)'
      BY <2>3 DEF RegisterAt
    <3>4. FindAt(t)'
      <4>1. at[t] < pci_dev_count
        BY <1>1, <2>3 DEF PciAt, FindAt
      <4>2. at[t] \in Listed
        BY <1>1, <1>3, <1>4, <2>3, <4>1, PciAlone
      <4>3. \E j \in Listed' : pci_devs'[j].bslot = hand'[t].arg /\ pci_devs'[j].slot = dev'[t]
        BY <1>4, <2>1, <2>3, <3>1, <4>2
      <4> QED
        BY <1>4, <2>3, <4>3 DEF PciAt, FindAt
    <3>5. IntxAt(t)'
      BY <1>1, <2>3, <3>1 DEF PciAt, IntxAt
    <3> QED
      BY <3>2, <3>3, <3>4, <3>5 DEF PciAt
  <2>4. /\ at' \in [Threads -> Nat] /\ saved' \in [Threads -> SUBSET VmmSlots] /\ "load" \in Places
        /\ "load" \in IntxSteps \cup RegisterSteps
    BY <1>1, <1>4 DEF TypeOK, Places, IntxSteps
  <2> QED
    BY <1>1, <1>4, <2>1, <2>2, <2>3, <2>4, PciRead
<1>5. CASE /\ at[t] < MaxDevs /\ d # NoDev /\ d.bslot # hand[t].arg
           /\ at' = [at EXCEPT ![t] = @ + 1] /\ Goto(t, "find")
           /\ UNCHANGED <<dev, saved, clearing, shared>>
  <2>1. /\ at' \in [Threads -> Nat] /\ at'[t] = at[t] + 1 /\ \A u \in Threads : u # t => at'[u] = at[u]
    BY <1>1, <1>3, <1>5 DEF TypeOK
  <2>2. PcAt(t) /\ hand' = hand /\ pc'[t] = "find" => PcAt(t)'
    BY <1>1, <1>5, <2>1 DEF PcAt, IrqFor, IntxSteps, LineSteps, AppendSteps, RegisterSteps, FreeSteps, SlotSteps
  <2>3. ASSUME ~overlapped, SeqInv, PciAt(t), hand' = hand, pc'[t] = "find", Listed' = Listed, \A s : Taken(s)' = Taken(s)
        PROVE  PciAt(t)'
    <3>1. UNCHANGED <<pci_devs, pci_dev_count, bus, intx, level, known>>
      BY <1>5 DEF shared, pciVars, gicVars, InHandler, devVars
    <3>2. TableAt(t)'
      BY <1>1, <2>3, <3>1 DEF PciAt, TableAt
    <3>3. RegisterAt(t)'
      BY <2>3 DEF RegisterAt
    <3>4. FindAt(t)'
      <4>1. \A j \in Listed : j \in Nat
        BY <1>1, <2>3, Entries DEF SeqInv
      <4>2. \A j \in Listed : j < at'[t] => j < at[t] \/ j = at[t]
        BY <1>3, <1>5, <2>1, <4>1
      <4>3. \A j \in Listed : j < at'[t] => pci_devs[j].bslot # hand[t].arg
        BY <1>1, <1>5, <2>3, <4>2 DEF PciAt, FindAt
      <4> QED
        BY <1>5, <2>3, <3>1, <4>3 DEF PciAt, FindAt
    <3>5. IntxAt(t)'
      BY <1>1, <2>3, <3>1 DEF PciAt, IntxAt
    <3> QED
      BY <3>2, <3>3, <3>4, <3>5 DEF PciAt
  <2>4. /\ dev' \in [Threads -> {0} \cup VmmSlots] /\ saved' \in [Threads -> SUBSET VmmSlots] /\ "find" \in Places
        /\ "find" \in IntxSteps \cup RegisterSteps
    BY <1>1, <1>5 DEF TypeOK, Places, IntxSteps
  <2> QED
    BY <1>1, <1>5, <2>1, <2>2, <2>3, <2>4, PciRead
<1> QED
  BY <1>2, <1>4, <1>5 DEF FindEntry

\* shared_irq_line_change, load.
LEMMA ChangeLoadKeeps ==
  ASSUME EventInv, NEW t \in Threads, InHandler, ChangeLoad(t)
  PROVE  EventInv'
<1>1. TypeOK /\ pc[t] = "load" /\ pc[t] \in IntxSteps \cup RegisterSteps /\ pc[t] \in SlotSteps
  BY DEF EventInv, ChangeLoad, IntxSteps, SlotSteps
<1>2. /\ saved' = [saved EXCEPT ![t] = intx[Pin(t)]] /\ Goto(t, "store")
      /\ UNCHANGED <<at, dev, clearing, shared>>
  BY DEF ChangeLoad
<1>3. Pin(t) \in Pins
  BY <1>1, PciHand
<1>4. /\ saved' \in [Threads -> SUBSET VmmSlots] /\ saved'[t] = intx[Pin(t)]
      /\ \A u \in Threads : u # t => saved'[u] = saved[u]
  BY <1>1, <1>2, <1>3 DEF TypeOK
<1>5. PcAt(t) /\ hand' = hand /\ pc'[t] = "store" => PcAt(t)'
  BY <1>1, <1>2 DEF PcAt, IrqFor, IntxSteps, LineSteps, AppendSteps, RegisterSteps, FreeSteps, SlotSteps
<1>6. ASSUME PciAt(t), hand' = hand, pc'[t] = "store", Listed' = Listed, \A s : Taken(s)' = Taken(s)
      PROVE  PciAt(t)'
  <2>1. UNCHANGED <<pci_devs, pci_dev_count, bus, intx, level, known>>
    BY <1>2 DEF shared, pciVars, gicVars, InHandler, devVars
  <2>2. TableAt(t)'
    BY <1>1, <1>6, <2>1 DEF PciAt, TableAt
  <2>3. RegisterAt(t)'
    BY <1>6 DEF RegisterAt
  <2>4. FindAt(t)'
    BY <1>1, <1>2, <1>6, <2>1 DEF PciAt, FindAt
  <2>5. IntxAt(t)'
    <3>1. Pin(t)' = Pin(t)
      BY <1>2 DEF Pin
    <3> QED
      BY <1>1, <1>4, <1>6, <2>1, <3>1 DEF PciAt, IntxAt
  <2> QED
    BY <2>2, <2>3, <2>4, <2>5 DEF PciAt
<1>7. /\ at' \in [Threads -> Nat] /\ dev' \in [Threads -> {0} \cup VmmSlots] /\ "store" \in Places
      /\ "store" \in IntxSteps \cup RegisterSteps
  BY <1>1, <1>2 DEF TypeOK, Places, IntxSteps
<1> QED
  BY <1>1, <1>2, <1>4, <1>5, <1>6, <1>7, PciRead

\* pcidev_intx_set returns, with the lines settled.
LEMMA IntxReturnKeeps ==
  ASSUME EventInv, NEW t \in Threads, InHandler, IntxReturn(t), pc[t] \in {"store", "level"},
         UNCHANGED <<ok_to_run, sem, pciVars, listVars, pulses>>, LineType',
         \A i \in MsiIrqs \cup EmuIrqs : level'[i] = level[i],
         ~overlapped /\ Solo(t) /\ SeqInv /\ PciAt(t) /\ Listed' = Listed =>
           /\ \A p \in Pins : /\ level'[IntxBase + p] = (intx'[p] # {})
                              /\ \A s \in intx'[p] : pci_map_irq(s) = p /\ Taken(s)
           /\ \A b \in BackendSlots : b # hand[t].arg => On(b)' = On(b)
           /\ \A b \in BackendSlots : b = hand[t].arg => On(b)' = Active(t)
  PROVE  EventInv'
<1>1. TypeOK /\ OrderOK /\ PendOK /\ PcOK /\ StartsOK /\ (~overlapped => SeqInv)
  BY DEF EventInv
<1>2. /\ hand[t] \in Pend /\ hand[t].arg \in BackendSlots /\ hand[t].op = "set_irq"
      /\ hand[t].irqop \in {"set", "clr", "pulse"}
      /\ pc[t] \in IntxSteps \cup RegisterSteps
  BY PciHand DEF IntxSteps
<1>3. UNCHANGED <<known, overlapped, boot, started, pci_devs, pci_dev_count, bus>>
  BY DEF InHandler, devVars, pciVars
<1>4. ASSUME Solo(t), pc'[t] \in {"idle", "find"}
      PROVE  /\ Listed' = Listed
             /\ \A b : Registered(b)' = Registered(b)
             /\ \A s : Taken(s)' = Taken(s)
  <2>1. Listed' = Listed
    BY <1>3, <1>4, PciAlone
  <2> QED
    BY <1>3, <2>1 DEF Registered, Taken
<1>5. ASSUME ~overlapped, Solo(t), SeqInv, PciAt(t), pc'[t] \in {"idle", "find"}, at'[t] = 0,
             clearing'[t] => hand'[t].irqop = "pulse"
      PROVE  PciAt(t)'
  <2>1. TableAt(t)'
    <3>1. TableAt(t)
      BY <1>5 DEF PciAt
    <3>2. \A j \in 0 .. MaxDevs - 1 : j \in Listed \/ pci_devs[j] = NoDev
      BY <3>1 DEF TableAt
    <3>3. \A s \in bus : Taken(s)
      BY <3>1 DEF TableAt
    <3> QED
      BY <1>3, <1>4, <1>5, <3>1, <3>2, <3>3 DEF TableAt
  <2>2. RegisterAt(t)'
    BY <1>5 DEF RegisterAt
  <2>3. FindAt(t)'
    <3>1. \A j \in Listed' : ~(j < at'[t])
      BY <1>1, <1>4, <1>5, Entries DEF SeqInv
    <3> QED
      BY <1>5, <3>1 DEF FindAt
  <2>4. IntxAt(t)'
    BY <1>4, <1>5 DEF IntxAt
  <2> QED
    BY <2>1, <2>2, <2>3, <2>4 DEF PciAt
<1>6. CASE /\ hand[t].irqop = "pulse" /\ ~clearing[t]
           /\ clearing' = [clearing EXCEPT ![t] = TRUE]
           /\ at' = [at EXCEPT ![t] = 0] /\ dev' = [dev EXCEPT ![t] = 0]
           /\ saved' = [saved EXCEPT ![t] = {}]
           /\ Goto(t, "find")
  <2>1. /\ hand' = hand /\ pc'[t] = "find" /\ pc' \in [Threads -> Places]
        /\ \A u \in Threads : u # t => pc'[u] = pc[u]
    BY <1>1, <1>6, GotoFrame DEF Places
  <2>2. Others(t) /\ at'[t] = 0
    BY <1>1, <1>6, <2>1 DEF Others, TypeOK
  <2>3. RunType'
    <3>1. RunType
      BY <1>1, TypeParts
    <3>2. /\ at' \in [Threads -> Nat] /\ dev' \in [Threads -> {0} \cup VmmSlots]
          /\ saved' \in [Threads -> SUBSET VmmSlots] /\ clearing' \in [Threads -> BOOLEAN]
      BY <1>6, <3>1 DEF RunType
    <3> QED
      BY <2>1, <3>1, <3>2 DEF RunType
  <2>4. TableType'
    BY <1>1, TypeParts, TypeSame
  <2>5. PcAt(t) => PcAt(t)'
    BY <1>2, <2>1 DEF PcAt, IrqFor, IntxSteps, LineSteps, AppendSteps, RegisterSteps, FreeSteps, SlotSteps
  <2>6. ASSUME ~overlapped, Solo(t), SeqInv, PciAt(t)
        PROVE  /\ PciAt(t)'
               /\ \A b : Registered(b)' = Registered(b)
               /\ \A b \in BackendSlots : ~IsIrq(hand[t], b) => On(b)' = On(b)
    <3>1. PciAt(t)'
      BY <1>5, <1>6, <2>1, <2>2, <2>6
    <3>2. \A b \in BackendSlots : ~IsIrq(hand[t], b) => b # hand[t].arg
      BY <1>2 DEF IsIrq
    <3> QED
      BY <1>4, <2>1, <2>6, <3>1, <3>2
  <2>7. "find" \in IntxSteps \cup RegisterSteps
    BY DEF IntxSteps
  <2> QED
    BY <1>2, <1>6, <2>2, <2>3, <2>4, <2>5, <2>6, <2>7, PciMove
<1>7. CASE ~(hand[t].irqop = "pulse" /\ ~clearing[t]) /\ Done(t)
  <2>1. /\ Pend' = Pend \ {hand[t]} /\ SendType' /\ RunType' /\ failed' = failed
        /\ pc'[t] = "idle" /\ at'[t] = 0 /\ clearing'[t] = FALSE /\ Others(t)
    BY <1>1, <1>7, DoneFrame
  <2>2. TypeOK'
    <3>1. ControlType'
      BY <1>1, <1>3, <2>1, TypeParts DEF ControlType
    <3> QED
      BY <1>1, <1>3, <2>1, <3>1, TypeParts, TypePartsNext, TypeSame
  <2>3. StartsOK'
    BY <1>1, <1>2, <1>3, <2>1, StartsSame
  <2>4. /\ \A i \in MsiIrqs : ~IsRaise(hand[t], i)
        /\ \A i : ~IsRegion(hand[t], i) /\ (IsIrq(hand[t], i) <=> i = hand[t].arg)
    BY <1>2, Kinds DEF IsRaise, IsRegion, IsIrq
  <2>5. ASSUME ~overlapped
        PROVE  /\ TableOK' /\ RegisterOK' /\ FindOK' /\ IntxOK' /\ ListsOK' /\ KnownOK' /\ Kept' = Kept
               /\ \A b : Registered(b)' = Registered(b)
               /\ \A b \in BackendSlots : b # hand[t].arg => On(b)' = On(b)
               /\ \A b \in BackendSlots : b = hand[t].arg => On(b)' = (hand[t].irqop = "set")
    <3>1. Solo(t) /\ SeqInv
      BY <2>1, <2>5, Alone
    <3>2. PciAt(t)
      BY <3>1, PciAlone DEF SeqInv
    <3>3. PciAt(t)'
      BY <1>5, <2>1, <2>5, <3>1, <3>2
    <3>4. TableOK' /\ RegisterOK' /\ FindOK' /\ IntxOK'
      BY <3>1, <3>3, PciAlone
    <3>5. pc[t] \notin ListBusy /\ pc'[t] \notin ListBusy
      BY <2>1 DEF ListBusy
    <3>6. ListsOK' /\ Kept' = Kept
      BY <3>1, <3>5, ListsFrame DEF SeqInv
    <3>7. \A b : Registered(b)' = Registered(b)
      BY <1>4, <2>1, <3>1
    <3>8. KnownOK'
      BY <1>2, <1>3, <2>1, <3>1, <3>7, KnownSame DEF SeqInv
    <3>9. Active(t) = (hand[t].irqop = "set")
      BY <1>2, <1>7 DEF Active
    <3> QED
      BY <1>4, <2>1, <2>5, <3>1, <3>2, <3>4, <3>6, <3>7, <3>8, <3>9
  <2>6. ASSUME ~overlapped, NEW k \in BackendSlots \cup EmuIrqs
        PROVE  /\ ~IsIrq(hand[t], k) => Current(k)' = Current(k)
               /\ IsIrq(hand[t], k) => Current(k)' = (hand[t].irqop = "set")
    BY <1>2, <2>4, <2>5, <2>6 DEF Current
  <2>7. \A i \in MsiIrqs : /\ pulses'[i] = pulses[i]
                           /\ level'[i] => level[i] /\ (pc[t] = "fall" => i # hand[t].arg)
                           /\ pc[t] = "fall" \/ ~IsRaise(hand[t], i)
    BY <2>4
  <2> QED
    BY <1>2, <1>7, <2>2, <2>3, <2>4, <2>5, <2>6, <2>7, DoneStep
<1> QED
  BY <1>6, <1>7 DEF IntxReturn

\* The sources of the line of the device in hand, and which devices are on.
LEMMA StoreOn ==
  ASSUME EventInv, NEW t \in Threads, pc[t] = "store", PciAt(t), Listed' = Listed, pci_devs' = pci_devs,
         TableOK,
         intx' = [intx EXCEPT ![Pin(t)] = Sources(saved[t], dev[t], Active(t))]
  PROVE  /\ \A p \in Pins : \A s \in intx'[p] : pci_map_irq(s) = p /\ Taken(s)
         /\ \A p \in Pins : p # Pin(t) => intx'[p] = intx[p]
         /\ intx'[Pin(t)] = Sources(saved[t], dev[t], Active(t)) /\ saved[t] = intx[Pin(t)]
         /\ \A b \in BackendSlots : b # hand[t].arg => On(b)' = On(b)
         /\ \A b \in BackendSlots : b = hand[t].arg => On(b)' = Active(t)
<1>1. TypeOK /\ dev[t] \in VmmSlots /\ Pin(t) \in Pins /\ Pin(t) = pci_map_irq(dev[t])
  BY PciHand DEF EventInv, SlotSteps, IntxSteps, Pin
<1>2. saved[t] = intx[Pin(t)] /\ \A p \in Pins : \A s \in intx[p] : pci_map_irq(s) = p /\ Taken(s)
  BY DEF PciAt, IntxAt
<1>3. PICK k \in Listed : pci_devs[k].bslot = hand[t].arg /\ pci_devs[k].slot = dev[t]
  BY DEF PciAt, FindAt
<1>4. /\ intx'[Pin(t)] = Sources(saved[t], dev[t], Active(t))
      /\ \A p \in Pins : p # Pin(t) => intx'[p] = intx[p]
  BY <1>1 DEF TypeOK
<1>5. /\ \A s : s # dev[t] => (s \in intx'[Pin(t)] <=> s \in intx[Pin(t)])
      /\ dev[t] \in intx'[Pin(t)] <=> Active(t)
  BY <1>2, <1>4 DEF Sources
<1>6. Taken(dev[t])
  BY <1>3 DEF Taken
<1>7. \A p \in Pins : \A s \in intx'[p] : pci_map_irq(s) = p /\ Taken(s)
  BY <1>1, <1>2, <1>4, <1>5, <1>6
<1>8. \A j \in Listed : /\ pci_devs[j].slot = dev[t] <=> j = k
                        /\ pci_devs[j].bslot = hand[t].arg <=> j = k
                        /\ pci_map_irq(pci_devs[j].slot) \in Pins
  <2>1. \A i, j \in Listed :
          pci_devs[i].bslot = pci_devs[j].bslot \/ pci_devs[i].slot = pci_devs[j].slot => i = j
    BY DEF TableOK
  <2>2. \A j \in Listed : pci_map_irq(pci_devs[j].slot) \in Pins
    BY <1>1, Entries
  <2> QED
    BY <1>3, <2>1, <2>2
<1>9. \A j \in Listed : j # k =>
        (pci_devs[j].slot \in intx'[pci_map_irq(pci_devs[j].slot)]
           <=> pci_devs[j].slot \in intx[pci_map_irq(pci_devs[j].slot)])
  BY <1>4, <1>5, <1>8
<1>10. ASSUME NEW b \in BackendSlots, b # hand[t].arg PROVE On(b)' = On(b)
  BY <1>8, <1>9, <1>10 DEF On
<1>11. ASSUME NEW b \in BackendSlots, b = hand[t].arg PROVE On(b)' = Active(t)
  <2>1. On(b)' <=> pci_devs[k].slot \in intx'[pci_map_irq(pci_devs[k].slot)]
    BY <1>8, <1>11 DEF On
  <2> QED
    BY <1>1, <1>3, <1>5, <2>1 DEF On, Active
<1> QED
  BY <1>2, <1>4, <1>7, <1>10, <1>11

\* shared_irq_line_change, store.
LEMMA ChangeStoreKeeps ==
  ASSUME EventInv, NEW t \in Threads, InHandler, ChangeStore(t)
  PROVE  EventInv'
<1> PICK new : new = Sources(saved[t], dev[t], Active(t))
  OBVIOUS
<1>1. /\ pc[t] = "store" /\ intx' = [intx EXCEPT ![Pin(t)] = new]
      /\ UNCHANGED <<ok_to_run, sem, pciVars, listVars, gicVars>>
  BY DEF ChangeStore
<1>2. UNCHANGED <<known, overlapped, boot, started, pci_devs, pci_dev_count, bus, level, pulses>>
  BY <1>1 DEF InHandler, devVars, pciVars, gicVars
<1>3. TypeOK /\ OrderOK /\ PendOK /\ PcOK
  BY DEF EventInv
<1>4. /\ hand[t].arg \in BackendSlots /\ hand[t].op = "set_irq" /\ dev[t] \in VmmSlots /\ Pin(t) \in Pins
      /\ pc[t] \in IntxSteps \cup RegisterSteps
  BY <1>1, PciHand DEF IntxSteps, SlotSteps
<1>5. new \in SUBSET VmmSlots
  BY <1>3, <1>4 DEF TypeOK, Sources
<1>6. LineType'
  <2>1. intx' \in [Pins -> SUBSET VmmSlots]
    BY <1>1, <1>3, <1>5 DEF TypeOK
  <2> QED
    BY <1>2, <1>3, <2>1, TypeParts DEF LineType
<1>7. ASSUME Solo(t), SeqInv, PciAt(t), Listed' = Listed
      PROVE  /\ \A p \in Pins : \A s \in intx'[p] : pci_map_irq(s) = p /\ Taken(s)
             /\ \A p \in Pins : p # Pin(t) => intx'[p] = intx[p]
             /\ intx'[Pin(t)] = new /\ saved[t] = intx[Pin(t)]
             /\ \A b \in BackendSlots : b # hand[t].arg => On(b)' = On(b)
             /\ \A b \in BackendSlots : b = hand[t].arg => On(b)' = Active(t)
             /\ \A p \in Pins : level[IntxBase + p] = (intx[p] # {})
  <2>1. \A p \in Pins : level[IntxBase + p] = (intx[p] # {})
    BY <1>1, <1>7 DEF PciAt, IntxAt
  <2>2. TableOK
    BY <1>7 DEF SeqInv
  <2> QED
    BY <1>1, <1>2, <1>7, <2>1, <2>2, StoreOn
<1>8. CASE (saved[t] # {}) = (new # {}) /\ IntxReturn(t)
  <2>1. ASSUME Solo(t), SeqInv, PciAt(t), Listed' = Listed
        PROVE  \A p \in Pins : level'[IntxBase + p] = (intx'[p] # {})
    <3> TAKE p \in Pins
    <3>1. CASE p = Pin(t)
      BY <1>2, <1>7, <1>8, <2>1, <3>1
    <3>2. CASE p # Pin(t)
      BY <1>2, <1>7, <2>1, <3>2
    <3> QED
      BY <3>1, <3>2
  <2> QED
    BY <1>1, <1>2, <1>6, <1>7, <1>8, <2>1, IntxReturnKeeps
<1>9. CASE /\ saved' = [saved EXCEPT ![t] = new] /\ Goto(t, "level") /\ UNCHANGED <<at, dev, clearing>>
  <2>1. /\ hand' = hand /\ pc'[t] = "level" /\ pc' \in [Threads -> Places]
        /\ \A u \in Threads : u # t => pc'[u] = pc[u]
    BY <1>3, <1>9, GotoFrame DEF Places
  <2>2. Others(t) /\ saved'[t] = new
    BY <1>3, <1>9, <2>1 DEF Others, TypeOK
  <2>3. RunType' /\ TableType'
    <3>1. saved' \in [Threads -> SUBSET VmmSlots]
      BY <1>3, <1>5, <1>9 DEF TypeOK
    <3>2. RunType'
      BY <1>3, <1>9, <2>1, <3>1, TypeParts DEF RunType
    <3> QED
      BY <1>1, <1>3, <3>2, TypeParts, TypeSame
  <2>4. PcAt(t) => PcAt(t)'
    BY <1>1, <1>9, <2>1 DEF PcAt, IrqFor, IntxSteps, LineSteps, AppendSteps, RegisterSteps, FreeSteps, SlotSteps
  <2>5. ASSUME Solo(t), SeqInv, PciAt(t)
        PROVE  /\ PciAt(t)'
               /\ \A b : Registered(b)' = Registered(b)
               /\ \A b \in BackendSlots : ~IsIrq(hand[t], b) => On(b)' = On(b)
    <3>1. Listed' = Listed
      BY <1>1, <1>2, <2>1, <2>5, PciAlone
    <3>2. \A b : Registered(b)' = Registered(b) /\ Taken(b)' = Taken(b)
      BY <1>2, <3>1 DEF Registered, Taken
    <3>3. TableAt(t)'
      <4>1. TableAt(t)
        BY <2>5 DEF PciAt
      <4>2. \A j \in 0 .. MaxDevs - 1 : j \in Listed \/ pci_devs[j] = NoDev
        BY <1>1, <4>1 DEF TableAt
      <4>3. \A s \in bus : Taken(s)
        BY <1>1, <4>1 DEF TableAt
      <4> QED
        BY <1>2, <3>1, <3>2, <4>1, <4>2, <4>3 DEF TableAt
    <3>4. RegisterAt(t)'
      BY <2>1 DEF RegisterAt
    <3>5. FindAt(t)'
      BY <1>1, <1>2, <1>9, <2>1, <2>5, <3>1 DEF PciAt, FindAt
    <3>6. IntxAt(t)'
      <4>1. Pin(t)' = Pin(t) /\ Active(t)' = Active(t)
        BY <1>9, <2>1 DEF Pin, Active
      <4>2. \A p \in Pins : level'[IntxBase + p] = (intx'[p] # {}) \/ Pin(t) = p
        BY <1>2, <1>7, <2>5, <3>1
      <4>3. dev[t] \in new <=> Active(t)
        BY DEF Sources
      <4> QED
        BY <1>7, <1>9, <2>1, <2>2, <2>5, <3>1, <3>2, <4>1, <4>2, <4>3 DEF IntxAt
    <3>7. \A b \in BackendSlots : ~IsIrq(hand[t], b) => b # hand[t].arg
      BY <1>4 DEF IsIrq
    <3> QED
      BY <1>7, <2>5, <3>1, <3>2, <3>3, <3>4, <3>5, <3>6, <3>7 DEF PciAt
  <2>6. "level" \in IntxSteps \cup RegisterSteps
    BY DEF IntxSteps
  <2> QED
    BY <1>1, <1>2, <1>4, <1>6, <1>9, <2>2, <2>3, <2>4, <2>5, <2>6, PciMove
<1> QED
  BY <1>8, <1>9 DEF ChangeStore

\* shared_irq_line_change, call of the vGIC.
LEMMA ChangeLevelKeeps ==
  ASSUME EventInv, NEW t \in Threads, InHandler, ChangeLevel(t)
  PROVE  EventInv'
<1>1. /\ pc[t] = "level" /\ level' = [level EXCEPT ![IntxBase + Pin(t)] = (saved[t] # {})]
      /\ IntxReturn(t) /\ UNCHANGED <<ok_to_run, sem, pciVars, intx, listVars, pulses>>
  BY DEF ChangeLevel, SetLevel
<1>2. TypeOK
  BY DEF EventInv
<1>3. /\ hand[t].arg \in BackendSlots /\ dev[t] \in VmmSlots /\ Pin(t) \in Pins /\ Pin(t) = pci_map_irq(dev[t])
  BY <1>1, PciHand DEF IntxSteps, SlotSteps, Pin
<1>4. /\ \A i \in AllIrqs : level'[i] = IF i = IntxBase + Pin(t) THEN saved[t] # {} ELSE level[i]
      /\ level' \in [AllIrqs -> BOOLEAN]
  BY <1>1, <1>2 DEF TypeOK
<1>5. LineType'
  BY <1>1, <1>2, <1>4, TypeParts DEF LineType
<1>6. \A i \in MsiIrqs \cup EmuIrqs : level'[i] = level[i]
  BY <1>3, <1>4, Kinds
<1>7. ASSUME SeqInv, PciAt(t), Listed' = Listed
      PROVE  /\ \A p \in Pins : /\ level'[IntxBase + p] = (intx'[p] # {})
                                /\ \A s \in intx'[p] : pci_map_irq(s) = p /\ Taken(s)
             /\ \A b \in BackendSlots : On(b)' = On(b)
             /\ \A b \in BackendSlots : b = hand[t].arg => On(b) = Active(t)
  <2>1. \A b : On(b)' = On(b)
    <3>1. UNCHANGED <<pci_devs, intx>>
      BY <1>1 DEF pciVars
    <3> QED
      BY <1>7, <3>1, TableSame
  <2>2. IntxAt(t) /\ FindAt(t) /\ TableOK
    BY <1>7 DEF PciAt, SeqInv
  <2>3. saved[t] = intx[Pin(t)] /\ (dev[t] \in saved[t] <=> Active(t))
    BY <1>1, <2>2 DEF IntxAt
  <2>4. ASSUME NEW p \in Pins PROVE level'[IntxBase + p] = (intx'[p] # {})
    <3>1. CASE p = Pin(t)
      BY <1>1, <1>4, <2>3, <3>1, Kinds
    <3>2. CASE p # Pin(t)
      <4>1. level[IntxBase + p] = (intx[p] # {})
        BY <2>2, <3>2 DEF IntxAt
      <4>2. IntxBase + p # IntxBase + Pin(t) /\ IntxBase + p \in AllIrqs
        BY <1>3, <3>2, Kinds
      <4> QED
        BY <1>1, <1>4, <4>1, <4>2
    <3> QED
      BY <3>1, <3>2
  <2>5. ASSUME NEW b \in BackendSlots, b = hand[t].arg PROVE On(b) = Active(t)
    <3>1. PICK k \in Listed : pci_devs[k].bslot = b /\ pci_devs[k].slot = dev[t]
      BY <1>1, <2>2, <2>5 DEF FindAt
    <3>2. \A j \in Listed : pci_devs[j].bslot = b => j = k
      BY <2>2, <3>1 DEF TableOK
    <3>3. On(b) <=> dev[t] \in intx[Pin(t)]
      BY <1>3, <3>1, <3>2 DEF On
    <3> QED
      BY <2>3, <3>3 DEF On, Active
  <2>6. \A p \in Pins : \A s \in intx'[p] : pci_map_irq(s) = p /\ Taken(s)
    BY <1>1, <2>2 DEF IntxAt
  <2> QED
    BY <2>1, <2>4, <2>5, <2>6
<1>8. ASSUME SeqInv, PciAt(t), Listed' = Listed
      PROVE  \A b \in BackendSlots : b = hand[t].arg => On(b)' = Active(t)
  BY <1>7, <1>8
<1> QED
  BY <1>1, <1>5, <1>6, <1>7, <1>8, IntxReturnKeeps

---------------------------------------------------------------------------
(* pcidev_register *)

\* The table has room, except with overlap.
LEMMA RegisterCheckKeeps ==
  ASSUME RoomForDevices, EventInv, NEW t \in Threads, InHandler, RegisterCheck(t)
  PROVE  EventInv'
<1>1. TypeOK /\ pc[t] = "check" /\ pc[t] \in IntxSteps \cup RegisterSteps /\ pc[t] \in RegisterSteps
  BY DEF EventInv, RegisterCheck, RegisterSteps
<1>2. CASE pci_dev_count >= MaxDevs /\ Fail
  <2>1. overlapped
    <3> SUFFICES ASSUME ~overlapped PROVE FALSE
      OBVIOUS
    <3>1. pci_dev_count < MaxDevs
      BY <1>1, PciNow
    <3> QED
      BY <1>1, <1>2, <3>1, EventAssumption DEF TypeOK
  <2> QED
    BY <1>2, <2>1, FailKeeps
<1>3. CASE Proceed(t, "add")
  <2>1. Goto(t, "add") /\ UNCHANGED <<at, dev, saved, clearing, shared>>
    BY <1>3 DEF Proceed, locals
  <2>2. PcAt(t) /\ hand' = hand /\ pc'[t] = "add" => PcAt(t)'
    BY <1>1, <2>1 DEF PcAt, IrqFor, IntxSteps, LineSteps, AppendSteps, RegisterSteps, FreeSteps, SlotSteps
  <2>3. ASSUME PciAt(t), hand' = hand, pc'[t] = "add", Listed' = Listed, \A s : Taken(s)' = Taken(s)
        PROVE  PciAt(t)'
    <3>1. UNCHANGED <<pci_devs, pci_dev_count, bus, intx, level, known>>
      BY <2>1 DEF shared, pciVars, gicVars, InHandler, devVars
    <3>2. TableAt(t)'
      BY <1>1, <2>3, <3>1 DEF PciAt, TableAt
    <3>3. RegisterAt(t)'
      BY <2>3 DEF RegisterAt
    <3>4. FindAt(t)'
      BY <2>1, <2>3 DEF PciAt, FindAt
    <3>5. IntxAt(t)'
      BY <1>1, <2>3, <3>1 DEF PciAt, IntxAt
    <3> QED
      BY <3>2, <3>3, <3>4, <3>5 DEF PciAt
  <2>4. /\ at \in [Threads -> Nat] /\ dev \in [Threads -> {0} \cup VmmSlots]
        /\ saved \in [Threads -> SUBSET VmmSlots] /\ "add" \in Places
        /\ "add" \in IntxSteps \cup RegisterSteps
    BY <1>1 DEF TypeOK, Places, RegisterSteps
  <2> QED
    BY <1>1, <2>1, <2>2, <2>3, <2>4, PciRead
<1> QED
  BY <1>2, <1>3 DEF RegisterCheck

\* vmm_pci_add_entry finds a slot, except with overlap.
LEMMA AddEntryFindKeeps ==
  ASSUME RoomForDevices, EventInv, NEW t \in Threads, InHandler, AddEntryFind(t)
  PROVE  EventInv'
<1>1. TypeOK /\ pc[t] = "add" /\ pc[t] \in IntxSteps \cup RegisterSteps /\ pc[t] \in RegisterSteps
  BY DEF EventInv, AddEntryFind, RegisterSteps
<1>2. CASE VmmSlots \subseteq bus /\ Fail
  <2>1. overlapped
    <3> SUFFICES ASSUME ~overlapped PROVE FALSE
      OBVIOUS
    <3>1. TableOK /\ OneBusy /\ OrderOK /\ PendOK /\ PcOK
      BY DEF EventInv, SeqInv
    <3>2. \A u \in Threads : u # t => pc[u] = "idle"
      BY <1>1, <3>1, InHand
    <3>3. PICK s \in VmmSlots : ~Taken(s)
      BY <1>1, PciNow
    <3>4. s \in bus
      BY <1>2
    <3> QED
      BY <1>1, <3>1, <3>2, <3>3, <3>4 DEF TableOK
  <2> QED
    BY <1>2, <2>1, FailKeeps
<1>3. CASE /\ \E s \in VmmSlots \ bus : dev' = [dev EXCEPT ![t] = s]
           /\ Goto(t, "take") /\ UNCHANGED <<at, saved, clearing, shared>>
  <2>1. PICK s \in VmmSlots : s \notin bus /\ dev' = [dev EXCEPT ![t] = s]
    BY <1>3
  <2>2. /\ dev' \in [Threads -> {0} \cup VmmSlots] /\ dev'[t] = s
        /\ \A u \in Threads : u # t => dev'[u] = dev[u]
    BY <1>1, <2>1 DEF TypeOK
  <2>3. PcAt(t) /\ hand' = hand /\ pc'[t] = "take" => PcAt(t)'
    BY <1>1, <1>3, <2>2 DEF PcAt, IrqFor, IntxSteps, LineSteps, AppendSteps, RegisterSteps, FreeSteps, SlotSteps
  <2>4. ASSUME PciAt(t), hand' = hand, pc'[t] = "take", Listed' = Listed, \A r : Taken(r)' = Taken(r)
        PROVE  PciAt(t)'
    <3>1. UNCHANGED <<pci_devs, pci_dev_count, bus, intx, level, known>>
      BY <1>3 DEF shared, pciVars, gicVars, InHandler, devVars
    <3>2. TableAt(t)'
      BY <1>1, <2>4, <3>1 DEF PciAt, TableAt
    <3>3. RegisterAt(t)'
      BY <2>1, <2>2, <2>4, <3>1 DEF RegisterAt
    <3>4. FindAt(t)'
      BY <1>3, <2>4 DEF PciAt, FindAt
    <3>5. IntxAt(t)'
      BY <1>1, <2>4, <3>1 DEF PciAt, IntxAt
    <3> QED
      BY <3>2, <3>3, <3>4, <3>5 DEF PciAt
  <2>5. /\ at' \in [Threads -> Nat] /\ saved' \in [Threads -> SUBSET VmmSlots] /\ "take" \in Places
        /\ "take" \in IntxSteps \cup RegisterSteps
    BY <1>1, <1>3 DEF TypeOK, Places, RegisterSteps
  <2> QED
    BY <1>1, <1>3, <2>2, <2>3, <2>4, <2>5, PciRead
<1> QED
  BY <1>2, <1>3 DEF AddEntryFind

\* pci_dev_count is loaded.
LEMMA RegisterCountKeeps ==
  ASSUME EventInv, NEW t \in Threads, InHandler, RegisterCount(t)
  PROVE  EventInv'
<1>1. TypeOK /\ pc[t] = "count" /\ pc[t] \in IntxSteps \cup RegisterSteps
  BY DEF EventInv, RegisterCount, RegisterSteps
<1>2. /\ at' = [at EXCEPT ![t] = pci_dev_count] /\ Goto(t, "publish")
      /\ UNCHANGED <<dev, saved, clearing, shared>>
  BY DEF RegisterCount
<1>3. /\ at' \in [Threads -> Nat] /\ at'[t] = pci_dev_count
      /\ \A u \in Threads : u # t => at'[u] = at[u]
  BY <1>1, <1>2 DEF TypeOK
<1>4. PcAt(t) /\ hand' = hand /\ pc'[t] = "publish" => PcAt(t)'
  BY <1>1, <1>2 DEF PcAt, IrqFor, IntxSteps, LineSteps, AppendSteps, RegisterSteps, FreeSteps, SlotSteps
<1>5. ASSUME PciAt(t), hand' = hand, pc'[t] = "publish", Listed' = Listed, \A r : Taken(r)' = Taken(r)
      PROVE  PciAt(t)'
  <2>1. UNCHANGED <<pci_devs, pci_dev_count, bus, intx, level, known>>
    BY <1>2 DEF shared, pciVars, gicVars, InHandler, devVars
  <2>2. TableAt(t)'
    BY <1>1, <1>2, <1>5, <2>1 DEF PciAt, TableAt
  <2>3. RegisterAt(t)'
    BY <1>1, <1>2, <1>3, <1>5, <2>1 DEF PciAt, RegisterAt
  <2>4. FindAt(t)'
    BY <1>2, <1>5 DEF PciAt, FindAt
  <2>5. IntxAt(t)'
    BY <1>1, <1>5, <2>1 DEF PciAt, IntxAt
  <2> QED
    BY <2>2, <2>3, <2>4, <2>5 DEF PciAt
<1>6. /\ dev' \in [Threads -> {0} \cup VmmSlots] /\ saved' \in [Threads -> SUBSET VmmSlots] /\ "publish" \in Places
      /\ "publish" \in IntxSteps \cup RegisterSteps
  BY <1>1, <1>2 DEF TypeOK, Places, RegisterSteps
<1> QED
  BY <1>1, <1>2, <1>3, <1>4, <1>5, <1>6, PciRead

\* What a step that stores to the table or the bus has to show.
LEMMA PciStore ==
  ASSUME EventInv, NEW t \in Threads, NEW l \in RegisterSteps, InHandler, Goto(t, l), UNCHANGED locals,
         TableType', UNCHANGED <<ok_to_run, sem, intx, listVars, gicVars>>, pc[t] \in RegisterSteps,
         pc[t] \in SlotSteps,
         ~overlapped /\ Solo(t) /\ SeqInv /\ PciAt(t) /\ hand' = hand /\ pc'[t] = l =>
           /\ TableAt(t)' /\ RegisterAt(t)' /\ Listed' = Listed
           /\ \A j \in Listed : pci_devs'[j] = pci_devs[j]
  PROVE  EventInv'
<1>1. TypeOK /\ OrderOK /\ PendOK
  BY DEF EventInv
<1>2. /\ UNCHANGED <<at, dev, saved, clearing, level, pulses>>
  BY DEF locals, gicVars
<1>3. l \in Places
  BY DEF RegisterSteps, Places
<1>4. /\ hand' = hand /\ pc'[t] = l /\ \A u \in Threads : u # t => pc'[u] = pc[u]
      /\ pc' \in [Threads -> Places]
  BY <1>1, <1>3, GotoFrame
<1>5. Others(t)
  BY <1>2, <1>4 DEF Others
<1>6. RunType' /\ LineType'
  <2>1. RunType'
    BY <1>1, <1>2, <1>4, TypeParts DEF RunType
  <2> QED
    BY <1>1, <2>1, TypeParts, TypeSame
<1>7. PcAt(t) => PcAt(t)'
  BY <1>2, <1>4 DEF PcAt, IrqFor, IntxSteps, LineSteps, AppendSteps, RegisterSteps, FreeSteps, SlotSteps
<1>8. ASSUME ~overlapped, Solo(t), SeqInv, PciAt(t)
      PROVE  /\ PciAt(t)'
             /\ \A b : Registered(b)' = Registered(b)
             /\ \A b \in BackendSlots : On(b)' = On(b)
  <2>1. /\ TableAt(t)' /\ RegisterAt(t)' /\ Listed' = Listed
        /\ \A j \in Listed : pci_devs'[j] = pci_devs[j]
    BY <1>4, <1>8
  <2>2. /\ \A b : Registered(b)' = Registered(b)
        /\ \A s : Taken(s)' = Taken(s)
        /\ \A b : On(b)' = On(b)
    BY <2>1 DEF Registered, Taken, On
  <2>3. FindAt(t)'
    BY <1>2, <1>4, <1>8 DEF PciAt, FindAt, RegisterSteps
  <2>4. IntxAt(t)'
    BY <1>2, <1>4, <1>8, <2>2 DEF PciAt, IntxAt, RegisterSteps
  <2> QED
    BY <2>1, <2>2, <2>3, <2>4 DEF PciAt
<1> QED
  BY <1>2, <1>5, <1>6, <1>7, <1>8, PciMove

\* vmm_pci_add_entry takes the slot.
LEMMA AddEntryTakeKeeps ==
  ASSUME EventInv, NEW t \in Threads, InHandler, AddEntryTake(t)
  PROVE  EventInv'
<1>1. /\ pc[t] = "take" /\ bus' = bus \cup {dev[t]} /\ Goto(t, "count")
      /\ UNCHANGED <<locals, ok_to_run, sem, pci_devs, pci_dev_count, intx, listVars, gicVars>>
      /\ UNCHANGED <<at, dev, known>>
  BY DEF AddEntryTake, locals, InHandler, devVars
<1>2. TypeOK /\ dev[t] \in VmmSlots
  BY <1>1, PciHand DEF EventInv, RegisterSteps, SlotSteps
<1>3. TableType'
  <2>1. bus' \subseteq VmmSlots
    BY <1>1, <1>2 DEF TypeOK
  <2> QED
    BY <1>1, <1>2, <2>1, TypeParts DEF TableType
<1>4. ASSUME Solo(t), SeqInv, PciAt(t), hand' = hand, pc'[t] = "count"
      PROVE  /\ TableAt(t)' /\ RegisterAt(t)' /\ Listed' = Listed
             /\ \A j \in Listed : pci_devs'[j] = pci_devs[j]
  <2>1. Listed' = Listed
    BY <1>1, <1>4, PciAlone
  <2>2. \A s : Taken(s)' = Taken(s)
    BY <1>1, <2>1 DEF Taken
  <2>3. TableAt(t) /\ RegisterAt(t)
    BY <1>4 DEF PciAt
  <2>4. ~Taken(dev[t])
    BY <1>1, <2>3 DEF TableAt, RegisterAt, Taken
  <2>5. \A s \in bus' : Taken(s)' \/ dev'[t] = s
    BY <1>1, <2>2, <2>3 DEF TableAt
  <2>6. TableAt(t)'
    BY <1>1, <1>4, <2>1, <2>3, <2>5 DEF TableAt
  <2>7. RegisterAt(t)'
    BY <1>1, <1>4, <2>2, <2>4 DEF RegisterAt
  <2> QED
    BY <1>1, <2>1, <2>6, <2>7
<1>5. "count" \in RegisterSteps /\ pc[t] \in RegisterSteps /\ pc[t] \in SlotSteps
  BY <1>1 DEF RegisterSteps, SlotSteps
<1> QED
  BY <1>1, <1>3, <1>4, <1>5, PciStore

\* The second of the two stores puts the device into the table.
LEMMA RegisterDone ==
  ASSUME EventInv, NEW t \in Threads, InHandler, Done(t), pc[t] \in {"put_count", "put_dev"},
         UNCHANGED <<ok_to_run, sem, bus, intx, listVars, gicVars>>, TableType',
         ~overlapped /\ Solo(t) /\ SeqInv /\ PciAt(t) =>
           /\ at[t] \in 0 .. MaxDevs - 1 /\ pci_dev_count' = at[t] + 1
           /\ pci_devs'[at[t]] = [bslot |-> hand[t].arg, slot |-> dev[t]]
           /\ \A j \in 0 .. MaxDevs - 1 : j # at[t] => pci_devs'[j] = pci_devs[j]
           /\ Listed = {j \in 0 .. MaxDevs - 1 : j < at[t]}
  PROVE  EventInv'
<1> PICK x : x = hand[t]
  OBVIOUS
<1> PICK n : n = at[t]
  OBVIOUS
<1> PICK d : d = [bslot |-> x.arg, slot |-> dev[t]]
  OBVIOUS
<1>1. TypeOK /\ OrderOK /\ PendOK /\ PcOK /\ StartsOK /\ (~overlapped => SeqInv) /\ pc[t] # "idle"
  BY DEF EventInv
<1>2. /\ x \in Pend /\ x.arg \in BackendSlots /\ x.op = "register" /\ dev[t] \in VmmSlots
  BY PciHand DEF RegisterSteps, SlotSteps
<1>3. UNCHANGED <<known, overlapped, boot, started, level, pulses>>
  BY DEF InHandler, devVars, gicVars
<1>4. /\ Pend' = Pend \ {x} /\ SendType' /\ RunType' /\ failed' = failed
      /\ pc'[t] = "idle" /\ clearing'[t] = FALSE /\ Others(t)
  BY <1>1, DoneFrame
<1>5. TypeOK'
  <2>1. ControlType' /\ ListType' /\ LineType'
    BY <1>1, <1>3, <1>4, TypeParts, TypeSame DEF ControlType
  <2> QED
    BY <1>4, <2>1, TypePartsNext
<1>6. StartsOK'
  BY <1>1, <1>2, <1>3, <1>4, StartsSame
<1>7. \A i : ~IsIrq(x, i) /\ ~IsRaise(x, i) /\ ~IsRegion(x, i)
  BY <1>2 DEF IsIrq, IsRaise, IsRegion
<1>8. ASSUME ~overlapped
      PROVE  /\ TableOK' /\ RegisterOK' /\ FindOK' /\ IntxOK' /\ ListsOK' /\ KnownOK' /\ Kept' = Kept
             /\ \A b \in BackendSlots : On(b)' = On(b)
             /\ \A b : Registered(b)' <=> Registered(b) \/ b = x.arg
  <2>1. Solo(t) /\ SeqInv
    BY <1>1, <1>4, <1>8, Alone
  <2>2. PciAt(t) /\ TableOK /\ KnownOK /\ Listed' = {j \in 0 .. MaxDevs - 1 : j < pci_dev_count'}
    BY <1>4, <2>1, PciAlone DEF SeqInv
  <2>3. /\ n \in 0 .. MaxDevs - 1 /\ pci_dev_count' = n + 1 /\ pci_devs'[n] = d
        /\ \A j \in 0 .. MaxDevs - 1 : j # n => pci_devs'[j] = pci_devs[j]
        /\ Listed = {j \in 0 .. MaxDevs - 1 : j < n}
    BY <1>8, <2>1, <2>2
  <2>4. MaxDevs \in Nat /\ n \in Nat
    BY <2>3, EventAssumption
  <2>5. Listed' = Listed \cup {n} /\ n \notin Listed
    <3>1. \A j \in 0 .. MaxDevs - 1 : j < n + 1 <=> j < n \/ j = n
      BY <2>4
    <3> QED
      BY <2>2, <2>3, <2>4, <3>1
  <2>6. \A j \in Listed : pci_devs'[j] = pci_devs[j]
    BY <2>3, <2>5
  <2>7. /\ \A b : Registered(b)' <=> Registered(b) \/ b = x.arg
        /\ \A s : Taken(s)' <=> Taken(s) \/ s = dev[t]
    <3>1. d.bslot = x.arg /\ d.slot = dev[t]
      OBVIOUS
    <3>2. \A b : Registered(b)' <=> Registered(b) \/ b = x.arg
      BY <2>3, <2>5, <2>6, <3>1 DEF Registered
    <3>3. \A s : Taken(s)' <=> Taken(s) \/ s = dev[t]
      BY <2>3, <2>5, <2>6, <3>1 DEF Taken
    <3> QED
      BY <3>2, <3>3
  <2>8. x.arg \in known /\ ~Registered(x.arg) /\ dev[t] \in bus /\ ~Taken(dev[t])
    <3>1. x.arg \in known /\ ~Registered(x.arg)
      BY <1>2, <2>2 DEF KnownOK
    <3> QED
      BY <2>2, <3>1 DEF PciAt, RegisterAt
  <2>9. d # NoDev /\ d.bslot \in known /\ d.slot \in bus
    <3>1. d.slot # 0 /\ NoDev.slot = 0
      <4>1. \A s \in VmmSlots : s \in 1 .. 31
        BY EventAssumption DEF PCI_NUM_SLOTS
      <4> QED
        BY <1>2, <4>1 DEF NoDev
    <3> QED
      BY <2>8, <3>1
  <2>10. TableAt(t)'
    <3>1. TableAt(t)
      BY <2>2 DEF PciAt
    <3>2. pci_dev_count' <= MaxDevs
      BY <2>3, <2>4
    <3>3. \A j \in Listed' : pci_devs'[j] # NoDev /\ pci_devs'[j].bslot \in known'
                                                   /\ pci_devs'[j].slot \in bus'
      BY <1>3, <2>3, <2>5, <2>6, <2>9, <3>1 DEF TableAt
    <3>4. \A j \in 0 .. MaxDevs - 1 : j \in Listed' \/ pci_devs'[j] = NoDev
      BY <2>3, <2>5, <3>1 DEF TableAt
    <3>5. \A j, k \in Listed' :
            pci_devs'[j].bslot = pci_devs'[k].bslot \/ pci_devs'[j].slot = pci_devs'[k].slot => j = k
      <4>1. \A j \in Listed : pci_devs[j].bslot # d.bslot /\ pci_devs[j].slot # d.slot
        BY <2>8 DEF Registered, Taken
      <4>2. \A j, k \in Listed :
              pci_devs'[j].bslot = pci_devs'[k].bslot \/ pci_devs'[j].slot = pci_devs'[k].slot => j = k
        BY <2>6, <3>1 DEF TableAt
      <4>3. \A j \in Listed : pci_devs'[j].bslot # pci_devs'[n].bslot /\ pci_devs'[j].slot # pci_devs'[n].slot
        BY <2>3, <2>6, <4>1
      <4> QED
        BY <2>5, <4>2, <4>3
    <3>6. \A s \in bus' : Taken(s)'
      BY <2>7, <3>1 DEF TableAt
    <3> QED
      BY <3>2, <3>3, <3>4, <3>5, <3>6 DEF TableAt
  <2>11. RegisterAt(t)'
    BY <1>4 DEF RegisterAt
  <2>12. FindAt(t)'
    BY <1>4 DEF FindAt
  <2>13. IntxAt(t)'
    BY <1>3, <1>4, <2>2, <2>7 DEF PciAt, IntxAt
  <2>14. TableOK' /\ RegisterOK' /\ FindOK' /\ IntxOK'
    BY <2>1, <2>10, <2>11, <2>12, <2>13, PciAlone DEF PciAt
  <2>15. \A b \in BackendSlots : On(b)' = On(b)
    <3>1. dev[t] \notin intx[pci_map_irq(dev[t])]
      BY <1>2, <2>2, <2>8, Kinds DEF PciAt, IntxAt
    <3>2. d.slot = dev[t]
      OBVIOUS
    <3> QED
      BY <2>3, <2>5, <2>6, <3>1, <3>2 DEF On
  <2>16. KnownOK'
    <3>1. \A e \in Pend' : e.op = "register" => e.arg # x.arg
      BY <1>2, <1>4, <2>2 DEF KnownOK
    <3>2. \A e \in Pend' : e.op = "register" =>
            /\ e.arg \in known' /\ ~Registered(e.arg)'
            /\ \A f \in Pend' : f.op = "register" /\ f.arg = e.arg => f = e
      BY <1>3, <1>4, <2>2, <2>7, <3>1 DEF KnownOK
    <3>3. \A b \in known' : Registered(b)' \/ \E e \in Pend' : e.op = "register" /\ e.arg = b
      BY <1>3, <1>4, <2>2, <2>7 DEF KnownOK
    <3> QED
      BY <1>3, <2>7, <3>2, <3>3 DEF KnownOK
  <2>17. pc[t] \notin ListBusy /\ pc'[t] \notin ListBusy
    BY <1>4 DEF ListBusy
  <2>18. ListsOK' /\ Kept' = Kept
    BY <2>1, <2>17, ListsFrame DEF SeqInv
  <2> QED
    BY <2>7, <2>14, <2>15, <2>16, <2>18
<1>9. ASSUME ~overlapped, NEW k \in BackendSlots \cup EmuIrqs PROVE Current(k)' = Current(k)
  BY <1>3, <1>8, <1>9 DEF Current
<1> QED
  BY <1>1, <1>2, <1>3, <1>5, <1>6, <1>7, <1>8, <1>9, DoneStep

\* What the table is when a device is put into it.
LEMMA TableFull ==
  ASSUME RoomForDevices, EventInv, ~overlapped, NEW t \in Threads, Solo(t), SeqInv, PciAt(t),
         pc[t] \in {"publish", "put_count", "put_dev"}
  PROVE  /\ at[t] \in 0 .. MaxDevs - 1 /\ at[t] < MaxDevs
         /\ Listed = {j \in 0 .. MaxDevs - 1 : j < at[t]}
         /\ pc[t] # "put_dev" => at[t] = pci_dev_count /\ pci_dev_count + 1 <= MaxDevs
         /\ pc[t] = "put_dev" => at[t] + 1 = pci_dev_count
<1>1. at[t] \in Nat /\ pci_dev_count \in Nat /\ MaxDevs \in Nat /\ pci_dev_count <= MaxDevs
  BY EventAssumption DEF EventInv, TypeOK, PciAt, TableAt
<1>2. RegisterAt(t) /\ Listed = {j \in 0 .. MaxDevs - 1 : j < pci_dev_count /\ (pc[t] = "put_dev" => j # at[t])}
  BY PciAlone DEF PciAt
<1>3. pc[t] # "put_dev" => at[t] = pci_dev_count /\ pci_dev_count < MaxDevs
  BY <1>2, PciNow DEF RegisterAt, RegisterSteps
<1>4. pc[t] = "put_dev" => at[t] + 1 = pci_dev_count
  BY <1>2 DEF RegisterAt
<1>5. at[t] \in 0 .. MaxDevs - 1 /\ at[t] < MaxDevs
  BY <1>1, <1>3, <1>4
<1>6. Listed = {j \in 0 .. MaxDevs - 1 : j < at[t]}
  <2>1. CASE pc[t] = "put_dev"
    <3>1. \A j \in 0 .. MaxDevs - 1 : j < pci_dev_count /\ j # at[t] <=> j < at[t]
      BY <1>1, <1>4, <2>1
    <3> QED
      BY <1>2, <2>1, <3>1
  <2>2. CASE pc[t] # "put_dev"
    BY <1>2, <1>3, <2>2
  <2> QED
    BY <2>1, <2>2
<1> QED
  BY <1>1, <1>3, <1>4, <1>5, <1>6

\* pci_dev_count is stored.
LEMMA RegisterStoreCountKeeps ==
  ASSUME RoomForDevices, EventInv, NEW t \in Threads, InHandler, RegisterStoreCount(t)
  PROVE  EventInv'
<1>1. /\ pc[t] \in {"publish", "put_count"} /\ pci_dev_count' = at[t] + 1
      /\ UNCHANGED <<ok_to_run, sem, pci_devs, bus, intx, listVars, gicVars, known>>
  BY DEF RegisterStoreCount, InHandler, devVars
<1>2. TypeOK
  BY DEF EventInv
<1>3. TableType'
  <2>1. pci_dev_count' \in Nat
    BY <1>1, <1>2 DEF TypeOK
  <2> QED
    BY <1>1, <1>2, <2>1, TypeParts DEF TableType
<1>4. CASE pc[t] = "publish" /\ Goto(t, "put_dev") /\ UNCHANGED locals
  <2>1. ASSUME ~overlapped, Solo(t), SeqInv, PciAt(t), hand' = hand, pc'[t] = "put_dev"
        PROVE  /\ TableAt(t)' /\ RegisterAt(t)' /\ Listed' = Listed
               /\ \A j \in Listed : pci_devs'[j] = pci_devs[j]
    <3>1. /\ at[t] \in 0 .. MaxDevs - 1
          /\ Listed = {j \in 0 .. MaxDevs - 1 : j < at[t]}
          /\ at[t] = pci_dev_count /\ pci_dev_count + 1 <= MaxDevs
      BY <1>4, <2>1, TableFull
    <3>2. UNCHANGED <<at, dev>>
      BY <1>4 DEF locals
    <3>3. Listed' = Listed
      <4>1. Listed' = {j \in 0 .. MaxDevs - 1 : j < at[t] + 1 /\ j # at[t]}
        BY <1>1, <2>1, <3>2, PciAlone
      <4>2. \A j \in 0 .. MaxDevs - 1 : j < at[t] + 1 /\ j # at[t] <=> j < at[t]
        BY <3>1, EventAssumption
      <4> QED
        BY <3>1, <4>1, <4>2
    <3>4. \A s : Taken(s)' = Taken(s)
      BY <1>1, <3>3 DEF Taken
    <3>5. TableAt(t) /\ RegisterAt(t)
      BY <2>1 DEF PciAt
    <3>6. TableAt(t)'
      <4>1. pci_dev_count' <= MaxDevs
        BY <1>1, <3>1
      <4> QED
        BY <1>1, <1>4, <2>1, <3>2, <3>3, <3>4, <3>5, <4>1 DEF TableAt
    <3>7. RegisterAt(t)'
      BY <1>1, <1>4, <2>1, <3>2, <3>4, <3>5 DEF RegisterAt
    <3> QED
      BY <1>1, <3>3, <3>6, <3>7
  <2>2. "put_dev" \in RegisterSteps /\ pc[t] \in RegisterSteps /\ pc[t] \in SlotSteps
    BY <1>4 DEF RegisterSteps, SlotSteps
  <2> QED
    BY <1>1, <1>3, <1>4, <2>1, <2>2, PciStore
<1>5. CASE pc[t] = "put_count" /\ Done(t)
  <2>1. ASSUME ~overlapped, Solo(t), SeqInv, PciAt(t)
        PROVE  /\ at[t] \in 0 .. MaxDevs - 1
               /\ pci_devs'[at[t]] = [bslot |-> hand[t].arg, slot |-> dev[t]]
               /\ Listed = {j \in 0 .. MaxDevs - 1 : j < at[t]}
    <3>1. /\ at[t] \in 0 .. MaxDevs - 1
          /\ Listed = {j \in 0 .. MaxDevs - 1 : j < at[t]}
      BY <1>5, <2>1, TableFull
    <3> QED
      BY <1>1, <1>5, <2>1, <3>1 DEF PciAt, RegisterAt
  <2> QED
    BY <1>1, <1>3, <1>5, <2>1, RegisterDone
<1> QED
  BY <1>4, <1>5 DEF RegisterStoreCount

\* The entry is stored, inside the table except with overlap.
LEMMA RegisterStoreDevKeeps ==
  ASSUME RoomForDevices, EventInv, NEW t \in Threads, InHandler, RegisterStoreDev(t)
  PROVE  EventInv'
<1> PICK d : d = [bslot |-> hand[t].arg, slot |-> dev[t]]
  OBVIOUS
<1>1. TypeOK /\ pc[t] \in {"publish", "put_dev"} /\ pc[t] \in RegisterSteps /\ pc[t] \in SlotSteps
  BY DEF EventInv, RegisterStoreDev, RegisterSteps, SlotSteps
<1>2. CASE at[t] >= MaxDevs /\ Fail
  <2>1. overlapped
    <3> SUFFICES ASSUME ~overlapped PROVE FALSE
      OBVIOUS
    <3>1. OneBusy /\ OrderOK /\ PendOK /\ PcOK /\ SeqInv /\ TableOK /\ RegisterOK /\ pc[t] # "idle"
      BY <1>1 DEF EventInv, SeqInv
    <3>2. at[t] < MaxDevs
      <4>1. at[t] \in Nat /\ pci_dev_count \in Nat /\ MaxDevs \in Nat /\ pci_dev_count <= MaxDevs
        BY <1>1, <3>1, EventAssumption DEF TypeOK, TableOK
      <4>2. pc[t] # "put_dev" => at[t] = pci_dev_count /\ pci_dev_count < MaxDevs
        BY <1>1, <3>1, PciNow DEF RegisterOK
      <4>3. pc[t] = "put_dev" => at[t] + 1 = pci_dev_count
        BY <3>1 DEF RegisterOK
      <4> QED
        BY <4>1, <4>2, <4>3
    <3> QED
      BY <1>1, <1>2, <3>2, EventAssumption DEF TypeOK
  <2> QED
    BY <1>2, <2>1, FailKeeps
<1>3. ASSUME at[t] < MaxDevs, pci_devs' = [pci_devs EXCEPT ![at[t]] = d],
             UNCHANGED <<ok_to_run, sem, pci_dev_count, bus, intx, listVars, gicVars>>
      PROVE  /\ TableType' /\ pci_devs'[at[t]] = d /\ known' = known
             /\ \A j \in 0 .. MaxDevs - 1 : j # at[t] => pci_devs'[j] = pci_devs[j]
  <2>1. at[t] \in 0 .. MaxDevs - 1
    BY <1>1, <1>3, EventAssumption DEF TypeOK
  <2>2. d \in [bslot : BackendSlots, slot : VmmSlots]
    BY <1>1, PciHand
  <2>3. pci_devs' \in [0 .. MaxDevs - 1 -> [bslot : BackendSlots, slot : VmmSlots] \cup {NoDev}]
    BY <1>1, <1>3, <2>2 DEF TypeOK
  <2>4. TableType'
    BY <1>1, <1>3, <2>3, TypeParts DEF TableType
  <2>5. known' = known
    BY DEF InHandler, devVars
  <2> QED
    BY <1>1, <1>3, <2>1, <2>4, <2>5 DEF TypeOK
<1>4. CASE /\ at[t] < MaxDevs /\ pci_devs' = [pci_devs EXCEPT ![at[t]] = d]
           /\ pc[t] = "publish" /\ Goto(t, "put_count") /\ UNCHANGED locals
           /\ UNCHANGED <<ok_to_run, sem, pci_dev_count, bus, intx, listVars, gicVars>>
  <2>1. ASSUME ~overlapped, Solo(t), SeqInv, PciAt(t), hand' = hand, pc'[t] = "put_count"
        PROVE  /\ TableAt(t)' /\ RegisterAt(t)' /\ Listed' = Listed
               /\ \A j \in Listed : pci_devs'[j] = pci_devs[j]
    <3>1. /\ at[t] \in 0 .. MaxDevs - 1
          /\ Listed = {j \in 0 .. MaxDevs - 1 : j < at[t]}
          /\ at[t] = pci_dev_count
      BY <1>4, <2>1, TableFull
    <3>2. UNCHANGED <<at, dev>>
      BY <1>4 DEF locals
    <3>3. Listed' = Listed
      BY <1>4, <2>1, PciAlone
    <3>4. \A j \in Listed : pci_devs'[j] = pci_devs[j] /\ j # at[t]
      BY <1>3, <1>4, <3>1, EventAssumption
    <3>5. \A s : Taken(s)' = Taken(s)
      BY <3>3, <3>4 DEF Taken
    <3>6. TableAt(t) /\ RegisterAt(t)
      BY <2>1 DEF PciAt
    <3>7. TableAt(t)'
      <4>1. /\ \A j \in Listed' : pci_devs'[j] # NoDev /\ pci_devs'[j].bslot \in known'
                                                       /\ pci_devs'[j].slot \in bus'
            /\ \A j, k \in Listed' :
                 pci_devs'[j].bslot = pci_devs'[k].bslot \/ pci_devs'[j].slot = pci_devs'[k].slot => j = k
        BY <1>3, <1>4, <3>3, <3>4, <3>6 DEF TableAt
      <4>2. \A j \in 0 .. MaxDevs - 1 : j \in Listed' \/ pci_devs'[j] = NoDev
                                        \/ (pc'[t] = "put_count" /\ at'[t] = j)
        BY <1>3, <1>4, <2>1, <3>2, <3>3, <3>6 DEF TableAt
      <4>3. \A s \in bus' : Taken(s)' \/ (pc'[t] = "put_count" /\ dev'[t] = s)
        BY <1>4, <2>1, <3>2, <3>5, <3>6 DEF TableAt
      <4> QED
        BY <1>4, <3>6, <4>1, <4>2, <4>3 DEF TableAt
    <3>8. RegisterAt(t)'
      BY <1>3, <1>4, <2>1, <3>1, <3>2, <3>5, <3>6 DEF RegisterAt
    <3> QED
      BY <3>3, <3>4, <3>7, <3>8
  <2>2. "put_count" \in RegisterSteps
    BY DEF RegisterSteps
  <2> QED
    BY <1>1, <1>3, <1>4, <2>1, <2>2, PciStore
<1>5. CASE /\ at[t] < MaxDevs /\ pci_devs' = [pci_devs EXCEPT ![at[t]] = d]
           /\ pc[t] = "put_dev" /\ Done(t)
           /\ UNCHANGED <<ok_to_run, sem, pci_dev_count, bus, intx, listVars, gicVars>>
  <2>1. ASSUME ~overlapped, Solo(t), SeqInv, PciAt(t)
        PROVE  /\ at[t] \in 0 .. MaxDevs - 1 /\ pci_dev_count' = at[t] + 1
               /\ Listed = {j \in 0 .. MaxDevs - 1 : j < at[t]}
    BY <1>5, <2>1, TableFull
  <2> QED
    BY <1>3, <1>5, <2>1, RegisterDone
<1> QED
  BY <1>2, <1>4, <1>5 DEF RegisterStoreDev

---------------------------------------------------------------------------
(* The main thread at boot, and the whole *)

\* io_proxy_wait_for_backend takes no event; it may take the semaphore.
LEMMA BootKeeps ==
  ASSUME EventInv, sem' \in 0 .. 1, sem' <= sem, boot' \in {"drain", "test", "wait", "run"},
         UNCHANGED <<queue, devVars, runVars, ok_to_run, pciVars, intx, listVars, gicVars,
                     overlapped, failed>>
  PROVE  EventInv'
<1>1. TypeOK /\ OrderOK /\ PendOK /\ PcOK /\ MsisOK /\ StartsOK /\ (~overlapped => SeqInv)
  BY DEF EventInv
<1>2. UNCHANGED <<queue, sent, known, wire, msis, claimed, started, hand, pc, at, dev, saved,
                  clearing, ok_to_run, pci_devs, pci_dev_count, bus, intx, irqs, regions,
                  reserved, level, pulses, overlapped, failed>>
  BY DEF devVars, runVars, locals, pciVars, listVars, gicVars
<1>3. Pend' = Pend
  BY <1>2 DEF Pend, ToSet
<1>4. OrderOK' /\ PendOK' /\ PcOK'
  <2>1. PendOK'
    BY <1>1, <1>2, <1>3 DEF PendOK
  <2>2. OrderOK'
    BY <1>1, <1>2 DEF OrderOK
  <2>3. PcOK'
    BY <1>1, <1>2 DEF PcOK, PcAt
  <2> QED
    BY <2>1, <2>2, <2>3
<1>5. \A i : Unrisen(i)' = Unrisen(i)
  BY <1>2, <1>3 DEF Unrisen
<1>6. MsisOK' /\ (EdgesOK => EdgesOK')
  <2>1. EdgesOK => \A i \in MsiIrqs : level'[i] => \E u \in Threads : pc'[u] = "fall" /\ hand'[u].arg = i
    BY <1>2 DEF EdgesOK
  <2> QED
    BY <1>1, <1>2, <1>5, <2>1, MsisSame
<1>7. StartsOK'
  <2>1. sem \in Nat /\ sem' \in Nat /\ Cardinality(Starts) \in Nat
    BY <1>1, CountedFinite DEF TypeOK
  <2>2. Starts' = Starts
    BY <1>3 DEF Starts
  <2>3. sem' + Cardinality(Starts') <= 1
    BY <1>1, <2>1, <2>2 DEF StartsOK
  <2>4. ~started' => sem' = 0 /\ Starts' = {}
    BY <1>1, <1>2, <2>1, <2>2 DEF StartsOK
  <2> QED
    BY <2>3, <2>4 DEF StartsOK
<1>8. TypeOK'
  <2>1. ControlType'
    BY <1>1, <1>2, TypeParts DEF ControlType
  <2>2. UNCHANGED <<runVars, pciVars, gicVars, listVars>>
    BY DEF devVars, runVars
  <2> QED
    BY <1>1, <1>2, <2>1, <2>2, TypeParts, TypePartsNext, TypeSame
<1>9. ASSUME ~overlapped PROVE SeqInv'
  <2>1. /\ ~failed /\ OneBusy /\ EdgesOK /\ TableOK /\ RegisterOK /\ KnownOK /\ FindOK
        /\ IntxOK /\ LinesOK /\ RegionsOK /\ ListsOK
    BY <1>1, <1>9 DEF SeqInv
  <2>2. Listed' = Listed
    BY <1>2 DEF Listed
  <2>3. /\ \A b : Registered(b)' = Registered(b)
        /\ \A s : Taken(s)' = Taken(s)
        /\ \A b : On(b)' = On(b)
    BY <1>2, <2>2, TableSame
  <2>4. KnownOK'
    BY <1>2, <1>3, <2>1, <2>3, KnownSame
  <2>5. TableOK'
    <3>1. \A s \in bus' : \/ Taken(s)'
                          \/ \E u \in Threads : /\ pc'[u] \in {"count", "publish", "put_count", "put_dev"}
                                                /\ dev'[u] = s
      BY <1>2, <2>1, <2>3 DEF TableOK
    <3> QED
      BY <1>2, <2>1, <2>2, <3>1 DEF TableOK
  <2>6. RegisterOK'
    BY <1>2, <2>1, <2>3 DEF RegisterOK
  <2>7. FindOK'
    BY <1>2, <2>1, <2>2 DEF FindOK
  <2>8. IntxOK'
    <3>1. \A u \in Threads : Pin(u)' = Pin(u) /\ Active(u)' = Active(u)
      BY <1>2 DEF Pin, Active
    <3> QED
      BY <1>2, <2>1, <2>3, <3>1 DEF IntxOK
  <2>9. LinesOK'
    <3>1. \A k \in BackendSlots \cup EmuIrqs : Current(k)' = Current(k)
      BY <1>2, <2>3 DEF Current
    <3> QED
      BY <1>2, <1>3, <2>1, <2>3, <3>1, LinesMid
  <2>10. Kept' = Kept
    BY <1>2 DEF Kept, Assigning
  <2>11. RegionsOK'
    BY <1>2, <1>3, <2>1, <2>10, RegionsMid
  <2>12. ListsOK'
    <3>1. \A u \in Threads : Assigning(u)' = Assigning(u)
      BY <1>2 DEF Assigning
    <3> QED
      BY <1>2, <2>1, <2>10, <3>1 DEF ListsOK
  <2>13. ~failed' /\ OneBusy' /\ EdgesOK'
    BY <1>2, <1>6, <2>1 DEF OneBusy
  <2> QED
    BY <2>4, <2>5, <2>6, <2>7, <2>8, <2>9, <2>11, <2>12, <2>13 DEF SeqInv
<1> QED
  BY <1>2, <1>4, <1>6, <1>7, <1>8, <1>9 DEF EventInv

\* The invariant holds at first.
LEMMA InitEvents == Init => EventInv
<1> SUFFICES ASSUME Init PROVE EventInv
  OBVIOUS
<1>1. Pend = {}
  BY DEF Init, Pend, ToSet
<1>2. NoEvent \in Events /\ 0 \in 0 .. MaxEvents /\ 0 \in Nat
  BY EventAssumption DEF NoEvent, Events
<1>3. IsInjective(irqs) /\ IsInjective(regions) /\ ToSet(regions) = {} /\ ToSet(irqs) = {}
  BY DEF Init, IsInjective, ToSet
<1>4. TypeOK
  <2>1. SendType
    <3>1. queue \in Seq(Events) /\ Len(queue) <= QueueSize
      BY EventAssumption DEF Init
    <3> QED
      BY <1>2, <3>1 DEF Init, SendType
  <2>2. RunType
    BY <1>2 DEF Init, RunType, Places
  <2>3. TableType
    BY <1>2 DEF Init, TableType
  <2>4. LineType
    BY <1>2 DEF Init, LineType
  <2>5. ListType
    <3>1. irqs \in Seq(EmuIrqs) /\ regions \in Seq(Regions) /\ reserved \subseteq Regions
      BY EmptySeq DEF Init
    <3> QED
      BY <1>3, <3>1 DEF ListType
  <2>6. ControlType
    <3>1. sem \in 0 .. 1 /\ boot \in {"drain", "test", "wait", "run"}
      BY DEF Init
    <3>2. ok_to_run \in BOOLEAN /\ overlapped \in BOOLEAN /\ failed \in BOOLEAN
      BY Zenon DEF Init
    <3> QED
      BY <3>1, <3>2 DEF ControlType
  <2> QED
    BY <2>1, <2>2, <2>3, <2>4, <2>5, <2>6, TypeParts
<1>5. /\ \A t \in Threads : hand[t] = NoEvent /\ pc[t] = "idle" /\ at[t] = 0 /\ ~clearing[t]
      /\ queue = <<>> /\ bus = {} /\ pci_dev_count = 0 /\ known = {} /\ reserved = {} /\ claimed = {}
      /\ ~failed /\ ~overlapped /\ sem = 0 /\ sent = 0 /\ "main" \in Threads /\ "ntfn" \in Threads
      /\ \A i \in MsiIrqs : pulses[i] = 0 /\ msis[i] = 0
      /\ \A p \in Pins : intx[p] = {}
      /\ \A j \in 0 .. MaxDevs - 1 : pci_devs[j] = NoDev
  BY DEF Init, Threads
<1>6. OrderOK /\ PendOK
  <2>1. DOMAIN queue = {}
    BY <1>5
  <2> QED
    BY <1>1, <1>5, <2>1 DEF OrderOK, PendOK
<1>7. PcOK
  BY <1>5 DEF PcOK, PcAt, IntxSteps, RegisterSteps, SlotSteps, LineSteps, FreeSteps, AppendSteps
<1>8. /\ \A i \in AllIrqs : level[i] = FALSE
      /\ \A k \in BackendSlots \cup EmuIrqs : wire[k] = FALSE
  BY DEF Init
<1>9. MsisOK /\ EdgesOK
  <2>1. \A i : Unrisen(i) = {}
    BY <1>1 DEF Unrisen
  <2>2. \A i : Cardinality(Unrisen(i)) = 0
    BY <2>1, FS_EmptySet
  <2>3. \A i \in MsiIrqs : ~level[i]
    BY <1>8, Kinds
  <2>4. MsisOK
    BY <1>5, <2>2, <2>3 DEF MsisOK
  <2>5. EdgesOK
    BY <1>5, <2>2, <2>3 DEF EdgesOK
  <2> QED
    BY <2>4, <2>5
<1>10. StartsOK
  <2>1. Starts = {} /\ Cardinality({}) = 0
    BY <1>1, FS_EmptySet DEF Starts
  <2> QED
    BY <1>5, <2>1 DEF StartsOK
<1>11. Listed = {}
  BY <1>5, EventAssumption DEF Listed
<1>12. OneBusy /\ TableOK /\ RegisterOK /\ FindOK
  <2>1. 0 <= MaxDevs
    BY EventAssumption
  <2>2. TableOK
    BY <1>5, <1>11, <2>1 DEF TableOK
  <2> QED
    BY <1>5, <2>2 DEF OneBusy, RegisterOK, FindOK
<1>13. KnownOK
  BY <1>1, <1>5 DEF KnownOK
<1>14. IntxOK
  <2>1. \A p \in Pins : level[IntxBase + p] = FALSE
    BY <1>8, Kinds
  <2> QED
    BY <1>5, <2>1 DEF IntxOK
<1>15. LinesOK
  <2>1. \A k \in BackendSlots \cup EmuIrqs : Current(k) = wire[k]
    <3>1. \A k : On(k) = FALSE
      BY <1>11 DEF On
    <3>2. \A k \in EmuIrqs : level[k] = FALSE
      BY <1>8, Kinds
    <3> QED
      BY <1>8, <3>1, <3>2 DEF Current
  <2> QED
    BY <1>1, <2>1 DEF LinesOK
<1>16. RegionsOK /\ ListsOK
  <2>1. Kept = {}
    BY <1>5 DEF Kept
  <2>2. RegionsOK
    BY <1>1, <1>5, <2>1 DEF RegionsOK, RegionEvents
  <2>3. ListsOK
    <3>1. \A t \in Threads : ~Assigning(t) /\ pc[t] \notin {"link", "again", "remove"} \cup AppendSteps
      BY <1>5 DEF Assigning, AppendSteps
    <3> QED
      BY <1>3, <2>1, <3>1 DEF ListsOK
  <2> QED
    BY <2>2, <2>3
<1> QED
  BY <1>4, <1>5, <1>6, <1>7, <1>9, <1>10, <1>12, <1>13, <1>14, <1>15, <1>16 DEF EventInv, SeqInv

\* Every step of a handler keeps the invariant.
LEMMA HandleKeeps ==
  ASSUME RoomForDevices, EventInv, NEW t \in Threads, Handle(t)
  PROVE  EventInv'
<1>1. InHandler
  BY DEF Handle
<1>2. ASSUME HandlePci(t) PROVE EventInv'
  BY <1>1, <1>2, FindTestKeeps, FindEntryKeeps, ChangeLoadKeeps, ChangeStoreKeeps,
     ChangeLevelKeeps, RegisterCheckKeeps, AddEntryFindKeeps, AddEntryTakeKeeps,
     RegisterCountKeeps, RegisterStoreCountKeeps, RegisterStoreDevKeeps DEF HandlePci
<1>3. ASSUME HandleEmudev(t) PROVE EventInv'
  BY <1>1, <1>3, LineFindKeeps, ListEndKeeps, LineLinkKeeps, LineFindAgainKeeps, LineSetKeeps,
     AssignReserveKeeps, AssignLinkKeeps, FreeFindKeeps, FreeRemoveKeeps, FreeReleaseKeeps
     DEF HandleEmudev
<1> QED
  BY <1>1, <1>2, <1>3, HandleMsiKeeps, FallKeeps, ControlOkKeeps, ControlPostKeeps DEF Handle

\* Every step keeps the invariant.
LEMMA NextEvents ==
  ASSUME RoomForDevices, EventInv, [Next]_vars
  PROVE  EventInv'
<1>1. CASE ~failed /\ DeviceSends
  BY <1>1, SendRegisterKeeps, SendIrqKeeps, SendRegionKeeps, SendStartKeeps DEF DeviceSends
<1>2. ASSUME NEW t \in Threads, Run(t) PROVE EventInv'
  BY <1>2, EventRxKeeps, HandleKeeps DEF Run
<1>3. boot \in {"drain", "test", "wait", "run"} /\ sem \in 0 .. 1
  BY DEF EventInv, TypeOK
<1>4. CASE Boot
  <2>1. BootDrained \/ BootTest \/ BootWait
    BY <1>4 DEF Boot
  <2>2. /\ UNCHANGED <<queue, devVars, runVars, ok_to_run, pciVars, intx, listVars, gicVars,
                       overlapped, failed>>
    BY <1>4 DEF Boot
  <2>3. boot' \in {"drain", "test", "wait", "run"} /\ sem' \in 0 .. 1 /\ sem' <= sem
    BY <1>3, <2>1 DEF BootDrained, BootTest, BootWait
  <2> QED
    BY <2>2, <2>3, BootKeeps
<1>5. CASE UNCHANGED vars
  <2>1. UNCHANGED <<boot, sem>>
    BY <1>5 DEF vars, shared
  <2>2. UNCHANGED <<queue, devVars, runVars, ok_to_run, pciVars, intx, listVars, gicVars,
                    overlapped, failed>>
    BY <1>5 DEF vars, shared
  <2> QED
    BY <1>3, <2>1, <2>2, BootKeeps
<1> QED
  BY <1>1, <1>2, <1>4, <1>5 DEF Next

\* The invariant is inductive, for every set of devices, interrupts and
\* regions, every queue length, and every interleaving of the loads, stores
\* and calls of the two threads that may run rpc_run.
THEOREM EventsInductive == RoomForDevices /\ Spec => []EventInv
<1>1. Init => EventInv
  BY InitEvents
<1>2. RoomForDevices /\ EventInv /\ [Next]_vars => EventInv'
  BY NextEvents
<1>3. RoomForDevices /\ [Next]_vars => RoomForDevices'
  BY DEF RoomForDevices
<1> QED
  BY <1>1, <1>2, <1>3, PTL DEF Spec

\* Every variable keeps its range, and an emulated interrupt has at most one
\* irq_line object as long as one event is handled at a time.
THEOREM EventsTypeCorrect == RoomForDevices /\ Spec => []TypeOK
<1>1. EventInv => TypeOK
  BY DEF EventInv
<1> QED
  BY <1>1, EventsInductive, PTL

\* rpc_run fails for a well-behaved device VM, and the VMM uses a NULL pointer
\* or a place beyond the table, only when both threads have had an event in
\* hand at the same time.
THEOREM FailureMeansOverlap == RoomForDevices /\ Spec => []FailsOnlyWhenOverlapped
<1>1. EventInv => FailsOnlyWhenOverlapped
  BY DEF EventInv, SeqInv, FailsOnlyWhenOverlapped
<1> QED
  BY <1>1, EventsInductive, PTL

\* The last places of a handler.
Ends == {"msi", "fall", "store", "level", "put_count", "put_dev", "set", "link", "release", "post"}

TableStep(t) == RegisterStoreCount(t) \/ RegisterStoreDev(t)

\* A step of a handler moves one thread, from one place to another or to its
\* end; two of them change the table, one lets the guest start.
LEMMA HandlerShape ==
  ASSUME TypeOK, NEW t \in Threads, Handle(t)
  PROVE  /\ InHandler /\ pc[t] # "idle" /\ Others(t)
         /\ hand' = hand \/ (Done(t) /\ pc[t] \in Ends)
         /\ ok_to_run' = ok_to_run \/ (pc[t] = "ok" /\ ok_to_run' = TRUE)
         /\ \/ /\ UNCHANGED <<pci_devs, pci_dev_count>>
               /\ pc[t] \notin {"put_count", "put_dev"} /\ pc'[t] # "put_dev"
            \/ TableStep(t)
<1> DEFINE Moves == /\ pc[t] # "idle" /\ Others(t)
                    /\ hand' = hand \/ (Done(t) /\ pc[t] \in Ends)
           Table == /\ UNCHANGED <<pci_devs, pci_dev_count>>
                    /\ pc[t] \notin {"put_count", "put_dev"} /\ pc'[t] # "put_dev"
           Calm  == Moves /\ Table /\ ok_to_run' = ok_to_run
<1>1. ASSUME NEW l, Goto(t, l), pc[t] # "idle",
             \A u \in Threads : u # t => /\ at'[u] = at[u] /\ dev'[u] = dev[u]
                                         /\ saved'[u] = saved[u] /\ clearing'[u] = clearing[u]
      PROVE  Moves /\ pc'[t] = l
  BY <1>1 DEF TypeOK, Others, Goto
<1>2. ASSUME Done(t), pc[t] \in Ends PROVE Moves /\ pc'[t] = "idle"
  BY <1>2 DEF TypeOK, Others, Done, Ends
<1>3. ASSUME Fail, pc[t] \notin {"idle", "put_count", "put_dev"} PROVE Calm
  BY <1>3 DEF Others, Fail, runVars, locals, shared, pciVars
<1>4. ASSUME IntxReturn(t), pc[t] \in Ends PROVE Moves /\ pc'[t] \in {"find", "idle"}
  <2>1. CASE Done(t)
    BY <1>2, <1>4, <2>1
  <2>2. CASE /\ at' = [at EXCEPT ![t] = 0] /\ dev' = [dev EXCEPT ![t] = 0]
             /\ saved' = [saved EXCEPT ![t] = {}] /\ clearing' = [clearing EXCEPT ![t] = TRUE]
             /\ Goto(t, "find")
    BY <1>4, <2>2 DEF TypeOK, Others, Goto, Ends
  <2> QED
    BY <1>4, <2>1, <2>2 DEF IntxReturn
<1>5. UNCHANGED shared => UNCHANGED <<ok_to_run, pci_devs, pci_dev_count>>
  BY DEF shared, pciVars
<1>6. UNCHANGED pciVars => UNCHANGED <<pci_devs, pci_dev_count>>
  BY DEF pciVars
<1> HIDE DEF Moves
<1>7. ASSUME pc[t] \in {"msi", "set"}, Rise(t) PROVE Calm
  BY <1>1, <1>6, <1>7 DEF Rise, TypeOK, locals
<1>8. ASSUME HandleMsi(t) \/ Fall(t) \/ LineSet(t) PROVE Calm
  BY <1>2, <1>5, <1>6, <1>7, <1>8 DEF HandleMsi, Fall, LineSet, Ends
<1>9. ASSUME HandlePci(t), ~TableStep(t) PROVE Calm
  <2>1. CASE FindTest(t)
    BY <1>1, <1>3, <1>5, <2>1 DEF FindTest, Proceed, TypeOK, locals
  <2>2. CASE FindEntry(t)
    BY <1>1, <1>3, <1>5, <2>2 DEF FindEntry, TypeOK, locals
  <2>3. CASE ChangeLoad(t)
    BY <1>1, <1>5, <2>3 DEF ChangeLoad, TypeOK, locals
  <2>4. CASE ChangeStore(t)
    BY <1>1, <1>4, <1>6, <2>4 DEF ChangeStore, Ends, TypeOK, locals
  <2>5. CASE ChangeLevel(t)
    BY <1>4, <1>6, <2>5 DEF ChangeLevel, Ends
  <2>6. CASE RegisterCheck(t)
    BY <1>1, <1>3, <1>5, <2>6 DEF RegisterCheck, Proceed, TypeOK, locals
  <2>7. CASE AddEntryFind(t)
    BY <1>1, <1>3, <1>5, <2>7 DEF AddEntryFind, TypeOK, locals
  <2>8. CASE AddEntryTake(t)
    BY <1>1, <2>8 DEF AddEntryTake, TypeOK, locals
  <2>9. CASE RegisterCount(t)
    BY <1>1, <1>5, <2>9 DEF RegisterCount, TypeOK, locals
  <2> QED
    BY <1>9, <2>1, <2>2, <2>3, <2>4, <2>5, <2>6, <2>7, <2>8, <2>9 DEF HandlePci, TableStep
<1>10. ASSUME TableStep(t) PROVE Moves /\ ok_to_run' = ok_to_run
  <2>1. CASE RegisterStoreCount(t)
    BY <1>1, <1>2, <2>1 DEF RegisterStoreCount, Ends, TypeOK, locals
  <2>2. CASE RegisterStoreDev(t) /\ ~Fail
    BY <1>1, <1>2, <2>2 DEF RegisterStoreDev, Ends, TypeOK, locals
  <2>3. CASE RegisterStoreDev(t) /\ Fail
    BY <2>3 DEF RegisterStoreDev, Fail, Moves, Others, runVars, locals, shared
  <2> QED
    BY <1>10, <2>1, <2>2, <2>3 DEF TableStep
<1>11. ASSUME HandleEmudev(t) PROVE Calm
  <2>1. CASE LineFind(t)
    BY <1>1, <1>5, <2>1 DEF LineFind, Proceed, TypeOK, locals
  <2>2. CASE ListEnd(t)
    BY <1>1, <1>5, <2>2 DEF ListEnd, TypeOK, locals
  <2>3. CASE LineLink(t)
    BY <1>1, <1>6, <2>3 DEF LineLink, TypeOK, locals
  <2>4. CASE LineFindAgain(t)
    BY <1>1, <1>3, <1>5, <2>4 DEF LineFindAgain, Proceed, TypeOK, locals
  <2>5. CASE AssignReserve(t)
    BY <1>1, <1>3, <1>6, <2>5 DEF AssignReserve, TypeOK, locals
  <2>6. CASE AssignLink(t)
    BY <1>2, <1>6, <2>6 DEF AssignLink, Ends
  <2>7. CASE FreeFind(t)
    BY <1>1, <1>3, <1>5, <2>7 DEF FreeFind, Proceed, TypeOK, locals
  <2>8. CASE FreeRemove(t)
    BY <1>1, <1>6, <2>8 DEF FreeRemove, TypeOK, locals
  <2>9. CASE FreeRelease(t)
    BY <1>2, <1>6, <2>9 DEF FreeRelease, Ends
  <2> QED
    BY <1>8, <1>11, <2>1, <2>2, <2>3, <2>4, <2>5, <2>6, <2>7, <2>8, <2>9 DEF HandleEmudev
<1>12. ASSUME ControlOk(t) \/ ControlPost(t)
       PROVE  Moves /\ Table /\ (ok_to_run' = ok_to_run \/ (pc[t] = "ok" /\ ok_to_run' = TRUE))
  <2>1. CASE ControlOk(t)
    BY <1>1, <1>6, <2>1 DEF ControlOk, TypeOK, locals
  <2>2. CASE ControlPost(t)
    BY <1>2, <1>6, <2>2 DEF ControlPost, Ends
  <2> QED
    BY <1>12, <2>1, <2>2
<1>13. InHandler /\ (Moves => pc[t] # "idle" /\ Others(t) /\ (hand' = hand \/ (Done(t) /\ pc[t] \in Ends)))
  BY DEF Handle, Moves
<1> HIDE DEF Table
<1>14. Moves /\ (Table \/ TableStep(t)) /\ (ok_to_run' = ok_to_run \/ (pc[t] = "ok" /\ ok_to_run' = TRUE))
  BY <1>8, <1>9, <1>10, <1>11, <1>12 DEF Handle
<1> QED
  BY <1>13, <1>14 DEF Table

\* Both threads have an event in hand only while the main thread drains the
\* queue in io_proxy_run: after that the events are handled one at a time.
THEOREM NoOverlapAfterBoot == RoomForDevices /\ Spec => OverlapOnlyAtBoot
<1> DEFINE MainIdle == boot # "drain" => pc["main"] = "idle"
           Step     == boot # "drain" => overlapped' = overlapped
<1>1. Init => MainIdle
  BY DEF Init
<1>2. ASSUME EventInv, MainIdle, [Next]_vars PROVE MainIdle' /\ Step
  <2>1. TypeOK /\ "main" \in Threads /\ \A t \in Threads : t = "main" \/ t = "ntfn"
    BY <1>2 DEF EventInv, Threads
  <2>2. CASE ~failed /\ DeviceSends
    <3>1. UNCHANGED <<pc, boot, overlapped>>
      BY <2>2 DEF DeviceSends, SendRegister, SendIrq, SendRegion, SendStart, Send, runVars
    <3> QED
      BY <1>2, <3>1
  <2>3. ASSUME NEW t \in Threads, EventRx(t) PROVE MainIdle' /\ Step
    <3>1. CASE boot = "drain"
      BY <2>3, <3>1 DEF EventRx
    <3>2. CASE boot # "drain"
      <4>1. t = "ntfn" /\ pc["main"] = "idle"
        BY <1>2, <2>1, <2>3, <3>2 DEF EventRx, MayRun
      <4>2. pc'["main"] = pc["main"]
        BY <2>1, <2>3, <4>1 DEF EventRx, TypeOK
      <4>3. \A u \in Threads \ {t} : pc[u] = "idle"
        BY <2>1, <4>1
      <4>4. overlapped' = overlapped
        <5>1. overlapped \in BOOLEAN /\ overlapped' = (overlapped \/ \E u \in Threads \ {t} : pc[u] # "idle")
          BY <2>1, <2>3, TypeParts DEF EventRx, ControlType
        <5> QED
          BY <4>3, <5>1
      <4> QED
        BY <4>1, <4>2, <4>4
    <3> QED
      BY <3>1, <3>2
  <2>4. ASSUME NEW t \in Threads, Handle(t) PROVE MainIdle' /\ Step
    <3>1. pc[t] # "idle" /\ Others(t) /\ UNCHANGED <<boot, overlapped>>
      BY <2>1, <2>4, HandlerShape DEF InHandler
    <3> QED
      BY <1>2, <2>1, <3>1 DEF Others
  <2>5. CASE Boot
    <3>1. UNCHANGED <<pc, overlapped>>
      BY <2>5 DEF Boot, runVars
    <3>2. boot = "drain" => pc["main"] = "idle"
      BY <2>5 DEF Boot, BootDrained, BootTest, BootWait
    <3> QED
      BY <1>2, <3>1, <3>2
  <2>6. CASE UNCHANGED vars
    <3>1. UNCHANGED <<pc, boot, overlapped>>
      BY <2>6 DEF vars, runVars
    <3> QED
      BY <1>2, <3>1
  <2> QED
    BY <1>2, <2>2, <2>3, <2>4, <2>5, <2>6 DEF Next, Run
<1>3. EventInv /\ MainIdle /\ [Next]_vars => MainIdle'
  BY <1>2
<1>4. EventInv /\ MainIdle /\ [Next]_vars => [Step]_vars
  BY <1>2
<1> HIDE DEF MainIdle
<1>5. RoomForDevices /\ Spec => [][Step]_vars
  BY <1>1, <1>3, <1>4, EventsInductive, PTL DEF Spec
<1> QED
  BY <1>5, PTL DEF OverlapOnlyAtBoot

---------------------------------------------------------------------------
(* When all events are handled *)

\* Nothing is under way when the queue is empty and both threads are idle.
LEMMA QuietPend ==
  ASSUME EventInv, Quiet
  PROVE  Pend = {} /\ \A t \in Threads : pc[t] = "idle" /\ hand[t] = NoEvent
<1>1. \A t \in Threads : pc[t] = "idle" /\ hand[t] = NoEvent
  BY DEF EventInv, PcOK, PcAt, Quiet
<1>2. ToSet(queue) = {}
  BY DEF Quiet, ToSet
<1> QED
  BY <1>1, <1>2 DEF Pend

\* However the threads interleave, an MSI has no more edges than raises and at
\* least one once it is handled; without overlap every raise is an edge.
THEOREM MsisInjectedInOrder == RoomForDevices /\ Spec => []MsisInjected
<1>1. ASSUME EventInv PROVE MsisInjected
  <2> SUFFICES ASSUME NEW i \in MsiIrqs
               PROVE  /\ pulses[i] <= msis[i]
                      /\ Quiet /\ msis[i] > 0 => pulses[i] > 0
                      /\ Quiet /\ ~overlapped => pulses[i] = msis[i]
    BY DEF MsisInjected
  <2>1. TypeOK /\ OrderOK /\ MsisOK /\ (~overlapped => EdgesOK)
    BY <1>1 DEF EventInv, SeqInv
  <2>2. Cardinality(Unrisen(i)) \in Nat
    BY <2>1, CountedFinite
  <2>3. pulses[i] \in Nat /\ msis[i] \in Nat
    BY <2>1, EventAssumption DEF TypeOK
  <2>4. pulses[i] <= msis[i]
    BY <2>1, <2>2, <2>3 DEF MsisOK
  <2>5. Quiet => Unrisen(i) = {} /\ Cardinality(Unrisen(i)) = 0
    <3>1. Quiet => Unrisen(i) = {}
      BY <1>1, QuietPend DEF Unrisen
    <3> QED
      BY <3>1, FS_EmptySet
  <2> QED
    BY <2>1, <2>3, <2>4, <2>5 DEF MsisOK, EdgesOK
<1> QED
  BY <1>1, EventsInductive, PTL

\* The list of MMIO reservations and the VM's reservations are what the device
\* VM has configured, once all events are handled one at a time.
THEOREM ReservationsAgree == RoomForDevices /\ Spec => []RegionsReserved
<1>1. ASSUME EventInv, Quiet, ~overlapped
      PROVE  reserved = claimed /\ ToSet(regions) = claimed /\ IsInjective(regions)
  <2>1. TypeOK /\ RegionsOK /\ ListsOK
    BY <1>1 DEF EventInv, SeqInv
  <2>2. Pend = {} /\ \A t \in Threads : pc[t] = "idle" /\ hand[t] = NoEvent
    BY <1>1, QuietPend
  <2>3. Kept = reserved
    BY <2>2 DEF Kept, Assigning, NoEvent
  <2>4. \A r \in Regions : r \in reserved <=> r \in claimed
    BY <2>1, <2>2, <2>3 DEF RegionsOK, RegionEvents
  <2>5. reserved \subseteq Regions /\ claimed \subseteq Regions
    BY <2>1 DEF TypeOK
  <2>6. reserved = claimed
    BY <2>4, <2>5
  <2>7. ToSet(regions) = reserved
    BY <2>1, <2>2, <2>3 DEF ListsOK
  <2> QED
    BY <2>1, <2>6, <2>7 DEF ListsOK
<1>2. EventInv => RegionsReserved
  BY <1>1 DEF RegionsReserved
<1> QED
  BY <1>2, EventsInductive, PTL

\* The entry of a device, when nothing is being registered.
LEMMA DeviceEntry ==
  ASSUME EventInv, Quiet, ~overlapped, NEW j \in Listed
  PROVE  pcidev(pci_devs[j].bslot) = pci_devs[j]
<1>1. TypeOK /\ TableOK /\ \A t \in Threads : pc[t] = "idle"
  BY QuietPend DEF EventInv, SeqInv
<1>2. \A k \in 0 .. MaxDevs - 1 : k \in Listed \/ pci_devs[k] = NoDev
  BY <1>1 DEF TableOK
<1>3. j \in 0 .. MaxDevs - 1 /\ pci_devs[j].bslot \in BackendSlots /\ pci_devs[j].bslot # -1
  BY <1>1, Entries, Kinds
<1>4. \A k \in 0 .. MaxDevs - 1 : pci_devs[k].bslot = pci_devs[j].bslot => k = j
  <2> SUFFICES ASSUME NEW k \in 0 .. MaxDevs - 1, pci_devs[k].bslot = pci_devs[j].bslot PROVE k = j
    OBVIOUS
  <2>1. k \in Listed
    BY <1>2, <1>3 DEF NoDev
  <2> QED
    BY <1>1, <2>1 DEF TableOK
<1> DEFINE D == {pci_devs[i] : i \in 0 .. MaxDevs - 1}
<1>5. pci_devs[j] \in D /\ \A d \in D : d.bslot = pci_devs[j].bslot => d = pci_devs[j]
  BY <1>3, <1>4
<1>6. pcidev(pci_devs[j].bslot) = CHOOSE d \in D : d.bslot = pci_devs[j].bslot
  BY DEF pcidev
<1> HIDE DEF D
<1> QED
  BY <1>5, <1>6

\* End to end: once all events are handled, the guest's interrupt inputs show
\* what the device VM's devices drive, if the two threads never overlapped.
THEOREM GuestSeesBackendLines == RoomForDevices /\ Spec => []LinesFollowBackend
<1>1. ASSUME EventInv, Quiet, ~overlapped PROVE LinesAgree
  <2> DEFINE at_pin(b) == pci_map_irq(pcidev(b).slot)
  <2>1. TypeOK /\ TableOK /\ KnownOK /\ IntxOK /\ LinesOK
    BY <1>1 DEF EventInv, SeqInv
  <2>2. Pend = {} /\ \A t \in Threads : pc[t] = "idle"
    BY <1>1, QuietPend
  <2>3. \A k \in BackendSlots \cup EmuIrqs : Current(k) = wire[k]
    BY <2>1, <2>2 DEF LinesOK, IrqEvents
  <2>4. known \subseteq BackendSlots
    BY <2>1 DEF TypeOK
  <2>5. \A i \in EmuIrqs : level[i] = wire[i]
    BY <2>3, Kinds DEF Current
  <2>6. \A b \in known : \E j \in Listed : pci_devs[j].bslot = b
    BY <2>1, <2>2 DEF KnownOK, Registered
  <2>7. ASSUME NEW p \in Pins, intx[p] # {}
        PROVE  \E b \in known : wire[b] /\ at_pin(b) = p
    <3>1. PICK s \in intx[p] : pci_map_irq(s) = p /\ Taken(s)
      BY <2>1, <2>7 DEF IntxOK
    <3>2. PICK j \in Listed : pci_devs[j].slot = s
      BY <3>1 DEF Taken
    <3>3. pci_devs[j].bslot \in known
      BY <2>1 DEF TableOK
    <3>4. On(pci_devs[j].bslot)
      BY <3>1, <3>2 DEF On
    <3>5. wire[pci_devs[j].bslot]
      BY <2>3, <2>4, <3>3, <3>4 DEF Current
    <3>6. pcidev(pci_devs[j].bslot) = pci_devs[j]
      BY <1>1, DeviceEntry
    <3> QED
      BY <3>1, <3>2, <3>3, <3>5, <3>6
  <2>8. ASSUME NEW p \in Pins, NEW b \in known, wire[b], at_pin(b) = p
        PROVE  intx[p] # {}
    <3>1. On(b)
      BY <2>3, <2>4, <2>8 DEF Current
    <3>2. PICK j \in Listed : /\ pci_devs[j].bslot = b
                              /\ pci_devs[j].slot \in intx[pci_map_irq(pci_devs[j].slot)]
      BY <3>1 DEF On
    <3>3. pcidev(b) = pci_devs[j]
      BY <1>1, <3>2, DeviceEntry
    <3> QED
      BY <2>8, <3>2, <3>3
  <2>9. \A b \in known : at_pin(b) \in Pins
    <3> SUFFICES ASSUME NEW b \in known PROVE at_pin(b) \in Pins
      OBVIOUS
    <3>1. PICK j \in Listed : pci_devs[j].bslot = b
      BY <2>6
    <3>2. pcidev(b) = pci_devs[j]
      BY <1>1, <3>1, DeviceEntry
    <3> QED
      BY <2>1, <3>2, Entries
  <2>10. ASSUME NEW p \in Pins, NEW b \in known
         PROVE  /\ PciRegister(pcidev(b), "line") = IntxBase + p <=> at_pin(b) = p
                /\ PciRegister(pcidev(b), "pin") = p + 1 <=> at_pin(b) = p
    <3>1. PICK q \in Pins : q = at_pin(b)
      BY <2>9
    <3>2. /\ PciRegister(pcidev(b), "line") = IntxBase + q
          /\ PciRegister(pcidev(b), "pin") = q + 1
      BY <3>1 DEF PciRegister
    <3>3. p \in Nat /\ q \in Nat /\ IntxBase \in Nat
      BY EventAssumption DEF Pins, PCI_NUM_PINS
    <3> QED
      BY <3>1, <3>2, <3>3
  <2>11. \A p \in Pins : level[IntxBase + p] = (intx[p] # {})
    BY <2>1, <2>2 DEF IntxOK
  <2>12. ASSUME NEW p \in Pins
         PROVE  /\ level[IntxBase + p] =
                     \E b \in {c \in known : wire[c]} : PciRegister(pcidev(b), "line") = IntxBase + p
                /\ level[IntxBase + p] =
                     \E b \in {c \in known : wire[c]} : PciRegister(pcidev(b), "pin") = p + 1
    <3>1. intx[p] # {} <=> \E b \in known : wire[b] /\ at_pin(b) = p
      BY <2>7, <2>8
    <3>2. intx[p] # {} <=> \E b \in {c \in known : wire[c]} :
                             PciRegister(pcidev(b), "line") = IntxBase + p
      BY <2>10, <3>1
    <3>3. intx[p] # {} <=> \E b \in {c \in known : wire[c]} :
                             PciRegister(pcidev(b), "pin") = p + 1
      BY <2>10, <3>1
    <3> QED
      BY <2>11, <3>2, <3>3
  <2> QED
    BY <2>5, <2>12 DEF LinesAgree
<1>2. EventInv => LinesFollowBackend
  BY <1>1 DEF LinesFollowBackend
<1> QED
  BY <1>2, EventsInductive, PTL
==============================================================================
