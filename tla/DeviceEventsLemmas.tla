-------------------------- MODULE DeviceEventsLemmas --------------------------
(***************************************************************************)
(* The inductive invariant of the device events and the lemmas its proof   *)
(* rests on: about sequences, about the events under way, and about what   *)
(* each part of the invariant does when an event is sent or used up.       *)
(***************************************************************************)
EXTENDS DeviceEvents, FiniteSetTheorems, SequenceTheorems,
        WellFoundedInduction, TLAPS

\* The device VM has no more PCI devices than the VMM has table entries
\* (PCI_NUM_AVAIL_DEVICES) and slots.
RoomForDevices ==
  /\ Cardinality(BackendSlots) <= MaxDevs
  /\ Cardinality(BackendSlots) <= Cardinality(VmmSlots)

---------------------------------------------------------------------------
(* The inductive invariant: what holds however the threads interleave *)

\* Events sent and not used up.
Pend == {hand[t] : t \in {u \in Threads : hand[u] # NoEvent}} \cup ToSet(queue)

\* What the device VM puts into an event.
Good(e) ==
  /\ e.op # "none"
  /\ e.op = "register" => e.arg \in BackendSlots
  /\ e.op = "set_irq" => /\ e.arg \in BackendSlots \cup EmuIrqs \cup MsiIrqs
                         /\ e.irqop # "none"
  /\ e.op \in {"assign", "free"} => e.arg \in Regions

\* Events are numbered in the order they are sent and taken in that order.
OrderOK ==
  /\ \A j, k \in DOMAIN queue : j < k => queue[j].n < queue[k].n
  /\ \A t \in Threads, k \in DOMAIN queue : hand[t].n < queue[k].n
  /\ \A t \in Threads : hand[t] # NoEvent => hand[t].n >= 1
  /\ hand["main"].n = hand["ntfn"].n => \A t \in Threads : hand[t] = NoEvent

PendOK == \A e \in Pend : Good(e) /\ e.n >= 1 /\ e.n <= sent

\* The steps of each handler.
IntxSteps     == {"find", "entry", "load", "store", "level"}
RegisterSteps == {"check", "add", "take", "count", "publish", "put_count", "put_dev"}
SlotSteps     == {"load", "store", "level", "take", "count", "publish",
                  "put_count", "put_dev"}
LineSteps     == {"line", "again", "set"}
FreeSteps     == {"search", "remove", "release"}
AppendSteps   == {"end", "link"}

IrqFor(e, S) == e.op = "set_irq" /\ e.arg \in S

\* A thread is in a handler of the event it has in hand.
PcAt(t) ==
  /\ pc[t] = "idle" <=> hand[t] = NoEvent
  /\ pc[t] = "idle" => at[t] = 0 /\ ~clearing[t]
  /\ pc[t] = "msi" => IrqFor(hand[t], MsiIrqs)
  /\ pc[t] \in IntxSteps => IrqFor(hand[t], BackendSlots)
  /\ pc[t] \in LineSteps => IrqFor(hand[t], EmuIrqs)
  /\ pc[t] = "fall" =>
       \/ IrqFor(hand[t], MsiIrqs) /\ hand[t].irqop # "clr"
       \/ IrqFor(hand[t], EmuIrqs) /\ hand[t].irqop = "pulse"
  /\ pc[t] \in AppendSteps => IrqFor(hand[t], EmuIrqs) \/ hand[t].op = "assign"
  /\ pc[t] \in RegisterSteps => hand[t].op = "register"
  /\ pc[t] = "reserve" => hand[t].op = "assign"
  /\ pc[t] \in FreeSteps => hand[t].op = "free"
  /\ pc[t] \in {"ok", "post"} => hand[t].op = "start"
  /\ pc[t] \in SlotSteps => dev[t] \in VmmSlots

PcOK == \A t \in Threads : PcAt(t)

\* Events that have yet to raise MSI i, and that have yet to start the guest.
Unrisen(i) ==
  {e \in Pend : /\ e.op = "set_irq" /\ e.arg = i /\ e.irqop # "clr"
                /\ \A t \in Threads : pc[t] = "fall" => e # hand[t]}
Starts == {e \in Pend : e.op = "start"}

\* No MSI has more edges than raises, and one that was raised has an edge or
\* will get one.
MsisOK ==
  \A i \in MsiIrqs :
    /\ pulses[i] + Cardinality(Unrisen(i)) <= msis[i] /\ msis[i] <= sent
    /\ msis[i] > 0 => pulses[i] > 0 \/ Unrisen(i) # {}
    /\ level[i] => pulses[i] > 0

\* The device VM starts the guest once.
StartsOK ==
  /\ sem + Cardinality(Starts) <= 1
  /\ ~started => sem = 0 /\ Starts = {}

---------------------------------------------------------------------------
(* The inductive invariant: what holds if the threads never overlapped *)

OneBusy == \A t, u \in Threads : pc[t] # "idle" /\ pc[u] # "idle" => t = u

\* A line is high only during its pulse, so every raise is an edge.
EdgesOK ==
  \A i \in MsiIrqs :
    /\ pulses[i] + Cardinality(Unrisen(i)) = msis[i]
    /\ level[i] => \E t \in Threads : pc[t] = "fall" /\ hand[t].arg = i

\* Table entries of the devices whose registration is complete.
Listed ==
  {j \in 0 .. MaxDevs - 1 :
     j < pci_dev_count /\ \A t \in Threads : pc[t] = "put_dev" => j # at[t]}

Registered(b) == \E j \in Listed : pci_devs[j].bslot = b
Taken(s)      == \E j \in Listed : pci_devs[j].slot = s

\* The table: a device is in it once, in a slot of its own that is taken on
\* the bus, and nothing else is in it.
TableOK ==
  /\ pci_dev_count <= MaxDevs
  /\ \A j \in Listed : pci_devs[j] # NoDev /\ pci_devs[j].bslot \in known
                                           /\ pci_devs[j].slot \in bus
  /\ \A j \in 0 .. MaxDevs - 1 : j \in Listed \/ pci_devs[j] = NoDev
                                 \/ \E t \in Threads : pc[t] = "put_count" /\ at[t] = j
  /\ \A j, k \in Listed :
       pci_devs[j].bslot = pci_devs[k].bslot \/ pci_devs[j].slot = pci_devs[k].slot => j = k
  /\ \A s \in bus :
       \/ Taken(s)
       \/ \E t \in Threads : /\ pc[t] \in {"count", "publish", "put_count", "put_dev"}
                             /\ dev[t] = s

\* A thread in pcidev_register.
RegisterOK ==
  \A t \in Threads :
    /\ pc[t] = "take" => dev[t] \notin bus
    /\ pc[t] \in {"count", "publish", "put_count", "put_dev"} => dev[t] \in bus /\ ~Taken(dev[t])
    /\ pc[t] \in {"publish", "put_count"} => at[t] = pci_dev_count
    /\ pc[t] = "put_dev" => at[t] + 1 = pci_dev_count
    /\ pc[t] = "put_count" =>
         at[t] < MaxDevs /\ pci_devs[at[t]] = [bslot |-> hand[t].arg, slot |-> dev[t]]

\* A device of the device VM is in the table or its registration under way.
KnownOK ==
  /\ \A e \in Pend : e.op = "register" =>
       /\ e.arg \in known /\ ~Registered(e.arg)
       /\ \A f \in Pend : f.op = "register" /\ f.arg = e.arg => f = e
  /\ \A b \in known :
       Registered(b) \/ \E e \in Pend : e.op = "register" /\ e.arg = b

\* A thread in handle_pci_intx: the entries it has passed are of other
\* devices, and then it has the slot of its device.
FindOK ==
  \A t \in Threads :
    /\ pc[t] \in {"find", "entry"} => \A j \in Listed : j < at[t] => pci_devs[j].bslot # hand[t].arg
    /\ pc[t] = "entry" => at[t] < pci_dev_count
    /\ pc[t] \in {"load", "store", "level"} =>
         \E j \in Listed : pci_devs[j].bslot = hand[t].arg /\ pci_devs[j].slot = dev[t]
    /\ clearing[t] => hand[t].irqop = "pulse"

\* The sources of a line are slots of the table that map to it, and its level
\* is their OR except between the store and the call of the vGIC.
IntxOK ==
  /\ \A p \in Pins : \A s \in intx[p] : pci_map_irq(s) = p /\ Taken(s)
  /\ \A p \in Pins : \/ level[IntxBase + p] = (intx[p] # {})
                     \/ \E t \in Threads : pc[t] = "level" /\ Pin(t) = p
  /\ \A t \in Threads :
       /\ pc[t] \in {"store", "level"} => saved[t] = intx[Pin(t)]
       /\ pc[t] = "level" => (dev[t] \in saved[t] <=> Active(t))

Oldest(e, S) == e \in S /\ \A f \in S : e.n <= f.n
Newest(e, S) == e \in S /\ \A f \in S : f.n <= e.n

IrqEvents(k) == {e \in Pend : e.op = "set_irq" /\ e.arg = k}

\* The device of slot b drives its line.
On(b) ==
  \E j \in Listed :
    /\ pci_devs[j].bslot = b
    /\ pci_devs[j].slot \in intx[pci_map_irq(pci_devs[j].slot)]

Current(k) == IF k \in BackendSlots THEN On(k) ELSE level[k]

\* The last event under way for an interrupt carries the level the device VM
\* drives; without one the guest has that level.  A device's registration
\* comes before its interrupts.
LinesOK ==
  /\ \A k \in BackendSlots \cup EmuIrqs :
       /\ IrqEvents(k) = {} => Current(k) = wire[k]
       /\ \A e \in Pend : Newest(e, IrqEvents(k)) => wire[k] = (e.irqop = "set")
  /\ \A e \in Pend : e.op = "set_irq" /\ e.arg \in BackendSlots =>
       \/ Registered(e.arg)
       \/ \E f \in Pend : f.op = "register" /\ f.arg = e.arg /\ f.n < e.n

RegionEvents(r) == {e \in Pend : e.op \in {"assign", "free"} /\ e.arg = r}

\* Regions that are reserved by the events that have been used up.
Assigning(t) == hand[t].op = "assign" /\ pc[t] \in AppendSteps
Kept == {r \in reserved : \A t \in Threads : Assigning(t) => r # hand[t].arg}

\* Assignments and frees of a region alternate, from what is reserved now to
\* what the device VM has.
RegionsOK ==
  \A r \in Regions :
    /\ RegionEvents(r) = {} => (r \in Kept <=> r \in claimed)
    /\ \A e \in Pend :
         /\ Oldest(e, RegionEvents(r)) => (e.op = "assign" <=> r \notin Kept)
         /\ Newest(e, RegionEvents(r)) => (e.op = "assign" <=> r \in claimed)
    /\ \A e, f \in RegionEvents(r) :
         e.n < f.n /\ (\A g \in RegionEvents(r) : g.n <= e.n \/ f.n <= g.n) => e.op # f.op

\* The lists, and a thread that works on one.
ListsOK ==
  /\ IsInjective(irqs) /\ IsInjective(regions)
  /\ ToSet(regions) = {r \in Kept : \A t \in Threads : pc[t] = "release" => r # hand[t].arg}
  /\ \A t \in Threads :
       /\ Assigning(t) => hand[t].arg \in reserved
       /\ pc[t] = "link" => at[t] = Len(IF hand[t].op = "assign" THEN regions ELSE irqs)
       /\ pc[t] \in AppendSteps /\ hand[t].op = "set_irq" => hand[t].arg \notin ToSet(irqs)
       /\ pc[t] = "again" => hand[t].arg \in ToSet(irqs)
       /\ pc[t] = "remove" => hand[t].arg \in ToSet(regions)

SeqInv ==
  /\ ~failed /\ OneBusy /\ EdgesOK
  /\ TableOK /\ RegisterOK /\ KnownOK /\ FindOK /\ IntxOK
  /\ LinesOK /\ RegionsOK /\ ListsOK

EventInv ==
  /\ TypeOK /\ OrderOK /\ PendOK /\ PcOK /\ MsisOK /\ StartsOK
  /\ ~overlapped => SeqInv

---------------------------------------------------------------------------
(* Constants and sequences *)

\* The kinds of interrupts are apart: PCI slots are below the MSI range, and
\* the other interrupts in neither.
LEMMA Kinds ==
  /\ BackendSlots \subseteq Nat /\ VmmSlots \subseteq Nat
  /\ \A b \in BackendSlots : irq_is_pci(b) /\ ~v2m_irq_valid(b) /\ b \notin MsiIrqs /\ b \notin EmuIrqs
  /\ \A i \in MsiIrqs : v2m_irq_valid(i) /\ i \notin EmuIrqs
  /\ \A i \in EmuIrqs : ~v2m_irq_valid(i) /\ ~irq_is_pci(i)
  /\ \A p \in Pins : IntxBase + p \in AllIrqs /\ IntxBase + p \notin EmuIrqs \cup MsiIrqs
  /\ \A p, q \in Pins : IntxBase + p = IntxBase + q => p = q
  /\ \A s \in VmmSlots : pci_map_irq(s) \in Pins
  /\ EmuIrqs \subseteq AllIrqs /\ MsiIrqs \subseteq AllIrqs
<1>1. /\ \A b \in BackendSlots : b \in 0 .. 31
      /\ \A s \in VmmSlots : s \in 1 .. 31
      /\ MsiBase >= 32 /\ MsiBase \in Nat /\ MsiNum \in Nat /\ IntxBase \in Nat
      /\ \A i \in MsiIrqs : v2m_irq_valid(i) /\ i \in Nat
      /\ \A i \in EmuIrqs : ~v2m_irq_valid(i) /\ ~irq_is_pci(i) /\ i \in Nat
      /\ IntxIrqs \cap (MsiIrqs \cup EmuIrqs) = {}
  BY EventAssumption DEF PCI_NUM_SLOTS
<1>2. /\ BackendSlots \subseteq Nat /\ VmmSlots \subseteq Nat
      /\ \A b \in BackendSlots : irq_is_pci(b) /\ ~v2m_irq_valid(b)
  BY <1>1 DEF irq_is_pci, v2m_irq_valid, PCI_NUM_SLOTS
<1>3. \A b \in BackendSlots : b \notin MsiIrqs /\ b \notin EmuIrqs
  BY <1>1, <1>2
<1>4. \A i \in MsiIrqs : i \notin EmuIrqs
  BY <1>1
<1>5. \A p \in Pins : p \in 0 .. 3
  BY DEF Pins, PCI_NUM_PINS
<1>6. \A p \in Pins : IntxBase + p \in IntxIrqs
  BY DEF IntxIrqs
<1>7. \A p \in Pins : IntxBase + p \in AllIrqs /\ IntxBase + p \notin EmuIrqs \cup MsiIrqs
  BY <1>1, <1>6 DEF AllIrqs
<1>8. \A p, q \in Pins : IntxBase + p = IntxBase + q => p = q
  BY <1>1, <1>5
<1>9. \A s \in VmmSlots : pci_map_irq(s) \in Pins
  BY <1>1 DEF pci_map_irq, Pins, PCI_NUM_PINS
<1> QED
  BY <1>1, <1>2, <1>3, <1>4, <1>7, <1>8, <1>9 DEF AllIrqs

\* What Append does to a sequence.
LEMMA AppendFacts ==
  ASSUME NEW S, NEW q \in Seq(S), NEW x \in S
  PROVE  /\ Append(q, x) \in Seq(S) /\ Len(Append(q, x)) = Len(q) + 1 /\ Len(q) \in Nat
         /\ DOMAIN q = 1 .. Len(q) /\ DOMAIN Append(q, x) = 1 .. Len(q) + 1
         /\ \A k \in DOMAIN q : k \in DOMAIN Append(q, x) /\ Append(q, x)[k] = q[k]
         /\ Append(q, x)[Len(q) + 1] = x /\ Len(q) + 1 \in DOMAIN Append(q, x)
         /\ \A k \in DOMAIN Append(q, x) : k \in DOMAIN q \/ k = Len(q) + 1
         /\ ToSet(Append(q, x)) = ToSet(q) \cup {x}
<1> DEFINE r == Append(q, x)
           m == Len(q)
<1>1. /\ r \in Seq(S) /\ Len(r) = m + 1 /\ m \in Nat
      /\ \A k \in 1 .. m : r[k] = q[k]
      /\ r[m + 1] = x
  OBVIOUS
<1>2. DOMAIN r = 1 .. (m + 1) /\ DOMAIN q = 1 .. m
  BY <1>1, LenProperties
<1> HIDE DEF r, m
<1>3. \A k \in 1 .. (m + 1) : k \in 1 .. m \/ k = m + 1
  BY <1>1
<1>4. 1 .. m \subseteq 1 .. (m + 1) /\ m + 1 \in 1 .. (m + 1)
  BY <1>1
<1>5. ToSet(r) = ToSet(q) \cup {x}
  BY <1>1, <1>2, <1>3, <1>4 DEF ToSet
<1> QED
  BY <1>1, <1>2, <1>3, <1>4, <1>5 DEF r, m

\* What Head and Tail do to a sequence.
LEMMA TailFacts ==
  ASSUME NEW S, NEW q \in Seq(S), q # <<>>
  PROVE  /\ Head(q) \in S /\ Tail(q) \in Seq(S)
         /\ Len(q) \in Nat /\ Len(Tail(q)) = Len(q) - 1
         /\ 1 \in DOMAIN q /\ q[1] = Head(q)
         /\ \A k \in DOMAIN Tail(q) : k + 1 \in DOMAIN q /\ Tail(q)[k] = q[k + 1] /\ k \in Nat /\ k >= 1
         /\ ToSet(q) = ToSet(Tail(q)) \cup {Head(q)}
<1> DEFINE r == Tail(q)
           m == Len(r)
           h == Head(q)
<1>1. /\ r \in Seq(S) /\ h \in S /\ Len(q) = m + 1 /\ m \in Nat
      /\ \A k \in 1 .. m : r[k] = q[k + 1]
      /\ q[1] = h
  BY HeadTailProperties, LenProperties
<1>2. DOMAIN r = 1 .. m /\ DOMAIN q = 1 .. (m + 1)
  BY <1>1, LenProperties
<1> HIDE DEF r, m, h
<1>3. \A k \in 1 .. (m + 1) : k = 1 \/ (k - 1 \in 1 .. m /\ (k - 1) + 1 = k)
  BY <1>1
<1>4. 1 \in 1 .. (m + 1) /\ \A k \in 1 .. m : k + 1 \in 1 .. (m + 1) /\ k \in Nat /\ k >= 1
  BY <1>1
<1>5. ToSet(q) = ToSet(r) \cup {h}
  <2>1. \A y \in ToSet(q) : y \in ToSet(r) \cup {h}
    <3> SUFFICES ASSUME NEW k \in 1 .. (m + 1), k # 1 PROVE q[k] \in ToSet(r)
      BY <1>1, <1>2 DEF ToSet
    <3>1. k - 1 \in 1 .. m /\ q[k] = r[k - 1]
      BY <1>1, <1>3
    <3> QED
      BY <3>1, <1>2 DEF ToSet
  <2>2. \A y \in ToSet(r) \cup {h} : y \in ToSet(q)
    BY <1>1, <1>2, <1>4 DEF ToSet
  <2> QED
    BY <2>1, <2>2
<1>6. Len(q) \in Nat /\ m = Len(q) - 1
  BY <1>1
<1> QED
  BY <1>1, <1>2, <1>4, <1>5, <1>6 DEF r, h, m

\* A set of numbers has its smallest.
LEMMA MinIn ==
  ASSUME NEW S \in SUBSET Nat, S # {}
  PROVE  Min(S) \in S
<1>1. \E x \in S : \A y \in S : ~(<<y, x>> \in OpToRel(<, Nat))
  BY NatLessThanWellFounded, WFMin
<1>2. PICK x \in S : \A y \in S : ~(<<y, x>> \in OpToRel(<, Nat))
  BY <1>1
<1>3. \A y \in S : x <= y
  <2> SUFFICES ASSUME NEW y \in S, ~(x <= y) PROVE FALSE
    OBVIOUS
  <2>1. y < x /\ x \in Nat /\ y \in Nat
    OBVIOUS
  <2>2. <<y, x>> \in OpToRel(<, Nat)
    BY <2>1, Zenon DEF OpToRel
  <2> QED
    BY <1>2, <2>2
<1>4. \E z \in S : \A y \in S : z <= y
  BY <1>3
<1> QED
  BY <1>4 DEF Min

\* Removing an element of a list leaves a list.
LEMMA RemoveType ==
  ASSUME NEW S, NEW s \in Seq(S), NEW r
  PROVE  RemoveFirst(s, r) \in Seq(S)
<1> DEFINE I == {i \in 1 .. Len(s) : s[i] = r}
<1>1. Len(s) \in Nat /\ DOMAIN s = 1 .. Len(s)
  BY LenProperties
<1>2. CASE I = {}
  BY <1>2 DEF RemoveFirst
<1>3. CASE I # {}
  <2>1. Min(I) \in I
    <3>1. I \in SUBSET Nat
      BY <1>1
    <3> HIDE DEF I
    <3> QED
      BY <1>3, <3>1, MinIn
  <2>2. PICK k : k = Min(I)
    OBVIOUS
  <2>3. k \in 1 .. Len(s)
    BY <2>1, <2>2
  <2>4. RemoveFirst(s, r) = RemoveAt(s, k)
    BY <1>3, <2>2 DEF RemoveFirst, SelectInSeq
  <2>5. SubSeq(s, 1, k - 1) \in Seq(S) /\ SubSeq(s, k + 1, Len(s)) \in Seq(S)
    <3>1. k - 1 \in Int /\ k + 1 \in 1 .. Len(s) + 1 /\ 1 \in 1 .. Len(s) + 1 /\ k - 1 \in 0 .. Len(s)
      BY <1>1, <2>3
    <3> QED
      BY <1>1, <2>3, <3>1, SMT
  <2>6. SubSeq(s, 1, k - 1) \o SubSeq(s, k + 1, Len(s)) \in Seq(S)
    BY <2>5, ConcatProperties
  <2> QED
    BY <2>4, <2>6 DEF RemoveAt
<1> QED
  BY <1>2, <1>3

\* Removing the one occurrence of an element of a list.
LEMMA RemoveFacts ==
  ASSUME NEW S, NEW s \in Seq(S), NEW r, Contains(s, r), IsInjective(s)
  PROVE  /\ RemoveFirst(s, r) \in Seq(S) /\ IsInjective(RemoveFirst(s, r))
         /\ ToSet(RemoveFirst(s, r)) = ToSet(s) \ {r}
<1> DEFINE m == Len(s)
           I == {i \in 1 .. m : s[i] = r}
<1>1. m \in Nat /\ DOMAIN s = 1 .. m /\ \A i \in 1 .. m : s[i] \in S
  BY LenProperties
<1>2. PICK k \in 1 .. m : s[k] = r
  BY DEF Contains
<1>3. I = {k}
  BY <1>1, <1>2 DEF IsInjective
<1>4. Min(I) = k
  <2>1. {k} \in SUBSET Nat /\ {k} # {}
    BY <1>1
  <2>2. Min({k}) \in {k}
    BY <2>1, MinIn
  <2> QED
    BY <1>3, <2>2
<1>5. RemoveFirst(s, r) = RemoveAt(s, k)
  BY <1>2, <1>3, <1>4 DEF RemoveFirst, SelectInSeq
<1> DEFINE a == SubSeq(s, 1, k - 1)
           b == SubSeq(s, k + 1, m)
           t == a \o b
<1>6. /\ a \in Seq(S) /\ Len(a) = k - 1 /\ \A i \in 1 .. (k - 1) : a[i] = s[i]
  BY <1>1, SMT
<1>7. /\ b \in Seq(S) /\ Len(b) = m - k /\ \A i \in 1 .. (m - k) : b[i] = s[i + k]
  <2>1. k + 1 \in 1 .. (m + 1) /\ k \in Int /\ m \in Int
    BY <1>1
  <2>2. /\ b \in Seq(S) /\ Len(b) = (IF k + 1 <= m THEN m - (k + 1) + 1 ELSE 0)
        /\ \A i \in 1 .. (m - (k + 1) + 1) : b[i] = s[(k + 1) + i - 1]
    BY <1>1, <2>1, SubSeqProperties
  <2>3. m - (k + 1) + 1 = m - k /\ \A i \in 1 .. (m - k) : (k + 1) + i - 1 = i + k
    BY <1>1
  <2> HIDE DEF b, m
  <2>4. Len(b) = m - k
    BY <1>1, <2>1, <2>2
  <2>5. \A i \in 1 .. (m - k) : b[i] = s[i + k]
    BY <2>2, <2>3
  <2> QED
    BY <2>2, <2>4, <2>5
<1>8. RemoveFirst(s, r) = t
  BY <1>5 DEF RemoveAt
<1> HIDE DEF a, b
<1>9. /\ t \in Seq(S) /\ Len(t) = m - 1
      /\ \A i \in 1 .. (m - 1) : t[i] = IF i < k THEN s[i] ELSE s[i + 1]
  <2>1. t \in Seq(S) /\ Len(t) = Len(a) + Len(b)
    BY <1>6, <1>7, ConcatProperties
  <2>2. \A i \in 1 .. (m - 1) : t[i] = IF i <= k - 1 THEN a[i] ELSE b[i - (k - 1)]
    BY <1>1, <1>6, <1>7, SMT
  <2>3. \A i \in 1 .. (m - 1) : i > k - 1 => i - (k - 1) \in 1 .. (m - k) /\ (i - (k - 1)) + k = i + 1
    BY <1>1
  <2>4. \A i \in 1 .. (m - 1) : i <= k - 1 => i \in 1 .. (k - 1) /\ i < k
    BY <1>1
  <2> QED
    BY <1>1, <1>6, <1>7, <2>1, <2>2, <2>3, <2>4
<1>10. DOMAIN t = 1 .. (m - 1)
  BY <1>9, LenProperties
<1> HIDE DEF t, m
<1>11. \A i \in 1 .. (m - 1) : i \in 1 .. m /\ i + 1 \in 1 .. m
  BY <1>1
<1>12. IsInjective(t)
  <2> SUFFICES ASSUME NEW i \in 1 .. (m - 1), NEW j \in 1 .. (m - 1), t[i] = t[j] PROVE i = j
    BY <1>10 DEF IsInjective
  <2>1. \A x, y \in 1 .. m : s[x] = s[y] => x = y
    BY <1>1 DEF IsInjective
  <2> QED
    BY <1>1, <1>9, <1>11, <2>1
<1>13. ASSUME NEW y \in ToSet(t) PROVE y \in ToSet(s) \ {r}
  <2>1. PICK i \in 1 .. (m - 1) : y = t[i]
    BY <1>10 DEF ToSet
  <2>2. PICK j \in 1 .. m : y = s[j] /\ j # k
    BY <1>1, <1>9, <1>11, <2>1
  <2> QED
    BY <1>1, <1>2, <2>2 DEF ToSet, IsInjective
<1>14. ASSUME NEW y \in ToSet(s) \ {r} PROVE y \in ToSet(t)
  <2>1. PICK j \in 1 .. m : y = s[j] /\ j # k
    BY <1>1, <1>2 DEF ToSet
  <2>2. CASE j < k
    <3>1. j \in 1 .. (m - 1)
      BY <1>1, <2>2
    <3> QED
      BY <1>9, <1>10, <2>1, <2>2, <3>1 DEF ToSet
  <2>3. CASE j > k
    <3>1. j - 1 \in 1 .. (m - 1) /\ ~(j - 1 < k) /\ (j - 1) + 1 = j
      BY <1>1, <2>3
    <3>2. y = t[j - 1]
      BY <1>9, <2>1, <3>1
    <3> QED
      BY <1>10, <3>1, <3>2 DEF ToSet
  <2> QED
    BY <1>1, <2>1, <2>2, <2>3
<1> QED
  BY <1>8, <1>9, <1>12, <1>13, <1>14

\* What list_append leaves, at the end the list still has or elsewhere.
LEMMA LinkFacts ==
  ASSUME NEW S, NEW s \in Seq(S), NEW x \in S, NEW n \in Nat, NEW r \in Linked(s, n, x)
  PROVE  /\ r \in Seq(S)
         /\ n = Len(s) => r = Append(s, x)
<1>1. Len(s) \in Nat
  BY LenProperties
<1>2. ASSUME n <= Len(s) PROVE r = Append(SubSeq(s, 1, n), x) /\ r \in Seq(S)
  <2>1. r = Append(SubSeq(s, 1, n), x)
    BY <1>2 DEF Linked
  <2>2. SubSeq(s, 1, n) \in Seq(S)
    BY <1>1, <1>2, SMT
  <2> QED
    BY <2>1, <2>2, AppendProperties
<1>3. ASSUME ~(n <= Len(s)) PROVE r \in Seq(S)
  BY <1>3, AppendProperties DEF Linked
<1>4. ASSUME n = Len(s) PROVE r = Append(s, x)
  <2>1. SubSeq(s, 1, n) = s
    BY <1>4, SubSeqFull
  <2> QED
    BY <1>1, <1>2, <1>4, <2>1
<1> QED
  BY <1>2, <1>3, <1>4

---------------------------------------------------------------------------
(* The events under way *)

\* Pend is a finite set of events whose numbers tell them apart.
LEMMA PendFacts ==
  ASSUME TypeOK, OrderOK
  PROVE  /\ IsFiniteSet(Pend) /\ Pend \subseteq Events
         /\ \A e, f \in Pend : e.n = f.n => e = f
         /\ \A e \in Events : e.n \in Nat
<1>1. \A e \in Events : e.n \in Nat
  BY EventAssumption DEF Events
<1>2. ToSet(queue) \subseteq Events
  BY DEF TypeOK, ToSet
<1>3. Pend \subseteq Events
  BY <1>2 DEF Pend, TypeOK
<1>4. IsFiniteSet(ToSet(queue))
  <2>1. DOMAIN queue = 1 .. Len(queue) /\ Len(queue) \in Nat
    BY LenProperties DEF TypeOK
  <2>2. IsFiniteSet(DOMAIN queue)
    <3>1. 1 \in Int /\ Len(queue) \in Int
      BY <2>1
    <3> QED
      BY <2>1, <3>1, FS_Interval
  <2>3. queue \in Surjection(DOMAIN queue, ToSet(queue))
    <3>1. queue \in [DOMAIN queue -> ToSet(queue)]
      BY <2>1 DEF ToSet, TypeOK
    <3> QED
      BY <3>1 DEF Surjection, ToSet
  <2> QED
    BY <2>2, <2>3, FS_Surjection
<1>5. IsFiniteSet({hand[t] : t \in {u \in Threads : hand[u] # NoEvent}})
  <2>1. IsFiniteSet({hand["main"]}) /\ IsFiniteSet({hand["ntfn"]})
    BY FS_Singleton
  <2>2. IsFiniteSet({hand["main"]} \cup {hand["ntfn"]})
    BY <2>1, FS_Union
  <2>3. {hand[t] : t \in {u \in Threads : hand[u] # NoEvent}} \subseteq {hand["main"]} \cup {hand["ntfn"]}
    BY DEF Threads
  <2> QED
    BY <2>2, <2>3, FS_Subset
<1>6. IsFiniteSet(Pend)
  BY <1>4, <1>5, FS_Union DEF Pend
<1>7. ASSUME NEW e \in Pend, NEW f \in Pend, e.n = f.n PROVE e = f
  <2>1. e.n \in Nat /\ f.n \in Nat
    BY <1>1, <1>3
  <2>2. CASE e \in ToSet(queue) /\ f \in ToSet(queue)
    <3>1. PICK j \in DOMAIN queue : e = queue[j]
      BY <2>2 DEF ToSet
    <3>2. PICK k \in DOMAIN queue : f = queue[k]
      BY <2>2 DEF ToSet
    <3>3. j \in Nat /\ k \in Nat
      BY LenProperties DEF TypeOK
    <3>4. ~(j < k) /\ ~(k < j)
      BY <1>7, <2>1, <3>1, <3>2 DEF OrderOK
    <3> QED
      BY <3>1, <3>2, <3>3, <3>4
  <2>3. CASE e \in ToSet(queue) /\ f \notin ToSet(queue)
    <3>1. PICK k \in DOMAIN queue : e = queue[k]
      BY <2>3 DEF ToSet
    <3>2. PICK t \in Threads : f = hand[t]
      BY <2>3 DEF Pend
    <3> QED
      BY <1>7, <2>1, <3>1, <3>2 DEF OrderOK
  <2>4. CASE e \notin ToSet(queue) /\ f \in ToSet(queue)
    <3>1. PICK k \in DOMAIN queue : f = queue[k]
      BY <2>4 DEF ToSet
    <3>2. PICK t \in Threads : e = hand[t]
      BY <2>4 DEF Pend
    <3> QED
      BY <1>7, <2>1, <3>1, <3>2 DEF OrderOK
  <2>5. CASE e \notin ToSet(queue) /\ f \notin ToSet(queue)
    <3>1. PICK t \in Threads : e = hand[t] /\ hand[t] # NoEvent
      BY <2>5 DEF Pend
    <3>2. PICK u \in Threads : f = hand[u] /\ hand[u] # NoEvent
      BY <2>5 DEF Pend
    <3> QED
      BY <1>7, <3>1, <3>2 DEF OrderOK, Threads
  <2> QED
    BY <2>2, <2>3, <2>4, <2>5
<1> QED
  BY <1>1, <1>3, <1>6, <1>7

\* device_event_tx adds an event with the next number.
LEMMA SendPend ==
  ASSUME TypeOK, OrderOK, PendOK, NEW op, NEW arg, NEW irqop, Send(op, arg, irqop),
         NEW x, x = [n |-> sent + 1, op |-> op, arg |-> arg, irqop |-> irqop],
         op \in {"register", "set_irq", "assign", "free", "start"},
         arg \in {0} \cup BackendSlots \cup EmuIrqs \cup MsiIrqs \cup Regions,
         irqop \in {"none", "set", "clr", "pulse"}
  PROVE  /\ Pend' = Pend \cup {x} /\ x \notin Pend /\ OrderOK' /\ x \in Events
         /\ sent \in Nat /\ sent' = sent + 1 /\ sent' \in 0 .. MaxEvents
         /\ queue' \in Seq(Events) /\ Len(queue') <= QueueSize
         /\ \A e \in Pend : e.n < x.n /\ e.n \in Nat
<1>1. /\ sent < MaxEvents /\ Len(queue) < QueueSize /\ sent' = sent + 1 /\ hand' = hand
      /\ queue' = Append(queue, x)
  BY DEF Send, runVars
<1>2. sent \in Nat /\ MaxEvents \in Nat /\ QueueSize \in Nat /\ sent' \in 0 .. MaxEvents
  BY <1>1, EventAssumption DEF TypeOK
<1>3. x \in Events /\ x.n = sent + 1
  BY <1>1, <1>2 DEF Events
<1>4. queue \in Seq(Events)
  BY DEF TypeOK
<1>5. /\ queue' \in Seq(Events) /\ Len(queue') = Len(queue) + 1 /\ Len(queue) \in Nat
      /\ DOMAIN queue = 1 .. Len(queue)
      /\ \A k \in DOMAIN queue : queue'[k] = queue[k]
      /\ queue'[Len(queue) + 1] = x
      /\ \A k \in DOMAIN queue' : k \in DOMAIN queue \/ k = Len(queue) + 1
      /\ ToSet(queue') = ToSet(queue) \cup {x}
  BY <1>1, <1>3, <1>4, AppendFacts
<1>6. Pend' = Pend \cup {x}
  <2>1. ToSet(queue)' = ToSet(queue')
    BY DEF ToSet
  <2> QED
    BY <1>1, <1>5, <2>1 DEF Pend
<1>7. \A e \in Pend : e.n < x.n /\ e.n \in Nat
  BY <1>2, <1>3, PendFacts DEF PendOK
<1>8. x \notin Pend
  BY <1>2, <1>3, <1>7
<1>9. \A t \in Threads : hand[t] # NoEvent => hand[t].n < x.n
  BY <1>7 DEF Pend
<1>10. NoEvent.n = 0 /\ 0 < x.n
  BY <1>2, <1>3 DEF NoEvent
<1>11. \A k \in DOMAIN queue : queue[k] \in Pend /\ k < Len(queue) + 1
  BY <1>5 DEF Pend, ToSet
<1>12. OrderOK'
  <2>1. \A j, k \in DOMAIN queue' : j < k => queue'[j].n < queue'[k].n
    <3> SUFFICES ASSUME NEW j \in DOMAIN queue', NEW k \in DOMAIN queue', j < k
                 PROVE  queue'[j].n < queue'[k].n
      OBVIOUS
    <3>1. j \in DOMAIN queue
      BY <1>5, <1>11
    <3>2. CASE k \in DOMAIN queue
      BY <1>5, <3>1, <3>2 DEF OrderOK
    <3>3. CASE k = Len(queue) + 1
      BY <1>5, <1>7, <1>11, <3>1, <3>3
    <3> QED
      BY <1>5, <3>2, <3>3
  <2>2. \A t \in Threads, k \in DOMAIN queue' : hand'[t].n < queue'[k].n
    <3>1. \A t \in Threads : hand[t].n < x.n
      BY <1>9, <1>10
    <3> QED
      BY <1>1, <1>5, <3>1 DEF OrderOK
  <2> QED
    BY <1>1, <2>1, <2>2 DEF OrderOK
<1>13. Len(queue') <= QueueSize
  BY <1>1, <1>2, <1>5
<1> QED
  BY <1>1, <1>2, <1>3, <1>5, <1>6, <1>7, <1>8, <1>12, <1>13

\* rpcmsg_event_rx leaves the events under way.
LEMMA RxPend ==
  ASSUME TypeOK, OrderOK, PendOK, PcOK, NEW t \in Threads, EventRx(t)
  PROVE  /\ Pend' = Pend /\ OrderOK' /\ Head(queue) \in Pend /\ Head(queue) # NoEvent /\ hand' \in [Threads -> Events]
         /\ queue' \in Seq(Events) /\ Len(queue') <= QueueSize
<1> PICK h : h = Head(queue)
  OBVIOUS
<1>1. /\ hand[t] = NoEvent /\ queue # <<>> /\ queue \in Seq(Events)
      /\ hand' = [hand EXCEPT ![t] = h] /\ queue' = Tail(queue)
  BY DEF EventRx, TypeOK, PcOK, PcAt
<1>2. /\ h \in Events /\ queue' \in Seq(Events) /\ Len(queue) \in Nat
      /\ Len(queue') = Len(queue) - 1
      /\ 1 \in DOMAIN queue /\ queue[1] = h
      /\ \A k \in DOMAIN queue' :
           k + 1 \in DOMAIN queue /\ queue'[k] = queue[k + 1] /\ k \in Nat /\ k >= 1
      /\ ToSet(queue) = ToSet(queue') \cup {h}
  BY <1>1, TailFacts
<1>3. h \in Pend
  BY <1>2 DEF Pend
<1>4. h # NoEvent /\ h.n \in Nat /\ h.n >= 1
  BY <1>3, PendFacts DEF PendOK, NoEvent
<1>5. hand'[t] = h /\ \A u \in Threads : u # t => hand'[u] = hand[u]
  BY <1>1 DEF TypeOK
<1>6. Pend' = Pend
  <2>1. ToSet(queue)' = ToSet(queue')
    BY DEF ToSet
  <2>2. {hand'[u] : u \in {w \in Threads : hand'[w] # NoEvent}}
          = {hand[u] : u \in {w \in Threads : hand[w] # NoEvent}} \cup {h}
    BY <1>1, <1>4, <1>5
  <2>3. Pend' = {hand'[u] : u \in {w \in Threads : hand'[w] # NoEvent}} \cup ToSet(queue')
    BY <2>1 DEF Pend
  <2> QED
    BY <1>2, <2>2, <2>3 DEF Pend
<1>7. OrderOK'
  <2>1. \A j, k \in DOMAIN queue' : j < k => queue'[j].n < queue'[k].n
    <3> SUFFICES ASSUME NEW j \in DOMAIN queue', NEW k \in DOMAIN queue', j < k
                 PROVE  queue'[j].n < queue'[k].n
      OBVIOUS
    <3>1. j + 1 < k + 1
      BY <1>2
    <3> QED
      BY <1>2, <3>1 DEF OrderOK
  <2>2. \A u \in Threads, k \in DOMAIN queue' : hand'[u].n < queue'[k].n
    <3> SUFFICES ASSUME NEW u \in Threads, NEW k \in DOMAIN queue'
                 PROVE  hand'[u].n < queue'[k].n
      OBVIOUS
    <3>1. CASE u = t
      <4>1. 1 < k + 1
        BY <1>2
      <4> QED
        BY <1>2, <1>5, <3>1, <4>1 DEF OrderOK
    <3>2. CASE u # t
      BY <1>2, <1>5, <3>2 DEF OrderOK
    <3> QED
      BY <3>1, <3>2
  <2>3. \A u \in Threads : hand'[u] # NoEvent => hand'[u].n >= 1
    BY <1>4, <1>5 DEF OrderOK
  <2>4. hand'["main"].n # hand'["ntfn"].n
    <3>1. \A u \in Threads : hand[u].n < h.n
      BY <1>2 DEF OrderOK
    <3>2. \A u \in Threads : hand[u].n \in Nat
      BY PendFacts DEF TypeOK
    <3> QED
      BY <1>4, <1>5, <3>1, <3>2 DEF Threads
  <2> QED
    BY <2>1, <2>2, <2>3, <2>4 DEF OrderOK
<1>8. hand' \in [Threads -> Events]
  BY <1>1, <1>2 DEF TypeOK
<1>9. Len(queue') <= QueueSize
  BY <1>2, EventAssumption DEF TypeOK
<1> QED
  BY <1>2, <1>3, <1>4, <1>6, <1>7, <1>8, <1>9

---------------------------------------------------------------------------
(* Types, in the groups that steps change together *)

SendType ==
  /\ queue \in Seq(Events) /\ Len(queue) <= QueueSize
  /\ sent \in 0 .. MaxEvents /\ known \subseteq BackendSlots
  /\ wire \in [BackendSlots \cup EmuIrqs -> BOOLEAN]
  /\ msis \in [MsiIrqs -> 0 .. MaxEvents] /\ claimed \subseteq Regions
  /\ started \in BOOLEAN

RunType ==
  /\ hand \in [Threads -> Events] /\ pc \in [Threads -> Places]
  /\ at \in [Threads -> Nat] /\ dev \in [Threads -> {0} \cup VmmSlots]
  /\ saved \in [Threads -> SUBSET VmmSlots] /\ clearing \in [Threads -> BOOLEAN]

TableType ==
  /\ pci_devs \in [0 .. MaxDevs - 1 -> [bslot : BackendSlots, slot : VmmSlots] \cup {NoDev}]
  /\ pci_dev_count \in Nat /\ bus \subseteq VmmSlots

LineType ==
  /\ intx \in [Pins -> SUBSET VmmSlots]
  /\ level \in [AllIrqs -> BOOLEAN] /\ pulses \in [MsiIrqs -> 0 .. MaxEvents]

ListType ==
  /\ irqs \in Seq(EmuIrqs) /\ (~overlapped => IsInjective(irqs))
  /\ regions \in Seq(Regions) /\ reserved \subseteq Regions

ControlType ==
  /\ boot \in {"drain", "test", "wait", "run"} /\ sem \in 0 .. 1
  /\ ok_to_run \in BOOLEAN /\ overlapped \in BOOLEAN /\ failed \in BOOLEAN

LEMMA TypeParts ==
  TypeOK <=> SendType /\ RunType /\ TableType /\ LineType /\ ListType /\ ControlType
<1>1. {started, ok_to_run, overlapped, failed} \subseteq BOOLEAN <=>
        started \in BOOLEAN /\ ok_to_run \in BOOLEAN /\ overlapped \in BOOLEAN /\ failed \in BOOLEAN
  OBVIOUS
<1> QED
  BY <1>1, Zenon DEF TypeOK, SendType, RunType, TableType, LineType, ListType, ControlType

\* The same of the next state.
LEMMA TypePartsNext ==
  TypeOK' <=> SendType' /\ RunType' /\ TableType' /\ LineType' /\ ListType' /\ ControlType'
BY TypeParts, PTL

LEMMA TypeSame ==
  /\ UNCHANGED <<queue, sent, known, wire, msis, claimed, started>> => SendType' = SendType
  /\ UNCHANGED runVars => RunType' = RunType
  /\ UNCHANGED pciVars => TableType' = TableType
  /\ UNCHANGED <<intx, gicVars>> => LineType' = LineType
  /\ UNCHANGED <<listVars, overlapped>> => ListType' = ListType
  /\ UNCHANGED <<boot, sem, ok_to_run, overlapped, failed>> => ControlType' = ControlType
<1>1. UNCHANGED <<queue, sent, known, wire, msis, claimed, started>> => SendType' = SendType
  BY DEF SendType
<1>2. UNCHANGED runVars => RunType' = RunType
  BY DEF RunType, runVars, locals
<1>3. UNCHANGED pciVars => TableType' = TableType
  BY DEF TableType, pciVars
<1>4. UNCHANGED <<intx, gicVars>> => LineType' = LineType
  BY DEF LineType, gicVars
<1>5. UNCHANGED <<listVars, overlapped>> => ListType' = ListType
  BY DEF ListType, listVars
<1>6. UNCHANGED <<boot, sem, ok_to_run, overlapped, failed>> => ControlType' = ControlType
  BY DEF ControlType
<1> QED
  BY <1>1, <1>2, <1>3, <1>4, <1>5, <1>6

---------------------------------------------------------------------------
(* The steps of a handler *)

\* The other thread stays where it is.
Others(t) ==
  \A u \in Threads : u # t =>
    /\ hand'[u] = hand[u] /\ pc'[u] = pc[u] /\ at'[u] = at[u] /\ dev'[u] = dev[u]
    /\ saved'[u] = saved[u] /\ clearing'[u] = clearing[u]

\* A step inside a handler leaves the events under way.
LEMMA GotoFrame ==
  ASSUME TypeOK, OrderOK, PendOK, NEW t \in Threads, NEW l, InHandler, Goto(t, l)
  PROVE  /\ Pend' = Pend /\ OrderOK' /\ PendOK'
         /\ SendType' /\ hand' = hand /\ failed' = failed
         /\ pc'[t] = l /\ \A u \in Threads : u # t => pc'[u] = pc[u]
         /\ l \in Places => pc' \in [Threads -> Places]
<1>1. /\ queue' = queue /\ hand' = hand /\ failed' = failed /\ pc' = [pc EXCEPT ![t] = l]
      /\ UNCHANGED <<sent, known, wire, msis, claimed, started>>
  BY DEF InHandler, Goto, devVars
<1>2. Pend' = Pend
  BY <1>1 DEF Pend, ToSet
<1>3. OrderOK'
  BY <1>1 DEF OrderOK
<1>4. PendOK'
  BY <1>1, <1>2 DEF PendOK
<1>5. SendType'
  BY <1>1, TypeParts, TypeSame
<1>6. pc'[t] = l /\ \A u \in Threads : u # t => pc'[u] = pc[u]
  BY <1>1 DEF TypeOK
<1>7. l \in Places => pc' \in [Threads -> Places]
  BY <1>1 DEF TypeOK
<1> QED
  BY <1>1, <1>2, <1>3, <1>4, <1>5, <1>6, <1>7

\* The last step of a handler uses up the event in hand.
LEMMA DoneFrame ==
  ASSUME TypeOK, OrderOK, PendOK, PcOK, NEW t \in Threads, InHandler, Done(t),
         pc[t] # "idle", NEW x, x = hand[t]
  PROVE  /\ Pend' = Pend \ {x} /\ x \in Pend /\ x \in Events /\ Good(x) /\ OrderOK' /\ PendOK'
         /\ SendType' /\ RunType' /\ failed' = failed
         /\ hand'[t] = NoEvent /\ pc'[t] = "idle" /\ at'[t] = 0 /\ clearing'[t] = FALSE
         /\ Others(t) /\ PcOK'
<1>1. /\ hand' = [hand EXCEPT ![t] = NoEvent] /\ pc' = [pc EXCEPT ![t] = "idle"]
      /\ at' = [at EXCEPT ![t] = 0] /\ dev' = [dev EXCEPT ![t] = 0]
      /\ saved' = [saved EXCEPT ![t] = {}] /\ clearing' = [clearing EXCEPT ![t] = FALSE]
      /\ queue' = queue /\ failed' = failed
      /\ UNCHANGED <<sent, known, wire, msis, claimed, started>>
  BY DEF Done, InHandler, devVars
<1>2. x # NoEvent /\ x \in Pend /\ x \in Events
  BY DEF PcOK, PcAt, Pend, TypeOK
<1>3. NoEvent \in Events /\ NoEvent.n = 0
  BY EventAssumption DEF Events, NoEvent
<1>4. hand'[t] = NoEvent /\ pc'[t] = "idle" /\ at'[t] = 0 /\ clearing'[t] = FALSE
  BY <1>1 DEF TypeOK
<1>5. Others(t)
  BY <1>1 DEF TypeOK, Others
<1>6. RunType'
  <2>1. RunType
    BY TypeParts
  <2>2. hand' \in [Threads -> Events]
    BY <1>1, <1>3, <2>1 DEF RunType
  <2>3. pc' \in [Threads -> Places]
    BY <1>1, <2>1 DEF RunType, Places
  <2> QED
    BY <1>1, <2>1, <2>2, <2>3 DEF RunType
<1>7. Good(x) /\ x.n >= 1 /\ x.n \in Nat
  BY <1>2, PendFacts DEF PendOK
<1>8. x \notin ToSet(queue)
  <2> SUFFICES ASSUME NEW k \in DOMAIN queue, queue[k] = x PROVE FALSE
    BY DEF ToSet
  <2>1. hand[t].n < queue[k].n
    BY DEF OrderOK
  <2> QED
    BY <1>7, <2>1
<1>9. \A u \in Threads : u # t /\ hand[u] # NoEvent => hand[u] # x /\ hand[u].n # x.n
  BY <1>2 DEF OrderOK, Threads
<1>10. \A u \in Threads : u # t => hand'[u] = hand[u]
  BY <1>5 DEF Others
<1>11. Pend' = Pend \ {x}
  <2>1. ToSet(queue)' = ToSet(queue)
    BY <1>1 DEF ToSet
  <2>2. {hand'[u] : u \in {w \in Threads : hand'[w] # NoEvent}}
          = {hand[u] : u \in {w \in Threads : hand[w] # NoEvent}} \ {x}
    BY <1>4, <1>9, <1>10
  <2>3. Pend' = {hand'[u] : u \in {w \in Threads : hand'[w] # NoEvent}} \cup ToSet(queue)
    BY <2>1 DEF Pend
  <2> QED
    BY <1>8, <2>2, <2>3 DEF Pend
<1>12. OrderOK'
  <2>1. \A u \in Threads, k \in DOMAIN queue : hand'[u].n < queue[k].n
    <3> SUFFICES ASSUME NEW k \in DOMAIN queue PROVE NoEvent.n < queue[k].n
      BY <1>4, <1>10 DEF OrderOK
    <3>1. queue[k] \in Pend
      BY DEF Pend, ToSet
    <3> QED
      BY <1>3, <3>1, PendFacts DEF PendOK
  <2>2. \A u \in Threads : hand'[u] # NoEvent => hand'[u].n >= 1
    BY <1>4, <1>10 DEF OrderOK
  <2>3. hand'["main"].n = hand'["ntfn"].n => \A u \in Threads : hand'[u] = NoEvent
    <3>1. \A u \in Threads : hand[u].n \in Nat
      BY PendFacts DEF TypeOK
    <3> QED
      BY <1>3, <1>4, <1>10, <2>2, <3>1 DEF Threads
  <2> QED
    BY <1>1, <2>1, <2>2, <2>3 DEF OrderOK
<1>13. PendOK'
  BY <1>1, <1>11 DEF PendOK
<1>14. SendType'
  BY <1>1, TypeParts, TypeSame
<1>15. PcOK'
  <2>1. PcAt(t)'
    BY <1>4 DEF PcAt, IntxSteps, LineSteps, AppendSteps, RegisterSteps, FreeSteps, SlotSteps
  <2>2. ASSUME NEW u \in Threads, u # t PROVE PcAt(u)'
    BY <1>5, <2>2 DEF PcOK, PcAt, Others
  <2> QED
    BY <2>1, <2>2 DEF PcOK
<1> QED
  BY <1>1, <1>2, <1>4, <1>5, <1>6, <1>7, <1>11, <1>12, <1>13, <1>14, <1>15

\* Without overlap a thread in a handler is alone and has the oldest event.
LEMMA InHand ==
  ASSUME TypeOK, OrderOK, PendOK, PcOK, OneBusy, NEW t \in Threads, pc[t] # "idle"
  PROVE  /\ Oldest(hand[t], Pend) /\ hand[t] \in Pend /\ hand[t] # NoEvent
         /\ \A u \in Threads : u # t => pc[u] = "idle" /\ hand[u] = NoEvent /\ ~clearing[u]
<1>1. \A u \in Threads : u # t => pc[u] = "idle" /\ hand[u] = NoEvent /\ ~clearing[u]
  BY DEF OneBusy, PcOK, PcAt
<1>2. hand[t] # NoEvent /\ hand[t] \in Pend
  BY DEF PcOK, PcAt, Pend
<1>3. \A e \in Pend : hand[t].n <= e.n
  <2> SUFFICES ASSUME NEW e \in Pend PROVE hand[t].n <= e.n
    OBVIOUS
  <2>1. e.n \in Nat /\ hand[t].n \in Nat
    BY <1>2, PendFacts
  <2>2. CASE e \in ToSet(queue)
    <3>1. PICK k \in DOMAIN queue : queue[k] = e
      BY <2>2 DEF ToSet
    <3> QED
      BY <2>1, <3>1 DEF OrderOK
  <2>3. CASE e \notin ToSet(queue)
    BY <1>1, <2>1, <2>3 DEF Pend
  <2> QED
    BY <2>2, <2>3
<1> QED
  BY <1>1, <1>2, <1>3 DEF Oldest

\* In the places of a step inside a handler.
LEMMA PcGoto ==
  ASSUME PcOK, NEW t \in Threads, PcAt(t)', Others(t)
  PROVE  PcOK'
<1>1. ASSUME NEW u \in Threads, u # t PROVE PcAt(u)'
  BY <1>1 DEF PcOK, PcAt, Others
<1> QED
  BY <1>1 DEF PcOK

---------------------------------------------------------------------------
(* What one event more or one less does to each part of the invariant *)

IsIrq(e, k)    == e.op = "set_irq" /\ e.arg = k
IsRegion(e, r) == e.op \in {"assign", "free"} /\ e.arg = r
IsRaise(e, i)  == e.op = "set_irq" /\ e.arg = i /\ e.irqop # "clr"

\* Sending an event.
LEMMA AddSets ==
  ASSUME NEW x, Pend' = Pend \cup {x}
  PROVE  /\ \A k : IrqEvents(k)' = IF IsIrq(x, k) THEN IrqEvents(k) \cup {x} ELSE IrqEvents(k)
         /\ \A r : RegionEvents(r)' = IF IsRegion(x, r) THEN RegionEvents(r) \cup {x} ELSE RegionEvents(r)
         /\ Starts' = IF x.op = "start" THEN Starts \cup {x} ELSE Starts
<1>1. \A k : IrqEvents(k)' = IF IsIrq(x, k) THEN IrqEvents(k) \cup {x} ELSE IrqEvents(k)
  BY DEF IrqEvents, IsIrq
<1>2. \A r : RegionEvents(r)' = IF IsRegion(x, r) THEN RegionEvents(r) \cup {x} ELSE RegionEvents(r)
  BY DEF RegionEvents, IsRegion
<1>3. Starts' = IF x.op = "start" THEN Starts \cup {x} ELSE Starts
  BY DEF Starts
<1> QED
  BY <1>1, <1>2, <1>3

\* Using an event up.
LEMMA RemoveSets ==
  ASSUME NEW x \in Pend, Pend' = Pend \ {x}
  PROVE  /\ \A k : IrqEvents(k)' = IrqEvents(k) \ {x} /\ (x \in IrqEvents(k) <=> IsIrq(x, k))
         /\ \A r : RegionEvents(r)' = RegionEvents(r) \ {x} /\ (x \in RegionEvents(r) <=> IsRegion(x, r))
         /\ Starts' = Starts \ {x} /\ (x \in Starts <=> x.op = "start")
<1>1. \A k : IrqEvents(k)' = IrqEvents(k) \ {x} /\ (x \in IrqEvents(k) <=> IsIrq(x, k))
  BY DEF IrqEvents, IsIrq
<1>2. \A r : RegionEvents(r)' = RegionEvents(r) \ {x} /\ (x \in RegionEvents(r) <=> IsRegion(x, r))
  BY DEF RegionEvents, IsRegion
<1>3. Starts' = Starts \ {x} /\ (x \in Starts <=> x.op = "start")
  BY DEF Starts
<1> QED
  BY <1>1, <1>2, <1>3

\* The counted sets are finite.
LEMMA CountedFinite ==
  ASSUME TypeOK, OrderOK
  PROVE  /\ \A i : IsFiniteSet(Unrisen(i)) /\ Cardinality(Unrisen(i)) \in Nat
         /\ IsFiniteSet(Starts) /\ Cardinality(Starts) \in Nat
<1>1. IsFiniteSet(Pend)
  BY PendFacts
<1>2. \A i : Unrisen(i) \subseteq Pend
  BY DEF Unrisen
<1>3. Starts \subseteq Pend
  BY DEF Starts
<1> QED
  BY <1>1, <1>2, <1>3, FS_Subset, FS_CardinalityType

\* A step that is no pulse and uses nothing up leaves the raises to come.
LEMMA UnrisenSame ==
  ASSUME Pend' = Pend,
         \A u \in Threads : (pc[u] = "fall" <=> pc'[u] = "fall")
                            /\ (pc[u] = "fall" => hand'[u] = hand[u])
  PROVE  \A i : Unrisen(i)' = Unrisen(i)
BY DEF Unrisen

\* So does the end of a pulse, or of a handler of any other event.
LEMMA UnrisenDone ==
  ASSUME NEW t \in Threads, pc'[t] = "idle", Pend' = Pend \ {hand[t]},
         \A u \in Threads : u # t => pc'[u] = pc[u] /\ hand'[u] = hand[u],
         NEW i, pc[t] = "fall" \/ ~IsRaise(hand[t], i)
  PROVE  Unrisen(i)' = Unrisen(i)
<1> PICK x : x = hand[t]
  OBVIOUS
<1>1. ASSUME NEW e \in Unrisen(i) PROVE e \in Unrisen(i)'
  <2>1. e \in Pend /\ IsRaise(e, i) /\ \A u \in Threads : pc[u] = "fall" => e # hand[u]
    BY <1>1 DEF Unrisen, IsRaise
  <2>2. e # x
    BY <2>1
  <2>3. \A u \in Threads : pc'[u] = "fall" => e # hand'[u]
    BY <2>1
  <2> QED
    BY <2>1, <2>2, <2>3 DEF Unrisen, IsRaise
<1>2. ASSUME NEW e \in Unrisen(i)' PROVE e \in Unrisen(i)
  <2>1. e \in Pend /\ e # x /\ IsRaise(e, i) /\ \A u \in Threads : pc'[u] = "fall" => e # hand'[u]
    BY <1>2 DEF Unrisen, IsRaise
  <2>2. \A u \in Threads : pc[u] = "fall" => e # hand[u]
    BY <2>1
  <2> QED
    BY <2>1, <2>2 DEF Unrisen, IsRaise
<1> QED
  BY <1>1, <1>2

\* MSIs when the raises to come and the edges stay as they are.
LEMMA MsisSame ==
  ASSUME MsisOK, sent' = sent,
         \A i \in MsiIrqs : /\ Unrisen(i)' = Unrisen(i) /\ pulses'[i] = pulses[i]
                            /\ msis'[i] = msis[i] /\ (level'[i] => level[i])
  PROVE  /\ MsisOK'
         /\ EdgesOK /\ (\A i \in MsiIrqs : level'[i] =>
              \E u \in Threads : pc'[u] = "fall" /\ hand'[u].arg = i) => EdgesOK'
<1>1. \A i \in MsiIrqs : Cardinality(Unrisen(i))' = Cardinality(Unrisen(i))
  OBVIOUS
<1>2. MsisOK'
  BY <1>1 DEF MsisOK
<1> QED
  BY <1>1, <1>2 DEF EdgesOK

\* MSIs when an event is sent.
LEMMA MsisAdd ==
  ASSUME TypeOK, OrderOK, PendOK, PcOK, MsisOK, NEW x, Pend' = Pend \cup {x}, x \notin Pend,
         sent' = sent + 1, UNCHANGED <<hand, pc, level, pulses>>,
         \A i \in MsiIrqs : msis'[i] = IF IsRaise(x, i) THEN msis[i] + 1 ELSE msis[i]
  PROVE  MsisOK' /\ (EdgesOK => EdgesOK')
<1>1. \A u \in Threads : pc[u] = "fall" => hand[u] \in Pend
  BY DEF PcOK, PcAt, Pend
<1>2. ASSUME NEW i \in MsiIrqs
      PROVE  /\ Unrisen(i) \subseteq Unrisen(i)'
             /\ pulses'[i] + Cardinality(Unrisen(i)') <= msis'[i] /\ msis'[i] <= sent'
             /\ msis'[i] > 0 => pulses'[i] > 0 \/ Unrisen(i)' # {}
             /\ pulses[i] + Cardinality(Unrisen(i)) = msis[i] =>
                  pulses'[i] + Cardinality(Unrisen(i)') = msis'[i]
  <2>1. IsFiniteSet(Unrisen(i)) /\ Cardinality(Unrisen(i)) \in Nat /\ x \notin Unrisen(i)
    BY CountedFinite DEF Unrisen
  <2>2. /\ pulses[i] \in Nat /\ msis[i] \in Nat /\ sent \in Nat
        /\ pulses[i] + Cardinality(Unrisen(i)) <= msis[i] /\ msis[i] <= sent
        /\ msis[i] > 0 => pulses[i] > 0 \/ Unrisen(i) # {}
    BY EventAssumption DEF TypeOK, MsisOK
  <2>3. CASE IsRaise(x, i)
    <3>1. Unrisen(i)' = Unrisen(i) \cup {x}
      BY <1>1, <2>3 DEF Unrisen, IsRaise
    <3>2. Cardinality(Unrisen(i) \cup {x}) = Cardinality(Unrisen(i)) + 1
      BY <2>1, FS_AddElement
    <3> QED
      BY <2>1, <2>2, <2>3, <3>1, <3>2
  <2>4. CASE ~IsRaise(x, i)
    <3>1. Unrisen(i)' = Unrisen(i)
      BY <2>4 DEF Unrisen, IsRaise
    <3> QED
      BY <2>1, <2>2, <2>4, <3>1
  <2> QED
    BY <2>3, <2>4
<1>3. MsisOK'
  BY <1>2 DEF MsisOK
<1> QED
  BY <1>2, <1>3 DEF EdgesOK

\* The start of the guest when an event is sent.
LEMMA StartsAdd ==
  ASSUME TypeOK, OrderOK, StartsOK, NEW x, Pend' = Pend \cup {x}, sem' = sem,
         IF x.op = "start" THEN ~started /\ started' = TRUE ELSE started' = started
  PROVE  StartsOK'
<1>1. sem' + Cardinality(Starts') <= 1
  <2>1. CASE x.op = "start"
    <3>1. sem = 0 /\ Starts = {} /\ Starts' = {x}
      BY <2>1, AddSets DEF StartsOK
    <3>2. Cardinality({x}) = 1
      BY FS_Singleton
    <3> QED
      BY <3>1, <3>2
  <2>2. CASE x.op # "start"
    BY <2>2, AddSets DEF StartsOK
  <2> QED
    BY <2>1, <2>2
<1>2. ~started' => sem' = 0 /\ Starts' = {}
  BY AddSets DEF StartsOK
<1> QED
  BY <1>1, <1>2 DEF StartsOK

\* When nothing is posted.
LEMMA StartsSame ==
  ASSUME StartsOK, UNCHANGED <<started, sem>>,
         \/ Pend' = Pend
         \/ \E x \in Pend : Pend' = Pend \ {x} /\ x.op # "start"
  PROVE  StartsOK'
<1>1. Starts' = Starts
  BY DEF Starts
<1> QED
  BY <1>1 DEF StartsOK

\* When the start is handled.
LEMMA StartsPost ==
  ASSUME TypeOK, OrderOK, StartsOK, NEW x \in Pend, x.op = "start", Pend' = Pend \ {x},
         sem' = sem + 1, started' = started
  PROVE  StartsOK' /\ sem' \in 0 .. 1
<1>1. IsFiniteSet(Starts) /\ Cardinality(Starts) \in Nat /\ sem \in Nat
  BY CountedFinite DEF TypeOK
<1>2. Starts' = Starts \ {x} /\ x \in Starts
  BY RemoveSets
<1>3. Cardinality(Starts \ {x}) = Cardinality(Starts) - 1
  BY <1>1, <1>2, FS_RemoveElement
<1>4. Cardinality(Starts) - 1 \in Nat
  <2>1. IsFiniteSet(Starts \ {x})
    BY <1>1, FS_Subset
  <2> QED
    BY <1>3, <2>1, FS_CardinalityType
<1>5. sem' + Cardinality(Starts') <= 1
  BY <1>1, <1>2, <1>3 DEF StartsOK
<1>6. ~started' => FALSE
  BY <1>2 DEF StartsOK
<1>7. sem' \in 0 .. 1
  BY <1>1, <1>3, <1>4 DEF StartsOK
<1> QED
  BY <1>5, <1>6, <1>7 DEF StartsOK

\* Events when one is sent.
LEMMA PendAdd ==
  ASSUME PendOK, NEW x, Pend' = Pend \cup {x}, Good(x), x.n = sent + 1, sent \in Nat,
         sent' = sent + 1, \A e \in Pend : e.n \in Nat
  PROVE  PendOK'
<1>1. \A e \in Pend : Good(e) /\ e.n >= 1 /\ e.n <= sent'
  BY DEF PendOK
<1>2. Good(x) /\ x.n >= 1 /\ x.n <= sent'
  OBVIOUS
<1> QED
  BY <1>1, <1>2 DEF PendOK, Good

\* Lines when an event is sent.
LEMMA LinesAdd ==
  ASSUME LinesOK, NEW x, Pend' = Pend \cup {x}, x.n \in Nat,
         \A e \in Pend : e.n < x.n /\ e.n \in Nat,
         \A k \in BackendSlots \cup EmuIrqs : Current(k)' = Current(k),
         \A b \in BackendSlots : Registered(b)' = Registered(b),
         \A k \in BackendSlots \cup EmuIrqs :
           wire'[k] = IF IsIrq(x, k) THEN x.irqop = "set" ELSE wire[k],
         x.op = "set_irq" /\ x.arg \in BackendSlots =>
           \/ Registered(x.arg)
           \/ \E f \in Pend : f.op = "register" /\ f.arg = x.arg
  PROVE  LinesOK'
<1>1. ASSUME NEW k \in BackendSlots \cup EmuIrqs, IrqEvents(k)' = {}
      PROVE  Current(k)' = wire'[k]
  <2>1. ~IsIrq(x, k) /\ IrqEvents(k) = {}
    BY <1>1, AddSets
  <2> QED
    BY <2>1 DEF LinesOK
<1>2. ASSUME NEW k \in BackendSlots \cup EmuIrqs, NEW e \in Pend', Newest(e, IrqEvents(k)')
      PROVE  wire'[k] = (e.irqop = "set")
  <2>1. CASE IsIrq(x, k)
    <3>1. IrqEvents(k)' = IrqEvents(k) \cup {x} /\ IrqEvents(k) \subseteq Pend
      BY <2>1, AddSets DEF IrqEvents
    <3>2. x.n <= e.n
      BY <1>2, <3>1 DEF Newest
    <3>3. e = x
      BY <3>2
    <3> QED
      BY <2>1, <3>3
  <2>2. CASE ~IsIrq(x, k)
    <3>1. IrqEvents(k)' = IrqEvents(k)
      BY <2>2, AddSets
    <3>2. Newest(e, IrqEvents(k)) /\ e \in Pend
      BY <1>2, <3>1 DEF Newest, IrqEvents
    <3> QED
      BY <2>2, <3>2 DEF LinesOK
  <2> QED
    BY <2>1, <2>2
<1>3. ASSUME NEW e \in Pend', e.op = "set_irq", e.arg \in BackendSlots
      PROVE  \/ Registered(e.arg)'
             \/ \E f \in Pend' : f.op = "register" /\ f.arg = e.arg /\ f.n < e.n
  BY <1>3 DEF LinesOK
<1>4. \A k \in BackendSlots \cup EmuIrqs, e \in Pend' : Newest(e, IrqEvents(k))' <=> Newest(e, IrqEvents(k)')
  BY DEF Newest
<1> QED
  BY <1>1, <1>2, <1>3, <1>4 DEF LinesOK

\* Lines when the oldest event is used up.
LEMMA LinesRemove ==
  ASSUME LinesOK, NEW x, Pend' = Pend \ {x}, Oldest(x, Pend), wire' = wire,
         \A k \in BackendSlots \cup EmuIrqs : ~IsIrq(x, k) => Current(k)' = Current(k),
         \A k \in BackendSlots \cup EmuIrqs : IsIrq(x, k) => Current(k)' = (x.irqop = "set"),
         \A b \in BackendSlots :
           Registered(b) \/ (x.op = "register" /\ x.arg = b) => Registered(b)'
  PROVE  LinesOK'
<1>1. x \in Pend /\ \A e \in Pend : x.n <= e.n
  BY DEF Oldest
<1>2. ASSUME NEW k \in BackendSlots \cup EmuIrqs, IrqEvents(k)' = {}
      PROVE  Current(k)' = wire'[k]
  <2>1. CASE IsIrq(x, k)
    <3>1. IrqEvents(k) = {x}
      BY <1>1, <1>2, <2>1, RemoveSets
    <3>2. Newest(x, IrqEvents(k))
      BY <1>1, <3>1 DEF Newest
    <3> QED
      BY <1>1, <2>1, <3>2 DEF LinesOK
  <2>2. CASE ~IsIrq(x, k)
    <3>1. IrqEvents(k) = {}
      BY <1>1, <1>2, <2>2, RemoveSets
    <3> QED
      BY <2>2, <3>1 DEF LinesOK
  <2> QED
    BY <2>1, <2>2
<1>3. ASSUME NEW k \in BackendSlots \cup EmuIrqs, NEW e \in Pend', Newest(e, IrqEvents(k)')
      PROVE  wire'[k] = (e.irqop = "set")
  <2>1. e \in Pend /\ x.n <= e.n /\ IrqEvents(k)' = IrqEvents(k) \ {x}
    BY <1>1, RemoveSets
  <2>2. Newest(e, IrqEvents(k))
    BY <1>3, <2>1 DEF Newest
  <2> QED
    BY <2>1, <2>2 DEF LinesOK
<1>4. ASSUME NEW e \in Pend', e.op = "set_irq", e.arg \in BackendSlots
      PROVE  \/ Registered(e.arg)'
             \/ \E f \in Pend' : f.op = "register" /\ f.arg = e.arg /\ f.n < e.n
  BY <1>4 DEF LinesOK
<1>5. \A k \in BackendSlots \cup EmuIrqs, e \in Pend' : Newest(e, IrqEvents(k))' <=> Newest(e, IrqEvents(k)')
  BY DEF Newest
<1> QED
  BY <1>2, <1>3, <1>4, <1>5 DEF LinesOK

\* Lines in the middle of a handler: the level of an interrupt may change
\* while an event for it is under way.
LEMMA LinesMid ==
  ASSUME LinesOK, Pend' = Pend, wire' = wire,
         \A k \in BackendSlots \cup EmuIrqs : IrqEvents(k) = {} => Current(k)' = Current(k),
         \A b \in BackendSlots : Registered(b)' = Registered(b)
  PROVE  LinesOK'
<1>1. \A k : IrqEvents(k)' = IrqEvents(k)
  BY DEF IrqEvents
<1>2. \A k, e : Newest(e, IrqEvents(k))' <=> Newest(e, IrqEvents(k))
  BY <1>1 DEF Newest
<1>3. \A k \in BackendSlots \cup EmuIrqs :
        /\ IrqEvents(k)' = {} => Current(k)' = wire'[k]
        /\ \A e \in Pend' : Newest(e, IrqEvents(k))' => wire'[k] = (e.irqop = "set")
  BY <1>1, <1>2 DEF LinesOK
<1>4. \A e \in Pend' : e.op = "set_irq" /\ e.arg \in BackendSlots =>
        \/ Registered(e.arg)'
        \/ \E f \in Pend' : f.op = "register" /\ f.arg = e.arg /\ f.n < e.n
  BY DEF LinesOK
<1> QED
  BY <1>3, <1>4 DEF LinesOK

\* Regions when an event is sent.
LEMMA RegionsAdd ==
  ASSUME RegionsOK, NEW x, Pend' = Pend \cup {x}, x.n \in Nat,
         \A e \in Pend : e.n < x.n /\ e.n \in Nat,
         Kept' = Kept,
         \A r \in Regions : r \in claimed' <=> IF IsRegion(x, r) THEN x.op = "assign" ELSE r \in claimed,
         \A r \in Regions : IsRegion(x, r) => (x.op = "assign" <=> r \notin claimed)
  PROVE  RegionsOK'
<1>1. \A r \in Regions : RegionEvents(r) \subseteq Pend
  BY DEF RegionEvents
<1>2. ASSUME NEW r \in Regions, RegionEvents(r)' = {}
      PROVE  r \in Kept' <=> r \in claimed'
  <2>1. ~IsRegion(x, r) /\ RegionEvents(r) = {}
    BY <1>2, AddSets
  <2> QED
    BY <2>1 DEF RegionsOK
<1>3. ASSUME NEW r \in Regions, NEW e \in Pend', Oldest(e, RegionEvents(r)')
      PROVE  e.op = "assign" <=> r \notin Kept'
  <2>1. CASE Oldest(e, RegionEvents(r))
    BY <1>1, <2>1 DEF RegionsOK, Oldest
  <2>2. CASE ~Oldest(e, RegionEvents(r))
    <3>1. IsRegion(x, r) /\ RegionEvents(r)' = RegionEvents(r) \cup {x}
      BY <1>3, <2>2, AddSets
    <3>2. e = x
      BY <1>3, <2>2, <3>1 DEF Oldest
    <3>3. RegionEvents(r) = {}
      <4> SUFFICES ASSUME NEW f \in RegionEvents(r) PROVE FALSE
        OBVIOUS
      <4>1. x.n <= f.n /\ f.n < x.n /\ f.n \in Nat
        BY <1>1, <1>3, <3>1, <3>2 DEF Oldest
      <4> QED
        BY <4>1
    <3> QED
      BY <3>1, <3>2, <3>3 DEF RegionsOK
  <2> QED
    BY <2>1, <2>2
<1>4. ASSUME NEW r \in Regions, NEW e \in Pend', Newest(e, RegionEvents(r)')
      PROVE  e.op = "assign" <=> r \in claimed'
  <2>1. CASE IsRegion(x, r)
    <3>1. RegionEvents(r)' = RegionEvents(r) \cup {x}
      BY <2>1, AddSets
    <3>2. x.n <= e.n /\ e \in RegionEvents(r) \cup {x}
      BY <1>4, <3>1 DEF Newest
    <3>3. e = x
      BY <1>1, <3>2
    <3> QED
      BY <2>1, <3>3
  <2>2. CASE ~IsRegion(x, r)
    <3>1. RegionEvents(r)' = RegionEvents(r)
      BY <2>2, AddSets
    <3>2. Newest(e, RegionEvents(r)) /\ e \in Pend
      BY <1>1, <1>4, <3>1 DEF Newest
    <3> QED
      BY <2>2, <3>2 DEF RegionsOK
  <2> QED
    BY <2>1, <2>2
<1>5. ASSUME NEW r \in Regions, NEW e \in RegionEvents(r)', NEW f \in RegionEvents(r)',
             e.n < f.n, \A g \in RegionEvents(r)' : g.n <= e.n \/ f.n <= g.n
      PROVE  e.op # f.op
  <2>1. RegionEvents(r) \subseteq RegionEvents(r)'
    BY AddSets
  <2>2. CASE e \in RegionEvents(r) /\ f \in RegionEvents(r)
    BY <1>5, <2>1, <2>2 DEF RegionsOK
  <2>3. CASE ~(e \in RegionEvents(r) /\ f \in RegionEvents(r))
    <3>1. IsRegion(x, r) /\ RegionEvents(r)' = RegionEvents(r) \cup {x}
      BY <2>3, AddSets
    <3>2. f = x /\ e \in RegionEvents(r)
      BY <1>1, <1>5, <2>3, <3>1
    <3>3. Newest(e, RegionEvents(r))
      <4> SUFFICES ASSUME NEW g \in RegionEvents(r) PROVE g.n <= e.n
        BY <3>2 DEF Newest
      <4>1. g.n \in Nat /\ g.n < x.n /\ (g.n <= e.n \/ x.n <= g.n)
        BY <1>1, <1>5, <2>1, <3>2
      <4> QED
        BY <4>1
    <3>4. e.op = "assign" <=> r \in claimed
      BY <1>1, <3>2, <3>3 DEF RegionsOK
    <3>5. x.op = "assign" <=> r \notin claimed
      BY <3>1
    <3> QED
      BY <3>2, <3>4, <3>5
  <2> QED
    BY <2>2, <2>3
<1>6. \A r \in Regions, e \in Pend' :
        /\ Oldest(e, RegionEvents(r))' <=> Oldest(e, RegionEvents(r)')
        /\ Newest(e, RegionEvents(r))' <=> Newest(e, RegionEvents(r)')
  BY DEF Newest, Oldest
<1> QED
  BY <1>2, <1>3, <1>4, <1>5, <1>6 DEF RegionsOK

\* Regions when the oldest event is used up.
LEMMA RegionsRemove ==
  ASSUME RegionsOK, NEW x, Pend' = Pend \ {x}, Oldest(x, Pend), claimed' = claimed,
         \A e \in Pend : e.n \in Nat, \A e, f \in Pend : e.n = f.n => e = f,
         \A r \in Regions : r \in Kept' <=> IF IsRegion(x, r) THEN x.op = "assign" ELSE r \in Kept
  PROVE  RegionsOK'
<1>1. x \in Pend /\ \A e \in Pend : x.n <= e.n
  BY DEF Oldest
<1>2. \A r \in Regions : RegionEvents(r) \subseteq Pend
  BY DEF RegionEvents
<1>3. \A r \in Regions : RegionEvents(r)' = RegionEvents(r) \ {x} /\ (x \in RegionEvents(r) <=> IsRegion(x, r))
  BY <1>1, RemoveSets
<1>4. ASSUME NEW r \in Regions, RegionEvents(r)' = {}
      PROVE  r \in Kept' <=> r \in claimed'
  <2>1. CASE IsRegion(x, r)
    <3>1. Newest(x, RegionEvents(r))
      BY <1>1, <1>2, <1>3, <1>4, <2>1 DEF Newest
    <3> QED
      BY <1>1, <2>1, <3>1 DEF RegionsOK
  <2>2. CASE ~IsRegion(x, r)
    BY <1>3, <1>4, <2>2 DEF RegionsOK
  <2> QED
    BY <2>1, <2>2
<1>5. ASSUME NEW r \in Regions, NEW e \in Pend', Oldest(e, RegionEvents(r)')
      PROVE  e.op = "assign" <=> r \notin Kept'
  <2>1. e \in RegionEvents(r) /\ e # x /\ e \in Pend
    BY <1>2, <1>3, <1>5 DEF Oldest
  <2>2. \A g \in RegionEvents(r) : g # x => e.n <= g.n
    BY <1>3, <1>5 DEF Oldest
  <2>3. CASE IsRegion(x, r)
    <3>1. x \in RegionEvents(r) /\ x.n < e.n
      BY <1>1, <1>3, <2>1, <2>3
    <3>2. \A g \in RegionEvents(r) : g.n <= x.n \/ e.n <= g.n
      BY <1>1, <2>2
    <3>3. x.op # e.op
      BY <2>1, <3>1, <3>2 DEF RegionsOK
    <3>4. e.op \in {"assign", "free"} /\ x.op \in {"assign", "free"}
      BY <2>1, <2>3 DEF RegionEvents, IsRegion
    <3> QED
      BY <2>3, <3>3, <3>4
  <2>4. CASE ~IsRegion(x, r)
    <3>1. Oldest(e, RegionEvents(r))
      BY <1>3, <2>1, <2>2, <2>4 DEF Oldest
    <3> QED
      BY <2>1, <2>4, <3>1 DEF RegionsOK
  <2> QED
    BY <2>3, <2>4
<1>6. ASSUME NEW r \in Regions, NEW e \in Pend', Newest(e, RegionEvents(r)')
      PROVE  e.op = "assign" <=> r \in claimed'
  <2>1. e \in Pend /\ x.n <= e.n
    BY <1>1
  <2>2. Newest(e, RegionEvents(r))
    BY <1>3, <1>6, <2>1 DEF Newest
  <2> QED
    BY <2>1, <2>2 DEF RegionsOK
<1>7. ASSUME NEW r \in Regions, NEW e \in RegionEvents(r)', NEW f \in RegionEvents(r)',
             e.n < f.n, \A g \in RegionEvents(r)' : g.n <= e.n \/ f.n <= g.n
      PROVE  e.op # f.op
  <2>1. e \in RegionEvents(r) /\ f \in RegionEvents(r) /\ x.n <= e.n
    BY <1>1, <1>2, <1>3
  <2>2. \A g \in RegionEvents(r) : g.n <= e.n \/ f.n <= g.n
    BY <1>3, <1>7, <2>1
  <2> QED
    BY <1>7, <2>1, <2>2 DEF RegionsOK
<1>8. \A r \in Regions, e \in Pend' :
        /\ Oldest(e, RegionEvents(r))' <=> Oldest(e, RegionEvents(r)')
        /\ Newest(e, RegionEvents(r))' <=> Newest(e, RegionEvents(r)')
  BY DEF Newest, Oldest
<1> QED
  BY <1>4, <1>5, <1>6, <1>7, <1>8 DEF RegionsOK

\* Regions in the middle of a handler.
LEMMA RegionsMid ==
  ASSUME RegionsOK, Pend' = Pend, Kept' = Kept, claimed' = claimed
  PROVE  RegionsOK'
<1>1. \A r : RegionEvents(r)' = RegionEvents(r)
  BY DEF RegionEvents
<1>2. \A r, e : /\ Oldest(e, RegionEvents(r))' <=> Oldest(e, RegionEvents(r))
                /\ Newest(e, RegionEvents(r))' <=> Newest(e, RegionEvents(r))
  BY <1>1 DEF Newest, Oldest
<1> QED
  BY <1>1, <1>2 DEF RegionsOK

\* Devices known when an event is sent.
LEMMA KnownAdd ==
  ASSUME KnownOK, NEW x, Pend' = Pend \cup {x}, \A b : Registered(b)' = Registered(b),
         \A b : Registered(b) => b \in known,
         IF x.op = "register" THEN x.arg \notin known /\ known' = known \cup {x.arg}
                              ELSE known' = known
  PROVE  KnownOK'
<1>1. ASSUME NEW e \in Pend', e.op = "register"
      PROVE  /\ e.arg \in known' /\ ~Registered(e.arg)'
             /\ \A f \in Pend' : f.op = "register" /\ f.arg = e.arg => f = e
  <2>1. CASE e \in Pend
    BY <1>1, <2>1 DEF KnownOK
  <2>2. CASE e = x
    <3>1. \A f \in Pend : f.op = "register" => f.arg \in known
      BY DEF KnownOK
    <3> QED
      BY <1>1, <2>2, <3>1
  <2> QED
    BY <2>1, <2>2
<1>2. \A b \in known' : Registered(b)' \/ \E e \in Pend' : e.op = "register" /\ e.arg = b
  BY DEF KnownOK
<1> QED
  BY <1>1, <1>2 DEF KnownOK

\* When an event that is no registration is used up, or none is.
LEMMA KnownSame ==
  ASSUME KnownOK, \A b : Registered(b)' = Registered(b), known' = known,
         \/ Pend' = Pend
         \/ \E x \in Pend : Pend' = Pend \ {x} /\ x.op # "register"
  PROVE  KnownOK'
<1>1. Pend' \subseteq Pend /\ \A e \in Pend : e.op = "register" => e \in Pend'
  OBVIOUS
<1>2. \A e \in Pend' : e.op = "register" =>
        /\ e.arg \in known' /\ ~Registered(e.arg)'
        /\ \A f \in Pend' : f.op = "register" /\ f.arg = e.arg => f = e
  BY <1>1 DEF KnownOK
<1>3. \A b \in known' : Registered(b)' \/ \E e \in Pend' : e.op = "register" /\ e.arg = b
  BY <1>1 DEF KnownOK
<1> QED
  BY <1>2, <1>3 DEF KnownOK

---------------------------------------------------------------------------
(* The table of devices and the lists *)

\* The other thread has no event in hand.
Solo(t) ==
  \A u \in Threads : u # t => /\ pc[u] = "idle" /\ pc'[u] = "idle"
                              /\ ~clearing[u] /\ ~clearing'[u]

\* Places in which a thread has looked at the table or the lines, or is about
\* to change them; places in which it is about to change a list.
PciBusy  == {"entry", "load", "store", "level", "take", "count", "publish",
             "put_count", "put_dev"}
ListBusy == {"end", "link", "again", "remove", "release"}

\* What the table holds.
LEMMA Entries ==
  ASSUME TypeOK, TableOK
  PROVE  \A j \in Listed :
           /\ j \in 0 .. MaxDevs - 1 /\ j < pci_dev_count /\ j \in Nat
           /\ pci_devs[j] \in [bslot : BackendSlots, slot : VmmSlots]
           /\ pci_devs[j].bslot \in BackendSlots /\ pci_devs[j].slot \in VmmSlots
           /\ pci_map_irq(pci_devs[j].slot) \in Pins
<1> SUFFICES ASSUME NEW j \in Listed
             PROVE  /\ j \in 0 .. MaxDevs - 1 /\ j < pci_dev_count /\ j \in Nat
                    /\ pci_devs[j] \in [bslot : BackendSlots, slot : VmmSlots]
                    /\ pci_devs[j].bslot \in BackendSlots /\ pci_devs[j].slot \in VmmSlots
                    /\ pci_map_irq(pci_devs[j].slot) \in Pins
  OBVIOUS
<1>1. j \in 0 .. MaxDevs - 1 /\ j < pci_dev_count /\ j \in Nat
  BY EventAssumption DEF Listed
<1>2. pci_devs[j] \in [bslot : BackendSlots, slot : VmmSlots]
  <2>1. pci_devs[j] \in [bslot : BackendSlots, slot : VmmSlots] \cup {NoDev}
    BY <1>1 DEF TypeOK
  <2> QED
    BY <2>1 DEF TableOK
<1> QED
  BY <1>1, <1>2, Kinds

\* What depends on the table and the lines alone.
LEMMA TableSame ==
  ASSUME Listed' = Listed, UNCHANGED <<pci_devs, intx>>
  PROVE  /\ \A b : Registered(b)' = Registered(b)
         /\ \A s : Taken(s)' = Taken(s)
         /\ \A b : On(b)' = On(b)
BY DEF Registered, Taken, On

\* A step that has nothing to do with PCI devices.
LEMMA PciFrame ==
  ASSUME TableOK, RegisterOK, FindOK, IntxOK, NEW t \in Threads, Solo(t),
         UNCHANGED <<pciVars, intx>>, known \subseteq known',
         \A p \in Pins : level'[IntxBase + p] = level[IntxBase + p],
         pc[t] \notin PciBusy, pc'[t] \notin PciBusy,
         pc'[t] = "find" => \A j \in Listed : j < at'[t] => pci_devs[j].bslot # hand'[t].arg,
         clearing'[t] => hand'[t].irqop = "pulse"
  PROVE  /\ TableOK' /\ RegisterOK' /\ FindOK' /\ IntxOK' /\ Listed' = Listed
         /\ \A b : Registered(b)' = Registered(b)
         /\ \A b : On(b)' = On(b)
<1>1. UNCHANGED <<pci_devs, pci_dev_count, bus, intx>>
  BY DEF pciVars
<1>2. \A u \in Threads : pc[u] \notin PciBusy /\ pc'[u] \notin PciBusy
  BY DEF Solo, PciBusy
<1>3. Listed' = Listed
  BY <1>1, <1>2 DEF Listed, PciBusy
<1>4. /\ \A b : Registered(b)' = Registered(b)
      /\ \A s : Taken(s)' = Taken(s)
      /\ \A b : On(b)' = On(b)
  BY <1>1, <1>3, TableSame
<1>5. TableOK'
  <2>1. \A j \in 0 .. MaxDevs - 1 : j \in Listed \/ pci_devs[j] = NoDev
    BY <1>2 DEF TableOK, PciBusy
  <2>2. \A s \in bus : Taken(s)
    BY <1>2 DEF TableOK, PciBusy
  <2>3. \A s \in bus' : Taken(s)'
    BY <1>1, <1>4, <2>2
  <2> QED
    BY <1>1, <1>3, <2>1, <2>3 DEF TableOK
<1>6. RegisterOK'
  BY <1>2 DEF RegisterOK, PciBusy
<1>7. FindOK'
  <2>1. \A u \in Threads : pc'[u] \in {"find", "entry"} =>
          u = t /\ pc'[t] = "find"
    BY <1>2 DEF Solo, PciBusy
  <2>2. \A u \in Threads : clearing'[u] => u = t
    BY DEF Solo
  <2> QED
    BY <1>1, <1>2, <1>3, <2>1, <2>2 DEF FindOK, PciBusy
<1>8. IntxOK'
  <2>1. \A p \in Pins : level[IntxBase + p] = (intx[p] # {})
    BY <1>2 DEF IntxOK, PciBusy
  <2>2. \A p \in Pins : \A s \in intx'[p] : pci_map_irq(s) = p /\ Taken(s)'
    BY <1>1, <1>4 DEF IntxOK
  <2>3. \A p \in Pins : level'[IntxBase + p] = (intx'[p] # {})
    BY <1>1, <2>1
  <2> QED
    BY <1>2, <2>2, <2>3 DEF IntxOK, PciBusy
<1> QED
  BY <1>3, <1>4, <1>5, <1>6, <1>7, <1>8

\* A step that has nothing to do with the lists.
LEMMA ListsFrame ==
  ASSUME ListsOK, NEW t \in Threads, Solo(t), UNCHANGED listVars,
         pc[t] \notin ListBusy, pc'[t] \notin ListBusy
  PROVE  ListsOK' /\ Kept' = Kept
<1>1. UNCHANGED <<irqs, regions, reserved>>
  BY DEF listVars
<1>2. \A u \in Threads : pc[u] \notin ListBusy /\ pc'[u] \notin ListBusy
  BY DEF Solo, ListBusy
<1>3. \A u \in Threads : ~Assigning(u) /\ ~Assigning(u)'
  BY <1>2 DEF Assigning, AppendSteps, ListBusy
<1>4. Kept = reserved /\ Kept' = reserved'
  BY <1>3 DEF Kept
<1>5. ToSet(regions)' = ToSet(regions) /\ IsInjective(irqs)' = IsInjective(irqs)
      /\ IsInjective(regions)' = IsInjective(regions)
  BY <1>1 DEF ToSet, IsInjective
<1>6. ToSet(regions) = Kept
  BY <1>2 DEF ListsOK, ListBusy
<1>7. ToSet(regions)' = {r \in Kept' : \A u \in Threads : pc'[u] = "release" => r # hand'[u].arg}
  BY <1>1, <1>2, <1>4, <1>5, <1>6 DEF ListBusy
<1>8. \A u \in Threads :
        /\ Assigning(u)' => hand'[u].arg \in reserved'
        /\ pc'[u] = "link" => at'[u] = Len(IF hand'[u].op = "assign" THEN regions' ELSE irqs')
        /\ pc'[u] \in AppendSteps /\ hand'[u].op = "set_irq" => hand'[u].arg \notin ToSet(irqs)'
        /\ pc'[u] = "again" => hand'[u].arg \in ToSet(irqs)'
        /\ pc'[u] = "remove" => hand'[u].arg \in ToSet(regions)'
  BY <1>2, <1>3 DEF ListBusy, AppendSteps
<1>9. IsInjective(irqs)' /\ IsInjective(regions)'
  BY <1>5 DEF ListsOK
<1> QED
  BY <1>1, <1>4, <1>7, <1>8, <1>9 DEF ListsOK

\* A device that is not registered finds an entry and a slot.
LEMMA RoomLeft ==
  ASSUME RoomForDevices, TypeOK, TableOK, NEW b \in BackendSlots, ~Registered(b),
         \A u \in Threads : pc[u] # "put_dev"
  PROVE  pci_dev_count < MaxDevs /\ \E s \in VmmSlots : ~Taken(s)
<1> DEFINE m == pci_dev_count
           D == 0 .. m - 1
           used == {pci_devs[i].slot : i \in D}
<1>1. m \in Nat /\ m <= MaxDevs /\ MaxDevs \in Nat
  BY EventAssumption DEF TypeOK, TableOK
<1>2. Listed = D
  BY <1>1 DEF Listed
<1>3. \A j \in D : pci_devs[j].bslot \in BackendSlots /\ pci_devs[j].slot \in VmmSlots
  BY <1>2, Entries
<1>4. IsFiniteSet(BackendSlots) /\ IsFiniteSet(VmmSlots)
  <2>1. 0 \in Int /\ 1 \in Int /\ 31 \in Int
    OBVIOUS
  <2>2. IsFiniteSet(0 .. 31) /\ IsFiniteSet(1 .. 31)
    BY <2>1, FS_Interval
  <2>3. BackendSlots \subseteq 0 .. 31 /\ VmmSlots \subseteq 1 .. 31
    BY EventAssumption DEF PCI_NUM_SLOTS
  <2> QED
    BY <2>2, <2>3, FS_Subset
<1>5. IsFiniteSet(D) /\ Cardinality(D) = m
  <2>1. 0 \in Int /\ m - 1 \in Int
    BY <1>1
  <2>2. IsFiniteSet(D) /\ Cardinality(D) = IF 0 > m - 1 THEN 0 ELSE (m - 1) - 0 + 1
    BY <2>1, FS_Interval
  <2> QED
    BY <1>1, <2>2
<1> HIDE DEF D, m
<1>6. Cardinality(BackendSlots \ {b}) = Cardinality(BackendSlots) - 1 /\ IsFiniteSet(BackendSlots \ {b})
  BY <1>4, FS_RemoveElement
<1>7. m <= Cardinality(BackendSlots \ {b})
  <2> DEFINE f == [j \in D |-> pci_devs[j].bslot]
  <2>1. f \in Injection(D, BackendSlots \ {b})
    <3>1. \A j \in D : pci_devs[j].bslot \in BackendSlots \ {b}
      BY <1>2, <1>3 DEF Registered
    <3>2. \A j, k \in D : pci_devs[j].bslot = pci_devs[k].bslot => j = k
      BY <1>2 DEF TableOK
    <3> QED
      BY <3>1, <3>2 DEF Injection, IsInjective
  <2> HIDE DEF f
  <2> QED
    BY <1>5, <1>6, <2>1, FS_Injection
<1>8. m < Cardinality(BackendSlots)
  BY <1>1, <1>4, <1>6, <1>7, FS_CardinalityType
<1>9. IsFiniteSet(used) /\ Cardinality(used) <= m
  <2> DEFINE g == [j \in D |-> pci_devs[j].slot]
  <2>1. g \in Surjection(D, used)
    BY DEF Surjection
  <2> HIDE DEF g
  <2> QED
    BY <1>5, <2>1, FS_Surjection
<1>10. ~(VmmSlots \subseteq used)
  <2> SUFFICES ASSUME VmmSlots \subseteq used PROVE FALSE
    OBVIOUS
  <2>1. Cardinality(VmmSlots) <= Cardinality(used)
    BY <1>9, FS_Subset
  <2>2. Cardinality(used) \in Nat /\ Cardinality(VmmSlots) \in Nat /\ Cardinality(BackendSlots) \in Nat
    BY <1>4, <1>9, FS_CardinalityType
  <2> QED
    BY <1>1, <1>8, <1>9, <2>1, <2>2 DEF RoomForDevices
<1>11. \E s \in VmmSlots : ~Taken(s)
  BY <1>2, <1>10 DEF Taken
<1>12. m < MaxDevs
  BY <1>1, <1>4, <1>8, FS_CardinalityType DEF RoomForDevices
<1> QED
  BY <1>11, <1>12 DEF m

==============================================================================
