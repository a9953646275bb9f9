---------------------------- MODULE IoProxyProofs ----------------------------
(***************************************************************************)
(* Proofs about the request-reply path of IoProxy, for every number of     *)
(* vCPUs, every set of slots and every number of message buffers greater   *)
(* than the number of clients, when the VMM's main thread is the only one  *)
(* that starts requests.                                                   *)
(***************************************************************************)
EXTENDS IoProxy, FiniteSetTheorems, SequenceTheorems, WellFoundedInduction,
        TLAPS

\* The main thread serves every fault and makes every ioreq_native call.
OneCaller == Natives \subseteq {Main}

\* There are more message buffers than clients.
EnoughBuffers == Cardinality(Clients) < BufferSize

---------------------------------------------------------------------------
(* The inductive invariant: where the message ids are *)

Elems(q) == {q[k] : k \in DOMAIN q}

\* Ids in the queues, in the main thread's and the notification thread's hands.
ReqIds  == Elems(reqQ)
RespIds == Elems(respQ)
NewIds  == {tmp[t] : t \in {u \in Callers : pc[u] = "enqueue"}}
AckIds  == IF npc = "ack" THEN {resp.id} ELSE {}
DoneIds == IF npc \in {"clear", "reclaim"} THEN {resp.id} ELSE {}

\* A queue holds an id once.
Once(q) == \A j, k \in DOMAIN q : q[j] = q[k] => j = k

\* Every lent id is in exactly one place, and an id found free stays free
\* until set_bit.
PlacesOK ==
  /\ Once(reqQ) /\ Once(respQ)
  /\ NewIds \cap (ReqIds \cup held \cup RespIds \cup AckIds \cup DoneIds) = {}
  /\ ReqIds \cap (held \cup RespIds \cup AckIds \cup DoneIds) = {}
  /\ held \cap (RespIds \cup AckIds \cup DoneIds) = {}
  /\ RespIds \cap (AckIds \cup DoneIds) = {}
  /\ lent = InFlight \cup DoneIds
  /\ pc[Main] = "mark" => tmp[Main] \in Ids \ lent

---------------------------------------------------------------------------
(* The inductive invariant: whom the messages belong to *)

\* The slot of a client: the vcpu_id, or the first native slot.
ClientSlot(c) == IF c \in VCpus THEN c ELSE NativeBase

\* Request n of client c as a message.
Message(c, n) ==
  [mr0 |-> mmio_mr0(ClientSlot(c), Direction(n), AddressSpace(c), AccessSize(c, n)),
   n   |-> n]

SlotOf(i) == BIT_FIELD_GET(buf[i].mr0, SLOT)

\* A request of client c is on its way to the device VM or back.
Sent(c) == \E i \in InFlight : SlotOf(i) = ClientSlot(c)

\* ioreq_start has registered the callback of c and not filled the message.
Preparing(c) == pc[Main] \in {"lend", "mark"} /\ job[Main] = c

Open(c) == Sent(c) \/ Preparing(c)

\* The callback of c has run and is not reset yet.
Clearing(c) == npc = "clear" /\ resp.slot = ClientSlot(c)

\* Every message in flight is the latest request of one client, and no client
\* has two.
MessagesOK ==
  /\ \A i \in InFlight : \E c \in Clients : buf[i] = Message(c, asked[c])
  /\ \A i, j \in InFlight : SlotOf(i) = SlotOf(j) => i = j
  /\ npc = "ack" => resp.slot = SlotOf(resp.id)

\* Where the main thread is: the client it works for, its slot, and that the
\* client has no other request under way.
CallerOK ==
  /\ pc[Main] \in {"idle", "handoff"} => job[Main] = None
  /\ pc[Main] \in {"bump", "handoff"} => Main \in Natives
  /\ pc[Main] = "bump" =>
       job[Main] = Main /\ tmp[Main] = NativeBase /\ tls[Main] = 0
  /\ pc[Main] \in {"start", "lend", "mark", "enqueue", "bell"} =>
       job[Main] \in Clients /\ slot[Main] = ClientSlot(job[Main])
  /\ pc[Main] \in {"start", "lend", "mark"} => ~Sent(job[Main])
  /\ pc[Main] = "enqueue" => SlotOf(tmp[Main]) = slot[Main]
  /\ Main \in Natives => tls[Main] \in {0, NativeBase}
  /\ freeSlot = IF Main \in Natives /\ tls[Main] # 0 THEN NativeBase + 1 ELSE NativeBase

\* A callback is registered exactly for the clients with a request under way
\* and for the one whose callback is being reset.
AcksOK ==
  /\ \A s \in Slots : ioacks[s] # None =>
       \E c \in Clients : s = ClientSlot(c) /\ (Open(c) \/ Clearing(c))
  /\ \A c \in Clients : Open(c) \/ Clearing(c) => ioacks[ClientSlot(c)] = c
  /\ \A c \in Clients : ~(Open(c) /\ Clearing(c))

\* The main thread waits for its own request.
Handing == pc[Main] = "handoff" \/ (pc[Main] = "bell" /\ job[Main] = Main)

\* A client waits exactly while its request is under way, and its request
\* number is one ahead of its completions then.
ClientsOK ==
  /\ \A c \in Clients : asked[c] = done[c] + (IF Open(c) THEN 1 ELSE 0)
  /\ \A v \in VCpus :
       vcpu[v] = "waiting" <=> Open(v) \/ (pc[Main] = "start" /\ job[Main] = v)
  /\ Main \in Natives =>
       /\ Sent(Main) => Handing \/ (pc[Main] = "enqueue" /\ job[Main] = Main)
       /\ sem[Main] = IF Handing /\ ~Sent(Main) THEN 1 ELSE 0

ProxyInv ==
  /\ TypeOK /\ PlacesOK /\ MessagesOK /\ CallerOK /\ AcksOK /\ ClientsOK
  /\ FailsOnlyInAckWindow

---------------------------------------------------------------------------
(* Operators: bit fields, sequences, the first free bit *)

\* Unit and size of each field of the first message register.
LEMMA Fields ==
  /\ OP.unit = 1 /\ OP.size = 64
  /\ SLOT.unit = 64 /\ SLOT.size = 64
  /\ DIRECTION.unit = 4096 /\ DIRECTION.size = 2
  /\ ADDR_SPACE.unit = 8192 /\ ADDR_SPACE.size = 256
  /\ LENGTH.unit = 2097152 /\ LENGTH.size = 16
  /\ AS_GLOBAL = 255
<1>1. OP.unit = 1 /\ OP.size = 64
  BY SMT DEF OP
<1>2. SLOT.unit = 64 /\ SLOT.size = 64
  BY <1>1, SMT DEF SLOT
<1>3. DIRECTION.unit = 4096 /\ DIRECTION.size = 2
  BY <1>2, SMT DEF DIRECTION
<1>4. ADDR_SPACE.unit = 8192 /\ ADDR_SPACE.size = 256
  BY <1>3, SMT DEF ADDR_SPACE
<1>5. LENGTH.unit = 2097152 /\ LENGTH.size = 16
  BY <1>4, SMT DEF LENGTH
<1> QED
  BY <1>1, <1>2, <1>3, <1>4, <1>5, SMT DEF AS_GLOBAL

\* The fields of a register side by side.
Register(s, d, a, l) == 64 * s + 4096 * d + 8192 * a + 2097152 * l

\* Field by field, register v holds slot s, direction d, address space a and
\* length l of an MMIO operation.
Decodes(v, s, d, a, l) ==
  /\ v \in Nat
  /\ BIT_FIELD_GET(v, OP) = QEMU_OP_MMIO
  /\ BIT_FIELD_GET(v, SLOT) = s
  /\ BIT_FIELD_GET(v, DIRECTION) = d
  /\ BIT_FIELD_GET(v, ADDR_SPACE) = a
  /\ BIT_FIELD_GET(v, LENGTH) = l

\* They do not overlap.
LEMMA Digits ==
  ASSUME NEW s \in 0 .. 63, NEW d \in 0 .. 1, NEW a \in 0 .. 255, NEW l \in 0 .. 15
  PROVE  Decodes(Register(s, d, a, l), s, d, a, l)
<1> DEFINE v == 64 * s + 4096 * d + 8192 * a + 2097152 * l
<1>1. (v \div 1) % 64 = 0 /\ v \in Nat
  BY SMT
<1>2. v \div 64 = s + 64 * d + 128 * a + 32768 * l
  BY SMT
<1>3. v \div 4096 = d + 2 * a + 512 * l
  BY SMT
<1>4. v \div 8192 = a + 256 * l
  BY SMT
<1>5. v \div 2097152 = l
  BY SMT
<1> HIDE DEF v
<1>6. (s + 64 * d + 128 * a + 32768 * l) % 64 = s
  BY SMT
<1>7. (d + 2 * a + 512 * l) % 2 = d
  BY SMT
<1>8. (a + 256 * l) % 256 = a
  BY SMT
<1>9. l % 16 = l
  BY SMT
<1>10. (v \div 1) % 64 = 0 /\ (v \div 64) % 64 = s /\ (v \div 4096) % 2 = d
      /\ (v \div 8192) % 256 = a /\ (v \div 2097152) % 16 = l
  BY <1>1, <1>2, <1>3, <1>4, <1>5, <1>6, <1>7, <1>8, <1>9, SMT
<1> QED
  BY <1>1, <1>10, Fields, SMT DEF v, Register, BIT_FIELD_GET, Decodes, QEMU_OP_MMIO

\* driver_rpc_req_mmio_start builds that sum, and BIT_FIELD_GET recovers every
\* field from it.
LEMMA RegisterDecodes ==
  ASSUME NEW s \in 0 .. 63, NEW d \in 0 .. 1, NEW a \in 0 .. 255, NEW l \in 0 .. 15
  PROVE  Decodes(mmio_mr0(s, d, a, l), s, d, a, l)
<1> DEFINE v1 == BIT_FIELD_SET(0, DIRECTION, d)
           v2 == BIT_FIELD_SET(v1, ADDR_SPACE, a)
           v3 == BIT_FIELD_SET(v2, LENGTH, l)
           v4 == BIT_FIELD_SET(v3, SLOT, s)
           v  == Register(s, d, a, l)
<1>1. v1 = 4096 * d
  <2>1. v1 = 0 + ((d % 2) - ((0 \div 4096) % 2)) * 4096
    BY Fields, SMT DEF BIT_FIELD_SET, BIT_FIELD_GET
  <2>2. d % 2 = d /\ (0 \div 4096) % 2 = 0
    BY SMT
  <2> QED
    BY <2>1, <2>2, SMT
<1>2. v2 = 4096 * d + 8192 * a
  <2>1. v2 = v1 + ((a % 256) - ((v1 \div 8192) % 256)) * 8192
    BY Fields, SMT DEF BIT_FIELD_SET, BIT_FIELD_GET
  <2>2. a % 256 = a /\ ((4096 * d) \div 8192) % 256 = 0
    BY SMT
  <2> HIDE DEF v1, v2
  <2> QED
    BY <1>1, <2>1, <2>2, SMT
<1>3. v3 = 4096 * d + 8192 * a + 2097152 * l
  <2>1. v3 = v2 + ((l % 16) - ((v2 \div 2097152) % 16)) * 2097152
    BY Fields, SMT DEF BIT_FIELD_SET, BIT_FIELD_GET
  <2>2. l % 16 = l /\ ((4096 * d + 8192 * a) \div 2097152) % 16 = 0
    BY SMT
  <2> HIDE DEF v1, v2, v3
  <2> QED
    BY <1>2, <2>1, <2>2, SMT
<1>4. v4 = v
  <2>1. v4 = v3 + ((s % 64) - BIT_FIELD_GET(v3, SLOT)) * 64
    BY Fields, SMT DEF BIT_FIELD_SET
  <2>2. s % 64 = s /\ 0 \in 0 .. 63
    BY SMT
  <2>3. Decodes(Register(0, d, a, l), 0, d, a, l)
    BY <2>2, Digits, Zenon
  <2>4. /\ Register(0, d, a, l) = 4096 * d + 8192 * a + 2097152 * l
        /\ v = 64 * s + (4096 * d + 8192 * a + 2097152 * l)
    BY SMT DEF Register
  <2>5. BIT_FIELD_GET(v3, SLOT) = 0
    BY <1>3, <2>3, <2>4, SMT DEF Decodes
  <2> HIDE DEF v1, v2, v3, v4, v
  <2> QED
    BY <1>3, <2>1, <2>2, <2>4, <2>5, SMT
<1>5. Decodes(v, s, d, a, l)
  BY Digits, Zenon
<1>6. mmio_mr0(s, d, a, l) = v4 + ((0 % 64) - BIT_FIELD_GET(v4, OP)) * 1
  BY Fields, SMT DEF mmio_mr0, BIT_FIELD_SET, QEMU_OP_MMIO
<1> HIDE DEF v1, v2, v3, v4, v
<1>7. mmio_mr0(s, d, a, l) = v
  BY <1>4, <1>5, <1>6, SMT DEF Decodes, QEMU_OP_MMIO
<1> QED
  BY <1>5, <1>7, Zenon

\* find_first_zero_bit returns a bit that is off, if there is one.
LEMMA MinIn ==
  ASSUME NEW S \in SUBSET Nat, S # {}
  PROVE  Min(S) \in S
<1>1. \E x \in S : \A y \in S : ~(<<y, x>> \in OpToRel(<, Nat))
  BY NatLessThanWellFounded, WFMin
<1>2. PICK x \in S : \A y \in S : ~(<<y, x>> \in OpToRel(<, Nat))
  BY <1>1
<1>3. \A y \in S : x <= y
  <2> SUFFICES ASSUME NEW y \in S, ~(x <= y) PROVE FALSE
    OBVIOUS
  <2>1. y < x /\ x \in Nat /\ y \in Nat
    OBVIOUS
  <2>2. <<y, x>> \in OpToRel(<, Nat)
    BY <2>1, Zenon DEF OpToRel
  <2> QED
    BY <1>2, <2>2
<1>4. \E z \in S : \A y \in S : z <= y
  BY <1>3
<1> QED
  BY <1>4 DEF Min

\* A client is a vCPU or the main thread; each has a slot of its own.
LEMMA ClientSlots ==
  ASSUME OneCaller
  PROVE  /\ Callers = {Main}
         /\ VCpus \subseteq Clients /\ None \notin Clients
         /\ \A c \in Clients : c \in VCpus \/ (c = Main /\ Main \in Natives)
         /\ Main \in Natives => Main \in Clients /\ Main \notin VCpus
         /\ \A c \in Clients : ClientSlot(c) \in Slots
         /\ \A c, e \in Clients : ClientSlot(c) = ClientSlot(e) => c = e
         /\ Slots \subseteq 0 .. 63 /\ 0 \in Slots /\ NativeBase \in Slots
         /\ NativeBase \in Nat \ {0} /\ NumSlots \in Nat
<1>1. /\ Callers = {Main} /\ VCpus \subseteq Clients /\ None \notin Clients
      /\ \A c \in Clients : c \in VCpus \/ (c = Main /\ Main \in Natives)
      /\ Main \in Natives => Main \in Clients /\ Main \notin VCpus
  BY IoProxyAssumption DEF OneCaller, Callers, Clients
<1>2. /\ Slots \subseteq 0 .. 63 /\ 0 \in Slots /\ NativeBase \in Slots
      /\ NativeBase \in Nat \ {0} /\ NumSlots \in Nat
  BY IoProxyAssumption DEF Slots
<1>3. \A c \in VCpus : c \in Slots /\ c \in Nat /\ c < NativeBase
  BY IoProxyAssumption DEF Slots
<1>4. \A c \in Clients : ClientSlot(c) \in Slots
  BY <1>2, <1>3 DEF ClientSlot
<1>5. \A c, e \in Clients : ClientSlot(c) = ClientSlot(e) => c = e
  BY <1>1, <1>2, <1>3 DEF ClientSlot
<1> QED
  BY <1>1, <1>2, <1>4, <1>5

\* What a client asks for fits the fields of the register.
LEMMA RequestFields ==
  ASSUME NEW c, NEW n \in Nat
  PROVE  Direction(n) \in 0 .. 1 /\ AddressSpace(c) \in 0 .. 255 /\ AccessSize(c, n) \in 0 .. 15
<1>1. Direction(n) \in 0 .. 1
  BY SMT DEF Direction
<1>2. AddressSpace(c) \in 0 .. 255
  BY Fields, SMT DEF AddressSpace
<1>3. AccessSize(c, n) \in 0 .. 15
  <2>1. (n % 3) + 1 \in 1 .. 3
    BY SMT
  <2> DEFINE k == (n % 3) + 1
  <2> HIDE DEF k
  <2>2. k \in 1 .. 3
    BY <2>1 DEF k
  <2>3. <<1, 2, 4>>[k] \in 0 .. 15
    BY <2>2, SMT
  <2> QED
    BY <2>3, SMT DEF AccessSize, k
<1> QED
  BY <1>1, <1>2, <1>3

\* A client's message decodes to what it asked for.
LEMMA MessageDecodes ==
  ASSUME OneCaller, NEW c \in Clients, NEW n \in Nat
  PROVE  /\ Message(c, n) \in [mr0 : Nat, n : Nat]
         /\ Message(c, n).n = n
         /\ Decodes(Message(c, n).mr0, ClientSlot(c), Direction(n), AddressSpace(c),
                    AccessSize(c, n))
         /\ BIT_FIELD_GET(Message(c, n).mr0, SLOT) = ClientSlot(c)
<1> DEFINE r == mmio_mr0(ClientSlot(c), Direction(n), AddressSpace(c), AccessSize(c, n))
<1>1. ClientSlot(c) \in 0 .. 63
  BY ClientSlots
<1>2. Decodes(r, ClientSlot(c), Direction(n), AddressSpace(c), AccessSize(c, n))
  BY <1>1, RequestFields, RegisterDecodes, Zenon
<1>3. r \in Nat /\ BIT_FIELD_GET(r, SLOT) = ClientSlot(c)
  BY <1>2, Zenon DEF Decodes
<1>4. Message(c, n).mr0 = r /\ Message(c, n).n = n
  BY Zenon DEF Message
<1>5. Message(c, n) = [mr0 |-> r, n |-> n]
  BY Zenon DEF Message
<1> HIDE DEF r
<1>6. Message(c, n) \in [mr0 : Nat, n : Nat]
  BY <1>3, <1>5, SMT
<1> QED
  BY <1>2, <1>3, <1>4, <1>6, Zenon

\* What rpcmsg_enqueue does to the ids of a queue.
LEMMA AppendElems ==
  ASSUME NEW S, NEW q \in Seq(S), NEW x \in S
  PROVE  /\ Append(q, x) \in Seq(S) /\ Elems(Append(q, x)) = Elems(q) \cup {x}
         /\ Once(q) /\ x \notin Elems(q) => Once(Append(q, x))
<1> DEFINE r == Append(q, x)
           m == Len(q)
<1>1. /\ r \in Seq(S) /\ Len(r) = m + 1 /\ m \in Nat
      /\ \A k \in 1 .. m : r[k] = q[k]
      /\ r[m + 1] = x
  OBVIOUS
<1>2. DOMAIN r = 1 .. (m + 1) /\ DOMAIN q = 1 .. m
  BY <1>1, LenProperties
<1> HIDE DEF r, m
<1>3. \A k \in 1 .. (m + 1) : k \in 1 .. m \/ k = m + 1
  BY <1>1
<1>4. 1 .. m \subseteq 1 .. (m + 1) /\ m + 1 \in 1 .. (m + 1)
  BY <1>1
<1>5. Elems(r) = Elems(q) \cup {x}
  BY <1>1, <1>2, <1>3, <1>4 DEF Elems
<1>6. ASSUME Once(q), x \notin Elems(q) PROVE Once(r)
  BY <1>1, <1>2, <1>3, <1>6 DEF Once, Elems
<1> QED
  BY <1>1, <1>5, <1>6 DEF r

\* What rpcmsg_dequeue does to the ids of a queue.
LEMMA TailElems ==
  ASSUME NEW S, NEW q \in Seq(S), q # <<>>
  PROVE  /\ Head(q) \in S /\ Tail(q) \in Seq(S)
         /\ Elems(q) = Elems(Tail(q)) \cup {Head(q)}
         /\ Once(q) => Once(Tail(q)) /\ Head(q) \notin Elems(Tail(q))
<1> DEFINE r == Tail(q)
           m == Len(r)
           h == Head(q)
<1>1. /\ r \in Seq(S) /\ h \in S /\ Len(q) = m + 1 /\ m \in Nat
      /\ \A k \in 1 .. m : r[k] = q[k + 1]
      /\ q[1] = h
  BY HeadTailProperties, LenProperties
<1>2. DOMAIN r = 1 .. m /\ DOMAIN q = 1 .. (m + 1)
  BY <1>1, LenProperties
<1> HIDE DEF r, m, h
<1>3. \A k \in 1 .. (m + 1) : k = 1 \/ (k - 1 \in 1 .. m /\ (k - 1) + 1 = k)
  BY <1>1
<1>4. 1 \in 1 .. (m + 1) /\ \A k \in 1 .. m : k + 1 \in 1 .. (m + 1) /\ k + 1 # 1
  BY <1>1
<1>5. Elems(q) = Elems(r) \cup {h}
  <2>1. \A y \in Elems(q) : y \in Elems(r) \cup {h}
    <3> SUFFICES ASSUME NEW k \in 1 .. (m + 1), k # 1 PROVE q[k] \in Elems(r)
      BY <1>1, <1>2 DEF Elems
    <3>1. k - 1 \in 1 .. m /\ q[k] = r[k - 1]
      BY <1>1, <1>3
    <3> QED
      BY <3>1, <1>2 DEF Elems
  <2>2. \A y \in Elems(r) \cup {h} : y \in Elems(q)
    BY <1>1, <1>2, <1>4 DEF Elems
  <2> QED
    BY <2>1, <2>2
<1>6. ASSUME Once(q) PROVE Once(r) /\ h \notin Elems(r)
  <2>1. Once(r)
    <3> SUFFICES ASSUME NEW j \in 1 .. m, NEW k \in 1 .. m, r[j] = r[k] PROVE j = k
      BY <1>2 DEF Once
    <3>1. q[j + 1] = q[k + 1]
      BY <1>1
    <3>2. j + 1 = k + 1
      BY <3>1, <1>2, <1>4, <1>6 DEF Once
    <3> QED
      BY <3>2
  <2>2. h \notin Elems(r)
    <3> SUFFICES ASSUME NEW k \in 1 .. m, r[k] = h PROVE FALSE
      BY <1>2 DEF Elems
    <3>1. q[k + 1] = q[1]
      BY <1>1
    <3> QED
      BY <3>1, <1>2, <1>4, <1>6 DEF Once
  <2> QED
    BY <2>1, <2>2
<1> QED
  BY <1>1, <1>5, <1>6 DEF r, h

---------------------------------------------------------------------------
(* Message ids: each is in one place *)

\* InFlight place by place; the main thread is the only one that enqueues.
LEMMA Places ==
  ASSUME OneCaller
  PROVE  /\ NewIds = (IF pc[Main] = "enqueue" THEN {tmp[Main]} ELSE {})
         /\ NewIds' = (IF pc'[Main] = "enqueue" THEN {tmp'[Main]} ELSE {})
         /\ InFlight = NewIds \cup ReqIds \cup held \cup RespIds \cup AckIds
         /\ InFlight' = NewIds' \cup ReqIds' \cup held' \cup RespIds' \cup AckIds'
<1>1. Callers = {Main}
  BY ClientSlots
<1>2. NewIds = (IF pc[Main] = "enqueue" THEN {tmp[Main]} ELSE {})
  BY <1>1 DEF NewIds
<1>3. NewIds' = (IF pc'[Main] = "enqueue" THEN {tmp'[Main]} ELSE {})
  BY <1>1 DEF NewIds
<1>4. InFlight = NewIds \cup ReqIds \cup held \cup RespIds \cup AckIds
  BY Zenon DEF InFlight, NewIds, ReqIds, RespIds, AckIds, Elems
<1>5. InFlight' = NewIds' \cup ReqIds' \cup held' \cup RespIds' \cup AckIds'
  BY Zenon DEF InFlight, NewIds, ReqIds, RespIds, AckIds, Elems
<1> QED
  BY <1>2, <1>3, <1>4, <1>5

\* A step that leaves the ids where they are.
LEMMA PlacesFrame ==
  ASSUME OneCaller, PlacesOK, UNCHANGED <<reqQ, respQ, held, lent>>,
         NewIds' = NewIds, AckIds' = AckIds, DoneIds' = DoneIds,
         pc'[Main] = "mark" => tmp'[Main] \in Ids \ lent
  PROVE  PlacesOK' /\ InFlight' = InFlight
<1>1. InFlight' = InFlight
  BY Places DEF ReqIds, RespIds, Elems
<1>2. ReqIds' = ReqIds /\ RespIds' = RespIds /\ Once(reqQ)' /\ Once(respQ)'
  BY DEF ReqIds, RespIds, Elems, PlacesOK, Once
<1> QED
  BY <1>1, <1>2 DEF PlacesOK

\* set_bit takes the id found free; it is in flight from then on.
LEMMA PlacesMark ==
  ASSUME OneCaller, TypeOK, PlacesOK, LendMark(Main)
  PROVE  /\ PlacesOK' /\ InFlight' = InFlight \cup {tmp[Main]}
         /\ tmp[Main] \in Ids /\ tmp[Main] \notin InFlight
<1>1. /\ pc[Main] = "mark" /\ pc'[Main] = "enqueue" /\ tmp' = tmp
      /\ lent' = lent \cup {tmp[Main]}
  BY ClientSlots DEF LendMark, TypeOK
<1>2. ReqIds' = ReqIds /\ RespIds' = RespIds /\ held' = held
  BY DEF LendMark, ReqIds, RespIds, Elems, devVars
<1>3. AckIds' = AckIds /\ DoneIds' = DoneIds
  BY DEF LendMark, AckIds, DoneIds, ntfnVars
<1>4. Once(reqQ)' /\ Once(respQ)'
  BY DEF LendMark, PlacesOK, Once
<1>5. NewIds = {} /\ NewIds' = {tmp[Main]}
  BY <1>1, Places
<1>6. tmp[Main] \in Ids \ lent /\ lent = InFlight \cup DoneIds
  BY <1>1 DEF PlacesOK
<1>7. InFlight' = InFlight \cup {tmp[Main]}
  BY <1>2, <1>3, <1>5, Places
<1>8. tmp[Main] \notin ReqIds \cup held \cup RespIds \cup AckIds \cup DoneIds
  BY <1>6, Places
<1> QED
  BY <1>1, <1>2, <1>3, <1>4, <1>5, <1>6, <1>7, <1>8 DEF PlacesOK

\* The request queue has room, and the id moves into it.
LEMMA PlacesEnqueue ==
  ASSUME OneCaller, TypeOK, PlacesOK, Enqueue(Main)
  PROVE  Len(reqQ) < BufferSize /\ PlacesOK' /\ InFlight' = InFlight
<1>1. /\ NewIds = {tmp[Main]} /\ tmp[Main] \in InFlight
      /\ tmp[Main] \notin ReqIds \cup held \cup RespIds \cup AckIds \cup DoneIds
  BY Places DEF Enqueue, PlacesOK
<1>2. tmp[Main] \in Ids /\ BufferSize \in Nat \ {0} /\ reqQ \in Seq(Ids)
  BY <1>1, IoProxyAssumption DEF PlacesOK, TypeOK
<1>3. Len(reqQ) < BufferSize
  <2> DEFINE m == Len(reqQ)
             f == [k \in 1 .. m |-> reqQ[k]]
  <2>1. m \in Nat /\ DOMAIN reqQ = 1 .. m
    BY <1>2, LenProperties
  <2>2. IsFiniteSet(Ids) /\ Cardinality(Ids) = BufferSize
    <3>1. 0 \in Int /\ BufferSize - 1 \in Int
      BY <1>2
    <3> QED
      BY <3>1, <1>2, FS_Interval DEF Ids
  <2>3. IsFiniteSet(Ids \ {tmp[Main]}) /\ Cardinality(Ids \ {tmp[Main]}) = BufferSize - 1
    BY <1>2, <2>2, FS_RemoveElement
  <2>4. f \in Injection(1 .. m, Ids \ {tmp[Main]})
    <3>1. \A k \in 1 .. m : reqQ[k] \in Ids \ {tmp[Main]}
      BY <1>1, <1>2, <2>1 DEF ReqIds, Elems
    <3>2. \A j, k \in 1 .. m : reqQ[j] = reqQ[k] => j = k
      BY <2>1 DEF PlacesOK, Once
    <3> HIDE DEF m
    <3> QED
      BY <3>1, <3>2 DEF Injection, IsInjective
  <2>5. IsFiniteSet(1 .. m) /\ Cardinality(1 .. m) = m
    <3> HIDE DEF m, f
    <3>1. 1 \in Int /\ m \in Int
      BY <2>1
    <3> QED
      BY <2>1, <3>1, FS_Interval
  <2>6. Cardinality(1 .. m) <= Cardinality(Ids \ {tmp[Main]})
    BY <2>3, <2>4, FS_Injection DEF ExistsInjection
  <2> QED
    BY <1>2, <2>1, <2>3, <2>5, <2>6
<1>4. /\ pc'[Main] = "bell" /\ reqQ' = Append(reqQ, tmp[Main]) /\ lent' = lent
      /\ held' = held /\ respQ' = respQ
  BY <1>3, ClientSlots DEF Enqueue, TypeOK, devVars
<1>5. AckIds' = AckIds /\ DoneIds' = DoneIds /\ RespIds' = RespIds
  BY <1>4 DEF Enqueue, AckIds, DoneIds, ntfnVars, RespIds, Elems
<1>6. ReqIds' = ReqIds \cup {tmp[Main]} /\ Once(reqQ)' /\ Once(respQ)'
  BY <1>1, <1>2, <1>4, AppendElems DEF PlacesOK, ReqIds, Once
<1>7. NewIds' = {}
  BY <1>4, Places
<1>8. InFlight' = InFlight
  BY <1>1, <1>4, <1>5, <1>6, <1>7, Places
<1> QED
  BY <1>1, <1>3, <1>4, <1>5, <1>6, <1>7, <1>8 DEF PlacesOK

\* The device VM takes an id from the request queue.
LEMMA PlacesTake ==
  ASSUME OneCaller, TypeOK, PlacesOK, DeviceTake
  PROVE  PlacesOK' /\ InFlight' = InFlight
<1>1. NewIds' = NewIds /\ AckIds' = AckIds /\ DoneIds' = DoneIds /\ RespIds' = RespIds
  BY DEF DeviceTake, NewIds, AckIds, DoneIds, RespIds, Elems, reqVars, ntfnVars
<1>2. respQ' = respQ /\ lent' = lent /\ pc' = pc /\ tmp' = tmp
  BY DEF DeviceTake, reqVars
<1>3. CASE reqQ = <<>>
  <2>1. reqQ' = reqQ /\ held' = held
    BY <1>3 DEF DeviceTake
  <2>2. pc'[Main] = "mark" => tmp'[Main] \in Ids \ lent
    BY <1>2 DEF PlacesOK
  <2> QED
    BY <1>1, <1>2, <2>1, <2>2, PlacesFrame
<1>4. CASE reqQ # <<>>
  <2>1. held' = held \cup {Head(reqQ)} /\ reqQ' = Tail(reqQ)
    BY <1>4 DEF DeviceTake
  <2>2. /\ ReqIds = ReqIds' \cup {Head(reqQ)} /\ Once(reqQ)' /\ Head(reqQ) \notin ReqIds'
    BY <1>4, <2>1, TailElems DEF TypeOK, PlacesOK, ReqIds
  <2>3. Once(respQ)'
    BY <1>2 DEF PlacesOK, Once
  <2>4. InFlight' = InFlight
    BY <1>1, <2>1, <2>2, Places
  <2> QED
    BY <1>1, <1>2, <2>1, <2>2, <2>3, <2>4 DEF PlacesOK
<1> QED
  BY <1>3, <1>4

\* The device VM puts an id it holds into the response queue.
LEMMA PlacesReply ==
  ASSUME OneCaller, TypeOK, PlacesOK, DeviceReply
  PROVE  PlacesOK' /\ InFlight' = InFlight
<1>1. NewIds' = NewIds /\ AckIds' = AckIds /\ DoneIds' = DoneIds /\ ReqIds' = ReqIds
  BY DEF DeviceReply, NewIds, AckIds, DoneIds, ReqIds, Elems, reqVars, ntfnVars
<1>2. reqQ' = reqQ /\ lent' = lent /\ pc' = pc /\ tmp' = tmp
  BY DEF DeviceReply, reqVars
<1>3. PICK i \in held : held' = held \ {i} /\ respQ' = Append(respQ, i)
  BY DEF DeviceReply
<1>4. i \in Ids /\ respQ \in Seq(Ids) /\ i \notin RespIds
  BY DEF TypeOK, PlacesOK
<1>5. RespIds' = RespIds \cup {i} /\ Once(respQ)' /\ Once(reqQ)'
  BY <1>2, <1>3, <1>4, AppendElems DEF PlacesOK, RespIds, Once
<1>6. InFlight' = InFlight
  BY <1>1, <1>3, <1>5, Places
<1> QED
  BY <1>1, <1>2, <1>3, <1>5, <1>6 DEF PlacesOK

\* The notification thread takes an id from the response queue.
LEMMA PlacesRecv ==
  ASSUME OneCaller, TypeOK, PlacesOK, NtfnRecv
  PROVE  PlacesOK' /\ InFlight' = InFlight
<1>1. NewIds' = NewIds /\ ReqIds' = ReqIds /\ held' = held
  BY DEF NtfnRecv, NewIds, ReqIds, Elems, reqVars, devVars
<1>2. reqQ' = reqQ /\ lent' = lent /\ pc' = pc /\ tmp' = tmp
  BY DEF NtfnRecv, reqVars
<1>3. AckIds = {} /\ DoneIds = {} /\ DoneIds' = {}
  BY DEF NtfnRecv, AckIds, DoneIds
<1>4. CASE respQ = <<>>
  <2>1. respQ' = respQ /\ AckIds' = {}
    BY <1>4 DEF NtfnRecv, AckIds
  <2>2. pc'[Main] = "mark" => tmp'[Main] \in Ids \ lent
    BY <1>2 DEF PlacesOK
  <2> QED
    BY <1>1, <1>2, <1>3, <2>1, <2>2, PlacesFrame
<1>5. CASE respQ # <<>>
  <2>1. respQ' = Tail(respQ) /\ AckIds' = {Head(respQ)}
    BY <1>5 DEF NtfnRecv, AckIds, handle_mmio
  <2>2. RespIds = RespIds' \cup {Head(respQ)} /\ Once(respQ)' /\ Head(respQ) \notin RespIds'
    BY <1>5, <2>1, TailElems DEF TypeOK, PlacesOK, RespIds
  <2>3. Once(reqQ)'
    BY <1>2 DEF PlacesOK, Once
  <2>4. InFlight' = InFlight
    BY <1>1, <1>3, <2>1, <2>2, Places
  <2> QED
    BY <1>1, <1>2, <1>3, <2>1, <2>2, <2>3, <2>4 DEF PlacesOK
<1> QED
  BY <1>4, <1>5

\* ioreq_finish ends a request: its id is no longer in flight, but still lent.
LEMMA PlacesAck ==
  ASSUME OneCaller, PlacesOK, NtfnAck, ioacks[resp.slot] # None
  PROVE  PlacesOK' /\ InFlight' = InFlight \ {resp.id} /\ resp.id \in InFlight
<1>1. NewIds' = NewIds /\ ReqIds' = ReqIds /\ held' = held /\ RespIds' = RespIds
  BY DEF NtfnAck, NewIds, ReqIds, RespIds, Elems, devVars
<1>2. reqQ' = reqQ /\ respQ' = respQ /\ lent' = lent /\ pc' = pc /\ tmp' = tmp
  BY DEF NtfnAck
<1>3. AckIds = {resp.id} /\ DoneIds = {} /\ AckIds' = {} /\ DoneIds' = {resp.id}
  BY DEF NtfnAck, AckIds, DoneIds
<1>4. Once(reqQ)' /\ Once(respQ)'
  BY <1>2 DEF PlacesOK, Once
<1>5. resp.id \notin NewIds \cup ReqIds \cup held \cup RespIds
  BY <1>3 DEF PlacesOK
<1>6. InFlight' = InFlight \ {resp.id} /\ resp.id \in InFlight
  BY <1>1, <1>3, <1>5, Places
<1> QED
  BY <1>1, <1>2, <1>3, <1>4, <1>5, <1>6 DEF PlacesOK

\* rpcmsg_reclaim_buffer: nobody else holds the id.
LEMMA PlacesReclaim ==
  ASSUME OneCaller, PlacesOK, NtfnReclaim
  PROVE  PlacesOK' /\ InFlight' = InFlight
<1>1. NewIds' = NewIds /\ ReqIds' = ReqIds /\ held' = held /\ RespIds' = RespIds
  BY DEF NtfnReclaim, NewIds, ReqIds, RespIds, Elems, devVars, reqVars
<1>2. reqQ' = reqQ /\ respQ' = respQ /\ pc' = pc /\ tmp' = tmp /\ lent' = lent \ {resp.id}
  BY DEF NtfnReclaim, reqVars
<1>3. AckIds = {} /\ DoneIds = {resp.id} /\ AckIds' = {} /\ DoneIds' = {}
  BY DEF NtfnReclaim, AckIds, DoneIds
<1>4. Once(reqQ)' /\ Once(respQ)'
  BY <1>2 DEF PlacesOK, Once
<1>5. resp.id \notin NewIds \cup ReqIds \cup held \cup RespIds
  BY <1>3 DEF PlacesOK
<1>6. InFlight' = InFlight /\ resp.id \notin InFlight
  BY <1>1, <1>3, <1>5, Places
<1>7. lent' = InFlight'
  BY <1>2, <1>3, <1>6 DEF PlacesOK
<1> QED
  BY <1>1, <1>2, <1>3, <1>4, <1>6, <1>7 DEF PlacesOK

---------------------------------------------------------------------------
(* Requests: each message in flight belongs to one client *)

\* The client of a message in flight.
LEMMA Owner ==
  ASSUME OneCaller, TypeOK, MessagesOK, NEW i \in InFlight
  PROVE  \E c \in Clients : /\ buf[i] = Message(c, asked[c])
                            /\ SlotOf(i) = ClientSlot(c) /\ Sent(c)
<1>1. PICK c \in Clients : buf[i] = Message(c, asked[c])
  BY DEF MessagesOK
<1>2. asked[c] \in Nat
  BY DEF TypeOK
<1>3. BIT_FIELD_GET(Message(c, asked[c]).mr0, SLOT) = ClientSlot(c)
  BY <1>2, MessageDecodes, Zenon
<1>4. SlotOf(i) = ClientSlot(c)
  BY <1>1, <1>3, Zenon DEF SlotOf
<1> QED
  BY <1>1, <1>4, Zenon DEF Sent

\* A step that moves messages but neither starts nor ends a request keeps
\* what the invariant says about messages, callbacks and request numbers.
LEMMA RequestsFrame ==
  ASSUME MessagesOK, AcksOK, ClientsOK, failed = None,
         InFlight' = InFlight, UNCHANGED <<buf, asked, ioacks, done, failed>>,
         npc' = "ack" => resp'.slot = BIT_FIELD_GET(buf[resp'.id].mr0, SLOT),
         \A c \in Clients : Clearing(c)' <=> Clearing(c),
         \A c \in Clients : Preparing(c)' <=> Preparing(c)
  PROVE  /\ MessagesOK' /\ AcksOK' /\ FailsOnlyInAckWindow'
         /\ \A i : SlotOf(i)' = SlotOf(i)
         /\ \A c \in Clients : (Sent(c)' <=> Sent(c)) /\ (Open(c)' <=> Open(c))
         /\ \A c \in Clients : asked'[c] = done'[c] + (IF Open(c)' THEN 1 ELSE 0)
<1>1. \A i : SlotOf(i)' = SlotOf(i)
  BY DEF SlotOf
<1>2. \A c \in Clients : Sent(c)' <=> Sent(c)
  BY <1>1 DEF Sent
<1>3. \A c \in Clients : Open(c)' <=> Open(c)
  BY <1>2 DEF Open
<1>4. MessagesOK'
  <2>1. \A i \in InFlight' : \E c \in Clients : buf'[i] = Message(c, asked'[c])
    BY DEF MessagesOK
  <2>2. \A i, j \in InFlight' : SlotOf(i)' = SlotOf(j)' => i = j
    BY <1>1 DEF MessagesOK
  <2>3. npc' = "ack" => resp'.slot = SlotOf(resp.id)'
    BY DEF SlotOf
  <2> QED
    BY <2>1, <2>2, <2>3 DEF MessagesOK
<1>5. AcksOK'
  BY <1>3 DEF AcksOK
<1>6. FailsOnlyInAckWindow'
  BY DEF FailsOnlyInAckWindow
<1>7. \A c \in Clients : asked'[c] = done'[c] + (IF Open(c)' THEN 1 ELSE 0)
  BY <1>3 DEF ClientsOK
<1> QED
  BY <1>1, <1>2, <1>3, <1>4, <1>5, <1>6, <1>7

\* Steps of the device VM, the guest, and the notification thread outside
\* ioreq_finish.
LEMMA QuietStep ==
  ASSUME ProxyInv, failed = None, TypeOK', PlacesOK', InFlight' = InFlight,
         UNCHANGED <<pc, job, slot, tmp, tls, freeSlot, asked, buf, ioacks, sem, done,
                     failed>>,
         \A v \in VCpus : vcpu'[v] = "waiting" <=> vcpu[v] = "waiting",
         npc' = "ack" => resp'.slot = BIT_FIELD_GET(buf[resp'.id].mr0, SLOT),
         \A c \in Clients : Clearing(c)' <=> Clearing(c)
  PROVE  ProxyInv'
<1>1. \A c \in Clients : Preparing(c)' <=> Preparing(c)
  BY DEF Preparing
<1>2. /\ MessagesOK' /\ AcksOK' /\ FailsOnlyInAckWindow'
      /\ \A i : SlotOf(i)' = SlotOf(i)
      /\ \A c \in Clients : (Sent(c)' <=> Sent(c)) /\ (Open(c)' <=> Open(c))
      /\ \A c \in Clients : asked'[c] = done'[c] + (IF Open(c)' THEN 1 ELSE 0)
  BY <1>1, RequestsFrame DEF ProxyInv
<1>3. CallerOK'
  BY <1>2 DEF ProxyInv, CallerOK
<1>4. ClientsOK'
  <2>1. \A v \in VCpus :
         vcpu'[v] = "waiting" <=> Open(v)' \/ (pc'[Main] = "start" /\ job'[Main] = v)
    BY <1>2 DEF ProxyInv, ClientsOK, Clients
  <2>2. Main \in Natives =>
       /\ Sent(Main)' => Handing' \/ (pc'[Main] = "enqueue" /\ job'[Main] = Main)
       /\ sem'[Main] = IF Handing' /\ ~Sent(Main)' THEN 1 ELSE 0
    <3> HAVE Main \in Natives
    <3>1. (Sent(Main)' <=> Sent(Main)) /\ (Handing' <=> Handing)
      BY <1>2 DEF Clients, Handing
    <3> QED
      BY <3>1 DEF ProxyInv, ClientsOK
  <2> QED
    BY <1>2, <2>1, <2>2 DEF ClientsOK
<1> QED
  BY <1>2, <1>3, <1>4 DEF ProxyInv

\* The device VM.
LEMMA DeviceKeeps ==
  ASSUME OneCaller, ProxyInv, failed = None, DeviceStep
  PROVE  ProxyInv'
<1> USE DEF ProxyInv
<1>1. /\ UNCHANGED <<pc, job, slot, tmp, tls, freeSlot, asked, buf, ioacks, sem, done, failed>>
      /\ UNCHANGED <<vcpu, npc, resp, lent>>
  BY DEF DeviceStep, DeviceWake, DeviceTake, DeviceReply, DeviceBell, reqVars, ntfnVars
<1>2. TypeOK'
  <2>1. /\ reqQ' \in Seq(Ids) /\ respQ' \in Seq(Ids) /\ held' \subseteq Ids
        /\ {bellOut, draining, owed, bellIn}' \subseteq BOOLEAN
    <3>1. CASE DeviceWake
      BY <3>1 DEF TypeOK, DeviceWake
    <3>2. CASE DeviceTake
      <4>1. CASE reqQ = <<>>
        BY <3>2, <4>1 DEF TypeOK, DeviceTake
      <4>2. CASE reqQ # <<>>
        <5>1. Head(reqQ) \in Ids /\ Tail(reqQ) \in Seq(Ids)
          BY <4>2, TailElems DEF TypeOK
        <5> QED
          BY <3>2, <4>2, <5>1 DEF TypeOK, DeviceTake
      <4> QED
        BY <4>1, <4>2
    <3>3. CASE DeviceReply
      <4>1. PICK i \in held : held' = held \ {i} /\ respQ' = Append(respQ, i)
        BY <3>3 DEF DeviceReply
      <4>2. Append(respQ, i) \in Seq(Ids)
        BY <4>1, AppendElems DEF TypeOK
      <4> QED
        BY <3>3, <4>1, <4>2 DEF TypeOK, DeviceReply
    <3>4. CASE DeviceBell
      BY <3>4 DEF TypeOK, DeviceBell
    <3> QED
      BY <3>1, <3>2, <3>3, <3>4 DEF DeviceStep
  <2> QED
    BY <1>1, <2>1 DEF TypeOK
<1>3. PlacesOK' /\ InFlight' = InFlight
  <2>1. CASE DeviceWake \/ DeviceBell
    <3>1. UNCHANGED <<reqQ, respQ, held, lent>>
      BY <2>1 DEF DeviceWake, DeviceBell
    <3>2. NewIds' = NewIds /\ AckIds' = AckIds /\ DoneIds' = DoneIds
      BY <1>1 DEF NewIds, AckIds, DoneIds
    <3>3. pc'[Main] = "mark" => tmp'[Main] \in Ids \ lent
      BY <1>1 DEF PlacesOK
    <3> QED
      BY <3>1, <3>2, <3>3, PlacesFrame
  <2>2. CASE DeviceTake
    BY <2>2, PlacesTake
  <2>3. CASE DeviceReply
    BY <2>3, PlacesReply
  <2> QED
    BY <2>1, <2>2, <2>3 DEF DeviceStep
<1>4. \A c \in Clients : Clearing(c)' <=> Clearing(c)
  BY <1>1 DEF Clearing
<1>5. npc' = "ack" => resp'.slot = BIT_FIELD_GET(buf[resp'.id].mr0, SLOT)
  BY <1>1 DEF MessagesOK, SlotOf
<1> QED
  BY <1>1, <1>2, <1>3, <1>4, <1>5, QuietStep

\* A guest access.
LEMMA FaultKeeps ==
  ASSUME OneCaller, ProxyInv, failed = None, NEW v \in VCpus, GuestFault(v)
  PROVE  ProxyInv'
<1> USE DEF ProxyInv
<1>1. /\ UNCHANGED <<pc, job, slot, tmp, tls, freeSlot, asked, buf, ioacks, sem, done, failed>>
      /\ UNCHANGED <<npc, resp, lent, reqQ, respQ, held, bellOut, bellIn, draining, owed>>
      /\ vcpu[v] = "running" /\ vcpu' = [vcpu EXCEPT ![v] = "faulted"]
  BY DEF GuestFault, ntfnVars, devVars
<1>2. TypeOK'
  BY <1>1 DEF TypeOK
<1>3. PlacesOK' /\ InFlight' = InFlight
  <2>1. NewIds' = NewIds /\ AckIds' = AckIds /\ DoneIds' = DoneIds
    BY <1>1 DEF NewIds, AckIds, DoneIds
  <2>2. pc'[Main] = "mark" => tmp'[Main] \in Ids \ lent
    BY <1>1 DEF PlacesOK
  <2> QED
    BY <1>1, <2>1, <2>2, PlacesFrame
<1>4. \A c \in Clients : Clearing(c)' <=> Clearing(c)
  BY <1>1 DEF Clearing
<1>5. npc' = "ack" => resp'.slot = BIT_FIELD_GET(buf[resp'.id].mr0, SLOT)
  BY <1>1 DEF MessagesOK, SlotOf
<1>6. \A w \in VCpus : vcpu'[w] = "waiting" <=> vcpu[w] = "waiting"
  BY <1>1 DEF TypeOK
<1> QED
  BY <1>1, <1>2, <1>3, <1>4, <1>5, <1>6, QuietStep

\* rpc_run outside ioreq_finish: the message received names the slot of the
\* client that sent it.
LEMMA RecvKeeps ==
  ASSUME OneCaller, ProxyInv, failed = None, NtfnWake \/ NtfnRecv \/ NtfnReclaim
  PROVE  ProxyInv'
<1> USE DEF ProxyInv
<1>1. /\ UNCHANGED <<pc, job, slot, tmp, tls, freeSlot, asked, buf, ioacks, sem, done, failed>>
      /\ UNCHANGED <<vcpu, reqQ, held, bellOut, draining, owed>>
  BY DEF NtfnWake, NtfnRecv, NtfnReclaim, reqVars, devVars
<1>2. npc' = "ack" => resp'.slot = BIT_FIELD_GET(buf[resp'.id].mr0, SLOT)
  <2>1. CASE NtfnWake \/ NtfnReclaim
    BY <2>1 DEF NtfnWake, NtfnReclaim
  <2>2. CASE NtfnRecv
    BY <2>2 DEF NtfnRecv, handle_mmio
  <2> QED
    BY <2>1, <2>2
<1>3. \A c \in Clients : Clearing(c)' <=> Clearing(c)
  BY DEF Clearing, NtfnWake, NtfnRecv, NtfnReclaim
<1>4. PlacesOK' /\ InFlight' = InFlight
  <2>1. CASE NtfnWake
    <3>1. UNCHANGED <<reqQ, respQ, held, lent>>
      BY <2>1 DEF NtfnWake, devVars
    <3>2. NewIds' = NewIds /\ AckIds' = AckIds /\ DoneIds' = DoneIds
      BY <1>1, <2>1 DEF NewIds, AckIds, DoneIds, NtfnWake
    <3>3. pc'[Main] = "mark" => tmp'[Main] \in Ids \ lent
      BY <1>1 DEF PlacesOK
    <3> QED
      BY <3>1, <3>2, <3>3, PlacesFrame
  <2>2. CASE NtfnRecv
    BY <2>2, PlacesRecv
  <2>3. CASE NtfnReclaim
    BY <2>3, PlacesReclaim
  <2> QED
    BY <2>1, <2>2, <2>3
<1>5. TypeOK'
  <2>1. /\ npc' \in {"wait", "recv", "ack", "clear", "reclaim"} /\ lent' \subseteq Ids
        /\ respQ' \in Seq(Ids) /\ bellIn' \in BOOLEAN
        /\ resp' \in [id : Ids, slot : Slots]
    <3>1. CASE NtfnWake
      BY <3>1 DEF TypeOK, NtfnWake
    <3>2. CASE NtfnReclaim
      <4>1. NoResp \in [id : Ids, slot : Slots]
        BY ClientSlots, IoProxyAssumption DEF NoResp, Ids
      <4> QED
        BY <3>2, <4>1 DEF TypeOK, NtfnReclaim
    <3>3. CASE NtfnRecv /\ respQ = <<>>
      BY <3>3 DEF TypeOK, NtfnRecv
    <3>4. CASE NtfnRecv /\ respQ # <<>>
      <4>1. Head(respQ) \in Ids /\ Tail(respQ) \in Seq(Ids)
        BY <3>4, TailElems DEF TypeOK
      <4>2. Head(respQ) \in InFlight
        BY <3>4, TailElems, Places DEF TypeOK, RespIds
      <4>3. SlotOf(Head(respQ)) \in Slots
        BY <4>2, Owner, ClientSlots
      <4>4. handle_mmio(Head(respQ)) \in [id : Ids, slot : Slots]
        BY <4>1, <4>3 DEF handle_mmio, SlotOf
      <4> QED
        BY <3>4, <4>1, <4>4 DEF TypeOK, NtfnRecv
    <3> QED
      BY <3>1, <3>2, <3>3, <3>4
  <2> QED
    BY <1>1, <2>1 DEF TypeOK
<1> QED
  BY <1>1, <1>2, <1>3, <1>4, <1>5, QuietStep

---------------------------------------------------------------------------
(* The main thread *)

\* Steps of the main thread that neither start nor end a request.
LEMMA CallerFrame ==
  ASSUME OneCaller, ProxyInv, failed = None, TypeOK',
         PlacesOK', InFlight' = InFlight, UNCHANGED <<buf, asked, ioacks, done, npc, resp, failed>>,
         \A c \in Clients : Preparing(c)' <=> Preparing(c),
         CallerOK',
         \A v \in VCpus : vcpu'[v] = "waiting" <=>
           Open(v) \/ (pc'[Main] = "start" /\ job'[Main] = v),
         Main \in Natives =>
           /\ Sent(Main) => Handing' \/ (pc'[Main] = "enqueue" /\ job'[Main] = Main)
           /\ sem'[Main] = IF Handing' /\ ~Sent(Main) THEN 1 ELSE 0
  PROVE  ProxyInv'
<1> USE DEF ProxyInv
<1>1. \A c \in Clients : Clearing(c)' <=> Clearing(c)
  BY DEF Clearing
<1>2. npc' = "ack" => resp'.slot = BIT_FIELD_GET(buf[resp'.id].mr0, SLOT)
  BY DEF MessagesOK, SlotOf
<1>3. /\ MessagesOK' /\ AcksOK' /\ FailsOnlyInAckWindow'
      /\ \A c \in Clients : (Sent(c)' <=> Sent(c)) /\ (Open(c)' <=> Open(c))
      /\ \A c \in Clients : asked'[c] = done'[c] + (IF Open(c)' THEN 1 ELSE 0)
  BY <1>1, <1>2, RequestsFrame
<1>4. \A v \in VCpus :
         vcpu'[v] = "waiting" <=> Open(v)' \/ (pc'[Main] = "start" /\ job'[Main] = v)
  BY <1>3, ClientSlots
<1>5. Main \in Natives =>
       /\ Sent(Main)' => Handing' \/ (pc'[Main] = "enqueue" /\ job'[Main] = Main)
       /\ sem'[Main] = IF Handing' /\ ~Sent(Main)' THEN 1 ELSE 0
  <2> HAVE Main \in Natives
  <2>1. Sent(Main)' <=> Sent(Main)
    BY <1>3, ClientSlots
  <2> QED
    BY <2>1
<1>6. ClientsOK'
  BY <1>3, <1>4, <1>5 DEF ClientsOK
<1> QED
  BY <1>3, <1>6

\* Inside CallerFrame: the same Sent and SlotOf before and after.
LEMMA SentFrame ==
  ASSUME InFlight' = InFlight, buf' = buf
  PROVE  (\A i : SlotOf(i)' = SlotOf(i)) /\ (\A c : Sent(c)' <=> Sent(c))
BY DEF Sent, SlotOf

\* mmio_fault_handler: the faulting vCPU has no request under way.
LEMMA MmioFaultKeeps ==
  ASSUME OneCaller, ProxyInv, failed = None, NEW v \in VCpus, MmioFault(v)
  PROVE  ProxyInv'
<1> USE DEF ProxyInv
<1>1. /\ UNCHANGED <<tmp, tls, freeSlot, asked, buf, ioacks, sem, done, failed>>
      /\ UNCHANGED <<npc, resp, lent, reqQ, respQ, held, bellOut, bellIn, draining, owed>>
      /\ vcpu[v] = "faulted" /\ vcpu' = [vcpu EXCEPT ![v] = "waiting"]
      /\ pc[Main] = "idle" /\ pc' = [pc EXCEPT ![Main] = "start"]
      /\ job' = [job EXCEPT ![Main] = v] /\ slot' = [slot EXCEPT ![Main] = v]
  BY DEF MmioFault, ntfnVars, devVars
<1>2. Callers = {Main} /\ v \in Clients /\ v \in Slots /\ ClientSlot(v) = v
  BY ClientSlots DEF ClientSlot
<1>3. /\ pc'[Main] = "start" /\ job'[Main] = v /\ slot'[Main] = v /\ tmp'[Main] = tmp[Main]
      /\ vcpu'[v] = "waiting" /\ \A w \in VCpus : w # v => vcpu'[w] = vcpu[w]
  BY <1>1, <1>2 DEF TypeOK
<1>4. TypeOK'
  BY <1>1, <1>2 DEF TypeOK
<1>5. PlacesOK' /\ InFlight' = InFlight
  <2>1. NewIds' = NewIds /\ AckIds' = AckIds /\ DoneIds' = DoneIds
    BY <1>1, <1>3, Places DEF AckIds, DoneIds
  <2> QED
    BY <1>1, <1>3, <2>1, PlacesFrame
<1>6. ~Open(v) /\ ~Sent(v)
  BY <1>1 DEF ClientsOK, Open
<1>7. \A c \in Clients : Preparing(c)' <=> Preparing(c)
  BY <1>1, <1>3 DEF Preparing
<1>8. CallerOK'
  <2>1. ~Sent(v)'
    BY <1>1, <1>5, <1>6, SentFrame
  <2> QED
    BY <1>1, <1>2, <1>3, <2>1 DEF CallerOK
<1>9. \A w \in VCpus : vcpu'[w] = "waiting" <=>
           Open(w) \/ (pc'[Main] = "start" /\ job'[Main] = w)
  BY <1>1, <1>3 DEF ClientsOK
<1>10. Main \in Natives =>
           /\ Sent(Main) => Handing' \/ (pc'[Main] = "enqueue" /\ job'[Main] = Main)
           /\ sem'[Main] = IF Handing' /\ ~Sent(Main) THEN 1 ELSE 0
  <2> HAVE Main \in Natives
  <2>1. ~Handing /\ ~Handing'
    BY <1>1, <1>3 DEF Handing
  <2> QED
    BY <1>1, <2>1 DEF ClientsOK
<1> QED
  BY <1>1, <1>4, <1>5, <1>7, <1>8, <1>9, <1>10, CallerFrame

\* ioreq_native_slot: the main thread has no request under way, and the slot
\* it gets is the first native one.
LEMMA NativeSlotKeeps ==
  ASSUME OneCaller, ProxyInv, failed = None, NativeSlot(Main)
  PROVE  ProxyInv'
<1> USE DEF ProxyInv
<1>1. /\ UNCHANGED <<vcpu, tls, freeSlot, asked, buf, ioacks, sem, done, failed>>
      /\ UNCHANGED <<npc, resp, lent, reqQ, respQ, held, bellOut, bellIn, draining, owed>>
      /\ Main \in Natives /\ pc[Main] = "idle"
  BY DEF NativeSlot, ntfnVars, devVars
<1>2. /\ Callers = {Main} /\ Main \in Clients /\ Main \notin VCpus /\ ClientSlot(Main) = NativeBase
      /\ NativeBase \in Slots /\ NativeBase < NumSlots /\ NativeBase \in Nat /\ NumSlots \in Nat
  BY <1>1, ClientSlots, IoProxyAssumption DEF ClientSlot
<1>3. tls[Main] \in {0, NativeBase} /\ (tls[Main] = 0 => freeSlot = NativeBase)
  BY <1>1 DEF CallerOK
<1>4. /\ job' = [job EXCEPT ![Main] = Main]
      /\ \/ /\ tls[Main] # 0 /\ pc' = [pc EXCEPT ![Main] = "start"]
            /\ slot' = [slot EXCEPT ![Main] = NativeBase] /\ tmp' = tmp
         \/ /\ tls[Main] = 0 /\ pc' = [pc EXCEPT ![Main] = "bump"]
            /\ tmp' = [tmp EXCEPT ![Main] = NativeBase] /\ slot' = slot
  BY <1>2, <1>3 DEF NativeSlot
<1>5. /\ job'[Main] = Main /\ pc'[Main] \in {"start", "bump"}
      /\ pc'[Main] = "start" => tls[Main] # 0 /\ slot'[Main] = NativeBase
      /\ pc'[Main] = "bump" => tls[Main] = 0 /\ tmp'[Main] = NativeBase
  BY <1>2, <1>4 DEF TypeOK
<1>6. TypeOK'
  BY <1>1, <1>2, <1>4 DEF TypeOK
<1>7. PlacesOK' /\ InFlight' = InFlight
  <2>1. NewIds' = NewIds /\ AckIds' = AckIds /\ DoneIds' = DoneIds
    BY <1>1, <1>5, Places DEF AckIds, DoneIds
  <2> QED
    BY <1>1, <1>5, <2>1, PlacesFrame
<1>8. ~Handing /\ ~Handing' /\ ~Sent(Main)
  BY <1>1, <1>5 DEF Handing, ClientsOK
<1>9. \A c \in Clients : Preparing(c)' <=> Preparing(c)
  BY <1>1, <1>5 DEF Preparing
<1>10. CallerOK'
  <2>1. ~Sent(Main)'
    BY <1>1, <1>7, <1>8, SentFrame
  <2> QED
    BY <1>1, <1>2, <1>5, <2>1 DEF CallerOK
<1>11. \A w \in VCpus : vcpu'[w] = "waiting" <=>
           Open(w) \/ (pc'[Main] = "start" /\ job'[Main] = w)
  BY <1>1, <1>2, <1>5 DEF ClientsOK
<1>12. sem'[Main] = 0
  BY <1>1, <1>8 DEF ClientsOK
<1> QED
  BY <1>1, <1>6, <1>7, <1>8, <1>9, <1>10, <1>11, <1>12, CallerFrame

\* ioreq_native_slot stores free_native_slot back.
LEMMA NativeBumpKeeps ==
  ASSUME OneCaller, ProxyInv, failed = None, NativeBump(Main)
  PROVE  ProxyInv'
<1> USE DEF ProxyInv
<1>1. /\ UNCHANGED <<vcpu, job, asked, buf, ioacks, sem, done, failed>>
      /\ UNCHANGED <<npc, resp, lent, reqQ, respQ, held, bellOut, bellIn, draining, owed>>
      /\ Main \in Natives /\ pc[Main] = "bump"
  BY DEF NativeBump, ntfnVars, devVars
<1>2. /\ Callers = {Main} /\ Main \in Clients /\ Main \notin VCpus /\ ClientSlot(Main) = NativeBase
      /\ NativeBase \in Slots /\ NativeBase < NumSlots /\ NativeBase \in Nat \ {0}
      /\ NumSlots \in Nat /\ 0 \in Slots
  BY <1>1, ClientSlots, IoProxyAssumption DEF ClientSlot
<1>3. job[Main] = Main /\ tmp[Main] = NativeBase /\ tls[Main] = 0
  BY <1>1 DEF CallerOK
<1>4. /\ tls' = [tls EXCEPT ![Main] = NativeBase] /\ slot' = [slot EXCEPT ![Main] = NativeBase]
      /\ freeSlot' = NativeBase + 1 /\ tmp' = [tmp EXCEPT ![Main] = 0]
      /\ pc' = [pc EXCEPT ![Main] = "start"]
  BY <1>3 DEF NativeBump
<1>5. /\ pc'[Main] = "start" /\ slot'[Main] = NativeBase /\ tls'[Main] = NativeBase
      /\ job'[Main] = Main
  BY <1>1, <1>2, <1>3, <1>4 DEF TypeOK
<1>6. TypeOK'
  BY <1>1, <1>2, <1>4 DEF TypeOK
<1>7. PlacesOK' /\ InFlight' = InFlight
  <2>1. NewIds' = NewIds /\ AckIds' = AckIds /\ DoneIds' = DoneIds
    BY <1>1, <1>5, Places DEF AckIds, DoneIds
  <2> QED
    BY <1>1, <1>5, <2>1, PlacesFrame
<1>8. ~Handing /\ ~Handing' /\ ~Sent(Main)
  BY <1>1, <1>5 DEF Handing, ClientsOK
<1>9. \A c \in Clients : Preparing(c)' <=> Preparing(c)
  BY <1>1, <1>5 DEF Preparing
<1>10. CallerOK'
  <2>1. ~Sent(Main)'
    BY <1>1, <1>7, <1>8, SentFrame
  <2> QED
    BY <1>1, <1>2, <1>4, <1>5, <2>1 DEF CallerOK
<1>11. \A w \in VCpus : vcpu'[w] = "waiting" <=>
           Open(w) \/ (pc'[Main] = "start" /\ job'[Main] = w)
  BY <1>1, <1>2, <1>5 DEF ClientsOK
<1>12. sem'[Main] = 0
  BY <1>1, <1>8 DEF ClientsOK
<1> QED
  BY <1>1, <1>6, <1>7, <1>8, <1>9, <1>10, <1>11, <1>12, CallerFrame

\* The clients are finitely many.
LEMMA ClientsFinite ==
  ASSUME OneCaller
  PROVE  IsFiniteSet(Clients) /\ Cardinality(Clients) \in Nat
<1>1. IsFiniteSet(0 .. NativeBase - 1)
  <2>1. 0 \in Int /\ NativeBase - 1 \in Int
    BY IoProxyAssumption
  <2> QED
    BY <2>1, FS_Interval
<1>2. IsFiniteSet(VCpus)
  BY <1>1, FS_Subset, IoProxyAssumption
<1>3. IsFiniteSet(Natives)
  <2>1. IsFiniteSet({Main})
    BY FS_Singleton
  <2> QED
    BY <2>1, FS_Subset DEF OneCaller
<1>4. IsFiniteSet(Clients)
  BY <1>2, <1>3, FS_Union DEF Clients
<1> QED
  BY <1>4, FS_CardinalityType

\* find_first_zero_bit finds a bit: every other client has at most one message
\* in flight, and rpc_run one that it has not reclaimed.
LEMMA FreeBuffer ==
  ASSUME OneCaller, EnoughBuffers, TypeOK, PlacesOK, MessagesOK,
         NEW c \in Clients, ~Sent(c)
  PROVE  FreeIds # {} /\ Min(FreeIds) \in Ids \ lent
<1> DEFINE K == Cardinality(Clients)
           Others == Clients \ {c}
           f == [i \in InFlight |-> CHOOSE e \in Clients : SlotOf(i) = ClientSlot(e)]
<1>1. IsFiniteSet(Clients) /\ K \in Nat /\ BufferSize \in Nat /\ K < BufferSize
  BY ClientsFinite, IoProxyAssumption DEF EnoughBuffers
<1>2. IsFiniteSet(Others) /\ Cardinality(Others) = K - 1
  BY <1>1, FS_RemoveElement
<1>3. \A i \in InFlight : f[i] \in Clients /\ SlotOf(i) = ClientSlot(f[i])
  BY Owner
<1>4. \A i \in InFlight : f[i] # c
  BY <1>3 DEF Sent
<1>5. \A i, j \in InFlight : f[i] = f[j] => i = j
  <2> SUFFICES ASSUME NEW i \in InFlight, NEW j \in InFlight, f[i] = f[j] PROVE i = j
    OBVIOUS
  <2> HIDE DEF f
  <2>1. SlotOf(i) = SlotOf(j)
    BY <1>3
  <2> QED
    BY <2>1 DEF MessagesOK
<1>6. f \in Injection(InFlight, Others)
  <2>1. f \in [InFlight -> Others]
    BY <1>3, <1>4
  <2> QED
    BY <2>1, <1>5 DEF Injection, IsInjective
<1> HIDE DEF f, Others, K
<1>7. IsFiniteSet(InFlight) /\ Cardinality(InFlight) <= K - 1
  BY <1>2, <1>6, FS_Injection DEF ExistsInjection
<1>8. IsFiniteSet(DoneIds) /\ Cardinality(DoneIds) <= 1
  <2>1. DoneIds = {} \/ DoneIds = {resp.id}
    BY DEF DoneIds
  <2>2. IsFiniteSet({}) /\ Cardinality({}) = 0
    BY FS_EmptySet
  <2>3. IsFiniteSet({resp.id}) /\ Cardinality({resp.id}) = 1
    BY FS_Singleton
  <2> QED
    BY <2>1, <2>2, <2>3
<1>9. IsFiniteSet(lent) /\ Cardinality(lent) <= K
  <2>1. lent = InFlight \cup DoneIds
    BY DEF PlacesOK
  <2>2. /\ IsFiniteSet(lent)
        /\ Cardinality(lent) = Cardinality(InFlight) + Cardinality(DoneIds)
                                 - Cardinality(InFlight \cap DoneIds)
    BY <2>1, <1>7, <1>8, FS_Union
  <2>3. IsFiniteSet(InFlight \cap DoneIds)
    BY <1>7, FS_Intersection
  <2>4. /\ Cardinality(InFlight \cap DoneIds) \in Nat /\ Cardinality(InFlight) \in Nat
        /\ Cardinality(DoneIds) \in Nat
    BY <1>7, <1>8, <2>3, FS_CardinalityType
  <2> QED
    BY <1>1, <1>7, <1>8, <2>2, <2>4
<1>10. Cardinality(Ids) = BufferSize
  <2>1. 0 \in Int /\ BufferSize - 1 \in Int
    BY <1>1
  <2> QED
    BY <1>1, <2>1, FS_Interval, IoProxyAssumption DEF Ids
<1>11. FreeIds # {}
  <2> SUFFICES ASSUME FreeIds = {} PROVE FALSE
    OBVIOUS
  <2>1. lent = Ids
    BY DEF FreeIds, TypeOK
  <2> QED
    BY <2>1, <1>1, <1>9, <1>10
<1>12. FreeIds \in SUBSET Nat
  BY IoProxyAssumption DEF FreeIds, Ids
<1>13. Min(FreeIds) \in FreeIds
  BY <1>11, <1>12, MinIn
<1> QED
  BY <1>11, <1>13 DEF FreeIds

\* rpcmsg_lend_buffer finds a free id.
LEMMA LendFindKeeps ==
  ASSUME OneCaller, EnoughBuffers, ProxyInv, failed = None, LendFind(Main)
  PROVE  ProxyInv'
<1> USE DEF ProxyInv
<1>1. /\ UNCHANGED <<vcpu, job, slot, tls, freeSlot, asked, buf, ioacks, sem, done>>
      /\ UNCHANGED <<npc, resp, lent, reqQ, respQ, held, bellOut, bellIn, draining, owed>>
      /\ pc[Main] = "lend"
  BY DEF LendFind, ntfnVars, devVars
<1>2. Callers = {Main} /\ job[Main] \in Clients /\ ~Sent(job[Main])
  BY <1>1, ClientSlots DEF CallerOK
<1>3. FreeIds # {} /\ Min(FreeIds) \in Ids \ lent
  BY <1>2, FreeBuffer
<1>4. /\ tmp' = [tmp EXCEPT ![Main] = Min(FreeIds)] /\ pc' = [pc EXCEPT ![Main] = "mark"]
      /\ failed' = failed
  BY <1>3 DEF LendFind
<1>5. pc'[Main] = "mark" /\ tmp'[Main] \in Ids \ lent
  BY <1>2, <1>3, <1>4 DEF TypeOK
<1>6. TypeOK'
  BY <1>1, <1>3, <1>4 DEF TypeOK
<1>7. PlacesOK' /\ InFlight' = InFlight
  <2>1. NewIds' = NewIds /\ AckIds' = AckIds /\ DoneIds' = DoneIds
    BY <1>1, <1>5, Places DEF AckIds, DoneIds
  <2> QED
    BY <1>1, <1>5, <2>1, PlacesFrame
<1>8. ~Handing /\ ~Handing'
  BY <1>1, <1>5 DEF Handing
<1>9. \A c \in Clients : Preparing(c)' <=> Preparing(c)
  BY <1>1, <1>5 DEF Preparing
<1>10. CallerOK'
  <2>1. ~Sent(job[Main])'
    BY <1>1, <1>2, <1>7, SentFrame
  <2> QED
    BY <1>1, <1>2, <1>5, <2>1 DEF CallerOK
<1>11. \A w \in VCpus : vcpu'[w] = "waiting" <=>
           Open(w) \/ (pc'[Main] = "start" /\ job'[Main] = w)
  BY <1>1, <1>5 DEF ClientsOK
<1>12. Main \in Natives => sem'[Main] = 0 /\ ~Sent(Main)
  BY <1>1, <1>8 DEF ClientsOK
<1> QED
  BY <1>1, <1>4, <1>6, <1>7, <1>8, <1>9, <1>10, <1>11, <1>12, CallerFrame

\* rpcmsg_enqueue on the request queue.
LEMMA EnqueueKeeps ==
  ASSUME OneCaller, ProxyInv, failed = None, Enqueue(Main)
  PROVE  ProxyInv'
<1> USE DEF ProxyInv
<1>1. Len(reqQ) < BufferSize /\ PlacesOK' /\ InFlight' = InFlight
  BY PlacesEnqueue
<1>2. /\ UNCHANGED <<vcpu, job, slot, tmp, tls, freeSlot, asked, buf, ioacks, sem, done, failed>>
      /\ UNCHANGED <<npc, resp, lent, respQ, held, bellOut, bellIn, draining, owed>>
      /\ pc[Main] = "enqueue" /\ pc' = [pc EXCEPT ![Main] = "bell"]
      /\ reqQ' = Append(reqQ, tmp[Main])
  BY <1>1 DEF Enqueue, ntfnVars, devVars
<1>3. /\ Callers = {Main} /\ job[Main] \in Clients /\ slot[Main] = ClientSlot(job[Main])
      /\ SlotOf(tmp[Main]) = slot[Main]
  BY <1>2, ClientSlots DEF CallerOK
<1>4. tmp[Main] \in InFlight /\ tmp[Main] \in Ids
  BY <1>2, Places DEF PlacesOK, TypeOK
<1>5. pc'[Main] = "bell"
  BY <1>2, <1>3 DEF TypeOK
<1>6. TypeOK'
  <2>1. reqQ' \in Seq(Ids)
    BY <1>2, <1>4, AppendElems DEF TypeOK
  <2> QED
    BY <1>2, <2>1 DEF TypeOK
<1>7. Sent(job[Main])
  BY <1>3, <1>4 DEF Sent
<1>8. \A c \in Clients : Preparing(c)' <=> Preparing(c)
  BY <1>2, <1>5 DEF Preparing
<1>9. CallerOK'
  BY <1>2, <1>3, <1>5 DEF CallerOK
<1>10. \A w \in VCpus : vcpu'[w] = "waiting" <=>
           Open(w) \/ (pc'[Main] = "start" /\ job'[Main] = w)
  BY <1>2, <1>5 DEF ClientsOK
<1>11. Main \in Natives =>
           /\ Sent(Main) => Handing'
           /\ sem'[Main] = IF Handing' /\ ~Sent(Main) THEN 1 ELSE 0
  <2> HAVE Main \in Natives
  <2>1. ~Handing /\ (Handing' <=> job[Main] = Main)
    BY <1>2, <1>5 DEF Handing
  <2>2. (Sent(Main) => job[Main] = Main) /\ sem[Main] = 0
    BY <1>2, <2>1 DEF ClientsOK
  <2> QED
    BY <1>2, <1>7, <2>1, <2>2
<1> QED
  BY <1>1, <1>2, <1>6, <1>8, <1>9, <1>10, <1>11, CallerFrame

\* vso_doorbell and the return to vm_run or to ioreq_native_wait.
LEMMA DoorbellKeeps ==
  ASSUME OneCaller, ProxyInv, failed = None, Doorbell(Main)
  PROVE  ProxyInv'
<1> USE DEF ProxyInv
<1>1. /\ UNCHANGED <<vcpu, tls, freeSlot, asked, buf, ioacks, sem, done, failed>>
      /\ UNCHANGED <<npc, resp, lent, reqQ, respQ, held, bellIn, draining, owed>>
      /\ pc[Main] = "bell" /\ bellOut' = TRUE
      /\ pc' = [pc EXCEPT ![Main] = IF job[Main] \in VCpus THEN "idle" ELSE "handoff"]
      /\ job' = [job EXCEPT ![Main] = None]
      /\ slot' = [slot EXCEPT ![Main] = 0] /\ tmp' = [tmp EXCEPT ![Main] = 0]
  BY DEF Doorbell, EndOfStart, ntfnVars, devVars
<1>2. /\ Callers = {Main} /\ job[Main] \in Clients /\ 0 \in Slots /\ None \notin Clients
      /\ job[Main] \in VCpus \/ (job[Main] = Main /\ Main \in Natives)
      /\ Main \in Natives => Main \notin VCpus
  BY <1>1, ClientSlots DEF CallerOK
<1>3. /\ pc'[Main] \in {"idle", "handoff"} /\ job'[Main] = None
      /\ pc'[Main] = "handoff" <=> (Main \in Natives /\ job[Main] = Main)
  BY <1>1, <1>2 DEF TypeOK
<1>4. TypeOK'
  BY <1>1, <1>2 DEF TypeOK
<1>5. PlacesOK' /\ InFlight' = InFlight
  <2>1. NewIds' = NewIds /\ AckIds' = AckIds /\ DoneIds' = DoneIds
    BY <1>1, <1>3, Places DEF AckIds, DoneIds
  <2> QED
    BY <1>1, <1>3, <2>1, PlacesFrame
<1>6. \A c \in Clients : Preparing(c)' <=> Preparing(c)
  BY <1>1, <1>3 DEF Preparing
<1>7. CallerOK'
  BY <1>1, <1>3 DEF CallerOK
<1>8. \A w \in VCpus : vcpu'[w] = "waiting" <=>
           Open(w) \/ (pc'[Main] = "start" /\ job'[Main] = w)
  BY <1>1, <1>3 DEF ClientsOK
<1>9. Main \in Natives =>
           /\ Sent(Main) => Handing'
           /\ sem'[Main] = IF Handing' /\ ~Sent(Main) THEN 1 ELSE 0
  <2> HAVE Main \in Natives
  <2>1. Handing' <=> Handing
    BY <1>1, <1>3 DEF Handing
  <2> QED
    BY <1>1, <2>1 DEF ClientsOK
<1> QED
  BY <1>1, <1>4, <1>5, <1>6, <1>7, <1>8, <1>9, CallerFrame

\* ioreq_native_wait returns when its own request has been answered.
LEMMA NativeWaitKeeps ==
  ASSUME OneCaller, ProxyInv, failed = None, NativeWait(Main)
  PROVE  ProxyInv'
<1> USE DEF ProxyInv
<1>1. /\ UNCHANGED <<vcpu, job, slot, tmp, tls, freeSlot, asked, buf, ioacks, done, failed>>
      /\ UNCHANGED <<npc, resp, lent, reqQ, respQ, held, bellOut, bellIn, draining, owed>>
      /\ Main \in Natives /\ pc[Main] = "handoff" /\ sem[Main] > 0
      /\ sem' = [sem EXCEPT ![Main] = @ - 1] /\ pc' = [pc EXCEPT ![Main] = "idle"]
  BY DEF NativeWait, ntfnVars, devVars
<1>2. Callers = {Main}
  BY ClientSlots
<1>3. sem[Main] = 1 /\ ~Sent(Main)
  BY <1>1 DEF ClientsOK
<1>4. pc'[Main] = "idle" /\ sem'[Main] = 0
  BY <1>1, <1>2, <1>3 DEF TypeOK
<1>5. TypeOK'
  <2>1. sem' \in [Natives -> 0 .. 1] /\ sem'[Main] \in 0 .. 1
    BY <1>1, <1>3 DEF TypeOK
  <2>2. pc' \in [Callers -> {"idle", "bump", "start", "lend", "mark", "enqueue",
                           "bell", "handoff"}]
    BY <1>1 DEF TypeOK
  <2> QED
    BY <1>1, <2>1, <2>2 DEF TypeOK
<1>6. PlacesOK' /\ InFlight' = InFlight
  <2>1. NewIds' = NewIds /\ AckIds' = AckIds /\ DoneIds' = DoneIds
    BY <1>1, <1>4, Places DEF AckIds, DoneIds
  <2> QED
    BY <1>1, <1>4, <2>1, PlacesFrame
<1>7. \A c \in Clients : Preparing(c)' <=> Preparing(c)
  BY <1>1, <1>4 DEF Preparing
<1>8. CallerOK'
  BY <1>1, <1>4 DEF CallerOK
<1>9. \A w \in VCpus : vcpu'[w] = "waiting" <=>
           Open(w) \/ (pc'[Main] = "start" /\ job'[Main] = w)
  BY <1>1, <1>4 DEF ClientsOK
<1>10. ~Handing'
  BY <1>4 DEF Handing
<1> QED
  BY <1>1, <1>3, <1>4, <1>5, <1>6, <1>7, <1>8, <1>9, <1>10, CallerFrame

\* ioreq_start registers the callback: the slot is free unless the
\* notification thread is just clearing it, and the request is the client's
\* only one.
LEMMA IoreqStartKeeps ==
  ASSUME OneCaller, ProxyInv, failed = None, IoreqStart(Main)
  PROVE  ProxyInv'
<1> USE DEF ProxyInv
<1> PICK c : c = job[Main]
  OBVIOUS
<1>1. /\ UNCHANGED <<vcpu, job, slot, tmp, tls, freeSlot, buf, sem, done>>
      /\ UNCHANGED <<npc, resp, lent, reqQ, respQ, held, bellOut, bellIn, draining, owed>>
      /\ pc[Main] = "start"
  BY DEF IoreqStart, ntfnVars, devVars
<1>2. /\ Callers = {Main} /\ c \in Clients /\ slot[Main] = ClientSlot(c)
      /\ slot[Main] \in Slots /\ ~Sent(c) /\ c # None
      /\ \A e \in Clients : ClientSlot(e) = ClientSlot(c) => e = c
  BY <1>1, ClientSlots DEF CallerOK
<1>3. ~Open(c) /\ \A e \in Clients : ~Preparing(e)
  BY <1>1, <1>2 DEF Open, Preparing
<1>4. CASE ioacks[slot[Main]] # None
  <2>1. UNCHANGED <<ioacks, asked, pc>> /\ failed' = "callback still set"
    BY <1>4 DEF IoreqStart
  <2>2. PICK e \in Clients : slot[Main] = ClientSlot(e) /\ (Open(e) \/ Clearing(e))
    BY <1>2, <1>4 DEF AcksOK
  <2>3. e = c /\ Clearing(c)
    BY <1>2, <1>3, <2>2
  <2>4. FailsOnlyInAckWindow'
    BY <1>1, <1>2, <2>1, <2>3 DEF FailsOnlyInAckWindow, Clearing
  <2>5. TypeOK'
    BY <1>1, <2>1 DEF TypeOK
  <2>6. PlacesOK' /\ InFlight' = InFlight
    <3>1. NewIds' = NewIds /\ AckIds' = AckIds /\ DoneIds' = DoneIds
      BY <1>1, <2>1 DEF NewIds, AckIds, DoneIds
    <3> QED
      BY <1>1, <2>1, <3>1, PlacesFrame
  <2>7. (\A i : SlotOf(i)' = SlotOf(i)) /\ (\A e1 : Sent(e1)' <=> Sent(e1))
    BY <1>1, <2>6, SentFrame
  <2>8. /\ \A e1 : (Open(e1)' <=> Open(e1)) /\ (Clearing(e1)' <=> Clearing(e1))
        /\ Handing' <=> Handing
    BY <1>1, <2>1, <2>7 DEF Open, Clearing, Preparing, Handing
  <2>9. MessagesOK'
    BY <1>1, <2>1, <2>6, <2>7 DEF MessagesOK
  <2>10. CallerOK'
    BY <1>1, <2>1, <2>7 DEF CallerOK
  <2>11. AcksOK'
    BY <2>1, <2>8 DEF AcksOK
  <2>12. ClientsOK'
    BY <1>1, <2>1, <2>7, <2>8 DEF ClientsOK
  <2> QED
    BY <2>4, <2>5, <2>6, <2>9, <2>10, <2>11, <2>12
<1>5. CASE ioacks[slot[Main]] = None
  <2>1. /\ ioacks' = [ioacks EXCEPT ![slot[Main]] = c]
        /\ asked' = [asked EXCEPT ![c] = @ + 1]
        /\ pc' = [pc EXCEPT ![Main] = "lend"] /\ failed' = failed
    BY <1>5 DEF IoreqStart
  <2>2. /\ pc'[Main] = "lend" /\ ioacks'[slot[Main]] = c /\ asked'[c] = asked[c] + 1
        /\ \A s \in Slots : s # slot[Main] => ioacks'[s] = ioacks[s]
        /\ \A e \in Clients : e # c => asked'[e] = asked[e]
    BY <1>2, <2>1 DEF TypeOK
  <2>3. TypeOK'
    BY <1>1, <1>2, <2>1 DEF TypeOK
  <2>4. PlacesOK' /\ InFlight' = InFlight
    <3>1. NewIds' = NewIds /\ AckIds' = AckIds /\ DoneIds' = DoneIds
      BY <1>1, <2>2, Places DEF AckIds, DoneIds
    <3> QED
      BY <1>1, <2>2, <3>1, PlacesFrame
  <2>5. (\A i : SlotOf(i)' = SlotOf(i)) /\ (\A e : Sent(e)' <=> Sent(e))
    BY <1>1, <2>4, SentFrame
  <2>6. /\ Open(c)' /\ ~Sent(c)' /\ ~Clearing(c)
        /\ \A e \in Clients : e # c => (Open(e)' <=> Open(e))
        /\ \A e \in Clients : Clearing(e)' <=> Clearing(e)
    <3>1. Open(c)' /\ ~Sent(c)'
      BY <1>1, <1>2, <2>2, <2>5 DEF Open, Preparing
    <3>2. ~Clearing(c)
      BY <1>2, <1>5 DEF AcksOK
    <3>3. \A e \in Clients : e # c => (Open(e)' <=> Open(e))
      BY <1>1, <1>3, <2>5 DEF Open, Preparing
    <3>4. \A e \in Clients : Clearing(e)' <=> Clearing(e)
      BY <1>1 DEF Clearing
    <3> QED
      BY <3>1, <3>2, <3>3, <3>4
  <2>7. MessagesOK'
    <3>1. \A i \in InFlight' : \E e \in Clients : buf'[i] = Message(e, asked'[e])
      <4> SUFFICES ASSUME NEW i \in InFlight
                   PROVE  \E e \in Clients : buf[i] = Message(e, asked'[e])
        BY <1>1, <2>4
      <4>1. PICK e \in Clients : buf[i] = Message(e, asked[e]) /\ Sent(e)
        BY Owner
      <4>2. asked'[e] = asked[e]
        BY <1>2, <2>2, <4>1
      <4> QED
        BY <4>1, <4>2
    <3>2. \A i, j \in InFlight' : SlotOf(i)' = SlotOf(j)' => i = j
      BY <2>4, <2>5 DEF MessagesOK
    <3>3. npc' = "ack" => resp'.slot = SlotOf(resp.id)'
      BY <1>1, <2>5 DEF MessagesOK
    <3> QED
      BY <1>1, <3>1, <3>2, <3>3 DEF MessagesOK
  <2>8. CallerOK'
    BY <1>1, <1>2, <2>2, <2>6 DEF CallerOK
  <2>9. AcksOK'
    <3>1. \A s \in Slots : ioacks'[s] # None =>
            \E e \in Clients : s = ClientSlot(e) /\ (Open(e)' \/ Clearing(e)')
      <4> SUFFICES ASSUME NEW s \in Slots, ioacks'[s] # None
                   PROVE  \E e \in Clients : s = ClientSlot(e) /\ (Open(e)' \/ Clearing(e)')
        OBVIOUS
      <4>1. CASE s = slot[Main]
        BY <1>2, <2>6, <4>1
      <4>2. CASE s # slot[Main]
        <5>1. PICK e \in Clients : s = ClientSlot(e) /\ (Open(e) \/ Clearing(e))
          BY <2>2, <4>2 DEF AcksOK
        <5> QED
          BY <5>1, <1>2, <2>6, <4>2
      <4> QED
        BY <4>1, <4>2
    <3>2. \A e \in Clients : Open(e)' \/ Clearing(e)' => ioacks'[ClientSlot(e)] = e
      <4> SUFFICES ASSUME NEW e \in Clients, Open(e)' \/ Clearing(e)', e # c
                   PROVE  ioacks'[ClientSlot(e)] = e
        BY <1>2, <2>2
      <4>1. ioacks[ClientSlot(e)] = e
        BY <2>6 DEF AcksOK
      <4>2. ClientSlot(e) \in Slots /\ ClientSlot(e) # slot[Main]
        BY <1>2, ClientSlots
      <4> QED
        BY <2>2, <4>1, <4>2
    <3>3. \A e \in Clients : ~(Open(e)' /\ Clearing(e)')
      BY <2>6 DEF AcksOK
    <3> QED
      BY <3>1, <3>2, <3>3 DEF AcksOK
  <2>10. ClientsOK'
    <3>1. \A e \in Clients : asked'[e] = done'[e] + (IF Open(e)' THEN 1 ELSE 0)
      <4>1. asked'[c] = done'[c] + 1
        BY <1>1, <1>2, <1>3, <2>2 DEF ClientsOK, TypeOK
      <4>2. \A e \in Clients : e # c => asked'[e] = done'[e] + (IF Open(e)' THEN 1 ELSE 0)
        BY <1>1, <2>2, <2>6 DEF ClientsOK
      <4> QED
        BY <2>6, <4>1, <4>2
    <3>2. \A v \in VCpus :
           vcpu'[v] = "waiting" <=> Open(v)' \/ (pc'[Main] = "start" /\ job'[Main] = v)
      <4> SUFFICES ASSUME NEW v \in VCpus PROVE vcpu[v] = "waiting" <=> Open(v)'
        BY <1>1, <2>2
      <4>1. v \in Clients
        BY ClientSlots
      <4>2. CASE v = c
        BY <1>1, <2>6, <4>2 DEF ClientsOK
      <4>3. CASE v # c
        BY <1>1, <2>6, <4>1, <4>3 DEF ClientsOK
      <4> QED
        BY <4>2, <4>3
    <3>3. Main \in Natives =>
           /\ Sent(Main)' => Handing' \/ (pc'[Main] = "enqueue" /\ job'[Main] = Main)
           /\ sem'[Main] = IF Handing' /\ ~Sent(Main)' THEN 1 ELSE 0
      <4> HAVE Main \in Natives
      <4>1. ~Handing /\ ~Handing'
        BY <1>1, <2>2 DEF Handing
      <4> QED
        BY <1>1, <2>5, <4>1 DEF ClientsOK
    <3> QED
      BY <3>1, <3>2, <3>3 DEF ClientsOK
  <2>11. FailsOnlyInAckWindow'
    BY <2>1 DEF FailsOnlyInAckWindow
  <2> QED
    BY <2>3, <2>4, <2>7, <2>8, <2>9, <2>10, <2>11
<1> QED
  BY <1>4, <1>5

\* rpcmsg_request fills the message in: it is the client's latest request and
\* its only message.
LEMMA LendMarkKeeps ==
  ASSUME OneCaller, ProxyInv, failed = None, LendMark(Main)
  PROVE  ProxyInv'
<1> USE DEF ProxyInv
<1> PICK c : c = job[Main]
  OBVIOUS
<1> PICK x : x = tmp[Main]
  OBVIOUS
<1>1. /\ UNCHANGED <<vcpu, job, slot, tmp, tls, freeSlot, asked, ioacks, sem, done, failed>>
      /\ UNCHANGED <<npc, resp, reqQ, respQ, held, bellOut, bellIn, draining, owed>>
      /\ pc[Main] = "mark" /\ pc' = [pc EXCEPT ![Main] = "enqueue"]
      /\ lent' = lent \cup {x}
  BY DEF LendMark, ntfnVars, devVars
<1>2. /\ Callers = {Main} /\ c \in Clients /\ slot[Main] = ClientSlot(c) /\ ~Sent(c)
      /\ \A e \in Clients : ClientSlot(e) = ClientSlot(c) => e = c
  BY <1>1, ClientSlots DEF CallerOK
<1>3. PlacesOK' /\ InFlight' = InFlight \cup {x} /\ x \in Ids /\ x \notin InFlight
  BY PlacesMark
<1>4. asked[c] \in Nat /\ buf' = [buf EXCEPT ![x] = Message(c, asked[c])]
  BY <1>2, Zenon DEF LendMark, Message, TypeOK
<1>5. /\ Message(c, asked[c]) \in [mr0 : Nat, n : Nat]
      /\ BIT_FIELD_GET(Message(c, asked[c]).mr0, SLOT) = ClientSlot(c)
  BY <1>2, <1>4, MessageDecodes, Zenon
<1>6. buf'[x] = Message(c, asked[c]) /\ \A i \in Ids : i # x => buf'[i] = buf[i]
  BY <1>3, <1>4 DEF TypeOK
<1>7. pc'[Main] = "enqueue"
  BY <1>1, <1>2 DEF TypeOK
<1>8. TypeOK'
  <2>1. buf' \in [Ids -> [mr0 : Nat, n : Nat]]
    BY <1>3, <1>4, <1>5, Zenon DEF TypeOK
  <2> QED
    BY <1>1, <1>3, <2>1 DEF TypeOK
<1>9. InFlight \subseteq Ids
  BY DEF PlacesOK, TypeOK
<1>10. SlotOf(x)' = ClientSlot(c) /\ \A i \in InFlight : SlotOf(i)' = SlotOf(i)
  <2>1. SlotOf(x)' = ClientSlot(c)
    BY <1>5, <1>6, Zenon DEF SlotOf
  <2>2. \A i \in InFlight : buf'[i] = buf[i]
    BY <1>3, <1>6, <1>9
  <2>3. \A i \in InFlight : SlotOf(i)' = SlotOf(i)
    BY <2>2, Zenon DEF SlotOf
  <2> QED
    BY <2>1, <2>3
<1>11. Sent(c)' /\ \A e \in Clients : e # c => (Sent(e)' <=> Sent(e))
  BY <1>2, <1>3, <1>10 DEF Sent
<1>12. /\ \A e \in Clients : Open(e)' <=> Open(e)
       /\ \A e \in Clients : Clearing(e)' <=> Clearing(e)
  <2>1. \A e \in Clients : Clearing(e)' <=> Clearing(e)
    BY <1>1 DEF Clearing
  <2>2. Open(c) /\ Open(c)'
    BY <1>1, <1>11 DEF Open, Preparing
  <2>3. \A e \in Clients : e # c => (Open(e)' <=> Open(e))
    BY <1>1, <1>7, <1>11 DEF Open, Preparing
  <2> QED
    BY <2>1, <2>2, <2>3
<1>13. MessagesOK'
  <2>1. \A i \in InFlight' : \E e \in Clients : buf'[i] = Message(e, asked'[e])
    <3>1. \A i \in InFlight : \E e \in Clients : buf'[i] = Message(e, asked'[e])
      BY <1>1, <1>3, <1>6, <1>9 DEF MessagesOK
    <3> QED
      BY <1>1, <1>2, <1>3, <1>6, <3>1
  <2>2. \A i, j \in InFlight' : SlotOf(i)' = SlotOf(j)' => i = j
    <3>1. \A i \in InFlight : SlotOf(i)' # SlotOf(x)'
      BY <1>2, <1>10 DEF Sent
    <3>2. \A i, j \in InFlight : SlotOf(i)' = SlotOf(j)' => i = j
      BY <1>10 DEF MessagesOK
    <3> QED
      BY <1>3, <3>1, <3>2
  <2>3. npc' = "ack" => resp'.slot = SlotOf(resp.id)'
    <3> SUFFICES ASSUME npc = "ack" PROVE resp.slot = SlotOf(resp.id)'
      BY <1>1
    <3>1. resp.id \in InFlight
      BY Places DEF AckIds
    <3>2. \A i \in InFlight : resp.id = i => SlotOf(resp.id)' = SlotOf(i)'
      BY <1>1 DEF SlotOf
    <3> QED
      BY <1>10, <3>1, <3>2 DEF MessagesOK
  <2> QED
    BY <1>1, <2>1, <2>2, <2>3 DEF MessagesOK
<1>14. CallerOK'
  <2>1. SlotOf(tmp[Main])' = SlotOf(x)'
    BY <1>1 DEF SlotOf
  <2> QED
    BY <1>1, <1>2, <1>7, <1>10, <2>1 DEF CallerOK
<1>15. AcksOK'
  BY <1>1, <1>12 DEF AcksOK
<1>16. ClientsOK'
  <2>1. \A e \in Clients : asked'[e] = done'[e] + (IF Open(e)' THEN 1 ELSE 0)
    BY <1>1, <1>12 DEF ClientsOK
  <2>2. \A v \in VCpus :
         vcpu'[v] = "waiting" <=> Open(v)' \/ (pc'[Main] = "start" /\ job'[Main] = v)
    BY <1>1, <1>7, <1>12, ClientSlots DEF ClientsOK
  <2>3. Main \in Natives =>
         /\ Sent(Main)' => Handing' \/ (pc'[Main] = "enqueue" /\ job'[Main] = Main)
         /\ sem'[Main] = IF Handing' /\ ~Sent(Main)' THEN 1 ELSE 0
    <3> HAVE Main \in Natives
    <3>1. ~Handing /\ ~Handing'
      BY <1>1, <1>7 DEF Handing
    <3>2. Main # c => ~Sent(Main)'
      BY <1>1, <1>11, <3>1, ClientSlots DEF ClientsOK
    <3> QED
      BY <1>1, <1>7, <3>1, <3>2 DEF ClientsOK
  <2> QED
    BY <2>1, <2>2, <2>3 DEF ClientsOK
<1>17. FailsOnlyInAckWindow'
  BY <1>1 DEF FailsOnlyInAckWindow
<1> QED
  BY <1>3, <1>8, <1>13, <1>14, <1>15, <1>16, <1>17

---------------------------------------------------------------------------
(* ioreq_finish *)

\* The answer in hand belongs to the client whose callback the slot holds.
LEMMA AnswerOwner ==
  ASSUME OneCaller, TypeOK, PlacesOK, MessagesOK, AcksOK, npc = "ack"
  PROVE  \E c \in Clients : /\ resp.slot = ClientSlot(c) /\ ioacks[resp.slot] = c
                            /\ Sent(c) /\ buf[resp.id] = Message(c, asked[c])
                            /\ resp.id \in InFlight /\ SlotOf(resp.id) = ClientSlot(c)
<1>1. resp.id \in InFlight /\ resp.slot = SlotOf(resp.id)
  BY Places DEF AckIds, MessagesOK
<1>2. PICK c \in Clients : /\ buf[resp.id] = Message(c, asked[c])
                           /\ SlotOf(resp.id) = ClientSlot(c) /\ Sent(c)
  BY <1>1, Owner
<1>3. ioacks[ClientSlot(c)] = c
  BY <1>2 DEF AcksOK, Open
<1> QED
  BY <1>1, <1>2, <1>3

\* The callback completes the client's latest request, once.
LEMMA NtfnAckKeeps ==
  ASSUME OneCaller, ProxyInv, failed = None, NtfnAck
  PROVE  ProxyInv'
<1> USE DEF ProxyInv
<1>1. /\ UNCHANGED <<pc, job, slot, tmp, tls, freeSlot, asked, buf, ioacks>>
      /\ UNCHANGED <<resp, lent, reqQ, respQ, held, bellOut, bellIn, draining, owed>>
      /\ npc = "ack"
  BY DEF NtfnAck, devVars
<1>2. PICK c \in Clients : /\ resp.slot = ClientSlot(c) /\ ioacks[resp.slot] = c
                           /\ Sent(c) /\ buf[resp.id] = Message(c, asked[c])
                           /\ resp.id \in InFlight /\ SlotOf(resp.id) = ClientSlot(c)
  BY <1>1, AnswerOwner
<1>3. /\ None \notin Clients /\ \A e \in Clients : ClientSlot(e) = ClientSlot(c) => e = c
      /\ c \in VCpus \/ (c = Main /\ Main \in Natives)
      /\ Main \in Natives => Main \notin VCpus /\ Main \in Clients
      /\ VCpus \subseteq Clients /\ Callers = {Main}
  BY <1>2, ClientSlots
<1>4. asked[c] \in Nat /\ buf[resp.id].n = asked[c]
  <2>1. asked[c] \in Nat
    BY DEF TypeOK
  <2> QED
    BY <1>2, <2>1, MessageDecodes, Zenon
<1>5. /\ vcpu' = [v \in VCpus |-> IF v = c THEN "running" ELSE vcpu[v]]
      /\ sem' = [t \in Natives |-> IF t = c THEN sem[t] + 1 ELSE sem[t]]
      /\ done' = [done EXCEPT ![c] = asked[c]] /\ npc' = "clear" /\ failed' = failed
  BY <1>2, <1>3, <1>4 DEF NtfnAck, ioack_vcpu, ioack_native
<1>6. PlacesOK' /\ InFlight' = InFlight \ {resp.id}
  BY <1>2, <1>3, PlacesAck
<1>7. \A i : SlotOf(i)' = SlotOf(i)
  BY <1>1 DEF SlotOf
<1>8. ~Sent(c)' /\ \A e \in Clients : e # c => (Sent(e)' <=> Sent(e))
  BY <1>2, <1>3, <1>6, <1>7 DEF Sent, MessagesOK
<1>9. ~Preparing(c) /\ ~(pc[Main] = "start" /\ job[Main] = c)
  BY <1>2 DEF Preparing, CallerOK
<1>10. /\ Open(c) /\ ~Open(c)' /\ Clearing(c)'
       /\ \A e \in Clients : e # c => (Open(e)' <=> Open(e)) /\ ~Clearing(e)'
       /\ \A e \in Clients : ~Clearing(e)
  <2>1. \A e \in Clients : Preparing(e)' <=> Preparing(e)
    BY <1>1 DEF Preparing
  <2>2. Open(c) /\ ~Open(c)' /\ \A e \in Clients : e # c => (Open(e)' <=> Open(e))
    BY <1>2, <1>8, <1>9, <2>1 DEF Open
  <2>3. Clearing(c)' /\ \A e \in Clients : e # c => ~Clearing(e)'
    BY <1>1, <1>2, <1>3, <1>5 DEF Clearing
  <2> QED
    BY <1>1, <2>2, <2>3 DEF Clearing
<1>11. /\ \A v \in VCpus : vcpu'[v] = IF v = c THEN "running" ELSE vcpu[v]
       /\ done'[c] = asked[c] /\ \A e \in Clients : e # c => done'[e] = done[e]
  BY <1>5 DEF TypeOK
<1>12. Main \in Natives =>
         /\ Sent(Main)' => Handing' \/ (pc'[Main] = "enqueue" /\ job'[Main] = Main)
         /\ sem'[Main] = IF Handing' /\ ~Sent(Main)' THEN 1 ELSE 0
  <2> HAVE Main \in Natives
  <2>1. Handing' <=> Handing
    BY <1>1 DEF Handing
  <2>2. CASE c # Main
    <3>1. sem'[Main] = sem[Main]
      BY <1>5, <2>2
    <3> QED
      BY <1>1, <1>3, <1>8, <2>1, <2>2, <3>1 DEF ClientsOK
  <2>3. CASE c = Main
    <3>1. sem[Main] = 0
      BY <1>2, <2>3 DEF ClientsOK
    <3>2. sem'[Main] = 1
      BY <1>5, <2>3, <3>1
    <3>3. ~(pc[Main] = "enqueue" /\ job[Main] = Main)
      <4> SUFFICES ASSUME pc[Main] = "enqueue", job[Main] = Main PROVE FALSE
        OBVIOUS
      <4>1. tmp[Main] \in NewIds /\ resp.id \in AckIds /\ NewIds \subseteq InFlight
        BY <1>1, Places DEF AckIds
      <4>2. SlotOf(tmp[Main]) = SlotOf(resp.id)
        BY <1>2, <2>3 DEF CallerOK
      <4>3. tmp[Main] = resp.id
        BY <1>2, <4>1, <4>2 DEF MessagesOK
      <4> QED
        BY <4>1, <4>3 DEF PlacesOK
    <3>4. Handing
      BY <1>2, <2>3, <3>3 DEF ClientsOK
    <3> QED
      BY <1>8, <2>1, <2>3, <3>2, <3>4
  <2> QED
    BY <2>2, <2>3
<1>13. TypeOK'
  <2>1. vcpu' \in [VCpus -> {"running", "faulted", "waiting"}] /\ done' \in [Clients -> Nat]
    BY <1>4, <1>5 DEF TypeOK
  <2>2. sem' \in [Natives -> 0 .. 1]
    <3>1. \A t \in Natives : t = Main
      BY DEF OneCaller
    <3>2. Main \in Natives => sem'[Main] \in 0 .. 1
      BY <1>12
    <3>3. sem' = [t \in Natives |-> sem'[t]]
      BY <1>5
    <3> QED
      BY <3>1, <3>2, <3>3
  <2> QED
    BY <1>1, <1>5, <2>1, <2>2 DEF TypeOK
<1>14. MessagesOK'
  <2>1. \A i \in InFlight' : i \in InFlight
    BY <1>6
  <2>2. \A i \in InFlight' : \E e \in Clients : buf'[i] = Message(e, asked'[e])
    BY <1>1, <2>1 DEF MessagesOK
  <2>3. \A i, j \in InFlight' : SlotOf(i)' = SlotOf(j)' => i = j
    BY <1>7, <2>1 DEF MessagesOK
  <2> QED
    BY <1>5, <2>2, <2>3 DEF MessagesOK
<1>15. CallerOK'
  <2>1. Sent(job[Main])' => Sent(job[Main])
    <3>1. \A e : Sent(e)' => Sent(e)
      BY <1>6, <1>7 DEF Sent
    <3>2. \A e : e = job[Main] => (Sent(e)' <=> Sent(job[Main])')
      BY <1>1 DEF Sent
    <3> QED
      BY <3>1, <3>2
  <2>2. SlotOf(tmp[Main])' = SlotOf(tmp[Main])
    BY <1>1 DEF SlotOf
  <2> QED
    BY <1>1, <2>1, <2>2 DEF CallerOK
<1>16. AcksOK'
  <2>1. \A s \in Slots : ioacks'[s] # None =>
          \E e \in Clients : s = ClientSlot(e) /\ (Open(e)' \/ Clearing(e)')
    BY <1>1, <1>10 DEF AcksOK
  <2>2. \A e \in Clients : Open(e)' \/ Clearing(e)' => ioacks'[ClientSlot(e)] = e
    BY <1>1, <1>10 DEF AcksOK
  <2>3. \A e \in Clients : ~(Open(e)' /\ Clearing(e)')
    BY <1>10
  <2> QED
    BY <2>1, <2>2, <2>3 DEF AcksOK
<1>17. ClientsOK'
  <2>1. \A e \in Clients : asked'[e] = done'[e] + (IF Open(e)' THEN 1 ELSE 0)
    <3>1. asked'[c] = done'[c] + 0
      BY <1>1, <1>4, <1>11
    <3>2. \A e \in Clients : e # c => asked'[e] = done'[e] + (IF Open(e)' THEN 1 ELSE 0)
      BY <1>1, <1>10, <1>11 DEF ClientsOK
    <3> QED
      BY <1>10, <3>1, <3>2
  <2>2. \A v \in VCpus :
         vcpu'[v] = "waiting" <=> Open(v)' \/ (pc'[Main] = "start" /\ job'[Main] = v)
    <3> SUFFICES ASSUME NEW v \in VCpus
                 PROVE  vcpu'[v] = "waiting" <=> Open(v)' \/ (pc[Main] = "start" /\ job[Main] = v)
      BY <1>1
    <3>1. CASE v = c
      BY <1>9, <1>10, <1>11, <3>1
    <3>2. CASE v # c
      BY <1>3, <1>10, <1>11, <3>2 DEF ClientsOK
    <3> QED
      BY <3>1, <3>2
  <2> QED
    BY <2>1, <2>2, <1>12 DEF ClientsOK
<1>18. FailsOnlyInAckWindow'
  BY <1>5 DEF FailsOnlyInAckWindow
<1> QED
  BY <1>6, <1>13, <1>14, <1>15, <1>16, <1>17, <1>18

\* The callback is reset: nobody's request is under way in that slot.
LEMMA NtfnClearKeeps ==
  ASSUME OneCaller, ProxyInv, failed = None, NtfnClear
  PROVE  ProxyInv'
<1> USE DEF ProxyInv
<1>1. /\ UNCHANGED <<vcpu, pc, job, slot, tmp, tls, freeSlot, asked, buf, sem, done, failed>>
      /\ UNCHANGED <<resp, lent, reqQ, respQ, held, bellOut, bellIn, draining, owed>>
      /\ npc = "clear" /\ npc' = "reclaim"
      /\ ioacks' = [ioacks EXCEPT ![resp.slot] = None]
  BY DEF NtfnClear, reqVars, devVars
<1>2. /\ ioacks'[resp.slot] = None
      /\ \A s \in Slots : s # resp.slot => ioacks'[s] = ioacks[s]
  BY <1>1 DEF TypeOK
<1>3. TypeOK'
  BY <1>1 DEF TypeOK
<1>4. PlacesOK' /\ InFlight' = InFlight
  <2>1. NewIds' = NewIds /\ AckIds' = AckIds /\ DoneIds' = DoneIds
    BY <1>1 DEF NewIds, AckIds, DoneIds
  <2>2. pc'[Main] = "mark" => tmp'[Main] \in Ids \ lent
    BY <1>1 DEF PlacesOK
  <2> QED
    BY <1>1, <2>1, <2>2, PlacesFrame
<1>5. (\A i : SlotOf(i)' = SlotOf(i)) /\ (\A e : Sent(e)' <=> Sent(e))
  BY <1>1, <1>4, SentFrame
<1>6. /\ \A e : Open(e)' <=> Open(e)
      /\ \A e : ~Clearing(e)'
      /\ \A e \in Clients : ClientSlot(e) = resp.slot => ~Open(e)
  <2>1. \A e : Open(e)' <=> Open(e)
    BY <1>1, <1>5 DEF Open, Preparing
  <2>2. \A e : ~Clearing(e)'
    BY <1>1 DEF Clearing
  <2>3. \A e \in Clients : ClientSlot(e) = resp.slot => ~Open(e)
    BY <1>1 DEF AcksOK, Clearing
  <2> QED
    BY <2>1, <2>2, <2>3
<1>7. MessagesOK'
  BY <1>1, <1>4, <1>5 DEF MessagesOK
<1>8. CallerOK'
  <2>1. SlotOf(tmp[Main])' = SlotOf(tmp[Main]) /\ (Sent(job[Main])' <=> Sent(job[Main]))
    BY <1>1, <1>4 DEF SlotOf, Sent
  <2> QED
    BY <1>1, <2>1 DEF CallerOK
<1>9. AcksOK'
  <2>1. \A s \in Slots : ioacks'[s] # None =>
          \E e \in Clients : s = ClientSlot(e) /\ (Open(e)' \/ Clearing(e)')
    <3> SUFFICES ASSUME NEW s \in Slots, ioacks'[s] # None
                 PROVE  \E e \in Clients : s = ClientSlot(e) /\ Open(e)'
      OBVIOUS
    <3>1. s # resp.slot /\ ioacks[s] # None
      BY <1>2
    <3>2. PICK e \in Clients : s = ClientSlot(e) /\ (Open(e) \/ Clearing(e))
      BY <3>1 DEF AcksOK
    <3> QED
      BY <1>6, <3>1, <3>2 DEF Clearing
  <2>2. \A e \in Clients : Open(e)' \/ Clearing(e)' => ioacks'[ClientSlot(e)] = e
    BY <1>2, <1>6, ClientSlots DEF AcksOK
  <2> QED
    BY <1>6, <2>1, <2>2 DEF AcksOK
<1>10. ClientsOK'
  <2>1. \A e \in Clients : asked'[e] = done'[e] + (IF Open(e)' THEN 1 ELSE 0)
    BY <1>1, <1>6 DEF ClientsOK
  <2>2. \A v \in VCpus :
         vcpu'[v] = "waiting" <=> Open(v)' \/ (pc'[Main] = "start" /\ job'[Main] = v)
    BY <1>1, <1>6 DEF ClientsOK
  <2>3. Main \in Natives =>
         /\ Sent(Main)' => Handing' \/ (pc'[Main] = "enqueue" /\ job'[Main] = Main)
         /\ sem'[Main] = IF Handing' /\ ~Sent(Main)' THEN 1 ELSE 0
    <3> HAVE Main \in Natives
    <3>1. Handing' <=> Handing
      BY <1>1 DEF Handing
    <3> QED
      BY <1>1, <1>5, <3>1 DEF ClientsOK
  <2> QED
    BY <2>1, <2>2, <2>3 DEF ClientsOK
<1>11. FailsOnlyInAckWindow'
  BY <1>1 DEF FailsOnlyInAckWindow
<1> QED
  BY <1>3, <1>4, <1>7, <1>8, <1>9, <1>10, <1>11

---------------------------------------------------------------------------
(* The invariant and what follows from it *)

\* The invariant holds when libsel4vm_io_proxy_init returns.
LEMMA InitProxy ==
  ASSUME OneCaller, Init
  PROVE  ProxyInv
<1>1. /\ Callers = {Main} /\ 0 \in Slots /\ NativeBase \in Slots /\ NativeBase \in Nat
      /\ NumSlots \in Nat /\ Main \in Natives => Main \in Clients
  BY ClientSlots
<1>2. 0 \in Ids
  BY IoProxyAssumption DEF Ids
<1>3. TypeOK
  BY <1>1, <1>2, IoProxyAssumption DEF Init, vso_driver_rpc_init, NoResp, TypeOK
<1>4. pc[Main] = "idle" /\ job[Main] = None /\ reqQ = <<>> /\ respQ = <<>>
  BY <1>1 DEF Init, vso_driver_rpc_init
<1>5. ReqIds = {} /\ RespIds = {} /\ NewIds = {} /\ AckIds = {} /\ DoneIds = {} /\ held = {}
  BY <1>4, Places DEF Init, ReqIds, RespIds, AckIds, DoneIds, Elems
<1>6. InFlight = {}
  BY <1>5, Places
<1>7. PlacesOK
  BY <1>4, <1>5, <1>6 DEF PlacesOK, Once, Init, vso_driver_rpc_init
<1>8. MessagesOK
  BY <1>6 DEF MessagesOK, Init
<1>9. CallerOK
  BY <1>1, <1>4 DEF CallerOK, Init
<1>10. \A c : ~Sent(c) /\ ~Open(c) /\ ~Clearing(c)
  BY <1>4, <1>6 DEF Sent, Open, Preparing, Clearing, Init
<1>11. AcksOK
  BY <1>10 DEF AcksOK, Init
<1>12. ClientsOK
  BY <1>4, <1>10 DEF ClientsOK, Init, Handing
<1>13. FailsOnlyInAckWindow
  BY DEF FailsOnlyInAckWindow, Init
<1> QED
  BY <1>3, <1>7, <1>8, <1>9, <1>11, <1>12, <1>13 DEF ProxyInv

\* Every step keeps it.
LEMMA NextProxy ==
  ASSUME OneCaller, EnoughBuffers, ProxyInv, [Next]_vars
  PROVE  ProxyInv'
<1>1. CASE Next
  <2>1. failed = None /\ Callers = {Main}
    BY <1>1, ClientSlots DEF Next
  <2>2. ASSUME NEW v \in VCpus, GuestFault(v) PROVE ProxyInv'
    BY <2>1, <2>2, FaultKeeps
  <2>3. CASE NativeSlot(Main)
    BY <2>1, <2>3, NativeSlotKeeps
  <2>4. CASE CallerStep(Main)
    <3>1. ASSUME NEW v \in VCpus, MmioFault(v) PROVE ProxyInv'
      BY <2>1, <3>1, MmioFaultKeeps
    <3>2. CASE NativeBump(Main)
      BY <2>1, <3>2, NativeBumpKeeps
    <3>3. CASE IoreqStart(Main)
      BY <2>1, <3>3, IoreqStartKeeps
    <3>4. CASE LendFind(Main)
      BY <2>1, <3>4, LendFindKeeps
    <3>5. CASE LendMark(Main)
      BY <2>1, <3>5, LendMarkKeeps
    <3>6. CASE Enqueue(Main)
      BY <2>1, <3>6, EnqueueKeeps
    <3>7. CASE Doorbell(Main)
      BY <2>1, <3>7, DoorbellKeeps
    <3>8. CASE NativeWait(Main)
      BY <2>1, <3>8, NativeWaitKeeps
    <3> QED
      BY <2>4, <3>1, <3>2, <3>3, <3>4, <3>5, <3>6, <3>7, <3>8, Zenon DEF CallerStep
  <2>5. CASE DeviceStep
    BY <2>1, <2>5, DeviceKeeps
  <2>6. CASE NtfnStep
    <3>1. CASE NtfnWake \/ NtfnRecv \/ NtfnReclaim
      BY <2>1, <3>1, RecvKeeps
    <3>2. CASE NtfnAck
      BY <2>1, <3>2, NtfnAckKeeps
    <3>3. CASE NtfnClear
      BY <2>1, <3>3, NtfnClearKeeps
    <3> QED
      BY <2>6, <3>1, <3>2, <3>3, Zenon DEF NtfnStep
  <2> QED
    BY <1>1, <2>1, <2>2, <2>3, <2>4, <2>5, <2>6 DEF Next
<1>2. CASE UNCHANGED vars
  <2>1. /\ UNCHANGED <<vcpu, pc, job, slot, tmp, tls, freeSlot, asked, buf, sem, done, failed>>
        /\ UNCHANGED <<npc, resp, lent, reqQ, respQ, held, bellOut, bellIn, draining, owed, ioacks>>
    BY <1>2 DEF vars, reqVars, devVars, ntfnVars
  <2>2. TypeOK' /\ FailsOnlyInAckWindow'
    BY <2>1 DEF TypeOK, FailsOnlyInAckWindow, ProxyInv
  <2>3. PlacesOK' /\ InFlight' = InFlight
    <3>1. NewIds' = NewIds /\ AckIds' = AckIds /\ DoneIds' = DoneIds
      BY <2>1 DEF NewIds, AckIds, DoneIds
    <3> QED
      BY <2>1, <3>1, PlacesFrame DEF ProxyInv, PlacesOK
  <2>4. (\A i : SlotOf(i)' = SlotOf(i)) /\ (\A e : Sent(e)' <=> Sent(e))
    BY <2>1, <2>3, SentFrame
  <2>5. /\ \A e : Open(e)' <=> Open(e)
        /\ \A e : Clearing(e)' <=> Clearing(e)
        /\ Handing' <=> Handing
    BY <2>1, <2>4 DEF Open, Preparing, Clearing, Handing
  <2>6. MessagesOK'
    <3>1. SlotOf(resp.id)' = SlotOf(resp.id)
      BY <2>1 DEF SlotOf
    <3> QED
      BY <2>1, <2>3, <2>4, <3>1 DEF MessagesOK, ProxyInv
  <2>7. CallerOK'
    <3>1. SlotOf(tmp[Main])' = SlotOf(tmp[Main]) /\ (Sent(job[Main])' <=> Sent(job[Main]))
      BY <2>1, <2>3 DEF SlotOf, Sent
    <3> QED
      BY <2>1, <3>1 DEF CallerOK, ProxyInv
  <2>8. AcksOK'
    BY <2>1, <2>5 DEF AcksOK, ProxyInv
  <2>9. ClientsOK'
    BY <2>1, <2>4, <2>5 DEF ClientsOK, ProxyInv
  <2> QED
    BY <2>2, <2>3, <2>6, <2>7, <2>8, <2>9 DEF ProxyInv
<1> QED
  BY <1>1, <1>2

\* Every state reached with one caller and enough buffers satisfies ProxyInv.
THEOREM ProxyInductive ==
  OneCaller /\ EnoughBuffers /\ Spec => []ProxyInv
<1> DEFINE Hyp == OneCaller /\ EnoughBuffers
<1>1. Hyp /\ Init => ProxyInv
  BY InitProxy
<1>2. Hyp /\ ProxyInv /\ [Next]_vars => ProxyInv'
  BY NextProxy
<1>3. Hyp /\ [Next]_vars => Hyp'
  OBVIOUS
<1> HIDE DEF Hyp
<1>4. Hyp /\ Spec => []ProxyInv
  BY <1>1, <1>2, <1>3, PTL DEF Spec
<1> QED
  BY <1>4 DEF Hyp

\* Every variable of the request path keeps its range; the handoff semaphore
\* counts at most one post.
THEOREM ProxyTypeCorrect ==
  OneCaller /\ EnoughBuffers /\ Spec => []TypeOK
<1>1. ProxyInv => TypeOK
  BY DEF ProxyInv
<1> QED
  BY <1>1, ProxyInductive, PTL

\* No buffer and no queue entry runs out and no answer lacks its callback; the
\* assertion of ioreq_start fails only between a callback and its reset.
THEOREM OnlyAckWindowFails ==
  OneCaller /\ EnoughBuffers /\ Spec => []FailsOnlyInAckWindow
<1>1. ProxyInv => FailsOnlyInAckWindow
  BY DEF ProxyInv
<1> QED
  BY <1>1, ProxyInductive, PTL

\* A queue without repetition holds an id once or not at all.
LEMMA CountOnce ==
  ASSUME NEW q, NEW i, Once(q)
  PROVE  Count(q, i) = IF i \in Elems(q) THEN 1 ELSE 0
<1> DEFINE K == {k \in DOMAIN q : q[k] = i}
<1>1. CASE i \notin Elems(q)
  <2>1. K = {}
    BY <1>1 DEF Elems
  <2> QED
    BY <1>1, <2>1, FS_EmptySet DEF Count
<1>2. CASE i \in Elems(q)
  <2>1. PICK k \in DOMAIN q : q[k] = i
    BY <1>2 DEF Elems
  <2>2. K = {k}
    BY <2>1 DEF Once
  <2>3. Cardinality({k}) = 1
    BY FS_Singleton
  <2> QED
    BY <1>2, <2>2, <2>3 DEF Count
<1> QED
  BY <1>1, <1>2

\* A message buffer is lent for exactly one request-reply sequence.
THEOREM BuffersLentOnce ==
  OneCaller /\ EnoughBuffers /\ Spec => []BufferLentOnce
<1>1. ASSUME OneCaller, ProxyInv PROVE BufferLentOnce
  <2> SUFFICES ASSUME NEW i \in Ids PROVE Uses(i) = IF i \in lent THEN 1 ELSE 0
    BY DEF BufferLentOnce
  <2> USE <1>1
  <2> DEFINE T == {t \in Callers : pc[t] = "enqueue" /\ tmp[t] = i}
             One(b) == IF b THEN 1 ELSE 0
  <2>1. Cardinality(T) = One(i \in NewIds)
    <3>1. CASE pc[Main] = "enqueue" /\ tmp[Main] = i
      <4>1. T = {Main} /\ i \in NewIds
        BY <3>1, ClientSlots, Places
      <4>2. Cardinality({Main}) = 1
        BY FS_Singleton
      <4> QED
        BY <4>1, <4>2
    <3>2. CASE ~(pc[Main] = "enqueue" /\ tmp[Main] = i)
      <4>1. T = {} /\ i \notin NewIds
        BY <3>2, ClientSlots, Places
      <4> QED
        BY <4>1, FS_EmptySet
    <3> QED
      BY <3>1, <3>2
  <2>2. Count(reqQ, i) = One(i \in ReqIds) /\ Count(respQ, i) = One(i \in RespIds)
    BY CountOnce DEF ProxyInv, PlacesOK, ReqIds, RespIds
  <2>3. npc \in {"ack", "clear", "reclaim"} /\ resp.id = i <=> i \in AckIds \cup DoneIds
    BY DEF AckIds, DoneIds
  <2>4. Uses(i) = Cardinality(T) + Count(reqQ, i) + One(i \in held) + Count(respQ, i)
                    + One(npc \in {"ack", "clear", "reclaim"} /\ resp.id = i)
    BY DEF Uses
  <2>5. Uses(i) = One(i \in NewIds) + One(i \in ReqIds) + One(i \in held) + One(i \in RespIds)
                    + One(i \in AckIds \cup DoneIds)
    BY <2>1, <2>2, <2>3, <2>4
  <2>6. /\ ~(i \in NewIds /\ i \in ReqIds \cup held \cup RespIds \cup AckIds \cup DoneIds)
        /\ ~(i \in ReqIds /\ i \in held \cup RespIds \cup AckIds \cup DoneIds)
        /\ ~(i \in held /\ i \in RespIds \cup AckIds \cup DoneIds)
        /\ ~(i \in RespIds /\ i \in AckIds \cup DoneIds)
        /\ i \in lent <=> i \in NewIds \cup ReqIds \cup held \cup RespIds \cup (AckIds \cup DoneIds)
    BY Places DEF ProxyInv, PlacesOK
  <2> QED
    BY <2>5, <2>6
<1>2. OneCaller /\ [Next]_vars => OneCaller'
  OBVIOUS
<1>3. OneCaller /\ Spec => []OneCaller
  BY <1>2, PTL DEF Spec
<1>4. OneCaller /\ ProxyInv => BufferLentOnce
  BY <1>1
<1> QED
  BY <1>3, <1>4, ProxyInductive, PTL

\* Every message in flight decodes to the slot, address space, direction and
\* length of its client's latest request, whose callback is pending.
THEOREM AnswersAlwaysMatch ==
  OneCaller /\ EnoughBuffers /\ Spec => []AnswersMatch
<1>1. ASSUME OneCaller, ProxyInv PROVE AnswersMatch
  <2> USE <1>1
  <2> SUFFICES ASSUME NEW i \in InFlight
               PROVE LET mr0 == buf[i].mr0
                         s   == BIT_FIELD_GET(mr0, SLOT) IN
                     /\ BIT_FIELD_GET(mr0, OP) = QEMU_OP_MMIO
                     /\ s \in Slots /\ ioacks[s] # None
                     /\ buf[i].n = asked[ioacks[s]]
                     /\ BIT_FIELD_GET(mr0, ADDR_SPACE) = AddressSpace(ioacks[s])
                     /\ BIT_FIELD_GET(mr0, DIRECTION) = Direction(buf[i].n)
                     /\ BIT_FIELD_GET(mr0, LENGTH) = AccessSize(ioacks[s], buf[i].n)
    BY Zenon DEF AnswersMatch
  <2>1. PICK c \in Clients : /\ buf[i] = Message(c, asked[c])
                             /\ SlotOf(i) = ClientSlot(c) /\ Sent(c)
    BY Owner DEF ProxyInv
  <2>2. asked[c] \in Nat
    BY DEF ProxyInv, TypeOK
  <2>3. /\ buf[i].n = asked[c]
        /\ Decodes(buf[i].mr0, ClientSlot(c), Direction(asked[c]), AddressSpace(c),
                   AccessSize(c, asked[c]))
    BY <2>1, <2>2, MessageDecodes, Zenon
  <2>4. ClientSlot(c) \in Slots /\ c # None
    BY ClientSlots
  <2>5. ioacks[ClientSlot(c)] = c
    BY <2>1 DEF ProxyInv, AcksOK, Open
  <2> QED
    BY <2>3, <2>4, <2>5, Zenon DEF Decodes
<1>2. OneCaller /\ [Next]_vars => OneCaller'
  OBVIOUS
<1>3. OneCaller /\ Spec => []OneCaller
  BY <1>2, PTL DEF Spec
<1>4. OneCaller /\ ProxyInv => AnswersMatch
  BY <1>1
<1> QED
  BY <1>3, <1>4, ProxyInductive, PTL

---------------------------------------------------------------------------
(* The proxy as its clients see it *)

\* Phases after every step that does not move a client on.
LEMMA AccessStutters ==
  ASSUME UNCHANGED <<asked, done>>, \A c \in Clients : Phase(c)' = Phase(c)
  PROVE  UNCHANGED Access!vars
<1>1. [c \in Clients |-> Phase(c)]' = [c \in Clients |-> Phase(c)]
  OBVIOUS
<1> QED
  BY <1>1 DEF Access!vars

\* One client moves on.
LEMMA AccessMoves ==
  ASSUME NEW c \in Clients, NEW from, NEW to, Phase(c) = from, Phase(c)' = to,
         \A e \in Clients : e # c => Phase(e)' = Phase(e)
  PROVE  Access!Move(c, from, to)
<1>1. [e \in Clients |-> Phase(e)][c] = from
  OBVIOUS
<1>2. [e \in Clients |-> Phase(e)]' = [[e \in Clients |-> Phase(e)] EXCEPT ![c] = to]
  OBVIOUS
<1> QED
  BY <1>1, <1>2 DEF Access!Move

\* Steps that leave vCPUs, the main thread's place and the numbers alone.
LEMMA PhaseFrame ==
  ASSUME UNCHANGED <<vcpu, pc, job, asked, done>>
  PROVE  UNCHANGED Access!vars
<1>1. \A c \in Clients : Phase(c)' = Phase(c)
  BY DEF Phase
<1> QED
  BY <1>1, AccessStutters

\* A step of the proxy is a step of MmioAccess or changes nothing its clients
\* see.
LEMMA StepAccess ==
  ASSUME OneCaller, ProxyInv, [Next]_vars
  PROVE  Access!Next \/ UNCHANGED Access!vars
<1> USE DEF ProxyInv
<1>0. /\ Callers = {Main} /\ None \notin Clients /\ VCpus \subseteq Clients
      /\ \A c \in Clients : c \in VCpus \/ (c = Main /\ Main \in Natives)
      /\ Main \in Natives => Main \in Clients /\ Main \notin VCpus
  BY ClientSlots
<1>1. /\ \A c \in Clients : ~Open(c) => done[c] = asked[c]
      /\ \A c \in Clients : Open(c) => done[c] # asked[c]
  <2>1. \A c \in Clients : asked[c] \in Nat /\ done[c] \in Nat
    BY DEF TypeOK
  <2>2. \A c \in Clients : asked[c] = done[c] + (IF Open(c) THEN 1 ELSE 0)
    BY DEF ClientsOK
  <2> QED
    BY <2>1, <2>2
<1>2. ASSUME NEW v \in VCpus, GuestFault(v) PROVE Access!Next
  <2>1. /\ vcpu[v] = "running" /\ vcpu'[v] = "faulted" /\ UNCHANGED <<pc, job, asked, done>>
        /\ \A w \in VCpus : w # v => vcpu'[w] = vcpu[w]
    BY <1>2 DEF GuestFault, TypeOK
  <2>2. done[v] = asked[v]
    BY <1>0, <1>1, <2>1 DEF ClientsOK
  <2>3. Phase(v) = "idle" /\ Phase(v)' = "begun" /\ v \in Clients
    BY <1>0, <2>1, <2>2 DEF Phase
  <2>4. \A e \in Clients : e # v => Phase(e)' = Phase(e)
    BY <2>1 DEF Phase
  <2>5. Access!Move(v, "idle", "begun")
    BY <2>3, <2>4, AccessMoves
  <2> QED
    BY <2>1, <2>3, <2>5 DEF Access!Next, Access!Begin
<1>3. ASSUME NEW v \in VCpus, MmioFault(v) PROVE UNCHANGED Access!vars
  <2>1. /\ vcpu[v] = "faulted" /\ vcpu'[v] = "waiting" /\ UNCHANGED <<asked, done>>
        /\ \A w \in VCpus : w # v => vcpu'[w] = vcpu[w]
        /\ pc[Main] = "idle" /\ pc'[Main] = "start" /\ job'[Main] = v
    BY <1>0, <1>3 DEF MmioFault, TypeOK
  <2>2. \A e \in VCpus : Phase(e)' = Phase(e)
    BY <2>1 DEF Phase
  <2>3. Main \in Natives => Phase(Main)' = Phase(Main)
    BY <1>0, <2>1 DEF Phase, CallerOK
  <2> QED
    BY <1>0, <2>1, <2>2, <2>3, AccessStutters
<1>4. CASE NativeSlot(Main)
  <2>1. /\ Main \in Natives /\ pc[Main] = "idle" /\ UNCHANGED <<vcpu, asked, done>>
        /\ freeSlot \in Nat /\ NumSlots \in Nat /\ (tls[Main] = 0 => freeSlot < NumSlots)
    BY <1>4, IoProxyAssumption DEF NativeSlot, CallerOK
  <2>2. job'[Main] = Main /\ pc'[Main] \in {"start", "bump"}
    <3>1. ~(tls[Main] = 0 /\ freeSlot >= NumSlots)
      BY <2>1
    <3> QED
      BY <1>0, <1>4, <3>1 DEF NativeSlot, TypeOK
  <2>3. Phase(Main) = "idle" /\ Phase(Main)' = "begun" /\ Main \in Clients
    BY <1>0, <2>1, <2>2 DEF Phase, CallerOK
  <2>4. \A e \in Clients : e # Main => Phase(e)' = Phase(e)
    BY <1>0, <2>1 DEF Phase
  <2>5. Access!Move(Main, "idle", "begun")
    BY <2>3, <2>4, AccessMoves
  <2> QED
    BY <2>1, <2>3, <2>5 DEF Access!Next, Access!Begin
<1>5. CASE NativeBump(Main) \/ LendFind(Main) \/ LendMark(Main) \/ Enqueue(Main) \/ Doorbell(Main)
  <2>1. UNCHANGED <<vcpu, asked, done>>
    BY <1>5 DEF NativeBump, LendFind, LendMark, Enqueue, Doorbell
  <2>2. \A e \in VCpus : Phase(e)' = Phase(e)
    BY <2>1 DEF Phase
  <2>3. Main \in Natives => Phase(Main)' = Phase(Main)
    <3> HAVE Main \in Natives
    <3>1. CASE NativeBump(Main)
      <4>1. pc[Main] = "bump" /\ pc'[Main] = "start" /\ job' = job
        BY <1>0, <3>1 DEF NativeBump, TypeOK
      <4> QED
        BY <1>0, <2>1, <4>1 DEF Phase
    <3>2. CASE LendFind(Main)
      <4>1. pc[Main] = "lend" /\ pc'[Main] \in {"lend", "mark"} /\ job' = job
        BY <1>0, <3>2 DEF LendFind, TypeOK
      <4> QED
        BY <1>0, <2>1, <4>1 DEF Phase
    <3>3. CASE LendMark(Main)
      <4>1. pc[Main] = "mark" /\ pc'[Main] = "enqueue" /\ job' = job
        BY <1>0, <3>3 DEF LendMark, TypeOK
      <4> QED
        BY <1>0, <2>1, <4>1 DEF Phase
    <3>4. CASE Enqueue(Main)
      <4>1. pc[Main] = "enqueue" /\ pc'[Main] = "bell" /\ job' = job
        BY <1>0, <3>4, PlacesEnqueue DEF Enqueue, TypeOK
      <4> QED
        BY <1>0, <2>1, <4>1 DEF Phase
    <3>5. CASE Doorbell(Main)
      <4>1. /\ pc[Main] = "bell" /\ job[Main] \in Clients /\ job'[Main] = None
            /\ pc'[Main] = IF job[Main] \in VCpus THEN "idle" ELSE "handoff"
        BY <1>0, <3>5 DEF Doorbell, EndOfStart, TypeOK, CallerOK
      <4> QED
        BY <1>0, <2>1, <4>1 DEF Phase
    <3> QED
      BY <1>5, <3>1, <3>2, <3>3, <3>4, <3>5
  <2> QED
    BY <1>0, <2>1, <2>2, <2>3, AccessStutters
<1>6. CASE IoreqStart(Main) /\ ioacks[slot[Main]] # None
  BY <1>6, PhaseFrame DEF IoreqStart
<1>7. CASE IoreqStart(Main) /\ ioacks[slot[Main]] = None
  <2> PICK c : c = job[Main]
    OBVIOUS
  <2>1. /\ c \in Clients /\ pc[Main] = "start" /\ pc'[Main] = "lend" /\ job' = job
        /\ UNCHANGED <<vcpu, done>> /\ asked' = [asked EXCEPT ![c] = @ + 1]
    BY <1>0, <1>7 DEF IoreqStart, TypeOK, CallerOK
  <2>2. done[c] = asked[c] /\ ~Open(c)
    BY <1>1, <2>1 DEF Open, Preparing, CallerOK
  <2>3. /\ asked'[c] = asked[c] + 1 /\ asked[c] \in Nat
        /\ \A e \in Clients : e # c => asked'[e] = asked[e]
    BY <2>1 DEF TypeOK
  <2>4. Phase(c) = "begun" /\ Phase(c)' = "asked"
    <3>1. CASE c \in VCpus
      <4>1. vcpu[c] = "waiting"
        BY <2>1, <3>1 DEF ClientsOK
      <4> QED
        BY <2>1, <2>2, <2>3, <3>1, <4>1 DEF Phase
    <3>2. CASE c \notin VCpus
      BY <1>0, <2>1, <2>2, <2>3, <3>2 DEF Phase
    <3> QED
      BY <3>1, <3>2
  <2>5. \A e \in Clients : e # c => Phase(e)' = Phase(e)
    <3> SUFFICES ASSUME NEW e \in Clients, e # c PROVE Phase(e)' = Phase(e)
      OBVIOUS
    <3>1. CASE e \in VCpus
      BY <2>1, <2>3, <3>1 DEF Phase
    <3>2. CASE e \notin VCpus
      BY <1>0, <2>1, <2>3, <3>2 DEF Phase
    <3> QED
      BY <3>1, <3>2
  <2>6. Access!Move(c, "begun", "asked")
    BY <2>1, <2>4, <2>5, AccessMoves
  <2> QED
    BY <2>1, <2>6 DEF Access!Next, Access!Ask
<1>8. CASE NativeWait(Main)
  <2>1. /\ Main \in Natives /\ pc[Main] = "handoff" /\ pc'[Main] = "idle" /\ job' = job
        /\ sem[Main] > 0 /\ UNCHANGED <<vcpu, asked, done>>
    BY <1>0, <1>8 DEF NativeWait, TypeOK
  <2>2. job[Main] = None /\ ~Sent(Main)
    BY <2>1 DEF CallerOK, ClientsOK
  <2>3. done[Main] = asked[Main]
    BY <1>0, <1>1, <2>1, <2>2 DEF Open, Preparing
  <2>4. Phase(Main) = "answered" /\ Phase(Main)' = "idle" /\ Main \in Clients
    BY <1>0, <2>1, <2>2, <2>3 DEF Phase
  <2>5. \A e \in Clients : e # Main => Phase(e)' = Phase(e)
    BY <1>0, <2>1 DEF Phase
  <2>6. Access!Move(Main, "answered", "idle")
    BY <2>4, <2>5, AccessMoves
  <2> QED
    BY <2>1, <2>4, <2>6 DEF Access!Next, Access!End
<1>9. CASE NtfnAck
  <2>1. UNCHANGED <<pc, job, asked>> /\ npc = "ack"
    BY <1>9 DEF NtfnAck
  <2>2. PICK c \in Clients : /\ ioacks[resp.slot] = c /\ Sent(c)
                             /\ buf[resp.id] = Message(c, asked[c])
                             /\ resp.id \in InFlight /\ SlotOf(resp.id) = ClientSlot(c)
    BY <2>1, AnswerOwner
  <2>3. asked[c] \in Nat /\ buf[resp.id].n = asked[c]
    <3>1. asked[c] \in Nat
      BY DEF TypeOK
    <3> QED
      BY <2>2, <3>1, MessageDecodes, Zenon
  <2>4. /\ vcpu' = [v \in VCpus |-> IF v = c THEN "running" ELSE vcpu[v]]
        /\ done' = [done EXCEPT ![c] = asked[c]]
    BY <1>0, <1>9, <2>2, <2>3 DEF NtfnAck, ioack_vcpu
  <2>5. done[c] # asked[c] /\ done'[c] = asked[c]
        /\ \A e \in Clients : e # c => done'[e] = done[e]
    BY <1>1, <2>2, <2>4 DEF TypeOK, Open
  <2>6. \A e \in Clients : e # c => Phase(e)' = Phase(e)
    BY <2>1, <2>4, <2>5 DEF Phase
  <2>7. Access!Move(c, "asked", "answered") \/ Access!Move(c, "asked", "idle")
    <3>1. CASE c \in VCpus
      <4>1. vcpu[c] = "waiting" /\ vcpu'[c] = "running"
        BY <2>2, <2>4, <3>1 DEF ClientsOK, Open
      <4>2. Phase(c) = "asked" /\ Phase(c)' = "idle"
        BY <2>5, <3>1, <4>1 DEF Phase
      <4> QED
        BY <2>6, <4>2, AccessMoves
    <3>2. CASE c \notin VCpus
      <4>1. c = Main /\ Main \in Natives
        BY <1>0, <3>2
      <4>2. \/ pc[Main] \in {"bell", "enqueue"} /\ job[Main] = Main
            \/ pc[Main] = "handoff"
        BY <2>2, <4>1 DEF ClientsOK, Handing
      <4>3. Phase(c) = "asked" /\ Phase(c)' = "answered"
        BY <2>1, <2>5, <3>2, <4>1, <4>2 DEF Phase
      <4> QED
        BY <2>6, <4>3, AccessMoves
    <3> QED
      BY <3>1, <3>2
  <2> QED
    BY <2>1, <2>4, <2>7 DEF Access!Next, Access!Answer
<1>10. CASE DeviceStep \/ NtfnWake \/ NtfnRecv \/ NtfnClear \/ NtfnReclaim
  <2>1. UNCHANGED <<vcpu, pc, job, asked, done>>
    BY <1>10 DEF DeviceStep, DeviceWake, DeviceTake, DeviceReply, DeviceBell, NtfnWake,
                 NtfnRecv, NtfnClear, NtfnReclaim, reqVars
  <2> QED
    BY <2>1, PhaseFrame
<1>11. CASE UNCHANGED vars
  BY <1>11, PhaseFrame DEF vars, reqVars
<1>12. ASSUME Next PROVE Access!Next \/ UNCHANGED Access!vars
  <2>1. CASE \E t \in Callers : NativeSlot(t) \/ CallerStep(t)
    <3>1. NativeSlot(Main) \/ CallerStep(Main)
      BY <1>0, <2>1
    <3> QED
      BY <3>1, <1>3, <1>4, <1>5, <1>6, <1>7, <1>8 DEF CallerStep
  <2>2. CASE NtfnStep
    BY <2>2, <1>9, <1>10 DEF NtfnStep
  <2> QED
    BY <1>12, <1>2, <1>10, <2>1, <2>2 DEF Next
<1> QED
  BY <1>11, <1>12

\* The I/O proxy implements MmioAccess: every access is asked once, answered
\* once and with the answer to itself, and its client goes on only then.
THEOREM ProxyImplementsAccess ==
  OneCaller /\ EnoughBuffers /\ Spec => ImplementsAccess
<1>1. ASSUME OneCaller, Init PROVE Access!Init
  <2>1. /\ Callers = {Main} /\ None \notin Clients
        /\ \A c \in Clients : c \in VCpus \/ (c = Main /\ Main \in Natives)
    BY <1>1, ClientSlots
  <2>2. \A c \in Clients : Phase(c) = "idle"
    BY <1>1, <2>1 DEF Init, Phase
  <2>3. [c \in Clients |-> Phase(c)] = [c \in Clients |-> "idle"]
    BY <2>2
  <2> QED
    BY <1>1, <2>3 DEF Access!Init, Init
<1>2. ASSUME OneCaller, ProxyInv, [Next]_vars PROVE [Access!Next]_(Access!vars)
  BY <1>2, StepAccess
<1>3. OneCaller /\ [Next]_vars => OneCaller'
  OBVIOUS
<1>4. OneCaller /\ Spec => []OneCaller
  BY <1>3, PTL DEF Spec
<1>5. OneCaller /\ Init => Access!Init
  BY <1>1
<1>6. OneCaller /\ ProxyInv /\ [Next]_vars => [Access!Next]_(Access!vars)
  BY <1>2
<1> QED
  BY <1>4, <1>5, <1>6, ProxyInductive, PTL DEF Spec, ImplementsAccess, Access!Spec
===============================================================================
