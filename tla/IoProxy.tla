------------------------------- MODULE IoProxy -------------------------------
(***************************************************************************)
(* The request-reply path of one I/O proxy: ioreq_start and ioreq_native   *)
(* (src/io_proxy.c) turn a guest access into a request message, the device *)
(* VM answers in any order, and the notification thread runs rpc_run       *)
(* (src/libsel4vm_glue.c), which completes the access and gives the        *)
(* message buffer back.                                                    *)
(*                                                                         *)
(* Three parties run concurrently: the threads that start requests (the    *)
(* VMM main thread, which serves the faults of all vCPUs, and any thread   *)
(* that calls ioreq_native), the notification thread, and the device VM.   *)
(* The queues are FIFO sequences of message ids: module RpcQueue is what   *)
(* justifies that.                                                         *)
(***************************************************************************)
EXTENDS Integers, Sequences, FiniteSets, FiniteSetsExt

CONSTANTS
  VCpus,         \* vcpu_id of every vCPU, also its slot in ioacks
  Main,          \* the VMM main thread
  Natives,       \* threads that call ioreq_native
  NativeBase,    \* SEL4_MMIO_NATIVE_BASE
  NumSlots,      \* ARRAY_SIZE(io_proxy->ioacks)
  BufferSize,    \* RPCMSG_BUFFER_SIZE
  MaxRequests,   \* bound: requests started during a run
  None           \* NULL

ASSUME IoProxyAssumption ==
  /\ NativeBase \in Nat \ {0} /\ NumSlots \in 0 .. 64 /\ NativeBase < NumSlots
  /\ VCpus \subseteq 0 .. NativeBase - 1
  /\ VCpus \cap Natives = {} /\ None \notin VCpus \cup Natives
  /\ BufferSize \in Nat \ {0}
  /\ MaxRequests \in Nat

Callers == {Main} \cup Natives
Clients == VCpus \cup Natives
Slots   == 0 .. NumSlots - 1
Ids     == 0 .. BufferSize - 1

VARIABLES
  vcpu,      \* per vCPU: running, faulted (main not told yet), waiting
  pc,        \* per caller: where it is in ioreq_start / ioreq_native
  job,       \* per caller: the client it starts a request for
  slot,      \* per caller: local `slot`
  tmp,       \* per caller: free_native_slot read, then the buffer id found
  tls,       \* per native thread: ioreq_native_data.slot, 0 when unset
  freeSlot,  \* free_native_slot
  ioacks,    \* per slot: cookie of the pending callback, None when NULL
  lent,      \* rpc.driver_rpc.buffer_state, the set of bits that are on
  buf,       \* per id: the message, [mr0, n]
  reqQ,      \* request queue: ids
  respQ,     \* response queue: ids
  held,      \* ids the device VM has taken and not answered
  bellOut,   \* notification to the device VM is pending
  draining,  \* the device VM is emptying the request queue
  owed,      \* the device VM has replied and not yet rung
  bellIn,    \* notification to the VMM is pending
  npc,       \* notification thread: where it is in rpc_run
  resp,      \* notification thread: the response in hand, [id, slot]
  sem,       \* per native thread: count of the handoff semaphore
  asked,     \* per client: number of its last request
  done,      \* per client: number its last completion carried
  failed     \* None, or the assertion or fault that stopped the VMM

reqVars  == <<vcpu, pc, job, slot, tmp, tls, freeSlot, asked>>
devVars  == <<held, draining, owed>>
ntfnVars == <<npc, resp>>
vars == <<reqVars, devVars, ntfnVars, ioacks, lent, buf, reqQ, respQ,
          bellOut, bellIn, sem, done, failed>>

NoResp == [id |-> 0, slot |-> 0]

\* vso_driver_rpc_init of the driver VM: request and response queue empty and
\* the messages zeroed; buffer_state is static data.
vso_driver_rpc_init ==
  /\ reqQ = <<>> /\ respQ = <<>>
  /\ buf = [i \in Ids |-> [mr0 |-> 0, n |-> 0]]
  /\ lent = {}

\* State after libsel4vm_io_proxy_init: no callback pending, no native slot
\* given out.
Init ==
  /\ vso_driver_rpc_init
  /\ vcpu = [v \in VCpus |-> "running"]
  /\ pc = [t \in Callers |-> "idle"]
  /\ job = [t \in Callers |-> None]
  /\ slot = [t \in Callers |-> 0]
  /\ tmp = [t \in Callers |-> 0]
  /\ tls = [t \in Natives |-> 0]
  /\ freeSlot = NativeBase
  /\ ioacks = [s \in Slots |-> None]
  /\ held = {} /\ draining = FALSE /\ owed = FALSE
  /\ bellOut = FALSE /\ bellIn = FALSE
  /\ npc = "wait" /\ resp = NoResp
  /\ sem = [t \in Natives |-> 0]
  /\ asked = [c \in Clients |-> 0]
  /\ done = [c \in Clients |-> 0]
  /\ failed = None

---------------------------------------------------------------------------
(* The first message register: fields of `size` values, in units of the    *)
(* fields below.                                                           *)

OP == [unit |-> 1, size |-> 64]

SLOT_OneBit == [unit |-> OP.unit * OP.size, size |-> 2]

SLOT       == [unit |-> OP.unit * OP.size, size |-> 64]
DIRECTION  == [unit |-> SLOT.unit * SLOT.size, size |-> 2]
ADDR_SPACE == [unit |-> DIRECTION.unit * DIRECTION.size, size |-> 256]
LENGTH     == [unit |-> ADDR_SPACE.unit * ADDR_SPACE.size, size |-> 16]

QEMU_OP_MMIO == 0
AS_GLOBAL    == ADDR_SPACE.size - 1

BIT_FIELD_GET(v, f) == (v \div f.unit) % f.size
BIT_FIELD_SET(v, f, n) == v + ((n % f.size) - BIT_FIELD_GET(v, f)) * f.unit

\* driver_rpc_req_mmio_start and driver_rpc_request.
mmio_mr0(s, dir, as, len) ==
  LET withDir == BIT_FIELD_SET(0, DIRECTION, dir)
      withAs  == BIT_FIELD_SET(withDir, ADDR_SPACE, as)
      withLen == BIT_FIELD_SET(withAs, LENGTH, len) IN
  BIT_FIELD_SET(BIT_FIELD_SET(withLen, SLOT, s), OP, QEMU_OP_MMIO)

\* What the client of request n asks for, as small choices: reads and writes
\* take turns; a vCPU accesses eight bytes of the global address space, and
\* pci_cfg_read8 to pci_cfg_write32 one, two or four bytes of a PCI slot's.
Direction(n)    == n % 2
AddressSpace(c) == IF c \in VCpus THEN AS_GLOBAL ELSE 31
AccessSize(c, n) == IF c \in VCpus THEN 8 ELSE <<1, 2, 4>>[(n % 3) + 1]

---------------------------------------------------------------------------
(* Starting a request *)

\* Where a client is in its access, see MmioAccess.
Phase(c) ==
  IF c \in VCpus THEN
    IF vcpu[c] = "running" THEN "idle"
    ELSE IF done[c] = asked[c] THEN "begun" ELSE "asked"
  ELSE IF job[c] = c /\ pc[c] \in {"bump", "start"} THEN "begun"
  ELSE IF job[c] = c \/ pc[c] = "handoff" THEN
    IF done[c] = asked[c] THEN "answered" ELSE "asked"
  ELSE "idle"

\* Bound on the length of a run.
Budget ==
  MapThenSumSet(LAMBDA c : asked[c], Clients)
    + Cardinality({c \in Clients : Phase(c) = "begun"}) < MaxRequests

\* External: the guest touches an emulated region; the kernel delivers the
\* fault to the VMM.
GuestFault(v) ==
  /\ vcpu[v] = "running" /\ Budget
  /\ vcpu' = [vcpu EXCEPT ![v] = "faulted"]
  /\ UNCHANGED <<pc, job, slot, tmp, tls, freeSlot, asked, devVars, ntfnVars,
                 ioacks, lent, buf, reqQ, respQ, bellOut, bellIn, sem, done,
                 failed>>

\* mmio_fault_handler calls ioreq_start with the vcpu_id as slot.
MmioFault(v) ==
  /\ vcpu[v] = "faulted" /\ pc[Main] = "idle"
  /\ vcpu' = [vcpu EXCEPT ![v] = "waiting"]
  /\ job' = [job EXCEPT ![Main] = v]
  /\ slot' = [slot EXCEPT ![Main] = v]
  /\ pc' = [pc EXCEPT ![Main] = "start"]
  /\ UNCHANGED <<tmp, tls, freeSlot, asked, devVars, ntfnVars, ioacks, lent,
                 buf, reqQ, respQ, bellOut, bellIn, sem, done, failed>>

\* ioreq_native: ioreq_native_slot returns the thread's slot, fails when the
\* slots have run out, or reads free_native_slot ...
NativeSlot(t) ==
  /\ t \in Natives /\ pc[t] = "idle" /\ Budget
  /\ IF tls[t] # 0 THEN
       /\ pc' = [pc EXCEPT ![t] = "start"]
       /\ job' = [job EXCEPT ![t] = t]
       /\ slot' = [slot EXCEPT ![t] = tls[t]]
       /\ UNCHANGED tmp
     ELSE IF freeSlot >= NumSlots THEN UNCHANGED <<pc, job, slot, tmp>>
     ELSE
       /\ pc' = [pc EXCEPT ![t] = "bump"]
       /\ job' = [job EXCEPT ![t] = t]
       /\ tmp' = [tmp EXCEPT ![t] = freeSlot]
       /\ UNCHANGED slot
  /\ UNCHANGED <<vcpu, tls, freeSlot, asked, devVars, ntfnVars, ioacks, lent,
                 buf, reqQ, respQ, bellOut, bellIn, sem, done, failed>>

\* ... and stores it back incremented: two accesses, not one atomic step.
NativeBump(t) ==
  /\ t \in Natives /\ pc[t] = "bump"
  /\ tls' = [tls EXCEPT ![t] = tmp[t]]
  /\ slot' = [slot EXCEPT ![t] = tmp[t]]
  /\ freeSlot' = tmp[t] + 1
  /\ tmp' = [tmp EXCEPT ![t] = 0]
  /\ pc' = [pc EXCEPT ![t] = "start"]
  /\ UNCHANGED <<vcpu, job, asked, devVars, ntfnVars, ioacks, lent, buf,
                 reqQ, respQ, bellOut, bellIn, sem, done, failed>>

\* ioreq_start up to the call of driver_rpc_req_mmio_start.
IoreqStart(t) ==
  /\ pc[t] = "start"
  /\ IF ioacks[slot[t]] # None
       THEN failed' = "callback still set" /\ UNCHANGED <<ioacks, asked, pc>>
       ELSE /\ ioacks' = [ioacks EXCEPT ![slot[t]] = job[t]]
            /\ asked' = [asked EXCEPT ![job[t]] = @ + 1]
            /\ pc' = [pc EXCEPT ![t] = "lend"]
            /\ UNCHANGED failed
  /\ UNCHANGED <<vcpu, job, slot, tmp, tls, freeSlot, devVars, ntfnVars, lent,
                 buf, reqQ, respQ, bellOut, bellIn, sem, done>>

FreeIds == Ids \ lent

\* rpcmsg_lend_buffer: find_first_zero_bit ...  rpcmsg_request writes through
\* the pointer without looking whether it is NULL.
LendFind(t) ==
  /\ pc[t] = "lend"
  /\ IF FreeIds = {}
       THEN failed' = "no buffer" /\ UNCHANGED <<tmp, pc>>
       ELSE /\ tmp' = [tmp EXCEPT ![t] = Min(FreeIds)]
            /\ pc' = [pc EXCEPT ![t] = "mark"]
            /\ UNCHANGED failed
  /\ UNCHANGED <<vcpu, job, slot, tls, freeSlot, asked, devVars, ntfnVars,
                 ioacks, lent, buf, reqQ, respQ, bellOut, bellIn, sem, done>>

\* ... then set_bit, and rpcmsg_request fills the message in.
LendMark(t) ==
  /\ pc[t] = "mark"
  /\ lent' = lent \cup {tmp[t]}
  /\ LET n == asked[job[t]] IN
     buf' = [buf EXCEPT ![tmp[t]] =
               [mr0 |-> mmio_mr0(slot[t], Direction(n), AddressSpace(job[t]),
                                 AccessSize(job[t], n)),
                n   |-> n]]
  /\ pc' = [pc EXCEPT ![t] = "enqueue"]
  /\ UNCHANGED <<vcpu, job, slot, tmp, tls, freeSlot, asked, devVars, ntfnVars,
                 ioacks, reqQ, respQ, bellOut, bellIn, sem, done, failed>>

\* The locals of ioreq_start go out of scope.
EndOfStart(t) ==
  /\ job' = [job EXCEPT ![t] = None]
  /\ slot' = [slot EXCEPT ![t] = 0]
  /\ tmp' = [tmp EXCEPT ![t] = 0]

\* rpcmsg_enqueue on the request queue.  When it is full the buffer is taken
\* back and the call fails; the callback stays set.  A fault handler that
\* fails stops the VM; pci_cfg_start returns 0 to the guest.
Enqueue(t) ==
  /\ pc[t] = "enqueue"
  /\ IF Len(reqQ) < BufferSize
       THEN /\ reqQ' = Append(reqQ, tmp[t])
            /\ pc' = [pc EXCEPT ![t] = "bell"]
            /\ UNCHANGED <<lent, job, slot, tmp, failed>>
       ELSE /\ lent' = lent \ {tmp[t]}
            /\ pc' = [pc EXCEPT ![t] = "idle"]
            /\ failed' = IF job[t] \in VCpus THEN "queue full" ELSE failed
            /\ EndOfStart(t)
            /\ UNCHANGED reqQ
  /\ UNCHANGED <<vcpu, tls, freeSlot, asked, devVars, ntfnVars, ioacks, buf,
                 respQ, bellOut, bellIn, sem, done>>

Doorbell_NoWait(t) ==
  /\ pc[t] = "bell"
  /\ bellOut' = TRUE
  /\ pc' = [pc EXCEPT ![t] = "idle"]
  /\ EndOfStart(t)
  /\ UNCHANGED <<vcpu, tls, freeSlot, asked, devVars, ntfnVars, ioacks, lent,
                 buf, reqQ, respQ, bellIn, sem, done, failed>>

\* vso_doorbell.  A fault handler then returns to vm_run; a native caller
\* goes on to ioreq_native_wait.
Doorbell(t) ==
  /\ pc[t] = "bell"
  /\ bellOut' = TRUE
  /\ pc' = [pc EXCEPT ![t] = IF job[t] \in VCpus THEN "idle" ELSE "handoff"]
  /\ EndOfStart(t)
  /\ UNCHANGED <<vcpu, tls, freeSlot, asked, devVars, ntfnVars, ioacks, lent,
                 buf, reqQ, respQ, bellIn, sem, done, failed>>

\* sync_sem_wait in ioreq_native_wait.
NativeWait(t) ==
  /\ t \in Natives /\ pc[t] = "handoff" /\ sem[t] > 0
  /\ sem' = [sem EXCEPT ![t] = @ - 1]
  /\ pc' = [pc EXCEPT ![t] = "idle"]
  /\ UNCHANGED <<vcpu, job, slot, tmp, tls, freeSlot, asked, devVars, ntfnVars,
                 ioacks, lent, buf, reqQ, respQ, bellOut, bellIn, done, failed>>

---------------------------------------------------------------------------
(* The device VM: external, as the comments and calls in rpc.h use it *)

\* Its doorbell handler empties the request queue ...
DeviceWake ==
  /\ bellOut /\ ~draining
  /\ bellOut' = FALSE /\ draining' = TRUE
  /\ UNCHANGED <<reqVars, held, owed, ntfnVars, ioacks, lent, buf, reqQ, respQ,
                 bellIn, sem, done, failed>>

DeviceTake ==
  /\ draining
  /\ IF reqQ = <<>>
       THEN draining' = FALSE /\ UNCHANGED <<held, reqQ>>
       ELSE /\ held' = held \cup {Head(reqQ)}
            /\ reqQ' = Tail(reqQ)
            /\ UNCHANGED draining
  /\ UNCHANGED <<reqVars, owed, ntfnVars, ioacks, lent, buf, respQ, bellOut,
                 bellIn, sem, done, failed>>

\* ... and answers what it holds in any order: driver_rpc_ack_mmio_finish
\* enqueues the same message id, then rings.
DeviceReply ==
  /\ ~owed
  /\ \E i \in held : held' = held \ {i} /\ respQ' = Append(respQ, i)
  /\ owed' = TRUE
  /\ UNCHANGED <<reqVars, draining, ntfnVars, ioacks, lent, buf, reqQ, bellOut,
                 bellIn, sem, done, failed>>

DeviceBell ==
  /\ owed
  /\ owed' = FALSE /\ bellIn' = TRUE
  /\ UNCHANGED <<reqVars, held, draining, ntfnVars, ioacks, lent, buf, reqQ,
                 respQ, bellOut, sem, done, failed>>

---------------------------------------------------------------------------
(* The notification thread *)

\* ntfn_callback registers itself again, then calls rpc_run: a notification
\* that arrives during rpc_run stays pending.
NtfnWake ==
  /\ npc = "wait" /\ bellIn
  /\ bellIn' = FALSE
  /\ npc' = "recv"
  /\ UNCHANGED <<reqVars, devVars, resp, ioacks, lent, buf, reqQ, respQ,
                 bellOut, sem, done, failed>>

\* What handle_mmio takes from the message: the slot to finish.
handle_mmio(i) == [id |-> i, slot |-> BIT_FIELD_GET(buf[i].mr0, SLOT)]

\* rpcmsg_receive_response; rpc_run returns when there is none.
NtfnRecv ==
  /\ npc = "recv"
  /\ IF respQ = <<>>
       THEN npc' = "wait" /\ UNCHANGED <<respQ, resp>>
       ELSE /\ respQ' = Tail(respQ)
            /\ resp' = handle_mmio(Head(respQ))
            /\ npc' = "ack"
  /\ UNCHANGED <<reqVars, devVars, ioacks, lent, buf, reqQ, bellOut, bellIn,
                 sem, done, failed>>

\* ioack_vcpu_read, ioack_vcpu_write: advance the fault of the vCPU, if the
\* cookie is one, and so let it run.
ioack_vcpu(c) ==
  vcpu' = [v \in VCpus |-> IF v = c THEN "running" ELSE vcpu[v]]

ioack_native_PostsTwice(c) ==
  sem' = [t \in Natives |-> IF t = c THEN sem[t] + 2 ELSE sem[t]]

\* ioack_native_read, ioack_native_write: post the thread's semaphore.
ioack_native(c) ==
  sem' = [t \in Natives |-> IF t = c THEN sem[t] + 1 ELSE sem[t]]

\* ioreq_finish up to the return of the callback.
NtfnAck ==
  LET c == ioacks[resp.slot] IN
  /\ npc = "ack"
  /\ IF c = None
       THEN failed' = "no callback" /\ UNCHANGED <<vcpu, sem, done, npc>>
       ELSE /\ ioack_vcpu(c)
            /\ ioack_native(c)
            /\ done' = [done EXCEPT ![c] = buf[resp.id].n]
            /\ npc' = "clear"
            /\ UNCHANGED failed
  /\ UNCHANGED <<pc, job, slot, tmp, tls, freeSlot, asked, devVars, resp,
                 ioacks, lent, buf, reqQ, respQ, bellOut, bellIn>>

NtfnClear_Forgotten ==
  /\ npc = "clear"
  /\ npc' = "reclaim"
  /\ UNCHANGED <<reqVars, devVars, resp, ioacks, lent, buf, reqQ, respQ,
                 bellOut, bellIn, sem, done, failed>>

\* ioack->callback = NULL, after the callback has run.
NtfnClear ==
  /\ npc = "clear"
  /\ ioacks' = [ioacks EXCEPT ![resp.slot] = None]
  /\ npc' = "reclaim"
  /\ UNCHANGED <<reqVars, devVars, resp, lent, buf, reqQ, respQ, bellOut,
                 bellIn, sem, done, failed>>

NtfnReclaim_Forgotten ==
  /\ npc = "reclaim"
  /\ npc' = "recv"
  /\ UNCHANGED <<reqVars, devVars, resp, ioacks, lent, buf, reqQ, respQ,
                 bellOut, bellIn, sem, done, failed>>

NtfnReclaim_OneResponse ==
  /\ npc = "reclaim"
  /\ lent' = lent \ {resp.id}
  /\ npc' = "wait"
  /\ UNCHANGED <<reqVars, devVars, resp, ioacks, buf, reqQ, respQ, bellOut,
                 bellIn, sem, done, failed>>

\* The loop step of for_each_rpc_resp: rpcmsg_reclaim_buffer.
NtfnReclaim ==
  /\ npc = "reclaim"
  /\ lent' = lent \ {resp.id}
  /\ npc' = "recv"
  /\ resp' = NoResp
  /\ UNCHANGED <<reqVars, devVars, ioacks, buf, reqQ, respQ, bellOut,
                 bellIn, sem, done, failed>>

---------------------------------------------------------------------------

CallerStep(t) ==
  \/ NativeBump(t) \/ IoreqStart(t) \/ LendFind(t) \/ LendMark(t)
  \/ Enqueue(t) \/ Doorbell(t) \/ NativeWait(t)
  \/ t = Main /\ \E v \in VCpus : MmioFault(v)

DeviceStep == DeviceWake \/ DeviceTake \/ DeviceReply \/ DeviceBell

NtfnStep == NtfnWake \/ NtfnRecv \/ NtfnAck \/ NtfnClear \/ NtfnReclaim

\* A failed assertion stops the VMM process.
Next ==
  /\ failed = None
  /\ \/ \E v \in VCpus : GuestFault(v)
     \/ \E t \in Callers : NativeSlot(t) \/ CallerStep(t)
     \/ DeviceStep
     \/ NtfnStep

Spec == Init /\ [][Next]_vars

\* Threads inside a call, the notification thread and the device VM keep
\* being scheduled.  Nobody has to fault or to call ioreq_native.
Fairness ==
  /\ \A t \in Callers : WF_vars(failed = None /\ CallerStep(t))
  /\ WF_vars(failed = None /\ DeviceStep)
  /\ WF_vars(failed = None /\ NtfnStep)

FairSpec == Spec /\ Fairness

---------------------------------------------------------------------------
(* Properties *)

\* Every variable keeps its range; a handoff semaphore is posted at most once
\* per ioreq_native.
TypeOK ==
  /\ vcpu \in [VCpus -> {"running", "faulted", "waiting"}]
  /\ pc \in [Callers -> {"idle", "bump", "start", "lend", "mark", "enqueue",
                         "bell", "handoff"}]
  /\ job \in [Callers -> Clients \cup {None}]
  /\ slot \in [Callers -> Slots]
  /\ tmp \in [Callers -> Slots \cup Ids]
  /\ tls \in [Natives -> Slots]
  /\ freeSlot \in NativeBase .. NumSlots
  /\ ioacks \in [Slots -> Clients \cup {None}]
  /\ lent \subseteq Ids
  /\ buf \in [Ids -> [mr0 : Nat, n : Nat]]
  /\ reqQ \in Seq(Ids) /\ respQ \in Seq(Ids) /\ held \subseteq Ids
  /\ {bellOut, draining, owed, bellIn} \subseteq BOOLEAN
  /\ npc \in {"wait", "recv", "ack", "clear", "reclaim"}
  /\ resp \in [id : Ids, slot : Slots]
  /\ sem \in [Natives -> 0 .. 1]
  /\ asked \in [Clients -> Nat]
  /\ done \in [Clients -> Nat]
  /\ failed \in {None, "callback still set", "no buffer", "queue full",
                 "no callback"}

Count(q, i) == Cardinality({k \in DOMAIN q : q[k] = i})

\* How many places hold message id i.
Uses(i) ==
  Cardinality({t \in Callers : pc[t] = "enqueue" /\ tmp[t] = i})
    + Count(reqQ, i) + (IF i \in held THEN 1 ELSE 0) + Count(respQ, i)
    + (IF npc \in {"ack", "clear", "reclaim"} /\ resp.id = i THEN 1 ELSE 0)

\* A message buffer is lent for exactly one request-reply sequence: its bit
\* in buffer_state is on while one party holds the id, and off otherwise,
\* although the main thread lends while the notification thread reclaims.
BufferLentOnce ==
  \A i \in Ids : Uses(i) = IF i \in lent THEN 1 ELSE 0

\* Message ids of the requests that still have to be acknowledged.
InFlight ==
  {tmp[t] : t \in {u \in Callers : pc[u] = "enqueue"}}
    \cup {reqQ[k] : k \in DOMAIN reqQ} \cup held
    \cup {respQ[k] : k \in DOMAIN respQ}
    \cup (IF npc = "ack" THEN {resp.id} ELSE {})

\* Answers arrive out of order; each message decodes to the slot, address
\* space, direction and length its client put in, finds the client's callback
\* pending in that slot, and carries the number of that client's latest
\* request.
AnswersMatch ==
  \A i \in InFlight :
    LET mr0 == buf[i].mr0
        s   == BIT_FIELD_GET(mr0, SLOT) IN
    /\ BIT_FIELD_GET(mr0, OP) = QEMU_OP_MMIO
    /\ s \in Slots /\ ioacks[s] # None
    /\ buf[i].n = asked[ioacks[s]]
    /\ BIT_FIELD_GET(mr0, ADDR_SPACE) = AddressSpace(ioacks[s])
    /\ BIT_FIELD_GET(mr0, DIRECTION) = Direction(buf[i].n)
    /\ BIT_FIELD_GET(mr0, LENGTH) = AccessSize(ioacks[s], buf[i].n)

\* The VMM never runs out of message buffers or queue entries and never gets
\* an answer nobody waits for; the only assertion that can fail is the one in ioreq_start, and
\* only while the notification thread is between a slot's callback and the
\* reset of that slot.
FailsOnlyInAckWindow ==
  failed # None =>
    /\ failed = "callback still set"
    /\ npc = "clear"
    /\ \E t \in Callers : pc[t] = "start" /\ slot[t] = resp.slot

Access == INSTANCE MmioAccess WITH phase <- [c \in Clients |-> Phase(c)]

\* Seen from its clients the proxy is MmioAccess: every access is asked once
\* and answered once, with the answer to itself and never with an older one,
\* and a vCPU runs, or ioreq_native returns, only after that.
ImplementsAccess == Access!Spec

\* rpc_assert(ioack->callback == NULL) in ioreq_start holds.
CallbackFree == failed # "callback still set"

\* Every faulted vCPU runs again and every ioreq_native returns, although one
\* doorbell may stand for several replies and the main thread blocks in
\* ioreq_native_wait: unless the assertion in ioreq_start stops the VMM.
Served ==
  /\ \A v \in VCpus :
       vcpu[v] = "faulted" ~> (vcpu[v] = "running" \/ failed # None)
  /\ \A t \in Natives : pc[t] = "handoff" ~> (pc[t] = "idle" \/ failed # None)
==============================================================================
