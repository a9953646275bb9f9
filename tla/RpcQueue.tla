------------------------------- MODULE RpcQueue -------------------------------
(***************************************************************************)
(* The multi-producer multi-consumer ring of include/sel4/rpc_queue.h:     *)
(* rpcmsg_enqueue and rpcmsg_dequeue, one atomic memory access per step.   *)
(*                                                                         *)
(* The queue has two bounds, prod and cons.  A thread claims an entry by a *)
(* compare-and-swap on the bound's tail, copies one ring element, and      *)
(* commits by a compare-and-swap on the bound's head.  A marker is a       *)
(* (pos, count) pair read and written as one 64-bit word.                  *)
(*                                                                         *)
(* Positions and counts are uint32_t in the code.  Here a marker keeps the *)
(* unwrapped number and every comparison the code makes is made on its low *)
(* 32 bits (Sub32, Same32), so wrap-around is part of the model.           *)
(*                                                                         *)
(* A ring cell holds a uint16_t message id in the code.  The model stores  *)
(* the ticket (claimed position) of the enqueue that wrote the cell, which *)
(* tells apart two enqueues of the same id.                                *)
(***************************************************************************)
EXTENDS Integers, FiniteSets

CONSTANTS
  Producers,      \* threads that call rpcmsg_enqueue
  Consumers,      \* threads that call rpcmsg_dequeue
  KernelThreads,  \* threads built with __KERNEL__ (the Linux module)
  MultiCore,      \* KernelMaxNumNodes > 1: other cores see stores reordered
  BufferSize,     \* RPCMSG_BUFFER_SIZE
  Word,           \* 2^32, the range of pos and count
  InitPos,        \* operations of each kind completed before the run starts
  MaxOps          \* bound: enqueues that claim an entry during the run

Threads == Producers \cup Consumers

ASSUME QueueAssumption ==
  /\ IsFiniteSet(Producers) /\ IsFiniteSet(Consumers)
  /\ Producers \cap Consumers = {}
  /\ KernelThreads \subseteq Threads
  /\ MultiCore \in BOOLEAN
  /\ BufferSize \in Nat \ {0}
  /\ Word \in Nat
  /\ Word > BufferSize + 1
  /\ Word % BufferSize = 0
  /\ InitPos \in Nat
  /\ MaxOps \in Nat

VARIABLES
  tail,   \* per bound: marker of the next entry to claim
  head,   \* per bound: marker of the committed entries
  ring,   \* per slot: ticket of the enqueue whose id the cell holds
  pend,   \* per producer: ring store not yet visible to other cores
  pc,     \* per thread: where it is in the call
  ot,     \* per thread: local `ot`, the snapshot of tail, then the claim
  oh,     \* per thread: local `oh`, the snapshot of head
  nt,     \* per thread: local `t` of rpcmsg_commit_update
  got     \* per consumer: the ring element it copied

vars == <<tail, head, ring, pend, pc, ot, oh, nt, got>>

Bounds == {"prod", "cons"}
Slots  == 0 .. BufferSize - 1
None   == -1

Other(b) == IF b = "prod" THEN "cons" ELSE "prod"
Bound(p) == IF p \in Producers THEN "prod" ELSE "cons"
Team(b)  == IF b = "prod" THEN Producers ELSE Consumers

Marker(n)   == [pos |-> n, count |-> n]
NoMarker    == Marker(0)
RPCMSG_HTD_MAX == BufferSize \div 4

\* uint32_t subtraction and equality on unwrapped numbers.
Sub32(a, b)  == (a - b) % Word
Same32(a, b) == Sub32(a, b) = 0

\* Equality of two markers as the 64-bit words a compare-and-swap compares.
SameRaw(m, n) == Same32(m.pos, n.pos) /\ Same32(m.count, n.count)

\* entry & RPCMSG_BUFFER_MASK of a uint32_t entry, the buffer size being a
\* power of two.
RingIndex(entry) == (entry % Word) % BufferSize

---------------------------------------------------------------------------

\* rpcmsg_queue_init: memset to zero (InitPos = 0), or the same queue after
\* InitPos enqueues and dequeues have all completed.
Init ==
  /\ tail = [b \in Bounds |-> Marker(InitPos)]
  /\ head = [b \in Bounds |-> Marker(InitPos)]
  /\ ring = [i \in Slots |-> None]
  /\ pend = [p \in Producers |-> None]
  /\ pc   = [p \in Threads |-> "idle"]
  /\ ot   = [p \in Threads |-> NoMarker]
  /\ oh   = [p \in Threads |-> NoMarker]
  /\ nt   = [p \in Threads |-> NoMarker]
  /\ got  = [c \in Consumers |-> None]

Acquiring(p)   == pc[p] \in {"wait", "reload", "check", "cas"}
Outstanding(p) == pc[p] \in {"copy", "load", "tail", "commit"}
Owners(b)      == {p \in Team(b) : Outstanding(p)}
Ticket(p)      == ot[p].pos

\* Bound on the length of a run: at most MaxOps entries are ever claimed.
Budget ==
  tail["prod"].pos - InitPos
    + Cardinality({p \in Producers : Acquiring(p)}) < MaxOps

\* Entry of rpcmsg_enqueue / rpcmsg_dequeue: load the tail.
AcquireLoad(p) ==
  /\ pc[p] = "idle"
  /\ p \in Producers => Budget
  /\ ot' = [ot EXCEPT ![p] = tail[Bound(p)]]
  /\ pc' = [pc EXCEPT ![p] = "wait"]
  /\ UNCHANGED <<tail, head, ring, pend, oh, nt, got>>

TooFar_Never(snap, b) == FALSE

\* tail->marker.pos - bound->head.marker.pos > RPCMSG_HTD_MAX
TooFar(snap, b) == Sub32(snap.pos, head[b].pos) > RPCMSG_HTD_MAX

\* rpcmsg_tail_wait: one evaluation of the loop condition ...
TailWait(p) ==
  /\ pc[p] = "wait"
  /\ pc' = [pc EXCEPT ![p] = IF TooFar(ot[p], Bound(p)) THEN "reload"
                                                        ELSE "check"]
  /\ UNCHANGED <<tail, head, ring, pend, ot, oh, nt, got>>

\* ... and the reload in its body.
TailReload(p) ==
  /\ pc[p] = "reload"
  /\ ot' = [ot EXCEPT ![p] = tail[Bound(p)]]
  /\ pc' = [pc EXCEPT ![p] = "wait"]
  /\ UNCHANGED <<tail, head, ring, pend, oh, nt, got>>

Entries_ClaimedIsFree(b, pos) ==
  IF b = "prod" THEN Sub32(BufferSize + tail["cons"].pos, pos)
                ELSE Sub32(head["prod"].pos, pos)

Entries_ClaimedIsFilled(b, pos) ==
  IF b = "prod" THEN Sub32(BufferSize + head["cons"].pos, pos)
                ELSE Sub32(tail["prod"].pos, pos)

Entries_OneTooFew(b, pos) ==
  IF b = "prod" THEN Sub32(BufferSize - 1 + head["cons"].pos, pos)
                ELSE Sub32(head["prod"].pos, pos)

\* Free entries for a producer, filled ones for a consumer.
Entries(b, pos) ==
  IF b = "prod" THEN Sub32(BufferSize + head["cons"].pos, pos)
                ELSE Sub32(head["prod"].pos, pos)

\* The locals of a call go out of scope when it returns.
Return(p) ==
  /\ pc'  = [pc EXCEPT ![p] = "idle"]
  /\ ot'  = [ot EXCEPT ![p] = NoMarker]
  /\ oh'  = [oh EXCEPT ![p] = NoMarker]
  /\ nt'  = [nt EXCEPT ![p] = NoMarker]
  /\ got' = [c \in Consumers |-> IF c = p THEN None ELSE got[c]]

\* No entries: the call returns -1 (full, empty).
AcquireFail(p) ==
  /\ pc[p] = "check"
  /\ Entries(Bound(p), ot[p].pos) = 0
  /\ Return(p)
  /\ UNCHANGED <<tail, head, ring, pend>>

AcquireCheck(p) ==
  /\ pc[p] = "check"
  /\ Entries(Bound(p), ot[p].pos) # 0
  /\ pc' = [pc EXCEPT ![p] = "cas"]
  /\ UNCHANGED <<tail, head, ring, pend, ot, oh, nt, got>>

CasFailed_NeverReloads(p, expected, found) == expected

\* atomic_compare_and_swap that fails: the user build stores the value found
\* into the expected word, the kernel build leaves the expected word alone.
CasFailed(p, expected, found) == IF p \in KernelThreads THEN expected ELSE found

\* Bound: nobody sleeps inside the acquire loop while the others claim
\* 2^32 - RPCMSG_BUFFER_SIZE entries, which would make its snapshot ambiguous.
NotLapped(b, n) ==
  \A q \in Team(b) : Acquiring(q) => n + BufferSize - ot[q].pos < Word

AcquireCas(p) ==
  LET b == Bound(p) IN
  /\ pc[p] = "cas"
  /\ IF SameRaw(tail[b], ot[p])
       THEN /\ NotLapped(b, ot[p].pos + 1)
            /\ tail' = [tail EXCEPT ![b] = [pos   |-> ot[p].pos + 1,
                                            count |-> ot[p].count + 1]]
            /\ pc' = [pc EXCEPT ![p] = "copy"]
            /\ UNCHANGED ot
       ELSE /\ ot' = [ot EXCEPT ![p] = CasFailed(p, ot[p], tail[b])]
            /\ pc' = [pc EXCEPT ![p] = "wait"]
            /\ UNCHANGED tail
  /\ UNCHANGED <<head, ring, pend, oh, nt, got>>

\* The commit of the user build is an acquire, not a release: on several
\* cores the ring store of a user thread may become visible after it.
Reorders(p) == MultiCore /\ p \notin KernelThreads

EnqueueElem_NextCell(p) ==
  /\ p \in Producers /\ pc[p] = "copy"
  /\ ring' = [ring EXCEPT ![RingIndex(Ticket(p) + 1)] = Ticket(p)]
  /\ pc' = [pc EXCEPT ![p] = "load"]
  /\ UNCHANGED <<tail, head, pend, ot, oh, nt, got>>

\* rpcmsg_rpc_enqueue_fn, rpcmsg_event_enqueue_fn
EnqueueElem(p) ==
  /\ p \in Producers /\ pc[p] = "copy"
  /\ IF Reorders(p)
       THEN /\ pend[p] = None
            /\ pend' = [pend EXCEPT ![p] = Ticket(p)]
            /\ UNCHANGED ring
       ELSE /\ ring' = [ring EXCEPT ![RingIndex(Ticket(p))] = Ticket(p)]
            /\ UNCHANGED pend
  /\ pc' = [pc EXCEPT ![p] = "load"]
  /\ UNCHANGED <<tail, head, ot, oh, nt, got>>

\* The delayed ring store reaches the other cores.
StoreLands(p) ==
  /\ p \in Producers /\ pend[p] # None
  /\ ring' = [ring EXCEPT ![RingIndex(pend[p])] = pend[p]]
  /\ pend' = [pend EXCEPT ![p] = None]
  /\ UNCHANGED <<tail, head, pc, ot, oh, nt, got>>

\* rpcmsg_rpc_dequeue_fn, rpcmsg_event_dequeue_fn
DequeueElem(p) ==
  /\ p \in Consumers /\ pc[p] = "copy"
  /\ got' = [got EXCEPT ![p] = ring[RingIndex(Ticket(p))]]
  /\ pc' = [pc EXCEPT ![p] = "load"]
  /\ UNCHANGED <<tail, head, ring, pend, ot, oh, nt>>

\* rpcmsg_commit_update
CommitLoadHead(p) ==
  /\ pc[p] = "load"
  /\ oh' = [oh EXCEPT ![p] = head[Bound(p)]]
  /\ pc' = [pc EXCEPT ![p] = "tail"]
  /\ UNCHANGED <<tail, head, ring, pend, ot, nt, got>>

CommitLoadTail(p) ==
  /\ pc[p] = "tail"
  /\ nt' = [nt EXCEPT ![p] = tail[Bound(p)]]
  /\ pc' = [pc EXCEPT ![p] = "commit"]
  /\ UNCHANGED <<tail, head, ring, pend, ot, oh, got>>

NewHead_Always(old, t) == [pos |-> t.pos, count |-> old.count + 1]

NewHead_PreIncrement(old, t) ==
  [pos   |-> IF Same32(t.count, old.count) THEN t.pos ELSE old.pos,
   count |-> old.count + 1]

NewHead_CountOfTail(old, t) ==
  [pos   |-> IF Same32(t.count, old.count + 1) THEN t.pos ELSE old.pos,
   count |-> t.count]

\* nh: count one more commit; when every claimed entry is then committed,
\* also move the position up to the tail.
NewHead(old, t) ==
  [pos   |-> IF Same32(t.count, old.count + 1) THEN t.pos ELSE old.pos,
   count |-> old.count + 1]

\* Bound: nobody sleeps inside the commit loop while the others commit 2^32.
HeadNotLapped(b, n) ==
  \A q \in Team(b) : pc[q] \in {"tail", "commit"} => n - oh[q].count < Word

CommitDone(p) ==
  LET b == Bound(p) IN
  /\ pc[p] = "commit"
  /\ SameRaw(head[b], oh[p])
  /\ HeadNotLapped(b, oh[p].count + 1)
  /\ head' = [head EXCEPT ![b] = NewHead(oh[p], nt[p])]
  /\ Return(p)
  /\ UNCHANGED <<tail, ring, pend>>

CommitRetry(p) ==
  LET b == Bound(p) IN
  /\ pc[p] = "commit"
  /\ ~SameRaw(head[b], oh[p])
  /\ oh' = [oh EXCEPT ![p] = CasFailed(p, oh[p], head[b])]
  /\ pc' = [pc EXCEPT ![p] = "tail"]
  /\ UNCHANGED <<tail, head, ring, pend, ot, nt, got>>

---------------------------------------------------------------------------

\* A step of a call already under way.
Step(p) ==
  \/ TailWait(p) \/ TailReload(p)
  \/ AcquireFail(p) \/ AcquireCheck(p) \/ AcquireCas(p)
  \/ EnqueueElem(p) \/ DequeueElem(p)
  \/ CommitLoadHead(p) \/ CommitLoadTail(p)
  \/ CommitDone(p) \/ CommitRetry(p)

Next == \E p \in Threads : AcquireLoad(p) \/ Step(p) \/ StoreLands(p)

Spec == Init /\ [][Next]_vars

\* Every thread inside a call keeps being scheduled and stores drain; no
\* thread has to call.
Fairness == \A p \in Threads : WF_vars(Step(p)) /\ WF_vars(StoreLands(p))

FairSpec == Spec /\ Fairness
---------------------------------------------------------------------------
(* Properties *)

Markers == [pos : Nat, count : Nat]

\* The ring cell an entry maps to is the only one that ever holds it.
CellOK(i, k) == k # None => RingIndex(k) = i

\* Every variable stays in the range its declaration gives it, and a ring
\* cell holds elements of the entries that map to it only.
TypeOK ==
  /\ tail \in [Bounds -> Markers]
  /\ head \in [Bounds -> Markers]
  /\ ring \in [Slots -> Nat \cup {None}]
  /\ \A i \in Slots : CellOK(i, ring[i])
  /\ pend \in [Producers -> Nat \cup {None}]
  /\ pc \in [Threads -> {"idle", "wait", "reload", "check", "cas",
                         "copy", "load", "tail", "commit"}]
  /\ ot \in [Threads -> Markers]
  /\ oh \in [Threads -> Markers]
  /\ nt \in [Threads -> Markers]
  /\ got \in [Consumers -> Nat \cup {None}]

\* Ownership of ring cells: whatever the interleaving of claims, waits and
\* commits, two calls between rpcmsg_acquire_*_entry and the end of their
\* copy function never have the same cell, be they two producers, two
\* consumers or one of each.
SlotExclusive ==
  \A p, q \in Threads :
    /\ p # q
    /\ pc[p] = "copy"
    /\ pc[q] = "copy"
    => RingIndex(Ticket(p)) # RingIndex(Ticket(q))

\* First-in first-out without loss or duplication: the rpcmsg_dequeue that
\* claimed position n copies the element the rpcmsg_enqueue that claimed n
\* wrote, although enqueues commit in any order and entry positions wrap.
ReadsOwnTicket ==
  \A c \in Consumers :
    pc[c] \in {"load", "tail", "commit"} => got[c] = Ticket(c)

\* rpcmsg_commit_update may leave the head's position behind when others are
\* still copying.  Once nobody is between claim and commit, no entry stays
\* unpublished (prod) and no cell stays unreleased (cons).
QuiescentPublished ==
  \A b \in Bounds : Owners(b) = {} => head[b].pos = tail[b].pos

\* rpcmsg_tail_wait keeps the claimed but unpublished entries of a bound to
\* one more than RPCMSG_HTD_MAX, however many threads wait at the same time
\* with snapshots taken before others claimed.
TailDistance ==
  \A b \in Bounds : tail[b].pos - head[b].pos <= RPCMSG_HTD_MAX + 1

\* The four markers stay in order, and the ring never holds more than
\* RPCMSG_BUFFER_SIZE claimed entries, although a producer compares its tail
\* snapshot with a consumer head it reads later.
MarkerOrder ==
  /\ head["cons"].pos <= tail["cons"].pos
  /\ tail["cons"].pos <= head["prod"].pos
  /\ head["prod"].pos <= tail["prod"].pos
  /\ tail["prod"].pos <= head["cons"].pos + BufferSize

\* A call returns -1 only at an instant when there really is nothing to
\* claim: a full ring for rpcmsg_enqueue, an empty one for rpcmsg_dequeue,
\* even when the tail snapshot the test uses is stale.
RefusalIsTrue ==
  [][\A p \in Threads :
       pc[p] = "check" /\ pc'[p] = "idle" =>
         IF p \in Producers
           THEN tail["prod"].pos = head["cons"].pos + BufferSize
           ELSE tail["cons"].pos = head["prod"].pos]_vars

\* The 2^32 wrap of positions and counts never makes a stale snapshot look
\* current: a compare-and-swap that succeeds on head replaces the marker it
\* read, and heads only move forward.
HeadsAdvance ==
  [][\A b \in Bounds :
       /\ head'[b].pos >= head[b].pos
       /\ head'[b].count - head[b].count \in {0, 1}]_vars

\* The calls are lock-free, not wait-free: one that keeps losing its compare-
\* and-swap to others that claim and commit entries may retry for ever.  That
\* is the only way not to return: once no more entries are claimed, every
\* rpcmsg_enqueue and rpcmsg_dequeue under way returns, whether the queue is
\* full or empty and whoever else is still retrying.
CallsReturn ==
  <>[][UNCHANGED tail]_vars =>
    \A p \in Threads : (pc[p] # "idle") ~> (pc[p] = "idle")

---------------------------------------------------------------------------
(* The ring implements a first-in first-out queue *)

\* The entry a consumer has claimed: still in its cell, then copied.
InHand(c) ==
  IF pc[c] = "copy" THEN ring[RingIndex(Ticket(c))] ELSE got[c]

\* The cells from the consumers' tail to the producers' head.
Visible ==
  [i \in 1 .. head["prod"].pos - tail["cons"].pos |->
     ring[RingIndex(tail["cons"].pos + i - 1)]]

Fifo == INSTANCE RpcFifo WITH
  Size  <- BufferSize,
  First <- InitPos,
  sent  <- tail["prod"].pos,
  ready <- head["prod"].pos,
  freed <- head["cons"].pos,
  queue <- Visible,
  hand  <- [c \in Consumers |-> InHand(c)]

\* Seen from its callers the ring is RpcFifo: the cells between the two bounds
\* hold the enqueued elements in ticket order at every instant, a dequeue
\* removes the oldest, and no cell is freed while its element is in use.
ImplementsFifo == Fifo!Spec

---------------------------------------------------------------------------
(* Inductive invariant *)

\* tail is always claimed as a pair; head's position may lag behind its count
\* but never when every claimed entry is committed.
MarkersOK ==
  \A b \in Bounds :
    /\ tail[b].pos = tail[b].count
    /\ head[b].pos <= head[b].count
    /\ head[b].count <= tail[b].count
    /\ head[b].count = tail[b].count => head[b].pos = tail[b].pos

\* Claimed minus committed entries are the calls between claim and commit.
CountsOK ==
  \A b \in Bounds :
    tail[b].count = head[b].count + Cardinality(Owners(b))

\* Tickets of a bound lie between its head and its tail and are distinct.
TicketsOK ==
  /\ \A p \in Threads :
       Outstanding(p) => /\ head[Bound(p)].pos <= Ticket(p)
                         /\ Ticket(p) < tail[Bound(p)].pos
  /\ \A p, q \in Threads :
       p # q /\ Bound(p) = Bound(q) /\ Outstanding(p) /\ Outstanding(q)
         => Ticket(p) # Ticket(q)

\* What a thread in the acquire loop knows: its snapshot is not ahead of the
\* tail, and when it is current the tests made since still hold.
AcquireOne(p) ==
  LET b == Bound(p) IN
  /\ Acquiring(p) =>
       /\ ot[p].pos = ot[p].count
       /\ ot[p].pos <= tail[b].pos
       /\ tail[b].pos + BufferSize - ot[p].pos < Word
  /\ pc[p] \in {"check", "cas"} /\ ot[p].pos = tail[b].pos =>
       tail[b].pos - head[b].pos <= RPCMSG_HTD_MAX
  /\ pc[p] = "cas" /\ ot[p].pos = tail[b].pos =>
       IF b = "prod" THEN tail["prod"].pos < head["cons"].pos + BufferSize
                     ELSE tail["cons"].pos < head["prod"].pos

AcquireOK == \A p \in Threads : AcquireOne(p)

\* What a thread in the commit loop knows; the last part is why the head may
\* jump to the tail the thread read: everybody else claimed after that read.
CommitOne(p) ==
  LET b == Bound(p) IN
  /\ pc[p] \in {"tail", "commit"} =>
       /\ oh[p].count <= head[b].count
       /\ head[b].count - oh[p].count < Word
       /\ oh[p].count = head[b].count => oh[p].pos = head[b].pos
  /\ pc[p] = "commit" =>
       /\ nt[p].pos = nt[p].count
       /\ oh[p].count + 1 <= nt[p].count
       /\ nt[p].count <= tail[b].count
       /\ oh[p].count = head[b].count /\ nt[p].count = oh[p].count + 1 =>
            \A q \in Threads :
              q # p /\ Bound(q) = b /\ Outstanding(q) => nt[p].pos <= Ticket(q)

CommitOK == \A p \in Threads : CommitOne(p)

\* No producer's ring store can become visible after its commit.
InOrder == \A p \in Producers : ~Reorders(p)

\* Every claimed entry whose copy is complete is in its ring cell.
RingOK ==
  InOrder =>
    \A k \in head["cons"].pos .. tail["prod"].pos - 1 :
      (\A p \in Producers : pc[p] = "copy" => Ticket(p) # k)
        => ring[RingIndex(k)] = k

\* Nor is one ever delayed then.
PendOK == InOrder => \A p \in Producers : pend[p] = None

IInv ==
  /\ TypeOK /\ MarkersOK /\ CountsOK /\ MarkerOrder /\ TailDistance
  /\ TicketsOK /\ AcquireOK /\ CommitOK /\ RingOK /\ PendOK
  /\ InOrder => ReadsOwnTicket
===============================================================================
