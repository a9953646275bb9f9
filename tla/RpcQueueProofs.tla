---------------------------- MODULE RpcQueueProofs ----------------------------
(***************************************************************************)
(* Proofs about the ring of include/sel4/rpc_queue.h, for every number of  *)
(* threads, every buffer size that divides the word size, every word size  *)
(* and every starting position.                                            *)
(*                                                                         *)
(* Part 1: arithmetic modulo the word and the buffer size.                 *)
(* Part 2: type correctness.                                               *)
(* Part 3: the inductive invariant IInv, one lemma per action.             *)
(* Part 4: the theorems that follow from it.                               *)
(***************************************************************************)
EXTENDS RpcQueue, FiniteSetTheorems, TLAPS

\* A number in range is its own remainder.
LEMMA ModSmall ==
  ASSUME NEW a \in Int, NEW n \in Nat, n > 0, 0 <= a, a < n
  PROVE  a % n = a
  OBVIOUS

\* Euclidean division, as the provers know it.
LEMMA DivMod ==
  ASSUME NEW a \in Int, NEW n \in Nat, n > 0
  PROVE  /\ a \div n \in Int
         /\ a % n \in 0 .. n - 1
         /\ a = n * (a \div n) + (a % n)
  OBVIOUS

\* No positive multiple of n is smaller than n.
LEMMA MultipleSmall ==
  ASSUME NEW n \in Nat, NEW x \in Int, n > 0, 0 < n * x, n * x < n
  PROVE  FALSE
<1>1. x > 0
  OBVIOUS
<1>2. n * x >= n
  BY <1>1
<1> QED
  BY <1>2

\* Two numbers less than n apart have different remainders.
LEMMA ModDistinct ==
  ASSUME NEW a \in Int, NEW b \in Int, NEW n \in Nat, n > 0,
         0 < a - b, a - b < n
  PROVE  a % n # b % n
<1> SUFFICES ASSUME a % n = b % n PROVE FALSE
  OBVIOUS
<1> DEFINE qa == a \div n
           qb == b \div n
<1>1. qa \in Int /\ a = n * qa + (a % n) /\ a % n \in Int
  BY DivMod
<1>2. qb \in Int /\ b = n * qb + (b % n)
  BY DivMod
<1> HIDE DEF qa, qb
<1>3. n * (qa - qb) = n * qa - n * qb
  BY <1>1, <1>2
<1>4. a - b = n * (qa - qb)
  BY <1>1, <1>2, <1>3
<1> QED
  BY <1>1, <1>2, <1>4, MultipleSmall

\* Masking a uint32_t with the buffer mask forgets the 2^32 wrap, the buffer
\* size dividing the word size.
LEMMA ModMod ==
  ASSUME NEW a \in Int, NEW w \in Nat, NEW n \in Nat, n > 0, w > 0, w % n = 0
  PROVE  (a % w) % n = a % n
<1> DEFINE k == w \div n
           q == a \div w
           r == a % w
           s == r \div n
<1>1. k \in Int /\ w = n * k
  BY DivMod
<1>2. q \in Int /\ r \in Int /\ a = w * q + r
  BY DivMod
<1>3. s \in Int /\ r % n \in 0 .. n - 1 /\ r = n * s + (r % n)
  BY <1>2, DivMod
<1>4. (a \div n) \in Int /\ a % n \in 0 .. n - 1 /\ a = n * (a \div n) + (a % n)
  BY DivMod
<1> DEFINE x == r % n
           y == a % n
           z == a \div n
<1> HIDE DEF k, q, r, s, x, y, z
<1>5. w * q = n * (k * q)
  BY <1>1, <1>2
<1>6. n * (k * q) + n * s = n * (k * q + s)
  BY <1>1, <1>2, <1>3
<1>7. n * (k * q + s) - n * z = n * (k * q + s - z)
  BY <1>1, <1>2, <1>3, <1>4 DEF z
<1>8. y - x = n * (k * q + s - z)
  BY <1>2, <1>3, <1>4, <1>5, <1>6, <1>7 DEF x, y, z
<1>9. k * q + s - z \in Int
  BY <1>1, <1>2, <1>3, <1>4 DEF z
<1>10. CASE y > x
  BY <1>3, <1>4, <1>8, <1>9, <1>10, MultipleSmall DEF x, y
<1>11. CASE y < x
  <2>1. x - y = n * (z - (k * q + s))
    BY <1>1, <1>2, <1>3, <1>4, <1>8 DEF x, y, z
  <2>2. z - (k * q + s) \in Int
    BY <1>1, <1>2, <1>3, <1>4 DEF z
  <2> QED
    BY <1>3, <1>4, <1>11, <2>1, <2>2, MultipleSmall DEF x, y
<1> QED
  BY <1>3, <1>4, <1>10, <1>11 DEF x, y, r

---------------------------------------------------------------------------

\* What the proofs use of the constants: a bound's distance limit fits the
\* buffer, and the buffer fits the word.
LEMMA Constants ==
  /\ BufferSize \in Nat /\ BufferSize > 0
  /\ Word \in Nat /\ Word > BufferSize + 1
  /\ RPCMSG_HTD_MAX \in Nat
  /\ RPCMSG_HTD_MAX + 1 <= BufferSize
  /\ RPCMSG_HTD_MAX + 1 < Word
BY QueueAssumption DEF QueueAssumption, RPCMSG_HTD_MAX

\* The cell of an entry depends on the unwrapped position only.
LEMMA RingIndexMod ==
  ASSUME NEW k \in Nat
  PROVE  RingIndex(k) = k % BufferSize
BY QueueAssumption, Constants, ModMod DEF QueueAssumption, RingIndex

\* Every entry has a cell.
LEMMA RingIndexType ==
  ASSUME NEW k \in Nat
  PROVE  RingIndex(k) \in Slots
BY RingIndexMod, Constants, DivMod DEF Slots

\* Entries less than a buffer apart have different cells.
LEMMA RingIndexDistinct ==
  ASSUME NEW j \in Nat, NEW k \in Nat, j < k, k - j < BufferSize
  PROVE  RingIndex(j) # RingIndex(k)
BY RingIndexMod, Constants, ModDistinct

\* uint32_t subtraction is exact while the numbers are less than 2^32 apart.
LEMMA SubSmall ==
  ASSUME NEW a \in Int, NEW b \in Int, 0 <= a - b, a - b < Word
  PROVE  Sub32(a, b) = a - b
BY Constants, ModSmall DEF Sub32

\* So is uint32_t equality.
LEMMA SameSmall ==
  ASSUME NEW a \in Int, NEW b \in Int, 0 <= a - b, a - b < Word
  PROVE  Same32(a, b) <=> a = b
BY SubSmall DEF Same32

\* The threads of a bound are those that call its operation.
LEMMA Teams ==
  /\ \A p \in Threads : Bound(p) \in Bounds
  /\ \A b \in Bounds : Team(b) = {p \in Threads : Bound(p) = b}
BY QueueAssumption DEF QueueAssumption, Threads, Bound, Bounds, Team

\* rpcmsg_queue_init establishes the types.
LEMMA TypeInit == Init => TypeOK
BY QueueAssumption, Teams
DEF QueueAssumption, Init, TypeOK, Markers, Marker, NoMarker, CellOK, None

\* Every step of rpcmsg_enqueue and rpcmsg_dequeue preserves the types.
LEMMA TypeNext == TypeOK /\ [Next]_vars => TypeOK'
<1> SUFFICES ASSUME TypeOK, [Next]_vars PROVE TypeOK'
  OBVIOUS
<1> USE DEF Markers
<1>1. CASE UNCHANGED vars
  BY <1>1 DEF TypeOK, vars, CellOK
<1>2. ASSUME NEW p \in Threads, AcquireLoad(p) PROVE TypeOK'
  BY <1>2, Teams DEF TypeOK, AcquireLoad, CellOK
<1>3. ASSUME NEW p \in Threads, TailWait(p) PROVE TypeOK'
  BY <1>3 DEF TypeOK, TailWait, CellOK
<1>4. ASSUME NEW p \in Threads, TailReload(p) PROVE TypeOK'
  BY <1>4, Teams DEF TypeOK, TailReload, CellOK
<1>5. ASSUME NEW p \in Threads, Return(p), UNCHANGED <<tail, ring, pend>>,
             head' \in [Bounds -> Markers]
      PROVE  TypeOK'
  BY <1>5 DEF TypeOK, Return, NoMarker, Marker, CellOK
<1>6. ASSUME NEW p \in Threads, AcquireFail(p) PROVE TypeOK'
  BY <1>5, <1>6 DEF TypeOK, AcquireFail
<1>7. ASSUME NEW p \in Threads, AcquireCheck(p) PROVE TypeOK'
  BY <1>7 DEF TypeOK, AcquireCheck, CellOK
<1>8. ASSUME NEW p \in Threads, AcquireCas(p) PROVE TypeOK'
  <2>1. UNCHANGED <<head, ring, pend, oh, nt, got>>
    BY <1>8 DEF AcquireCas
  <2>2. tail' \in [Bounds -> Markers]
    BY <1>8 DEF TypeOK, AcquireCas
  <2>3. ot' \in [Threads -> Markers]
    <3>1. CasFailed(p, ot[p], tail[Bound(p)]) \in Markers
      BY Teams DEF TypeOK, CasFailed
    <3>2. \/ ot' = ot
          \/ ot' = [ot EXCEPT ![p] = CasFailed(p, ot[p], tail[Bound(p)])]
      BY <1>8 DEF AcquireCas
    <3> QED
      BY <3>1, <3>2 DEF TypeOK
  <2>4. pc' \in [Threads -> {"idle", "wait", "reload", "check", "cas",
                             "copy", "load", "tail", "commit"}]
    BY <1>8 DEF TypeOK, AcquireCas
  <2> QED
    BY <2>1, <2>2, <2>3, <2>4 DEF TypeOK, CellOK
<1>9. ASSUME NEW p \in Threads, EnqueueElem(p) PROVE TypeOK'
  BY <1>9 DEF TypeOK, EnqueueElem, Ticket, CellOK
<1>10. ASSUME NEW p \in Threads, StoreLands(p) PROVE TypeOK'
  BY <1>10 DEF TypeOK, StoreLands, CellOK
<1>11. ASSUME NEW p \in Threads, DequeueElem(p) PROVE TypeOK'
  <2>1. RingIndex(Ticket(p)) \in Slots
    BY <1>11, RingIndexType DEF TypeOK, Ticket
  <2> QED
    BY <1>11, <2>1 DEF TypeOK, DequeueElem, CellOK
<1>12. ASSUME NEW p \in Threads, CommitLoadHead(p) PROVE TypeOK'
  BY <1>12, Teams DEF TypeOK, CommitLoadHead, CellOK
<1>13. ASSUME NEW p \in Threads, CommitLoadTail(p) PROVE TypeOK'
  BY <1>13, Teams DEF TypeOK, CommitLoadTail, CellOK
<1>14. ASSUME NEW p \in Threads, CommitDone(p) PROVE TypeOK'
  <2>1. NewHead(oh[p], nt[p]) \in Markers
    BY DEF TypeOK, NewHead
  <2>2. head' \in [Bounds -> Markers]
    BY <1>14, <2>1 DEF TypeOK, CommitDone
  <2> QED
    BY <1>5, <1>14, <2>2 DEF CommitDone
<1>15. ASSUME NEW p \in Threads, CommitRetry(p) PROVE TypeOK'
  BY <1>15, Teams DEF TypeOK, CommitRetry, CasFailed, CellOK
<1> QED
  BY <1>1, <1>2, <1>3, <1>4, <1>6, <1>7, <1>8, <1>9, <1>10, <1>11, <1>12,
     <1>13, <1>14, <1>15
  DEF Next, Step

\* Type correctness: whatever the threads do, the queue's markers, ring cells
\* and locals stay in their ranges, and a ring cell only ever holds elements
\* of entries that map to it.
THEOREM TypeCorrect == Spec => []TypeOK
<1> QED
  BY TypeInit, TypeNext, PTL DEF Spec

---------------------------------------------------------------------------

\* The fields of markers are numbers.
LEMMA Values ==
  ASSUME TypeOK
  PROVE  /\ \A b \in Bounds : /\ tail[b].pos \in Nat /\ tail[b].count \in Nat
                              /\ head[b].pos \in Nat /\ head[b].count \in Nat
         /\ \A p \in Threads : /\ ot[p].pos \in Nat /\ ot[p].count \in Nat
                               /\ oh[p].pos \in Nat /\ oh[p].count \in Nat
                               /\ nt[p].pos \in Nat /\ nt[p].count \in Nat
BY DEF TypeOK, Markers

\* The calls between claim and commit can be counted.
LEMMA OwnersFinite ==
  ASSUME NEW b \in Bounds
  PROVE  IsFiniteSet(Owners(b)) /\ Cardinality(Owners(b)) \in Nat
<1>1. IsFiniteSet(Team(b)) /\ Owners(b) \subseteq Team(b)
  BY QueueAssumption DEF QueueAssumption, Team, Owners
<1> QED
  BY <1>1, FS_Subset, FS_CardinalityType

\* A step of p that leaves the shared markers alone.
OnlyLocals(p) ==
  /\ UNCHANGED <<tail, head>>
  /\ \A q \in Threads \ {p} :
       pc'[q] = pc[q] /\ ot'[q] = ot[q] /\ oh'[q] = oh[q] /\ nt'[q] = nt[q]
  /\ \A c \in Consumers \ {p} : got'[c] = got[c]

\* A step that changes only the locals of p keeps what the invariant says of
\* the markers and of the other threads.
LEMMA LocalStep ==
  ASSUME IInv, NEW p \in Threads, OnlyLocals(p),
         Outstanding(p)' <=> Outstanding(p),
         Outstanding(p) => ot'[p] = ot[p],
         AcquireOne(p)', CommitOne(p)'
  PROVE  /\ MarkersOK' /\ CountsOK' /\ MarkerOrder' /\ TailDistance'
         /\ TicketsOK' /\ AcquireOK' /\ CommitOK'
<1>1. MarkersOK' /\ MarkerOrder' /\ TailDistance'
  BY DEF IInv, OnlyLocals, MarkersOK, MarkerOrder, TailDistance
<1>2. \A q \in Threads : /\ Outstanding(q)' <=> Outstanding(q)
                         /\ Outstanding(q) => Ticket(q)' = Ticket(q)
  BY DEF OnlyLocals, Outstanding, Ticket
<1>3. CountsOK'
  <2>1. \A b \in Bounds : Owners(b)' = Owners(b)
    BY <1>2, Teams DEF Owners
  <2> QED
    BY <2>1 DEF IInv, CountsOK, OnlyLocals
<1>4. TicketsOK'
  BY <1>2 DEF IInv, TicketsOK, OnlyLocals
<1>5. AcquireOK'
  <2>1. ASSUME NEW q \in Threads, q # p PROVE AcquireOne(q)'
    BY <2>1 DEF IInv, AcquireOK, AcquireOne, OnlyLocals, Acquiring
  <2> QED
    BY <2>1 DEF AcquireOK
<1>6. CommitOK'
  <2>1. ASSUME NEW q \in Threads, q # p PROVE CommitOne(q)'
    BY <1>2, <2>1 DEF IInv, CommitOK, CommitOne, OnlyLocals
  <2> QED
    BY <2>1 DEF CommitOK
<1> QED
  BY <1>1, <1>3, <1>4, <1>5, <1>6

\* The ring part of the invariant, for a step that writes no cell.
LEMMA RingKept ==
  ASSUME IInv, NEW p \in Threads, UNCHANGED ring,
         head'["cons"].pos >= head["cons"].pos,
         tail'["prod"].pos = tail["prod"].pos,
         TypeOK',
         \A q \in Producers :
           /\ pc'[q] = "copy" <=> pc[q] = "copy"
           /\ pc[q] = "copy" => ot'[q] = ot[q]
  PROVE  RingOK'
<1> SUFFICES ASSUME InOrder,
                    NEW k \in head'["cons"].pos .. tail'["prod"].pos - 1,
                    \A q \in Producers : pc'[q] = "copy" => ot'[q].pos # k
             PROVE  ring[RingIndex(k)] = k
  BY DEF RingOK, InOrder, Reorders, Ticket
<1>1. k \in head["cons"].pos .. tail["prod"].pos - 1
  BY Values DEF IInv, Bounds, TypeOK, Markers
<1> QED
  BY <1>1 DEF IInv, RingOK, Ticket

\* A step of p inside the acquire loop, or a call that returns without a claim.
LEMMA AcquireSide ==
  ASSUME IInv, TypeOK', NEW p \in Threads, OnlyLocals(p), UNCHANGED <<ring, pend>>,
         ~Outstanding(p), ~Outstanding(p)', AcquireOne(p)'
  PROVE  IInv'
<1>1. CommitOne(p)'
  BY DEF CommitOne, Outstanding
<1>2. RingOK'
  <2>1. \A q \in Producers : /\ pc'[q] = "copy" <=> pc[q] = "copy"
                             /\ pc[q] = "copy" => ot'[q] = ot[q]
    BY DEF OnlyLocals, Outstanding, Threads
  <2> QED
    BY <2>1, RingKept, Values DEF OnlyLocals, IInv, Bounds
<1>3. (InOrder => ReadsOwnTicket)'
  BY DEF IInv, ReadsOwnTicket, OnlyLocals, InOrder, Reorders, Outstanding,
         Ticket, Threads
<1>4. PendOK'
  BY DEF IInv, PendOK, InOrder, Reorders
<1> QED
  BY <1>1, <1>2, <1>3, <1>4, LocalStep DEF IInv

\* Loading the tail keeps the invariant: the snapshot is current.
LEMMA StepAcquireLoad ==
  ASSUME IInv, TypeOK', NEW p \in Threads, AcquireLoad(p)
  PROVE  IInv'
<1>1. OnlyLocals(p) /\ UNCHANGED <<ring, pend>>
  BY DEF IInv, TypeOK, AcquireLoad, OnlyLocals
<1>2. ~Outstanding(p) /\ ~Outstanding(p)'
  BY DEF IInv, TypeOK, AcquireLoad, Outstanding
<1>3. AcquireOne(p)'
  BY Teams, Values, Constants
  DEF IInv, TypeOK, AcquireLoad, AcquireOne, MarkersOK, Acquiring
<1> QED
  BY <1>1, <1>2, <1>3, AcquireSide

\* So does reloading it in rpcmsg_tail_wait.
LEMMA StepTailReload ==
  ASSUME IInv, TypeOK', NEW p \in Threads, TailReload(p)
  PROVE  IInv'
<1>1. OnlyLocals(p) /\ UNCHANGED <<ring, pend>>
  BY DEF IInv, TypeOK, TailReload, OnlyLocals
<1>2. ~Outstanding(p) /\ ~Outstanding(p)'
  BY DEF IInv, TypeOK, TailReload, Outstanding
<1>3. AcquireOne(p)'
  BY Teams, Values, Constants
  DEF IInv, TypeOK, TailReload, AcquireOne, MarkersOK, Acquiring
<1> QED
  BY <1>1, <1>2, <1>3, AcquireSide

\* Leaving rpcmsg_tail_wait with a current snapshot means that the bound's
\* distance is within RPCMSG_HTD_MAX.
LEMMA StepTailWait ==
  ASSUME IInv, TypeOK', NEW p \in Threads, TailWait(p)
  PROVE  IInv'
<1> DEFINE b == Bound(p)
<1>1. OnlyLocals(p) /\ UNCHANGED <<ring, pend>>
  BY DEF IInv, TypeOK, TailWait, OnlyLocals
<1>2. ~Outstanding(p) /\ ~Outstanding(p)'
  BY DEF IInv, TypeOK, TailWait, Outstanding
<1>3. AcquireOne(p)'
  <2>1. /\ ot[p].pos = ot[p].count
        /\ ot[p].pos <= tail[b].pos
        /\ tail[b].pos + BufferSize - ot[p].pos < Word
    BY DEF IInv, AcquireOK, AcquireOne, TailWait, Acquiring
  <2>2. ASSUME ot[p].pos = tail[b].pos, ~TooFar(ot[p], b)
        PROVE  tail[b].pos - head[b].pos <= RPCMSG_HTD_MAX
    <3>1. 0 <= tail[b].pos - head[b].pos /\ tail[b].pos - head[b].pos < Word
      BY Teams, Values, Constants
      DEF IInv, MarkerOrder, TailDistance, Bounds
    <3>2. Sub32(tail[b].pos, head[b].pos) = tail[b].pos - head[b].pos
      BY <3>1, SubSmall, Teams, Values DEF IInv
    <3> QED
      BY <2>2, <3>1, <3>2, Teams, Values, Constants DEF IInv, TooFar
  <2>3. pc'[p] \in {"reload", "check"} /\ (pc'[p] = "check" => ~TooFar(ot[p], b))
    BY DEF IInv, TypeOK, TailWait
  <2> QED
    BY <2>1, <2>2, <2>3 DEF TailWait, AcquireOne, Acquiring
<1> QED
  BY <1>1, <1>2, <1>3, AcquireSide

\* Finding an entry with a current snapshot means that there is one.
LEMMA StepAcquireCheck ==
  ASSUME IInv, TypeOK', NEW p \in Threads, AcquireCheck(p)
  PROVE  IInv'
<1> DEFINE b == Bound(p)
<1>1. OnlyLocals(p) /\ UNCHANGED <<ring, pend>>
  BY DEF IInv, TypeOK, AcquireCheck, OnlyLocals
<1>2. ~Outstanding(p) /\ ~Outstanding(p)'
  BY DEF IInv, TypeOK, AcquireCheck, Outstanding
<1>3. AcquireOne(p)'
  <2>1. /\ ot[p].pos = ot[p].count
        /\ ot[p].pos <= tail[b].pos
        /\ tail[b].pos + BufferSize - ot[p].pos < Word
        /\ ot[p].pos = tail[b].pos =>
             tail[b].pos - head[b].pos <= RPCMSG_HTD_MAX
    BY DEF IInv, AcquireOK, AcquireOne, AcquireCheck, Acquiring
  <2>2. ASSUME ot[p].pos = tail[b].pos
        PROVE  IF b = "prod"
                 THEN tail["prod"].pos < head["cons"].pos + BufferSize
                 ELSE tail["cons"].pos < head["prod"].pos
    <3>1. CASE b = "prod"
      <4>1. tail["prod"].pos # head["cons"].pos + BufferSize
        BY <2>2, <3>1, Constants, Values, SubSmall
        DEF IInv, AcquireCheck, Entries, Bounds
      <4> QED
        BY <3>1, <4>1, Constants, Values DEF IInv, MarkerOrder, Bounds
    <3>2. CASE b = "cons"
      <4>1. tail["cons"].pos # head["prod"].pos
        BY <2>2, <3>2, Constants, Values, SubSmall
        DEF IInv, AcquireCheck, Entries, Bounds
      <4> QED
        BY <3>2, <4>1, Values DEF IInv, MarkerOrder, Bounds
    <3> QED
      BY <3>1, <3>2, Teams DEF Bounds
  <2>3. pc'[p] = "cas" /\ UNCHANGED <<ot, tail, head>>
    BY DEF IInv, TypeOK, AcquireCheck
  <2> QED
    BY <2>1, <2>2, <2>3 DEF AcquireOne, Acquiring
<1> QED
  BY <1>1, <1>2, <1>3, AcquireSide

\* A call that returns -1 forgets its snapshot.
LEMMA StepAcquireFail ==
  ASSUME IInv, TypeOK', NEW p \in Threads, AcquireFail(p)
  PROVE  IInv'
<1>1. OnlyLocals(p) /\ UNCHANGED <<ring, pend>>
  BY DEF IInv, TypeOK, AcquireFail, Return, OnlyLocals
<1>2. ~Outstanding(p) /\ pc'[p] = "idle"
  BY DEF IInv, TypeOK, AcquireFail, Return, Outstanding
<1>3. AcquireOne(p)' /\ ~Outstanding(p)'
  BY <1>2 DEF AcquireOne, Acquiring, Outstanding
<1> QED
  BY <1>1, <1>2, <1>3, AcquireSide
\* The claim: a compare-and-swap that succeeds had a current snapshot, so the
\* tests made since still hold and the new ticket is above all others.
LEMMA StepAcquireCas ==
  ASSUME IInv, TypeOK', NEW p \in Threads, AcquireCas(p)
  PROVE  IInv'
<1> DEFINE b == Bound(p)
<1>0. b \in Bounds
  BY Teams
<1>1. /\ ot[p].pos = ot[p].count
      /\ ot[p].pos <= tail[b].pos
      /\ tail[b].pos + BufferSize - ot[p].pos < Word
      /\ ot[p].pos = tail[b].pos =>
           /\ tail[b].pos - head[b].pos <= RPCMSG_HTD_MAX
           /\ IF b = "prod" THEN tail["prod"].pos < head["cons"].pos + BufferSize
                            ELSE tail["cons"].pos < head["prod"].pos
  BY DEF IInv, AcquireOK, AcquireOne, AcquireCas, Acquiring
<1>2. pc[p] = "cas" /\ UNCHANGED <<head, ring, pend, oh, nt, got>>
  BY DEF AcquireCas
<1>3. CASE ~SameRaw(tail[b], ot[p])
  <2>1. /\ UNCHANGED tail
        /\ pc' = [pc EXCEPT ![p] = "wait"]
        /\ ot' = [ot EXCEPT ![p] = CasFailed(p, ot[p], tail[b])]
    BY <1>3 DEF AcquireCas
  <2>2. OnlyLocals(p)
    BY <1>2, <2>1 DEF IInv, TypeOK, OnlyLocals
  <2>3. ot'[p] = ot[p] \/ ot'[p] = tail[b]
    BY <2>1 DEF IInv, TypeOK, CasFailed
  <2>4. pc'[p] = "wait"
    BY <2>1 DEF IInv, TypeOK
  <2>5. AcquireOne(p)'
    <3>1. ot'[p].pos = ot'[p].count /\ ot'[p].pos <= tail[b].pos
          /\ tail[b].pos + BufferSize - ot'[p].pos < Word
      BY <1>0, <1>1, <2>3, Values, Constants DEF IInv, MarkersOK
    <3> QED
      BY <2>1, <2>4, <3>1 DEF AcquireOne
  <2> QED
    BY <1>2, <2>2, <2>4, <2>5, AcquireSide DEF Outstanding
<1>4. CASE SameRaw(tail[b], ot[p])
  <2>1. /\ tail' = [tail EXCEPT ![b] = [pos   |-> ot[p].pos + 1,
                                        count |-> ot[p].count + 1]]
        /\ pc' = [pc EXCEPT ![p] = "copy"]
        /\ UNCHANGED ot
        /\ NotLapped(b, ot[p].pos + 1)
    BY <1>4 DEF AcquireCas
  <2>2. ot[p].pos = tail[b].pos
    <3>1. Same32(tail[b].pos, ot[p].pos)
      BY <1>4 DEF SameRaw
    <3>2. 0 <= tail[b].pos - ot[p].pos /\ tail[b].pos - ot[p].pos < Word
      BY <1>0, <1>1, Values, Constants DEF IInv
    <3> QED
      BY <1>0, <3>1, <3>2, Values, SameSmall DEF IInv
  <2>3. /\ tail'[b].pos = tail[b].pos + 1
        /\ tail'[b].count = tail[b].count + 1
        /\ \A c \in Bounds \ {b} : tail'[c] = tail[c]
    BY <1>0, <1>1, <2>1, <2>2 DEF IInv, TypeOK, MarkersOK
  <2>4. /\ pc'[p] = "copy"
        /\ \A q \in Threads \ {p} : pc'[q] = pc[q]
    BY <2>1 DEF IInv, TypeOK
  <2>5. /\ ~Outstanding(p) /\ Outstanding(p)'
        /\ \A q \in Threads \ {p} : Outstanding(q)' <=> Outstanding(q)
        /\ \A q \in Threads : Ticket(q)' = Ticket(q)
    BY <1>2, <2>1, <2>4 DEF Outstanding, Ticket
  <2>6. MarkersOK' /\ MarkerOrder' /\ TailDistance'
    <3>1. MarkersOK'
      BY <1>0, <1>2, <2>3, Values DEF IInv, MarkersOK
    <3>2. TailDistance'
      BY <1>0, <1>1, <1>2, <2>2, <2>3, Values, Constants DEF IInv, TailDistance
    <3>3. MarkerOrder'
      BY <1>0, <1>1, <1>2, <2>2, <2>3, Values, Constants
      DEF IInv, MarkerOrder, Bounds
    <3> QED
      BY <3>1, <3>2, <3>3
  <2>7. CountsOK'
    <3>1. Owners(b)' = Owners(b) \cup {p} /\ p \notin Owners(b)
      BY <1>0, <2>5, Teams DEF Owners
    <3>2. Cardinality(Owners(b)') = Cardinality(Owners(b)) + 1
      BY <1>0, <3>1, OwnersFinite, FS_AddElement
    <3>3. ASSUME NEW c \in Bounds, c # b PROVE Owners(c)' = Owners(c)
      BY <2>5, <3>3, Teams DEF Owners
    <3> QED
      BY <1>0, <1>2, <2>3, <3>2, <3>3, Values, OwnersFinite DEF IInv, CountsOK
  <2>8. TicketsOK'
    <3>1. ASSUME NEW q \in Threads, Outstanding(q)'
          PROVE  /\ head'[Bound(q)].pos <= Ticket(q)'
                 /\ Ticket(q)' < tail'[Bound(q)].pos
      <4>1. CASE q = p
        BY <1>0, <1>2, <2>2, <2>3, <2>5, <4>1, Values
        DEF IInv, MarkerOrder, Ticket, Bounds
      <4>2. CASE q # p
        BY <1>0, <1>2, <2>3, <2>5, <3>1, <4>2, Values, Teams
        DEF IInv, TicketsOK, Ticket
      <4> QED
        BY <4>1, <4>2
    <3>2. ASSUME NEW q \in Threads, NEW r \in Threads, q # r,
                 Bound(q) = Bound(r), Outstanding(q)', Outstanding(r)'
          PROVE  Ticket(q)' # Ticket(r)'
      <4>1. ASSUME NEW s \in Threads, s # p, Bound(s) = b, Outstanding(s)'
            PROVE  Ticket(s) < Ticket(p)
        BY <2>2, <2>5, <4>1 DEF IInv, TicketsOK, Ticket
      <4>2. Ticket(p) \in Nat /\ Ticket(q) \in Nat /\ Ticket(r) \in Nat
        BY Values DEF IInv, Ticket
      <4>3. CASE q = p \/ r = p
        BY <2>5, <3>2, <4>1, <4>2, <4>3
      <4>4. CASE q # p /\ r # p
        BY <2>5, <3>2, <4>4 DEF IInv, TicketsOK
      <4> QED
        BY <4>3, <4>4
    <3> QED
      BY <3>1, <3>2 DEF TicketsOK
  <2>9. AcquireOK'
    <3>1. AcquireOne(p)'
      BY <2>4 DEF AcquireOne, Acquiring
    <3>2. ASSUME NEW q \in Threads, q # p, Bound(q) # b PROVE AcquireOne(q)'
      <4>1. Bound(q) \in Bounds /\ tail'[Bound(q)] = tail[Bound(q)]
        BY <2>3, <3>2, Teams
      <4>2. pc'[q] = pc[q] /\ ot'[q] = ot[q] /\ head' = head
        BY <1>2, <2>1, <2>4, <3>2
      <4> QED
        BY <3>2, <4>1, <4>2 DEF IInv, AcquireOK, AcquireOne, Acquiring, Bounds
    <3>3. ASSUME NEW q \in Threads, q # p, Bound(q) = b PROVE AcquireOne(q)'
      <4>1. pc'[q] = pc[q] /\ ot'[q] = ot[q] /\ head' = head
        BY <1>2, <2>1, <2>4, <3>3
      <4>2. Acquiring(q) => /\ ot[q].pos = ot[q].count
                            /\ ot[q].pos <= tail[b].pos
        BY <3>3 DEF IInv, AcquireOK, AcquireOne
      <4>3. Acquiring(q) => tail[b].pos + 1 + BufferSize - ot[q].pos < Word
        BY <1>0, <2>1, <2>2, <3>3, Teams DEF NotLapped
      <4>4. Acquiring(q) => ot[q].pos # tail'[b].pos
        BY <1>0, <2>3, <4>2, Values DEF IInv
      <4>5. pc[q] \in {"check", "cas"} => Acquiring(q)
        BY DEF Acquiring
      <4> QED
        BY <1>0, <2>3, <3>3, <4>1, <4>2, <4>3, <4>4, <4>5, Values, Constants
        DEF IInv, AcquireOne, Acquiring
    <3> QED
      BY <3>1, <3>2, <3>3 DEF AcquireOK
  <2>10. CommitOK'
    <3>1. CommitOne(p)'
      BY <2>4 DEF CommitOne
    <3>2. ASSUME NEW q \in Threads, q # p PROVE CommitOne(q)'
      <4>1. pc'[q] = pc[q] /\ oh'[q] = oh[q] /\ nt'[q] = nt[q] /\ head' = head
        BY <1>2, <2>4, <3>2
      <4>2. Bound(q) \in Bounds /\ tail[Bound(q)].count <= tail'[Bound(q)].count
        BY <1>0, <2>3, Teams, Values DEF IInv
      <4>3. ASSUME pc[q] = "commit", NEW r \in Threads, r # q, Bound(r) = Bound(q),
                   Outstanding(r)', oh[q].count = head[Bound(q)].count,
                   nt[q].count = oh[q].count + 1
            PROVE  nt[q].pos <= Ticket(r)'
        <5>1. CASE r = p
          BY <1>0, <2>2, <2>5, <4>3, <5>1, Values
          DEF IInv, CommitOK, CommitOne, MarkersOK, Ticket
        <5>2. CASE r # p
          BY <2>5, <4>3, <5>2 DEF IInv, CommitOK, CommitOne
        <5> QED
          BY <5>1, <5>2
      <4>4. pc[q] = "commit" => /\ nt[q].pos = nt[q].count
                                /\ oh[q].count + 1 <= nt[q].count
                                /\ nt[q].count <= tail'[Bound(q)].count
        <5>1. pc[q] = "commit" => /\ nt[q].pos = nt[q].count
                                  /\ oh[q].count + 1 <= nt[q].count
                                  /\ nt[q].count <= tail[Bound(q)].count
          BY DEF IInv, CommitOK, CommitOne
        <5> QED
          BY <4>2, <5>1, Values, <1>0, <2>3 DEF IInv
      <4>5. pc[q] \in {"tail", "commit"} =>
              /\ oh[q].count <= head[Bound(q)].count
              /\ head[Bound(q)].count - oh[q].count < Word
              /\ oh[q].count = head[Bound(q)].count =>
                   oh[q].pos = head[Bound(q)].pos
        BY DEF IInv, CommitOK, CommitOne
      <4> QED
        BY <4>1, <4>3, <4>4, <4>5 DEF CommitOne
    <3> QED
      BY <3>1, <3>2 DEF CommitOK
  <2>11. RingOK'
    <3> SUFFICES ASSUME InOrder,
                        NEW k \in head["cons"].pos .. tail'["prod"].pos - 1,
                        \A q \in Producers : pc'[q] = "copy" => ot[q].pos # k
                 PROVE  ring[RingIndex(k)] = k
      BY <1>2, <2>1 DEF RingOK, InOrder, Reorders, Ticket
    <3>1. \A q \in Producers : pc[q] = "copy" => ot[q].pos # k
      BY <1>2, <2>4 DEF Threads
    <3>2. k \in head["cons"].pos .. tail["prod"].pos - 1
      <4>1. CASE b = "prod"
        <5>1. p \in Producers
          BY <4>1 DEF b, Bound
        <5>2. k # tail["prod"].pos
          BY <2>2, <2>4, <4>1, <5>1
        <5> QED
          BY <2>3, <4>1, <5>2, Values DEF IInv, Bounds
      <4>2. CASE b = "cons"
        BY <2>3, <4>2 DEF Bounds
      <4> QED
        BY <1>0, <4>1, <4>2 DEF Bounds
    <3> QED
      BY <3>1, <3>2 DEF IInv, RingOK, Ticket
  <2>12. (InOrder => ReadsOwnTicket)'
    BY <1>2, <2>1, <2>4 DEF IInv, ReadsOwnTicket, InOrder, Reorders, Ticket, Threads
  <2>13. PendOK'
    BY <1>2 DEF IInv, PendOK, InOrder, Reorders
  <2> QED
    BY <2>6, <2>7, <2>8, <2>9, <2>10, <2>11, <2>12, <2>13 DEF IInv
<1> QED
  BY <1>3, <1>4

---------------------------------------------------------------------------

\* A step of p between the end of its copy and its commit.
LEMMA CommitSide ==
  ASSUME IInv, TypeOK', NEW p \in Threads, OnlyLocals(p),
         UNCHANGED <<ring, pend, ot, got>>,
         pc[p] \in {"load", "tail", "commit"},
         pc'[p] \in {"load", "tail", "commit"},
         CommitOne(p)'
  PROVE  IInv'
<1>1. AcquireOne(p)' /\ Outstanding(p) /\ Outstanding(p)'
  BY DEF AcquireOne, Acquiring, Outstanding
<1>2. RingOK'
  <2>1. \A q \in Producers : /\ pc'[q] = "copy" <=> pc[q] = "copy"
                             /\ pc[q] = "copy" => ot'[q] = ot[q]
    BY DEF OnlyLocals, Threads
  <2> QED
    BY <2>1, RingKept, Values DEF OnlyLocals, IInv, Bounds
<1>3. (InOrder => ReadsOwnTicket)'
  BY DEF IInv, ReadsOwnTicket, OnlyLocals, InOrder, Reorders, Ticket, Threads
<1>4. PendOK'
  BY DEF IInv, PendOK, InOrder, Reorders
<1> QED
  BY <1>1, <1>2, <1>3, <1>4, LocalStep DEF IInv

\* Loading the head in rpcmsg_commit_update gives a current snapshot.
LEMMA StepCommitLoadHead ==
  ASSUME IInv, TypeOK', NEW p \in Threads, CommitLoadHead(p)
  PROVE  IInv'
<1>1. OnlyLocals(p) /\ UNCHANGED <<ring, pend, ot, got>>
  BY DEF IInv, TypeOK, CommitLoadHead, OnlyLocals
<1>2. pc[p] = "load" /\ pc'[p] = "tail" /\ oh'[p] = head[Bound(p)]
  BY DEF IInv, TypeOK, CommitLoadHead
<1>3. CommitOne(p)'
  BY <1>1, <1>2, Teams, Values, Constants DEF IInv, CommitOne, OnlyLocals
<1> QED
  BY <1>1, <1>2, <1>3, CommitSide

\* The reload of the tail sees the entry of the thread itself, and nobody
\* else's when it is the only one left to commit.
LEMMA StepCommitLoadTail ==
  ASSUME IInv, TypeOK', NEW p \in Threads, CommitLoadTail(p)
  PROVE  IInv'
<1> DEFINE b == Bound(p)
<1>1. OnlyLocals(p) /\ UNCHANGED <<ring, pend, ot, oh, got>>
  BY DEF IInv, TypeOK, CommitLoadTail, OnlyLocals
<1>2. pc[p] = "tail" /\ pc'[p] = "commit" /\ nt'[p] = tail[b]
  BY DEF IInv, TypeOK, CommitLoadTail
<1>3. CommitOne(p)'
  <2>1. b \in Bounds /\ p \in Owners(b)
    BY <1>2, Teams DEF Owners, Outstanding
  <2>2. IsFiniteSet(Owners(b)) /\ Cardinality(Owners(b)) \in Nat
    BY <2>1, OwnersFinite
  <2>3. Cardinality(Owners(b)) # 0
    BY <2>1, <2>2, FS_EmptySet
  <2>4. tail[b].count = head[b].count + Cardinality(Owners(b))
    BY <2>1 DEF IInv, CountsOK
  <2>5. /\ oh[p].count <= head[b].count
        /\ head[b].count - oh[p].count < Word
        /\ oh[p].count = head[b].count => oh[p].pos = head[b].pos
    BY <1>2 DEF IInv, CommitOK, CommitOne
  <2>6. /\ tail[b].pos = tail[b].count
        /\ oh[p].count + 1 <= tail[b].count
    BY <2>1, <2>2, <2>3, <2>4, <2>5, Values DEF IInv, MarkersOK
  <2>7. ASSUME oh[p].count = head[b].count, tail[b].count = oh[p].count + 1,
               NEW q \in Threads, q # p, Bound(q) = b, Outstanding(q)
        PROVE  FALSE
    <3>1. Cardinality(Owners(b)) = 1
      BY <2>1, <2>2, <2>4, <2>7, Values DEF IInv
    <3>2. q \in Owners(b)
      BY <2>1, <2>7, Teams DEF Owners
    <3> QED
      BY <2>1, <2>2, <2>7, <3>1, <3>2, FS_Singleton
  <2>8. \A q \in Threads : Outstanding(q)' <=> Outstanding(q)
    BY <1>1, <1>2 DEF OnlyLocals, Outstanding
  <2> QED
    BY <1>1, <1>2, <2>1, <2>5, <2>6, <2>7, <2>8, Values
    DEF IInv, CommitOne, OnlyLocals
<1> QED
  BY <1>1, <1>2, <1>3, CommitSide

\* A commit that lost the race keeps a snapshot that is not ahead.
LEMMA StepCommitRetry ==
  ASSUME IInv, TypeOK', NEW p \in Threads, CommitRetry(p)
  PROVE  IInv'
<1> DEFINE b == Bound(p)
<1>1. OnlyLocals(p) /\ UNCHANGED <<ring, pend, ot, got>>
  BY DEF IInv, TypeOK, CommitRetry, OnlyLocals
<1>2. /\ pc[p] = "commit" /\ pc'[p] = "tail"
      /\ oh'[p] = CasFailed(p, oh[p], head[b])
  BY DEF IInv, TypeOK, CommitRetry
<1>3. oh'[p] = oh[p] \/ oh'[p] = head[b]
  BY <1>2 DEF CasFailed
<1>4. CommitOne(p)'
  <2>1. /\ oh[p].count <= head[b].count
        /\ head[b].count - oh[p].count < Word
        /\ oh[p].count = head[b].count => oh[p].pos = head[b].pos
    BY <1>2 DEF IInv, CommitOK, CommitOne
  <2>2. /\ oh'[p].count <= head[b].count
        /\ head[b].count - oh'[p].count < Word
        /\ oh'[p].count = head[b].count => oh'[p].pos = head[b].pos
    BY <1>3, <2>1, Teams, Values, Constants DEF IInv
  <2> QED
    BY <1>1, <1>2, <2>2 DEF CommitOne, OnlyLocals
<1> QED
  BY <1>1, <1>2, <1>4, CommitSide

\* A consumer's entry has been published, so its producer's copy is complete.
LEMMA StepDequeueElem ==
  ASSUME IInv, TypeOK', NEW p \in Threads, DequeueElem(p)
  PROVE  IInv'
<1>1. OnlyLocals(p) /\ UNCHANGED <<ring, pend, ot>>
  BY DEF IInv, TypeOK, DequeueElem, OnlyLocals
<1>2. /\ p \in Consumers /\ p \notin Producers /\ Bound(p) = "cons"
      /\ pc[p] = "copy" /\ pc'[p] = "load"
      /\ got'[p] = ring[RingIndex(Ticket(p))]
  BY QueueAssumption DEF QueueAssumption, IInv, TypeOK, DequeueElem, Bound
<1>3. /\ AcquireOne(p)' /\ CommitOne(p)' /\ Outstanding(p) /\ Outstanding(p)'
  BY <1>2 DEF AcquireOne, CommitOne, Acquiring, Outstanding
<1>4. RingOK'
  <2>1. \A q \in Producers : /\ pc'[q] = "copy" <=> pc[q] = "copy"
                             /\ pc[q] = "copy" => ot'[q] = ot[q]
    BY <1>1, <1>2 DEF OnlyLocals, Threads
  <2> QED
    BY <1>1, <2>1, RingKept, Values DEF OnlyLocals, IInv, Bounds
<1>5. (InOrder => ReadsOwnTicket)'
  <2> SUFFICES ASSUME InOrder PROVE ReadsOwnTicket'
    BY DEF InOrder, Reorders
  <2>1. /\ head["cons"].pos <= Ticket(p)
        /\ Ticket(p) < tail["cons"].pos
        /\ Ticket(p) \in Nat
    BY <1>2, <1>3, Values DEF IInv, TicketsOK, Ticket
  <2>2. \A q \in Producers : pc[q] = "copy" => Ticket(q) # Ticket(p)
    <3> SUFFICES ASSUME NEW q \in Producers, pc[q] = "copy"
                 PROVE  Ticket(q) # Ticket(p)
      OBVIOUS
    <3>1. q \in Threads /\ Bound(q) = "prod" /\ Outstanding(q)
      BY DEF Threads, Bound, Outstanding
    <3>2. head["prod"].pos <= Ticket(q) /\ Ticket(q) \in Nat
      BY <3>1, Values DEF IInv, TicketsOK, Ticket
    <3> QED
      BY <2>1, <3>2, Values DEF IInv, MarkerOrder, Bounds
  <2>3. Ticket(p) \in head["cons"].pos .. tail["prod"].pos - 1
    BY <2>1, Values DEF IInv, MarkerOrder, Bounds
  <2>4. got'[p] = Ticket(p)
    BY <1>2, <2>2, <2>3 DEF IInv, RingOK
  <2> QED
    BY <1>1, <2>4 DEF IInv, ReadsOwnTicket, OnlyLocals, Ticket, Threads
<1>6. PendOK'
  BY <1>1 DEF IInv, PendOK, InOrder, Reorders
<1> QED
  BY <1>1, <1>3, <1>4, <1>5, <1>6, LocalStep DEF IInv

\* A producer's store cannot touch the cell of another claimed entry.
LEMMA StepEnqueueElem ==
  ASSUME IInv, TypeOK', NEW p \in Threads, EnqueueElem(p)
  PROVE  IInv'
<1>1. OnlyLocals(p) /\ UNCHANGED ot
  BY DEF IInv, TypeOK, EnqueueElem, OnlyLocals
<1>2. /\ p \in Producers /\ p \notin Consumers /\ Bound(p) = "prod"
      /\ pc[p] = "copy" /\ pc'[p] = "load" /\ got' = got
  BY QueueAssumption DEF QueueAssumption, IInv, TypeOK, EnqueueElem, Bound
<1>3. /\ AcquireOne(p)' /\ CommitOne(p)' /\ Outstanding(p) /\ Outstanding(p)'
  BY <1>2 DEF AcquireOne, CommitOne, Acquiring, Outstanding
<1>4. InOrder => /\ ring' = [ring EXCEPT ![RingIndex(Ticket(p))] = Ticket(p)]
                 /\ UNCHANGED pend
  BY <1>2 DEF EnqueueElem, InOrder
<1>5. RingOK'
  <2> SUFFICES ASSUME InOrder,
                      NEW k \in head["cons"].pos .. tail["prod"].pos - 1,
                      \A q \in Producers : pc'[q] = "copy" => Ticket(q) # k
               PROVE  ring'[RingIndex(k)] = k
    BY <1>1 DEF RingOK, InOrder, Reorders, Ticket, OnlyLocals
  <2>1. k \in Nat /\ RingIndex(k) \in Slots
    BY Values, RingIndexType DEF IInv, Bounds
  <2>2. Ticket(p) \in Nat /\ Ticket(p) \in head["cons"].pos .. tail["prod"].pos - 1
    BY <1>2, <1>3, Values DEF IInv, TicketsOK, MarkerOrder, Ticket, Bounds
  <2>3. CASE k = Ticket(p)
    BY <1>4, <2>1, <2>3 DEF IInv, TypeOK
  <2>4. CASE k # Ticket(p)
    <3>1. RingIndex(k) # RingIndex(Ticket(p))
      <4>1. k - Ticket(p) < BufferSize /\ Ticket(p) - k < BufferSize
        BY <2>1, <2>2, Values, Constants DEF IInv, MarkerOrder, Bounds
      <4>2. CASE k < Ticket(p)
        BY <2>1, <2>2, <4>1, <4>2, RingIndexDistinct
      <4>3. CASE Ticket(p) < k
        BY <2>1, <2>2, <4>1, <4>3, RingIndexDistinct
      <4> QED
        BY <2>1, <2>2, <2>4, <4>2, <4>3
    <3>2. \A q \in Producers : pc[q] = "copy" => Ticket(q) # k
      BY <1>1, <2>4 DEF OnlyLocals, Threads
    <3>3. ring[RingIndex(k)] = k
      BY <3>2 DEF IInv, RingOK
    <3> QED
      BY <1>4, <2>1, <3>1, <3>3 DEF IInv, TypeOK
  <2> QED
    BY <2>3, <2>4
<1>6. (InOrder => ReadsOwnTicket)'
  BY <1>1, <1>2 DEF IInv, ReadsOwnTicket, OnlyLocals, InOrder, Reorders, Ticket, Threads
<1>7. PendOK'
  BY <1>4 DEF IInv, PendOK, InOrder, Reorders
<1> QED
  BY <1>1, <1>3, <1>5, <1>6, <1>7, LocalStep DEF IInv

\* A delayed store only exists where nothing is claimed of the ring.
LEMMA StepStoreLands ==
  ASSUME IInv, TypeOK', NEW p \in Threads, StoreLands(p)
  PROVE  IInv'
<1>1. ~InOrder
  BY DEF IInv, PendOK, StoreLands
<1>2. RingOK' /\ PendOK' /\ (InOrder => ReadsOwnTicket)'
  BY <1>1 DEF RingOK, PendOK, InOrder, Reorders
<1>3. UNCHANGED <<tail, head, pc, ot, oh, nt, got>>
  BY DEF StoreLands
<1>4. AcquireOne(p)' /\ CommitOne(p)' /\ OnlyLocals(p)
      /\ (Outstanding(p)' <=> Outstanding(p))
  BY <1>3 DEF IInv, AcquireOK, CommitOK, AcquireOne, CommitOne, OnlyLocals,
              Acquiring, Outstanding, Ticket
<1> QED
  BY <1>2, <1>3, <1>4, LocalStep DEF IInv

\* What a successful commit does to the head: the snapshot was current, the
\* count grows by one, and the position stays or moves to the tail the thread
\* read, which every other claimed entry lies beyond.
LEMMA CommitMoves ==
  ASSUME IInv, NEW p \in Threads, CommitDone(p)
  PROVE  LET b == Bound(p) IN
         /\ head'[b].count = head[b].count + 1
         /\ \/ /\ nt[p].count = head[b].count + 1
               /\ head'[b].pos = head[b].count + 1
            \/ /\ nt[p].count # head[b].count + 1
               /\ head'[b].pos = head[b].pos
         /\ head[b].count + 1 <= nt[p].count
         /\ nt[p].count <= tail[b].count
         /\ \A c \in Bounds \ {b} : head'[c] = head[c]
         /\ nt[p].count = head[b].count + 1 =>
              \A q \in Threads :
                q # p /\ Bound(q) = b /\ Outstanding(q)
                  => head[b].count + 1 <= Ticket(q)
<1> DEFINE b == Bound(p)
<1>1. b \in Bounds
  BY Teams
<1>2. /\ oh[p].count <= head[b].count
      /\ head[b].count - oh[p].count < Word
      /\ oh[p].count = head[b].count => oh[p].pos = head[b].pos
      /\ nt[p].pos = nt[p].count
      /\ oh[p].count + 1 <= nt[p].count
      /\ nt[p].count <= tail[b].count
      /\ oh[p].count = head[b].count /\ nt[p].count = oh[p].count + 1 =>
           \A q \in Threads :
             q # p /\ Bound(q) = b /\ Outstanding(q) => nt[p].pos <= Ticket(q)
  BY DEF IInv, CommitOK, CommitOne, CommitDone
<1>3. oh[p].count = head[b].count /\ oh[p].pos = head[b].pos
  <2>1. Same32(head[b].count, oh[p].count)
    BY DEF CommitDone, SameRaw
  <2> QED
    BY <1>1, <1>2, <2>1, Values, SameSmall DEF IInv
<1>4. head' = [head EXCEPT ![b] = NewHead(oh[p], nt[p])]
  BY DEF CommitDone
<1>5. Same32(nt[p].count, oh[p].count + 1) <=> nt[p].count = head[b].count + 1
  <2>1. nt[p].count - (head[b].count + 1) < Word
    BY <1>1, <1>2, Values, Constants DEF IInv, MarkersOK, TailDistance
  <2> QED
    BY <1>1, <1>2, <1>3, <2>1, Values, SameSmall DEF IInv
<1>6. /\ head'[b].count = oh[p].count + 1
      /\ head'[b].pos = IF Same32(nt[p].count, oh[p].count + 1)
                          THEN nt[p].pos ELSE oh[p].pos
      /\ \A c \in Bounds \ {b} : head'[c] = head[c]
  BY <1>1, <1>4 DEF IInv, TypeOK, NewHead
<1> QED
  BY <1>1, <1>2, <1>3, <1>5, <1>6

\* The commit itself.
LEMMA StepCommitDone ==
  ASSUME IInv, TypeOK', NEW p \in Threads, CommitDone(p)
  PROVE  IInv'
<1> DEFINE b == Bound(p)
<1>1. b \in Bounds
  BY Teams
<1>2. /\ pc[p] = "commit" /\ pc'[p] = "idle"
      /\ UNCHANGED <<tail, ring, pend>>
      /\ \A q \in Threads \ {p} : /\ pc'[q] = pc[q] /\ ot'[q] = ot[q]
                                  /\ oh'[q] = oh[q] /\ nt'[q] = nt[q]
      /\ \A c \in Consumers \ {p} : got'[c] = got[c]
  BY DEF IInv, TypeOK, CommitDone, Return
<1>3. /\ head'[b].count = head[b].count + 1
      /\ \/ /\ nt[p].count = head[b].count + 1
            /\ head'[b].pos = head[b].count + 1
         \/ /\ nt[p].count # head[b].count + 1
            /\ head'[b].pos = head[b].pos
      /\ head[b].count + 1 <= nt[p].count
      /\ nt[p].count <= tail[b].count
      /\ \A c \in Bounds \ {b} : head'[c] = head[c]
      /\ nt[p].count = head[b].count + 1 =>
           \A q \in Threads :
             q # p /\ Bound(q) = b /\ Outstanding(q)
               => head[b].count + 1 <= Ticket(q)
  BY CommitMoves
<1>4. /\ Outstanding(p) /\ ~Outstanding(p)'
      /\ \A q \in Threads \ {p} : /\ Outstanding(q)' <=> Outstanding(q)
                                  /\ Ticket(q)' = Ticket(q)
  BY <1>2 DEF Outstanding, Ticket
<1>5. MarkersOK'
  BY <1>1, <1>2, <1>3, Values DEF IInv, MarkersOK
<1>6. \A c \in Bounds : /\ head[c].pos <= head'[c].pos
                        /\ head'[c].pos <= tail[c].pos
                        /\ head'[c].pos \in Nat
  <2> SUFFICES ASSUME NEW c \in Bounds
               PROVE  /\ head[c].pos <= head'[c].pos
                      /\ head'[c].pos <= tail[c].pos
                      /\ head'[c].pos \in Nat
    OBVIOUS
  <2>1. head[c].pos <= tail[c].pos
    BY Values DEF IInv, MarkersOK
  <2>2. CASE c = b
    BY <1>1, <1>3, <2>1, <2>2, Values DEF IInv, MarkersOK
  <2>3. CASE c # b
    BY <1>3, <2>1, <2>3, Values DEF IInv
  <2> QED
    BY <2>2, <2>3
<1>7. MarkerOrder' /\ TailDistance'
  <2>1. MarkerOrder'
    BY <1>2, <1>6, Values, Constants DEF IInv, MarkerOrder, Bounds
  <2>2. TailDistance'
    BY <1>2, <1>6, Values, Constants DEF IInv, TailDistance
  <2> QED
    BY <2>1, <2>2
<1>8. CountsOK'
  <2>1. Owners(b)' = Owners(b) \ {p} /\ p \in Owners(b)
    BY <1>1, <1>4, Teams DEF Owners
  <2>2. Cardinality(Owners(b)') = Cardinality(Owners(b)) - 1
    BY <1>1, <2>1, OwnersFinite, FS_RemoveElement
  <2>3. ASSUME NEW c \in Bounds, c # b PROVE Owners(c)' = Owners(c)
    BY <1>4, <2>3, Teams DEF Owners
  <2> QED
    BY <1>1, <1>2, <1>3, <2>2, <2>3, Values, OwnersFinite DEF IInv, CountsOK
<1>9. TicketsOK'
  <2>1. ASSUME NEW q \in Threads, Outstanding(q)'
        PROVE  /\ head'[Bound(q)].pos <= Ticket(q)'
               /\ Ticket(q)' < tail'[Bound(q)].pos
    <3>1. q # p /\ Outstanding(q) /\ Ticket(q)' = Ticket(q)
      BY <1>4, <2>1
    <3>2. /\ head[Bound(q)].pos <= Ticket(q)
          /\ Ticket(q) < tail[Bound(q)].pos
      BY <3>1 DEF IInv, TicketsOK
    <3>3. CASE Bound(q) = b
      BY <1>2, <1>3, <3>1, <3>2, <3>3
    <3>4. CASE Bound(q) # b
      BY <1>2, <1>3, <3>1, <3>2, <3>4, Teams
    <3> QED
      BY <3>3, <3>4
  <2>2. ASSUME NEW q \in Threads, NEW r \in Threads, q # r,
               Bound(q) = Bound(r), Outstanding(q)', Outstanding(r)'
        PROVE  Ticket(q)' # Ticket(r)'
    BY <1>4, <2>2 DEF IInv, TicketsOK
  <2> QED
    BY <2>1, <2>2 DEF TicketsOK
<1>10. AcquireOK'
  <2>1. AcquireOne(p)'
    BY <1>2 DEF AcquireOne, Acquiring
  <2>2. ASSUME NEW q \in Threads, q # p PROVE AcquireOne(q)'
    <3>1. pc'[q] = pc[q] /\ ot'[q] = ot[q] /\ tail' = tail /\ Bound(q) \in Bounds
      BY <1>2, <2>2, Teams
    <3>2. Acquiring(q) => /\ ot[q].pos = ot[q].count
                          /\ ot[q].pos <= tail[Bound(q)].pos
                          /\ tail[Bound(q)].pos + BufferSize - ot[q].pos < Word
      BY DEF IInv, AcquireOK, AcquireOne
    <3>3. ASSUME pc[q] \in {"check", "cas"}, ot[q].pos = tail[Bound(q)].pos
          PROVE  tail[Bound(q)].pos - head'[Bound(q)].pos <= RPCMSG_HTD_MAX
      <4>1. tail[Bound(q)].pos - head[Bound(q)].pos <= RPCMSG_HTD_MAX
        BY <3>3 DEF IInv, AcquireOK, AcquireOne
      <4> QED
        BY <1>6, <3>1, <4>1, Values, Constants DEF IInv
    <3>4. ASSUME pc[q] = "cas", ot[q].pos = tail[Bound(q)].pos
          PROVE  IF Bound(q) = "prod"
                   THEN tail["prod"].pos < head'["cons"].pos + BufferSize
                   ELSE tail["cons"].pos < head'["prod"].pos
      <4>1. IF Bound(q) = "prod"
              THEN tail["prod"].pos < head["cons"].pos + BufferSize
              ELSE tail["cons"].pos < head["prod"].pos
        BY <3>4 DEF IInv, AcquireOK, AcquireOne
      <4> QED
        BY <1>6, <4>1, Values, Constants DEF IInv, Bounds
    <3> QED
      BY <3>1, <3>2, <3>3, <3>4 DEF AcquireOne, Acquiring
  <2> QED
    BY <2>1, <2>2 DEF AcquireOK
<1>11. CommitOK'
  <2>1. CommitOne(p)'
    BY <1>2 DEF CommitOne
  <2>2. ASSUME NEW q \in Threads, q # p, Bound(q) # b PROVE CommitOne(q)'
    <3>1. /\ Bound(q) \in Bounds /\ head'[Bound(q)] = head[Bound(q)]
          /\ tail' = tail /\ pc'[q] = pc[q] /\ oh'[q] = oh[q] /\ nt'[q] = nt[q]
      BY <1>2, <1>3, <2>2, Teams
    <3>2. \A r \in Threads : Bound(r) = Bound(q) /\ Outstanding(r)'
            => Outstanding(r) /\ Ticket(r)' = Ticket(r)
      BY <1>4, <2>2
    <3> QED
      BY <3>1, <3>2 DEF IInv, CommitOK, CommitOne
  <2>3. ASSUME NEW q \in Threads, q # p, Bound(q) = b PROVE CommitOne(q)'
    <3>1. /\ tail' = tail /\ pc'[q] = pc[q] /\ oh'[q] = oh[q] /\ nt'[q] = nt[q]
      BY <1>2, <2>3
    <3>2. pc[q] \in {"tail", "commit"} => oh[q].count <= head[b].count
      BY <2>3 DEF IInv, CommitOK, CommitOne
    <3>3. pc[q] \in {"tail", "commit"} => oh[q].count # head'[b].count
      BY <1>1, <1>3, <3>2, Values DEF IInv
    <3>4. pc[q] \in {"tail", "commit"} => head'[b].count - oh[q].count < Word
      <4>1. HeadNotLapped(b, oh[p].count + 1)
        BY DEF CommitDone
      <4>2. q \in Team(b)
        BY <1>1, <2>3, Teams
      <4>3. head'[b].count = oh[p].count + 1
        <5>1. head' = [head EXCEPT ![b] = NewHead(oh[p], nt[p])]
          BY DEF CommitDone
        <5> QED
          BY <1>1, <5>1 DEF IInv, TypeOK, NewHead
      <4> QED
        BY <4>1, <4>2, <4>3 DEF HeadNotLapped
    <3>5. pc[q] = "commit" => /\ nt[q].pos = nt[q].count
                              /\ oh[q].count + 1 <= nt[q].count
                              /\ nt[q].count <= tail[b].count
      BY <2>3 DEF IInv, CommitOK, CommitOne
    <3>6. pc[q] \in {"tail", "commit"} => oh[q].count <= head'[b].count
      BY <1>1, <1>3, <3>2, Values DEF IInv
    <3> QED
      BY <2>3, <3>1, <3>3, <3>4, <3>5, <3>6 DEF CommitOne
  <2> QED
    BY <2>1, <2>2, <2>3 DEF CommitOK
<1>12. RingOK'
  <2>1. \A q \in Producers : /\ pc'[q] = "copy" <=> pc[q] = "copy"
                             /\ pc[q] = "copy" => ot'[q] = ot[q]
    BY <1>2 DEF Threads
  <2> QED
    BY <1>2, <1>6, <2>1, RingKept DEF Bounds
<1>13. (InOrder => ReadsOwnTicket)'
  BY <1>2 DEF IInv, ReadsOwnTicket, InOrder, Reorders, Ticket, Threads
<1>14. PendOK'
  BY <1>2 DEF IInv, PendOK, InOrder, Reorders
<1> QED
  BY <1>5, <1>7, <1>8, <1>9, <1>10, <1>11, <1>12, <1>13, <1>14 DEF IInv

---------------------------------------------------------------------------

\* An initialised queue satisfies the invariant.
LEMMA InvInit == Init => IInv
<1> SUFFICES ASSUME Init PROVE IInv
  OBVIOUS
<1>1. TypeOK
  BY TypeInit
<1>2. /\ \A b \in Bounds : tail[b] = Marker(InitPos) /\ head[b] = Marker(InitPos)
      /\ \A p \in Threads : pc[p] = "idle"
      /\ \A p \in Producers : pend[p] = None
      /\ InitPos \in Nat
  BY QueueAssumption DEF QueueAssumption, Init
<1>3. \A p \in Threads : ~Outstanding(p) /\ ~Acquiring(p)
  BY <1>2 DEF Outstanding, Acquiring
<1>4. MarkersOK /\ MarkerOrder /\ TailDistance
  BY <1>2, Constants DEF MarkersOK, MarkerOrder, TailDistance, Marker, Bounds
<1>5. CountsOK
  <2>1. \A b \in Bounds : Owners(b) = {}
    BY <1>3, Teams DEF Owners
  <2> QED
    BY <1>2, <2>1, FS_EmptySet DEF CountsOK, Marker
<1>6. TicketsOK /\ AcquireOK /\ CommitOK
  BY <1>2, <1>3 DEF TicketsOK, AcquireOK, CommitOK, AcquireOne, CommitOne
<1>7. RingOK
  <2>1. head["cons"].pos = InitPos /\ tail["prod"].pos = InitPos
    BY <1>2 DEF Bounds, Marker
  <2>2. head["cons"].pos .. tail["prod"].pos - 1 = {}
    BY <1>2, <2>1
  <2> QED
    BY <2>2 DEF RingOK
<1>8. PendOK /\ ReadsOwnTicket
  BY <1>2 DEF PendOK, ReadsOwnTicket, Threads
<1> QED
  BY <1>1, <1>4, <1>5, <1>6, <1>7, <1>8 DEF IInv

\* Every step keeps the invariant.
LEMMA InvNext == IInv /\ [Next]_vars => IInv'
<1> SUFFICES ASSUME IInv, [Next]_vars PROVE IInv'
  OBVIOUS
<1>1. TypeOK'
  BY TypeNext DEF IInv
<1>2. CASE UNCHANGED vars
  BY <1>2
  DEF vars, IInv, TypeOK, CellOK, MarkersOK, CountsOK, MarkerOrder,
      TailDistance, TicketsOK, AcquireOK, AcquireOne, CommitOK, CommitOne,
      RingOK, PendOK, InOrder, Reorders, ReadsOwnTicket, Owners, Outstanding,
      Acquiring, Ticket
<1>3. ASSUME NEW p \in Threads, AcquireLoad(p) \/ Step(p) \/ StoreLands(p)
      PROVE  IInv'
  BY <1>1, <1>3, StepAcquireLoad, StepTailWait, StepTailReload,
     StepAcquireFail, StepAcquireCheck, StepAcquireCas, StepEnqueueElem,
     StepDequeueElem, StepCommitLoadHead, StepCommitLoadTail, StepCommitDone,
     StepCommitRetry, StepStoreLands
  DEF Step
<1> QED
  BY <1>2, <1>3 DEF Next

\* The inductive invariant holds in every reachable state of the queue, for
\* any number of user and kernel threads, on one core or several.
THEOREM Inductive == Spec => []IInv
<1> QED
  BY InvInit, InvNext, PTL DEF Spec

\* The markers stay in order and the ring is never overfilled.
THEOREM MarkersInOrder == Spec => []MarkerOrder
<1>1. IInv => MarkerOrder
  BY DEF IInv
<1> QED
  BY <1>1, Inductive, PTL

\* rpcmsg_tail_wait bounds the claimed but unpublished entries.
THEOREM TailBounded == Spec => []TailDistance
<1>1. IInv => TailDistance
  BY DEF IInv
<1> QED
  BY <1>1, Inductive, PTL

\* rpcmsg_commit_update leaves nothing unpublished once all calls are done.
THEOREM NothingStranded == Spec => []QuiescentPublished
<1>1. IInv => QuiescentPublished
  <2> SUFFICES ASSUME IInv, NEW b \in Bounds, Owners(b) = {}
               PROVE  head[b].pos = tail[b].pos
    BY DEF QuiescentPublished
  <2>1. head[b].count = tail[b].count
    BY FS_EmptySet, Values DEF IInv, CountsOK
  <2> QED
    BY <2>1 DEF IInv, MarkersOK
<1> QED
  BY <1>1, Inductive, PTL

\* Two calls that copy at the same time use different ring cells.
THEOREM CellsExclusive == Spec => []SlotExclusive
<1>1. IInv => SlotExclusive
  <2> SUFFICES ASSUME IInv, NEW p \in Threads, NEW q \in Threads, p # q,
                      pc[p] = "copy", pc[q] = "copy"
               PROVE  RingIndex(Ticket(p)) # RingIndex(Ticket(q))
    BY DEF SlotExclusive
  <2>1. Outstanding(p) /\ Outstanding(q) /\ Bound(p) \in Bounds /\ Bound(q) \in Bounds
    BY Teams DEF Outstanding
  <2>2. Ticket(p) \in Nat /\ Ticket(q) \in Nat
    BY Values DEF IInv, Ticket
  <2>3. ASSUME NEW r \in Threads, Outstanding(r), Bound(r) \in Bounds
        PROVE  Ticket(r) \in head["cons"].pos .. tail["prod"].pos - 1
    <3>1. /\ head[Bound(r)].pos <= Ticket(r) /\ Ticket(r) < tail[Bound(r)].pos
          /\ Ticket(r) \in Nat
      BY <2>3, Values DEF IInv, TicketsOK, Ticket
    <3> QED
      BY <2>3, <3>1, Values DEF IInv, MarkerOrder, Bounds
  <2>4. Ticket(p) # Ticket(q)
    <3>1. CASE Bound(p) = Bound(q)
      BY <2>1, <3>1 DEF IInv, TicketsOK
    <3>2. ASSUME NEW r \in Threads, NEW s \in Threads, Outstanding(r),
                 Outstanding(s), Bound(r) = "prod", Bound(s) = "cons"
          PROVE  Ticket(s) < Ticket(r)
      <4>1. /\ head["prod"].pos <= Ticket(r) /\ Ticket(s) < tail["cons"].pos
            /\ Ticket(r) \in Nat /\ Ticket(s) \in Nat
        BY <3>2, Values DEF IInv, TicketsOK, Ticket
      <4> QED
        BY <4>1, Values DEF IInv, MarkerOrder, Bounds
    <3>3. CASE Bound(p) # Bound(q)
      BY <2>1, <2>2, <3>2, <3>3 DEF Bounds
    <3> QED
      BY <3>1, <3>3
  <2>5. Ticket(p) - Ticket(q) < BufferSize /\ Ticket(q) - Ticket(p) < BufferSize
    BY <2>1, <2>2, <2>3, Values, Constants DEF IInv, MarkerOrder, Bounds
  <2>6. CASE Ticket(p) < Ticket(q)
    BY <2>2, <2>5, <2>6, RingIndexDistinct
  <2>7. CASE Ticket(q) < Ticket(p)
    BY <2>2, <2>5, <2>7, RingIndexDistinct
  <2> QED
    BY <2>2, <2>4, <2>6, <2>7
<1> QED
  BY <1>1, Inductive, PTL

\* First-in first-out delivery, when every ring store becomes visible before
\* the commit that publishes it (one core, or kernel producers only).
THEOREM InOrderDelivery == InOrder /\ Spec => []ReadsOwnTicket
<1>1. InOrder /\ IInv => ReadsOwnTicket
  BY DEF IInv
<1>2. InOrder /\ [Next]_vars => InOrder'
  BY DEF InOrder, Reorders
<1>3. InOrder /\ Spec => []InOrder
  BY <1>2, PTL DEF Spec
<1> QED
  BY <1>1, <1>3, Inductive, PTL

\* Heads only move forward and count one commit at a time: a 32-bit marker that
\* wrapped around never passes for the one a thread read.
THEOREM HeadsOnlyAdvance == Spec => HeadsAdvance
<1>1. ASSUME IInv, [Next]_vars
      PROVE  [\A b \in Bounds :
                /\ head'[b].pos >= head[b].pos
                /\ head'[b].count - head[b].count \in {0, 1}]_vars
  <2>1. CASE UNCHANGED vars
    BY <2>1 DEF vars
  <2>2. ASSUME UNCHANGED head
        PROVE  \A b \in Bounds :
                 /\ head'[b].pos >= head[b].pos
                 /\ head'[b].count - head[b].count \in {0, 1}
    <3>1. \A b \in Bounds : head[b].pos \in Nat /\ head[b].count \in Nat
      BY <1>1, Values DEF IInv
    <3> QED
      BY <2>2, <3>1
  <2>3. ASSUME NEW p \in Threads, CommitDone(p)
        PROVE  \A b \in Bounds :
                 /\ head'[b].pos >= head[b].pos
                 /\ head'[b].count - head[b].count \in {0, 1}
    <3> SUFFICES ASSUME NEW b \in Bounds
                 PROVE  /\ head'[b].pos >= head[b].pos
                        /\ head'[b].count - head[b].count \in {0, 1}
      OBVIOUS
    <3>0. /\ head[b].pos \in Nat /\ head[b].count \in Nat
          /\ head[b].pos <= head[b].count
      BY <1>1, Values DEF IInv, MarkersOK
    <3>1. CASE b = Bound(p)
      <4>1. /\ head'[b].count = head[b].count + 1
            /\ head'[b].pos = head[b].count + 1 \/ head'[b].pos = head[b].pos
        BY <1>1, <2>3, <3>1, CommitMoves
      <4> QED
        BY <3>0, <4>1
    <3>2. CASE b # Bound(p)
      <4>1. head'[b] = head[b]
        BY <1>1, <2>3, <3>2, CommitMoves
      <4> QED
        BY <3>0, <4>1
    <3> QED
      BY <3>1, <3>2
  <2>4. ASSUME NEW p \in Threads, AcquireLoad(p) \/ Step(p) \/ StoreLands(p)
        PROVE  UNCHANGED head \/ CommitDone(p)
    BY <2>4
    DEF AcquireLoad, StoreLands, Step, TailWait, TailReload, AcquireFail,
        AcquireCheck, AcquireCas, EnqueueElem, DequeueElem, CommitLoadHead,
        CommitLoadTail, CommitRetry
  <2> QED
    BY <1>1, <2>1, <2>2, <2>3, <2>4 DEF Next
<1> QED
  BY <1>1, Inductive, PTL DEF Spec, HeadsAdvance

\* A test that finds no entry, made on a snapshot of the tail that may be
\* stale, is right about the queue as it is at that instant.
LEMMA FailIsTrue ==
  ASSUME IInv, NEW p \in Threads, AcquireFail(p)
  PROVE  IF p \in Producers
           THEN tail["prod"].pos = head["cons"].pos + BufferSize
           ELSE tail["cons"].pos = head["prod"].pos
<1> DEFINE b == Bound(p)
<1>1. /\ ot[p].pos <= tail[b].pos
      /\ tail[b].pos + BufferSize - ot[p].pos < Word
      /\ Entries(b, ot[p].pos) = 0
  BY DEF IInv, AcquireOK, AcquireOne, AcquireFail, Acquiring
<1>2. CASE p \in Producers
  <2>1. b = "prod" /\ Sub32(BufferSize + head["cons"].pos, ot[p].pos) = 0
    BY <1>1, <1>2 DEF Bound, Entries
  <2>2. /\ 0 <= BufferSize + head["cons"].pos - ot[p].pos
        /\ BufferSize + head["cons"].pos - ot[p].pos < Word
    BY <1>1, <2>1, Values, Constants DEF IInv, MarkerOrder, Bounds
  <2>3. BufferSize + head["cons"].pos = ot[p].pos
    <3> DEFINE e == BufferSize + head["cons"].pos
               o == ot[p].pos
    <3>1. /\ e \in Int /\ o \in Int
          /\ 0 <= e - o /\ e - o < Word
          /\ Sub32(e, o) = 0
      BY <2>1, <2>2, Values, Constants DEF IInv, Bounds
    <3> HIDE DEF e, o
    <3>2. e = o
      BY <3>1, SubSmall
    <3> QED
      BY <3>2 DEF e, o
  <2> QED
    BY <1>1, <1>2, <2>1, <2>3, Values, Constants DEF IInv, MarkerOrder, Bounds
<1>3. CASE p \notin Producers
  <2>1. b = "cons" /\ Sub32(head["prod"].pos, ot[p].pos) = 0
    BY <1>1, <1>3 DEF Bound, Entries
  <2>2. /\ 0 <= head["prod"].pos - ot[p].pos
        /\ head["prod"].pos - ot[p].pos < Word
    BY <1>1, <2>1, Values, Constants DEF IInv, MarkerOrder, Bounds
  <2>3. head["prod"].pos = ot[p].pos
    BY <2>1, <2>2, SubSmall, Values DEF IInv, Bounds
  <2> QED
    BY <1>1, <1>3, <2>1, <2>3, Values DEF IInv, MarkerOrder, Bounds
<1> QED
  BY <1>2, <1>3

\* rpcmsg_enqueue and rpcmsg_dequeue return -1 only when the ring really is
\* full, respectively empty.
THEOREM RefusalsAreTrue == Spec => RefusalIsTrue
<1>1. ASSUME IInv, [Next]_vars
      PROVE  [\A p \in Threads :
                pc[p] = "check" /\ pc'[p] = "idle" =>
                  IF p \in Producers
                    THEN tail["prod"].pos = head["cons"].pos + BufferSize
                    ELSE tail["cons"].pos = head["prod"].pos]_vars
  <2> SUFFICES ASSUME Next, NEW p \in Threads, pc[p] = "check", pc'[p] = "idle"
               PROVE  AcquireFail(p)
    BY <1>1, FailIsTrue
  <2>1. PICK q \in Threads : AcquireLoad(q) \/ Step(q) \/ StoreLands(q)
    BY DEF Next
  <2>2. q = p
    <3> SUFFICES ASSUME q # p PROVE pc'[p] = pc[p]
      OBVIOUS
    <3> QED
      BY <1>1, <2>1
      DEF IInv, TypeOK, AcquireLoad, StoreLands, Step, TailWait, TailReload,
          AcquireFail, AcquireCheck, AcquireCas, EnqueueElem, DequeueElem,
          CommitLoadHead, CommitLoadTail, CommitDone, CommitRetry, Return
  <2>3. TypeOK
    BY <1>1 DEF IInv
  <2>4. ~AcquireLoad(p) /\ ~EnqueueElem(p) /\ ~DequeueElem(p) /\ ~StoreLands(p)
    BY <2>3
    DEF TypeOK, AcquireLoad, EnqueueElem, DequeueElem, StoreLands
  <2>5. ~TailWait(p) /\ ~TailReload(p) /\ ~AcquireCheck(p) /\ ~AcquireCas(p)
    BY <2>3 DEF TypeOK, TailWait, TailReload, AcquireCheck, AcquireCas
  <2>6. /\ ~CommitLoadHead(p) /\ ~CommitLoadTail(p)
        /\ ~CommitDone(p) /\ ~CommitRetry(p)
    BY DEF CommitLoadHead, CommitLoadTail, CommitDone, CommitRetry
  <2> QED
    BY <2>1, <2>2, <2>4, <2>5, <2>6 DEF Step
<1> QED
  BY <1>1, Inductive, PTL DEF Spec, RefusalIsTrue

===============================================================================
