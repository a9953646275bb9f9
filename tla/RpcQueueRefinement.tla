-------------------------- MODULE RpcQueueRefinement --------------------------
(***************************************************************************)
(* The ring of include/sel4/rpc_queue.h implements the FIFO of RpcFifo,    *)
(* from the inductive invariant of RpcQueueProofs.                         *)
(***************************************************************************)
EXTENDS RpcQueueProofs, SequenceTheorems

---------------------------------------------------------------------------
(* The refinement *)

\* A consumer has nothing in hand before it copied its entry.
GotOK ==
  \A c \in Consumers : pc[c] \notin {"load", "tail", "commit"} => got[c] = None

\* The locals of a call start and end empty.
LEMMA GotNext == IInv /\ GotOK /\ [Next]_vars => GotOK'
<1> SUFFICES ASSUME IInv, GotOK, [Next]_vars PROVE GotOK'
  OBVIOUS
<1>1. CASE UNCHANGED vars
  BY <1>1 DEF vars, GotOK
<1>2. ASSUME NEW p \in Threads, AcquireLoad(p) \/ Step(p) \/ StoreLands(p)
      PROVE  GotOK'
  <2> TypeOK
    BY DEF IInv
  <2>1. CASE Return(p)
    BY <2>1 DEF GotOK, Return, TypeOK, Threads
  <2>2. CASE DequeueElem(p)
    BY <2>2 DEF GotOK, DequeueElem, TypeOK, Threads
  <2>3. CASE ~Return(p) /\ ~DequeueElem(p)
    <3>1. got' = got
      BY <1>2, <2>3 DEF AcquireLoad, StoreLands, Step, TailWait, TailReload,
        AcquireFail, AcquireCheck, AcquireCas, EnqueueElem, CommitLoadHead,
        CommitLoadTail, CommitDone, CommitRetry
    <3>2. \A c \in Consumers :
            pc[c] \in {"load", "tail", "commit"} => pc'[c] \in {"load", "tail", "commit"}
      BY <1>2, <2>3, QueueAssumption DEF QueueAssumption, TypeOK, Threads,
        AcquireLoad, StoreLands, Step, TailWait, TailReload,
        AcquireFail, AcquireCheck, AcquireCas, EnqueueElem, CommitLoadHead,
        CommitLoadTail, CommitDone, CommitRetry
    <3> QED
      BY <3>1, <3>2 DEF GotOK
  <2> QED
    BY <2>1, <2>2, <2>3
<1> QED
  BY <1>1, <1>2 DEF Next

\* The tickets from a up to, not including, b in order.
Run(a, b) == [i \in 1 .. b - a |-> a + i - 1]

\* Consecutive runs of tickets join.
LEMMA RunsJoin ==
  ASSUME NEW a \in Nat, NEW b \in Nat, NEW c \in Nat, a <= b, b <= c
  PROVE  Run(a, c) = Run(a, b) \o [i \in 1 .. c - b |-> b + i - 1]
<1> DEFINE s == Run(a, b)
           t == [i \in 1 .. c - b |-> b + i - 1]
<1>1. s \in Seq(Nat) /\ Len(s) = b - a /\ \A i \in 1 .. b - a : s[i] = a + i - 1
  BY DEF Run
<1>2. t \in Seq(Nat) /\ Len(t) = c - b /\ \A i \in 1 .. c - b : t[i] = b + i - 1
  OBVIOUS
<1> HIDE DEF s, t
<1>3. /\ s \o t \in Seq(Nat) /\ Len(s \o t) = c - a
      /\ \A i \in 1 .. c - a :
           (s \o t)[i] = IF i <= b - a THEN s[i] ELSE t[i - (b - a)]
  <2>1. Len(s) + Len(t) = c - a
    BY <1>1, <1>2
  <2>2. /\ s \o t \in Seq(Nat) /\ Len(s \o t) = Len(s) + Len(t)
        /\ \A i \in 1 .. Len(s) + Len(t) :
             (s \o t)[i] = IF i <= Len(s) THEN s[i] ELSE t[i - Len(s)]
    BY <1>1, <1>2, ConcatProperties, Zenon
  <2> QED
    BY <1>1, <2>1, <2>2, Zenon
<1>4. /\ Run(a, c) \in Seq(Nat) /\ Len(Run(a, c)) = c - a
      /\ \A i \in 1 .. c - a : Run(a, c)[i] = a + i - 1
  BY DEF Run
<1>5. ASSUME NEW i \in 1 .. c - a
      PROVE  (s \o t)[i] = a + i - 1
  <2>1. CASE i <= b - a
    <3>1. i \in 1 .. b - a
      BY <2>1
    <3> QED
      BY <1>1, <1>3, <2>1, <3>1
  <2>2. CASE ~(i <= b - a)
    <3>1. i - (b - a) \in 1 .. c - b /\ b + (i - (b - a)) - 1 = a + i - 1
      BY <2>2
    <3> QED
      BY <1>2, <1>3, <2>2, <3>1
  <2> QED
    BY <2>1, <2>2
<1>6. \A i \in 1 .. c - a : Run(a, c)[i] = (s \o t)[i]
  BY <1>4, <1>5
<1>7. Run(a, c) = s \o t
  BY <1>3, <1>4, <1>6, SeqEqual
<1> QED
  BY <1>7 DEF s, t

\* The oldest ticket of a run, and the others.
LEMMA RunSplits ==
  ASSUME NEW a \in Nat, NEW b \in Nat, a < b
  PROVE  Run(a, b) # <<>> /\ Head(Run(a, b)) = a /\ Tail(Run(a, b)) = Run(a + 1, b)
<1> DEFINE s == Run(a, b)
<1>1. s \in Seq(Nat) /\ Len(s) = b - a /\ \A i \in 1 .. b - a : s[i] = a + i - 1
  BY DEF Run
<1> HIDE DEF s
<1>2. s # <<>> /\ Head(s) = s[1]
  BY <1>1, EmptySeq
<1>3. s[1] = a
  BY <1>1
<1>4. /\ Tail(s) \in Seq(Nat) /\ Len(Tail(s)) = b - (a + 1)
      /\ \A i \in 1 .. b - (a + 1) : Tail(s)[i] = s[i + 1]
  <2>1. Len(s) - 1 = b - (a + 1)
    BY <1>1
  <2> QED
    BY <1>1, <1>2, <2>1, HeadTailProperties
<1>5. /\ Run(a + 1, b) \in Seq(Nat) /\ Len(Run(a + 1, b)) = b - (a + 1)
      /\ \A i \in 1 .. b - (a + 1) : Run(a + 1, b)[i] = a + 1 + i - 1
  BY DEF Run
<1>6. \A i \in 1 .. b - (a + 1) : s[i + 1] = a + 1 + i - 1
  BY <1>1
<1>7. Tail(s) = Run(a + 1, b)
  <2>1. Len(Tail(s)) = Len(Run(a + 1, b))
    BY <1>4, <1>5
  <2>2. \A i \in 1 .. Len(Tail(s)) : Tail(s)[i] = Run(a + 1, b)[i]
    BY <1>4, <1>5, <1>6
  <2> QED
    BY <1>4, <1>5, <2>1, <2>2, SeqEqual, Zenon
<1> QED
  BY <1>2, <1>3, <1>7 DEF s

\* What the callers see, in terms of markers and tickets alone.
Hands == [c \in Consumers |-> IF Outstanding(c) THEN Ticket(c) ELSE None]

\* The ring between the two bounds holds the tickets in order, and a consumer
\* holds the ticket it claimed.
LEMMA SeenByCallers ==
  IInv /\ InOrder /\ GotOK =>
    /\ Visible = Run(tail["cons"].pos, head["prod"].pos)
    /\ [c \in Consumers |-> InHand(c)] = Hands
<1> SUFFICES ASSUME IInv, InOrder, GotOK
             PROVE  /\ Visible = Run(tail["cons"].pos, head["prod"].pos)
                    /\ [c \in Consumers |-> InHand(c)] = Hands
  OBVIOUS
<1> DEFINE hp == head["prod"].pos
           hc == head["cons"].pos
           tp == tail["prod"].pos
           tc == tail["cons"].pos
<1>1. hp \in Nat /\ hc \in Nat /\ tp \in Nat /\ tc \in Nat
  BY Values DEF IInv, Bounds
<1>2. hc <= tc /\ tc <= hp /\ hp <= tp
  BY DEF IInv, MarkerOrder
<1>3. \A p \in Producers : p \in Threads /\ Bound(p) = "prod"
  BY DEF Threads, Bound
<1>4. \A c \in Consumers : c \in Threads /\ Bound(c) = "cons"
  BY QueueAssumption DEF QueueAssumption, Threads, Bound
<1>5. ASSUME NEW k \in Nat, hc <= k, k < hp
      PROVE  ring[RingIndex(k)] = k
  <2>1. k \in hc .. tp - 1
    BY <1>1, <1>2, <1>5
  <2>2. ASSUME NEW p \in Producers, pc[p] = "copy"
        PROVE  Ticket(p) # k
    <3>1. Outstanding(p) /\ hp <= Ticket(p)
      BY <1>3, <2>2 DEF IInv, TicketsOK, Outstanding
    <3> QED
      BY <1>1, <1>5, <3>1
  <2> QED
    BY <2>1, <2>2 DEF IInv, RingOK
<1>6. Visible = Run(tc, hp)
  <2>1. \A i \in 1 .. hp - tc : ring[RingIndex(tc + i - 1)] = tc + i - 1
    <3> SUFFICES ASSUME NEW i \in 1 .. hp - tc
                 PROVE  ring[RingIndex(tc + i - 1)] = tc + i - 1
      OBVIOUS
    <3>1. tc + i - 1 \in Nat /\ hc <= tc + i - 1 /\ tc + i - 1 < hp
      BY <1>1, <1>2
    <3> QED
      BY <1>5, <3>1
  <2> QED
    BY <2>1 DEF Visible, Run
<1>7. ASSUME NEW c \in Consumers
      PROVE  InHand(c) = IF Outstanding(c) THEN Ticket(c) ELSE None
  <2>1. CASE pc[c] = "copy"
    <3>1. Outstanding(c) /\ hc <= Ticket(c) /\ Ticket(c) < tc /\ Ticket(c) \in Nat
      BY <1>4, <2>1, Values DEF IInv, TicketsOK, Outstanding, Ticket
    <3>2. ring[RingIndex(Ticket(c))] = Ticket(c)
      BY <1>1, <1>2, <1>5, <3>1
    <3> QED
      BY <2>1, <3>1, <3>2 DEF InHand
  <2>2. CASE pc[c] # "copy"
    BY <2>2 DEF InHand, Outstanding, IInv, ReadsOwnTicket, GotOK
  <2> QED
    BY <2>1, <2>2
<1> QED
  BY <1>6, <1>7 DEF Hands

\* A claim that succeeds found a current snapshot, so the tests made on it
\* still hold.
LEMMA ClaimIsCurrent ==
  ASSUME IInv, NEW p \in Threads, AcquireCas(p), SameRaw(tail[Bound(p)], ot[p])
  PROVE  /\ ot[p].pos = tail[Bound(p)].pos
         /\ IF Bound(p) = "prod"
              THEN tail["prod"].pos < head["cons"].pos + BufferSize
              ELSE tail["cons"].pos < head["prod"].pos
<1> DEFINE b == Bound(p)
<1>1. b \in Bounds
  BY Teams
<1>2. /\ ot[p].pos <= tail[b].pos
      /\ tail[b].pos + BufferSize - ot[p].pos < Word
      /\ ot[p].pos = tail[b].pos =>
           IF b = "prod" THEN tail["prod"].pos < head["cons"].pos + BufferSize
                         ELSE tail["cons"].pos < head["prod"].pos
  BY DEF IInv, AcquireOK, AcquireOne, AcquireCas, Acquiring
<1>3. Same32(tail[b].pos, ot[p].pos)
  BY DEF SameRaw
<1>4. tail[b].pos \in Nat /\ ot[p].pos \in Nat
  BY <1>1, Values DEF IInv
<1>5. 0 <= tail[b].pos - ot[p].pos /\ tail[b].pos - ot[p].pos < Word
  BY <1>2, <1>4, Constants
<1>6. ot[p].pos = tail[b].pos
  BY <1>3, <1>4, <1>5, SameSmall
<1> QED
  BY <1>2, <1>6

\* The steps of RpcFifo, in terms of markers and tickets.
SeenStep ==
  \/ /\ tail["prod"].pos - head["cons"].pos < BufferSize
     /\ tail'["prod"].pos = tail["prod"].pos + 1
     /\ UNCHANGED <<head["prod"].pos, head["cons"].pos, tail["cons"].pos, Hands>>
  \/ /\ head'["prod"].pos \in head["prod"].pos + 1 .. tail["prod"].pos
     /\ UNCHANGED <<tail["prod"].pos, head["cons"].pos, tail["cons"].pos, Hands>>
  \/ \E c \in Consumers :
       /\ ~Outstanding(c) /\ tail["cons"].pos < head["prod"].pos
       /\ Hands' = [Hands EXCEPT ![c] = tail["cons"].pos]
       /\ tail'["cons"].pos = tail["cons"].pos + 1
       /\ UNCHANGED <<tail["prod"].pos, head["prod"].pos, head["cons"].pos>>
  \/ \E c \in Consumers :
       /\ Outstanding(c)
       /\ Hands' = [Hands EXCEPT ![c] = None]
       /\ head'["cons"].pos \in head["cons"].pos .. tail["cons"].pos
       /\ UNCHANGED <<tail["prod"].pos, head["prod"].pos, tail["cons"].pos>>
  \/ UNCHANGED <<tail["prod"].pos, head["prod"].pos, head["cons"].pos,
                 tail["cons"].pos, Hands>>

\* A step that leaves the markers and the claimed tickets alone is not seen.
LEMMA Unseen ==
  ASSUME UNCHANGED <<tail, head>>,
         \A c \in Consumers : /\ Outstanding(c)' <=> Outstanding(c)
                              /\ Outstanding(c) => Ticket(c)' = Ticket(c)
  PROVE  SeenStep
BY DEF SeenStep, Hands

\* Every step of the ring is a step of the queue its callers see.
LEMMA RingSteps ==
  ASSUME IInv, InOrder, [Next]_vars
  PROVE  SeenStep
<1> TypeOK
  BY DEF IInv
<1>0. CASE UNCHANGED vars
  BY <1>0, Unseen DEF vars, Outstanding, Ticket
<1>1. ASSUME NEW p \in Threads,
             \/ AcquireLoad(p) \/ TailWait(p) \/ TailReload(p) \/ AcquireFail(p)
             \/ AcquireCheck(p) \/ EnqueueElem(p) \/ DequeueElem(p)
             \/ CommitLoadHead(p) \/ CommitLoadTail(p) \/ CommitRetry(p)
             \/ StoreLands(p)
      PROVE  SeenStep
  <2>1. UNCHANGED <<tail, head>>
    BY <1>1 DEF AcquireLoad, StoreLands, TailWait, TailReload,
      AcquireFail, AcquireCheck, EnqueueElem, DequeueElem, CommitLoadHead,
      CommitLoadTail, CommitRetry
  <2>2. \A q \in Threads : q # p => pc'[q] = pc[q] /\ ot'[q] = ot[q]
    BY <1>1 DEF TypeOK, AcquireLoad, StoreLands, TailWait, TailReload,
      AcquireFail, AcquireCheck, EnqueueElem, DequeueElem, CommitLoadHead,
      CommitLoadTail, CommitRetry, Return
  <2>3. /\ Outstanding(p)' <=> Outstanding(p)
        /\ Outstanding(p) => ot'[p] = ot[p]
    BY <1>1 DEF TypeOK, AcquireLoad, StoreLands, TailWait, TailReload,
      AcquireFail, AcquireCheck, EnqueueElem, DequeueElem, CommitLoadHead,
      CommitLoadTail, CommitRetry, Return, Outstanding
  <2> QED
    BY <2>1, <2>2, <2>3, Unseen DEF Outstanding, Ticket, Threads
<1>2. ASSUME NEW p \in Threads, AcquireCas(p), ~SameRaw(tail[Bound(p)], ot[p])
      PROVE  SeenStep
  <2>1. /\ UNCHANGED <<tail, head>> /\ pc[p] = "cas"
        /\ pc' = [pc EXCEPT ![p] = "wait"]
        /\ \A q \in Threads : q # p => ot'[q] = ot[q]
    BY <1>2 DEF TypeOK, AcquireCas
  <2> QED
    BY <2>1, Unseen DEF TypeOK, Outstanding, Ticket, Threads
<1>3. ASSUME NEW p \in Threads, AcquireCas(p), SameRaw(tail[Bound(p)], ot[p])
      PROVE  SeenStep
  <2>1. /\ ot' = ot /\ head' = head
        /\ pc[p] = "cas" /\ pc' = [pc EXCEPT ![p] = "copy"]
        /\ tail' = [tail EXCEPT ![Bound(p)] = [pos   |-> ot[p].pos + 1,
                                               count |-> ot[p].count + 1]]
    BY <1>3 DEF AcquireCas
  <2>2. /\ ot[p].pos = tail[Bound(p)].pos
        /\ IF Bound(p) = "prod"
             THEN tail["prod"].pos < head["cons"].pos + BufferSize
             ELSE tail["cons"].pos < head["prod"].pos
    BY <1>3, ClaimIsCurrent
  <2>3. /\ \A q \in Threads : q # p => pc'[q] = pc[q]
        /\ ~Outstanding(p) /\ Outstanding(p)'
        /\ \A q \in Threads : Ticket(q)' = Ticket(q)
    BY <2>1 DEF TypeOK, Outstanding, Ticket
  <2>4. /\ tail["prod"].pos \in Nat /\ tail["cons"].pos \in Nat
        /\ head["prod"].pos \in Nat /\ head["cons"].pos \in Nat
    BY Values DEF Bounds
  <2>5. CASE p \in Producers
    <3>1. Bound(p) = "prod" /\ \A c \in Consumers : c # p /\ c \in Threads
      BY <2>5, QueueAssumption DEF QueueAssumption, Bound, Threads
    <3>2. Hands' = Hands
      BY <2>3, <3>1 DEF Hands, Outstanding
    <3>3. tail'["prod"].pos = tail["prod"].pos + 1 /\ tail'["cons"] = tail["cons"]
      BY <2>1, <2>2, <3>1 DEF TypeOK, Bounds
    <3>4. tail["prod"].pos - head["cons"].pos < BufferSize
      BY <2>2, <2>4, <3>1, Constants
    <3> QED
      BY <2>1, <3>2, <3>3, <3>4 DEF SeenStep
  <2>6. CASE p \notin Producers
    <3>1. Bound(p) = "cons" /\ p \in Consumers
      BY <2>6 DEF Bound, Threads
    <3>2. Hands' = [Hands EXCEPT ![p] = tail["cons"].pos]
      <4>1. \A c \in Consumers : c # p => (Outstanding(c)' <=> Outstanding(c))
        BY <2>3 DEF Outstanding, Threads
      <4>2. Ticket(p)' = tail["cons"].pos
        BY <2>2, <2>3, <3>1 DEF Ticket
      <4> QED
        BY <2>3, <3>1, <4>1, <4>2 DEF Hands, Threads
    <3>3. tail'["cons"].pos = tail["cons"].pos + 1 /\ tail'["prod"] = tail["prod"]
      BY <2>1, <2>2, <3>1 DEF TypeOK, Bounds
    <3> QED
      BY <2>1, <2>2, <2>3, <3>1, <3>2, <3>3 DEF SeenStep
  <2> QED
    BY <2>5, <2>6
<1>4. ASSUME NEW p \in Threads, CommitDone(p)
      PROVE  SeenStep
  <2> DEFINE b == Bound(p)
  <2>1. /\ pc[p] = "commit" /\ pc' = [pc EXCEPT ![p] = "idle"] /\ tail' = tail
        /\ ot' = [ot EXCEPT ![p] = NoMarker]
    BY <1>4 DEF CommitDone, Return
  <2>2. /\ Outstanding(p) /\ ~Outstanding(p)'
        /\ \A q \in Threads : q # p => /\ Outstanding(q)' <=> Outstanding(q)
                                       /\ Ticket(q)' = Ticket(q)
    BY <2>1 DEF TypeOK, Outstanding, Ticket
  <2>3. /\ \/ /\ nt[p].count = head[b].count + 1
              /\ head'[b].pos = head[b].count + 1
           \/ head'[b].pos = head[b].pos
        /\ nt[p].count <= tail[b].count
        /\ \A c \in Bounds \ {b} : head'[c] = head[c]
    BY <1>4, CommitMoves
  <2>4. /\ head[b].pos <= head[b].count
        /\ tail[b].pos = tail[b].count
        /\ head[b].pos <= tail[b].pos
        /\ b \in Bounds
    BY Teams, Values DEF IInv, MarkersOK
  <2>5. /\ tail[b].pos \in Nat /\ head[b].pos \in Nat
        /\ head[b].count \in Nat /\ tail[b].count \in Nat
    BY <2>4, Values
  <2>6. head'[b].pos = head[b].pos \/ head'[b].pos \in head[b].pos + 1 .. tail[b].pos
    BY <2>3, <2>4, <2>5
  <2>7. head'[b].pos \in head[b].pos .. tail[b].pos
    BY <2>4, <2>5, <2>6
  <2>8. CASE p \in Producers
    <3>1. b = "prod" /\ \A c \in Consumers : c # p /\ c \in Threads
      BY <2>8, QueueAssumption DEF QueueAssumption, Bound, Threads
    <3>2. Hands' = Hands
      BY <2>2, <3>1 DEF Hands
    <3>3. head'["cons"] = head["cons"]
      BY <2>3, <3>1 DEF Bounds
    <3> QED
      BY <2>1, <2>6, <3>1, <3>2, <3>3 DEF SeenStep
  <2>9. CASE p \notin Producers
    <3>1. b = "cons" /\ p \in Consumers
      BY <2>9 DEF Bound, Threads
    <3>2. Hands' = [Hands EXCEPT ![p] = None]
      BY <2>2, <3>1 DEF Hands, Threads
    <3>3. head'["prod"] = head["prod"]
      BY <2>3, <3>1 DEF Bounds
    <3> QED
      BY <2>1, <2>2, <2>7, <3>1, <3>2, <3>3 DEF SeenStep
  <2> QED
    BY <2>8, <2>9
<1> QED
  BY <1>0, <1>1, <1>2, <1>3, <1>4 DEF Next, Step

\* Cells are freed only up to the oldest ticket still in use.
LEMMA FreedBehindTickets ==
  IInv => \A c \in Consumers : Outstanding(c) => head["cons"].pos <= Ticket(c)
BY QueueAssumption DEF QueueAssumption, IInv, TicketsOK, Bound, Threads

\* A step of the queue its callers see is a step of RpcFifo.
LEMMA FifoSteps ==
  ASSUME IInv, IInv', SeenStep,
         Visible = Run(tail["cons"].pos, head["prod"].pos),
         [c \in Consumers |-> InHand(c)] = Hands,
         Visible' = Run(tail["cons"].pos, head["prod"].pos)',
         [c \in Consumers |-> InHand(c)]' = Hands',
         \A c \in Consumers : Outstanding(c)' => head'["cons"].pos <= Ticket(c)'
  PROVE  [Fifo!Next]_(Fifo!vars)
<1> DEFINE hp == head["prod"].pos
           hc == head["cons"].pos
           tp == tail["prod"].pos
           tc == tail["cons"].pos
           hand == [c \in Consumers |-> InHand(c)]
<1>1. hp \in Nat /\ hc \in Nat /\ tp \in Nat /\ tc \in Nat
  BY Values DEF IInv, Bounds
<1>2. hc <= tc /\ tc <= hp /\ hp <= tp
  BY DEF IInv, MarkerOrder
<1>3. CASE /\ tp - hc < BufferSize /\ tp' = tp + 1
           /\ UNCHANGED <<hp, hc, tc, Hands>>
  <2>1. Visible' = Visible /\ hand' = hand
    BY <1>3 DEF Run
  <2> QED
    BY <1>3, <2>1 DEF Fifo!Next, Fifo!Claim
<1>4. CASE hp' \in hp + 1 .. tp /\ UNCHANGED <<tp, hc, tc, Hands>>
  <2>1. hand' = hand
    BY <1>4
  <2>2. Run(tc, hp') = Run(tc, hp) \o [i \in 1 .. hp' - hp |-> hp + i - 1]
    <3>1. hp' \in Nat /\ hp <= hp'
      BY <1>1, <1>4
    <3> QED
      BY <1>1, <1>2, <3>1, RunsJoin, Zenon
  <2>3. Visible' = Visible \o [i \in 1 .. hp' - hp |-> hp + i - 1]
    BY <1>4, <2>2 DEF Run
  <2> QED
    BY <1>4, <2>1, <2>3 DEF Fifo!Next, Fifo!Publish
<1>5. ASSUME NEW c \in Consumers, ~Outstanding(c), tc < hp,
             Hands' = [Hands EXCEPT ![c] = tc], tc' = tc + 1,
             UNCHANGED <<tp, hp, hc>>
      PROVE  Fifo!Take(c)
  <2>1. /\ Run(tc, hp) # <<>> /\ Head(Run(tc, hp)) = tc
        /\ Tail(Run(tc, hp)) = Run(tc + 1, hp)
    BY <1>1, <1>5, RunSplits
  <2>2. Visible # <<>> /\ Head(Visible) = tc /\ Visible' = Tail(Visible)
    BY <1>5, <2>1 DEF Run
  <2>3. hand[c] = None
    BY <1>5 DEF Hands
  <2>4. hand' = [hand EXCEPT ![c] = Head(Visible)]
    BY <1>5, <2>2
  <2> QED
    BY <1>5, <2>2, <2>3, <2>4 DEF Fifo!Take
<1>6. ASSUME NEW c \in Consumers, Outstanding(c),
             Hands' = [Hands EXCEPT ![c] = None],
             hc' \in hc .. tc, UNCHANGED <<tp, hp, tc>>
      PROVE  Fifo!Return(c)
  <2>1. c \in Threads
    BY DEF Threads
  <2>2. hand[c] = Ticket(c) /\ Ticket(c) \in Nat
    BY <1>6, <2>1, Values DEF Hands, Ticket, IInv
  <2>3. hand[c] # None
    BY <2>2 DEF None
  <2>4. Visible' = Visible
    BY <1>6 DEF Run
  <2>5. hp - Len(Visible) = tc
    BY <1>1, <1>2 DEF Run
  <2>6. \A d \in Consumers : hand'[d] # None => hc' <= hand'[d]
    BY DEF Hands
  <2>7. hand' = [hand EXCEPT ![c] = None]
    BY <1>6
  <2>8. hc' \in hc .. hp - Len(Visible)
    BY <1>6, <2>5
  <2> QED
    BY <1>6, <2>3, <2>4, <2>6, <2>7, <2>8 DEF Fifo!Return
<1>7. CASE UNCHANGED <<tp, hp, hc, tc, Hands>>
  <2>1. Visible' = Visible /\ hand' = hand
    BY <1>7 DEF Run
  <2> QED
    BY <1>7, <2>1 DEF Fifo!vars
<1> QED
  BY <1>3, <1>4, <1>5, <1>6, <1>7 DEF SeenStep, Fifo!Next

\* An empty ring is an empty queue.
LEMMA FifoInit == Init => Fifo!Init /\ GotOK
<1> SUFFICES ASSUME Init PROVE Fifo!Init /\ GotOK
  OBVIOUS
<1>1. /\ tail["prod"].pos = InitPos /\ head["prod"].pos = InitPos
      /\ tail["cons"].pos = InitPos /\ head["cons"].pos = InitPos
      /\ InitPos \in Nat
  BY QueueAssumption DEF QueueAssumption, Init, Bounds, Marker
<1>2. Visible = <<>>
  BY <1>1 DEF Visible
<1>3. \A c \in Consumers : InHand(c) = None /\ got[c] = None
  BY DEF Init, InHand, Threads
<1> QED
  BY <1>1, <1>2, <1>3 DEF Fifo!Init, GotOK

\* The lock-free ring is a first-in first-out queue, for any threads, buffer
\* size, word size and starting position, when no store of an element becomes
\* visible after its commit (one core, or kernel producers only).
THEOREM RingIsFifo == InOrder /\ Spec => ImplementsFifo
<1>1. InOrder /\ [Next]_vars => InOrder'
  BY DEF InOrder, Reorders
<1>2. (IInv /\ InOrder /\ GotOK)' =>
        (/\ Visible = Run(tail["cons"].pos, head["prod"].pos)
         /\ [c \in Consumers |-> InHand(c)] = Hands)'
  BY SeenByCallers, PTL
<1>3. IInv' => (\A c \in Consumers : Outstanding(c) => head["cons"].pos <= Ticket(c))'
  BY FreedBehindTickets, PTL
<1>4. IInv /\ IInv' /\ InOrder /\ InOrder' /\ GotOK /\ GotOK' /\ [Next]_vars
        => [Fifo!Next]_(Fifo!vars)
  BY <1>2, <1>3, SeenByCallers, RingSteps, FifoSteps
<1> QED
  BY <1>1, <1>4, FifoInit, GotNext, Inductive, PTL DEF Spec, ImplementsFifo, Fifo!Spec
===============================================================================
