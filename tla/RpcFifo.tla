-------------------------------- MODULE RpcFifo --------------------------------
(***************************************************************************)
(* What a ring of include/sel4/rpc_queue.h promises its callers, whatever  *)
(* the interleaving: a bounded first-in first-out queue.  An enqueue first *)
(* takes a ticket, which is its place in the order; its entry becomes      *)
(* visible later, together with every earlier one.  A dequeue takes the    *)
(* oldest visible entry and keeps its cell until it returns.               *)
(*                                                                         *)
(* RpcQueue implements this specification; the queues of IoProxy and       *)
(* DeviceEvents are sequences because it does.                             *)
(***************************************************************************)
EXTENDS Integers, Sequences

CONSTANTS
  Consumers,   \* threads that dequeue
  Size,        \* cells of the ring
  First,       \* ticket of the first enqueue
  None         \* no entry in hand

VARIABLES
  sent,    \* ticket of the next enqueue
  ready,   \* tickets below this one have been visible
  freed,   \* tickets below this one no longer occupy a cell
  queue,   \* visible entries nobody has taken, oldest first
  hand     \* per consumer: the entry it has taken and not yet returned

vars == <<sent, ready, freed, queue, hand>>

Init ==
  /\ sent = First /\ ready = First /\ freed = First
  /\ queue = <<>>
  /\ hand = [c \in Consumers |-> None]

\* An enqueue takes a ticket; never more than Size entries exist.
Claim ==
  /\ sent - freed < Size
  /\ sent' = sent + 1
  /\ UNCHANGED <<ready, freed, queue, hand>>

\* Entries become visible in the order of their tickets, none left out.
Publish ==
  \E n \in ready + 1 .. sent :
    /\ ready' = n
    /\ queue' = queue \o [i \in 1 .. n - ready |-> ready + i - 1]
    /\ UNCHANGED <<sent, freed, hand>>

\* A dequeue takes the oldest visible entry.
Take(c) ==
  /\ hand[c] = None /\ queue # <<>>
  /\ hand' = [hand EXCEPT ![c] = Head(queue)]
  /\ queue' = Tail(queue)
  /\ UNCHANGED <<sent, ready, freed>>

\* The dequeue returns; cells are freed up to the oldest entry in use.
Return(c) ==
  /\ hand[c] # None
  /\ hand' = [hand EXCEPT ![c] = None]
  /\ freed' \in freed .. ready - Len(queue)
  /\ \A d \in Consumers : hand'[d] # None => freed' <= hand'[d]
  /\ UNCHANGED <<sent, ready, queue>>

Next == Claim \/ Publish \/ \E c \in Consumers : Take(c) \/ Return(c)

Spec == Init /\ [][Next]_vars
================================================================================
