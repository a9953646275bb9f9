------------------------------ MODULE MmioAccess ------------------------------
(***************************************************************************)
(* What the I/O proxy promises a client, a vCPU that touches an emulated   *)
(* region or a VMM thread that calls ioreq_native: each access is sent to  *)
(* the device VM once, is completed once, with the answer to that access,  *)
(* and the client goes on only then.                                       *)
(***************************************************************************)
EXTENDS Integers

CONSTANTS Clients

VARIABLES
  phase,   \* per client: idle, begun, asked, answered
  asked,   \* per client: number of its last request
  done     \* per client: number of the request its last answer was for

vars == <<phase, asked, done>>

Init ==
  /\ phase = [c \in Clients |-> "idle"]
  /\ asked = [c \in Clients |-> 0]
  /\ done = [c \in Clients |-> 0]

Move(c, from, to) == phase[c] = from /\ phase' = [phase EXCEPT ![c] = to]

Begin(c) == Move(c, "idle", "begun") /\ UNCHANGED <<asked, done>>

Ask(c) ==
  /\ Move(c, "begun", "asked")
  /\ asked' = [asked EXCEPT ![c] = @ + 1]
  /\ UNCHANGED done

\* A vCPU runs again with its answer; a native caller is woken and returns.
Answer(c) ==
  /\ Move(c, "asked", "answered") \/ Move(c, "asked", "idle")
  /\ done' = [done EXCEPT ![c] = asked[c]]
  /\ UNCHANGED asked

End(c) == Move(c, "answered", "idle") /\ UNCHANGED <<asked, done>>

Next == \E c \in Clients : Begin(c) \/ Ask(c) \/ Answer(c) \/ End(c)

Spec == Init /\ [][Next]_vars
===============================================================================
