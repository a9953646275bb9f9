---------------------------- MODULE SharedIrqLine ----------------------------
(***************************************************************************)
(* One shared, level-triggered interrupt line (src/shared_irq_line.c): a   *)
(* 64-bit word of sources whose OR is the level of the line.  A call of    *)
(* shared_irq_line_change is a load, a store and a call of the vGIC, and   *)
(* the threads that run rpc_run make such calls without a lock.            *)
(***************************************************************************)
EXTENDS Integers

CONSTANTS
  Threads,   \* threads that run rpc_run
  Sources    \* sources wired to the line

ASSUME LineAssumption == Sources \subseteq 0 .. 63

Word64 == 0 .. 63

VARIABLES
  sources,   \* line->sources, the set of bits that are on
  level,     \* external: the level vm_set_irq_level was last given
  wire,      \* per source: the level its device drives
  pc,        \* per thread: idle, store, level
  arg,       \* per thread: the arguments source and active
  saved      \* per thread: saved_sources, then the new value

vars == <<sources, level, wire, pc, arg, saved>>

NoArg == [source |-> 0, active |-> FALSE]

\* shared_irq_line_init
Init ==
  /\ sources = {} /\ level = FALSE
  /\ wire = [s \in Sources |-> FALSE]
  /\ pc = [t \in Threads |-> "idle"]
  /\ arg = [t \in Threads |-> NoArg]
  /\ saved = [t \in Threads |-> {}]

\* The bits of (uint64_t)(1 << s): the shift is made on a 32-bit int, whose
\* sign bit extends; a count of 32 or more is undefined, and the processor
\* takes it modulo 32.
Shift(s) == IF s % 32 = 31 THEN 31 .. 63 ELSE {s % 32}

\* Entry of shared_irq_line_change: load the word.  Changes of one source are
\* handled one after the other (events handled out of order are the subject
\* of DeviceEvents).
ChangeLoad(t, s, a) ==
  /\ pc[t] = "idle"
  /\ \A u \in Threads : pc[u] # "idle" => arg[u].source # s
  /\ wire[s] # a
  /\ wire' = [wire EXCEPT ![s] = a]
  /\ arg' = [arg EXCEPT ![t] = [source |-> s, active |-> a]]
  /\ saved' = [saved EXCEPT ![t] = sources]
  /\ pc' = [pc EXCEPT ![t] = "store"]
  /\ UNCHANGED <<sources, level>>

NewSources_Assigns(old, s, a) == IF a THEN Shift(s) ELSE old \ Shift(s)

NewSources_NoAnd(old, s, a) ==
  IF a THEN old \cup Shift(s) ELSE Word64 \ Shift(s)

\* line->sources |= 1 << source, or line->sources &= ~(1 << source)
NewSources(old, s, a) == IF a THEN old \cup Shift(s) ELSE old \ Shift(s)

\* Store the word; return at once when its OR has not changed.
ChangeStore(t) ==
  LET new == NewSources(saved[t], arg[t].source, arg[t].active) IN
  /\ pc[t] = "store"
  /\ sources' = new
  /\ IF (saved[t] # {}) = (new # {})
       THEN /\ pc' = [pc EXCEPT ![t] = "idle"]
            /\ saved' = [saved EXCEPT ![t] = {}]
            /\ arg' = [arg EXCEPT ![t] = NoArg]
       ELSE /\ pc' = [pc EXCEPT ![t] = "level"]
            /\ saved' = [saved EXCEPT ![t] = new]
            /\ UNCHANGED arg
  /\ UNCHANGED <<level, wire>>

\* vm_set_irq_level with the OR of the new word.
ChangeLevel(t) ==
  /\ pc[t] = "level"
  /\ level' = (saved[t] # {})
  /\ pc' = [pc EXCEPT ![t] = "idle"]
  /\ saved' = [saved EXCEPT ![t] = {}]
  /\ arg' = [arg EXCEPT ![t] = NoArg]
  /\ UNCHANGED <<sources, wire>>

Next ==
  \E t \in Threads :
    \/ \E s \in Sources, a \in BOOLEAN : ChangeLoad(t, s, a)
    \/ ChangeStore(t)
    \/ ChangeLevel(t)

Spec == Init /\ [][Next]_vars

---------------------------------------------------------------------------
(* Properties *)

\* The word stays a 64-bit word, and every bit that is on belongs to a source.
TypeOK ==
  /\ sources \subseteq UNION {Shift(s) : s \in Sources}
  /\ level \in BOOLEAN
  /\ wire \in [Sources -> BOOLEAN]
  /\ pc \in [Threads -> {"idle", "store", "level"}]
  /\ arg \in [Threads -> [source : Word64, active : BOOLEAN]]
  /\ saved \in [Threads -> SUBSET Word64]

\* The line is the wired OR: with no call under way it is high exactly when
\* some source drives it, so a source that goes low never silences another.
WiredOr ==
  (\A t \in Threads : pc[t] = "idle") =>
    (level <=> \E s \in Sources : wire[s])
==============================================================================
