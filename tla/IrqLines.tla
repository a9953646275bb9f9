------------------------------- MODULE IrqLines -------------------------------
(***************************************************************************)
(* The interrupt lines of a driver VM: a shared INTx line (SharedIrqLine)  *)
(* and the MSI frame of src/gicv2m.c, with its registers and its own lines *)
(* (src/irq_line.c).  The notification thread changes the shared line or   *)
(* injects an MSI; the main thread serves the guest's accesses to the      *)
(* frame, and a guest write injects too.  irq_line_pulse is two calls of   *)
(* the vGIC, so that two pulses of one line may overlap.                   *)
(***************************************************************************)
EXTENDS SharedIrqLine

CONSTANTS
  Main,        \* the thread that serves the guest's faults
  MsiFrames,   \* configurations of the frame, [irq_base, num_irq]
  WordSize     \* number of uint32_t values

\* Offsets of the registers, and GICV2M_IRQ_MAX
V2M_MSI_TYPER     == 8
V2M_MSI_SETSPI_NS == 64
V2M_MSI_IIDR      == 4044
V2M_IIDR0         == 4048
V2M_IIDR11        == 4092
GICV2M_IRQ_MAX    == 128

ASSUME FrameAssumption ==
  /\ Main \notin Threads
  /\ MsiFrames \subseteq [irq_base : 32 .. 1019, num_irq : 1 .. 1019]
  /\ WordSize \in Nat /\ WordSize > 2048

VARIABLES
  v2m,        \* the frame: irq_base and num_irq
  up,         \* result of v2m_init: none, ok, error
  pulse,      \* per thread: the MSI it pulses, and how far it is
  high,       \* external: MSI inputs of the vGIC that are high
  latch,      \* external: MSI inputs with a rising edge not yet taken
  owed,       \* MSIs asked for, by event or by write, and not yet taken
  overlap,    \* two threads have pulsed one line at the same time
  answer      \* what the guest's last read of the frame gave

frameVars == <<v2m, up, pulse, high, latch, owed, overlap, answer>>
allVars   == <<vars, frameVars>>

NoIrq   == 0
Still   == [irq |-> NoIrq, at |-> "idle"]
NoRead  == [offset |-> 0, data |-> 0, handled |-> FALSE]
Callers == Threads \cup {Main}

LinesInit ==
  /\ Init
  /\ v2m \in MsiFrames /\ up = "none"
  /\ pulse = [t \in Callers |-> Still]
  /\ high = {} /\ latch = {} /\ owed = {}
  /\ overlap = FALSE /\ answer = NoRead

---------------------------------------------------------------------------
(* v2m_init and injection *)

\* v2m_init: a range that is too long or passes 1020 is refused.
v2m_init ==
  /\ up = "none"
  /\ up' = IF \/ v2m.num_irq > GICV2M_IRQ_MAX
              \/ v2m.irq_base + v2m.num_irq > 1020
             THEN "error" ELSE "ok"
  /\ UNCHANGED <<vars, v2m, pulse, high, latch, owed, overlap, answer>>

v2m_irq_valid_Inclusive(irq) ==
  irq >= v2m.irq_base /\ irq <= v2m.irq_base + v2m.num_irq

v2m_irq_valid(irq) ==
  irq >= v2m.irq_base /\ irq < v2m.irq_base + v2m.num_irq

\* The lines irq_line_init registered: s->irq[i] is interrupt irq_base + i.
Lines == {v2m.irq_base + i : i \in 0 .. v2m.num_irq - 1}

Idle(t) == pulse[t] = Still /\ (t \in Threads => pc[t] = "idle")

\* Entry of irq_line_pulse(&s->irq[i]).
StartPulse(t, i) ==
  LET irq == v2m.irq_base + i IN
  /\ pulse' = [pulse EXCEPT ![t] = [irq |-> irq, at |-> "rise"]]
  /\ overlap' = (overlap \/ \E u \in Callers : pulse[u].irq = irq)

\* msi_irq_set with v2m_inject_irq: an event for a valid MSI.  A clear does
\* nothing; an interrupt that is not valid is left to the other handlers.
HandleMsi(t, irq, op) ==
  /\ up = "ok" /\ Idle(t) /\ v2m_irq_valid(irq)
  /\ IF op = "clr"
       THEN UNCHANGED <<pulse, overlap, owed>>
       ELSE /\ StartPulse(t, irq - v2m.irq_base)
            /\ owed' = owed \cup {irq}
  /\ UNCHANGED <<vars, v2m, up, high, latch, answer>>

\* irq_line_pulse, first call: vm_set_irq_level(..., true).  The vGIC latches
\* a rising edge.
PulseRise(t) ==
  LET irq == pulse[t].irq IN
  /\ pulse[t].at = "rise"
  /\ pulse' = [pulse EXCEPT ![t].at = "fall"]
  /\ high' = high \cup {irq}
  /\ latch' = IF irq \in high THEN latch ELSE latch \cup {irq}
  /\ UNCHANGED <<vars, v2m, up, owed, overlap, answer>>

PulseFall_Forgotten(t) ==
  /\ pulse[t].at = "fall"
  /\ pulse' = [pulse EXCEPT ![t] = Still]
  /\ UNCHANGED <<vars, v2m, up, high, latch, owed, overlap, answer>>

\* irq_line_pulse, second call: vm_set_irq_level(..., false).
PulseFall(t) ==
  /\ pulse[t].at = "fall"
  /\ pulse' = [pulse EXCEPT ![t] = Still]
  /\ high' = high \ {pulse[t].irq}
  /\ UNCHANGED <<vars, v2m, up, latch, owed, overlap, answer>>

---------------------------------------------------------------------------
(* The register frame: v2m_fault_handler *)

TYPER_BaseLow(s) == s.irq_base * 2^10 + s.num_irq

\* The value of V2M_MSI_TYPER: irq_base << 16 | num_irq.
TYPER(s) == s.irq_base * 2^16 + s.num_irq

\* v2m_read_fault: whether the read is handled, and the data.
v2m_read_fault(offset, len) ==
  LET found == offset \in {V2M_MSI_TYPER, V2M_MSI_IIDR} \cup V2M_IIDR0 .. V2M_IIDR11 IN
  [offset  |-> offset,
   handled |-> len = 4 /\ found,
   data    |-> IF len = 4 /\ found
                 THEN CASE offset = V2M_MSI_TYPER -> TYPER(v2m)
                        [] offset = V2M_MSI_IIDR  -> 83 * 2^20
                        [] OTHER -> 0
                 ELSE 0]

GuestRead(offset, len) ==
  /\ up = "ok" /\ Idle(Main)
  /\ answer' = v2m_read_fault(offset, len)
  /\ UNCHANGED <<vars, v2m, up, pulse, high, latch, owed, overlap>>

\* The range a guest reads from TYPER: 10-bit fields.
Advertised(typer) ==
  LET base == (typer \div 2^16) % 2^10
      num  == typer % 2^10
  IN  base .. base + num - 1

Spi_NoMask(data) == (data - v2m.irq_base) % WordSize

\* spi = (data & 0x3ff) - s->irq_base, a uint32_t.
Spi(data) == ((data % 2^10) - v2m.irq_base) % WordSize

\* v2m_write_fault: a write of SETSPI_NS pulses a line of the range and is
\* ignored beyond it; every other register or size is unhandled and does
\* nothing.  What the guest asks for is the line its data names.
GuestWrite(offset, len, data) ==
  LET taken == len \in {2, 4} /\ offset = V2M_MSI_SETSPI_NS IN
  /\ up = "ok" /\ Idle(Main)
  /\ IF taken /\ Spi(data) < v2m.num_irq
       THEN StartPulse(Main, Spi(data)) ELSE UNCHANGED <<pulse, overlap>>
  /\ owed' = owed \cup ((IF taken THEN {data % 2^10} ELSE {}) \cap Lines)
  /\ UNCHANGED <<vars, v2m, up, high, latch, answer>>

\* External: the guest takes a pending interrupt.  One asked for and not yet
\* raised is still owed.
GuestTakes(irq) ==
  /\ irq \in latch
  /\ latch' = latch \ {irq}
  /\ owed' = owed \ ({irq} \ {pulse[t].irq : t \in {u \in Callers : pulse[u].at = "rise"}})
  /\ UNCHANGED <<vars, v2m, up, pulse, high, overlap, answer>>

---------------------------------------------------------------------------

\* Interesting events and accesses: both ends of the range, just beyond it,
\* ten-bit aliases, registers that exist and one that does not.
Ends    == {v2m.irq_base, v2m.irq_base + v2m.num_irq - 1}
Beyond  == {v2m.irq_base - 1, v2m.irq_base + v2m.num_irq}
Data    == Ends \cup Beyond \cup {v2m.irq_base + 2^10}
Offsets == {0, V2M_MSI_TYPER, V2M_MSI_SETSPI_NS, V2M_MSI_IIDR, V2M_IIDR11}

\* shared_irq_line_change, by a thread that is not in the middle of a pulse.
SharedLine ==
  /\ up = "ok"
  /\ \E t \in Threads :
       /\ pulse[t] = Still
       /\ \/ \E s \in Sources, a \in BOOLEAN : ChangeLoad(t, s, a)
          \/ ChangeStore(t)
          \/ ChangeLevel(t)
  /\ UNCHANGED frameVars

LinesNext ==
  \/ v2m_init
  \/ SharedLine
  \/ \E t \in Threads, irq \in Ends \cup Beyond, op \in {"set", "clr", "pulse"} :
       HandleMsi(t, irq, op)
  \/ \E t \in Callers : PulseRise(t) \/ PulseFall(t)
  \/ \E offset \in Offsets, len \in {2, 4, 8} :
       \/ GuestRead(offset, len)
       \/ \E data \in Data : GuestWrite(offset, len, data)
  \/ \E irq \in Lines : GuestTakes(irq)

LinesSpec == LinesInit /\ [][LinesNext]_allVars

---------------------------------------------------------------------------
(* Properties *)

\* Types; in particular nothing above the range's end is ever pulsed: s->irq
\* is indexed within the lines that were registered.
LinesTypeOK ==
  /\ v2m \in MsiFrames /\ up \in {"none", "ok", "error"}
  /\ \A t \in Callers : pulse[t].at # "idle" => pulse[t].irq \in Lines
  /\ high \cup latch \cup owed \subseteq Lines
  /\ overlap \in BOOLEAN /\ answer.handled \in BOOLEAN

\* With no pulse under way every MSI line is low, overlapping pulses
\* included: a line left high would swallow every later edge.
LinesRest == (\A t \in Callers : pulse[t] = Still) => high = {}

\* Every MSI asked for is pending until the guest takes it and none is that
\* was not asked for, whether the device VM or a guest write asked; only two
\* overlapping pulses of one line may merge into one edge.
MsiDelivered ==
  (\A t \in Callers : pulse[t] = Still) /\ ~overlap => latch = owed

\* A guest that allocates MSIs from what TYPER reads gets the lines that
\* events and writes can raise, and no other.
AdvertisedRange ==
  answer.handled /\ answer.offset = V2M_MSI_TYPER
    => Advertised(answer.data) = Lines
==============================================================================
