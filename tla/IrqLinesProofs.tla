---------------------------- MODULE IrqLinesProofs ----------------------------
(***************************************************************************)
(* Proofs about the interrupt lines of a driver VM, for every set of       *)
(* threads, every set of sources of the shared line and every MSI frame.   *)
(*                                                                         *)
(* Part 1: the shared line of src/shared_irq_line.c on its own.            *)
(* Part 2: the shared line and the MSI frame together.                     *)
(***************************************************************************)
EXTENDS IrqLines, TLAPS

---------------------------------------------------------------------------
(* Part 1: the shared line *)

\* The bits sources can turn on.
SourceBits == UNION {Shift(s) : s \in Sources}

\* Locals of a call of shared_irq_line_change: the word it works on has bits
\* of sources only, and the call is about a source.
LocalsOK ==
  \A t \in Threads :
    /\ saved[t] \subseteq SourceBits
    /\ pc[t] # "idle" => arg[t].source \in Sources

\* A shift sets at least one bit, and bits of the 64-bit word only.
LEMMA ShiftBits ==
  ASSUME NEW s \in 0 .. 63
  PROVE  Shift(s) # {} /\ Shift(s) \subseteq Word64
<1>1. 31 \in 31 .. 63 /\ 31 .. 63 \subseteq 0 .. 63
  OBVIOUS
<1>2. s % 32 \in 0 .. 63
  OBVIOUS
<1> QED
  BY <1>1, <1>2 DEF Shift, Word64

\* Bits of sources are bits of the word.
LEMMA SourceBitsWord == SourceBits \subseteq Word64
BY LineAssumption, ShiftBits DEF SourceBits, LineAssumption

\* Setting or clearing a source changes bits of sources only.
LEMMA NewSourcesBits ==
  ASSUME NEW old \in SUBSET SourceBits, NEW s \in Sources, NEW a \in BOOLEAN
  PROVE  NewSources(old, s, a) \subseteq SourceBits
<1>1. Shift(s) \subseteq SourceBits
  BY DEF SourceBits
<1>2. NewSources(old, s, a) \subseteq old \cup Shift(s)
  BY DEF NewSources
<1> QED
  BY <1>1, <1>2

\* shared_irq_line_init establishes the types.
LEMMA LineTypeInit == Init => TypeOK /\ LocalsOK
<1> SUFFICES ASSUME Init PROVE TypeOK /\ LocalsOK
  OBVIOUS
<1>1. NoArg \in [source : Word64, active : BOOLEAN]
  BY DEF NoArg, Word64
<1>2. TypeOK
  BY <1>1 DEF Init, TypeOK
<1>3. LocalsOK
  BY DEF Init, LocalsOK
<1> QED
  BY <1>2, <1>3

\* Every step of shared_irq_line_change keeps them.
LEMMA LineTypeNext ==
  ASSUME TypeOK, LocalsOK, [Next]_vars
  PROVE  TypeOK' /\ LocalsOK'
<1>1. CASE UNCHANGED vars
  BY <1>1 DEF TypeOK, LocalsOK, vars
<1>2. ASSUME NEW t \in Threads, NEW s \in Sources, NEW a \in BOOLEAN,
             ChangeLoad(t, s, a)
      PROVE  TypeOK' /\ LocalsOK'
  <2>1. s \in Word64
    BY LineAssumption DEF LineAssumption, Word64
  <2>2. sources \subseteq SourceBits
    BY DEF TypeOK, SourceBits
  <2>3. TypeOK'
    BY <1>2, <2>1, <2>2, SourceBitsWord DEF TypeOK, ChangeLoad
  <2>4. LocalsOK'
    BY <1>2, <2>2 DEF TypeOK, LocalsOK, ChangeLoad
  <2> QED
    BY <2>3, <2>4
<1>3. ASSUME NEW t \in Threads, ChangeStore(t)
      PROVE  TypeOK' /\ LocalsOK'
  <2> DEFINE new == NewSources(saved[t], arg[t].source, arg[t].active)
  <2>1. new \subseteq SourceBits
    BY <1>3, NewSourcesBits DEF TypeOK, LocalsOK, ChangeStore
  <2>2. sources' = new /\ level' = level /\ wire' = wire
    BY <1>3 DEF ChangeStore
  <2>3. \/ /\ pc' = [pc EXCEPT ![t] = "idle"]
           /\ saved' = [saved EXCEPT ![t] = {}]
           /\ arg' = [arg EXCEPT ![t] = NoArg]
        \/ /\ pc' = [pc EXCEPT ![t] = "level"]
           /\ saved' = [saved EXCEPT ![t] = new]
           /\ arg' = arg /\ pc[t] = "store"
    BY <1>3 DEF ChangeStore
  <2> HIDE DEF new
  <2>4. NoArg \in [source : Word64, active : BOOLEAN]
    BY DEF NoArg, Word64
  <2>5. TypeOK'
    <3>1. sources' \subseteq UNION {Shift(s) : s \in Sources}
      BY <2>1, <2>2 DEF SourceBits
    <3>2. pc' \in [Threads -> {"idle", "store", "level"}]
      BY <2>3 DEF TypeOK
    <3>3. arg' \in [Threads -> [source : Word64, active : BOOLEAN]]
      BY <2>3, <2>4 DEF TypeOK
    <3>4. saved' \in [Threads -> SUBSET Word64]
      BY <2>1, <2>3, SourceBitsWord DEF TypeOK
    <3> QED
      BY <2>2, <3>1, <3>2, <3>3, <3>4 DEF TypeOK
  <2>6. LocalsOK'
    BY <2>1, <2>3 DEF TypeOK, LocalsOK
  <2> QED
    BY <2>5, <2>6
<1>4. ASSUME NEW t \in Threads, ChangeLevel(t)
      PROVE  TypeOK' /\ LocalsOK'
  <2>1. NoArg \in [source : Word64, active : BOOLEAN]
    BY DEF NoArg, Word64
  <2>2. TypeOK'
    BY <1>4, <2>1 DEF TypeOK, ChangeLevel
  <2>3. LocalsOK'
    BY <1>4 DEF TypeOK, LocalsOK, ChangeLevel
  <2> QED
    BY <2>2, <2>3
<1> QED
  BY <1>1, <1>2, <1>3, <1>4 DEF Next

\* The word keeps bits of sources only, whatever the number of threads.
THEOREM LineTypeCorrect == Spec => []TypeOK
<1>1. TypeOK /\ LocalsOK /\ [Next]_vars => TypeOK' /\ LocalsOK'
  BY LineTypeNext
<1> QED
  BY LineTypeInit, <1>1, PTL DEF Spec

\* rpc_run has one thread: the notification thread of the driver VM.
OneCaller == \A t, u \in Threads : t = u

\* PCI slots, the sources of the line, fit a 32-bit shift.
PciSources == Sources \subseteq 0 .. 31

\* The word that the wires w call for.
Bits(w) == UNION {Shift(s) : s \in {r \in Sources : w[r]}}

\* What makes WiredOr inductive when one thread changes the line: the word is
\* what the wires call for, except between the load and the store of a call,
\* and the level follows the word, except between the store and the call of
\* the vGIC.
LineInv ==
  /\ (\A t \in Threads : pc[t] = "idle") =>
       sources = Bits(wire) /\ (level <=> sources # {})
  /\ \A t \in Threads :
       /\ pc[t] = "store" =>
            /\ saved[t] = sources /\ (level <=> sources # {})
            /\ wire[arg[t].source] = arg[t].active
            /\ sources = Bits([wire EXCEPT ![arg[t].source] = ~arg[t].active])
       /\ pc[t] = "level" => sources = Bits(wire) /\ saved[t] = sources

\* Two sources below 32 have no bit in common.
LEMMA ShiftsDisjoint ==
  ASSUME NEW r \in 0 .. 31, NEW s \in 0 .. 31, r # s
  PROVE  Shift(r) \cap Shift(s) = {}
<1>1. r % 32 = r /\ s % 32 = s
  OBVIOUS
<1> QED
  BY <1>1 DEF Shift

\* The line is high exactly when a wire is.
LEMMA BitsNonempty ==
  ASSUME NEW w \in [Sources -> BOOLEAN]
  PROVE  Bits(w) # {} <=> \E s \in Sources : w[s]
<1>1. \A s \in Sources : Shift(s) # {}
  BY LineAssumption, ShiftBits DEF LineAssumption
<1> QED
  BY <1>1 DEF Bits

\* shared_irq_line_change turns the word of the old wires into the word of
\* the new ones: setting or clearing one source leaves the others alone.
LEMMA BitsChange ==
  ASSUME PciSources, NEW w \in [Sources -> BOOLEAN], NEW s \in Sources,
         NEW a \in BOOLEAN, w[s] = a
  PROVE  NewSources(Bits([w EXCEPT ![s] = ~a]), s, a) = Bits(w)
<1>1. \A r \in Sources : r # s => Shift(r) \cap Shift(s) = {}
  BY ShiftsDisjoint DEF PciSources
<1> DEFINE v == [w EXCEPT ![s] = ~a]
<1>2. \A r \in Sources : v[r] = IF r = s THEN ~a ELSE w[r]
  OBVIOUS
<1> HIDE DEF v
<1>3. Bits(v) = UNION {Shift(r) : r \in {q \in Sources : v[q]}}
  BY DEF Bits
<1>4. Bits(w) = UNION {Shift(r) : r \in {q \in Sources : w[q]}}
  BY DEF Bits
<1>5. \A b : b \in Bits(v) <=> \E r \in Sources : v[r] /\ b \in Shift(r)
  BY <1>3
<1>6. \A b : b \in Bits(w) <=> \E r \in Sources : w[r] /\ b \in Shift(r)
  BY <1>4
<1>7. CASE a = TRUE
  <2>1. \A b : b \in NewSources(Bits(v), s, a) <=> b \in Bits(v) \/ b \in Shift(s)
    BY <1>7 DEF NewSources
  <2>2. w[s] /\ ~v[s]
    <3>1. v[s] = ~a
      BY <1>2
    <3> QED
      BY <1>7, <3>1
  <2>3. \A b : b \in NewSources(Bits(v), s, a) <=> b \in Bits(w)
    BY <1>2, <1>5, <1>6, <2>1, <2>2
  <2> QED
    BY <2>3 DEF v
<1>8. CASE a = FALSE
  <2>1. \A b : b \in NewSources(Bits(v), s, a) <=> b \in Bits(v) /\ b \notin Shift(s)
    BY <1>8 DEF NewSources
  <2>2. ~w[s] /\ v[s]
    <3>1. v[s] = ~a
      BY <1>2
    <3> QED
      BY <1>8, <3>1
  <2>3. \A b : b \in NewSources(Bits(v), s, a) <=> b \in Bits(w)
    BY <1>1, <1>2, <1>5, <1>6, <2>1, <2>2
  <2> QED
    BY <2>3 DEF v
<1> QED
  BY <1>7, <1>8

\* shared_irq_line_init: no wire is high, nor is the line.
LEMMA LineInvInit == Init => LineInv
BY DEF Init, LineInv, Bits

\* Every step of the one caller keeps the invariant.
LEMMA LineInvNext ==
  ASSUME OneCaller, PciSources, TypeOK, LocalsOK, LineInv, [Next]_vars
  PROVE  LineInv'
<1>1. CASE UNCHANGED vars
  BY <1>1 DEF LineInv, Bits, vars
<1>2. ASSUME NEW t \in Threads, NEW s \in Sources, NEW a \in BOOLEAN,
             ChangeLoad(t, s, a)
      PROVE  LineInv'
  <2>1. \A u \in Threads : u = t /\ pc[u] = "idle"
    BY <1>2 DEF OneCaller, ChangeLoad
  <2>2. sources = Bits(wire) /\ (level <=> sources # {})
    BY <2>1 DEF LineInv
  <2>3. /\ sources' = sources /\ level' = level /\ saved'[t] = sources
        /\ pc'[t] = "store" /\ arg'[t] = [source |-> s, active |-> a]
        /\ wire' = [wire EXCEPT ![s] = a] /\ wire[s] = ~a
    BY <1>2 DEF ChangeLoad, TypeOK
  <2>4. [wire' EXCEPT ![s] = ~a] = wire
    BY <2>3 DEF TypeOK
  <2>5. wire'[s] = a
    BY <2>3 DEF TypeOK
  <2> QED
    BY <2>1, <2>2, <2>3, <2>4, <2>5 DEF LineInv
<1>3. ASSUME NEW t \in Threads, ChangeStore(t)
      PROVE  LineInv'
  <2> DEFINE s == arg[t].source
             a == arg[t].active
             new == NewSources(saved[t], s, a)
  <2>1. /\ \A u \in Threads : u = t
        /\ pc[t] = "store" /\ s \in Sources /\ a \in BOOLEAN
    BY <1>3 DEF OneCaller, ChangeStore, LocalsOK, TypeOK
  <2>2. /\ saved[t] = sources /\ (level <=> sources # {}) /\ wire[s] = a
        /\ sources = Bits([wire EXCEPT ![s] = ~a])
    BY <2>1 DEF LineInv
  <2>3. new = Bits(wire)
    <3>1. wire \in [Sources -> BOOLEAN]
      BY DEF TypeOK
    <3>2. NewSources(Bits([wire EXCEPT ![s] = ~a]), s, a) = Bits(wire)
      BY <2>1, <2>2, <3>1, BitsChange
    <3> QED
      BY <2>2, <3>2
  <2>4. /\ sources' = new /\ wire' = wire /\ level' = level
        /\ \/ (saved[t] # {}) = (new # {}) /\ pc'[t] = "idle"
           \/ pc'[t] = "level" /\ saved'[t] = new
    BY <1>3 DEF ChangeStore, TypeOK
  <2> HIDE DEF new
  <2>5. Bits(wire)' = Bits(wire)
    BY <2>4 DEF Bits
  <2> QED
    BY <2>1, <2>2, <2>3, <2>4, <2>5 DEF LineInv
<1>4. ASSUME NEW t \in Threads, ChangeLevel(t)
      PROVE  LineInv'
  <2>1. \A u \in Threads : u = t
    BY DEF OneCaller
  <2>2. sources = Bits(wire) /\ saved[t] = sources
    BY <1>4 DEF LineInv, ChangeLevel
  <2>3. /\ sources' = sources /\ wire' = wire /\ level' = (saved[t] # {})
        /\ pc'[t] = "idle"
    BY <1>4 DEF ChangeLevel, TypeOK
  <2>4. Bits(wire)' = Bits(wire)
    BY <2>3 DEF Bits
  <2> QED
    BY <2>1, <2>2, <2>3, <2>4 DEF LineInv
<1> QED
  BY <1>1, <1>2, <1>3, <1>4 DEF Next

\* The line is the wired OR of its sources, for any number of PCI devices.
THEOREM LineIsWiredOr == OneCaller /\ PciSources /\ Spec => []WiredOr
<1>1. OneCaller /\ PciSources /\ TypeOK /\ LocalsOK /\ LineInv /\ [Next]_vars
        => TypeOK' /\ LocalsOK' /\ LineInv'
  BY LineTypeNext, LineInvNext
<1>2. TypeOK /\ LineInv => WiredOr
  BY BitsNonempty DEF TypeOK, LineInv, WiredOr
<1>3. OneCaller /\ PciSources => [](OneCaller /\ PciSources)
  <2>1. OneCaller /\ PciSources => (OneCaller /\ PciSources)'
    BY DEF OneCaller, PciSources
  <2> QED
    BY <2>1, PTL
<1> QED
  BY LineTypeInit, LineInvInit, <1>1, <1>2, <1>3, PTL DEF Spec

---------------------------------------------------------------------------
(* Part 2: the shared line and the MSI frame *)

\* A step of a driver VM is a step of the shared line or leaves it alone.
LEMMA LineSteps == [LinesNext]_allVars => [Next]_vars
<1> SUFFICES ASSUME LinesNext PROVE [Next]_vars
  BY DEF allVars
<1>1. CASE SharedLine
  BY <1>1 DEF SharedLine, Next
<1>2. CASE ~SharedLine
  BY <1>2 DEF LinesNext, v2m_init, HandleMsi, PulseRise, PulseFall, GuestRead,
              GuestWrite, GuestTakes
<1> QED
  BY <1>1, <1>2

\* The shared line of a driver VM behaves as SharedIrqLine says, whatever the
\* MSI frame does beside it.
THEOREM LinesRefineLine == LinesSpec => Spec
<1>1. LinesInit => Init
  BY DEF LinesInit
<1> QED
  BY <1>1, LineSteps, PTL DEF LinesSpec, Spec

\* In particular the line stays the wired OR of its sources.
THEOREM LinesWiredOr ==
  OneCaller /\ PciSources /\ LinesSpec => []TypeOK /\ []WiredOr
<1> QED
  BY LinesRefineLine, LineTypeCorrect, LineIsWiredOr, PTL

\* The MSIs that a thread is about to raise.
Rising == {pulse[t].irq : t \in {u \in Callers : pulse[u].at = "rise"}}

\* Types of the pulses; the frame is used only after v2m_init accepted it.
FrameOK ==
  /\ pulse \in [Callers -> [irq : Nat, at : {"idle", "rise", "fall"}]]
  /\ \A t \in Callers : pulse[t].at = "idle" => pulse[t] = Still
  /\ up = "ok" => v2m.num_irq <= GICV2M_IRQ_MAX /\ v2m.irq_base + v2m.num_irq <= 1020
  /\ answer \in [offset : Nat, data : Nat, handled : BOOLEAN]
  /\ answer.handled => up = "ok"
  /\ answer.handled /\ answer.offset = V2M_MSI_TYPER => answer.data = TYPER(v2m)

\* A line is high only while a thread is about to lower it.
HighOK ==
  \A i \in high : \E t \in Callers : pulse[t].at = "fall" /\ pulse[t].irq = i

\* As long as no two pulses of a line overlapped, each line has at most one
\* thread, and an MSI that was asked for is latched or about to be raised.
OwedOK ==
  ~overlap =>
    /\ \A t, u \in Callers :
         t # u /\ pulse[t].at # "idle" => pulse[t].irq # pulse[u].irq
    /\ owed = latch \cup Rising

\* The inductive invariant of the MSI lines.
MsiInv == LinesTypeOK /\ FrameOK /\ HighOK /\ OwedOK

\* The lines of a frame are an interval of interrupts above the private ones.
LEMMA LinesInterval ==
  ASSUME v2m \in MsiFrames
  PROVE  /\ v2m.irq_base \in 32 .. 1019 /\ v2m.num_irq \in 1 .. 1019
         /\ Lines = v2m.irq_base .. v2m.irq_base + v2m.num_irq - 1
         /\ NoIrq \notin Lines
         /\ Lines \subseteq Nat
<1> DEFINE b == v2m.irq_base
           n == v2m.num_irq
<1>1. b \in 32 .. 1019 /\ n \in 1 .. 1019
  BY FrameAssumption DEF FrameAssumption
<1>2. Lines = {b + i : i \in 0 .. n - 1}
  BY DEF Lines
<1> HIDE DEF b, n
<1>3. ASSUME NEW j \in b .. b + n - 1
      PROVE  j \in Lines
  <2>1. j - b \in 0 .. n - 1 /\ b + (j - b) = j
    BY <1>1
  <2> QED
    BY <1>2, <2>1
<1>4. ASSUME NEW j \in Lines
      PROVE  j \in b .. b + n - 1
  <2>1. PICK i \in 0 .. n - 1 : j = b + i
    BY <1>2
  <2> QED
    BY <1>1, <2>1
<1>5. Lines = b .. b + n - 1
  BY <1>3, <1>4
<1>6. \A j \in b .. b + n - 1 : j \in Nat /\ j # 0
  BY <1>1
<1> QED
  BY <1>1, <1>5, <1>6 DEF NoIrq, b, n

\* A number in range is its own remainder.
LEMMA WordSmall ==
  ASSUME NEW a \in Int, NEW w \in Nat, 0 <= a, a < w
  PROVE  a % w = a
OBVIOUS

\* The remainder of a negative number in range: it wraps around.
LEMMA WordNegative ==
  ASSUME NEW a \in Int, NEW w \in Nat, a < 0, a + w > 0
  PROVE  a % w = a + w
OBVIOUS

\* A write of SETSPI_NS whose 32-bit difference passes the one comparison
\* names a line of the frame, and that line is the one it pulses; a number
\* below the range wraps around and fails the comparison.
LEMMA SpiInRange ==
  ASSUME v2m \in MsiFrames, NEW data \in Nat
  PROVE  /\ Spi(data) \in Nat
         /\ Spi(data) < v2m.num_irq <=> data % 2^10 \in Lines
         /\ Spi(data) < v2m.num_irq => v2m.irq_base + Spi(data) = data % 2^10
<1> DEFINE d == data % 2^10
           b == v2m.irq_base
           n == v2m.num_irq
<1>1. 2^10 = 1024
  OBVIOUS
<1>2. d \in 0 .. 1023
  BY <1>1
<1>3. /\ b \in 32 .. 1019 /\ n \in 1 .. 1019
      /\ Lines = b .. b + n - 1
  BY LinesInterval
<1>4. Spi(data) = (d - b) % WordSize
  BY DEF Spi
<1>5. WordSize \in Nat /\ WordSize > 2048
  BY FrameAssumption DEF FrameAssumption
<1> HIDE DEF d, b, n
<1>6. CASE d >= b
  <2>1. (d - b) % WordSize = d - b
    <3>1. d - b \in Int /\ 0 <= d - b /\ d - b < WordSize
      BY <1>2, <1>3, <1>5, <1>6
    <3> QED
      BY <1>5, <3>1, WordSmall
  <2>2. /\ (d - b) % WordSize \in Nat
        /\ (d - b) % WordSize < n <=> d \in b .. b + n - 1
        /\ b + ((d - b) % WordSize) = d
    BY <1>2, <1>3, <1>6, <2>1
  <2> QED
    BY <1>3, <1>4, <2>2 DEF d, b, n
<1>7. CASE d < b
  <2>1. (d - b) % WordSize = d - b + WordSize
    <3>1. d - b \in Int /\ d - b < 0 /\ d - b + WordSize > 0
      BY <1>2, <1>3, <1>5, <1>7
    <3> QED
      BY <1>5, <3>1, WordNegative
  <2>2. /\ (d - b) % WordSize \in Nat
        /\ ~((d - b) % WordSize < n)
        /\ d \notin b .. b + n - 1
    BY <1>2, <1>3, <1>5, <1>7, <2>1
  <2> QED
    BY <1>3, <1>4, <2>2 DEF d, b, n
<1> QED
  BY <1>2, <1>3, <1>6, <1>7

\* The guest decodes from TYPER the lines of an accepted frame.
LEMMA TyperDecodes ==
  ASSUME v2m \in MsiFrames
  PROVE  Advertised(TYPER(v2m)) = Lines /\ TYPER(v2m) \in Nat
<1> DEFINE b == v2m.irq_base
           n == v2m.num_irq
<1>1. /\ b \in 0 .. 1019 /\ n \in 0 .. 1019
      /\ Lines = b .. b + n - 1
  BY LinesInterval
<1>2. TYPER(v2m) = b * 65536 + n
  <2>1. 2^16 = 65536
    OBVIOUS
  <2> QED
    BY <2>1 DEF TYPER
<1> HIDE DEF b, n
<1>3. ((b * 65536 + n) \div 65536) % 1024 = b /\ (b * 65536 + n) % 1024 = n
  BY <1>1
<1>4. 2^10 = 1024 /\ 2^16 = 65536
  OBVIOUS
<1> QED
  BY <1>1, <1>2, <1>3, <1>4 DEF Advertised

\* Before v2m_init nothing is asked for and nothing is pending.
LEMMA MsiInit == LinesInit => MsiInv
<1> SUFFICES ASSUME LinesInit PROVE MsiInv
  OBVIOUS
<1>1. Still \in [irq : Nat, at : {"idle", "rise", "fall"}]
  BY DEF Still, NoIrq
<1>2. NoRead \in [offset : Nat, data : Nat, handled : BOOLEAN]
  BY DEF NoRead
<1>3. \A t \in Callers : pulse[t] = Still /\ pulse[t].at = "idle"
  BY DEF LinesInit, Still
<1>4. LinesTypeOK
  BY <1>2, <1>3 DEF LinesInit, LinesTypeOK
<1>5. FrameOK
  BY <1>1, <1>2, <1>3 DEF LinesInit, FrameOK, NoRead
<1>6. Rising = {}
  BY <1>3 DEF Rising
<1>7. HighOK /\ OwedOK
  BY <1>3, <1>6 DEF LinesInit, HighOK, OwedOK
<1> QED
  BY <1>4, <1>5, <1>7 DEF MsiInv

\* The invariant speaks of these variables only.
LEMMA MsiStutter ==
  ASSUME MsiInv, UNCHANGED <<v2m, up, pulse, high, latch, owed, overlap, answer>>
  PROVE  MsiInv'
BY DEF MsiInv, LinesTypeOK, FrameOK, HighOK, OwedOK, Lines, Rising

\* v2m_init accepts a frame only when its range fits.
LEMMA MsiAccept ==
  ASSUME MsiInv, v2m_init
  PROVE  MsiInv'
<1>1. UNCHANGED <<v2m, pulse, high, latch, owed, overlap, answer>>
  BY DEF v2m_init
<1>2. /\ up = "none"
      /\ up' \in {"ok", "error"}
      /\ up' = "ok" => /\ ~(v2m.num_irq > GICV2M_IRQ_MAX)
                       /\ ~(v2m.irq_base + v2m.num_irq > 1020)
  BY DEF v2m_init
<1>3. v2m.irq_base \in 32 .. 1019 /\ v2m.num_irq \in 1 .. 1019
  BY LinesInterval DEF MsiInv, LinesTypeOK
<1>4. LinesTypeOK' /\ HighOK' /\ OwedOK'
  BY <1>1, <1>2 DEF MsiInv, LinesTypeOK, HighOK, OwedOK, Lines, Rising
<1>5. /\ ~(v2m.num_irq > GICV2M_IRQ_MAX) => v2m.num_irq <= GICV2M_IRQ_MAX
      /\ ~(v2m.irq_base + v2m.num_irq > 1020) => v2m.irq_base + v2m.num_irq <= 1020
  <2> DEFINE b == v2m.irq_base
             n == v2m.num_irq
  <2>1. b \in 32 .. 1019 /\ n \in 1 .. 1019
    BY <1>3
  <2> HIDE DEF b, n
  <2>2. (~(n > 128) => n <= 128) /\ (~(b + n > 1020) => b + n <= 1020)
    BY <2>1
  <2> QED
    BY <2>2 DEF b, n, GICV2M_IRQ_MAX
<1>6. FrameOK'
  BY <1>1, <1>2, <1>5 DEF MsiInv, FrameOK
<1> QED
  BY <1>4, <1>6 DEF MsiInv

\* The start of a pulse of a line, by event or by write, owes the guest one
\* more interrupt.
LEMMA MsiStart ==
  ASSUME MsiInv, NEW t \in Callers, pulse[t] = Still, NEW irq \in Lines,
         pulse' = [pulse EXCEPT ![t] = [irq |-> irq, at |-> "rise"]],
         overlap' = (overlap \/ \E u \in Callers : pulse[u].irq = irq),
         owed' = owed \cup {irq},
         UNCHANGED <<v2m, up, high, latch, answer>>
  PROVE  MsiInv'
<1>1. /\ irq \in Nat
      /\ pulse \in [Callers -> [irq : Nat, at : {"idle", "rise", "fall"}]]
  BY LinesInterval DEF MsiInv, LinesTypeOK, FrameOK
<1>2. /\ pulse'[t].irq = irq /\ pulse'[t].at = "rise"
      /\ \A u \in Callers : u # t => pulse'[u] = pulse[u]
      /\ pulse[t].at = "idle"
  BY <1>1 DEF Still
<1>3. Lines' = Lines
  BY DEF Lines
<1>4. LinesTypeOK'
  BY <1>2, <1>3 DEF MsiInv, LinesTypeOK
<1>5. FrameOK'
  <2>1. pulse' \in [Callers -> [irq : Nat, at : {"idle", "rise", "fall"}]]
    BY <1>1
  <2>2. \A u \in Callers : pulse'[u].at = "idle" => pulse'[u] = Still
    BY <1>2 DEF MsiInv, FrameOK
  <2> QED
    BY <2>1, <2>2 DEF MsiInv, FrameOK
<1>6. HighOK'
  BY <1>2 DEF MsiInv, HighOK
<1>7. Rising' = Rising \cup {irq}
  BY <1>2 DEF Rising
<1>8. OwedOK'
  <2> SUFFICES ASSUME ~overlap'
               PROVE  /\ \A s, u \in Callers :
                           s # u /\ pulse'[s].at # "idle" => pulse'[s].irq # pulse'[u].irq
                      /\ owed' = latch' \cup Rising'
    BY DEF OwedOK
  <2>1. ~overlap /\ \A u \in Callers : pulse[u].irq # irq
    OBVIOUS
  <2>2. \A s, u \in Callers :
          s # u /\ pulse'[s].at # "idle" => pulse'[s].irq # pulse'[u].irq
    BY <1>2, <2>1 DEF MsiInv, OwedOK
  <2> QED
    BY <1>7, <2>1, <2>2 DEF MsiInv, OwedOK
<1> QED
  BY <1>4, <1>5, <1>6, <1>8 DEF MsiInv

\* An event for a valid MSI.
LEMMA MsiEvent ==
  ASSUME MsiInv, NEW t \in Threads, NEW irq \in Ends \cup Beyond, NEW op,
         HandleMsi(t, irq, op)
  PROVE  MsiInv'
<1>1. CASE op = "clr"
  BY <1>1, MsiStutter DEF HandleMsi
<1>2. CASE op # "clr"
  <2> DEFINE b == v2m.irq_base
             n == v2m.num_irq
  <2>1. b \in 32 .. 1019 /\ n \in 1 .. 1019 /\ Lines = b .. b + n - 1
    BY LinesInterval DEF MsiInv, LinesTypeOK
  <2>2. irq >= b /\ irq < b + n /\ irq \in {b, b + n - 1, b - 1, b + n}
    BY DEF HandleMsi, v2m_irq_valid, Ends, Beyond
  <2>3. t \in Callers /\ pulse[t] = Still
    BY DEF Callers, HandleMsi, Idle
  <2>4. /\ pulse' = [pulse EXCEPT ![t] = [irq |-> b + (irq - b), at |-> "rise"]]
        /\ overlap' = (overlap \/ \E u \in Callers : pulse[u].irq = b + (irq - b))
        /\ owed' = owed \cup {irq}
        /\ UNCHANGED <<v2m, up, high, latch, answer>>
    BY <1>2 DEF HandleMsi, StartPulse
  <2> HIDE DEF b, n
  <2>5. irq \in b .. b + n - 1 /\ b + (irq - b) = irq
    BY <2>1, <2>2
  <2> QED
    BY <2>1, <2>3, <2>4, <2>5, MsiStart
<1> QED
  BY <1>1, <1>2

\* The guest's write of the frame.
LEMMA MsiWrite ==
  ASSUME MsiInv, NEW offset, NEW len, NEW data \in Data,
         GuestWrite(offset, len, data)
  PROVE  MsiInv'
<1> DEFINE taken == len \in {2, 4} /\ offset = V2M_MSI_SETSPI_NS
           d == data % 2^10
<1>1. v2m \in MsiFrames /\ UNCHANGED <<v2m, up, high, latch, answer>>
  BY DEF MsiInv, LinesTypeOK, GuestWrite
<1>2. data \in Nat
  <2> DEFINE b == v2m.irq_base
             n == v2m.num_irq
  <2>1. b \in 32 .. 1019 /\ n \in 1 .. 1019
    BY <1>1, LinesInterval
  <2>2. data \in {b, b + n - 1, b - 1, b + n, b + 1024}
    <3>1. 2^10 = 1024
      OBVIOUS
    <3> QED
      BY <3>1 DEF Data, Ends, Beyond
  <2> HIDE DEF b, n
  <2>3. {b, b + n - 1, b - 1, b + n, b + 1024} \subseteq Nat
    BY <2>1
  <2> QED
    BY <2>2, <2>3
<1>3. /\ Spi(data) < v2m.num_irq <=> d \in Lines
      /\ Spi(data) < v2m.num_irq => v2m.irq_base + Spi(data) = d
  BY <1>1, <1>2, SpiInRange
<1>4. CASE taken /\ d \in Lines
  <2>1. Main \in Callers /\ pulse[Main] = Still
    BY DEF Callers, GuestWrite, Idle
  <2>2. StartPulse(Main, Spi(data)) /\ owed' = owed \cup ({d} \cap Lines)
    BY <1>3, <1>4 DEF GuestWrite
  <2> HIDE DEF d
  <2>3. owed' = owed \cup {d}
    BY <1>4, <2>2
  <2>4. /\ pulse' = [pulse EXCEPT ![Main] = [irq |-> d, at |-> "rise"]]
        /\ overlap' = (overlap \/ \E u \in Callers : pulse[u].irq = d)
    BY <1>3, <1>4, <2>2 DEF StartPulse
  <2> QED
    BY <1>1, <1>4, <2>1, <2>3, <2>4, MsiStart
<1>5. CASE ~(taken /\ d \in Lines)
  <2>1. UNCHANGED <<pulse, overlap>>
    BY <1>3, <1>5 DEF GuestWrite
  <2>2. owed' = owed \cup ((IF taken THEN {d} ELSE {}) \cap Lines)
    BY DEF GuestWrite
  <2>3. owed' = owed
    BY <1>5, <2>2
  <2> QED
    BY <1>1, <2>1, <2>3, MsiStutter
<1> QED
  BY <1>4, <1>5

\* The rising edge of a pulse is latched unless another pulse holds the line
\* high; without an overlap none does.
LEMMA MsiRise ==
  ASSUME MsiInv, NEW t \in Callers, PulseRise(t)
  PROVE  MsiInv'
<1> DEFINE irq == pulse[t].irq
<1>1. /\ pulse \in [Callers -> [irq : Nat, at : {"idle", "rise", "fall"}]]
      /\ pulse[t].at = "rise" /\ irq \in Lines
  BY DEF MsiInv, LinesTypeOK, FrameOK, PulseRise
<1>2. /\ pulse'[t].irq = irq /\ pulse'[t].at = "fall"
      /\ \A u \in Callers : u # t => pulse'[u] = pulse[u]
      /\ pulse' \in [Callers -> [irq : Nat, at : {"idle", "rise", "fall"}]]
  BY <1>1 DEF PulseRise
<1>3. /\ UNCHANGED <<v2m, up, owed, overlap, answer>>
      /\ high' = high \cup {irq}
      /\ latch' = IF irq \in high THEN latch ELSE latch \cup {irq}
  BY DEF PulseRise
<1>4. Lines' = Lines
  BY <1>3 DEF Lines
<1>5. LinesTypeOK'
  BY <1>1, <1>2, <1>3, <1>4 DEF MsiInv, LinesTypeOK
<1>6. FrameOK'
  <2>1. \A u \in Callers : pulse'[u].at = "idle" => pulse'[u] = Still
    BY <1>2 DEF MsiInv, FrameOK
  <2> QED
    BY <1>2, <1>3, <2>1 DEF MsiInv, FrameOK
<1>7. HighOK'
  <2> SUFFICES ASSUME NEW i \in high'
               PROVE  \E u \in Callers : pulse'[u].at = "fall" /\ pulse'[u].irq = i
    BY DEF HighOK
  <2>1. CASE i = irq
    BY <1>2, <2>1
  <2>2. CASE i # irq
    <3>1. PICK u \in Callers : pulse[u].at = "fall" /\ pulse[u].irq = i
      BY <1>3, <2>2 DEF MsiInv, HighOK
    <3> QED
      BY <1>1, <1>2, <3>1
  <2> QED
    BY <2>1, <2>2
<1>8. OwedOK'
  <2> SUFFICES ASSUME ~overlap
               PROVE  /\ \A s, u \in Callers :
                           s # u /\ pulse'[s].at # "idle" => pulse'[s].irq # pulse'[u].irq
                      /\ owed = latch' \cup Rising'
    BY <1>3 DEF OwedOK
  <2>1. /\ \A s, u \in Callers :
             s # u /\ pulse[s].at # "idle" => pulse[s].irq # pulse[u].irq
        /\ owed = latch \cup Rising
    BY DEF MsiInv, OwedOK
  <2>2. irq \notin high
    BY <1>1, <2>1 DEF MsiInv, HighOK
  <2>3. \A s \in Callers : pulse'[s].irq = pulse[s].irq
    BY <1>2
  <2>4. Rising \cup {irq} = Rising' \cup {irq}
    BY <1>1, <1>2 DEF Rising
  <2>5. irq \in Rising
    BY <1>1 DEF Rising
  <2>6. \A s, u \in Callers :
          s # u /\ pulse'[s].at # "idle" => pulse'[s].irq # pulse'[u].irq
    BY <1>1, <1>2, <2>1, <2>3
  <2> QED
    BY <1>3, <2>1, <2>2, <2>4, <2>5, <2>6
<1> QED
  BY <1>5, <1>6, <1>7, <1>8 DEF MsiInv

\* The falling edge: a line that another pulse still holds is lowered early,
\* and lowered again when that pulse ends.
LEMMA MsiFall ==
  ASSUME MsiInv, NEW t \in Callers, PulseFall(t)
  PROVE  MsiInv'
<1>1. /\ pulse \in [Callers -> [irq : Nat, at : {"idle", "rise", "fall"}]]
      /\ pulse[t].at = "fall" /\ pulse[t].irq \in Lines
  BY DEF MsiInv, LinesTypeOK, FrameOK, PulseFall
<1>2. /\ pulse'[t] = Still
      /\ \A u \in Callers : u # t => pulse'[u] = pulse[u]
      /\ pulse' \in [Callers -> [irq : Nat, at : {"idle", "rise", "fall"}]]
  BY <1>1 DEF PulseFall, Still, NoIrq
<1>3. /\ UNCHANGED <<v2m, up, latch, owed, overlap, answer>>
      /\ high' = high \ {pulse[t].irq}
  BY DEF PulseFall
<1>4. Lines' = Lines /\ NoIrq \notin Lines
  BY <1>3, LinesInterval DEF Lines, MsiInv, LinesTypeOK
<1>5. pulse'[t].at = "idle" /\ pulse'[t].irq = NoIrq
  BY <1>2 DEF Still
<1>6. LinesTypeOK'
  BY <1>2, <1>3, <1>4, <1>5 DEF MsiInv, LinesTypeOK
<1>7. FrameOK'
  <2>1. \A u \in Callers : pulse'[u].at = "idle" => pulse'[u] = Still
    BY <1>2 DEF MsiInv, FrameOK
  <2> QED
    BY <1>2, <1>3, <2>1 DEF MsiInv, FrameOK
<1>8. HighOK'
  BY <1>1, <1>2, <1>3 DEF MsiInv, HighOK
<1>9. Rising' = Rising
  BY <1>1, <1>2, <1>5 DEF Rising
<1>10. OwedOK'
  <2> SUFFICES ASSUME ~overlap
               PROVE  /\ \A s, u \in Callers :
                           s # u /\ pulse'[s].at # "idle" => pulse'[s].irq # pulse'[u].irq
                      /\ owed = latch \cup Rising
    BY <1>3, <1>9 DEF OwedOK
  <2>1. \A s \in Callers : s # t /\ pulse'[s].at # "idle" => pulse'[s].irq \in Lines
    BY <1>2 DEF MsiInv, LinesTypeOK
  <2> QED
    BY <1>2, <1>4, <1>5, <2>1 DEF MsiInv, OwedOK
<1> QED
  BY <1>6, <1>7, <1>8, <1>10 DEF MsiInv

\* The guest's read of the frame: the answer to TYPER is the frame's range.
LEMMA MsiRead ==
  ASSUME MsiInv, NEW offset \in Offsets, NEW len, GuestRead(offset, len)
  PROVE  MsiInv'
<1>1. UNCHANGED <<v2m, up, pulse, high, latch, owed, overlap>> /\ up = "ok"
  BY DEF GuestRead
<1>2. answer' = v2m_read_fault(offset, len)
  BY DEF GuestRead
<1>3. offset \in Nat
  BY DEF Offsets, V2M_MSI_TYPER, V2M_MSI_SETSPI_NS, V2M_MSI_IIDR, V2M_IIDR11
<1>4. TYPER(v2m) \in Nat
  BY TyperDecodes DEF MsiInv, LinesTypeOK
<1>5. 83 * 2^20 \in Nat
  OBVIOUS
<1>6. /\ answer'.offset = offset /\ answer'.handled \in BOOLEAN
      /\ answer'.data \in {TYPER(v2m), 83 * 2^20, 0}
      /\ answer'.handled /\ offset = V2M_MSI_TYPER => answer'.data = TYPER(v2m)
      /\ answer' = [offset |-> offset, handled |-> answer'.handled, data |-> answer'.data]
  <2> DEFINE ok == len = 4 /\ offset \in {V2M_MSI_TYPER, V2M_MSI_IIDR}
                                          \cup V2M_IIDR0 .. V2M_IIDR11
             value == CASE offset = V2M_MSI_TYPER -> TYPER(v2m)
                        [] offset = V2M_MSI_IIDR  -> 83 * 2^20
                        [] OTHER -> 0
  <2>1. answer' = [offset |-> offset, handled |-> ok,
                   data |-> IF ok THEN value ELSE 0]
    BY <1>2 DEF v2m_read_fault
  <2>2. ok \in BOOLEAN
    OBVIOUS
  <2>3. V2M_MSI_TYPER # V2M_MSI_IIDR
    BY DEF V2M_MSI_TYPER, V2M_MSI_IIDR
  <2>4. value \in {TYPER(v2m), 83 * 2^20, 0} /\ (offset = V2M_MSI_TYPER => value = TYPER(v2m))
    BY <2>3
  <2> HIDE DEF ok, value
  <2> QED
    BY <2>1, <2>2, <2>4
<1>7. answer' \in [offset : Nat, data : Nat, handled : BOOLEAN]
  BY <1>3, <1>4, <1>5, <1>6
<1>8. FrameOK'
  BY <1>1, <1>6, <1>7 DEF MsiInv, FrameOK, TYPER
<1>9. LinesTypeOK' /\ HighOK' /\ OwedOK'
  BY <1>1, <1>6 DEF MsiInv, LinesTypeOK, HighOK, OwedOK, Lines, Rising
<1> QED
  BY <1>8, <1>9 DEF MsiInv

\* The guest takes an interrupt; one that is about to be raised again is
\* still owed.
LEMMA MsiTake ==
  ASSUME MsiInv, NEW irq \in Lines, GuestTakes(irq)
  PROVE  MsiInv'
<1>1. /\ UNCHANGED <<v2m, up, pulse, high, overlap, answer>>
      /\ latch' = latch \ {irq}
      /\ owed' = owed \ ({irq} \ Rising)
  BY DEF GuestTakes, Rising
<1>2. Rising' = Rising /\ Lines' = Lines
  BY <1>1 DEF Rising, Lines
<1>3. LinesTypeOK' /\ FrameOK' /\ HighOK'
  BY <1>1, <1>2 DEF MsiInv, LinesTypeOK, FrameOK, HighOK
<1>4. OwedOK'
  BY <1>1, <1>2 DEF MsiInv, OwedOK
<1> QED
  BY <1>3, <1>4 DEF MsiInv

\* Every step of a driver VM keeps the invariant.
LEMMA MsiNext ==
  ASSUME MsiInv, [LinesNext]_allVars
  PROVE  MsiInv'
<1>1. CASE UNCHANGED allVars
  BY <1>1, MsiStutter DEF allVars, frameVars
<1>2. CASE v2m_init
  BY <1>2, MsiAccept
<1>3. CASE SharedLine
  BY <1>3, MsiStutter DEF SharedLine, frameVars
<1>4. CASE \E t \in Threads, irq \in Ends \cup Beyond, op \in {"set", "clr", "pulse"} :
             HandleMsi(t, irq, op)
  BY <1>4, MsiEvent
<1>5. CASE \E t \in Callers : PulseRise(t) \/ PulseFall(t)
  BY <1>5, MsiRise, MsiFall
<1>6. CASE \E offset \in Offsets, len \in {2, 4, 8} :
             \/ GuestRead(offset, len)
             \/ \E data \in Data : GuestWrite(offset, len, data)
  BY <1>6, MsiRead, MsiWrite
<1>7. CASE \E irq \in Lines : GuestTakes(irq)
  BY <1>7, MsiTake
<1> QED
  BY <1>1, <1>2, <1>3, <1>4, <1>5, <1>6, <1>7 DEF LinesNext

\* The inductive invariant holds, for every frame and any number of threads.
THEOREM MsiInductive == LinesSpec => []MsiInv
<1>1. MsiInv /\ [LinesNext]_allVars => MsiInv'
  BY MsiNext
<1> QED
  BY MsiInit, <1>1, PTL DEF LinesSpec

\* s->irq is indexed within the lines that v2m_init registered.
THEOREM LinesTypeCorrect == LinesSpec => []LinesTypeOK
<1>1. MsiInv => LinesTypeOK
  BY DEF MsiInv
<1> QED
  BY <1>1, MsiInductive, PTL

\* No MSI line stays high, however the pulses of several threads overlap.
THEOREM LinesComeToRest == LinesSpec => []LinesRest
<1>1. MsiInv => LinesRest
  BY DEF MsiInv, HighOK, LinesRest, Still
<1> QED
  BY <1>1, MsiInductive, PTL

\* Without overlapping pulses of a line every MSI that was asked for, by the
\* device VM or by a write of the guest, is pending until the guest takes it.
THEOREM MsisAreDelivered == LinesSpec => []MsiDelivered
<1>1. ASSUME MsiInv PROVE MsiDelivered
  <2> SUFFICES ASSUME \A t \in Callers : pulse[t] = Still, ~overlap
               PROVE  latch = owed
    BY DEF MsiDelivered
  <2>1. \A t \in Callers : pulse[t].at = "idle"
    BY DEF Still
  <2>2. Rising = {}
    BY <2>1 DEF Rising
  <2> QED
    BY <1>1, <2>2 DEF MsiInv, OwedOK
<1> QED
  BY <1>1, MsiInductive, PTL

\* The range TYPER advertises is the range events and writes can raise.
THEOREM TyperIsTrue == LinesSpec => []AdvertisedRange
<1>1. MsiInv => AdvertisedRange
  BY TyperDecodes DEF MsiInv, LinesTypeOK, FrameOK, AdvertisedRange
<1> QED
  BY <1>1, MsiInductive, PTL
===============================================================================
