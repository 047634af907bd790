--------------------------- MODULE InterruptStatus ---------------------------
(****************************************************************************)
(* The interrupt state of an emulated CPU (interrupt.c, interrupt.h) and    *)
(* the part of the 6510 core that polls and serves it (DO_INTERRUPT, DO_BRK *)
(* and the delay checks of maincpu.c).                                      *)
(*                                                                          *)
(* Chips drive interrupt lines.  IRQ is a level: the flag in                *)
(* global_pending_int follows the number of active lines.  NMI is an edge:  *)
(* the flag is latched when the first line goes active and only serving the *)
(* NMI clears it.  Lines change while an instruction runs, when alarms are  *)
(* processed before the poll, and also in the middle of an interrupt entry, *)
(* where alarms are processed before the vector is chosen: an NMI can take  *)
(* over an IRQ that is being entered.                                       *)
(* The same flags carry traps (a host function to call between two          *)
(* instructions), resets, DMA and the monitor.                              *)
(*                                                                          *)
(* Clock ticks are kept as cycles elapsed or left, up to the largest number *)
(* the code distinguishes.  Cycles stolen by DMA move irq_clk and nmi_clk   *)
(* along with the clock and are left out.                                   *)
(****************************************************************************)
EXTENDS Integers, FiniteSets

CONSTANTS
    Line,           \* the interrupt sources (int_num)
    Trap,           \* the functions passed to interrupt_maincpu_trigger_trap
    Request,        \* flags raised without a line: RESET, DMA, MONITOR
    NoTrap          \* a null function pointer

ASSUME LineAssumption == IsFiniteSet(Line)
ASSUME RequestAssumption == Request \subseteq {"RESET", "DMA", "MONITOR"}
ASSUME NoTrapAssumption == NoTrap \notin Trap

INTERRUPT_DELAY == 2
\* A taken branch delays an interrupt by one more cycle: ages count to here.
MaxAge == INTERRUPT_DELAY + 1
\* irq_pending_clk is CLOCK_MAX, or this many cycles after the IRQ went away.
Grace == 3
Never == Grace + 1

Flag == {"NMI", "IRQ", "RESET", "TRAP", "MONITOR", "DMA", "IRQPEND"}
\* What OPINFO remembers of the last opcode.
OpInfo == {"plain", "BRK", "CLI", "SEI", "branch"}

VARIABLES
    pending_int,        \* line -> the interrupts it requests
    nirq, nnmi,         \* number of active IRQ and NMI lines
    global_pending_int, \* the flags the CPU polls
    irqAge, nmiAge,     \* cycles since irq_clk and nmi_clk
    irqGrace,           \* cycles left to irq_pending_clk
    trap_func,          \* the trap to call
    at,                 \* where the CPU is: see Place
    ik,                 \* the flags DO_INTERRUPT was entered with
    I,                  \* the processor's interrupt disable flag
    last_opcode_info,
    requested,          \* history: traps triggered, and neither run nor reset
    unserved            \* history: an edge of the NMI input is to be served

statusVars == <<pending_int, nirq, nnmi, global_pending_int, irqAge, nmiAge,
                irqGrace>>
trapVars == <<trap_func, requested>>
cpuVars == <<at, ik, I, last_opcode_info>>
interruptVars == <<statusVars, trapVars, cpuVars, unserved>>

Place == {"opcode", "brk", "poll", "entering", "special", "reset", "finish"}

\* Alarms and register writes reach the chips at these places.
ChipsRun == at \in {"opcode", "brk", "poll", "entering"}

Active(kind) == {l \in Line : kind \in pending_int[l]}
Has(flag) == flag \in global_pending_int

AtMost(m, n) == IF m < n THEN m ELSE n
\* n cycles pass, with `grace' cycles left to irq_pending_clk.
AgesFrom(grace, n) ==
    /\ irqAge' = AtMost(irqAge + n, MaxAge)
    /\ nmiAge' = AtMost(nmiAge + n, MaxAge)
    /\ irqGrace' = IF grace = Never THEN Never
                   ELSE IF grace > n THEN grace - n ELSE 0
Ages(n) == AgesFrom(irqGrace, n)

InterruptInit ==
    /\ pending_int = [l \in Line |-> {}]
    /\ nirq = 0 /\ nnmi = 0
    /\ global_pending_int = {"RESET"}
    /\ irqAge = MaxAge /\ nmiAge = MaxAge /\ irqGrace = Never
    /\ trap_func = NoTrap /\ requested = {}
    /\ at = "poll" /\ ik = {} /\ I = FALSE /\ last_opcode_info = "plain"
    /\ unserved = FALSE

----------------------------------------------------------------------------
(* Faults that the properties below must notice; none is used by the model. *)
StillPending_Never(n) == FALSE
NmiLatches_Level == ~ Has("NMI")
AfterTrap_ClearedLast(raised) == (global_pending_int \union raised) \ {"TRAP"}
interrupt_ack_nmi_Forgotten == UNCHANGED global_pending_int
RemoveNmi_ClearsLatch(l) ==
    /\ "NMI" \in pending_int[l]
    /\ nnmi' = nnmi - 1
    /\ pending_int' = [pending_int EXCEPT ![l] = @ \ {"NMI"}]
    /\ global_pending_int' = global_pending_int \ {"NMI"}
    /\ UNCHANGED <<nirq, irqAge, nmiAge, irqGrace>>
----------------------------------------------------------------------------
\* interrupt_set_irq(l, 1, CLK - age)
TriggerIrq(l, age) ==
    /\ "IRQ" \notin pending_int[l]
    /\ nirq' = nirq + 1
    /\ global_pending_int' = global_pending_int \union {"IRQ", "IRQPEND"}
    /\ pending_int' = [pending_int EXCEPT ![l] = @ \union {"IRQ"}]
    /\ irqGrace' = Never
    /\ irqAge' = age
    /\ UNCHANGED <<nnmi, nmiAge>>

\* Is a line still active when n of them are?
StillPending(n) == n > 0

\* interrupt_set_irq(l, 0, CLK)
RemoveIrq(l) ==
    /\ "IRQ" \in pending_int[l]
    /\ nirq > 0
    /\ pending_int' = [pending_int EXCEPT ![l] = @ \ {"IRQ"}]
    /\ nirq' = nirq - 1
    /\ IF StillPending(nirq - 1)
       THEN UNCHANGED <<global_pending_int, irqGrace>>
       ELSE /\ global_pending_int' = global_pending_int \ {"IRQ"}
            /\ irqGrace' = Grace
    /\ UNCHANGED <<nnmi, irqAge, nmiAge>>

\* Only the first line to go active makes an edge.
NmiLatches == nnmi = 0 /\ ~ Has("NMI")

\* interrupt_set_nmi(l, 1, CLK - age)
TriggerNmi(l, age) ==
    /\ "NMI" \notin pending_int[l]
    /\ IF NmiLatches
       THEN /\ global_pending_int' = global_pending_int \union {"NMI"}
            /\ nmiAge' = age
       ELSE UNCHANGED <<global_pending_int, nmiAge>>
    /\ nnmi' = nnmi + 1
    /\ pending_int' = [pending_int EXCEPT ![l] = @ \union {"NMI"}]
    /\ UNCHANGED <<nirq, irqAge, irqGrace>>

\* interrupt_set_nmi(l, 0, CLK): the latched edge stays.
RemoveNmi(l) ==
    /\ "NMI" \in pending_int[l]
    /\ nnmi > 0
    /\ nnmi' = nnmi - 1
    /\ pending_int' = [pending_int EXCEPT ![l] = @ \ {"NMI"}]
    /\ UNCHANGED <<nirq, global_pending_int, irqAge, nmiAge, irqGrace>>

\* The CPU's input, pulled by any of the lines, becomes active.
NmiEdge == Active("NMI") = {} /\ Active("NMI")' # {}

ChipDrivesLine ==
    /\ ChipsRun
    /\ \E l \in Line :
           \/ \E age \in 0 .. MaxAge : TriggerIrq(l, age) \/ TriggerNmi(l, age)
           \/ RemoveIrq(l) \/ RemoveNmi(l)
    /\ unserved' = (unserved \/ NmiEdge)
    /\ UNCHANGED <<trapVars, cpuVars>>

\* interrupt_trigger_reset, interrupt_trigger_dma, interrupt_monitor_trap_on
ChipRaises(flag) ==
    /\ ChipsRun
    /\ global_pending_int' = global_pending_int \union {flag}
    /\ UNCHANGED <<pending_int, nirq, nnmi, irqAge, nmiAge, irqGrace,
                   trapVars, cpuVars, unserved>>

\* interrupt_monitor_trap_off
MonitorOff ==
    /\ ChipsRun
    /\ global_pending_int' = global_pending_int \ {"MONITOR"}
    /\ UNCHANGED <<pending_int, nirq, nnmi, irqAge, nmiAge, irqGrace,
                   trapVars, cpuVars, unserved>>

interrupt_maincpu_trigger_trap(t) ==
    /\ ChipsRun
    /\ global_pending_int' = global_pending_int \union {"TRAP"}
    /\ trap_func' = t
    /\ requested' = requested \union {t}
    /\ UNCHANGED <<pending_int, nirq, nnmi, irqAge, nmiAge, irqGrace, cpuVars,
                   unserved>>

----------------------------------------------------------------------------
\* An instruction other than BRK: its cycles, and what it does to the I flag.
ExecuteOpcode(op, n) ==
    /\ at = "opcode"
    /\ op # "BRK"
    /\ I' \in CASE op = "CLI" -> {FALSE}
                [] op = "SEI" -> {TRUE}
                [] op = "branch" -> {I}
                [] op = "plain" -> BOOLEAN       \* RTI among them
    /\ last_opcode_info' = op
    /\ at' = "poll"
    /\ Ages(n)
    /\ UNCHANGED <<pending_int, nirq, nnmi, global_pending_int, ik, trapVars,
                   unserved>>

\* BRK up to the point where alarms are processed.
BrkStarts ==
    /\ at = "opcode"
    /\ at' = "brk"
    /\ Ages(MaxAge)
    /\ UNCHANGED <<pending_int, nirq, nnmi, global_pending_int, ik, I,
                   last_opcode_info, trapVars, unserved>>

interrupt_ack_nmi == global_pending_int' = global_pending_int \ {"NMI"}
interrupt_ack_irq ==
    /\ global_pending_int' = global_pending_int \ {"IRQPEND"}
    /\ irqGrace' = Never

\* Is the NMI's vector fetched, after the alarms of the entry were processed?
VectorIsNmi == Has("NMI") /\ nmiAge >= INTERRUPT_DELAY

\* BRK chooses the NMI's vector, the IRQ's, or its own.
BrkVectors ==
    /\ at = "brk"
    /\ \/ /\ VectorIsNmi
          /\ interrupt_ack_nmi
          /\ UNCHANGED irqGrace
       \/ /\ ~ VectorIsNmi
          /\ (Has("IRQ") \/ Has("IRQPEND")) /\ ~ I /\ irqAge >= INTERRUPT_DELAY
          /\ interrupt_ack_irq
       \/ /\ ~ VectorIsNmi
          /\ ~ ((Has("IRQ") \/ Has("IRQPEND")) /\ ~ I
                /\ irqAge >= INTERRUPT_DELAY)
          /\ UNCHANGED <<global_pending_int, irqGrace>>
    /\ unserved' = (unserved /\ ~ VectorIsNmi)
    /\ I' = TRUE
    /\ last_opcode_info' = "BRK"
    /\ at' = "poll"
    /\ UNCHANGED <<pending_int, nirq, nnmi, irqAge, nmiAge, ik, trapVars>>

----------------------------------------------------------------------------
BranchDelay == IF last_opcode_info = "branch" THEN 1 ELSE 0

\* interrupt_check_nmi_delay
NmiDelayOver ==
    last_opcode_info # "BRK" /\ nmiAge >= INTERRUPT_DELAY + BranchDelay

\* The first half of interrupt_check_irq_delay.
IrqDelayOver == irqAge >= INTERRUPT_DELAY + BranchDelay

\* Is the processor open to IRQs?  An SEI takes effect one opcode late.
IrqAllowed == ~ I \/ last_opcode_info = "SEI"

\* The poll first forgets an IRQ whose line went away long enough ago.
GraceOver == ~ Has("IRQ") /\ Has("IRQPEND") /\ irqGrace = 0
Polled == IF GraceOver THEN global_pending_int \ {"IRQPEND"}
                       ELSE global_pending_int

(* The poll between two instructions, and the decision to enter an          *)
(* interrupt.  After a CLI the IRQ is only noted for the next poll.         *)
Poll ==
    LET nmi == "NMI" \in Polled /\ NmiDelayOver
        irq == /\ Polled \intersect {"IRQ", "IRQPEND"} # {}
               /\ IrqAllowed /\ IrqDelayOver
        enter == nmi \/ (irq /\ last_opcode_info # "CLI")
    IN
    /\ at = "poll"
    /\ ik' = Polled
    /\ global_pending_int' =
           IF irq /\ ~ nmi /\ last_opcode_info = "CLI"
           THEN Polled \union {"IRQPEND"} ELSE Polled
    /\ at' = IF Polled = {} THEN "opcode"
             ELSE IF enter THEN "entering" ELSE "special"
    /\ AgesFrom(IF GraceOver THEN Never ELSE irqGrace,
                IF enter THEN MaxAge ELSE 0)
    /\ I' = (enter \/ I)
    /\ UNCHANGED <<pending_int, nirq, nnmi, last_opcode_info, trapVars,
                   unserved>>

VectorFetched ==
    /\ at = "entering"
    /\ IF VectorIsNmi THEN interrupt_ack_nmi /\ UNCHANGED irqGrace
                      ELSE interrupt_ack_irq
    /\ unserved' = (unserved /\ ~ VectorIsNmi)
    /\ last_opcode_info' = "BRK"
    /\ at' = "special"
    /\ UNCHANGED <<pending_int, nirq, nnmi, irqAge, nmiAge, ik, I, trapVars>>

----------------------------------------------------------------------------
(* The flags after interrupt_do_trap: the trap's is cleared before the      *)
(* function is called, which may raise others.                              *)
AfterTrap(raised) == (global_pending_int \ {"TRAP"}) \union raised

\* The function may trigger a reset, and even another trap.
DoTrap ==
    /\ at = "special"
    /\ "TRAP" \in ik
    /\ \E raised \in SUBSET (Request \intersect {"RESET"}),
          again \in Trap \union {NoTrap} :
           /\ global_pending_int' =
                  AfterTrap(raised \union IF again = NoTrap THEN {} ELSE {"TRAP"})
           /\ trap_func' = IF again = NoTrap THEN trap_func ELSE again
           /\ requested' = (requested \ {trap_func})
                               \union ({again} \ {NoTrap})
           /\ at' = IF ("RESET" \in ik) \/ Has("RESET") \/ "RESET" \in raised
                    THEN "reset" ELSE "finish"
    /\ UNCHANGED <<pending_int, nirq, nnmi, irqAge, nmiAge, irqGrace, ik, I,
                   last_opcode_info, unserved>>

NoTrapToDo ==
    /\ at = "special"
    /\ "TRAP" \notin ik
    /\ at' = IF "RESET" \in ik THEN "reset" ELSE "finish"
    /\ UNCHANGED <<statusVars, trapVars, ik, I, last_opcode_info, unserved>>

(* interrupt_ack_reset and cpu_reset: interrupt_cpu_status_reset zeroes the *)
(* whole structure, traps included; only the monitor's flag is put back.    *)
interrupt_cpu_status_reset ==
    /\ at = "reset"
    /\ pending_int' = [l \in Line |-> {}]
    /\ nirq' = 0 /\ nnmi' = 0
    /\ global_pending_int' = global_pending_int \intersect {"MONITOR"}
    /\ irqAge' = MaxAge /\ nmiAge' = MaxAge /\ irqGrace' = Never
    /\ trap_func' = NoTrap
    /\ requested' = {}
    /\ unserved' = FALSE
    /\ at' = "finish"
    /\ UNCHANGED <<ik, I, last_opcode_info>>

\* The flags after the poll's end: an IRQ that went away is not kept.
DropGrace ==
    LET g == IF "DMA" \in ik THEN global_pending_int \ {"DMA"}
                             ELSE global_pending_int IN
    global_pending_int' = IF "IRQ" \notin g THEN g \ {"IRQPEND"} ELSE g

\* DMA is served, and the poll ends.
Finish ==
    /\ at = "finish"
    /\ DropGrace
    /\ ik' = {}
    /\ at' = "opcode"
    /\ UNCHANGED <<pending_int, nirq, nnmi, irqAge, nmiAge, irqGrace, I,
                   last_opcode_info, trapVars, unserved>>

----------------------------------------------------------------------------
CpuStep ==
    \/ \E op \in OpInfo, n \in 2 .. MaxAge : ExecuteOpcode(op, n)
    \/ BrkStarts
    \/ BrkVectors
    \/ Poll
    \/ VectorFetched
    \/ DoTrap
    \/ NoTrapToDo
    \/ interrupt_cpu_status_reset
    \/ Finish

ChipStep ==
    \/ ChipDrivesLine
    \/ \E flag \in Request : ChipRaises(flag)
    \/ MonitorOff
    \/ \E t \in Trap : interrupt_maincpu_trigger_trap(t)

InterruptNext == CpuStep \/ ChipStep

(* The CPU runs; whether chips raise anything is up to the program.         *)
InterruptSpec == InterruptInit /\ [][InterruptNext]_interruptVars
InterruptFairSpec == InterruptSpec /\ WF_interruptVars(CpuStep)

----------------------------------------------------------------------------
\* The types of the variables.
TypeOK ==
    /\ pending_int \in [Line -> SUBSET {"IRQ", "NMI"}]
    /\ nirq \in Nat /\ nnmi \in Nat
    /\ global_pending_int \in SUBSET Flag /\ ik \in SUBSET Flag
    /\ irqAge \in 0 .. MaxAge /\ nmiAge \in 0 .. MaxAge
    /\ irqGrace \in 0 .. Never
    /\ trap_func \in Trap \union {NoTrap} /\ requested \subseteq Trap
    /\ at \in Place /\ I \in BOOLEAN /\ last_opcode_info \in OpInfo
    /\ unserved \in BOOLEAN

(* The counters count the active lines, and the IRQ flag follows the lines: *)
(* however chips share the CPU's input, none is left asserted with the flag *)
(* gone, and the flag never outlives the last of them.                      *)
LinesCounted ==
    /\ nirq = Cardinality(Active("IRQ"))
    /\ nnmi = Cardinality(Active("NMI"))
    /\ Has("IRQ") <=> Active("IRQ") # {}

(* The function in the slot is called exactly once for the last trigger,    *)
(* never again and not after a reset: the flag is set while that call is    *)
(* outstanding, even if it was triggered by the trap being called, and the  *)
(* flags DO_INTERRUPT was entered with do not announce a trap that is gone. *)
SlotIsPending ==
    /\ Has("TRAP") <=> trap_func \in requested
    /\ at \in {"entering", "special"} /\ "TRAP" \in ik => Has("TRAP")

(* An entry made for an NMI alone fetches the NMI's vector at its end,       *)
(* although the flags are looked at again there, after the alarms of the    *)
(* entry have let go of lines and pulled others.                            *)
NmiEntryKeepsNmi ==
    at = "entering" /\ "NMI" \in ik /\ ik \intersect {"IRQ", "IRQPEND"} = {}
        => VectorIsNmi

(* To the program, the lines of all chips are one input that is sensitive   *)
(* to edges: an NMI is latched exactly if that input, made from the lines   *)
(* and not from their counter, has become active since an NMI's vector was  *)
(* last fetched, by an interrupt entry or by a BRK that an NMI takes over.  *)
(* A chip that pulls the input while another holds it, and the end of the   *)
(* handler while it is held, add nothing; releasing it takes nothing away;  *)
(* edges that come before the fetch are one.                                *)
NmiIsEdge == Has("NMI") <=> unserved

(* A latched NMI is served, whatever the program executes and however often *)
(* other lines interrupt it.                                                *)
NmiIsServed == Has("NMI") ~> ~ Has("NMI")
=============================================================================
