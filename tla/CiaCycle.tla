------------------------------ MODULE CiaCycle ------------------------------
(****************************************************************************)
(* One cycle of a timer of the 6526 (CIA), what writing its registers does, *)
(* and the chip's interrupt logic: core/ciatimer.c, core/ciatimer.h and     *)
(* core/ciacore.c, without the question of when any of it is worked out.    *)
(*                                                                          *)
(* A timer is a record with its latch, its counter and `state': the bits of *)
(* the control register that concern it and those of a pipeline by which    *)
(* starting, loading and the one-shot mode take effect some cycles later.   *)
(* A counter has two digits, whose base is 256 in the source.  Times are    *)
(* relative to the CPU's clock, so that 0 is now.                           *)
(****************************************************************************)
EXTENDS Integers

CONSTANTS
    ByteSize,       \* 256 in the source
    NewChip,        \* CIA_MODEL_6526A, whose interrupts come one cycle sooner
    MaxAge,         \* times farther in the past are not told apart
    Ticks,          \* lengths of the instructions that leave the chip alone
    AccessTicks,    \* lengths of those that access it
    Writes          \* registers with what is written to them

(* The bits of a timer's state are those of its control register, "phi2in"  *)
(* for one that counts cycles, "step" when timer A has underflowed, and the *)
(* pipeline.                                                                *)

\* Bits of a control register; "cnt" is 0x20, and "ta" 0x40 of register B.
ControlBit == {"start", "pbon", "toggle", "oneshot", "fload", "cnt", "ta"}

Reads == {"TA", "TB", "PRB", "ICR", "CRA", "CRB"}

ASSUME ByteAssumption == ByteSize \in Nat \ {0}
ASSUME WritesAssumption ==
    Writes \subseteq
        [reg : {"TAL", "TAH", "TBL", "TBH"}, byte : 0 .. ByteSize - 1]
        \union [reg : {"CRA", "CRB"}, byte : SUBSET ControlBit]
        \union [reg : {"ICR"}, byte : SUBSET {"set", "TA", "TB"}]

----------------------------------------------------------------------------
Then(condition, bit) == IF condition THEN {bit} ELSE {}

\* Op applied until Done.
RECURSIVE Until(_, _, _)
Until(Done(_), Op(_), x) == IF Done(x) THEN x ELSE Until(Done, Op, Op(x))

\* ciat_table: the state one cycle later.
Table(t) ==
    (t \cap {"start", "oneshot", "phi2in"})
    \union Then({"start", "phi2in"} \subseteq t, "count2")
    \union Then("count2" \in t \/ {"step", "start"} \subseteq t, "count3")
    \union Then("count3" \in t, "count")
    \union Then("fload" \in t, "load1")
    \union Then("load1" \in t, "load")
    \union Then("oneshot" \in t, "oneshot0")
    \union Then("oneshot0" \in t, "oneshot1")

InSteadyMode(t) ==
    t \cap {"oneshot", "oneshot0", "oneshot1"}
        \in {{}, {"oneshot", "oneshot0", "oneshot1"}}

Stopped(t) ==
    /\ t \cap {"count2", "count3", "count"} = {}
    /\ "start" \notin t \/ t \cap {"phi2in", "step"} = {}
    /\ InSteadyMode(t)

StandsStill(t) == Stopped(t) /\ t \cap {"fload", "load1", "load"} = {}

Counted(x) ==
    [x EXCEPT !.state = Table(@),
              !.cnt = IF @ > 0 /\ "count3" \in x.state THEN @ - 1 ELSE @]

Underflows(x) == x.cnt = 0 /\ "count3" \in x.state

\* What follows a cycle: the underflow, the reload, the end of a single shot.
Reloaded(x) ==
    IF "load" \in x.state
    THEN [x EXCEPT !.state = @ \ {"count3"}, !.cnt = x.latch] ELSE x
Ended(x) ==
    IF "out" \in x.state /\ x.state \cap {"oneshot0", "oneshot1"} # {}
    THEN [x EXCEPT !.state = @ \ {"start", "count2"}] ELSE x
Settled(x) ==
    Ended(Reloaded(IF Underflows(x)
                   THEN [x EXCEPT !.state = @ \union {"load", "out"}] ELSE x))

----------------------------------------------------------------------------
(* Writing a timer's registers.                                             *)

LowDigit(word, byte) == ByteSize * (word \div ByteSize) + byte

WithLatchLow(x, byte) ==
    [x EXCEPT !.latch = LowDigit(@, byte),
              !.cnt = IF "load" \in x.state THEN LowDigit(@, byte) ELSE @]

WithLatchHigh(x, byte) ==
    LET latch == ByteSize * byte + (x.latch % ByteSize)
    IN [x EXCEPT !.latch = latch,
                 !.cnt = IF "load" \in x.state \/ "start" \notin x.state
                           THEN latch ELSE @]

WithControl(x, byte) ==
    [x EXCEPT !.state = (@ \ {"start", "oneshot", "fload", "phi2in"})
                          \union (byte \cap {"start", "oneshot", "fload"})
                          \union Then("cnt" \notin byte, "phi2in")]

\* An underflow of timer A is a step for timer B, when that is started.
Stepped(x) ==
    IF "start" \in x.state THEN [x EXCEPT !.state = @ \union {"step"}] ELSE x

----------------------------------------------------------------------------
(* The chip: its timers `ta' and `tb', `cra' and `crb' as last written, the *)
(* output flip-flops `tat' and `tbt', the interrupts that have come         *)
(* (`irqflags') and those that are enabled (`icr'), the time of the last    *)
(* read of the interrupt register (`rdi'), and the line to the CPU with the *)
(* time since which it is active.                                           *)

LongAgo == - MaxAge
Older(time, n) == IF time - n < LongAgo THEN LongAgo ELSE time - n

Inactive == [on |-> FALSE, at |-> LongAgo]

\* ciacore_reset.
ResetTimer == [state |-> {}, latch |-> ByteSize * ByteSize - 1,
               cnt |-> ByteSize * ByteSize - 1]
ResetChip ==
    [ta |-> ResetTimer, tb |-> ResetTimer, cra |-> {}, crb |-> {},
     tat |-> 0, tbt |-> 0, irqflags |-> {}, icr |-> {},
     rdi |-> LongAgo, irq |-> Inactive]

CountsA(c) == {"start", "ta"} \subseteq c.crb

\* The line is active since the first of several requests.
my_set_int(c, time) ==
    [c EXCEPT !.irq = IF @.on THEN @ ELSE [on |-> TRUE, at |-> time],
              !.irqflags = @ \union {"IR"}]

\* cia_do_set_int, for an interrupt that comes at `time'.
cia_do_set_int(c, time) ==
    LET late == ~ NewChip \/ c.rdi = time - 1
        at == IF late THEN time + 1 ELSE time
    IN IF \/ c.irqflags \cap c.icr = {}
          \/ ~ NewChip /\ c.rdi = time
         THEN c
         ELSE my_set_int([c EXCEPT !.irqflags =
                                IF "TBB" \in @ THEN @ \ {"TBB", "TB"} ELSE @],
                         at)

\* n underflows of timer A, or of timer B at `time'.
FlaggedA(c, n) ==
    IF n = 0 THEN c
    ELSE [c EXCEPT !.irqflags = @ \union {"TA"}, !.tat = (@ + n) % 2]

FlaggedB(c, n, time) ==
    IF n = 0 THEN c
    ELSE [c EXCEPT !.irqflags =
              (@ \ {"TBB"}) \union {"TB"}
                \union Then(~ NewChip /\ c.rdi = time - 1, "TBB"),
              !.tbt = (@ + n) % 2]

----------------------------------------------------------------------------
(* The other registers, once the timers are up to date.                     *)

\* Starting a timer sets its flip-flop.
StartingA(c, byte) ==
    [c EXCEPT !.tat = IF "start" \in byte \ c.cra THEN 1 ELSE @]
StartingB(c, byte) ==
    [c EXCEPT !.tbt = IF "start" \in byte \ c.crb THEN 1 ELSE @]

\* The control registers, without the strobe that loads the counter.
ControlledA(c, byte) == [c EXCEPT !.ta = WithControl(@, byte),
                                  !.cra = byte \ {"fload"}]
ControlledB(c, byte) ==
    [c EXCEPT !.tb = WithControl(@, byte \union Then("ta" \in byte, "cnt")),
              !.crb = byte \ {"fload"}]

Masked(c, byte) ==
    [c EXCEPT !.icr = IF "set" \in byte THEN @ \union (byte \ {"set"})
                                        ELSE @ \ byte]
Unmasked(c) == IF c.icr \cap c.irqflags # {} THEN cia_do_set_int(c, 1) ELSE c

\* Reading the interrupt register returns and clears the interrupts.
Announced(c) == IF "TBB" \in c.irqflags THEN c.irqflags \ {"TBB", "TB"}
                                        ELSE c.irqflags
Acknowledged(c) == [c EXCEPT !.irqflags = {}, !.irq = Inactive]

\* The bits of port B that the timers drive.
Output(c) ==
    LET Level(x, control, flipflop) ==
            IF "pbon" \notin control THEN "port"
            ELSE IF "toggle" \in control THEN flipflop
            ELSE IF "out" \in x.state THEN 1 ELSE 0
    IN <<Level(c.ta, c.cra, c.tat), Level(c.tb, c.crb, c.tbt)>>

----------------------------------------------------------------------------
(* Accesses.                                                                *)

\* What an instruction of n cycles did to the chip.
Nothing == [op |-> "none"]
Waited(n) == [op |-> "wait", n |-> n]
Got(n, r, value) == [op |-> "read", n |-> n, reg |-> r, value |-> value]
Wrote(n, w) == [op |-> "write", n |-> n, write |-> w]
Modified(n, w, value) ==
    [op |-> "modify", n |-> n, write |-> w, value |-> value]

Running(x, control) ==
    (control \ {"start"}) \union (x.state \cap {"start"})

\* What a read returns; the counters' bytes are read together.
Value(c, r) ==
    CASE r = "TA" -> <<c.ta.cnt>>
      [] r = "TB" -> <<c.tb.cnt>>
      [] r = "CRA" -> <<Running(c.ta, c.cra)>>
      [] r = "CRB" -> <<Running(c.tb, c.crb)>>
      [] r = "PRB" -> Output(c)
      [] r = "ICR" -> <<Announced(c)>>

(* An instruction that modifies a register reads it, writes what it has     *)
(* read back in the next cycle, and the new value in the one after.  Bit 7  *)
(* of the interrupt register is "IR" when it is read, "set" when written.   *)
Port(reg) == CASE reg \in {"TAL", "TAH"} -> "TA"
               [] reg \in {"TBL", "TBH"} -> "TB"
               [] OTHER -> reg

last_read(reg, value) ==
    [reg |-> reg,
     byte |-> CASE reg \in {"TAL", "TBL"} -> value[1] % ByteSize
                [] reg \in {"TAH", "TBH"} -> value[1] \div ByteSize
                [] reg \in {"CRA", "CRB"} -> value[1]
                [] reg = "ICR" -> (value[1] \ {"IR"})
                                    \union Then("IR" \in value[1], "set")]
=============================================================================
