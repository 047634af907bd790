------------------------------ MODULE CiaChip -------------------------------
(****************************************************************************)
(* What the emulated CIA promises: both timers are clocked every cycle, and *)
(* an underflow has its consequences in the cycle in which it happens.  A   *)
(* CPU executes instructions, some of which access a register of the chip   *)
(* in their last cycle.                                                     *)
(****************************************************************************)
EXTENDS CiaCycle

VARIABLES
    chip,
    did             \* the last instruction, with what it read from the chip

chipVars == <<chip, did>>

----------------------------------------------------------------------------
(* A timer that stands still keeps a step that came as it was being         *)
(* stopped, and counts it when it is started again.                         *)
Clocked(x) ==
    IF "step" \in x.state /\ StandsStill(x.state) THEN x ELSE Counted(x)

(* One cycle, in which the interrupt register may be read.  A step of timer *)
(* B by timer A counts from the next cycle on.                              *)
SteppedBy(a, c) ==
    IF Underflows(a) /\ CountsA(c) THEN [c EXCEPT !.tb = Stepped(@)] ELSE c

CycleOf(c, acknowledges) ==
    LET Flagged(a, b, d) ==
            FlaggedB(FlaggedA(d, IF Underflows(a) THEN 1 ELSE 0),
                     IF Underflows(b) THEN 1 ELSE 0, 0)
        Requested(a, b, d) ==
            IF Underflows(a) \/ Underflows(b) THEN cia_do_set_int(d, 0) ELSE d
        Counts(a, b) ==
            Requested(a, b, SteppedBy(a, Flagged(a, b,
                    [c EXCEPT !.ta = Settled(a), !.tb = Settled(b),
                              !.rdi = IF acknowledges THEN 0 ELSE Older(@, 1),
                              !.irq.at = Older(@, 1)])))
    IN Counts(Clocked(c.ta), Clocked(c.tb))

RECURSIVE After(_, _)
After(c, n) == IF n = 0 THEN c ELSE After(CycleOf(c, FALSE), n - 1)

----------------------------------------------------------------------------
Written(c, w) ==
    CASE w.reg = "TAL" -> [c EXCEPT !.ta = WithLatchLow(@, w.byte)]
      [] w.reg = "TBL" -> [c EXCEPT !.tb = WithLatchLow(@, w.byte)]
      [] w.reg = "TAH" -> [c EXCEPT !.ta = WithLatchHigh(@, w.byte)]
      [] w.reg = "TBH" -> [c EXCEPT !.tb = WithLatchHigh(@, w.byte)]
      [] w.reg = "CRA" -> ControlledA(StartingA(c, w.byte), w.byte)
      [] w.reg = "CRB" -> ControlledB(StartingB(c, w.byte), w.byte)
      [] w.reg = "ICR" -> Unmasked(Masked(c, w.byte))

----------------------------------------------------------------------------
Init ==
    /\ chip = ResetChip
    /\ did = Nothing

Instruction(n) ==
    /\ did' = Waited(n)
    /\ chip' = After(chip, n)

\* The chip as a read in the last of n cycles finds it, and leaves it.
ReadIn(n, r) == CycleOf(After(chip, n - 2), r = "ICR")
HavingRead(c, r) == IF r = "ICR" THEN Acknowledged(c) ELSE c

Read(n, r) ==
    /\ did'.op = "read" /\ did'.n = n /\ did'.reg = r
    /\ LET Answers(c) == /\ did' = Got(n, r, Value(c, r))
                         /\ chip' = After(HavingRead(c, r), 1)
       IN Answers(ReadIn(n, r))

Write(n, w) ==
    /\ did' = Wrote(n, w)
    /\ chip' = After(Written(After(chip, n - 1), w), 1)

Modify(n, w) ==
    /\ did'.op = "modify" /\ did'.n = n /\ did'.write = w
    /\ LET Answers(c, value) ==
               LET back == After(Written(After(HavingRead(c, Port(w.reg)), 1),
                                         last_read(w.reg, value)), 1)
               IN /\ did' = Modified(n, w, value)
                  /\ chip' = After(Written(back, w), 1)
           Found(c) == Answers(c, Value(c, Port(w.reg)))
       IN Found(ReadIn(n, Port(w.reg)))

(* A reset leaves the flip-flops as they are, or as they were; starting a   *)
(* timer sets them.                                                         *)
Reset ==
    /\ did' = Nothing
    /\ \E a, b \in {0, 1} : chip' = [ResetChip EXCEPT !.tat = a, !.tbt = b]

Next ==
    \/ \E n \in Ticks : Instruction(n)
    \/ \E n \in AccessTicks, r \in Reads : Read(n, r)
    \/ \E n \in AccessTicks, w \in Writes : Write(n, w) \/ Modify(n, w)
    \/ Reset

Spec == Init /\ [][Next]_chipVars
=============================================================================
