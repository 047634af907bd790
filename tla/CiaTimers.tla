----------------------------- MODULE CiaTimers ------------------------------
(****************************************************************************)
(* The CIA as it is emulated (core/ciacore.c, core/ciatimer.h): a timer is  *)
(* left alone until a register is accessed, or until the alarm set for its  *)
(* next underflow is dispatched, and then catches up with the clock by      *)
(* leaps.  Alarms that nobody waits for are not set.                        *)
(*                                                                          *)
(* A timer has, beside the fields of CiaCycle, the clock up to which it is  *)
(* worked out (`clk'), the time it has asked to be woken (`alarmclk') and   *)
(* the deadline of its alarm in the CPU's alarm context (`alarm').  Left    *)
(* out: the serial register, the time of day clock, the ports' lines.       *)
(****************************************************************************)
EXTENDS CiaCycle, TLC

CONSTANTS
    MaxLag,         \* CIA_MAX_IDLE_CYCLES
    GuardSub,       \* what the overflow guard of the CPU's clock subtracts
    Programs,       \* records of what a program reads and writes, what the
                    \*   monitor looks at meanwhile, and how often the program
                    \*   may write or the machine be reset
    WarpsFirst      \* whether it warps the alarm context before the chips' own
                    \* callbacks run: a drive's does, the main CPU's does not

VARIABLES
    cia,
    program,        \* the one that runs
    stores,         \* its writes so far
    did,            \* the last instruction, with what it read from the chip
    chip,           \* history: the chip, if everything were worked out now
    outOfTurn       \* history: has the last step brought the timers up to date
                    \*   in another order than that of their underflows?

vars == <<cia, did, chip, outOfTurn, program, stores>>

\* CLOCK_MAX: later than any deadline.
Never == 2 * GuardSub
Sooner(time, n) == IF time = Never THEN Never ELSE time - n

----------------------------------------------------------------------------
(* ciat_update and ciat_set_alarm.                                          *)

OnlyCounts(t) ==
    /\ t \cap {"start", "fload", "load1", "phi2in", "count2", "count3",
               "count", "load"}
         = {"start", "phi2in", "count2", "count3", "count"}
    /\ InSteadyMode(t)

\* Every second cycle is an underflow.
Alternates(x) ==
    /\ x.state = {"count", "out", "load", "phi2in", "count2", "start"}
    /\ x.cnt = 1
    /\ x.latch = 1

\* What one pass of the loop of ciat_update does to a timer, the cycles it
\* spends, and the underflows among them.
Leap(x, spent, n) == [timer |-> x, spent |-> spent, n |-> n]

Leapt(x, left) ==
    IF OnlyCounts(x.state) THEN
        IF x.cnt > left THEN Leap([x EXCEPT !.cnt = @ - left], left, 0)
        ELSE LET period == x.latch + 1
                 over == (left - x.cnt) % (ByteSize * ByteSize)
                 single == x.state \cap {"oneshot", "oneshot0"} # {}
                 m == IF ~ single /\ over >= period
                        THEN (left - x.cnt) \div period ELSE 0
             IN Leap([x EXCEPT !.cnt = 0], x.cnt + (m * period), m)
    ELSE IF StandsStill(x.state)
        THEN Leap(x, left, 0)
    ELSE IF Alternates(x) /\ left > 1
        THEN Leap(x, 2 * (left \div 2), left \div 2)
    ELSE Leap(Counted(x), 1, 0)

CaughtUp(u) == u.left = 0

AfterLeap(u, leap) ==
    [timer |-> Settled(leap.timer), left |-> u.left - leap.spent,
     n |-> u.n + leap.n + (IF Underflows(leap.timer) THEN 1 ELSE 0)]

Pass(u) == AfterLeap(u, Leapt(u.timer, u.left))

\* The timer at time r, and its underflows since it was last worked out.
ciat_update(x, r) ==
    IF x.clk >= r THEN [timer |-> x, left |-> 0, n |-> 0]
    ELSE [Until(CaughtUp, Pass, [timer |-> x, left |-> r - x.clk, n |-> 0])
            EXCEPT !.timer.clk = r]

(* The next underflow: the loop follows the pipeline until the counter only *)
(* counts, or is stopped.                                                   *)
Search(s) ==
    IF OnlyCounts(s.timer.state)
        THEN [s EXCEPT !.clk = @ + s.timer.cnt, !.found = TRUE]
    ELSE IF Stopped(s.timer.state)
        THEN [s EXCEPT !.clk = Never, !.found = TRUE]
    ELSE LET NextCycle(x) == [timer |-> Settled(x), clk |-> s.clk + 1,
                              found |-> Underflows(x)]
         IN NextCycle(Counted(s.timer))

Found(s) == s.found

NextUnderflow(x) ==
    Until(Found, Search,
          [timer |-> x, clk |-> x.clk, found |-> FALSE]).clk

\* `ahead': by how much the alarm context has been warped before the timer.
AlarmAt(x, time, ahead) ==
    [x EXCEPT !.alarmclk = time, !.alarm = Sooner(time, - ahead)]
AlarmSet(x, ahead) == AlarmAt(x, NextUnderflow(x), ahead)

AlarmUnset(x) == [x EXCEPT !.alarmclk = Never, !.alarm = Never]

SetAlarmA(c) == [c EXCEPT !.ta = AlarmSet(@, c.ahead)]
SetAlarmB(c) == [c EXCEPT !.tb = AlarmSet(@, c.ahead)]

----------------------------------------------------------------------------
(* Bringing the timers up to date: the underflows that have an alarm are    *)
(* served as the alarm would have, the others are only counted.             *)

cia_do_update_ta(c, r) ==
    LET With(u) == FlaggedA([c EXCEPT !.ta = u.timer], u.n)
    IN With(ciat_update(c.ta, r))

cia_do_update_tb(c, r) ==
    LET With(u) == FlaggedB([c EXCEPT !.tb = u.timer], u.n, r)
    IN With(ciat_update(c.tb, r))

\* Timer B goes on without further alarms unless its interrupt is enabled.
AwaitsB(c) ==
    /\ c.crb \cap {"start", "oneshot", "cnt", "ta"} = {"start"}
    /\ "TB" \in c.icr

RearmedB(c) == IF AwaitsB(c) THEN SetAlarmB(c) ELSE c

ciacore_inttb(c, r) ==
    cia_do_set_int(
        RearmedB([cia_do_update_tb(c, r) EXCEPT !.tb = AlarmUnset(@)]), r)

ServedB(c, r) ==
    LET Serve(d) == ciacore_inttb(d, d.tb.alarmclk)
        NoneDue(d) == d.tb.alarmclk > r
    IN cia_do_update_tb(Until(NoneDue, Serve, c), r)

\* Fault: timer B is forgotten.
AwaitsA_InterruptOnly(c) ==
    /\ c.cra \cap {"start", "oneshot", "cnt"} = {"start"}
    /\ \/ "TA" \in c.icr /\ "IR" \notin c.irqflags
       \/ "pbon" \in c.cra

(* Timer A goes on without alarms when its interrupt waits already or is    *)
(* not enabled, unless its output or timer B depends on it.                 *)
AwaitsA(c) ==
    /\ c.cra \cap {"start", "oneshot", "cnt"} = {"start"}
    /\ \/ "TA" \in c.icr /\ "IR" \notin c.irqflags
       \/ "pbon" \in c.cra
       \/ "ta" \in c.crb

RearmedA(c) == IF AwaitsA(c) THEN SetAlarmA(c) ELSE c

cia_do_step_tb(c) ==
    IF "start" \in c.tb.state THEN SetAlarmB([c EXCEPT !.tb = Stepped(@)]) ELSE c

(* Timer A's alarm steps timer B.  cia_update_tb would look at timer A      *)
(* first, which is worked out up to r already.                              *)
SteppedByA(c, r) ==
    IF CountsA(c) THEN cia_do_step_tb(ServedB(c, r)) ELSE c

ciacore_intta(c, r) ==
    LET acked == [cia_do_update_ta(c, r) EXCEPT !.ta = AlarmUnset(@)]
    IN cia_do_set_int(SteppedByA(RearmedA(acked), r), r)

cia_update_ta(c, r) ==
    LET Serve(d) == ciacore_intta(d, d.ta.alarmclk)
        NoneDue(d) == d.ta.alarmclk > r
    IN cia_do_update_ta(Until(NoneDue, Serve, c), r)

cia_update_tb(c, r) == ServedB(IF CountsA(c) THEN cia_update_ta(c, r) ELSE c, r)

UpToDate(c, r) == cia_update_tb(cia_update_ta(c, r), r)

----------------------------------------------------------------------------
(* The chip's registers.  An access takes place in the last cycle of its    *)
(* instruction, which is 0 here.                                            *)

\* What a read does before it returns.
ReadyFor(c, r) ==
    CASE r \in {"TA", "CRA"} -> cia_update_ta(c, 0)
      [] r \in {"TB", "CRB"} -> cia_update_tb(c, 0)
      [] r = "PRB" ->
             LET AndB(d) == IF "pbon" \in d.crb THEN cia_update_tb(d, 0) ELSE d
             IN AndB(IF "pbon" \in c.cra THEN cia_update_ta(c, 0) ELSE c)
      [] r = "ICR" ->
             SetAlarmB(SetAlarmA(UpToDate([c EXCEPT !.rdi = 0], 0)))

\* Writing the interrupt mask sets the alarms that were left out.
StoredIcr(c, byte) ==
    LET SetA(d) == IF "TA" \in d.icr THEN SetAlarmA(d) ELSE d
        SetB(d) == IF "TB" \in d.icr THEN SetAlarmB(d) ELSE d
    IN SetB(SetA(Unmasked(Masked(UpToDate(c, 0), byte))))

StoredCrb(c, byte) ==
    LET SetA(d) == IF "ta" \in byte THEN SetAlarmA(d) ELSE d
    IN SetAlarmB(ControlledB(SetA(UpToDate(StartingB(c, byte), 0)), byte))

StoredCra(c, byte) ==
    SetAlarmA(ControlledA(cia_update_ta(StartingA(c, byte), 0), byte))

Latched(x, w) == IF w.reg \in {"TAL", "TBL"} THEN WithLatchLow(x, w.byte)
                                             ELSE WithLatchHigh(x, w.byte)

Stored(c, w) ==
    CASE w.reg \in {"TAL", "TAH"} ->
             SetAlarmA([cia_update_ta(c, 0) EXCEPT !.ta = Latched(@, w)])
      [] w.reg \in {"TBL", "TBH"} ->
             SetAlarmB([cia_update_tb(c, 0) EXCEPT !.tb = Latched(@, w)])
      [] w.reg = "CRA" -> StoredCra(c, w.byte)
      [] w.reg = "CRB" -> StoredCrb(c, w.byte)
      [] w.reg = "ICR" -> StoredIcr(c, w.byte)

----------------------------------------------------------------------------
\* n cycles pass, for the chip unnoticed.
Aged(x, n) == [x EXCEPT !.clk = @ - n, !.alarmclk = Sooner(@, n),
                        !.alarm = Sooner(@, n)]
Passed(c, n) ==
    [c EXCEPT !.ta = Aged(@, n), !.tb = Aged(@, n),
              !.rdi = Older(@, n), !.irq.at = Older(@, n)]

Due(x) == x.alarm <= 0

\* PROCESS_ALARMS: the earliest first.
Dispatch(c) ==
    IF Due(c.ta) /\ c.ta.alarm <= c.tb.alarm THEN ciacore_intta(c, c.ta.alarm)
    ELSE ciacore_inttb(c, c.tb.alarm)

NoAlarmDue(c) == ~ Due(c.ta) /\ ~ Due(c.tb)
AllDispatched(c) == Until(NoAlarmDue, Dispatch, c)

Eager(x) == [state |-> x.state, latch |-> x.latch, cnt |-> x.cnt]

(* The chip as the next access would find it.  What the CPU sees of it      *)
(* without an access, the line, is as the alarms leave it.                  *)
Observed(now, irq) ==
    [ta |-> Eager(now.ta), tb |-> Eager(now.tb), cra |-> now.cra, crb |-> now.crb,
     tat |-> now.tat, tbt |-> now.tbt, irqflags |-> now.irqflags,
     icr |-> now.icr, rdi |-> now.rdi, irq |-> irq]
WorkedOut(c) ==
    LET Served(d) == Observed(UpToDate(d, 0), d.irq) IN Served(AllDispatched(c))

\* An instruction begins when the due alarms have been served.
Begins(n) ==
    /\ NoAlarmDue(cia)
    /\ cia.ta.clk - n >= - MaxLag
    /\ cia.tb.clk - n >= - MaxLag

Lazy(x) == [state |-> x.state, latch |-> x.latch, cnt |-> x.cnt,
            clk |-> 0, alarmclk |-> Never, alarm |-> Never]

InitialCia ==
    [ResetChip EXCEPT !.ta = Lazy(@), !.tb = Lazy(@)] @@ [ahead |-> 0]

Init ==
    /\ cia = InitialCia
    /\ did = Nothing
    /\ chip = ResetChip
    /\ outOfTurn = FALSE
    /\ program \in Programs
    /\ stores = 0

Instruction(n) ==
    /\ Begins(n)
    /\ cia' = Passed(cia, n)
    /\ UNCHANGED stores
    /\ did' = Waited(n)
    /\ outOfTurn' = FALSE

(* An access, the idle alarm and the guard serve the underflows of timer A  *)
(* before those of B, or those of B alone, whichever came first, and then   *)
(* both request the interrupt of either.                                    *)
ServesA(c, reg) ==
    CountsA(c) \/ reg \notin {"TB", "CRB", "PRB", "TBL", "TBH"}

Overtakes(c, r, aFirst) ==
    /\ c.ta.alarmclk <= r /\ c.tb.alarmclk <= r
    /\ \/ aFirst /\ c.tb.alarmclk < c.ta.alarmclk
       \/ ~ aFirst /\ c.ta.alarmclk < c.tb.alarmclk

(* And a timer that is started has its flip-flop set before the underflows  *)
(* are counted that are not worked out yet.                                 *)
SetsTooEarly(c, w) ==
    \/ w.reg = "CRA" /\ "start" \in w.byte \ c.cra /\ UpToDate(c, 0).tat # c.tat
    \/ w.reg = "CRB" /\ "start" \in w.byte \ c.crb /\ UpToDate(c, 0).tbt # c.tbt

StoresOutOfTurn(c, w) ==
    Overtakes(c, 0, ServesA(c, w.reg)) \/ SetsTooEarly(c, w)

HavingRead(c, r) == IF r = "ICR" THEN Acknowledged(c) ELSE c

MayStore(w) ==
    /\ w \in program.writes
    /\ stores < program.length
    /\ stores' = stores + 1

ciacore_read(n, r) ==
    /\ r \in program.reads
    /\ Begins(n)
    /\ outOfTurn' = Overtakes(cia, n - 1, ServesA(cia, r))
    /\ UNCHANGED stores
    /\ LET Answers(c) == /\ did' = Got(n, r, Value(c, r))
                         /\ cia' = Passed(HavingRead(c, r), 1)
       IN Answers(ReadyFor(Passed(cia, n - 1), r))

ciacore_store(n, w) ==
    /\ Begins(n)
    /\ MayStore(w)
    /\ LET Stores(c) == /\ cia' = Passed(Stored(c, w), 1)
                        /\ outOfTurn' = StoresOutOfTurn(c, w)
       IN Stores(Passed(cia, n - 1))
    /\ did' = Wrote(n, w)

(* An instruction that modifies a register: with rmw_flag ciacore_store     *)
(* sets the clock back by one for a store of what was read last.            *)
ciacore_store_rmw(n, w) ==
    /\ Begins(n + 2)
    /\ MayStore(w)
    /\ LET Stores(c, twisted) ==
               /\ cia' = Passed(Stored(c, w), 1)
               /\ outOfTurn' = (twisted \/ StoresOutOfTurn(c, w))
           StoresBack(c, back, twisted) ==
               Stores(Passed(Stored(c, back), 1),
                      twisted \/ StoresOutOfTurn(c, back))
           Answers(c, value, twisted) ==
               /\ did' = Modified(n, w, value)
               /\ StoresBack(Passed(HavingRead(c, Port(w.reg)), 1),
                             last_read(w.reg, value), twisted)
           Loads(c) == Answers(c, Value(c, Port(w.reg)),
                               Overtakes(cia, n - 1, ServesA(cia, Port(w.reg))))
       IN Loads(ReadyFor(Passed(cia, n - 1), Port(w.reg)))

Dispatched ==
    /\ ~ NoAlarmDue(cia)
    /\ cia' = Dispatch(cia)
    /\ outOfTurn' = FALSE
    /\ UNCHANGED <<did, stores>>

(* ciacore_idle's alarm, whose time is left open, and writing a snapshot    *)
(* bring the timers up to date.  The alarms before it have been dispatched. *)
ciacore_idle(late) ==
    /\ cia.ta.alarm >= - late /\ cia.tb.alarm >= - late
    /\ cia' = UpToDate(cia, - late)
    /\ outOfTurn' = Overtakes(cia, - late, TRUE)
    /\ UNCHANGED <<did, stores>>

\* The monitor looks at a register: at that of the interrupts without clearing
\* them, at the others by reading them.
ciacore_peek(r) ==
    /\ r \in program.looks
    /\ cia' = IF r = "ICR" THEN SetAlarmB(SetAlarmA(UpToDate(cia, 0)))
                           ELSE ReadyFor(cia, r)
    /\ outOfTurn' = Overtakes(cia, 0, ServesA(cia, r))
    /\ UNCHANGED <<did, stores>>

(* The guard has wound back the clock, and perhaps the alarm context: the   *)
(* alarms that the chip's callback sets are still for the old clock.  It    *)
(* runs in the alarm that ends the frame, before alarms that are due later. *)
ciacore_clk_overflow_callback ==
    /\ LET ahead == IF WarpsFirst THEN GuardSub ELSE 0
       IN cia' = [UpToDate([cia EXCEPT !.ahead = ahead], 0) EXCEPT !.ahead = 0]
    /\ outOfTurn' = Overtakes(cia, 0, TRUE)
    /\ UNCHANGED <<did, stores>>

ciacore_reset ==
    /\ cia' = [InitialCia EXCEPT !.tat = cia.tat, !.tbt = cia.tbt]
    /\ stores < program.length
    /\ stores' = stores + 1
    /\ did' = Nothing
    /\ outOfTurn' = FALSE

Act ==
    \/ \E n \in Ticks : Instruction(n)
    \/ \E n \in AccessTicks, r \in Reads : ciacore_read(n, r)
    \/ \E n \in AccessTicks, w \in Writes :
           ciacore_store(n, w) \/ ciacore_store_rmw(n, w)
    \/ Dispatched
    \/ \E late \in {0, 2} : ciacore_idle(late)
    \/ \E r \in Reads : ciacore_peek(r)
    \/ ciacore_clk_overflow_callback
    \/ ciacore_reset

Next == Act /\ chip' = WorkedOut(cia') /\ UNCHANGED program

Spec == Init /\ [][Next]_vars

----------------------------------------------------------------------------
(* The chip does as if its timers were clocked every cycle: leaps, alarms   *)
(* that are not set, late dispatches, the monitor's looks, the idle alarm   *)
(* and the overflow guard cannot be told by the values that are read, nor   *)
(* by the interrupt line.  Excepted is a step that itself serves an         *)
(* underflow before an earlier one of the other timer, or starts a timer    *)
(* before its last underflow is counted (outOfTurn); after such a step the  *)
(* chip goes on from where that has left it.                                *)
Chip == INSTANCE CiaChip
ImplementsChip ==
    /\ Chip!Init
    /\ [][Chip!Next \/ outOfTurn']_<<chip, did>>
=============================================================================
