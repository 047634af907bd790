------------------------------ MODULE CpuClock ------------------------------
(****************************************************************************)
(* A CPU, its clock, its alarm context and its overflow guard: the loop of  *)
(* 6510core.c reduced to what it does with time, clkguard.c, and the calls  *)
(* chips make while an instruction, a callback or a reset runs.             *)
(*                                                                          *)
(* The clock counts cycles in a CLOCK of fixed width.  Once a frame the     *)
(* guard checks it and, past clk_max_value, subtracts a large amount from   *)
(* it and from every deadline.  For the main CPU this happens inside the    *)
(* callback of the video chip's alarm (vsync_do_vsync calls the machine's   *)
(* vsync hook), while that alarm is still pending with a deadline in the    *)
(* past.  For a drive's CPU it happens between two of its instructions.     *)
(*                                                                          *)
(* A callback either re-arms or unsets its alarm, as all of the source's    *)
(* do: one that did neither would be dispatched for ever.                   *)
(****************************************************************************)
EXTENDS AlarmContext, FiniteSets

CONSTANTS
    NoAlarm,        \* not an alarm
    ChipAlarm,      \* alarms of chips that a reset sets or unsets
    VsyncAlarm,     \* the alarm whose callback ends a frame, NoAlarm for a drive
                    \* (its dispatches for the other raster lines are left out)
    FetchAlarm,     \* the alarm whose callback steals cycles, or NoAlarm
    FrameCycles,    \* cycles between two ends of a frame
    MaxTick,        \* longest instruction, and most cycles stolen at once
    MaxDelta,       \* farthest ahead an alarm is set
    SubMin,         \* CLKGUARD_SUB_MIN
    ClkBase,        \* clk_base, 0 when never set
    ResetClk        \* the clock after a reset

ASSUME ChipAlarmAssumption == ChipAlarm \subseteq Alarm /\ NoAlarm \notin Alarm
ASSUME VsyncAlarmAssumption == VsyncAlarm \in ChipAlarm \union {NoAlarm}
ASSUME FetchAlarmAssumption ==
    FetchAlarm \in (ChipAlarm \ {VsyncAlarm}) \union {NoAlarm}

ASSUME CyclesAssumption ==
    /\ FrameCycles \in Nat /\ MaxTick \in Nat \ {0} /\ MaxDelta \in Nat
    /\ SubMin \in Nat /\ ClkBase \in Nat
    /\ ResetClk \in Deadline \ {0}

\* No machine has as many alarms as an array has slots (0x100).
ASSUME RoomAssumption == IsFiniteSet(Alarm) /\ Cardinality(Alarm) <= MaxPending

\* A reset leaves a clock of 6; the frame's end is set a frame ahead.
ASSUME OrderAssumption ==
    ResetClk <= MaxTick /\ MaxTick <= FrameCycles /\ FrameCycles <= MaxDelta

(* CLKGUARD_SUB_MIN, 0xfffff, is some 50 frames; so it exceeds one, and an  *)
(* alarm set ahead after it, and a frame's cycles as clk_base.              *)
ASSUME FrameAssumption == FrameCycles + 3 * MaxTick + MaxDelta <= SubMin + 1
ASSUME BaseAssumption == ClkBase <= SubMin

VARIABLES
    clk,            \* maincpu_clk, or a drive's *clk_ptr
    loop,           \* what the CPU is doing, see LoopState
    unguarded       \* cycles since the guard last checked the clock

clockVars == <<clk, loop, unguarded>>
vars == <<contextVars, clockVars>>

clk_max_value == ClockMax - SubMin

\* clk_guard_init refuses a limit below this.
ASSUME GuardAssumption == clk_max_value >= 3 * SubMin

(* Between instructions; in a callback, `offset' cycles after its deadline; *)
(* or resetting the chips in `todo'.  The callbacks of the frame and of the *)
(* fetch go through stages, the others only re-arm or unset their alarm.    *)
Cpu == [at |-> "cpu"]
Stage == {"start", "stolen", "drawn", "end"}
Handler(alarm, offset, stage) ==
    [at |-> "handler", alarm |-> alarm, offset |-> offset, stage |-> stage]
Resetting(todo) == [at |-> "reset", todo |-> todo]

LoopState ==
    {Cpu}
    \union {Handler(a, o, s) : a \in Alarm, o \in Clock, s \in Stage}
    \union {Resetting(todo) : todo \in SUBSET ChipAlarm}

InHandler == loop.at = "handler"

----------------------------------------------------------------------------
(* Faults that the properties below must notice; none is used by the model. *)
clk_guard_clock_sub_NoHeadroom == clk_max_value
OverflowCallbacks_ClockOnly(sub) == UNCHANGED contextVars
NextDeadline_SameAgain(d) == Wrap(clk - loop.offset)
ChipReset_FrameForgotten(a) ==
    /\ loop.at = "reset"
    /\ a \in loop.todo
    /\ alarm_unset(a)
    /\ loop' = Resetting(loop.todo \ {a})
    /\ UNCHANGED <<clk, unguarded>>
----------------------------------------------------------------------------
\* Power-on resets the chips with every alarm created and none set.
Init ==
    /\ alarms = Alarm
    /\ pending_idx = [a \in Alarm |-> -1]
    /\ pending_alarms = [i \in Slots(0) |-> 0]
    /\ num_pending_alarms = 0
    /\ next_pending_alarm_clk = ClockMax
    /\ next_pending_alarm_idx \in -1 .. MaxPending
    /\ clk = ResetClk
    /\ loop = Resetting(ChipAlarm)
    /\ unguarded = 0

\* The condition of PROCESS_ALARMS.
AlarmDue == clk >= next_pending_alarm_clk

Advance(n) ==
    /\ clk' = Wrap(clk + n)
    /\ unguarded' = unguarded + n

(* One instruction.  A drive runs in slices of at most a frame, after which *)
(* its guard checks; the main CPU's frames end by themselves.               *)
Instruction(n) ==
    /\ loop = Cpu
    /\ ~ AlarmDue
    /\ VsyncAlarm = NoAlarm => unguarded < FrameCycles
    /\ Advance(n)
    /\ UNCHANGED <<contextVars, loop>>

(* Register writes of an instruction, and callbacks, make the chips set and *)
(* unset alarms other than the running one.                                 *)
ChipsCalled(a) ==
    /\ a # VsyncAlarm
    /\ \/ loop = Cpu /\ ~ AlarmDue
       \/ InHandler /\ loop.alarm # a

ChipSets(a, d) ==
    /\ ChipsCalled(a)
    /\ alarm_set(a, Wrap(clk + d))
    /\ UNCHANGED clockVars

ChipUnsets(a) ==
    /\ ChipsCalled(a)
    /\ IsPending(a)
    /\ alarm_unset(a)
    /\ UNCHANGED clockVars

DispatchOffset == Wrap(clk - next_pending_alarm_clk)

\* alarm_context_dispatch, from PROCESS_ALARMS.
Dispatch ==
    /\ loop = Cpu
    /\ AlarmDue
    /\ DispatchSlot \in Slots(num_pending_alarms)
    /\ LET a == pending_alarms[DispatchSlot].alarm
           stage == IF a \in {VsyncAlarm, FetchAlarm} THEN "start" ELSE "end"
       IN loop' = Handler(a, DispatchOffset, stage)
    /\ UNCHANGED <<contextVars, clk, unguarded>>

----------------------------------------------------------------------------
\* The deadline a callback computes from its offset: the old one plus d.
NextDeadline(d) == Wrap(clk - loop.offset + d)

\* The callback re-arms its alarm and returns.
HandlerSets(d) ==
    /\ InHandler
    /\ loop.alarm = VsyncAlarm => loop.stage = "end" /\ d = FrameCycles
    /\ loop.alarm = FetchAlarm => loop.stage # "drawn" /\ d > MaxTick
    /\ alarm_set(loop.alarm, NextDeadline(d))
    /\ loop' = Cpu
    /\ UNCHANGED <<clk, unguarded>>

\* The callback unsets its alarm and returns.
HandlerUnsets ==
    /\ InHandler
    /\ loop.alarm \notin {VsyncAlarm, FetchAlarm}
    /\ alarm_unset(loop.alarm)
    /\ loop' = Cpu
    /\ UNCHANGED <<clk, unguarded>>

(* dma_maincpu_steal_cycles, from the callback that fetches sprite and      *)
(* matrix data: the clock moves on, and the callback still re-arms relative *)
(* to its deadline.                                                         *)
HandlerSteals(n) ==
    /\ InHandler
    /\ loop.alarm = FetchAlarm
    /\ loop.stage = "start"
    /\ Advance(n)
    /\ loop' = [loop EXCEPT !.offset = @ + n, !.stage = "stolen"]
    /\ UNCHANGED contextVars

----------------------------------------------------------------------------
\* What the guard subtracts: it leaves at least SubMin, in whole clk_bases.
clk_guard_clock_sub ==
    IF ClkBase = 0 THEN clk_max_value - SubMin
                   ELSE ((clk_max_value - SubMin) \div ClkBase) * ClkBase

(* The callbacks registered with the guard: the alarm context is warped by  *)
(* the machine's or the drive's.                                            *)
OverflowCallbacks(sub) == alarm_context_time_warp(sub, -1)

clk_guard_prevent_overflow ==
    /\ unguarded' = 0
    /\ \/ /\ clk < clk_max_value
          /\ UNCHANGED <<contextVars, clk>>
       \/ /\ clk >= clk_max_value
          /\ clk' = Wrap(clk - clk_guard_clock_sub)
          /\ OverflowCallbacks(clk_guard_clock_sub)

\* The vsync hook of the main CPU's machine, inside the frame's callback.
VsyncHook ==
    /\ InHandler
    /\ loop.alarm = VsyncAlarm
    /\ loop.stage = "start"
    /\ loop' = [loop EXCEPT !.stage = "end"]
    /\ clk_guard_prevent_overflow

DeadlineOf(a) == pending_alarms[pending_idx[a]].clk
Overdue(a) == IsPending(a) /\ DeadlineOf(a) <= clk

(* When sprite DMA carries the clock past the end of the frame, the fetch's *)
(* callback calls the frame's handler itself, which still sets its alarm.   *)
NestedVsyncHook ==
    /\ InHandler
    /\ loop.alarm = FetchAlarm
    /\ loop.stage = "stolen"
    /\ Overdue(VsyncAlarm)
    /\ loop' = [loop EXCEPT !.stage = "drawn"]
    /\ clk_guard_prevent_overflow

NestedFrameSets ==
    /\ InHandler
    /\ loop.stage = "drawn"
    /\ alarm_set(VsyncAlarm, Wrap(DeadlineOf(VsyncAlarm) + FrameCycles))
    /\ loop' = [loop EXCEPT !.stage = "end"]
    /\ UNCHANGED <<clk, unguarded>>

----------------------------------------------------------------------------
(* A reset is taken between instructions, after the due alarms.  It winds   *)
(* the clock back and then resets the chips, each setting or unsetting its  *)
(* alarm; the raster interrupt's is set to tick 1, already overdue.  The    *)
(* alarms of the keyboard and of the other host-side parts stay as they     *)
(* were, set against the old clock.                                         *)
CpuReset ==
    /\ loop = Cpu
    /\ ~ AlarmDue
    /\ clk > ResetClk
    /\ clk' = ResetClk
    /\ unguarded' = 0
    /\ loop' = Resetting(ChipAlarm)
    /\ UNCHANGED contextVars

ChipReset(a) ==
    /\ loop.at = "reset"
    /\ a \in loop.todo
    /\ \/ a = VsyncAlarm /\ alarm_set(a, Wrap(ResetClk + FrameCycles))
       \/ a # VsyncAlarm /\ alarm_unset(a)
       \/ a # VsyncAlarm /\ \E c \in {1, ResetClk + 1} : alarm_set(a, c)
    /\ loop' = Resetting(loop.todo \ {a})
    /\ UNCHANGED <<clk, unguarded>>

ResetDone ==
    /\ loop = Resetting({})
    /\ loop' = Cpu
    /\ UNCHANGED <<contextVars, clk, unguarded>>

----------------------------------------------------------------------------
Next ==
    \/ \E n \in 1 .. MaxTick : Instruction(n)
    \/ \E a \in alarms, d \in 1 .. MaxDelta : ChipSets(a, d)
    \/ \E a \in alarms : ChipUnsets(a)
    \/ Dispatch
    \/ \E d \in 1 .. MaxDelta : HandlerSets(d)
    \/ HandlerUnsets
    \/ \E n \in 1 .. MaxTick : HandlerSteals(n)
    \/ VsyncHook
    \/ NestedVsyncHook
    \/ NestedFrameSets
    \/ CpuReset
    \/ \E a \in ChipAlarm : ChipReset(a)
    \/ ResetDone

Spec == Init /\ [][Next]_vars

(* The main loop keeps running and calls return; nothing forces chips to    *)
(* set alarms or a reset to happen.                                         *)
Fairness ==
    /\ WF_vars(\E n \in 1 .. MaxTick : Instruction(n))
    /\ WF_vars(Dispatch)
    /\ WF_vars(HandlerUnsets \/ \E d \in 1 .. MaxDelta : HandlerSets(d))
    /\ WF_vars(VsyncHook)
    /\ WF_vars(NestedFrameSets)
    /\ WF_vars(ResetDone \/ \E a \in ChipAlarm : ChipReset(a))

FairSpec == Spec /\ Fairness

----------------------------------------------------------------------------
Serving(a) == InHandler /\ loop.alarm = a

\* The types of the clock's variables and of the context's fields.
ClockTypeOK ==
    /\ ContextTypeOK
    /\ clk \in Clock
    /\ loop \in LoopState
    /\ unguarded \in Nat

(* When PROCESS_ALARMS dispatches, the slot it reads holds an alarm that is *)
(* due at the cached tick.                                                  *)
DispatchFindsAlarm ==
    loop = Cpu /\ AlarmDue =>
        /\ DispatchSlot \in Slots(num_pending_alarms)
        /\ pending_alarms[DispatchSlot].clk = next_pending_alarm_clk

(* The guard checks often enough: between two checks the clock never comes  *)
(* so near its end that an instruction or a deadline would wrap, and when   *)
(* it subtracts, no deadline (an overdue one included) wraps below zero.    *)
NothingWraps ==
    /\ clk + MaxTick + MaxDelta < ClockMax
    /\ clk >= clk_max_value =>
           \A a \in Alarm : IsPending(a) => DeadlineOf(a) >= clk_guard_clock_sub

(* The frame always ends: outside a reset the main CPU has an alarm pending *)
(* that will run the vsync hook, whatever the program writes to registers.  *)
FrameEndIsPending ==
    VsyncAlarm # NoAlarm /\ loop.at # "reset" => IsPending(VsyncAlarm)

(* Without its array, cache and counter this is a queue in which time       *)
(* passes for every alarm alike: the guard's subtraction cannot be seen.    *)
waiting == [a \in {b \in Alarm : IsPending(b)} |-> DeadlineOf(a) - clk]
served == IF InHandler THEN loop.alarm ELSE NoAlarm
Queue == INSTANCE AlarmQueue WITH wait <- waiting, serving <- served
ImplementsQueue == Queue!Spec

(* An alarm whose tick has come is serviced, unless it is moved or unset;   *)
(* and servicing alarms always ends: the CPU executes instructions for ever.*)
OverdueIsServed ==
    /\ \A a \in Alarm : Overdue(a) ~> Serving(a) \/ ~ Overdue(a)
    /\ []<>(loop = Cpu /\ ~ AlarmDue)
=============================================================================
