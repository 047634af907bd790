------------------------------ MODULE DriveSync ------------------------------
(****************************************************************************)
(* A disk drive with a CPU of its own that follows the main CPU: drivecpu.c *)
(* with the calls of drive.c, drivesync.c and the machine's vsync hook.     *)
(*                                                                          *)
(* The drive runs only when somebody looks: at an access to the bus, at the *)
(* end of a frame unless it idles by skipping, and when the main clock is   *)
(* wound back.  It then catches up: the main cycles since last_clk become   *)
(* drive cycles, and it executes until its clock reaches stop_clk.  Both    *)
(* clocks have the same width and a guard each.                             *)
(*                                                                          *)
(* The drive is one of several.  Of the others it matters which is late     *)
(* when the main clock is wound back, because then all are caught up.       *)
(****************************************************************************)
EXTENDS Integers

CONSTANTS
    Modulus,        \* clocks count modulo this power of two
    SubMin,         \* CLKGUARD_SUB_MIN
    FrameCycles,    \* cycles of a frame, the clk_base of the main guard
    MaxTick,        \* longest instruction of the main CPU
    MaxDriveTick,   \* longest instruction of the drive, at the end of a slice
    ResetClk,       \* either clock after a reset
    SkipLag,        \* 0xffffff: a drive farther behind than this ...
    SkipClk,        \* 934639: ... and with its clock beyond this skips
    Unit,           \* 65536: fractions of a drive cycle
    Factors,        \* sync_factor / clock_frequency of the machines considered
    IdlingMethods,  \* what drive_vsync_hook does with the drives considered
    DriveResets     \* may the user reset the drive alone?

VARIABLES
    maincpu_clk,
    sinceFrame,     \* main cycles since the last end of a frame
    sync_factor,    \* for a clock_frequency of 1
    idling_method,
    clock_frequency,
    enable,
    clk,            \* the drive's clock, *clk_ptr
    last_clk,
    stop_clk,
    cycle_accum,
    resetPending,   \* IK_RESET in the drive's int_status
    loop,           \* where the one thread is, see LoopState
    (* History, for the properties. *)
    behind,         \* main cycles not yet handed to the drive
    lead,           \* drive cycles executed less those owed, in 1/Unit
    tracked,        \* the clocks have not been moved under it, see InStep
    doubled         \* its last catching up was a second one to the old main clock

machineVars == <<maincpu_clk, sinceFrame, sync_factor, idling_method>>
driveVars == <<clock_frequency, enable, clk, last_clk, stop_clk, cycle_accum,
               resetPending>>
historyVars == <<behind, lead, tracked, doubled>>
syncVars == <<machineVars, driveVars, loop, historyVars>>

ClockMax == Modulus - 1
Clock == 0 .. ClockMax
clk_max_value == ClockMax - SubMin

ASSUME ModulusAssumption == Modulus \in Nat /\ SubMin \in Nat \ {0} /\ Modulus > 4 * SubMin
ASSUME UnitAssumption == Unit \in Nat \ {0} /\ Factors \subseteq Nat \ {0}
ASSUME IdlingAssumption ==
    IdlingMethods \subseteq {"NO_IDLE", "TRAP_IDLE", "SKIP_CYCLES"}
\* The main guard is checked often enough; 6 is far from where it winds back.
ASSUME FrameAssumption ==
    /\ FrameCycles \in Nat \ {0} /\ MaxTick \in Nat \ {0, 1}
    /\ FrameCycles + MaxTick <= SubMin + 2
ASSUME ResetAssumption == ResetClk \in 0 .. SubMin
\* A pass of the drive is short of what looks like the past.
ASSUME PassAssumption ==
    MaxDriveTick \in Nat \ {0} /\ ResetClk + MaxDriveTick <= Modulus \div 2

(* The main CPU runs; the drive executes up to stop_clk and then `then'     *)
(* happens at main clock `until'; an access is made; the guards are checked; *)
(* the drive has been caught up to be wound back, or has been wound back    *)
(* and will be run again for a later one.                                   *)
Then == {"main", "access", "guard", "warp"}
Main == [at |-> "main"]
Executing(until, then) == [at |-> "drive", until |-> until, then |-> then]
At(place) == [at |-> place]
LoopState ==
    {At(t) : t \in Then \union {"rewound"}}
    \union {Executing(c, t) : c \in Clock, t \in Then}

Wrap(n) == n % Modulus
\* (int)(a - b) < 0
Before(a, b) == Wrap(a - b) >= Modulus \div 2

----------------------------------------------------------------------------
(* Faults that the properties below must notice; none is used by the model. *)
CyclesOwed_Restarted(value, last) == value
Skips_AnyLag(now) == clk > SkipClk
Rewound_LateDriveToo(last, sub) == last
----------------------------------------------------------------------------
Init ==
    /\ maincpu_clk = ResetClk
    /\ sinceFrame = 0
    /\ sync_factor \in Factors
    /\ idling_method \in IdlingMethods
    /\ clock_frequency = 1
    /\ enable \in BOOLEAN
    /\ clk = 0
    /\ last_clk = ResetClk
    /\ stop_clk = 0
    /\ cycle_accum = 0
    /\ resetPending = TRUE
    /\ loop = Main
    /\ behind = 0
    /\ lead = 0
    /\ tracked = TRUE
    /\ doubled = FALSE

(* drivecpu_wake_up compares with the main clock as it is now, which during *)
(* an overflow is the one already wound back.                               *)
Skips(now) == Wrap(now - last_clk) > SkipLag /\ clk > SkipClk

CyclesOwed(value, last) == IF value > last THEN value - last ELSE 0
Remainder(total) == total % Unit

(* drivecpu_execute up to its loop.  Main cycles that a drive skips are     *)
(* given up; in an overflow a drive may skip that is not late, and is given *)
(* all that the clock was wound back by; and half the range of a clock at   *)
(* once looks like none.                                                    *)
StartExecute(now, value, then) ==
    LET last == IF Skips(now) THEN now ELSE last_clk
        factor == sync_factor * clock_frequency
        total == cycle_accum + factor * CyclesOwed(value, last)
    IN /\ stop_clk' = Wrap(stop_clk + total \div Unit)
       /\ cycle_accum' = Remainder(total)
       /\ last_clk' = last
       /\ loop' = Executing(value, then)
       /\ behind' = 0
       /\ doubled' = (then = "main")
       /\ LET kept == /\ tracked
                     /\ then # "main"
                     /\ ~ (Skips(now) /\ then = "warp")
                     /\ total \div Unit < Modulus \div 2
          IN /\ tracked' = kept
             /\ lead' = IF ~ kept THEN 0
                        ELSE IF Skips(now) THEN lead
                        ELSE lead - factor * behind
       /\ UNCHANGED <<clock_frequency, enable, clk, resetPending>>

----------------------------------------------------------------------------
(* The main CPU.                                                            *)

\* An instruction that leaves the bus alone.
MainInstruction(n) ==
    /\ loop = Main
    /\ sinceFrame < FrameCycles
    /\ maincpu_clk' = Wrap(maincpu_clk + n)
    /\ sinceFrame' = sinceFrame + n
    /\ behind' = IF enable THEN behind + n ELSE 0
    /\ UNCHANGED <<sync_factor, idling_method, driveVars, loop, lead, tracked, doubled>>

\* One that reads or writes it: the drive catches up first, when there is one.
MainAccess ==
    /\ loop = Main
    /\ IF enable
       THEN StartExecute(maincpu_clk, maincpu_clk, "access")
       ELSE loop' = At("access") /\ UNCHANGED <<driveVars, historyVars>>
    /\ UNCHANGED machineVars

\* What is read or written is the concern of IecBus.
Accessed ==
    /\ loop = At("access")
    /\ loop' = Main
    /\ UNCHANGED <<machineVars, driveVars, historyVars>>

\* drive_vsync_hook
FrameEnd ==
    /\ loop = Main
    /\ sinceFrame >= FrameCycles
    /\ sinceFrame' = sinceFrame - FrameCycles
    /\ IF enable /\ idling_method # "SKIP_CYCLES"
       THEN StartExecute(maincpu_clk, maincpu_clk, "guard")
       ELSE loop' = At("guard") /\ UNCHANGED <<driveVars, historyVars>>
    /\ UNCHANGED <<maincpu_clk, sync_factor, idling_method>>

----------------------------------------------------------------------------
(* Overflow: the main guard, then the drive's.                              *)

mainSub ==
    LET sub == clk_max_value - SubMin IN (sub \div FrameCycles) * FrameCycles
driveSub == clk_max_value - SubMin

Rewound(last, sub) == Wrap(last - sub)

(* clk_guard_prevent_overflow of the drive's guard.  The clock and whatever *)
(* registered a callback are wound back; stop_clk is not.                   *)
DriveGuard(kept) ==
    /\ clk' = IF clk < clk_max_value THEN clk ELSE clk - driveSub
    /\ tracked' = (kept /\ clk < clk_max_value)
    /\ lead' = IF tracked' THEN lead ELSE 0

(* Which other drive is the first to be found late, and so runs all of them *)
(* up to the main clock as it was: one that is looked at before this drive, *)
(* after it, or none.  It idles by skipping, or the bus has not heard of    *)
(* it, so it may be late whatever this one is.                              *)
OtherLate == {"none", "before", "after"}

\* clk_guard_prevent_overflow, and drivecpu_prevent_clk_overflow of each drive
\* up to the catching up that one may need before it can be wound back.
Guards ==
    /\ loop = At("guard")
    /\ \/ /\ maincpu_clk < clk_max_value
          /\ DriveGuard(tracked)
          /\ loop' = Main
          /\ UNCHANGED <<maincpu_clk, clock_frequency, enable, last_clk, stop_clk,
                         cycle_accum, resetPending, behind, doubled>>
       \/ /\ maincpu_clk >= clk_max_value
          /\ maincpu_clk' = maincpu_clk - mainSub
          /\ \/ /\ ~ enable
                /\ last_clk' = maincpu_clk'
                /\ DriveGuard(tracked)
                /\ loop' = Main
                /\ UNCHANGED <<clock_frequency, enable, stop_clk, cycle_accum,
                               resetPending, behind, doubled>>
             \/ /\ enable
                /\ \E late \in OtherLate :
                     IF last_clk < mainSub \/ late = "before"
                     THEN StartExecute(maincpu_clk', maincpu_clk, "warp")
                     ELSE /\ last_clk' = Rewound(last_clk, mainSub)
                          /\ DriveGuard(tracked)
                          /\ loop' = IF late = "after" THEN At("rewound") ELSE Main
                          /\ UNCHANGED <<clock_frequency, enable, stop_clk,
                                         cycle_accum, resetPending, behind, doubled>>
    /\ UNCHANGED <<sinceFrame, sync_factor, idling_method>>

\* The rest of drivecpu_prevent_clk_overflow.
WarpLate ==
    /\ loop = At("warp")
    /\ last_clk' = Rewound(last_clk, mainSub)
    /\ DriveGuard(tracked)
    /\ loop' = Main
    /\ UNCHANGED <<machineVars, clock_frequency, enable, stop_clk, cycle_accum,
                   resetPending, behind, doubled>>

\* drive_cpu_execute_all for a late drive after this one, which has been wound
\* back: all that the clock was wound back by is executed once more.
RunForLater ==
    /\ loop = At("rewound")
    /\ StartExecute(maincpu_clk, maincpu_clk + mainSub, "main")
    /\ UNCHANGED machineVars

----------------------------------------------------------------------------
(* The drive.                                                               *)

DriveRuns == loop.at = "drive" /\ Before(clk, stop_clk)

(* A pass of 6510core.c: a reset if one is pending, then an opcode, which   *)
(* may switch a 1571 to another frequency (drivesync_set_1571).             *)
DriveInstruction(n) ==
    /\ DriveRuns
    /\ LET start == IF resetPending THEN ResetClk ELSE clk
           ran == IF resetPending THEN ResetClk + n ELSE n
       IN /\ clk' = Wrap(start + n)
          /\ tracked' = (tracked /\ (resetPending => clk = 0))
          /\ lead' = IF tracked' THEN lead + Unit * ran ELSE 0
    /\ resetPending' = FALSE
    /\ clock_frequency' \in {1, 2}
    /\ UNCHANGED <<machineVars, enable, last_clk, stop_clk, cycle_accum, loop, behind,
                   doubled>>

\* drive_trap_handler: an idling drive goes ahead to its next alarm or stop_clk.
IdleTrap(next) ==
    /\ DriveRuns
    /\ idling_method = "TRAP_IDLE"
    /\ ~ resetPending
    /\ next \in clk + 1 .. stop_clk
    /\ clk' = next
    /\ lead' = IF tracked THEN lead + Unit * (next - clk) ELSE 0
    /\ UNCHANGED <<machineVars, clock_frequency, enable, last_clk, stop_clk,
                   cycle_accum, resetPending, loop, behind, tracked, doubled>>

DriveDone ==
    /\ loop.at = "drive"
    /\ ~ Before(clk, stop_clk)
    /\ last_clk' = loop.until
    /\ loop' = At(loop.then)
    /\ UNCHANGED <<machineVars, clock_frequency, enable, clk, stop_clk, cycle_accum,
                   resetPending, historyVars>>

----------------------------------------------------------------------------
(* The user.                                                                *)

InStepAgain ==
    /\ behind' = 0
    /\ lead' = - cycle_accum
    /\ tracked' = TRUE
    /\ doubled' = FALSE

\* drivecpu_reset
drivecpu_reset(now) ==
    /\ clk' = 0
    /\ last_clk' = now
    /\ stop_clk' = 0
    /\ resetPending' = TRUE
    /\ InStepAgain

\* cpu_reset of the main CPU, with drive_reset among the resets of the machine
MachineReset ==
    /\ loop = Main
    /\ maincpu_clk' = ResetClk
    /\ sinceFrame' = 0
    /\ drivecpu_reset(ResetClk)
    /\ UNCHANGED <<sync_factor, idling_method, clock_frequency, enable, cycle_accum, loop>>

drive_set_disk_drive_type ==
    /\ loop = Main
    /\ clock_frequency' \in {1, 2}
    /\ drivecpu_reset(maincpu_clk)
    /\ UNCHANGED <<machineVars, enable, cycle_accum, loop>>

\* set_drive_true_emulation: drivecpu_reset_clk, then the resync of drive_enable.
EnableDrive ==
    /\ loop = Main
    /\ ~ enable
    /\ enable' = TRUE
    /\ last_clk' = maincpu_clk
    /\ stop_clk' = clk
    /\ InStepAgain
    /\ UNCHANGED <<machineVars, clock_frequency, clk, cycle_accum, resetPending, loop>>

DisableDrive ==
    /\ loop = Main
    /\ enable
    /\ enable' = FALSE
    /\ behind' = 0
    /\ UNCHANGED <<machineVars, clock_frequency, clk, last_clk, stop_clk, cycle_accum,
                   resetPending, loop, lead, tracked, doubled>>

\* drivecpu_trigger_reset, from the menu: the drive's clock goes back, stop_clk not.
drivecpu_trigger_reset ==
    /\ loop = Main
    /\ DriveResets
    /\ resetPending' = TRUE
    /\ UNCHANGED <<machineVars, clock_frequency, enable, clk, last_clk, stop_clk,
                   cycle_accum, loop, historyVars>>

User ==
    \/ MachineReset
    \/ drive_set_disk_drive_type
    \/ EnableDrive
    \/ DisableDrive
    \/ drivecpu_trigger_reset

----------------------------------------------------------------------------
Machine ==
    \/ \E n \in 1 .. MaxTick : MainInstruction(n)
    \/ FrameEnd
    \/ Guards
    \/ WarpLate
    \/ RunForLater
    \/ \E n \in 1 .. MaxDriveTick : DriveInstruction(n)
    \/ \E next \in Clock : IdleTrap(next)
    \/ DriveDone

Access == MainAccess \/ Accessed

Next == Machine \/ Access \/ User

Spec == Init /\ [][Next]_syncVars

(* The thread never stops, and looking at the bus takes the main CPU time,  *)
(* so that its clock and its frames go on as well.                          *)
MainTime == FrameEnd \/ \E n \in 1 .. MaxTick : MainInstruction(n)

FairSpec ==
    /\ Spec
    /\ WF_syncVars(Machine)
    /\ WF_syncVars(Access)
    /\ SF_syncVars(MainTime)

----------------------------------------------------------------------------
Between == loop.at # "drive"
LongestPass == ResetClk + MaxDriveTick

\* Clocks, fractions and what the thread does are in range; behind is what the
\* next catching up will hand over, except while a guard is at work.
TypeOK ==
    /\ maincpu_clk \in Clock /\ clk \in Clock
    /\ last_clk \in Clock /\ stop_clk \in Clock
    /\ cycle_accum \in 0 .. Unit - 1
    /\ loop \in LoopState

(* The next catching up hands over the main cycles since the last one, all  *)
(* of them and no others, whichever of the two clocks has been wound back   *)
(* and however late the drive is.  Excepted, until it is next caught up, is *)
(* a drive that was wound back and then run up to the old main clock again, *)
(* because another one after it was late.                                   *)
NoCycleLost ==
    enable /\ loop = Main /\ ~ doubled => behind = Wrap(maincpu_clk - last_clk)

(* After catching up the drive has executed what the main cycles are worth: *)
(* short of it by less than a cycle, beyond it by less than an instruction. *)
(* A drive that has been wound back by its own guard, reset on its own,     *)
(* skipped in an overflow, run again in one for another drive, or given     *)
(* more than half a clock's range at once, is excepted until it is put in   *)
(* step again.                                                              *)
InStep ==
    Between /\ tracked /\ enable =>
        lead > - Unit /\ lead < Unit * LongestPass

(* Left alone, a drive that is on goes on, also after its own guard or a    *)
(* reset of its own has left its clock beyond stop_clk.                     *)
DriveGoesOn ==
    <>[](enable /\ idling_method # "SKIP_CYCLES") /\ <>[][~ User]_syncVars
        => []<><<clk' # clk>>_syncVars

\* The same without exceptions.
StopsAtStopClk ==
    Between /\ enable => Wrap(clk - stop_clk) < LongestPass
=============================================================================
