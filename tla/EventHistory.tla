---------------------------- MODULE EventHistory ----------------------------
(****************************************************************************)
(* Event histories (event.c): what the user does to the machine is recorded *)
(* with the clock at which the machine noticed it, and played back by an    *)
(* alarm at the same clock.  The clock is no position in the history: the   *)
(* overflow guard winds it back and a reset restarts it, so the list has    *)
(* entries for both, and reading a list inserts one for every second, which *)
(* keeps the next entry near enough for next_alarm_set to tell whether an   *)
(* overflow lies between.                                                   *)
(*                                                                          *)
(* The machine is what a snapshot saves: its clock, the deadline of its     *)
(* frame's alarm, and its past, the inputs it has had since the history     *)
(* began, each with the machine's age, the cycles run since then.  It       *)
(* computes nothing but the lengths of its instructions, a function of its  *)
(* age: two machines of the same past do the same.  With its history goes   *)
(* whether a playback has put an input off (`overslept').                   *)
(*                                                                          *)
(* Left out: the seconds on display and the alarm that counts them while    *)
(* recording, attached images, failures to write a snapshot.                *)
(****************************************************************************)
EXTENDS Integers, Sequences, SequencesExt, FiniteSetsExt

CONSTANTS
    None,               \* no deadline, no trap, no file
    Key, Control,       \* inputs: of keys and joysticks, latched within a frame,
                        \*   and of images and the datasette, at once
    Modes,              \* the start modes used, a subset of StartModes
    ClkMax,             \* clk_max_value of the main CPU's guard
    SubMin,             \* CLKGUARD_SUB_MIN
    FrameCycles,        \* cycles of a frame, clk_base of the guard
    CyclesPerSecond,    \* cycles between two timestamps
    ResetClk,           \* the clock after a reset
    StartClks,          \* the clocks at which a session may begin
    Lengths,            \* lengths of instructions, used in turn
    Careful,            \* is the user careful? See MayAct.
    Resets,             \* may the user reset the machine?
    MaxAge,             \* bound on the length of a history in cycles
    MaxEvents,          \* bound on the inputs and resets in a list
    MaxActs             \* bound on the user's commands

MaxLength == Max(ToSet(Lengths))
ASSUME GuardAssumption ==
    /\ ClkMax >= 3 * SubMin
    /\ CyclesPerSecond + FrameCycles + MaxLength <= SubMin

VARIABLES
    machine,            \* what a snapshot saves, see above
    place,              \* "ui" in the vsync hook, "cpu" elsewhere
    alarm,              \* the deadline of event_alarm, or None
    list, current,      \* event_list: its entries, and the index of `current'
    record_active, playback_active, playback_reset_ack,
    trap,               \* the trap triggered last, or None
    reset,              \* is a reset triggered?
    pressed,            \* the key whose latch alarm is set, or None
    start, end,         \* the files of the two snapshots, or None
    fits,               \* history: does `end' belong to `start'?
    acts                \* how many commands the user has given

vars == <<machine, place, alarm, list, current, record_active, playback_active,
          playback_reset_ack, trap, reset, pressed, start, end, fits, acts>>

StartModes == {"FILE_SAVE", "FILE_LOAD", "RESET", "PLAYBACK"}

(* An entry of the list, with its age as history; `what' is the input, or   *)
(* the start mode of the entry that begins the list.                        *)
Event(type, clk, what) ==
    [type |-> type, clk |-> clk, what |-> what, age |-> machine.age]
\* The entry at the end of a list is allocated with zeros.
ListEnd == [type |-> "LIST_END", clk |-> 0, what |-> None, age |-> -1]

Happened(what, age) == [what |-> what, age |-> age]
\* What the entries of a list did to the machine.
Effects(entries) ==
    LET real == SelectSeq(entries, LAMBDA e :
                    e.type \in {"INPUT", "RESETCPU"} \/ e.what = "RESET")
    IN [i \in DOMAIN real |-> Happened(real[i].what, real[i].age)]

Init ==
    /\ \E clk \in StartClks :
           machine = [clk |-> clk, frame |-> clk, age |-> 0, past |-> << >>,
                      overslept |-> FALSE]
    /\ place = "cpu"
    /\ alarm = None
    /\ list = << >> /\ current = 0
    /\ record_active = FALSE /\ playback_active = FALSE /\ playback_reset_ack = FALSE
    /\ trap = None /\ reset = FALSE /\ pressed = None
    /\ start = None /\ end = None /\ fits = FALSE
    /\ acts = 0
----------------------------------------------------------------------------
(* clk_guard_clock_sub, with the guard's base set to a frame.               *)
ClockSub == ((ClkMax - SubMin) \div FrameCycles) * FrameCycles
----------------------------------------------------------------------------
(* Faults that the properties below must notice; none is used by the model. *)
Deadline_AsRecorded(entry, clk) == entry.clk
Kept_WhatIsNew(entries) == Front(list)
----------------------------------------------------------------------------
(* next_alarm_set for an entry: its clock lies behind an overflow if it is  *)
(* much smaller than the machine's.                                         *)
Deadline(entry, clk) ==
    IF clk > SubMin /\ entry.clk < clk - SubMin THEN entry.clk + ClockSub
                                                ELSE entry.clk

(* event_record_in_list: the entry replaces the end, which moves.           *)
Recorded(entry) == Append([list EXCEPT ![current] = entry], ListEnd)

(* event_snapshot_write_module *)
Written(entries) == SelectSeq(entries, LAMBDA e : e.type # "TIMESTAMP")

(* event_snapshot_read_module: `next' is next_timestamp_clk, and every      *)
(* entry is preceded by the timestamps due before it.                       *)
TimestampLimit(entry) ==
    IF entry.type = "OVERFLOW" /\ entry.clk < ClkMax THEN ClkMax ELSE entry.clk
Timestamps(next, limit) ==
    LET n == IF next < limit THEN (limit - next - 1) \div CyclesPerSecond + 1 ELSE 0
    IN [i \in 1..n |-> [type |-> "TIMESTAMP", what |-> None, age |-> -1,
                        clk |-> next + (i - 1) * CyclesPerSecond]]
ReadEntry(read, entry) ==
    LET stamps == IF entry.type = "INITIAL" THEN << >>
                  ELSE Timestamps(read.next, TimestampLimit(entry))
        next == read.next + Len(stamps) * CyclesPerSecond
    IN  [entries |-> read.entries \o stamps \o <<entry>>,
         next |-> CASE entry.type = "INITIAL" /\ entry.what = "RESET" -> 0
                    [] entry.type = "INITIAL" /\ entry.what # "RESET" -> entry.clk
                    [] entry.type = "OVERFLOW" -> next - ClockSub
                    [] entry.type = "RESETCPU" -> next - entry.clk
                    [] OTHER -> next]
UpToEnd(entries) ==
    SubSeq(entries, 1, SelectInSeq(entries, LAMBDA e : e.type = "LIST_END"))
ReadList(entries) ==
    FoldLeft(ReadEntry, [entries |-> << >>, next |-> ClkMax], UpToEnd(entries)).entries

Snapshot == [machine |-> machine, list |-> Written(list)]
----------------------------------------------------------------------------
(* The machine: alarms, then traps, then a reset, then an instruction.      *)
FrameIsDue == machine.frame <= machine.clk
EventIsDue == alarm # None /\ alarm <= machine.clk
Settled == place = "cpu" /\ ~FrameIsDue /\ ~EventIsDue /\ trap = None /\ ~reset

Instruction ==
    /\ Settled
    /\ LET length == Lengths[(machine.age % Len(Lengths)) + 1] IN
       /\ machine.age + length <= MaxAge
       /\ machine' = [machine EXCEPT !.clk = @ + length, !.age = @ + length]
    /\ UNCHANGED <<place, alarm, list, current, record_active, playback_active,
                   playback_reset_ack, trap, reset, pressed, start, end, fits, acts>>

(* The alarm that ends a frame: the guard's check winds the clock back and  *)
(* warps the alarms, and clk_overflow_callback records that it has.         *)
EndFrame ==
    /\ place = "cpu" /\ FrameIsDue
    /\ EventIsDue => machine.frame <= alarm
    /\ LET sub == IF machine.clk < ClkMax THEN 0 ELSE ClockSub IN
       /\ machine' = [machine EXCEPT !.clk = @ - sub, !.frame = @ + FrameCycles - sub]
       /\ alarm' = IF alarm = None THEN None ELSE alarm - sub
       /\ IF sub > 0 /\ record_active
          THEN /\ list' = Recorded(Event("OVERFLOW", machine.clk - sub, None))
               /\ current' = current + 1
          ELSE UNCHANGED <<list, current>>
    /\ place' = "ui"
    /\ UNCHANGED <<record_active, playback_active, playback_reset_ack, trap,
                   reset, pressed, start, end, fits, acts>>

\* next_current_list, next_alarm_set
NextCurrent(clk) ==
    /\ current' = current + 1
    /\ alarm' = Deadline(list[current + 1], clk)

(* event_alarm_handler for a playback.  An entry for a reset stays current  *)
(* until the reset has happened.                                            *)
MoveOn(entry) == entry.type \notin {"LIST_END", "RESETCPU"}

(* The next entry was recorded at an instruction after which the guard has  *)
(* wound the clock back, and the alarm of this entry has run only now: the  *)
(* next one is set by the unwound clock, later than a timestamp could be.   *)
Oversleeps == list[current + 1].clk > machine.clk + CyclesPerSecond

PlayEvent ==
    /\ place = "cpu" /\ EventIsDue
    /\ FrameIsDue => alarm <= machine.frame
    /\ LET entry == list[current] IN
       /\ machine' =
            [machine EXCEPT
               !.past = IF entry.type = "INPUT"
                          THEN Append(@, Happened(entry.what, machine.age)) ELSE @,
               !.overslept = @ \/ (MoveOn(entry) /\ Oversleeps)]
       /\ reset' = (reset \/ entry.type = "RESETCPU")
       /\ playback_active' = (playback_active /\ entry.type # "LIST_END")
       /\ IF MoveOn(entry) THEN NextCurrent(machine.clk)
                          ELSE alarm' = None /\ UNCHANGED current
    /\ UNCHANGED <<place, list, record_active, playback_reset_ack, trap, pressed,
                   start, end, fits, acts>>

AwaitsReset == current > 0 /\ list[current].type = "RESETCPU"

(* cpu_reset, machine_reset and event_reset_ack: the chips set their alarms *)
(* anew, event_alarm keeps its deadline unless an entry waits for the reset.*)
Reset ==
    /\ place = "cpu" /\ ~FrameIsDue /\ ~EventIsDue /\ trap = None /\ reset
    /\ reset' = FALSE
    /\ machine' = [machine EXCEPT
                     !.clk = ResetClk, !.frame = ResetClk + FrameCycles,
                     !.past = Append(@, Happened("RESET", machine.age))]
    /\ playback_reset_ack' = FALSE
    /\ IF AwaitsReset THEN NextCurrent(ResetClk)
       ELSE /\ alarm' = IF playback_reset_ack THEN Deadline(list[current], ResetClk)
                                              ELSE alarm
            /\ UNCHANGED current
    /\ UNCHANGED <<place, list, record_active, playback_active, trap, pressed,
                   start, end, fits, acts>>
----------------------------------------------------------------------------
(* Inputs.  Only those that are recorded are of interest.                   *)
Takes(input) ==
    /\ machine' = [machine EXCEPT !.past = Append(@, Happened(input, machine.age))]
    /\ IF record_active
       THEN /\ Len(Effects(list)) < MaxEvents
            /\ list' = Recorded(Event("INPUT", machine.clk, input))
            /\ current' = current + 1
       ELSE UNCHANGED <<list, current>>
    /\ UNCHANGED <<place, alarm, record_active, playback_active,
                   playback_reset_ack, trap, reset, start, end, fits>>

(* keyboard_latch_handler and its like run within a frame.                  *)
LatchKey ==
    /\ place = "cpu" /\ pressed # None
    /\ Takes(pressed)
    /\ pressed' = None
    /\ UNCHANGED acts

(* In the vsync hook the user may act.  A careful user waits until the      *)
(* machine has reacted to what he did before.                               *)
MayAct ==
    /\ place = "ui" /\ acts < MaxActs
    /\ Careful => trap = None /\ ~reset /\ pressed = None

\* keyboard_key_pressed, joystick_set_value_or, and so on
PressKey(key) ==
    /\ MayAct /\ record_active /\ ~playback_active
    /\ pressed' = key
    /\ UNCHANGED <<machine, place, alarm, list, current, record_active,
                   playback_active, playback_reset_ack, trap, reset, start,
                   end, fits, acts>>

\* file_system_attach_disk, datasette_control, and so on
UseControl(control) ==
    /\ MayAct /\ record_active /\ ~playback_active
    /\ Takes(control)
    /\ UNCHANGED <<pressed, acts>>

(* machine_trigger_reset *)
TriggerReset ==
    /\ MayAct /\ Resets /\ ~playback_active /\ acts' = acts + 1
    /\ reset' = TRUE
    /\ IF record_active
       THEN /\ Len(Effects(list)) < MaxEvents
            /\ list' = Recorded(Event("RESETCPU", machine.clk, "RESET"))
            /\ current' = current + 1
       ELSE UNCHANGED <<list, current>>
    /\ UNCHANGED <<machine, place, alarm, record_active, playback_active,
                   playback_reset_ack, trap, pressed, start, end, fits>>

(* Bound: while nothing is recorded, played or awaited, the user's next act *)
(* follows at once.                                                         *)
LeaveUi ==
    /\ place = "ui" /\ place' = "cpu"
    /\ record_active \/ playback_active \/ alarm # None \/ trap # None \/ reset
    /\ UNCHANGED <<machine, alarm, list, current, record_active, playback_active,
                   playback_reset_ack, trap, reset, pressed, start, end, fits,
                   acts>>
----------------------------------------------------------------------------
(* Commands.  Most only trigger a trap, which replaces one that waits.      *)
Command(handler) ==
    /\ MayAct /\ acts' = acts + 1
    /\ trap' = handler
    /\ UNCHANGED <<machine, place, record_active, playback_reset_ack, reset,
                   pressed, start, end, fits>>

(* A careful user takes over a playback with the mode for that, and starts  *)
(* nothing else meanwhile.                                                  *)
event_record_start(mode) ==
    /\ ~record_active
    /\ mode = "PLAYBACK" => playback_active
    /\ Careful /\ playback_active => mode = "PLAYBACK"
    /\ Command(mode)
    /\ IF mode = "PLAYBACK" THEN playback_active' = FALSE /\ alarm' = None
                            ELSE UNCHANGED <<playback_active, alarm>>
    /\ UNCHANGED <<list, current>>

event_record_stop ==
    /\ record_active
    /\ Command("stop")
    /\ list' = Recorded(Event("LIST_END", machine.clk, None))
    /\ current' = current + 1
    /\ UNCHANGED <<alarm, playback_active>>

event_record_set_milestone ==
    /\ record_active
    /\ Command("milestone")
    /\ UNCHANGED <<alarm, list, current, playback_active>>

(* A careful user returns to a milestone of this history.                   *)
event_record_reset_milestone ==
    /\ record_active /\ ~playback_active
    /\ Careful => fits
    /\ Command("return")
    /\ UNCHANGED <<alarm, list, current, playback_active>>

event_playback_start ==
    /\ ~record_active /\ ~playback_active
    /\ Command("play")
    /\ UNCHANGED <<alarm, list, current, playback_active>>

event_playback_stop ==
    /\ playback_active
    /\ MayAct /\ acts' = acts + 1
    /\ playback_active' = FALSE /\ alarm' = None
    /\ UNCHANGED <<machine, place, list, current, record_active,
                   playback_reset_ack, trap, reset, pressed, start, end, fits>>
----------------------------------------------------------------------------
(* The traps.                                                               *)
Trap(handler) ==
    /\ place = "cpu" /\ ~FrameIsDue /\ ~EventIsDue /\ trap = handler
    /\ trap' = None
    /\ UNCHANGED <<place, pressed, acts>>

\* A history begins: the machine's age and past count from here.
Newborn == [machine EXCEPT !.age = 0, !.past = << >>, !.overslept = FALSE]
BeginList(mode) ==
    /\ list' = <<[type |-> "INITIAL", clk |-> machine.clk, what |-> mode, age |-> 0],
                 ListEnd>>
    /\ current' = 2

(* warp_end_list: the list read from a file is continued at its end.        *)
Kept(entries) == Front(ReadList(entries))
ContinueList(entries) ==
    /\ list' = Append(Kept(entries), ListEnd)
    /\ current' = Len(list')

Recording == record_active' = TRUE /\ alarm' = None

event_record_start_trap ==
    \/ /\ Trap("FILE_SAVE") /\ Recording
       /\ machine' = Newborn /\ start' = Newborn /\ fits' = FALSE
       /\ BeginList("FILE_SAVE")
       /\ UNCHANGED <<playback_active, playback_reset_ack, reset, end>>
    \/ /\ Trap("FILE_LOAD")
       /\ IF end = None
          THEN UNCHANGED <<machine, list, current, alarm, record_active>>
          ELSE /\ machine' = end.machine
               /\ ContinueList(end.list) /\ Recording
       /\ UNCHANGED <<playback_active, playback_reset_ack, reset, start, end, fits>>
    \/ /\ Trap("RESET") /\ Recording
       /\ machine' = Newborn /\ fits' = FALSE
       /\ reset' = (reset \/ ~playback_active)
       /\ BeginList("RESET")
       /\ UNCHANGED <<playback_active, playback_reset_ack, start, end>>
    \/ /\ Trap("PLAYBACK") /\ Recording
       /\ list' = Append(SubSeq(list, 1, current - 1), ListEnd)
       /\ UNCHANGED <<machine, current, playback_active, playback_reset_ack, reset,
                      start, end, fits>>

event_record_stop_trap ==
    /\ Trap("stop")
    /\ end' = Snapshot /\ fits' = TRUE
    /\ record_active' = FALSE
    /\ UNCHANGED <<machine, alarm, list, current, playback_active,
                   playback_reset_ack, reset, start>>

event_record_set_milestone_trap ==
    /\ Trap("milestone")
    /\ end' = Snapshot /\ fits' = TRUE
    /\ UNCHANGED <<machine, alarm, list, current, record_active, playback_active,
                   playback_reset_ack, reset, start>>

event_record_reset_milestone_trap ==
    /\ Trap("return")
    /\ IF end = None
       THEN record_active' = FALSE /\ UNCHANGED <<machine, alarm, list, current>>
       ELSE /\ machine' = end.machine
            /\ ContinueList(end.list) /\ Recording
    /\ UNCHANGED <<playback_active, playback_reset_ack, reset, start, end, fits>>

event_playback_start_trap ==
    /\ Trap("play")
    /\ IF end = None
       THEN UNCHANGED <<machine, alarm, list, current, playback_active,
                        playback_reset_ack, reset>>
       ELSE /\ list' = ReadList(end.list)
            /\ current' = 2
            /\ playback_active' = TRUE
            /\ IF end.list[1].what = "FILE_SAVE"
               THEN /\ machine' = start
                    /\ alarm' = Deadline(list'[2], start.clk)
                    /\ UNCHANGED <<reset, playback_reset_ack>>
               ELSE /\ machine' = Newborn
                    /\ reset' = TRUE /\ playback_reset_ack' = TRUE
                    /\ UNCHANGED alarm
    /\ UNCHANGED <<record_active, start, end, fits>>
----------------------------------------------------------------------------
Commands ==
    \/ \E mode \in Modes : event_record_start(mode)
    \/ event_record_stop \/ event_record_set_milestone
    \/ event_record_reset_milestone
    \/ event_playback_start \/ event_playback_stop
Traps ==
    \/ event_record_start_trap \/ event_record_stop_trap
    \/ event_record_set_milestone_trap \/ event_record_reset_milestone_trap
    \/ event_playback_start_trap
Inputs ==
    \/ \E key \in Key : PressKey(key)
    \/ \E control \in Control : UseControl(control)
    \/ LatchKey \/ TriggerReset

Next == Instruction \/ EndFrame \/ PlayEvent \/ Reset \/ LeaveUi
        \/ Inputs \/ Commands \/ Traps
Spec == Init /\ [][Next]_vars
----------------------------------------------------------------------------
EntryTypes == {"INITIAL", "INPUT", "RESETCPU", "OVERFLOW", "TIMESTAMP", "LIST_END"}

(* The type invariant: the clock and every deadline stay in range, and the  *)
(* list has a current entry and exactly one end, or two after a stop.       *)
TypeOK ==
    /\ machine.clk \in 0..(ClkMax + SubMin) /\ machine.age \in 0..MaxAge
    /\ machine.frame \in 0..(ClkMax + SubMin)
    /\ alarm = None \/ alarm \in 0..(ClkMax + SubMin)
    /\ \A i \in DOMAIN list : list[i].type \in EntryTypes
    /\ IF list = << >> THEN current = 0
       ELSE current \in DOMAIN list /\ Last(list).type = "LIST_END"

(* What is recorded is what has happened to the machine, each input at its  *)
(* time, and nothing else: also after a return to a milestone, when a       *)
(* history is continued, or a playback taken over that has put off none.    *)
RecordedIsPast ==
    record_active /\ Settled /\ ~ machine.overslept =>
        machine.past = Effects(list)

(* A playback does to the machine what was recorded, at the same place of   *)
(* its program, neither earlier nor later, across overflows and resets; and *)
(* it stops where the recording was stopped.  From one case on this fails:  *)
(* an input that was latched at the very instruction after which the guard  *)
(* winds the clock back, with a timestamp due there too, is put off by all  *)
(* that the guard subtracts, if the frame's alarm comes first (overslept).  *)
ReplayedIsRecorded ==
    playback_active /\ ~record_active /\ Settled /\ ~ machine.overslept =>
        /\ machine.past = SelectSeq(Effects(list), LAMBDA e : e.age <= machine.age)
        /\ Last(list).age \in {-1} \union machine.age + 1 .. MaxAge

(* A playback that has been stopped does nothing more to the machine.       *)
StoppedIsSilent ==
    [][PlayEvent => playback_active \/ UNCHANGED <<machine, reset>>]_vars
=============================================================================
