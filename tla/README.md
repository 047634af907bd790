# A verification project for VICE with Python scripting

The repository is VICE, the emulator of Commodore's 8-bit machines, with an
addition that lets a Python script drive it: `x64 -script test.py` loads the
script, and the script runs the machine (`run_opcodes`, `run_frames`,
`warp_frames`), looks at it and changes it (`get_a`, `set_a`, `get_mem`, …),
types on its keyboard (`put_key`, `put_raw_key`) and is called back
(`break_on`, `on_frame`, `on_write`).

This directory holds TLA+ modules of the parts of the program on which all the
rest stands and where order and time are hard to get right: the alarms and the
clock, interrupts, the CIA's timers, the pace of frames, the keyboard, the
bridge between the script and the CPU, disk drives and the bus to them, the
files they write, and the recording of histories. Paths below are relative to
`src/vice/src/`.

Check a run with `tlc -config X.cfg M.tla`, where `M` is the run's module in
`PROJECT.json` (`MCX`, or `X` itself for CpuClock, InterruptStatus, KeyInjection
and DriveSync), a proof with `tlapm XProofs.tla` (and `tlapm IecDeviceLemmas.tla`).

1. [The system](#the-system)
2. [The modules](#the-modules)
3. [The runs](#the-runs)
4. [What is proved](#what-is-proved)
5. [Where the code and its words disagree](#where-the-code-and-its-words-disagree)
6. [Known and not checked](#known-and-not-checked)
7. [Plan](#plan)
8. [Not modelled](#not-modelled)

## The system

Everything runs in one thread. The script's module calls `run_frames`; that
loops over `maincpu_mainloop(1)`, one pass of `6510core.c` with one opcode in
it. Before and within a pass the CPU *processes alarms*: callbacks of the chips
whose deadline has come. Chips set alarms, raise interrupts and trigger traps;
the video chip's alarm ends the frame and calls `vsync_do_vsync`, which sleeps
with `SDL_Delay`, which is wrapped and calls the script's `on_frame`. So what
looks sequential is deeply re-entrant: a script's callback runs in an SDL call
in a chip's callback in an interrupt entry in a pass that the script asked for.
What is not looked at is not kept up to date either: a drive with a CPU of its
own, or a timer of the CIA, is left alone until an access or an alarm needs it,
and then made to catch up with the main CPU's clock.

| component | source | its state | its operations | interacts with | what makes it correct |
|---|---|---|---|---|---|
| alarm contexts | `alarm.c`, `alarm.h` | array of pending alarms, index of each alarm in it, cached next tick and slot | new, set, unset, destroy, warp, dispatch | every chip sets and unsets; the CPU dispatches | indices and array agree; the cached alarm is the next one |
| CPU clock and guard | `clkguard.c`, `dma.c`, `drive/drive-overflow.c`, `6510core.c` | `maincpu_clk`, limits of the guard | instruction, dispatch, stolen cycles, overflow check once a frame, reset | moves every deadline and every chip's own ticks | nothing wraps; winding back is invisible; the frame always ends |
| interrupt state | `interrupt.c`, `interrupt.h`, `6510core.c`, `maincpu.c` | lines, counters, flags, ticks, the trap slot | set and clear IRQ and NMI, trigger trap and reset, poll, enter, acknowledge | chips raise, the CPU polls, the host triggers traps | level and edge semantics; a trap is called once |
| CIA timers | `core/ciacore.c`, `core/ciatimer.c`, `core/ciatimer.h` | two timers with latch, counter and pipeline, the clock up to which each is worked out, its alarm; interrupt flags and mask | reads and stores of registers, alarms of A and B, idle alarm, overflow, reset, peek | sets alarms and the interrupt line; the monitor peeks | what is read and the line are those of a chip clocked every cycle |
| frame pacing, virtual time | `vsync.c`, `sdl_wrapper.c`, `arch/sdl/vsyncarch.c`, `arch/sdl/uipause.c` | `next_frame_start`, `ticks`, `tick_offset`, `frameDelay`, `frameCounter` | end of frame, SDL_Delay, SDL_GetTicks, run and warp, pause | the script, the host's clock, the user | time never runs back; no sleep is owed; runs return |
| keyboard buffer feeding | `kbdbuf.c` | circular queue, flags, an alarm | feed, flush, alarm, reset | autostart feeds, the Kernal reads | what is fed is read in order and once |
| key injection, latch | `python_interface.cpp`, `keyboard.c` | `matrix`, `delay`, latched and visible matrix, an alarm | put_key, put_raw_key, onframe_python, latch handler | script, frame end, alarms, reset | the machine sees every change, shift with its key |
| script bridge | `python_interface.cpp`, `maincpu.c`, `6510core.c`, `sdl_wrapper.c` | `maincpu_regs` and the CPU's own registers, `breaks`, `store_watch_on`, nested runs | get and set, break_on, on_frame, on_write, run | all of the above | the machine goes on from where it was; sets count; breaks precede their instruction |
| drive synchronisation | `drive/drivecpu.c`, `drive/drivesync.c`, `drive/drive.c`, `drive/drive-overflow.c` | the drive's clock, `last_clk`, `stop_clk`, the fraction of a cycle, its idling method | catch up, skip, idle, both guards, resets, change of type, on and off | the bus makes it catch up, the main CPU's guard winds it back | no main cycle is lost or run twice; the drive goes on |
| IEC bus | `iecbus/iecbus.c`, `c64/c64iec.c`, `c64/c64cia2.c`, `drive/iec/iec.c` | what every port pulls, the lines that result, the last ATN | read, store, status of a unit, ports of drives | makes all drives catch up, signals ATN to them | reads are the wired AND; nobody sees the future; ATN reaches all |
| serial IEC device | `serial/serial-iec-device.c`, `serial/fsdrive.c`, `serial/serial-iec-bus.c` | state, bit, byte, flags and time-out of a device, channels | one transition at each access to the bus; open, read, write, close | the Kernal at the other end, the virtual drive behind | bytes once and in order; every operation ends |
| virtual drive | `vdrive/vdrive-iec.c`, `vdrive/vdrive-bam.c`, `vdrive/vdrive-dir.c`, `vdrive/vdrive-command.c`, `vdrive/vdrive.c` | bitmap in memory, channels with a block and a directory entry, the error | open, write, close, scratch, rename, validate, initialize | shares the image with a drive under true emulation | the image is sound, but for a kill between the writes of directory and bitmap, until it is validated; no block is lost |
| event history | `event.c`, `machine.c`, `keyboard.c` | list and current entry, modes, an alarm, two snapshots | record, stop, milestone, return, play, the alarm | records inputs and resets, is told of overflows, traps | the list is the machine's past; a replay is the recording |

`PROJECT.json` lists these and all other components of the repository, the
ones that are not modelled with the reason.

**What is hard here.** *Interleaving without threads:* callbacks in callbacks,
alarms in the middle of an interrupt entry, runs inside runs, drives that catch
up one by one inside an access. *Cached state:* the next alarm, a copy of the
interrupt flags, a copy of the registers, a record of what everybody pulled, a
bitmap of a disk that somebody else writes, too. *Time in three currencies:*
cycles that are wound back by the guard and by every reset, the host's
milliseconds, and virtual milliseconds under warp. *Lateness:* what has not
been looked at has to come out as if it had always been. *Things that must
eventually happen:* an overdue alarm, a latched NMI, the end of a frame, the
return of `run_frames`, the last character of the queue, the end of a transfer
between two parties that wait for each other's lines. *Resets and crashes:* a
reset winds the clock back while host-side alarms keep their old deadlines; an
emulator that is killed leaves an image half written. The hazards are
listed at their lines in `PROJECT.json`, each with the properties that would
catch it.

## The modules

    AlarmContext  <--- CpuClock ----refines----> AlarmQueue      (abstract)
         ^              ^    ^
         |              |    +--- DriveClock
         +--------------+--- CpuProofs
    InterruptStatus <--- CpuProofs
    CiaCycle <--- CiaTimers ----refines----> CiaChip             (abstract)
    FramePacing   <--- FramePacingProofs
    KbdBuf  ------------refines----> KeyStream                   (abstract)
         ^--- KbdBufProofs
    KeyInjection  <--- ScriptProofs
    ScriptBridge  <--- ScriptProofs
    DriveSync     <--- DriveSyncProofs
    IecBus        <--- DiskDriveProofs
    IecDevice     <--- IecDeviceLemmas <--- IecDeviceProofs
    VirtualDrive  ------refines----> FileStore                   (abstract)
                  <--- DiskDriveProofs
    EventHistory

Each `MC…` module extends a module with the values its configurations use.
CpuClock, DriveClock, InterruptStatus, KeyInjection and DriveSync need none and
are checked as they are.
Operators keep the names of the C functions they model. In every module a block
called *Faults* holds variants of operators as a plausible bug would leave them;
the model uses none of them. They show that each property can fail: with the
operator replaced by its fault, TLC finds the property violated.

Modules of one chain of calls divide the work: DriveSync has when a drive runs
and how far, IecBus has what the drives and the CPU see of each other and keeps
of DriveSync only that a drive is behind or not; CpuClock shows that frames end
and alarms are served, which KbdBuf, KeyInjection and DriveSync assume.

### AlarmContext

One variable per field of `alarm_context_t`, and `pending_idx` for the
`alarm_s` of each alarm. The array is a function on the slots in use, with the
C order of insertion, and removal that moves the last element into the hole.
`alarm_context_update_next_pending` is the scan, `alarm_context_time_warp` the
warp of the guard with wrap-around at `ClockMax`. `WarpsWhenEmpty` says whether
a context may be warped with nothing pending: a drive's may, the main CPU's not,
its frame alarm is always pending (`FrameEndIsPending` of CpuClock). The list of
contexts, which only frees them, is left out.

### CpuClock, AlarmQueue

CpuClock extends AlarmContext by the clock and the loop of `6510core.c` reduced
to time: an instruction of 1 to `MaxTick` cycles, the dispatch of due alarms, a
callback that re-arms relative to its deadline or unsets its alarm, one that
steals cycles (`dma_maincpu_steal_cycles`) and draws lines, and with them
perhaps the end of the frame, within its own callback (`vicii-fetch.c`), the
vsync hook with the overflow guard, and a reset in steps during which only some
of the chips have set their alarms again. `vsync`, `fetch` and `keyboard` are
the main CPU's alarms, `via1` and `via2` a drive's: the keyboard's stands for
the alarms that a reset does not touch. DriveClock adds the call of the guard
for a drive's clock, which comes from outside between two of its instructions.

AlarmQueue is what all this promises: a set of waiting times in which an
instruction makes time pass for all alike, a due alarm is served in order and a
reset only postpones. The refinement maps a deadline to the time left, so the
guard's subtraction must be a stutter: a forgotten deadline, a wrong amount or a
wrapped one is a step that AlarmQueue does not allow.

### InterruptStatus

Lines with the interrupts they request, the two counters, the flags, the ages of
the last IRQ and NMI, the trap slot; and the CPU as a small program of places:
`opcode`, `brk`, `poll`, `entering` (between the pushes and the choice of the
vector, where alarms run), `special` (traps), `reset`, `finish`. Chips act
wherever the code processes alarms or a register write reaches them. Ticks are
kept as ages up to the largest the code distinguishes, which is exact because
the code only compares them. Delays after BRK, CLI, SEI and taken branches are
in; cycles stolen by DMA move `irq_clk` and the clock together and are left out.

### FramePacing

`vsync_do_vsync`, the wrapped `SDL_GetTicks` and `SDL_Delay`, `run_frames`,
`warp_frames`, the pause loop and the settings a user may change. Times are
relative: `lead` is how far `next_frame_start` is ahead of the time last read,
`drift` how far the host's clock and `tick_offset` have run on since; the code
computes only differences of its times. `host` and `user` are chosen at the
beginning and stay: a host is the set of milliseconds a frame may take it, a
user the set of what is touched, so that one run answers for slow and fast hosts.

### KbdBuf, KeyStream

The queue with its head and count, the two flags, the alarm for a held RETURN
and the Kernal's buffer, with the clock in whole frames. `runCommands` is the
set of strings autostart feeds with `kbdbuf_feed_runcmd`, chosen at the
beginning. KeyStream is the promise of plain feeding: the program reads what was
fed in order and once. It is claimed for runs without held RETURNs; what these
do to the order is a finding below.

### KeyInjection

`put_key` and `put_raw_key` queue changes; every other call of `SDL_Delay`
applies one to the latched matrix; an alarm at a random cycle of the next frame
copies that to the matrix the machine sees. Whether frames are counted
(`FrameCounted`, `FrameUncounted`) is FramePacing's concern. A user may pause
and reset the machine, or not: `user` is chosen at the beginning.

### ScriptBridge

`reg` are the statics `reg_pc`, `reg_a`, … of `maincpu.c`, `maincpu_regs` the
copy that `get_*` and `set_*` work on, `stack` the calls of `python_mainloop` in
progress, each with the place its pass has reached and the opcodes left. At a
script place the script may set registers, set breaks, or push another run: the top
level, `break`, `pause`, the three places between opcodes where an alarm may call
`on_frame`, and inside an opcode. There `on_frame` may be called by the alarms of
BRK, which has exported the registers before (`6510core.c:783`, `792`), and by any
access to the VIC-II or CIA 1, which first brings the VIC-II up to date
(`vicii.c:191`); `write` is `on_write`, called before the store itself, which may in
turn be such an access. An interrupt taken while code runs from I/O memory, whose
dummy reads would be one too, is left out. Opcodes and interrupts are arbitrary: `reg'` is any value.
`MainLoop` is the loop of `SDL_main` that goes on after the script has ended.

Three history variables say what ought to be so: `machine`, the registers the
machine has; `came`, how it came to its address; and `torn`, whether a run has
begun or ended inside a pass where the copy was not what the pass goes on with.
A run inside an opcode or an interrupt entry always tears, one inside an alarm
only if the registers differ.

### CiaCycle, CiaTimers, CiaChip

CiaCycle has what does not depend on when anything is worked out: a timer as a
latch, a counter and the bits of its pipeline, one cycle of it (`ciat_table` and
the end of the loop of `ciat_update`), and the registers. CiaTimers is the code:
each timer has the clock up to which it is worked out (`clk`), the time it wants
to be woken and the deadline of its alarm; `ciat_update` leaps over whole
periods, stopped timers and latches of 1; alarms that nobody waits for are not
set (`AwaitsA`, `AwaitsB`); the guard's callback runs before or after the alarm
context is warped (`WarpsFirst`). Times are relative to the CPU's clock.
CiaChip is the promise: both timers are clocked every cycle, and the chip is
only accessed, in the last cycle of an instruction. The history variable `chip`
says what the next access would find, with the interrupt line as it is once the
due alarms are served, so that an alarm that was forgotten shows. What is read
(`did`) must be the same on both sides. A program (`Programs`) is chosen at the
beginning and stays. An instruction that modifies a register (INC, LSR, ...) reads
it, stores what it has read one cycle before the new value (`rmw_flag`) and then
the new value, which the model leaves open among the program's stores. An
access, the monitor or the guard may find underflows of both timers and serve
them in another order than that in which they came, or start a timer before its
last underflow is counted: there the code is some cycles off, see below. The
history `outOfTurn` marks just these steps, and `ImplementsChip` excepts them,
one step each. The idle alarm is dispatched after the alarms before it and is
never one of them.

### DriveSync

The drive's `clk`, `last_clk`, `stop_clk` and fraction of a cycle; the main
CPU's clock; one thread that is in the main CPU's instructions, in the drive's
loop until `stop_clk`, in a guard or in an access to the bus (`loop`). A drive
runs when somebody looks, at the end of a frame unless it skips, and when it
has to be wound back; it may trap to its idle loop. Clocks count modulo a power
of two and are compared as differences, as in the code. The user resets the
machine or the drive, changes the drive's type and switches it on and off.
`behind` and `lead` are history: the main cycles not handed over yet, and the
drive's cycles less those it owes. `tracked` is false while the drive's clock
has been moved under it, which the code does on purpose. The drive is one of
several: when the main clock is wound back, the first drive found late has all of
them run up to the old clock (`OtherLate`), those that have yet to be wound back
and those that have been (`RunForLater`, `doubled`).

### IecBus

`cpu_bus`, `drv_data`, `drv_bus`, `cpu_port`, `drv_port` and the last ATN as in
`iecbus.c`, next to what the ports really pull (`pa`, `pb`). An access of the
main CPU is a loop in which the drives catch up one by one, each storing to its
own port, and then the store or the look. Drives of a type with and without the
acknowledgement of ATN by hardware; `enable` and the bus's own idea of a
drive's type as `drive-resources.c` and `iecbus_status_set` keep them. Both
changes of ATN are signalled; a via raises its flag for the edge that bit 0 of
its PCR selects (`pcr`, cleared by a reset, stored by the drive's program in
`SelectEdge`), a cia for the fall. `came` is history, kept for the drives in
`Selecting`: the levels to which ATN has come, as the drive reads it, since its
flag was cleared. The clock line is the data line without the acknowledgement,
and left out, as are the types 2000 and 4000, whose ATN goes to CA2 of another
via.

### IecDevice

The state machine of `serial-iec-device.c`, one transition at each access to the
bus on the lines as they were before it, with its flags, time-out, bits and
bytes, and the channel of `fsdrive.c` behind it. At the other end the serial
routines of the Kernal, external and written as the accesses they make
(`Store`, waits for a line, with a time-out where the Kernal has one). Time
passes between two accesses by the amounts at which the device's time-outs and
the Kernal's can fall on either side; an NMI holds the Kernal up longer than the
device waits. Once in an operation the machine may be reset or the device
switched. A byte is the set of its bits that are one, so that a bit is sent,
received and compared without arithmetic, at any width.

### VirtualDrive, FileStore

The image (`diskBam`, `dir`, `link`, `data`), the bitmap in memory, and channels
with the block in their buffer and their copy of the directory entry. A byte
knows its file and place, so that contents can be compared. Any free block may
be taken: the search order of `vdrive-bam.c` is left open, which makes the
blocks symmetric. Closing a file allocates its last block, and if replacing,
its only one, before the directory changes; commands that close all channels
do so one after the other (`CloseNext`). Under true emulation the drive's own
program, external, saves and scratches files on the same image. An image
attached over this one empties the channels without closing them
(`AttachOver`).

Every write to the image is flushed, so the emulator may be killed between two of
them. `Kill` forgets everything but the image. `KilledInClose` comes after the
last block, or after the entry and before the bitmap; `KilledInScratch` after the
bitmap and before the entry; `KilledInValidate` after some of the files not
closed have been deleted; `KilledInDrive` after one of the two writes of the
drive's own program, whose order is its own. Where only one of directory and
bitmap has been written `torn` records it, until a validate that succeeds has
allocated all files anew; the properties promise nothing in between, because a
closed file may then be on free blocks, which the next file overwrites. The
bitmap is one write here, and the freed chain of a scratch one step.

FileStore is what the programs of the machine may rely on: a file becomes what
was written to it when it is closed, and nothing else changes it. A kill between
the writes has changed one file at most (`Tear`); then anything may happen to
the files, until a validate leaves them as it finds them (`Repair`).

### EventHistory

The list with its current entry, the modes, the alarm, the two snapshot files,
a trap and a reset that wait to be served, and a machine that a snapshot saves:
its clock, its frame's deadline and its past, the inputs it has had with the
cycle of each. The lengths of its instructions are a function of its age, so
machines of the same past do the same. A clock of 18 winds back by 12 and
restarts at 5 on a reset, so that sessions pass several overflows and resets;
reading a list inserts a timestamp for every second, as `event_playback_start`
does. `Careful` lets the user give the next command when the one before has
taken effect. A key may be latched at any cycle, also at the very instruction
after which the guard winds the clock back. If a timestamp is due there as well,
and the frame's alarm runs before the playback's, the playback sets the alarm of
the input by the unwound clock and so puts it off by all that the guard
subtracts: `overslept` is history of that, kept with the machine, and both
properties except what comes after it.

## The runs

| run | instance | states | what it shows |
|---|---|---|---|
| `main_cpu_clock` | 3 alarms, clock 0..44, frames of 3 cycles | 189 344 | nothing wraps, the cached alarm is pending, the frame always ends; refines AlarmQueue; overdue alarms are served, and the CPU executes instructions for ever |
| `interrupt_status` | 2 lines, 2 traps, resets (DMA and the monitor's flag only travel along, and are left out of the run) | 589 482 | counters and flags follow the lines, the latch of the NMI is that of one edge-sensitive input, and served, a trap in the slot is called once |
| `cia_timers` | counters of two digits of base 2; three programs: A alone, B chained to A, both, with 3 writes, modifications or resets each; instructions of 3, 4 and 6 cycles, lag up to 8 | 143 353 | refines CiaChip but for steps out of turn: values read and the interrupt line do not tell when timers are worked out |
| `frame_pacing` | frames of 2.5 ms; hosts of 0–4 ms and 0–2 ms a frame; calls of `on_frame` of 0, 1, 4 and 9 ms; nobody, or a user with warp mode, speed and pause | 903 709 | time never runs back, no sleep is owed, a warp leaves one frame uncounted or fewer than the last call in real time lasted, `run_frames` returns on a host that keeps up |
| `kbdbuf` | queue of 5, Kernal buffer of 2, 3 feeds, 2 resets, the guard at 7 frames; with and without autostart | 174 912 | refines KeyStream; the held RETURN is at the head when its alarm runs; the queue drains |
| `key_injection` | 2 keys and 2 shifts, raw keys one of each, a queue of 4, 2 resets; nobody, or a user who pauses and resets | 1 759 044 | every change is seen, keys appear with the shift asked for, nothing is stuck |
| `script_bridge` | 2 addresses, 2 values, 3 nested runs of 1–2 opcodes | 1 605 726 | the machine goes on, sets count where they should, breaks precede their instruction |
| `drive_sync` | clocks modulo 16, a drive at half or all the speed, idling by traps or skipping, others that are late in an overflow, all resets | 1 461 528 | the next catching up hands over the cycles since the last, the drive runs what they are worth, both but for the exceptions named, and it goes on |
| `iec_bus` | two drives, types none, 1541 and 1581, the program of one choosing the edge of ATN | 6 702 629 | reads are the wired AND of what all pull now; no drive runs the past with new lines; a drive's flag is up exactly if the edge it waits for came since it was cleared |
| `iec_device` | bytes of 4 bits, a name of 1 byte, a file of 3, a text of 2; an NMI, one reset or switch an operation | 1 113 105 | bytes acknowledged were taken, bytes read are the file and its end; every operation ends |
| `virtual_drive` | 3 blocks of 2 bytes, 2 directory entries, 2 names, 2 channels, 3 files of up to 3 bytes; true emulation, attaching over, kills between any two writes | 1 510 461 (with symmetry) | the image is sound, no block is lost, refines FileStore, all but from a kill between the writes of directory and bitmap to a validate that succeeds |
| `event_history` | sessions of 5 commands, 2 inputs, all four start modes, overflow each 12 cycles | 9 108 937 | the list is what happened, a replay does the same at the same times until it puts off an input of the instruction of an overflow |

**Further configurations**, not in `PROJECT.json`: `DriveClock.cfg` (module
DriveClock) checks that no deadline of a drive's context wraps, and passes. The
others state what the code or its documents say and TLC finds violated; they are
listed [below](#where-the-code-and-its-words-disagree). `CiaTimers.cfg` with
`NewChip = TRUE`, the CIA 6526A, passes as well. Definitions kept but in no run:
the type invariants `TypeOK` and `ContextTypeOK` where a run would spend itself
on them (they were checked while the modules were written, and are proved for
some), `IndexesAgree` and `NextIsLowerBound` of AlarmContext and `LinesReleased`
of IecDevice (proved), `DisplayRefreshes` and `WarpFramesReturn` of FramePacing.

**Why the bounds are enough.** Every bound is small but above the number at
which the interesting case first happens: the
clock passes `clk_max_value` with alarms overdue, due and ahead, several times,
at every phase of the frame; a queue of 5 that is fed strings of 1 to 3 wraps,
fills and refuses; three nested runs give a run that returns into one that
itself returns. A counter of the CIA in base 2 borrows and reloads both digits,
and an instruction of 4 cycles skips over a whole period of a latch of 0 or 1
several times, which is where the leaps can go wrong; 3 writes are what it takes
to chain or start two timers and enable an interrupt. The view of this run leaves
out `did`, which no step reads; `ImplementsChip` still compares it in every step. A clock of 16 lets
a drive lag by less and by more than a subtraction of the guard, on both sides
of half its range. Two drives, one that has caught up and one that has not, are
what an access can find between; more only repeat the loop. Bytes of 4 bits
separate the bit counters of the two ends, and a file of 3 bytes has a first,
middle and last one. On a disk of 3 blocks with two open files each of the
allocations of a close can be the one that fails. Five commands record, set a
milestone, return, play and stop. Counters that only grow (`feeds`, `resets`,
`opens`, `stores`, `acts`) stop at a bound; ages and drifts saturate where the
code stops telling values apart (`MaxAge`, `MaxDrift` beyond `Behind` and two
frames, `MaxLead`); FramePacing keeps the ratios that matter (an eighth of a
second is more than six frames, a frame no whole number of milliseconds).
`DriveClock.cfg` and `DriveClockEmpty.cfg` switch the deadlock check off: a drive
whose clock is at its model's end with no timer running has nothing left to do.
So do `EventHistory.cfg` and `EventHistoryStopped.cfg`: a session ends when the
machine has reached `MaxAge` or the user has used up his commands.

**Fairness.** The emulator is one thread that never waits for anything but the
host's clock, so steps of the program itself are weakly fair: `CpuStep` in
InterruptStatus, the loop, the callbacks and the chips' part of a reset in
CpuClock, `Program` in FramePacing, `Machine` in DriveSync. Nothing forces a
script to call, a user to press, a chip to raise or set anything, or a reset to
happen. KbdBuf assumes that frames end (CpuClock shows it), alarms run, and the
emulated program reads its keyboard. KeyInjection assumes strong fairness of
`FrameCounted`: frames are counted again and again though not each of them is,
which FramePacing shows for warped runs and for hosts that keep up, and shows to
fail on slow hosts; a pause is an alternative in the properties. DriveSync
assumes that an access to the bus that has begun is finished, and strong
fairness of the main CPU's own time (`MainTime`): a program that looks at the
bus again and again also executes instructions, which take cycles, since each
look is one. IecDevice assumes that the Kernal goes on (`[]<>Idle \/
[]<><<Kernal>>_vars`, which is weak fairness of its steps, a look that finds
nothing new being a step): a CPU does not stop. ScriptBridge, IecBus,
VirtualDrive, EventHistory and CiaTimers have safety properties only: a break
callback that runs the machine to its own address again recurses for ever, until
Python's limit ends it, and the others move when they are called.

## What is proved

TLAPS proves, for all values of the constants under the named assumptions:

* **CpuProofs, of AlarmContext.** `ContextTypeOK`, `IndexesAgree`,
  `NextIsLowerBound`, and `NextIsPending`. The invariant `ContextInv` adds `DeadlinesAreSet`: every
  pending tick is below `ClockMax`. Without it a set alarm could have the tick
  that means *none*, the scan would leave the slot unset, and a later warp would
  make the tick reachable; `alarm_set` is only ever called with such ticks
  because of `NothingWraps`, proved below. Assumptions: `MaxPending` and
  `ClockMax` are positive.
* **CpuProofs, of CpuClock.** For the main CPU (`MainCpu`: it has a frame's alarm, so its
  context is never warped empty) `NothingWraps`, `FrameEndIsPending`,
  `NextIsPending`, that every dispatch finds an alarm, and the refinement
  `ImplementsQueue`, step by step. The argument goes round in a circle and is
  therefore one invariant, `ClockInv`: instructions start with nothing due, so no
  alarm is ever late by more than an instruction and a DMA (`LatenessBounded`);
  so neither is the end of the frame, which is set a frame ahead at most
  (`FrameInReach`); so the guard is checked, and the clock below its limit then
  (`Guarded`); so nothing wraps, and deadlines stay comparable with the clock,
  which the first step needs. `ServedIsPending` ties the callback in progress to
  its alarm. In the refinement, `waiting` is the set of alarms with the time each
  has left; the guard's subtraction and the warp of the context map to stutters
  because they move the clock and all deadlines by the same amount, none below
  zero. Assumptions: as many slots as alarms (`RoomAssumption`), an instruction is
  no longer than a frame and a frame no longer than the largest delay
  (`OrderAssumption`), a frame, a delay and three instructions fit in
  `CLKGUARD_SUB_MIN` (`FrameAssumption`; in the code by a factor of 25),
  `clk_base` is at most that, and the range of the clock has room for three times
  that (`GuardAssumption`). DriveClock's properties are model-checked.
* **CpuProofs, of InterruptStatus.** `TypeOK`, `LinesCounted`, `SlotIsPending`,
  `NmiEntryKeepsNmi` and `NmiIsEdge`, for any finite set of lines and any traps.
  `NmiIsEdge` needs the counts: a second line that becomes active is no edge
  because the counter, not the lines, is what the code looks at. The counting is about cardinalities: every
  set and clear of a line changes one member, and the guard on the old state of
  the line is what keeps the counter equal to the number of active lines.
* **FramePacingProofs.** `TypeOK`, `TimeNeverRunsBack`, `NoSleepOwed` and
  `WarpIsExact`, for any frame length, speed and set of hosts and users. All but
  the last rest on `PaceInv`: where the program may be while warped, idle or
  paused (`Places`); that a sleep is what is left of a frame, in whole
  milliseconds, until it is over (`SleepFits`); and that at a limited speed the
  next frame starts within a frame of now (`GapBounded`). `Unadjusted` says
  that at a limited speed the frame's length is not halved by an adjustment.
  `WarpIsExact` rests on `WarpCounts`: a call of `on_frame` that ends a `run_frames`
  may leave the machine late by several frames, and a warp that follows begins with
  them uncounted; but that call came before its frame was over, so what is left to
  the start of the next frame and the time of the call together make up for more
  frames than have gone uncounted (`Room`), and each uncounted frame moves the start
  on by one. Assumptions: the model's bounds on
  lead and drift exceed what the code distinguishes (`BoundAssumption`), and
  `Uint32` holds a lead in milliseconds (`TickAssumption`).
* **ScriptProofs, of KeyInjection.** `ChangePending` for any keys, pauses and resets, and
  `EveryChangeSeen` and `TypedAsAsked` for a user who does neither. The first needs to know that
  an alarm that is set never counts up to `Off`, the second that while the alarm
  is set either `delay` still skips a call, or the alarm is already so old that
  it must run before the next frame ends. For the third, `InOrder` says of the
  whole queue that `put_key` has shift down before a change exactly if that change
  presses a key typed with it, and `ShiftsAre` of the latched matrix that the shift
  keys down are that one and those held by `put_raw_key`, however these are mixed;
  with the second it follows that what is new to the machine is what one change
  asked for.
* **KbdBufProofs.** `TypeOK`, `HeldReturnAtHead` and the refinement
  `ImplementsStream`, for queues and Kernal buffers of any size and any strings.
  The lemmas are about the circular queue: what is taken from its head and what
  is left make up what it held (`RingSplit`), and a string that fits lands behind
  it, round the end of the array or not (`QueuedIsAppended`). `FlushMoves` sums a
  flush up: it moves characters and changes none, sets the alarm only when it has
  left a RETURN at the head, and does nothing while the alarm is set. The
  invariant, `BufferInv`, joins the types, `HeldReturnAtHead` — which is what
  keeps the alarm's decrement of the count from going below zero — and
  `NothingHeld`: without `kbdbuf_feed_runcmd` the alarm is never set. Each step
  then appends to `Held`, the Kernal's buffer and the queue in one, takes its
  first character, drops what the Kernal had, or leaves it. Assumptions: sizes are
  positive, and the clock's guard winds back to a frame before its limit
  (`ClockAssumption`).
* **ScriptProofs, of ScriptBridge.** `TypeOK`, `MachineGoesOn`, `BreakBeforeInstruction`,
  `BreakIsThere`, for any registers and addresses and any depth and length of
  runs. The invariant says which of the two copies of the registers is current
  at each place of the innermost pass, that all outer passes wait in callbacks,
  and that an instruction's arrival at a broken address is open only between the
  instruction and `scripting_check_traps`. The step that needs thought is the
  return of a run into the pass that called it (`OpcodeFollows`).

* **DiskDriveProofs** has the two kinds of disk drive, those that run their own
  program on the bus and the virtual one.
  *IecBus:* `ReadsAreTrue`, `StoreFindsNoneBehind` and `AtnReachesAll`, for
  any number of drives in any order. `LateAreToDo` says that a drive which is
  behind, and on the bus, is still in the list of those to run; `SwitchesAgree`
  that a drive on the bus is enabled, without which the shortcuts for one drive
  would leave out another that is late; `RecordIsTrue` which part of the record
  agrees with which port, from the port's last store on; `EdgesAreTrue` that a
  flag and `came` agree for every drive of which the bus hears, also while there
  is no true emulation. Assumptions: two or more units, none with the name of one of the two marks in `spoken`.
  *VirtualDrive:* `VdriveTypeOK`, and under `Careful` `DiskIsSound`,
  `NoBlockLost` and the refinement `ImplementsFiles`, for a disk of any finite
  number of blocks, and any number of directory slots, channels and names. While `torn` only
  `VdriveTypeOK` and `NamesInv` hold: names are not shared, and every channel's entry
  has its name in the directory; `DriveInv` and `TextsInv` hold otherwise, and a validate
  that succeeds restores them from these two. `DriveInv` has two parts. `Sound` is about files:
  every closed file's chain ends, no two share a block, and the blocks that a
  channel has linked or holds (`HeldIn`) are apart from those and from other
  channels'. `BitmapsTrue` is about bitmaps: which of them holds at least, and
  which exactly, the blocks of files and of channels, before and after a kill and
  with and without true emulation. A chain is defined by as many steps as there
  are blocks (`Walk`). That this many suffice is the one argument
  that is not a case distinction: a walk that has not ended visits
  different blocks (`WalkIsInjective`), so a chain that grows by a block from
  outside, fewer than all being in it, still ends within the count (`Extend`).
  Above that, `Grow`, `Add`, `Settle`, `Keep`, `RemoveFile` and `SaveFile` say what linking a
  block, opening, closing, changing no chain, and deleting and storing a file do to
  `Sound`; each action is one of them, or two after another: closing first
  allocates the last block and then settles the file.
  For the refinement `TextsInv` adds that names are not shared, and that every
  open file would, if it were closed now, hold what it was handed (`Told`): all
  of it, or part of it if a byte has been refused. What it would hold (`SoFar`)
  is read from its own blocks and the buffer alone; it ends with the buffer
  (`SoFarEnds`), which is why a byte in the buffer or given up with it is one
  more or fewer at the end, and linking the next block changes nothing but adds
  that block's bytes (`SoFarExtends`). That steps on one file leave the contents
  of all others alone (`FilesStay`, `TextsStay`) follows from `Sound`. Each action
  is then one of FileStore's (`StoreOpen`, `StoreWrite`, `StoreClose`, ...), a kill
  between two writes is `Tear` (`StoreTears`: what has been written belongs to one
  file), and a validate of a torn disk `Repair`.
  Assumptions: finitely many
  blocks (`BlocksAssumption`), `None` distinct from whatever it is not
  (`NoneAssumption`), and positive sizes. Without `Careful` `DiskIsSound` and
  `NoBlockLost` are false, and
  TLC shows why: two channels that append to one file share its blocks, and of
  two that replace it one's block is lost.
* **IecDeviceProofs.** `SentIsTaken`, `GotIsFile` and `LinesReleased`, for bytes of
  any width, any names, texts and files. Neither side ever sees where the other
  is, so the invariant, `TransferInv`, must say it: while the device is on, the
  Kernal is at one of fifty places and the device where it can be then (`Transfer`). A place of
  the Kernal is what is left of its routine (`FromBit`, `FromReady`, ...); next to
  it stand the levels of the lines it drives, the states the device may have got
  to, and what the two agree on: that bits below the one being sent are in the
  device's byte (`Has`), that what was acknowledged is what was taken (`Even`),
  or that the byte in hand is the next of the file and the end known to both
  (`TalksAhead`, `AtEnd`). The device takes its step on the lines as they were
  *before* the access, so that it is often one behind: each place lists the
  states from both sides of the edge. Where the pairs part, they do so in few
  ways: the device is silent or deaf (`Silent`, `Deaf`: after a reset, an error, a
  switch), it takes a Kernal that gives up for one that announces an end
  (`Slips`), or it was reset while ATN was low (`Stale`); then no byte is
  acknowledged. While the device is off, whatever
  the Kernal reads is not of the file (`Off`); `KernalInv` says of the Kernal alone
  that its routines end with all lines let go and a byte is handed over only
  where one was read. The lemmas go by the device's states — what one access
  does to it in each (`BitStays`, `BitTaken`, `Done1Goes`, ...) — and by the
  Kernal's places — which of them come next (`...Next`), each for a step of the
  Kernal; `SendingNext`, `EndingNext`, `ReadingNext` and `BetweenNext` put them
  together. IecDeviceLemmas has the places, the device's steps, the sending of a
  byte and the ends of routines, IecDeviceProofs the rest; they are two modules
  only because each takes a quarter of an hour. Assumptions: four bits or more
  in a byte, which the commands need to differ (`BitsAssumption`), times are
  positive (`TimesAssumption`), nothing sent and no file is empty
  (`BytesAssumption`), and the Kernal is the more patient of the two
  (`WaitsAssumption`): its pause of 1 ms is no shorter than the 100 us the device
  ignores after ATN and the 60 us of its answer to an end, and its 256 us for
  the first edge no shorter than the 100 us of the device's error and a few
  cycles; the NMI of the model, which takes any of its waits past its end, is no
  shorter than the longest.
* **DriveSyncProofs.** `TypeOK`, `NoCycleLost` and `InStep`, for clocks of any width,
  frames of any length and drives of any speed. `MainGuarded` bounds the main clock by what has
  passed since its guard was last checked, so that it never wraps by itself;
  `Accounted` says at each place of the thread what the difference of the two
  clocks is, also while the main clock is wound back and the drive is not, and what
  it is for a drive that was run for a later one.
  `FrameAssumption` is needed: a frame and one instruction are short of
  `CLKGUARD_SUB_MIN`, which they are by a factor of 50. For `InStep`, `Tracks` says
  that there is a number `x` of cycles by which the drive is beyond `stop_clk`,
  whatever full rounds of either clock lie between, such that `lead` is `x` less
  the fraction kept in `cycle_accum`; `x` is less than a pass, not negative
  between two catchings up, and more than minus half the clock's range during
  one, which is what makes the comparison of wrapped clocks right
  (`LooksBehind`). `PassAssumption` is needed for that: a reset and an instruction
  together are no more than half of it.

Only model-checked: everything about liveness (under fairness, out of the
prover's reach), the refinement of CiaTimers, and the properties of
EventHistory: what a list did to the machine is `SelectSeq` of it, and what
reading one makes of it a fold over its entries, of which only induction over
the data says anything.
CiaCycle, CiaTimers and CiaChip declare RECURSIVE operators, with which the
prover loses its arithmetic; the others are written without. The array scan and
the cardinalities are proved from their definitions; nothing is assumed beyond
the named assumptions.

## Where the code and its words disagree

What a comment, a document or a name says and TLC finds violated. Each has a
configuration that gives the counterexample.

* **`alarm.c:96`** (`DriveClockEmpty.cfg`, DriveClock, `DispatchFindsAlarm`) —
  warping a context with nothing pending moves the cached tick away from
  `CLOCK_MAX`; a drive with all VIA timers stopped reaches it and
  `PROCESS_ALARMS` dispatches slot -1.
* **`python_interface.cpp:318`** (`FramePacingSlow.cfg`, MCFramePacing,
  `RunFramesReturn`) — `run_frames` counts calls of `SDL_Delay`, which a host
  slower than the machine never makes: it does not return.
* **`sdl_wrapper.c:439`** (`FramePacingSleep.cfg`, `SleepsWithinFrame`) — `ms -= …`
  is unsigned: if `on_frame` takes longer than the sleep that called it, the host
  is asked to sleep for 49 days.
* **`kbdbuf.c:212`** (`KbdBufHead.cfg`, MCKbdBuf, `HeadFollowsReturn`) — the alarm of
  a held RETURN lowers `num_pending` but leaves `head_idx`: the RETURN is injected
  twice and the last character lost.
* **`drive/drivecpu.c:409`** (`DriveStops.cfg`, DriveSync, `StopsAtStopClk`) — the
  drive's own guard winds back its clock and not `stop_clk`, against the comments
  at lines 368 and 405: the drive then stands still, or runs on, by what was
  subtracted, for about two seconds every 71 minutes. `InStep` and
  `DriveGoesOn` show that it comes back.
* **`drive/drive-resources.c:210`** (`IecBusTypes.cfg`, MCIecBus, `EnabledIsOnBus`) —
  the bus hears of a drive's type only while true emulation is on, so that after
  a change with it off an enabled drive may not be on the bus, against the table
  in `iecbus.c:439`.
* **`event.c:767`** (`EventHistoryStopped.cfg`, MCEventHistory, `StoppedIsSilent`) —
  `event_reset_ack` looks only at the current entry of the list: when a playback
  was stopped before an entry for a reset, the next reset of the machine moves on
  and sets the alarm, and the rest is played. `vice/doc/vice.texi:16207`: "The playback
  stops when the end of the session is reached or if 'Snapshot//Select History
  directory' is selected again."
* **`clkguard.c:81`** (`CiaTimersDrive.cfg`, MCCiaTimers, `ImplementsChip`) — "Order
  is supposed not to matter at all for this purpose": for a drive the alarm
  context is warped before its CIA's callback runs, which then sets the next
  alarm, if one is overdue, by the unwound clock; that timer's alarm is lost for
  a whole round of the clock. The main CPU's order is the other and is sound.

## Known and not checked

Differences met while modelling that no document contradicts, or that lie
outside the models.

Interrupts, keyboard and script:

* The slot for traps holds one: a second trigger replaces the first
  (`interrupt.c:321`). `SlotIsPending` is about the last one.
* The alarm of a held RETURN overwrites a Kernal buffer that has been filled
  since (`kbdbuf.c:210`), and a reset while it is pending stops the feeding until
  the old deadline (`kbdbuf.c:310`), though not for good.
* A run inside `on_write` executes the instruction of the store again, from its
  start: registers were exported before it. A run inside an `on_frame` that was
  called in an interrupt entry goes on before the entry: an IRQ is entered
  again, an NMI, already acknowledged, is lost. One inside an `on_frame` called in
  an opcode executes that opcode again after BRK's alarms, and the one that the copy
  of the last pass points to otherwise. `MachineGoesOn` excludes all of them by
  `torn`.
* Registers set inside `on_write`, or inside `on_frame` called by an alarm, between
  opcodes or in one, are overwritten by the next export. `test.py` has, commented out with "Does not
  work?", a break callback that sets SP and PC; `MachineGoesOn` says that these
  sets do reach the CPU. What does not work there is the arithmetic: the return
  address is above SP, at `0x101 + sp`, not at `0x100 + sp - 2`.
* A break at the first address of an interrupt handler is not announced, since
  the entry and the first opcode are one pass; neither is one reached by
  `set_pc`, a trap or a reset; and none is once the script has ended.
* While the machine is paused, `SDL_Delay` goes on to apply key changes that the
  machine never sees (`uipause.c:51`).
* Releasing any key also releases both shift keys (`keyboard.c:617`): a shift
  held with `put_raw_key` applies to the next key of `put_key` as well, and is lost
  with its release. `TypedAsAsked` says so: what appears is `asked` and `held`.
* The README at the top documents `put_raw_key(col, row, pressed)`; the code takes
  the row first. `attach_disk` returns -1 when it has succeeded
  (`python_interface.cpp:296`). Nothing fills the queue `keys`.
* With VICE's own warp mode, or without a speed limit, frames are never counted,
  and neither `run_frames` nor `warp_frames` returns until that is switched off;
  FramePacing allows for it as `HeldUp`.
* `do_store_watch` gets addresses of indexed stores before they are cut to 16
  bits (`maincpu.c:113`).

CIA:

* An access, the monitor and the overflow guard serve the underflows of timer A
  before those of B, or B's alone, whichever came first, and both then request
  the interrupt of either: flag and line may be some cycles off. The flip-flops
  `tat` and `tbt` are set by a start before pending underflows are counted: wrong
  if a timer is started again within two cycles of its stop. `outOfTurn` is true
  of these steps, and without that exception TLC finds `ImplementsChip` violated
  by a read, by the monitor and by the guard.
* `get_mem` of the script reads the CIA's registers between instructions, as the
  CPU would, and so acknowledges interrupts; CiaTimers has the CPU's reads and the
  monitor's looks only.
* A timer B that is stopped in the cycle in which A underflows keeps the step
  for ever ("warp stopped", `ciatimer.h:302`) and counts one too many when it is
  started again. CiaChip does the same (`Clocked`).
* The comment of `ciacore_peek`, that an update is a projector, holds:
  `ImplementsChip` has the monitor look at any time.

Drives and bus:

* An overflow with a skipping drive compares with a main clock that is
  decremented already: a drive that is not late then looks as if it were, and may
  be given `sub` cycles again; `drive_cpu_execute_all(maincpu_clk + sub)` for one
  late drive runs one before it, already rewound, by `sub` once more, and hands it
  nothing at its next catching up (`RunForLater`; `NoCycleLost` excepts it by
  `doubled` until then);
  `drivecpu_trigger_reset` sets the clock and leaves `stop_clk`; a drive that
  skips with a small clock and gets more than half a clock's range at once does
  not run. `tracked` is false after any of these.
* While drives catch up one after another the first sees lines that the second
  has not yet set. Ports are stale after true emulation was off.
* A drive's DOS keeps a bitmap of its own; VirtualDrive lets it always read the
  disk's.

Serial device:

* When an NMI delays the Kernal's acknowledgement by more than a millisecond the
  device goes to `P_FRAMEERR`; the Kernal then waits for CLOCK, the device for
  DATA, for ever: `OperationsEnd` excepts it (`held`). The comment
  "we can retry to send the byte" (`serial-iec-device.c:841`) is followed by the
  next byte.
* `fsdrive_reset` and switching the device off leave `SerialPtr`: what is left of
  a name begins the next one. The overflow callback wraps a time-out that is
  older than what is subtracted. UNLISTEN to a device that talks leaves DATA held
  until the next ATN.

Virtual drive (`Careful` excludes the first two):

* Scratching a file while it is being replaced frees the new chain; a second
  writer to a file shares its blocks.
* Switching true emulation with a file open forgets its blocks, and a later
  detach writes an old bitmap over the drive's.
* Replacing a file on a full disk loses the old and the new one, and appending
  the old last block; FileStore allows it because an error is reported. It is
  reported over the error channel only: `vdrive_iec_close` returns `SERIAL_OK`.
* "Set an error only once per command" (`vdrive-command.c:1046`): `last_code` is
  static, shared by all drives and not cleared by a new command, so that an
  unread `FILES SCRATCHED` hides a full disk; `I` overwrites the error of a file
  it closed.
* Killed between the entry of a closed file (`vdrive-iec.c:615`) and the bitmap
  (624), the file is on blocks that the bitmap calls free, and a replaced one's
  are in use; killed between the bitmap of a scratch (`vdrive-dir.c:193`) and the
  entry (197), the file is still there, on free blocks. The next file written
  overwrites it, unless the disk is validated first.
* Attaching an image over an attached one sets the channels up before the old
  image is detached (`attach.c:581`, "FIXME: Is this clever?"): files that are
  open are lost.
* A file closed with nothing written reads back as 254 bytes. A validate that
  fails has deleted the unclosed files already. A reset of the machine does not
  close channels. Closing the command channel does not either, against
  `vdrive.c:163` (`vdrive-iec.c:662` has it commented out). Renaming with a type
  clears the bit of a closed file. `write_bam` compares an image format with 8050,
  and writes more than it need.

Histories (`Careful` excludes the second, `overslept` excepts the first):

* An input latched at the instruction of an overflow, with a timestamp due there
  too, replays a whole subtraction of the guard late: the guard's frame first,
  then `next_alarm_set` (`event.c:340`), for which 19 is not behind 7. Without the
  exception TLC finds `ReplayedIsRecorded` violated.

* An input between a reset's trigger and the reset replays at the old clock; two
  resets before one happens are recorded as two; a second trap replaces a first,
  so that a stop is lost; recording into another mode during a playback leaves
  both active; returning to a milestone not set in this history loads an old
  `end.vsf` with a new `start.vsf`.
* The `end.vsf` of a milestone has its `LIST_END` at clock 0: its playback may not
  stop. Resets by JAM are not recorded. `put_key` and `put_raw_key` are not
  blocked while a history plays, though "During playback any user interaction is
  disabled" (`vice/doc/vice.texi`). Failures to write a snapshot are not modelled.
* `GuardAssumption` of EventHistory, that a second is less than what
  `next_alarm_set` can tell from an overflow, fails for VIC-20 PAL (1 108 405
  cycles), Plus/4 (1 773 447) and CBM-II (2 000 000) against `CLKGUARD_SUB_MIN`
  0xfffff.

## Plan

What is left, by how much of the program leans on it:

1. **Proofs that are missing**: `RecordedIsPast` and `ReplayedIsRecorded` for
   EventHistory, which need the lists written without folds first.
2. **Datasette, autostart** (`datasette.c`, `autostart.c`): modes advanced once a
   frame, with traps, warp mode and the keyboard buffer; composes with KbdBuf.
3. **CIA's serial register and time of day clock; VIA timers**, by the same
   method.
4. **Network play** (`network.c`): the exchange of frames between two machines, on
   top of EventHistory's list.
5. **Flash and EEPROM** (`core/flash040core.c`, `core/ser-eeprom.c`): command
   machines with an alarm for erasing.
6. **Monitor checkpoints, fliplist, resources**: lists with callbacks.
7. **Composition**: FramePacing with KeyInjection's calls, so that strong
   fairness of `FrameCounted` becomes a theorem of the model instead of an
   assumption; DriveSync with IecBus.

## Not modelled

The instruction set, the memory maps and cartridges, the chips as register
machines (but for the CIA's timers), sound and video rendering, disk and tape
formats, snapshots, the monitor's parser, the user interfaces and all host
drivers: sequential data processing, pure I/O or tables, with no order of events
that a model checker would explore. Most of the repository's lines are these,
ports to other hosts, and vendored libraries. The other CPUs and machines of
VICE share `alarm.c`, `interrupt.c` and the structure of `6510core.c`.
`PROJECT.json` names them with their sources. Memory accesses of scripts, Python
exceptions in callbacks and reference counts are outside ScriptBridge; the fast
cables and the drives of other machines outside IecBus; relative files, copying
and partitions, and kills between the parts of a bitmap, outside VirtualDrive.
