---------------------------- MODULE ScriptBridge ----------------------------
(****************************************************************************)
(* The registers of the main CPU as a script sees and sets them.            *)
(*                                                                          *)
(* 6510core.c keeps the registers in variables of its own, reg_pc, reg_a    *)
(* and so on, and get_* and set_* work on a copy, maincpu_regs.  A script   *)
(* runs the machine with run_opcodes, run_frames and warp_frames: for every *)
(* opcode python_mainloop calls maincpu_mainloop(1), which imports the      *)
(* copy, makes one pass through 6510core.c and exports the registers again, *)
(* and scripting_check_traps, which calls what break_on has registered.     *)
(* Callbacks also run inside a pass: on_frame from an alarm or from the     *)
(* trap that pauses the machine, on_write from a store.  Alarms are served  *)
(* between opcodes and inside them: BRK processes them before it chooses    *)
(* its vector, and an access to the VIC-II or to CIA 1 brings the VIC-II,   *)
(* whose alarm ends the frame, up to date.  Each callback may get and set   *)
(* registers, and run the machine itself, inside the pass that called it.   *)
(*                                                                          *)
(* Which opcode runs, which alarms are due and which interrupts are pending *)
(* is left open.  `data' stands for all registers but the program counter.  *)
(****************************************************************************)
EXTENDS Integers, Sequences

CONSTANTS
    Pc,             \* addresses of opcodes
    Data,           \* values of the other registers
    Vectors,        \* the addresses of the handlers of IRQ, NMI and reset
    Broken,         \* the addresses that the script passes to break_on
    MaxOpcodes,     \* bound on the opcodes of one run
    MaxNested       \* bound on the runs inside one another

ASSUME PcAssumption ==
    Vectors \subseteq Pc /\ Vectors # {} /\ Broken \subseteq Pc
ASSUME DataAssumption == Data # {}
ASSUME BoundAssumption == MaxOpcodes \in Nat \ {0} /\ MaxNested \in Nat \ {0}

VARIABLES
    maincpu_regs,   \* the copy of the registers that scripts work on
    reg,            \* the registers of the CPU
    stack,          \* the calls of python_mainloop in progress, the last one
                    \* running: where the pass is, and the opcodes left
    breaks,         \* the addresses with a callback
    machine,        \* history: the registers that the machine ought to have
    came,           \* history: how the machine came to its program counter
    torn            \* history: has a run begun or ended inside a pass while
                    \* the copy was not what the machine is?

vars == <<maincpu_regs, reg, stack, breaks, machine, came, torn>>

Registers == [pc : Pc, data : Data]

(* Where the machine is.  The script runs outside all passes, at "script",  *)
(* and in callbacks: PassPlaces are those inside alarms and opcodes,        *)
(* AgreedPlaces those with the registers exported, to be imported again.    *)
OpcodePlaces == {"opcode_frame", "write", "store_frame"}
PassPlaces == {"alarms_frame", "entry_frame", "late_frame"} \union OpcodePlaces
AgreedPlaces == {"script", "pause", "break"}
ScriptPlaces == PassPlaces \union AgreedPlaces
CpuPlaces == {"import", "alarms", "poll", "entry", "vector", "traps", "reset",
              "late", "fetch", "export", "check"}

\* The opcodes left of the loop that goes on when the script has ended.
Forever == -1

Init ==
    /\ maincpu_regs \in Registers
    /\ reg \in Registers
    /\ stack = << >>
    /\ breaks = {}
    /\ machine = maincpu_regs
    /\ came = "otherwise"
    /\ torn = FALSE

----------------------------------------------------------------------------
(* Faults that the properties below must notice; none is used by the model. *)
Exported_Stale == maincpu_regs
Imported_Kept == reg
BreakHere_LastOpcodeOnly ==
    stack[Len(stack)].left = 1 /\ maincpu_regs.pc \in breaks
----------------------------------------------------------------------------
Top == stack[Len(stack)]
PlaceIn(calls) == IF calls = << >> THEN "script" ELSE calls[Len(calls)].at
Place == PlaceIn(stack)
At(place) == Place = place
Goto(place) == stack' = [stack EXCEPT ![Len(stack)].at = place]

(* To begin a run inside a pass, or to return into one, tears the machine   *)
(* apart: halfway through an opcode or an interrupt entry, and elsewhere if *)
(* the copy differs from the registers that the pass goes on with.          *)
Tears(place) ==
    \/ place \in {"entry_frame"} \union OpcodePlaces
    \/ place \in PassPlaces /\ maincpu_regs # reg

----------------------------------------------------------------------------
(* What a script does.                                                      *)

\* set_a, set_x, set_y, set_pc, set_sp and set_sr.
SetRegisters ==
    /\ Place \in ScriptPlaces
    /\ maincpu_regs' \in Registers
    /\ IF Place \in AgreedPlaces
       THEN /\ machine' = maincpu_regs'
            /\ came' = IF machine'.pc = machine.pc THEN came ELSE "otherwise"
       ELSE UNCHANGED <<machine, came>>
    /\ UNCHANGED <<reg, stack, breaks, torn>>

break_on(pc) ==
    /\ Place \in ScriptPlaces
    /\ pc \notin breaks
    /\ breaks' = breaks \union {pc}
    /\ came' = IF machine.pc = pc /\ Place \notin OpcodePlaces
               THEN "otherwise" ELSE came
    /\ UNCHANGED <<maincpu_regs, reg, stack, machine, torn>>

(* run_opcodes; run_frames and warp_frames run as many opcodes as it takes. *)
python_mainloop(cycles) ==
    /\ Place \in ScriptPlaces
    /\ Len(stack) < MaxNested
    /\ stack' = Append(stack, [at |-> "import", left |-> cycles])
    /\ torn' = (torn \/ Tears(Place))
    /\ UNCHANGED <<maincpu_regs, reg, breaks, machine, came>>

\* The script's module has ended, and SDL_main runs the machine on its own.
MainLoop ==
    /\ At("script")
    /\ stack' = <<[at |-> "import", left |-> Forever]>>
    /\ UNCHANGED <<maincpu_regs, reg, breaks, machine, came, torn>>

----------------------------------------------------------------------------
(* One pass of maincpu_mainloop.                                            *)

Imported == maincpu_regs

ImportRegisters ==
    /\ At("import")
    /\ reg' = Imported
    /\ Goto("alarms")
    /\ UNCHANGED <<maincpu_regs, breaks, machine, came, torn>>

(* PROCESS_ALARMS, in one of its three places outside the opcodes.  If the  *)
(* frame ends, its alarm may call SDL_Delay, and that on_frame.             *)
ProcessAlarms(place, callback, next) ==
    /\ At(place)
    /\ \/ Goto(callback)
       \/ Goto(next)
    /\ UNCHANGED <<maincpu_regs, reg, breaks, machine, came, torn>>

FrameReturns(callback, next) ==
    /\ At(callback)
    /\ Goto(next)
    /\ UNCHANGED <<maincpu_regs, reg, breaks, machine, came, torn>>

Alarms ==
    \/ ProcessAlarms("alarms", "alarms_frame", "poll")
    \/ FrameReturns("alarms_frame", "poll")
    \/ ProcessAlarms("entry", "entry_frame", "vector")
    \/ FrameReturns("entry_frame", "vector")
    \/ ProcessAlarms("late", "late_frame", "fetch")
    \/ FrameReturns("late_frame", "fetch")

\* Nothing is pending, or something that is no interrupt to enter now.
NoEntry ==
    /\ At("poll")
    /\ Goto("fetch") \/ Goto("traps")
    /\ UNCHANGED <<maincpu_regs, reg, breaks, machine, came, torn>>

\* The CPU becomes `r' by other means than an instruction's.
Becomes(r) ==
    /\ reg' = r
    /\ machine' = r
    /\ came' = "otherwise"

\* An IRQ or NMI is entered: the pushes, and after the alarms the jump.
BeginEntry ==
    /\ At("poll")
    /\ \E d \in Data : Becomes([reg EXCEPT !.data = d])
    /\ Goto("entry")
    /\ UNCHANGED <<maincpu_regs, breaks, torn>>

FinishEntry ==
    /\ At("vector")
    /\ \E v \in Vectors : Becomes([reg EXCEPT !.pc = v])
    /\ Goto("traps")
    /\ UNCHANGED <<maincpu_regs, breaks, torn>>

(* A trap is called with the registers exported, and may change them, as    *)
(* the loading of a snapshot does; pause_trap calls on_frame.               *)
CallTrap ==
    /\ At("traps")
    /\ maincpu_regs' \in {reg} \union Registers
    /\ machine' = maincpu_regs'
    /\ came' = "otherwise"
    /\ Goto("pause")
    /\ UNCHANGED <<reg, breaks, torn>>

TrapReturns ==
    /\ At("pause")
    /\ reg' = maincpu_regs
    /\ Goto("reset")
    /\ UNCHANGED <<maincpu_regs, breaks, machine, came, torn>>

NoTrap ==
    /\ At("traps")
    /\ Goto("reset")
    /\ UNCHANGED <<maincpu_regs, reg, breaks, machine, came, torn>>

Reset ==
    /\ At("reset")
    /\ \E v \in Vectors : Becomes([reg EXCEPT !.pc = v])
    /\ Goto("late")
    /\ UNCHANGED <<maincpu_regs, breaks, torn>>

NoReset ==
    /\ At("reset")
    /\ Goto("late")
    /\ UNCHANGED <<maincpu_regs, reg, breaks, machine, came, torn>>

\* An opcode without callbacks; also a ROM trap, and a JAM.
Execute ==
    /\ At("fetch")
    /\ reg' \in Registers
    /\ machine' = reg'
    /\ came' = "instruction"
    /\ Goto("export")
    /\ UNCHANGED <<maincpu_regs, breaks, torn>>

(* The frame ends inside an opcode, halfway through what it does to the     *)
(* registers.  BRK has exported them before it changed any; the alarms that *)
(* an access to I/O serves find the copy of the last pass.                  *)
FrameInOpcode ==
    /\ At("fetch")
    /\ maincpu_regs' \in {reg, maincpu_regs}
    /\ reg' \in Registers
    /\ machine' = reg'
    /\ came' = "instruction"
    /\ Goto("opcode_frame")
    /\ UNCHANGED <<breaks, torn>>

\* The rest of the opcode, up to a watched store if it has one.
OpcodeGoesOn ==
    /\ At("opcode_frame")
    /\ reg' \in Registers
    /\ machine' = reg'
    /\ Goto("export") \/ Goto("write")
    /\ UNCHANGED <<maincpu_regs, breaks, came, torn>>

(* An opcode that stores to a watched address: the program counter is on    *)
(* the next opcode and the flags are set when STORE calls do_store_watch.   *)
BeginStore ==
    /\ At("fetch")
    /\ reg' \in {r \in Registers : r.pc # reg.pc}
    /\ machine' = reg'
    /\ came' = "instruction"
    /\ Goto("write")
    /\ UNCHANGED <<maincpu_regs, breaks, torn>>

\* The store itself, after on_write has returned, is to I/O and ends the frame.
FrameInStore ==
    /\ At("write")
    /\ Goto("store_frame")
    /\ UNCHANGED <<maincpu_regs, reg, breaks, machine, came, torn>>

\* Some undocumented opcodes still set a register after the store.
FinishStore ==
    /\ Place \in {"write", "store_frame"}
    /\ \E d \in Data : reg' = [reg EXCEPT !.data = d]
    /\ machine' = reg'
    /\ Goto("export")
    /\ UNCHANGED <<maincpu_regs, breaks, came, torn>>

Exported == reg

ExportRegisters ==
    /\ At("export")
    /\ maincpu_regs' = Exported
    /\ Goto("check")
    /\ UNCHANGED <<reg, breaks, machine, came, torn>>

----------------------------------------------------------------------------
(* Between two passes: scripting_check_traps, and the next opcode.          *)

\* Only python_mainloop looks for callbacks, not the loop of SDL_main.
BreakHere == Top.left # Forever /\ maincpu_regs.pc \in breaks

\* `cycles--' in python_mainloop, and the end of its loop.
LastOpcode(left) == left = 1
OpcodesLeft(left) == IF left = Forever THEN Forever ELSE left - 1

NextOpcode ==
    IF LastOpcode(Top.left)
    THEN LET calls == SubSeq(stack, 1, Len(stack) - 1) IN
         /\ stack' = calls
         /\ torn' = (torn \/ Tears(PlaceIn(calls)))
    ELSE /\ stack' = [stack EXCEPT ![Len(stack)] =
                        [at |-> "import", left |-> OpcodesLeft(@.left)]]
         /\ UNCHANGED torn

CallBreak ==
    /\ At("check")
    /\ BreakHere
    /\ Goto("break")
    /\ came' = "announced"
    /\ UNCHANGED <<maincpu_regs, reg, breaks, machine, torn>>

BreakReturns ==
    /\ At("break")
    /\ NextOpcode
    /\ UNCHANGED <<maincpu_regs, reg, breaks, machine, came>>

NoBreak ==
    /\ At("check")
    /\ ~ BreakHere
    /\ NextOpcode
    /\ came' = IF Top.left = Forever THEN "otherwise" ELSE came
    /\ UNCHANGED <<maincpu_regs, reg, breaks, machine>>

Script ==
    \/ SetRegisters
    \/ \E pc \in Broken : break_on(pc)
    \/ \E n \in 1..MaxOpcodes : python_mainloop(n)
    \/ MainLoop

Pass ==
    \/ ImportRegisters \/ Alarms
    \/ NoEntry \/ BeginEntry \/ FinishEntry
    \/ CallTrap \/ TrapReturns \/ NoTrap \/ Reset \/ NoReset
    \/ Execute \/ FrameInOpcode \/ OpcodeGoesOn
    \/ BeginStore \/ FrameInStore \/ FinishStore
    \/ ExportRegisters

Next == Script \/ Pass \/ CallBreak \/ BreakReturns \/ NoBreak

Spec == Init /\ [][Next]_vars

----------------------------------------------------------------------------
(* The state keeps its types, and only the last call of python_mainloop is  *)
(* anywhere else than in a callback.                                        *)
TypeOK ==
    /\ maincpu_regs \in Registers /\ reg \in Registers /\ machine \in Registers
    /\ stack \in Seq([at : (CpuPlaces \union ScriptPlaces) \ {"script"},
                      left : 1..MaxOpcodes \union {Forever}])
    /\ \A i \in 1..(Len(stack) - 1) : stack[i].at \in ScriptPlaces
    /\ breaks \subseteq Broken
    /\ came \in {"instruction", "announced", "otherwise"}
    /\ torn \in BOOLEAN

(* The machine goes on from where it was, through every run of a script:    *)
(* instructions, interrupts and traps start with the registers the last one *)
(* left, or with what the script has set since at its top level, in a       *)
(* break_on callback or while the machine is paused.  Those are also the    *)
(* registers shown there.  What a callback sets inside an alarm or an       *)
(* opcode never reaches the CPU.  None of this holds once a run inside a    *)
(* pass has torn the machine apart.                                         *)
MachineGoesOn ==
    torn \/ IF Place \in AgreedPlaces \union {"import", "check"}
            THEN maincpu_regs = machine
            ELSE reg = machine

(* While the script runs the machine, an instruction that the program has   *)
(* reached from the one before is announced first if its address is broken: *)
(* only interrupts, traps, resets and set_pc lead there unannounced.        *)
BreakBeforeInstruction ==
    [][ At("fetch") /\ ~ At("fetch")' /\ ~ torn /\ Top.left # Forever
          => (reg.pc \in breaks => came # "instruction") ]_vars

(* A callback of break_on is called with the machine at a broken address,   *)
(* at most once for every instruction, and only while a script runs it.     *)
BreakIsThere ==
    [][ At("check") /\ At("break")' /\ Len(stack') = Len(stack) /\ ~ torn
          => /\ machine.pc \in breaks
             /\ came = "instruction"
             /\ Top.left # Forever ]_vars
=============================================================================
