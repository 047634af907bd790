---------------------------- MODULE ScriptProofs ----------------------------
(****************************************************************************)
(* Proofs about what a script does to the machine.  ScriptBridge: for any   *)
(* registers, addresses and callbacks, runs of any length and any number of *)
(* them inside one another.  KeyInjection: no key typed by a script is      *)
(* lost, for any set of keys and any length of the queue.                   *)
(****************************************************************************)
EXTENDS ScriptBridge, KeyInjection, SequenceTheorems, TLAPS

----------------------------------------------------------------------------
(* ScriptBridge. *)

CalledPlaces == (CpuPlaces \union ScriptPlaces) \ {"script"}
Activation == [at : CalledPlaces, left : 1..MaxOpcodes \union {Forever}]

\* Only the last run of a stack is anywhere else than in a callback.
OthersWait(calls) == \A i \in 1..(Len(calls) - 1) : calls[i].at \in ScriptPlaces

StackOK == stack \in Seq(Activation) /\ OthersWait(stack)

----------------------------------------------------------------------------
(* The stack of runs.                                                       *)

\* The last run's place and rest of opcodes change, the other runs wait.
LEMMA LastReplaced ==
    ASSUME NEW calls \in Seq(Activation), calls # << >>, OthersWait(calls),
           NEW a \in Activation
    PROVE  LET next == [calls EXCEPT ![Len(calls)] = a]
           IN  /\ next \in Seq(Activation)
               /\ OthersWait(next)
               /\ PlaceIn(next) = a.at
  <1> DEFINE next == [calls EXCEPT ![Len(calls)] = a]
  <1>1. Len(calls) \in Nat \ {0} /\ Len(calls) \in DOMAIN calls
    OBVIOUS
  <1>2. /\ next \in Seq(Activation) /\ Len(next) = Len(calls)
        /\ \A i \in 1..(Len(calls) - 1) : next[i] = calls[i]
        /\ next[Len(calls)] = a
    BY <1>1
  <1>3. next # << >>
    BY <1>1, <1>2
  <1> HIDE DEF next
  <1>4. OthersWait(next) /\ PlaceIn(next) = a.at
    BY <1>1, <1>2, <1>3 DEF OthersWait, PlaceIn
  <1> QED  BY <1>2, <1>4 DEF next

\* The script's module itself runs only outside all runs.
LEMMA NoRunInProgress ==
    ASSUME StackOK, Place = "script" PROVE stack = << >>
  <1> SUFFICES ASSUME stack # << >> PROVE FALSE
    OBVIOUS
  <1>1. stack[Len(stack)] \in Activation
    BY DEF StackOK
  <1>2. stack[Len(stack)].at # "script"
    BY <1>1 DEF Activation, CalledPlaces
  <1> QED  BY <1>2 DEF Place, PlaceIn

\* A pass goes on at another place.
LEMMA GotoMoves ==
    ASSUME NEW place \in CalledPlaces, StackOK, Place # "script", Goto(place)
    PROVE  StackOK' /\ Place' = place
  <1>1. stack \in Seq(Activation) /\ OthersWait(stack) /\ stack # << >>
    BY DEF StackOK, Place, PlaceIn
  <1>2. stack[Len(stack)] \in Activation
    BY <1>1
  <1> DEFINE a == [stack[Len(stack)] EXCEPT !.at = place]
  <1>3. a \in Activation /\ a.at = place
    BY <1>2 DEF Activation
  <1>4. stack' = [stack EXCEPT ![Len(stack)] = a]
    BY DEF Goto
  <1> HIDE DEF a
  <1> QED  BY <1>1, <1>3, <1>4, LastReplaced DEF Place, StackOK

\* A run begins.
LEMMA RunBegins ==
    ASSUME NEW left \in 1..MaxOpcodes \union {Forever},
           StackOK, Place \in ScriptPlaces,
           stack' = Append(stack, [at |-> "import", left |-> left])
    PROVE  StackOK' /\ Place' = "import"
  <1> DEFINE a == [at |-> "import", left |-> left]
  <1>1. stack \in Seq(Activation) /\ OthersWait(stack)
    BY DEF StackOK
  <1>2. a \in Activation /\ a.at = "import"
    BY DEF Activation, CalledPlaces, CpuPlaces, ScriptPlaces
  <1> HIDE DEF a
  <1>3. /\ stack' \in Seq(Activation) /\ stack' # << >>
        /\ Len(stack') = Len(stack) + 1 /\ stack'[Len(stack')] = a
        /\ \A i \in 1..Len(stack) : stack'[i] = stack[i]
    BY <1>1, <1>2 DEF a
  <1>4. Place' = "import"
    BY <1>2, <1>3 DEF Place, PlaceIn
  <1>5. OthersWait(stack')
    <2> SUFFICES ASSUME NEW i \in 1..Len(stack)
                 PROVE  stack[i].at \in ScriptPlaces
      BY <1>1, <1>3 DEF OthersWait
    <2>1. CASE i = Len(stack)
      BY <1>1, <2>1 DEF Place, PlaceIn
    <2>2. CASE i # Len(stack)
      BY <1>1, <2>2 DEF OthersWait
    <2> QED  BY <2>1, <2>2
  <1> QED  BY <1>3, <1>4, <1>5 DEF StackOK

\* The next opcode of a run, or the return to the script that asked for it.
LEMMA OpcodeFollows ==
    ASSUME StackOK, torn \in BOOLEAN, Place # "script", NextOpcode
    PROVE  /\ StackOK'
           /\ torn' \in BOOLEAN
           /\ \/ Place' = "import" /\ torn' = torn
              \/ Place' \in ScriptPlaces /\ torn' = (torn \/ Tears(Place'))
  <1>1. stack \in Seq(Activation) /\ OthersWait(stack) /\ stack # << >>
    BY DEF StackOK, Place, PlaceIn
  <1>2. Top \in Activation
    BY <1>1 DEF Top
  <1>3. CASE LastOpcode(Top.left)
    <2> DEFINE calls == SubSeq(stack, 1, Len(stack) - 1)
    <2>1. stack' = calls /\ torn' = (torn \/ Tears(PlaceIn(calls)))
      BY <1>3 DEF NextOpcode
    <2>2. /\ calls \in Seq(Activation) /\ Len(calls) = Len(stack) - 1
          /\ \A i \in 1..Len(calls) : calls[i] = stack[i]
      <3> DEFINE n == Len(stack) - 1
      <3>1. n \in Nat /\ \A i \in 1..n : stack[i] \in Activation
        BY <1>1
      <3> HIDE DEF n
      <3>2. n \in Int /\ 1 \in Int
        BY <3>1
      <3>3. /\ SubSeq(stack, 1, n) \in Seq(Activation)
            /\ Len(SubSeq(stack, 1, n)) = IF 1 <= n THEN n - 1 + 1 ELSE 0
            /\ \A i \in 1..(n - 1 + 1) : SubSeq(stack, 1, n)[i] = stack[1 + i - 1]
        BY <3>1, <3>2, SubSeqProperties
      <3>4. /\ SubSeq(stack, 1, n) \in Seq(Activation)
            /\ Len(SubSeq(stack, 1, n)) = n
            /\ \A i \in 1..n : SubSeq(stack, 1, n)[i] = stack[i]
        BY <3>1, <3>3
      <3> QED  BY <3>4 DEF n
    <2> HIDE DEF calls
    <2>3. OthersWait(calls)
      BY <1>1, <2>2 DEF OthersWait
    <2>4. PlaceIn(calls) \in ScriptPlaces
      <3>1. CASE calls = << >>
        BY <3>1 DEF PlaceIn, ScriptPlaces, AgreedPlaces
      <3>2. CASE calls # << >>
        <4>1. Len(calls) \in 1..(Len(stack) - 1)
          BY <1>1, <2>2, <3>2
        <4> QED  BY <1>1, <2>2, <3>2, <4>1 DEF PlaceIn, OthersWait
      <3> QED  BY <3>1, <3>2
    <2>5. torn' \in BOOLEAN
      BY <2>1
    <2> QED  BY <2>1, <2>2, <2>3, <2>4, <2>5 DEF Place, StackOK
  <1>4. CASE ~ LastOpcode(Top.left)
    <2> DEFINE a == [at |-> "import", left |-> OpcodesLeft(Top.left)]
    <2>1. a \in Activation /\ a.at = "import"
      BY <1>2, <1>4, BoundAssumption
         DEF Activation, CalledPlaces, CpuPlaces, ScriptPlaces, LastOpcode,
             OpcodesLeft, Forever
    <2>2. stack' = [stack EXCEPT ![Len(stack)] = a] /\ torn' = torn
      BY <1>4 DEF NextOpcode, Top
    <2> HIDE DEF a
    <2> QED  BY <1>1, <2>1, <2>2, LastReplaced DEF Place, StackOK
  <1> QED  BY <1>3, <1>4

----------------------------------------------------------------------------
(* The inductive invariant: the types, MachineGoesOn, and what `came' says  *)
(* of the machine's address while it matters.                               *)

JustDone == OpcodePlaces \union {"export", "check"}

CameInv ==
    torn \/ IF Place \in JustDone
            THEN came = "instruction"
            ELSE came = "instruction" => machine.pc \notin breaks

DataOK ==
    /\ maincpu_regs \in Registers /\ reg \in Registers /\ machine \in Registers
    /\ breaks \subseteq Broken
    /\ came \in {"instruction", "announced", "otherwise"}
    /\ torn \in BOOLEAN

Inv == StackOK /\ DataOK /\ MachineGoesOn /\ CameInv

LEMMA InvImpliesTypeOK == Inv => TypeOK
  BY DEF Inv, TypeOK, StackOK, DataOK, OthersWait, Activation, CalledPlaces

LEMMA InitEstablishes == Init => Inv
  <1> SUFFICES ASSUME Init PROVE Inv
    OBVIOUS
  <1>1. StackOK
    BY DEF Init, StackOK, OthersWait
  <1>2. Place = "script"
    BY DEF Init, Place, PlaceIn
  <1> QED  BY <1>1, <1>2 DEF Init, Inv, DataOK, MachineGoesOn, CameInv, AgreedPlaces,
                         JustDone, OpcodePlaces

\* A step of the last run to another place, with what it does to the rest.
LEMMA GotoKeepsStack ==
    ASSUME Inv, NEW here \in CalledPlaces, NEW place \in CalledPlaces,
           At(here), Goto(place)
    PROVE  StackOK' /\ Place = here /\ Place' = place
  <1>1. Place = here /\ Place # "script"
    BY DEF At, CalledPlaces
  <1> QED  BY <1>1, GotoMoves DEF Inv

LEMMA ScriptPreserves ==
    ASSUME Inv, Script PROVE Inv'
  <1> USE DEF Inv, DataOK, MachineGoesOn, CameInv, JustDone, AgreedPlaces,
              PassPlaces, OpcodePlaces, ScriptPlaces
  <1>1. CASE SetRegisters
    <2>1. stack' = stack /\ Place' = Place /\ StackOK'
      BY <1>1 DEF SetRegisters, StackOK, Place
    <2> QED  BY <1>1, <2>1 DEF SetRegisters
  <1>2. CASE \E pc \in Broken : break_on(pc)
    <2>1. stack' = stack /\ Place' = Place /\ StackOK'
      BY <1>2 DEF break_on, StackOK, Place
    <2> QED  BY <1>2, <2>1 DEF break_on
  <1>3. CASE \E n \in 1..MaxOpcodes : python_mainloop(n)
    <2>1. Place' = "import" /\ StackOK'
      BY <1>3, RunBegins DEF python_mainloop
    <2> QED  BY <1>3, <2>1 DEF python_mainloop, Tears
  <1>4. CASE MainLoop
    <2>1. stack = << >>
      BY <1>4, NoRunInProgress DEF MainLoop, At
    <2>2. stack' = Append(stack, [at |-> "import", left |-> Forever])
      BY <1>4, <2>1 DEF MainLoop
    <2>3. Place' = "import" /\ StackOK'
      BY <1>4, <2>2, RunBegins DEF MainLoop, At
    <2> QED  BY <1>4, <2>3 DEF MainLoop, At
  <1> QED  BY <1>1, <1>2, <1>3, <1>4 DEF Script

\* Every place of a pass is one that a run can be at.
LEMMA PlacesOfPass ==
    /\ CpuPlaces \subseteq CalledPlaces
    /\ PassPlaces \subseteq CalledPlaces
    /\ {"pause", "break"} \subseteq CalledPlaces
  BY DEF CalledPlaces, CpuPlaces, ScriptPlaces, PassPlaces, OpcodePlaces, AgreedPlaces

LEMMA AlarmsPreserve ==
    ASSUME Inv, Alarms PROVE Inv'
  <1> USE PlacesOfPass DEF CpuPlaces, PassPlaces, OpcodePlaces
  <1>1. ASSUME NEW place \in {"alarms", "entry", "late"},
               NEW callback \in {"alarms_frame", "entry_frame", "late_frame"},
               NEW next \in {"poll", "vector", "fetch"},
               ProcessAlarms(place, callback, next)
        PROVE  Inv'
    <2>1. StackOK' /\ Place = place /\ Place' \in {callback, next}
      BY <1>1, GotoKeepsStack DEF ProcessAlarms
    <2> QED  BY <1>1, <2>1 DEF ProcessAlarms, Inv, DataOK, MachineGoesOn,
                               CameInv, JustDone, AgreedPlaces
  <1>2. ASSUME NEW callback \in {"alarms_frame", "entry_frame", "late_frame"},
               NEW next \in {"poll", "vector", "fetch"},
               FrameReturns(callback, next)
        PROVE  Inv'
    <2>1. StackOK' /\ Place = callback /\ Place' = next
      BY <1>2, GotoKeepsStack DEF FrameReturns
    <2> QED  BY <1>2, <2>1 DEF FrameReturns, Inv, DataOK, MachineGoesOn,
                               CameInv, JustDone, AgreedPlaces
  <1> QED  BY <1>1, <1>2 DEF Alarms

LEMMA PassPreserves ==
    ASSUME Inv, Pass PROVE Inv'
  <1> USE PlacesOfPass DEF CpuPlaces, PassPlaces, OpcodePlaces, AgreedPlaces, Inv, DataOK,
                           MachineGoesOn, CameInv, JustDone
  <1>1. CASE ImportRegisters
    <2>1. StackOK' /\ Place = "import" /\ Place' = "alarms"
      BY <1>1, GotoKeepsStack DEF ImportRegisters
    <2> QED  BY <1>1, <2>1 DEF ImportRegisters, Imported
  <1>2. CASE Alarms
    BY <1>2, AlarmsPreserve
  <1>3. CASE NoEntry
    <2>1. StackOK' /\ Place = "poll" /\ Place' \in {"fetch", "traps"}
      BY <1>3, GotoKeepsStack DEF NoEntry
    <2> QED  BY <1>3, <2>1 DEF NoEntry
  <1>4. CASE BeginEntry
    <2>1. StackOK' /\ Place = "poll" /\ Place' = "entry"
      BY <1>4, GotoKeepsStack DEF BeginEntry
    <2> QED  BY <1>4, <2>1 DEF BeginEntry, Becomes, Registers
  <1>5. CASE FinishEntry
    <2>1. StackOK' /\ Place = "vector" /\ Place' = "traps"
      BY <1>5, GotoKeepsStack DEF FinishEntry
    <2> QED  BY <1>5, <2>1, PcAssumption DEF FinishEntry, Becomes, Registers
  <1>6. CASE CallTrap
    <2>1. StackOK' /\ Place = "traps" /\ Place' = "pause"
      BY <1>6, GotoKeepsStack DEF CallTrap
    <2> QED  BY <1>6, <2>1 DEF CallTrap
  <1>7. CASE TrapReturns
    <2>1. StackOK' /\ Place = "pause" /\ Place' = "reset"
      BY <1>7, GotoKeepsStack DEF TrapReturns
    <2> QED  BY <1>7, <2>1 DEF TrapReturns
  <1>8. CASE NoTrap
    <2>1. StackOK' /\ Place = "traps" /\ Place' = "reset"
      BY <1>8, GotoKeepsStack DEF NoTrap
    <2> QED  BY <1>8, <2>1 DEF NoTrap
  <1>9. CASE Reset
    <2>1. StackOK' /\ Place = "reset" /\ Place' = "late"
      BY <1>9, GotoKeepsStack DEF Reset
    <2> QED  BY <1>9, <2>1, PcAssumption DEF Reset, Becomes, Registers
  <1>10. CASE NoReset
    <2>1. StackOK' /\ Place = "reset" /\ Place' = "late"
      BY <1>10, GotoKeepsStack DEF NoReset
    <2> QED  BY <1>10, <2>1 DEF NoReset
  <1>11. CASE Execute
    <2>1. StackOK' /\ Place = "fetch" /\ Place' = "export"
      BY <1>11, GotoKeepsStack DEF Execute
    <2> QED  BY <1>11, <2>1 DEF Execute
  <1>12. CASE BeginStore
    <2>1. StackOK' /\ Place = "fetch" /\ Place' = "write"
      BY <1>12, GotoKeepsStack DEF BeginStore
    <2> QED  BY <1>12, <2>1 DEF BeginStore
  <1>13. CASE FinishStore
    <2>1. StackOK' /\ Place \in {"write", "store_frame"} /\ Place' = "export"
      BY <1>13, GotoKeepsStack DEF FinishStore, At
    <2> QED  BY <1>13, <2>1 DEF FinishStore, Registers
  <1>14. CASE ExportRegisters
    <2>1. StackOK' /\ Place = "export" /\ Place' = "check"
      BY <1>14, GotoKeepsStack DEF ExportRegisters
    <2> QED  BY <1>14, <2>1 DEF ExportRegisters, Exported
  <1>15. CASE FrameInOpcode
    <2>1. StackOK' /\ Place = "fetch" /\ Place' = "opcode_frame"
      BY <1>15, GotoKeepsStack DEF FrameInOpcode
    <2> QED  BY <1>15, <2>1 DEF FrameInOpcode
  <1>16. CASE OpcodeGoesOn
    <2>1. StackOK' /\ Place = "opcode_frame" /\ Place' \in {"export", "write"}
      BY <1>16, GotoKeepsStack DEF OpcodeGoesOn
    <2> QED  BY <1>16, <2>1 DEF OpcodeGoesOn
  <1>17. CASE FrameInStore
    <2>1. StackOK' /\ Place = "write" /\ Place' = "store_frame"
      BY <1>17, GotoKeepsStack DEF FrameInStore
    <2> QED  BY <1>17, <2>1 DEF FrameInStore
  <1> QED  BY <1>1, <1>2, <1>3, <1>4, <1>5, <1>6, <1>7, <1>8, <1>9, <1>10,
              <1>11, <1>12, <1>13, <1>14, <1>15, <1>16, <1>17 DEF Pass

LEMMA BetweenPassesPreserve ==
    ASSUME Inv, CallBreak \/ BreakReturns \/ NoBreak PROVE Inv'
  <1> USE DEF Inv, DataOK, MachineGoesOn, CameInv, JustDone, AgreedPlaces,
              PassPlaces, OpcodePlaces, ScriptPlaces
  <1>1. CASE CallBreak
    <2>1. StackOK' /\ Place = "check" /\ Place' = "break"
      BY <1>1, GotoKeepsStack, PlacesOfPass DEF CallBreak, CpuPlaces
    <2> QED  BY <1>1, <2>1 DEF CallBreak
  <1>2. CASE BreakReturns
    <2>1. Place = "break" /\ StackOK' /\ torn' \in BOOLEAN
      BY <1>2, OpcodeFollows DEF BreakReturns, At
    <2>2. \/ Place' = "import" /\ torn' = torn
          \/ Place' \in ScriptPlaces /\ torn' = (torn \/ Tears(Place'))
      BY <1>2, <2>1, OpcodeFollows DEF BreakReturns
    <2> QED  BY <1>2, <2>1, <2>2 DEF BreakReturns, Tears
  <1>3. CASE NoBreak
    <2>1. Place = "check" /\ StackOK' /\ torn' \in BOOLEAN
      BY <1>3, OpcodeFollows DEF NoBreak, At
    <2>2. \/ Place' = "import" /\ torn' = torn
          \/ Place' \in ScriptPlaces /\ torn' = (torn \/ Tears(Place'))
      BY <1>3, <2>1, OpcodeFollows DEF NoBreak
    <2> QED  BY <1>3, <2>1, <2>2 DEF NoBreak, BreakHere, Tears
  <1> QED  BY <1>1, <1>2, <1>3

LEMMA NextPreserves == Inv /\ [Next]_vars => Inv'
  <1> SUFFICES ASSUME Inv, [Next]_vars PROVE Inv'
    OBVIOUS
  <1>1. CASE UNCHANGED vars
    BY <1>1 DEF vars, Inv, StackOK, DataOK, MachineGoesOn, CameInv, Place
  <1>2. CASE Next
    BY <1>2, ScriptPreserves, PassPreserves, BetweenPassesPreserve DEF Next
  <1> QED  BY <1>1, <1>2

----------------------------------------------------------------------------
(* The theorems.                                                            *)

LEMMA InvAlways == Spec => []Inv
  BY InitEstablishes, NextPreserves, PTL DEF Spec

(* The registers, the stack of runs and the callbacks stay in their types,  *)
(* and all runs but the last wait for a callback.                           *)
THEOREM TypesHold == Spec => []TypeOK
  BY InvAlways, InvImpliesTypeOK, PTL

(* Until a run inside a pass tears it apart, the machine goes on with the   *)
(* registers it had, and with what the script has set where it may.         *)
THEOREM MachineAlwaysGoesOn == Spec => []MachineGoesOn
  <1>1. Inv => MachineGoesOn
    BY DEF Inv
  <1> QED  BY <1>1, InvAlways, PTL

(* An instruction that the program has reached from the one before does not *)
(* run before the callback of its address.                                  *)
THEOREM BreakAlwaysBeforeInstruction == Spec => BreakBeforeInstruction
  <1>1. Inv /\ At("fetch") /\ ~ torn /\ reg.pc \in breaks
          => came # "instruction"
    BY DEF Inv, MachineGoesOn, CameInv, JustDone, OpcodePlaces, AgreedPlaces, At
  <1> QED  BY <1>1, InvAlways, PTL DEF BreakBeforeInstruction

\* Only CallBreak enters a callback of break_on.
LEMMA BreakEntered ==
    ASSUME Inv, [Next]_vars, At("check"), At("break")',
           Len(stack') = Len(stack)
    PROVE  CallBreak
  <1>1. Place = "check" /\ Place' = "break"
    BY DEF At
  <1>2. ~ UNCHANGED vars
    BY <1>1 DEF vars, Place
  <1>3. ~ Script
    BY <1>1 DEF Script, SetRegisters, break_on, python_mainloop, MainLoop, At,
                ScriptPlaces, PassPlaces, OpcodePlaces, AgreedPlaces
  <1>4. ~ Alarms
    BY <1>1 DEF Alarms, ProcessAlarms, FrameReturns, At
  <1>5. ~ Pass
    BY <1>1, <1>4
       DEF Pass, ImportRegisters, NoEntry, BeginEntry, FinishEntry, CallTrap,
           TrapReturns, NoTrap, Reset, NoReset, Execute, FrameInOpcode,
           OpcodeGoesOn, BeginStore, FrameInStore, FinishStore,
           ExportRegisters, At
  <1>6. ~ NextOpcode
    <2> SUFFICES ASSUME NextOpcode PROVE FALSE
      OBVIOUS
    <2>1. stack # << >> /\ Len(stack) \in Nat \ {0}
      BY <1>1 DEF Inv, StackOK, Place, PlaceIn
    <2>2. CASE LastOpcode(Top.left)
      <3>1. stack' = SubSeq(stack, 1, Len(stack) - 1)
        BY <2>2 DEF NextOpcode
      <3>2. Len(stack') = Len(stack) - 1
        BY <2>1, <3>1
      <3> QED  BY <2>1, <3>2
    <2>3. CASE ~ LastOpcode(Top.left)
      <3> DEFINE a == [at |-> "import", left |-> OpcodesLeft(Top.left)]
      <3>1. stack' = [stack EXCEPT ![Len(stack)] = a]
        BY <2>3 DEF NextOpcode, Top
      <3>2. stack' # << >> /\ stack'[Len(stack')] = a /\ a.at = "import"
        BY <2>1, <3>1 DEF Inv, StackOK
      <3> QED  BY <1>1, <3>2 DEF Place, PlaceIn
    <2> QED  BY <2>2, <2>3
  <1> QED  BY <1>2, <1>3, <1>5, <1>6 DEF Next, BreakReturns, NoBreak

(* A callback of break_on finds the machine at its address, and is called   *)
(* once for every instruction that leads there.                             *)
THEOREM BreakAlwaysThere == Spec => BreakIsThere
  <1> DEFINE Called == /\ At("check") /\ At("break")'
                       /\ Len(stack') = Len(stack) /\ ~ torn
             There == /\ machine.pc \in breaks
                      /\ came = "instruction"
                      /\ Top.left # Forever
  <1>1. ASSUME Inv, [Next]_vars, Called PROVE There
    <2>1. CallBreak
      BY <1>1, BreakEntered
    <2> QED  BY <1>1, <2>1 DEF CallBreak, BreakHere, Inv, MachineGoesOn,
                               CameInv, JustDone, AgreedPlaces, At
  <1>2. Inv /\ [Next]_vars => [Called => There]_vars
    BY <1>1
  <1> QED  BY <1>2, InvAlways, PTL DEF Spec, BreakIsThere
----------------------------------------------------------------------------
----------------------------------------------------------------------------
(* KeyInjection. *)

\* The alarm is off, or due within the next frame, or put off by a reset.
AlarmInRange == alarm = Off \/ (alarm \in Int /\ alarm <= 1)

(* What makes ChangePending inductive: an alarm that is set never counts up *)
(* to Off.                                                                  *)
PendingInv == AlarmInRange /\ ChangePending

LEMMA ScriptOnlyQueues ==
    ASSUME ScriptTypes
    PROVE  UNCHANGED <<delay, latch_keyarr, keyarr, alarm, paused>>
<1>1. ASSUME NEW changes, Queue(changes)
      PROVE  UNCHANGED <<delay, latch_keyarr, keyarr, alarm, paused>>
    BY <1>1 DEF Queue
<1> QED
    BY <1>1 DEF ScriptTypes, put_key, put_raw_key

LEMMA FrameKeepsPending ==
    ASSUME PendingInv, NEW elapsed \in {0, 1}, onframe_python(elapsed),
           elapsed = 1 => AlarmMayWait, keyarr' = keyarr
    PROVE  PendingInv'
  BY DEF PendingInv, AlarmInRange, ChangePending, onframe_python, AlarmMayWait,
         Off

LEMMA PendingInvInductive == PendingInv /\ [KeysNext]_keyVars => PendingInv'
<1> SUFFICES ASSUME PendingInv, [KeysNext]_keyVars PROVE PendingInv'
    OBVIOUS
<1> USE DEF PendingInv, AlarmInRange, ChangePending, Off
<1>1. ASSUME ScriptTypes PROVE PendingInv'
    BY <1>1, ScriptOnlyQueues
<1>2. ASSUME FrameCounted PROVE PendingInv'
    BY <1>2, FrameKeepsPending DEF FrameCounted
<1>3. ASSUME FrameUncounted PROVE PendingInv'
    BY <1>3 DEF FrameUncounted, AlarmMayWait
<1>4. ASSUME keyboard_latch_handler PROVE PendingInv'
    BY <1>4 DEF keyboard_latch_handler, VisibleKeys
<1>5. ASSUME PauseGoesOn PROVE PendingInv'
    BY <1>5, FrameKeepsPending DEF PauseGoesOn
<1>6. ASSUME PauseStarts \/ PauseEnds PROVE PendingInv'
    BY <1>6 DEF PauseStarts, PauseEnds
<1>7. ASSUME NEW n \in 1 .. MaxUptime, MachineReset(n) PROVE PendingInv'
    BY <1>7, UptimeAssumption DEF MachineReset, AlarmAfterReset
<1>8. ASSUME UNCHANGED keyVars PROVE PendingInv'
    BY <1>8 DEF keyVars
<1> QED
    BY <1>1, <1>2, <1>3, <1>4, <1>5, <1>6, <1>7, <1>8 DEF KeysNext

(* While the machine sees another matrix than the latched one, the alarm    *)
(* that will copy it is set, whatever pauses and resets did.                *)
THEOREM ChangeAlwaysPending == KeysSpec => []ChangePending
<1>1. KeysInit => PendingInv
    BY DEF KeysInit, PendingInv, AlarmInRange, ChangePending, Off
<1>2. PendingInv => ChangePending
    BY DEF PendingInv
<1> QED
    BY <1>1, <1>2, PendingInvInductive, PTL DEF KeysSpec

----------------------------------------------------------------------------
(* Without pauses and resets, an alarm still pending when onframe_python is *)
(* about to apply the next change has already waited for the end of a       *)
(* frame, and runs before the next one.                                     *)
Spaced ==
    /\ ~ paused
    /\ delay \in {0, 1}
    /\ alarm \in {0, 1, Off}
    /\ delay = 0 /\ alarm # Off => alarm = 1

SpacedInv == user = {} => Spaced /\ ChangePending

\* The same user stays at the machine.
LEMMA UserNeverChanges == [KeysNext]_keyVars => user' = user
<1>1. ASSUME ScriptTypes PROVE user' = user
  <2>1. ASSUME NEW changes, Queue(changes) PROVE user' = user
      BY <2>1 DEF Queue
  <2> QED
      BY <1>1, <2>1 DEF ScriptTypes, put_key, put_raw_key
<1> QED
    BY <1>1 DEF KeysNext, keyVars, FrameCounted, FrameUncounted,
                keyboard_latch_handler, PauseStarts, PauseGoesOn, PauseEnds,
                MachineReset

LEMMA SpacedInvInductive == SpacedInv /\ [KeysNext]_keyVars => SpacedInv'
<1> SUFFICES ASSUME SpacedInv, [KeysNext]_keyVars, user = {}
             PROVE  (Spaced /\ ChangePending)'
    BY UserNeverChanges DEF SpacedInv
<1> USE DEF SpacedInv, Spaced, ChangePending, Off
<1>1. ASSUME ScriptTypes PROVE (Spaced /\ ChangePending)'
    BY <1>1, ScriptOnlyQueues
<1>2. ASSUME FrameCounted PROVE (Spaced /\ ChangePending)'
    BY <1>2 DEF FrameCounted, onframe_python, AlarmMayWait, NextDelay,
                CallsSkipped
<1>3. ASSUME FrameUncounted PROVE (Spaced /\ ChangePending)'
    BY <1>3 DEF FrameUncounted, AlarmMayWait
<1>4. ASSUME keyboard_latch_handler PROVE (Spaced /\ ChangePending)'
    BY <1>4 DEF keyboard_latch_handler, VisibleKeys
<1>5. ~ PauseGoesOn /\ ~ PauseStarts /\ ~ PauseEnds
    BY DEF PauseGoesOn, PauseStarts, PauseEnds
<1>6. ASSUME NEW n \in 1 .. MaxUptime PROVE ~ MachineReset(n)
    BY DEF MachineReset
<1>7. ASSUME UNCHANGED keyVars PROVE (Spaced /\ ChangePending)'
    BY <1>7 DEF keyVars
<1> QED
    BY <1>1, <1>2, <1>3, <1>4, <1>5, <1>6, <1>7 DEF KeysNext

LEMMA ChangeAppliedWhenSeen ==
    ASSUME SpacedInv, [KeysNext]_keyVars, user = {}, latch_keyarr' # latch_keyarr
    PROVE  keyarr = latch_keyarr
<1>1. FrameCounted
    BY ScriptOnlyQueues DEF SpacedInv, Spaced, KeysNext, keyVars, FrameUncounted,
           keyboard_latch_handler, PauseStarts, PauseGoesOn, PauseEnds,
           MachineReset
<1>2. delay = 0 /\ AlarmMayWait
    BY <1>1 DEF FrameCounted, onframe_python
<1>3. alarm = Off
    BY <1>2 DEF SpacedInv, Spaced, AlarmMayWait, Off
<1> QED
    BY <1>3 DEF SpacedInv, ChangePending

(* Unless the machine is paused or reset meanwhile, it has seen each change *)
(* of the matrix before the next one is made: what a script types is not    *)
(* lost, however many frames go uncounted and however late the alarm runs.  *)
THEOREM EveryChangeAlwaysSeen == KeysSpec => EveryChangeSeen
<1>1. KeysInit => SpacedInv
    BY DEF KeysInit, SpacedInv, Spaced, ChangePending, Off
<1>2. SpacedInv /\ [KeysNext]_keyVars => SpacedInv'
    BY SpacedInvInductive
<1>3. SpacedInv /\ [KeysNext]_keyVars =>
          [user = {} /\ latch_keyarr' # latch_keyarr => keyarr = latch_keyarr]_keyVars
    BY ChangeAppliedWhenSeen
<1> QED
    BY <1>1, <1>2, <1>3, PTL DEF KeysSpec, EveryChangeSeen

----------------------------------------------------------------------------
(* Keys and shift.  The left shift key may be down because the last change  *)
(* typed it, `typedShift', or because the script holds it.  The queue is    *)
(* such that it is typed after a change exactly if the change presses it    *)
(* for a key, or presses a key that was typed with shift.                   *)
ShiftDown(c) == c.pressed = TRUE /\ LShift \in c.typed
Typed(c) == IF ShiftDown(c) THEN {LShift} ELSE {}
Down(m, typedShift, i) == IF i = 0 THEN LShift \in typedShift ELSE ShiftDown(m[i])

\* A key is typed alone or with shift, or is a raw key.
WellFormed(c) ==
    /\ c.pressed \in BOOLEAN
    /\ c.key \in Key \union Shifts
    /\ c.key \in Shifts => c.typed = {} \/ (c.key = LShift /\ LShift \in c.typed)
    /\ c.key \in Key => c.typed \in {{}, {c.key}, {c.key, LShift}}

\* Shift is typed before a key is pressed if that was typed with it, or else not.
Follows(down, c) ==
    c.pressed = TRUE => (down <=> c.key # LShift /\ LShift \in c.typed)

InOrder(m, typedShift) ==
    /\ m \in Seq(Changes)
    /\ \A i \in 1 .. Len(m) :
           WellFormed(m[i]) /\ Follows(Down(m, typedShift, i - 1), m[i])
    /\ ~ Down(m, typedShift, Len(m))

\* The shift keys that are down are the one typed and those held.
ShiftsAre(down, byScript, typedShift) ==
    down \intersect Shifts = byScript \union typedShift

\* What will be new to the machine is what the last change asked for.
NewAsAsked ==
    \A k \in (latch_keyarr \ keyarr) \intersect Key :
        asked # {} => latch_keyarr \intersect ({k} \union Shifts) = asked \union held

TypedInv ==
    /\ \E typedShift \in SUBSET {LShift} :
           InOrder(matrix, typedShift) /\ ShiftsAre(latch_keyarr, held, typedShift)
    /\ user = {} => NewAsAsked

LEMMA Appended ==
    ASSUME NEW m, NEW typedShift \in SUBSET {LShift}, NEW new,
           InOrder(m, typedShift), InOrder(new, {})
    PROVE  InOrder(m \o new, typedShift)
<1> DEFINE s == m \o new
<1>1. /\ m \in Seq(Changes) /\ new \in Seq(Changes) /\ s \in Seq(Changes)
      /\ Len(m) \in Nat /\ Len(new) \in Nat /\ Len(s) = Len(m) + Len(new)
      /\ \A i \in 1 .. Len(m) : s[i] = m[i]
      /\ \A i \in 1 .. Len(new) : s[Len(m) + i] = new[i]
    BY DEF InOrder
<1> HIDE DEF s
<1>2. \A i \in 0 .. Len(m) : Down(s, typedShift, i) = Down(m, typedShift, i)
    BY <1>1 DEF Down
<1>3. \A i \in 0 .. Len(new) : Down(s, typedShift, Len(m) + i) <=> Down(new, {}, i)
  <2> SUFFICES ASSUME NEW i \in 0 .. Len(new)
               PROVE  Down(s, typedShift, Len(m) + i) <=> Down(new, {}, i)
      OBVIOUS
  <2>1. CASE i = 0
    <3>1. Len(m) + i = Len(m) /\ Len(m) \in 0 .. Len(m)
        BY <1>1, <2>1
    <3>2. ~ Down(s, typedShift, Len(m) + i)
        BY <1>2, <3>1 DEF InOrder
    <3>3. ~ Down(new, {}, i)
        BY <2>1 DEF Down
    <3> QED
        BY <3>2, <3>3
  <2>2. CASE i # 0
      BY <1>1, <2>2 DEF Down
  <2> QED
      BY <2>1, <2>2
<1>4. ASSUME NEW i \in 1 .. Len(s)
      PROVE  WellFormed(s[i]) /\ Follows(Down(s, typedShift, i - 1), s[i])
  <2>1. CASE i \in 1 .. Len(m)
    <3>1. s[i] = m[i] /\ Down(s, typedShift, i - 1) = Down(m, typedShift, i - 1)
        BY <1>1, <1>2, <2>1
    <3> QED
        BY <2>1, <3>1 DEF InOrder
  <2>2. CASE i > Len(m)
    <3>1. PICK j \in 1 .. Len(new) : i = Len(m) + j
      <4>1. i - Len(m) \in 1 .. Len(new) /\ i = Len(m) + (i - Len(m))
          BY <1>1, <2>2
      <4> QED
          BY <4>1
    <3>2. i - 1 = Len(m) + (j - 1) /\ j - 1 \in 0 .. Len(new)
        BY <1>1, <3>1
    <3>3. s[i] = new[j] /\ (Down(s, typedShift, i - 1) <=> Down(new, {}, j - 1))
        BY <1>1, <1>3, <3>1, <3>2
    <3> QED
        BY <3>1, <3>3 DEF InOrder, Follows
  <2> QED
      BY <1>1, <2>1, <2>2
<1>5. ~ Down(s, typedShift, Len(s))
  <2>1. Len(new) \in 0 .. Len(new)
      BY <1>1
  <2> QED
      BY <1>1, <1>3, <2>1 DEF InOrder
<1> QED
    BY <1>1, <1>4, <1>5 DEF InOrder, s

\* What a change does to the shift keys.
LEMMA ChangeShifts ==
    ASSUME NEW c, NEW typedShift \in SUBSET {LShift}, WellFormed(c),
           Follows(LShift \in typedShift, c), ShiftsAre(latch_keyarr, held, typedShift),
           latch_keyarr' = Latched(c), held' = HeldAfter(c)
    PROVE  ShiftsAre(latch_keyarr', held', Typed(c))
<1>1. CASE c.pressed = FALSE
  <2>1. latch_keyarr' \intersect Shifts = {} /\ held' = {} /\ ~ ShiftDown(c)
      BY <1>1 DEF Latched, HeldAfter, ShiftDown
  <2> QED
      BY <2>1 DEF ShiftsAre, Typed
<1>2. CASE c.pressed = TRUE
  <2>1. latch_keyarr' = latch_keyarr \union {c.key}
      BY <1>2 DEF Latched
  <2>2. CASE c.typed = {}
    <3>1. typedShift = {} /\ ~ ShiftDown(c)
        BY <1>2, <2>2 DEF Follows, ShiftDown
    <3>2. held' = held \union ({c.key} \intersect Shifts)
        BY <1>2, <2>2 DEF HeldAfter
    <3> QED
        BY <2>1, <3>1, <3>2 DEF ShiftsAre, Typed
  <2>3. CASE c.typed # {}
    <3>1. held' = held
        BY <1>2, <2>3 DEF HeldAfter
    <3>2. CASE c.key = LShift
      <4>1. typedShift = {} /\ ShiftDown(c)
          BY <1>2, <2>3, <3>2 DEF Follows, ShiftDown, WellFormed, Shifts
      <4> QED
          BY <2>1, <3>1, <3>2, <4>1 DEF ShiftsAre, Shifts, Typed
    <3>3. CASE c.key # LShift
      <4>1. c.key \in Key /\ c.key \notin Shifts
          BY <2>3, <3>3, KeyAssumption DEF WellFormed, Shifts
      <4>2. typedShift = Typed(c)
          BY <1>2, <3>3 DEF Follows, ShiftDown, Typed
      <4> QED
          BY <2>1, <3>1, <4>1, <4>2 DEF ShiftsAre
    <3> QED
        BY <3>2, <3>3
  <2> QED
      BY <2>2, <2>3
<1> QED
    BY <1>1, <1>2 DEF WellFormed

LEMMA FirstFollows ==
    ASSUME NEW typedShift \in SUBSET {LShift}, InOrder(matrix, typedShift), matrix # << >>
    PROVE  WellFormed(Head(matrix)) /\ Follows(LShift \in typedShift, Head(matrix))
<1>1. Len(matrix) \in Nat /\ Len(matrix) > 0 /\ Head(matrix) = matrix[1]
    BY DEF InOrder
<1>2. 1 \in 1 .. Len(matrix) /\ 1 - 1 = 0
    BY <1>1
<1>3. WellFormed(matrix[1]) /\ Follows(Down(matrix, typedShift, 0), matrix[1])
    BY <1>2 DEF InOrder
<1> QED
    BY <1>1, <1>3 DEF Down

LEMMA Popped ==
    ASSUME NEW typedShift \in SUBSET {LShift}, InOrder(matrix, typedShift), matrix # << >>
    PROVE  InOrder(Tail(matrix), Typed(Head(matrix)))
<1> DEFINE s == Tail(matrix)
           down == Typed(Head(matrix))
<1>1. /\ matrix \in Seq(Changes) /\ s \in Seq(Changes)
      /\ Len(matrix) \in Nat /\ Len(matrix) > 0 /\ Len(s) = Len(matrix) - 1
      /\ \A i \in 1 .. Len(s) : s[i] = matrix[i + 1]
      /\ Head(matrix) = matrix[1]
    BY DEF InOrder
<1> HIDE DEF s, down
<1>4. ASSUME NEW i \in 0 .. Len(s)
      PROVE  Down(s, down, i) <=> Down(matrix, typedShift, i + 1)
    BY <1>1 DEF Down, Typed, down
<1>5. ASSUME NEW i \in 1 .. Len(s)
      PROVE  WellFormed(s[i]) /\ Follows(Down(s, down, i - 1), s[i])
  <2>1. /\ i + 1 \in 1 .. Len(matrix) /\ i - 1 \in 0 .. Len(s)
        /\ (i - 1) + 1 = (i + 1) - 1 /\ s[i] = matrix[i + 1]
      BY <1>1
  <2>2. Down(s, down, i - 1) <=> Down(matrix, typedShift, (i + 1) - 1)
      BY <1>4, <2>1
  <2>3. /\ WellFormed(matrix[i + 1])
        /\ Follows(Down(matrix, typedShift, (i + 1) - 1), matrix[i + 1])
      BY <2>1 DEF InOrder
  <2> QED
      BY <2>1, <2>2, <2>3 DEF Follows
<1>6. ~ Down(s, down, Len(s))
  <2>1. Len(s) \in 0 .. Len(s) /\ Len(s) + 1 = Len(matrix)
      BY <1>1
  <2> QED
      BY <1>4, <2>1 DEF InOrder
<1> QED
    BY <1>1, <1>5, <1>6 DEF InOrder, s, down

\* What put_key and put_raw_key queue begins and ends with shift up.
LEMMA ChangesFit ==
    ASSUME NEW key \in Key \union Shifts, NEW pressed \in BOOLEAN, NEW k \in Key,
           NEW typed \in {{}, {k}, {k, LShift}}
    PROVE  Change(key, pressed, typed) \in Changes
  BY DEF Change, Changes

LEMMA TwoChanges ==
    ASSUME NEW a \in Changes, NEW b \in Changes, NEW s, s = <<a, b>>
    PROVE  s \in Seq(Changes) /\ Len(s) = 2 /\ s[1] = a /\ s[2] = b
  OBVIOUS

LEMMA FourChanges ==
    ASSUME NEW a \in Changes, NEW b \in Changes, NEW c \in Changes, NEW d \in Changes,
           NEW s, s = <<a, b, c, d>>
    PROVE  /\ s \in Seq(Changes) /\ Len(s) = 4
           /\ s[1] = a /\ s[2] = b /\ s[3] = c /\ s[4] = d
  OBVIOUS

LEMMA TypingInOrder ==
    ASSUME NEW k \in Key, NEW shifted \in BOOLEAN
    PROVE  InOrder(Typing(k, shifted), {})
<1> DEFINE both == {k, LShift}
           alone == {k}
           s == Typing(k, shifted)
<1>1. k # LShift /\ k \notin Shifts /\ k \in Key \union Shifts /\ LShift \in Key \union Shifts
    BY KeyAssumption DEF Shifts
<1>2. CASE shifted
  <2>1. s = <<Change(LShift, TRUE, both), Change(k, TRUE, both),
              Change(LShift, FALSE, both), Change(k, FALSE, both)>>
      BY <1>2 DEF Typing
  <2>2. /\ Change(LShift, TRUE, both) \in Changes /\ Change(k, TRUE, both) \in Changes
        /\ Change(LShift, FALSE, both) \in Changes /\ Change(k, FALSE, both) \in Changes
      BY <1>1, ChangesFit
  <2> HIDE DEF both, s
  <2>3. /\ s \in Seq(Changes) /\ Len(s) = 4
        /\ s[1] = Change(LShift, TRUE, both) /\ s[2] = Change(k, TRUE, both)
        /\ s[3] = Change(LShift, FALSE, both) /\ s[4] = Change(k, FALSE, both)
    <3> DEFINE a == Change(LShift, TRUE, both)
               b == Change(k, TRUE, both)
               c == Change(LShift, FALSE, both)
               d == Change(k, FALSE, both)
    <3>1. s = <<a, b, c, d>> /\ a \in Changes /\ b \in Changes /\ c \in Changes /\ d \in Changes
        BY <2>1, <2>2
    <3> HIDE DEF a, b, c, d
    <3>2. s \in Seq(Changes) /\ Len(s) = 4 /\ s[1] = a /\ s[2] = b /\ s[3] = c /\ s[4] = d
        BY <3>1, FourChanges
    <3> QED
        BY <3>2 DEF a, b, c, d
  <2>4. ~ Down(s, {}, 0) /\ Down(s, {}, 1) /\ Down(s, {}, 2) /\ ~ Down(s, {}, 3)
        /\ ~ Down(s, {}, 4)
      BY <2>3 DEF Down, ShiftDown, Change, both
  <2>5. ASSUME NEW i \in 1 .. 4
        PROVE  WellFormed(s[i]) /\ Follows(Down(s, {}, i - 1), s[i])
    <3>1. WellFormed(s[1]) /\ WellFormed(s[2]) /\ WellFormed(s[3]) /\ WellFormed(s[4])
      <4>1. ASSUME NEW pressed \in BOOLEAN PROVE WellFormed(Change(k, pressed, both))
          BY <1>1 DEF WellFormed, Change, both
      <4>2. ASSUME NEW pressed \in BOOLEAN PROVE WellFormed(Change(LShift, pressed, both))
          BY <1>1, KeyAssumption DEF WellFormed, Change, both
      <4> QED
          BY <2>3, <4>1, <4>2
    <3>2. /\ Follows(Down(s, {}, 0), s[1]) /\ Follows(Down(s, {}, 1), s[2])
          /\ Follows(Down(s, {}, 2), s[3]) /\ Follows(Down(s, {}, 3), s[4])
        BY <1>1, <2>3, <2>4 DEF Follows, Change, both
    <3>3. \/ i = 1 /\ i - 1 = 0
          \/ i = 2 /\ i - 1 = 1
          \/ i = 3 /\ i - 1 = 2
          \/ i = 4 /\ i - 1 = 3
        OBVIOUS
    <3> QED
        BY <3>1, <3>2, <3>3
  <2> QED
      BY <2>3, <2>4, <2>5 DEF InOrder, s
<1>3. CASE ~ shifted
  <2>1. s = <<Change(k, TRUE, alone), Change(k, FALSE, alone)>>
      BY <1>3 DEF Typing
  <2>2. Change(k, TRUE, alone) \in Changes /\ Change(k, FALSE, alone) \in Changes
      BY <1>1, ChangesFit
  <2> HIDE DEF alone, s
  <2>3. /\ s \in Seq(Changes) /\ Len(s) = 2
        /\ s[1] = Change(k, TRUE, alone) /\ s[2] = Change(k, FALSE, alone)
      BY <2>1, <2>2, TwoChanges
  <2>4. ~ Down(s, {}, 0) /\ ~ Down(s, {}, 1) /\ ~ Down(s, {}, 2)
      BY <1>1, <2>3 DEF Down, ShiftDown, Change, alone
  <2>5. ASSUME NEW i \in 1 .. 2
        PROVE  WellFormed(s[i]) /\ Follows(Down(s, {}, i - 1), s[i])
    <3>1. WellFormed(s[1]) /\ WellFormed(s[2])
        BY <1>1, <2>3 DEF WellFormed, Change, alone
    <3>2. Follows(Down(s, {}, 0), s[1]) /\ Follows(Down(s, {}, 1), s[2])
        BY <1>1, <2>3, <2>4 DEF Follows, Change, alone
    <3>3. (i = 1 /\ i - 1 = 0) \/ (i = 2 /\ i - 1 = 1)
        OBVIOUS
    <3> QED
        BY <3>1, <3>2, <3>3
  <2> QED
      BY <2>3, <2>4, <2>5 DEF InOrder, s
<1> QED
    BY <1>2, <1>3

LEMMA RawInOrder ==
    ASSUME NEW k \in RawKey, NEW pressed \in BOOLEAN
    PROVE  InOrder(<<Change(k, pressed, {})>>, {})
<1>1. k \in Key \union Shifts
    BY KeyAssumption DEF Shifts
<1> DEFINE c == Change(k, pressed, {})
           s == <<c>>
<1>2. c.key = k /\ c.pressed = pressed /\ c.typed = {}
    BY DEF Change
<1>3. c \in Changes
    BY <1>1 DEF Change, Changes
<1>4. WellFormed(c)
  <2>1. c.pressed \in BOOLEAN
      BY <1>2
  <2>2. c.key \in Key \union Shifts
      BY <1>1, <1>2
  <2>3. c.typed = {}
      BY <1>2
  <2>4. c.typed \in {{}, {c.key}, {c.key, LShift}}
      BY <1>2
  <2> HIDE DEF c
  <2> QED
      BY <2>1, <2>2, <2>3, <2>4 DEF WellFormed
<1>5. Follows(FALSE, c) /\ ~ ShiftDown(c)
    BY <1>2 DEF Follows, ShiftDown
<1> HIDE DEF c
<1>6. s \in Seq(Changes) /\ Len(s) = 1 /\ s[1] = c
    BY <1>3
<1> HIDE DEF s
<1>7. ~ Down(s, {}, 0) /\ ~ Down(s, {}, 1)
    BY <1>5, <1>6 DEF Down
<1>8. ASSUME NEW i \in 1 .. 1
      PROVE  WellFormed(s[i]) /\ Follows(Down(s, {}, i - 1), s[i])
  <2>1. i = 1 /\ i - 1 = 0
      OBVIOUS
  <2> QED
      BY <1>4, <1>5, <1>6, <1>7, <2>1 DEF Follows
<1>9. InOrder(s, {})
    BY <1>6, <1>7, <1>8 DEF InOrder
<1> QED
    BY <1>9 DEF s, c

\* A change is made: what is new to the machine is what it presses.
LEMMA AppliedAsAsked ==
    ASSUME TypedInv, matrix # << >>, latch_keyarr = keyarr, keyarr' = keyarr,
           latch_keyarr' = Latched(Head(matrix)), asked' = Head(matrix).typed,
           held' = HeldAfter(Head(matrix))
    PROVE  NewAsAsked'
<1> DEFINE c == Head(matrix)
<1>1. PICK typedShift \in SUBSET {LShift} :
          InOrder(matrix, typedShift) /\ ShiftsAre(latch_keyarr, held, typedShift)
    BY DEF TypedInv
<1>2. WellFormed(c) /\ Follows(LShift \in typedShift, c)
    BY <1>1, FirstFollows
<1>3. ShiftsAre(latch_keyarr', held', Typed(c))
    BY <1>1, <1>2, ChangeShifts
<1> HIDE DEF c
<1>4. ASSUME NEW k \in (latch_keyarr' \ keyarr') \intersect Key, asked' # {}
      PROVE  latch_keyarr' \intersect ({k} \union Shifts) = asked' \union held'
  <2>1. c.pressed = TRUE /\ c.key = k /\ k \notin Shifts
      BY <1>2, <1>4, KeyAssumption DEF Latched, c, WellFormed, Shifts
  <2>2. asked' = {k} \/ asked' = {k, LShift}
      BY <1>2, <1>4, <2>1 DEF WellFormed, c
  <2>3. ShiftDown(c) <=> LShift \in asked'
      BY <2>1 DEF ShiftDown, c
  <2>4. latch_keyarr' \intersect Shifts = held' \union IF LShift \in asked' THEN {LShift} ELSE {}
      BY <1>3, <2>3 DEF ShiftsAre, Typed
  <2>5. k # LShift
      BY <2>1 DEF Shifts
  <2>6. asked' = {k} \union IF LShift \in asked' THEN {LShift} ELSE {}
      BY <2>2, <2>5
  <2>7. latch_keyarr' \intersect ({k} \union Shifts) = {k} \union (latch_keyarr' \intersect Shifts)
      BY <1>4
  <2> QED
      BY <2>4, <2>6, <2>7
<1> QED
    BY <1>4 DEF NewAsAsked

LEMMA QueuedInOrder ==
    ASSUME TypedInv, NEW new, Queue(new), InOrder(new, {})
    PROVE  TypedInv'
<1>1. UNCHANGED <<latch_keyarr, keyarr, asked, held, user>> /\ matrix' = matrix \o new
    BY DEF Queue
<1>2. PICK typedShift \in SUBSET {LShift} :
          InOrder(matrix, typedShift) /\ ShiftsAre(latch_keyarr, held, typedShift)
    BY DEF TypedInv
<1>3. InOrder(matrix', typedShift) /\ ShiftsAre(latch_keyarr', held', typedShift)
    BY <1>1, <1>2, Appended DEF ShiftsAre
<1> QED
    BY <1>1, <1>3 DEF TypedInv, NewAsAsked

LEMMA ShiftsKept ==
    ASSUME TypedInv, matrix' = matrix, UNCHANGED <<latch_keyarr, held>>,
           user' = {} => NewAsAsked'
    PROVE  TypedInv'
  BY DEF TypedInv, ShiftsAre

LEMMA FrameStaysInOrder ==
    ASSUME TypedInv, SpacedInv, NEW elapsed, onframe_python(elapsed),
           keyarr' = keyarr, user' = user, user = {} => AlarmMayWait
    PROVE  TypedInv'
<1>1. CASE delay = 0 /\ matrix # << >>
  <2>1. /\ latch_keyarr' = Latched(Head(matrix)) /\ matrix' = Tail(matrix)
        /\ asked' = Head(matrix).typed /\ held' = HeldAfter(Head(matrix))
      BY <1>1 DEF onframe_python
  <2>2. PICK typedShift \in SUBSET {LShift} :
          InOrder(matrix, typedShift) /\ ShiftsAre(latch_keyarr, held, typedShift)
      BY DEF TypedInv
  <2>3. WellFormed(Head(matrix)) /\ Follows(LShift \in typedShift, Head(matrix))
      BY <1>1, <2>2, FirstFollows
  <2>4. ShiftsAre(latch_keyarr', held', Typed(Head(matrix)))
      BY <2>1, <2>2, <2>3, ChangeShifts
  <2>5. InOrder(matrix', Typed(Head(matrix)))
      BY <1>1, <2>1, <2>2, Popped
  <2>6. PICK typed \in SUBSET {LShift} : typed = Typed(Head(matrix))
      BY DEF Typed
  <2>7. InOrder(matrix', typed) /\ ShiftsAre(latch_keyarr', held', typed)
      BY <2>4, <2>5, <2>6 DEF ShiftsAre
  <2>8. user = {} => latch_keyarr = keyarr
      BY <1>1 DEF SpacedInv, Spaced, ChangePending, AlarmMayWait, Off
  <2> QED
      BY <1>1, <2>1, <2>7, <2>8, AppliedAsAsked DEF TypedInv
<1>2. CASE ~ (delay = 0 /\ matrix # << >>)
    BY <1>2, ShiftsKept DEF onframe_python, TypedInv, NewAsAsked
<1> QED
    BY <1>1, <1>2

LEMMA TypedInvStep == TypedInv /\ SpacedInv /\ [KeysNext]_keyVars => TypedInv'
<1> SUFFICES ASSUME TypedInv, SpacedInv, [KeysNext]_keyVars PROVE TypedInv'
    OBVIOUS
<1>1. ASSUME NEW k \in Key, NEW shifted \in BOOLEAN, put_key(k, shifted) PROVE TypedInv'
    BY <1>1, TypingInOrder, QueuedInOrder DEF put_key
<1>2. ASSUME NEW k \in RawKey, NEW pressed \in BOOLEAN, put_raw_key(k, pressed)
      PROVE  TypedInv'
    BY <1>2, RawInOrder, QueuedInOrder DEF put_raw_key
<1>3. CASE FrameCounted
    BY <1>3, FrameStaysInOrder DEF FrameCounted
<1>4. CASE PauseGoesOn
    BY <1>4, FrameStaysInOrder DEF PauseGoesOn, SpacedInv, Spaced
<1>5. CASE keyboard_latch_handler
    BY <1>5, ShiftsKept DEF keyboard_latch_handler, VisibleKeys, NewAsAsked
<1>6. CASE FrameUncounted \/ PauseStarts \/ PauseEnds \/ UNCHANGED keyVars
    BY <1>6, ShiftsKept DEF FrameUncounted, PauseStarts, PauseEnds, keyVars, TypedInv, NewAsAsked
<1>7. ASSUME NEW n \in 1 .. MaxUptime, MachineReset(n) PROVE TypedInv'
    BY <1>7, ShiftsKept DEF MachineReset, TypedInv, NewAsAsked
<1> QED
    BY <1>1, <1>2, <1>3, <1>4, <1>5, <1>6, <1>7 DEF KeysNext, ScriptTypes

(* A key that put_key types appears to the machine with the shift asked for *)
(* and no other but what put_raw_key holds, whatever is queued before and   *)
(* after it, a shift key too, and however many frames go uncounted.         *)
THEOREM AlwaysTypedAsAsked == KeysSpec => TypedAsAsked
<1>1. KeysInit => SpacedInv /\ TypedInv
  <2> SUFFICES ASSUME KeysInit PROVE SpacedInv /\ TypedInv
      OBVIOUS
  <2>1. SpacedInv
      BY DEF KeysInit, SpacedInv, Spaced, ChangePending, Off
  <2>2. InOrder(matrix, {}) /\ ShiftsAre(latch_keyarr, held, {}) /\ NewAsAsked
      BY DEF KeysInit, InOrder, Down, ShiftsAre, NewAsAsked
  <2> QED
      BY <2>1, <2>2 DEF TypedInv
<1>2. TypedInv /\ SpacedInv /\ [KeysNext]_keyVars =>
          [\A k \in (keyarr' \ keyarr) \intersect Key :
               user = {} /\ asked # {} => keyarr' \intersect ({k} \union Shifts) = asked \union held]_keyVars
  <2> SUFFICES ASSUME TypedInv, [KeysNext]_keyVars, user = {},
                      NEW k \in (keyarr' \ keyarr) \intersect Key, asked # {}
               PROVE  keyarr' \intersect ({k} \union Shifts) = asked \union held
      OBVIOUS
  <2>1. keyarr' = latch_keyarr
      BY ScriptOnlyQueues
         DEF KeysNext, keyVars, FrameCounted, FrameUncounted, keyboard_latch_handler, VisibleKeys,
             PauseStarts, PauseGoesOn, PauseEnds, MachineReset
  <2> QED
      BY <2>1 DEF TypedInv, NewAsAsked
<1> QED
    BY <1>1, <1>2, TypedInvStep, SpacedInvInductive, PTL DEF KeysSpec, TypedAsAsked
=============================================================================
