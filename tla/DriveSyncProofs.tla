--------------------------- MODULE DriveSyncProofs ---------------------------
(****************************************************************************)
(* Proofs about DriveSync, for clocks of any width, frames, speeds and ways *)
(* to idle of any kind, as long as a frame is short of what the guards keep *)
(* in reserve.                                                              *)
(****************************************************************************)
EXTENDS DriveSync, TLAPS

MainTypes ==
    /\ maincpu_clk \in Clock
    /\ sinceFrame \in 0 .. FrameCycles - 1 + MaxTick
    /\ last_clk \in Nat
    /\ behind \in Nat
    /\ enable \in BOOLEAN
    /\ loop \in LoopState

\* Since the guard was checked only the rest of a frame has passed; and it has
\* just been checked when a drive is to be wound back.
MainGuarded ==
    /\ loop.at \in {"main", "access"} => maincpu_clk < clk_max_value + sinceFrame
    /\ loop.at = "drive" /\ loop.then = "access" =>
           maincpu_clk < clk_max_value + sinceFrame
    /\ loop.at \in {"warp", "rewound"} => maincpu_clk < clk_max_value
    /\ loop.at = "drive" /\ loop.then \in {"warp", "main"} => maincpu_clk < clk_max_value

\* Where the main clock will have been, when the thread comes back from a drive.
Until ==
    IF loop.then \in {"warp", "main"} THEN maincpu_clk + mainSub ELSE maincpu_clk

Accounted ==
    /\ doubled \in BOOLEAN
    /\ loop.at \in {"main", "access", "guard"} /\ enable /\ ~ doubled =>
           behind = maincpu_clk - last_clk
    /\ loop.at = "rewound" =>
           maincpu_clk + mainSub \in Clock /\ (~ doubled => behind = maincpu_clk - last_clk)
    /\ loop.at = "warp" => behind = 0 /\ last_clk = maincpu_clk + mainSub
    /\ loop.at = "drive" => /\ behind = 0 /\ loop.until = Until
                            /\ doubled = (loop.then = "main")

SyncInv == MainTypes /\ MainGuarded /\ Accounted

----------------------------------------------------------------------------
(* Arithmetic.                                                              *)

LEMMA WrapInRange == ASSUME NEW x \in Clock PROVE Wrap(x) = x
  <1>1. Modulus \in Nat /\ x \in 0 .. Modulus - 1
    BY ModulusAssumption DEF Clock, ClockMax
  <1> QED  BY <1>1 DEF Wrap

LEMMA Quotient ==
    ASSUME NEW n \in Nat, NEW d \in Nat \ {0}
    PROVE  /\ (n \div d) * d \in Nat
           /\ (n \div d) * d <= n
           /\ n < (n \div d) * d + d
  <1>1. n = d * (n \div d) + (n % d) /\ n % d \in 0 .. d - 1 /\ n \div d \in Nat
    OBVIOUS
  <1>2. (n \div d) * d = d * (n \div d) /\ d * (n \div d) \in Nat
    BY <1>1
  <1> QED  BY <1>1, <1>2

LEMMA SubBounds ==
    /\ mainSub \in Nat
    /\ mainSub <= clk_max_value - SubMin
    /\ mainSub > clk_max_value - SubMin - FrameCycles
  <1>1. clk_max_value - SubMin \in Nat /\ FrameCycles \in Nat \ {0}
    BY ModulusAssumption, FrameAssumption DEF clk_max_value, ClockMax
  <1> QED  BY <1>1, Quotient DEF mainSub

LEMMA ConstantsFacts ==
    /\ Modulus \in Nat /\ SubMin \in Nat \ {0} /\ Modulus > 4 * SubMin
    /\ clk_max_value = Modulus - 1 - SubMin /\ Clock = 0 .. Modulus - 1
    /\ FrameCycles \in Nat \ {0} /\ MaxTick \in Nat
    /\ FrameCycles <= SubMin /\ FrameCycles + MaxTick <= SubMin + 2
    /\ ResetClk \in Nat /\ ResetClk < clk_max_value
  BY ModulusAssumption, FrameAssumption, ResetAssumption
     DEF clk_max_value, Clock, ClockMax

LEMMA Division ==
    ASSUME NEW n \in Int, NEW d \in Nat \ {0}
    PROVE  /\ n \div d \in Int /\ n % d \in 0 .. d - 1
           /\ n = d * (n \div d) + (n % d)
           /\ d * (0 - (n \div d)) = 0 - d * (n \div d)
  <1>1. n \div d \in Int /\ n % d \in 0 .. d - 1 /\ n = d * (n \div d) + (n % d)
    OBVIOUS
  <1>2. \A q \in Int : d * (0 - q) = 0 - d * q
    OBVIOUS
  <1> QED  BY <1>1, <1>2

LEMMA WrapIs ==
    ASSUME NEW n \in Int
    PROVE  /\ Wrap(n) \in Clock /\ Wrap(n) \in 0 .. Modulus - 1
           /\ \E q \in Int : Wrap(n) = n + Modulus * q
  <1>1. Modulus \in Nat \ {0} /\ Clock = 0 .. Modulus - 1
    BY ConstantsFacts
  <1> DEFINE d == n \div Modulus
             r == n % Modulus
  <1>2. /\ d \in Int /\ r \in 0 .. Modulus - 1
        /\ n = Modulus * d + r
        /\ Modulus * (0 - d) = 0 - Modulus * d
    BY <1>1, Division
  <1>3. Wrap(n) = r
    BY DEF Wrap
  <1> HIDE DEF d, r
  <1>4. r = n + Modulus * (0 - d) /\ 0 - d \in Int
    <2>1. Modulus * d \in Int /\ r \in Int
      BY <1>1, <1>2
    <2> QED  BY <1>2, <2>1
  <1>5. \E q \in Int : r = n + Modulus * q
    BY <1>4
  <1> QED  BY <1>1, <1>2, <1>3, <1>5

----------------------------------------------------------------------------
(* The thread's places.                                                     *)

LEMMA Places ==
    ASSUME NEW c \in Clock, NEW t \in Then
    PROVE  /\ Main \in LoopState /\ Main.at = "main"
           /\ At(t) \in LoopState /\ At(t).at = t
           /\ At("rewound") \in LoopState /\ At("rewound").at = "rewound"
           /\ Executing(c, t) \in LoopState /\ Executing(c, t).at = "drive"
           /\ Executing(c, t).then = t /\ Executing(c, t).until = c
  BY DEF LoopState, Main, At, Executing, Then

LEMMA InDrive ==
    ASSUME loop \in LoopState, loop.at = "drive"
    PROVE  loop.until \in Clock /\ loop.then \in Then
  BY DEF LoopState, Main, At, Executing, Then

LEMMA OutsideDrive ==
    ASSUME loop \in LoopState
    PROVE  /\ loop = Main <=> loop.at = "main"
           /\ loop.at \in {"drive", "rewound"} \union Then
  BY DEF LoopState, Main, At, Executing, Then

----------------------------------------------------------------------------
LEMMA InitiallySyncInv == Init => SyncInv
  <1> SUFFICES ASSUME Init PROVE SyncInv
    OBVIOUS
  <1>1. loop \in LoopState /\ loop.at = "main"
    BY DEF Init, LoopState, Main, At, Then
  <1>2. ResetClk \in Clock /\ ResetClk \in Nat /\ ResetClk < clk_max_value
        /\ 0 \in 0 .. FrameCycles - 1 + MaxTick
        /\ ResetClk < clk_max_value + 0 /\ ResetClk - ResetClk = 0
    BY ConstantsFacts
  <1> QED
    BY <1>1, <1>2 DEF Init, SyncInv, MainTypes, MainGuarded, Accounted

\* A step that moves neither the main clock nor the thread.
LEMMA NothingOwedChanges ==
    ASSUME SyncInv, loop.at = "drive",
           UNCHANGED <<maincpu_clk, sinceFrame, enable, last_clk, loop, behind, doubled>>
    PROVE  SyncInv'
  BY DEF SyncInv, MainTypes, MainGuarded, Accounted, Until

\* The thread is back in the main CPU, with the drive up to date, or off.
LEMMA BackInStep ==
    ASSUME loop' = Main, MainTypes,
           maincpu_clk' \in Clock, maincpu_clk' < clk_max_value + sinceFrame',
           sinceFrame' \in 0 .. FrameCycles - 1 + MaxTick, enable' \in BOOLEAN,
           behind' \in Nat, last_clk' \in Nat, doubled' \in BOOLEAN,
           enable' /\ ~ doubled' => behind' = maincpu_clk' - last_clk'
    PROVE  SyncInv'
  <1>1. loop' \in LoopState /\ loop'.at = "main"
    BY DEF LoopState, Main, At, Then
  <1> QED  BY <1>1 DEF SyncInv, MainTypes, MainGuarded, Accounted

\* Main cycles are handed over: the drive executes what is left of them.
LEMMA HandedOver ==
    ASSUME SyncInv, NEW now \in Clock, NEW value \in Clock, NEW then \in Then,
           StartExecute(now, value, then), maincpu_clk' = now,
           value = IF then \in {"warp", "main"} THEN now + mainSub ELSE now,
           sinceFrame' \in 0 .. FrameCycles - 1 + MaxTick,
           then = "access" => now < clk_max_value + sinceFrame',
           then \in {"warp", "main"} => now < clk_max_value
    PROVE  SyncInv'
  <1>1. /\ loop' = Executing(value, then)
        /\ behind' = 0 /\ enable' = enable /\ doubled' = (then = "main")
        /\ last_clk' = now \/ last_clk' = last_clk
    BY DEF StartExecute
  <1>2. /\ loop' \in LoopState /\ loop'.at = "drive"
        /\ loop'.then = then /\ loop'.until = value
    BY <1>1, Places
  <1>3. now \in Nat
    BY ConstantsFacts
  <1>4. MainTypes'
    BY <1>1, <1>2, <1>3 DEF SyncInv, MainTypes
  <1>5. Accounted'
    BY <1>1, <1>2 DEF Accounted, Until
  <1>6. MainGuarded'
    BY <1>2 DEF MainGuarded
  <1> QED  BY <1>4, <1>5, <1>6 DEF SyncInv

----------------------------------------------------------------------------
(* The main CPU's steps.                                                    *)

LEMMA MainInstructionAccounts ==
    ASSUME SyncInv, NEW n \in 1 .. MaxTick, MainInstruction(n)
    PROVE  SyncInv'
  <1>1. loop.at = "main" /\ loop' = Main
    BY DEF MainInstruction, driveVars, Main
  <1>2. /\ n \in Nat /\ maincpu_clk \in Nat /\ sinceFrame \in Nat
        /\ sinceFrame <= FrameCycles - 1
        /\ maincpu_clk < clk_max_value + sinceFrame
    BY <1>1, ConstantsFacts DEF SyncInv, MainTypes, MainGuarded, MainInstruction
  <1>3. maincpu_clk + n \in Clock
    BY <1>2, ConstantsFacts
  <1>4. maincpu_clk' = maincpu_clk + n /\ sinceFrame' = sinceFrame + n
    BY <1>3, WrapInRange DEF MainInstruction
  <1>5. /\ enable' = enable /\ last_clk' = last_clk /\ doubled' = doubled
        /\ behind' = IF enable THEN behind + n ELSE 0
    BY DEF MainInstruction, driveVars
  <1>6. enable /\ ~ doubled => behind = maincpu_clk - last_clk
    BY <1>1 DEF SyncInv, Accounted
  <1>7. behind \in Nat /\ last_clk \in Nat /\ enable \in BOOLEAN /\ doubled \in BOOLEAN
    BY DEF SyncInv, MainTypes, Accounted
  <1>8. sinceFrame' \in 0 .. FrameCycles - 1 + MaxTick
    BY <1>2, <1>4, ConstantsFacts
  <1>9. maincpu_clk' < clk_max_value + sinceFrame'
    BY <1>2, <1>4, ConstantsFacts
  <1>10. enable' /\ ~ doubled' => behind' = maincpu_clk' - last_clk'
    BY <1>2, <1>4, <1>5, <1>6, <1>7
  <1>11. behind' \in Nat
    BY <1>2, <1>5, <1>7
  <1> QED
    BY <1>1, <1>3, <1>4, <1>5, <1>7, <1>8, <1>9, <1>10, <1>11, BackInStep DEF SyncInv

LEMMA MainAccessAccounts ==
    ASSUME SyncInv, MainAccess
    PROVE  SyncInv'
  <1>1. loop.at = "main" /\ maincpu_clk' = maincpu_clk /\ sinceFrame' = sinceFrame
    BY DEF MainAccess, machineVars, Main
  <1>2. maincpu_clk \in Clock /\ maincpu_clk < clk_max_value + sinceFrame
        /\ sinceFrame \in 0 .. FrameCycles - 1 + MaxTick
    BY <1>1 DEF SyncInv, MainTypes, MainGuarded
  <1>3. CASE enable
    <2>1. StartExecute(maincpu_clk, maincpu_clk, "access")
      BY <1>3 DEF MainAccess
    <2> QED  BY <1>1, <1>2, <2>1, HandedOver DEF Then
  <1>4. CASE ~ enable
    <2>1. /\ loop' = At("access")
          /\ UNCHANGED <<enable, last_clk, behind, doubled>>
      BY <1>4 DEF MainAccess, driveVars, historyVars
    <2>2. loop' \in LoopState /\ loop'.at = "access"
      BY <2>1 DEF LoopState, At, Then
    <2> QED
      BY <1>1, <1>2, <1>4, <2>1, <2>2 DEF SyncInv, MainTypes, MainGuarded, Accounted
  <1> QED  BY <1>3, <1>4

LEMMA AccessedAccounts ==
    ASSUME SyncInv, Accessed
    PROVE  SyncInv'
  <1>1. /\ loop.at = "access" /\ loop' = Main
        /\ UNCHANGED <<maincpu_clk, sinceFrame, enable, last_clk, behind, doubled>>
    BY DEF Accessed, At, machineVars, driveVars, historyVars
  <1> QED
    BY <1>1, BackInStep DEF SyncInv, MainTypes, MainGuarded, Accounted

LEMMA FrameEndAccounts ==
    ASSUME SyncInv, FrameEnd
    PROVE  SyncInv'
  <1>1. /\ loop.at = "main" /\ maincpu_clk' = maincpu_clk
        /\ sinceFrame' = sinceFrame - FrameCycles /\ sinceFrame >= FrameCycles
    BY DEF FrameEnd, Main
  <1>2. /\ maincpu_clk \in Clock
        /\ sinceFrame' \in 0 .. FrameCycles - 1 + MaxTick
    BY <1>1, ConstantsFacts DEF SyncInv, MainTypes
  <1>3. CASE enable /\ idling_method # "SKIP_CYCLES"
    <2>1. StartExecute(maincpu_clk, maincpu_clk, "guard")
      BY <1>3 DEF FrameEnd
    <2> QED  BY <1>1, <1>2, <2>1, HandedOver DEF Then
  <1>4. CASE ~ (enable /\ idling_method # "SKIP_CYCLES")
    <2>1. /\ loop' = At("guard")
          /\ UNCHANGED <<enable, last_clk, behind, doubled>>
      BY <1>4 DEF FrameEnd, driveVars, historyVars
    <2>2. loop' \in LoopState /\ loop'.at = "guard"
      BY <2>1 DEF LoopState, At, Then
    <2> QED
      BY <1>1, <1>2, <2>1, <2>2 DEF SyncInv, MainTypes, MainGuarded, Accounted
  <1> QED  BY <1>3, <1>4

\* Both clocks are wound back by the same amount, or the drive is first caught
\* up with the clock as it was.
LEMMA GuardsAccount ==
    ASSUME SyncInv, Guards
    PROVE  SyncInv'
  <1>1. /\ loop.at = "guard" /\ sinceFrame' = sinceFrame
    BY DEF Guards, At
  <1>2. /\ maincpu_clk \in Clock /\ maincpu_clk \in Nat
        /\ sinceFrame \in 0 .. FrameCycles - 1 + MaxTick /\ sinceFrame \in Nat
        /\ last_clk \in Nat /\ behind \in Nat /\ enable \in BOOLEAN /\ doubled \in BOOLEAN
        /\ enable /\ ~ doubled => behind = maincpu_clk - last_clk
    BY <1>1, ConstantsFacts DEF SyncInv, MainTypes, Accounted
  <1>3. ASSUME maincpu_clk >= clk_max_value, maincpu_clk' = maincpu_clk - mainSub
        PROVE  /\ maincpu_clk' \in Clock /\ maincpu_clk' \in Nat
               /\ maincpu_clk' < clk_max_value
               /\ maincpu_clk = maincpu_clk' + mainSub
               /\ mainSub \in Nat
    BY <1>2, <1>3, SubBounds, ConstantsFacts
  <1>4. CASE /\ maincpu_clk < clk_max_value
             /\ loop' = Main
             /\ UNCHANGED <<maincpu_clk, enable, last_clk, behind, doubled>>
    <2>1. maincpu_clk' < clk_max_value + sinceFrame'
      BY <1>1, <1>2, <1>4, ConstantsFacts
    <2> QED  BY <1>1, <1>2, <1>4, <2>1, BackInStep DEF SyncInv
  <1>5. CASE /\ maincpu_clk >= clk_max_value
             /\ maincpu_clk' = maincpu_clk - mainSub
             /\ StartExecute(maincpu_clk', maincpu_clk, "warp")
    BY <1>1, <1>2, <1>3, <1>5, HandedOver DEF Then
  <1>6. CASE /\ maincpu_clk >= clk_max_value
             /\ maincpu_clk' = maincpu_clk - mainSub
             /\ enable /\ last_clk >= mainSub
             /\ last_clk' = Rewound(last_clk, mainSub)
             /\ loop' \in {Main, At("rewound")} /\ UNCHANGED <<enable, behind, doubled>>
    <2>1. last_clk' \in Nat
      <3>1. last_clk - mainSub \in Int
        BY <1>2, SubBounds
      <3> QED  BY <1>6, <3>1, WrapIs, ConstantsFacts DEF Rewound
    <2>2. ~ doubled => behind' = maincpu_clk' - last_clk'
      <3> SUFFICES ASSUME ~ doubled PROVE behind' = maincpu_clk' - last_clk'
        OBVIOUS
      <3>1. last_clk - mainSub \in Clock
        BY <1>2, <1>3, <1>6, ConstantsFacts
      <3>2. last_clk' = last_clk - mainSub
        BY <1>6, <3>1, WrapInRange DEF Rewound
      <3>3. behind' = behind /\ behind = maincpu_clk - last_clk
        BY <1>2, <1>6
      <3>4. maincpu_clk' = maincpu_clk - mainSub /\ mainSub \in Nat
        BY <1>6, SubBounds
      <3> QED  BY <1>2, <3>2, <3>3, <3>4
    <2>3. maincpu_clk' < clk_max_value + sinceFrame'
      BY <1>1, <1>2, <1>3, <1>6, ConstantsFacts
    <2>4. CASE loop' = Main
      BY <1>1, <1>2, <1>3, <1>6, <2>1, <2>2, <2>3, <2>4, BackInStep DEF SyncInv
    <2>5. CASE loop' = At("rewound")
      <3>1. loop' \in LoopState /\ loop'.at = "rewound"
        BY <2>5 DEF LoopState, At
      <3>2. MainTypes' /\ MainGuarded'
        BY <1>1, <1>2, <1>3, <1>6, <2>1, <3>1 DEF MainTypes, MainGuarded
      <3>3. maincpu_clk' + mainSub \in Clock
        BY <1>2, <1>3, <1>6
      <3>4. mainSub' = mainSub
        BY DEF mainSub
      <3>5. Accounted'
        BY <1>2, <1>6, <2>2, <3>1, <3>3, <3>4 DEF Accounted
      <3> QED  BY <3>2, <3>5 DEF SyncInv
    <2> QED  BY <1>6, <2>4, <2>5
  <1>7. CASE /\ maincpu_clk >= clk_max_value
             /\ maincpu_clk' = maincpu_clk - mainSub
             /\ ~ enable /\ last_clk' = maincpu_clk'
             /\ loop' = Main /\ UNCHANGED <<enable, behind, doubled>>
    <2>1. maincpu_clk' < clk_max_value + sinceFrame' /\ last_clk' \in Nat
      BY <1>1, <1>2, <1>3, <1>7, ConstantsFacts
    <2> QED  BY <1>1, <1>2, <1>3, <1>7, <2>1, BackInStep DEF SyncInv
  <1>11. \/ maincpu_clk < clk_max_value /\ ~ (maincpu_clk >= clk_max_value)
         \/ maincpu_clk >= clk_max_value /\ ~ (maincpu_clk < clk_max_value)
    BY <1>2, ConstantsFacts
  <1>8. CASE maincpu_clk < clk_max_value
    BY <1>4, <1>8, <1>11, Zenon DEF Guards
  <1>9. CASE maincpu_clk >= clk_max_value /\ enable
    <2>1. PICK late \in OtherLate :
            IF last_clk < mainSub \/ late = "before"
            THEN StartExecute(maincpu_clk', maincpu_clk, "warp")
            ELSE /\ last_clk' = Rewound(last_clk, mainSub)
                 /\ loop' = IF late = "after" THEN At("rewound") ELSE Main
                 /\ UNCHANGED <<enable, behind, doubled>>
      BY <1>9, <1>11, Zenon DEF Guards
    <2>2. maincpu_clk' = maincpu_clk - mainSub
      BY <1>9, <1>11, Zenon DEF Guards
    <2>3. CASE last_clk < mainSub \/ late = "before"
      BY <1>5, <1>9, <2>1, <2>2, <2>3
    <2>4. CASE ~ (last_clk < mainSub \/ late = "before")
      <3>1. last_clk >= mainSub
        BY <1>2, <2>4, SubBounds
      <3> QED  BY <1>6, <1>9, <2>1, <2>2, <2>4, <3>1
    <2> QED  BY <2>3, <2>4
  <1>10. CASE maincpu_clk >= clk_max_value /\ ~ enable
    BY <1>7, <1>10, <1>11, Zenon DEF Guards
  <1> QED  BY <1>8, <1>9, <1>10, <1>11

LEMMA WarpLateAccounts ==
    ASSUME SyncInv, WarpLate
    PROVE  SyncInv'
  <1>1. /\ loop.at = "warp" /\ loop' = Main
        /\ UNCHANGED <<maincpu_clk, sinceFrame, enable, behind, doubled>>
        /\ last_clk' = Wrap(last_clk - mainSub)
    BY DEF WarpLate, At, machineVars, Rewound
  <1>2. /\ maincpu_clk \in Clock /\ maincpu_clk \in Nat
        /\ maincpu_clk < clk_max_value
        /\ sinceFrame \in 0 .. FrameCycles - 1 + MaxTick /\ sinceFrame \in Nat
        /\ behind = 0 /\ last_clk = maincpu_clk + mainSub
        /\ enable \in BOOLEAN /\ doubled \in BOOLEAN
    BY <1>1, ConstantsFacts DEF SyncInv, MainTypes, MainGuarded, Accounted
  <1>3. last_clk - mainSub = maincpu_clk
    BY <1>2, SubBounds
  <1>4. last_clk' = maincpu_clk'
    BY <1>1, <1>2, <1>3, WrapInRange
  <1>5. maincpu_clk' < clk_max_value + sinceFrame' /\ maincpu_clk' - last_clk' = 0
    BY <1>1, <1>2, <1>4, ConstantsFacts
  <1> QED  BY <1>1, <1>2, <1>4, <1>5, BackInStep DEF SyncInv

\* The second catching up of a drive that is already wound back.
LEMMA RunForLaterAccounts ==
    ASSUME SyncInv, RunForLater
    PROVE  SyncInv'
  <1>1. /\ loop.at = "rewound" /\ maincpu_clk' = maincpu_clk /\ sinceFrame' = sinceFrame
        /\ StartExecute(maincpu_clk, maincpu_clk + mainSub, "main")
    BY DEF RunForLater, At, machineVars
  <1>2. /\ maincpu_clk \in Clock /\ maincpu_clk + mainSub \in Clock
        /\ maincpu_clk < clk_max_value
        /\ sinceFrame \in 0 .. FrameCycles - 1 + MaxTick
    BY <1>1 DEF SyncInv, MainTypes, MainGuarded, Accounted
  <1> QED  BY <1>1, <1>2, HandedOver DEF Then

----------------------------------------------------------------------------
(* The drive's steps and the user's.                                        *)

LEMMA DriveDoneAccounts ==
    ASSUME SyncInv, DriveDone
    PROVE  SyncInv'
  <1>1. /\ loop.at = "drive" /\ loop' = At(loop.then) /\ last_clk' = loop.until
        /\ UNCHANGED <<maincpu_clk, sinceFrame, enable, behind, doubled>>
    BY DEF DriveDone, machineVars, historyVars
  <1>2. loop.until \in Clock /\ loop.then \in Then
    BY <1>1, InDrive DEF SyncInv, MainTypes
  <1>3. loop' \in LoopState /\ loop'.at = loop.then
    BY <1>1, <1>2, Places
  <1>4. last_clk' \in Nat
    BY <1>1, <1>2, ConstantsFacts
  <1>5. /\ behind = 0 /\ last_clk' = Until /\ doubled \in BOOLEAN
        /\ doubled = (loop.then = "main")
    BY <1>1 DEF SyncInv, Accounted
  <1>6. loop.then \notin {"warp", "main"} => behind' = maincpu_clk' - last_clk'
    BY <1>1, <1>5, ConstantsFacts DEF Until, SyncInv, MainTypes
  <1>7. Accounted'
    BY <1>1, <1>2, <1>3, <1>5, <1>6 DEF Accounted, Until, Then
  <1>8. MainTypes' /\ MainGuarded'
    BY <1>1, <1>2, <1>3, <1>4, ConstantsFacts DEF SyncInv, MainTypes, MainGuarded, Then
  <1> QED  BY <1>7, <1>8 DEF SyncInv

LEMMA UserAccounts ==
    ASSUME SyncInv, User
    PROVE  SyncInv'
  <1>1. loop = Main /\ loop' = loop
    BY DEF User, MachineReset, drive_set_disk_drive_type, EnableDrive, DisableDrive,
           drivecpu_trigger_reset
  <1>2. /\ loop.at = "main" /\ maincpu_clk \in Clock /\ maincpu_clk \in Nat
        /\ maincpu_clk < clk_max_value + sinceFrame
        /\ sinceFrame \in 0 .. FrameCycles - 1 + MaxTick
        /\ last_clk \in Nat /\ behind \in Nat /\ enable \in BOOLEAN /\ doubled \in BOOLEAN
        /\ enable /\ ~ doubled => behind = maincpu_clk - last_clk
    BY <1>1, ConstantsFacts DEF SyncInv, MainTypes, MainGuarded, Accounted, Main
  <1>3. CASE MachineReset
    <2>1. /\ maincpu_clk' = ResetClk /\ last_clk' = ResetClk /\ sinceFrame' = 0
          /\ behind' = 0 /\ enable' = enable /\ doubled' = FALSE
      BY <1>3 DEF MachineReset, drivecpu_reset, InStepAgain
    <2>2. /\ ResetClk \in Clock /\ ResetClk < clk_max_value + 0 /\ ResetClk \in Nat
          /\ 0 \in 0 .. FrameCycles - 1 + MaxTick
          /\ ResetClk - ResetClk = 0
      BY ConstantsFacts
    <2> QED  BY <1>1, <1>2, <2>1, <2>2, BackInStep DEF SyncInv
  <1>4. ASSUME /\ last_clk' = maincpu_clk /\ behind' = 0 /\ enable' \in BOOLEAN
               /\ doubled' = FALSE
               /\ UNCHANGED <<maincpu_clk, sinceFrame>>
        PROVE  SyncInv'
    <2>3. last_clk' = maincpu_clk /\ maincpu_clk' = maincpu_clk /\ behind' = 0
      BY <1>4
    <2>1. behind' = maincpu_clk' - last_clk' /\ behind' \in Nat /\ doubled' \in BOOLEAN
      <3>1. doubled' \in BOOLEAN
        BY <1>4
      <3>2. maincpu_clk \in Nat
        BY <1>2
      <3> QED  BY <2>3, <3>1, <3>2
    <2>2. /\ maincpu_clk' \in Clock /\ maincpu_clk' < clk_max_value + sinceFrame'
          /\ sinceFrame' \in 0 .. FrameCycles - 1 + MaxTick
          /\ last_clk' \in Nat /\ loop' = Main
      BY <1>1, <1>2, <1>4
    <2> QED  BY <1>4, <2>1, <2>2, BackInStep DEF SyncInv
  <1>5. CASE drive_set_disk_drive_type
    BY <1>2, <1>4, <1>5
       DEF drive_set_disk_drive_type, drivecpu_reset, InStepAgain, machineVars
  <1>6. CASE EnableDrive
    BY <1>4, <1>6 DEF EnableDrive, InStepAgain, machineVars
  <1>7. CASE DisableDrive
    <2>1. enable' = FALSE /\ behind' = 0
          /\ UNCHANGED <<maincpu_clk, sinceFrame, last_clk, doubled>>
      BY <1>7 DEF DisableDrive, machineVars
    <2> QED  BY <1>1, <1>2, <2>1, BackInStep DEF SyncInv
  <1>8. CASE drivecpu_trigger_reset
    <2>1. UNCHANGED <<maincpu_clk, sinceFrame, enable, last_clk, behind, doubled>>
      BY <1>8 DEF drivecpu_trigger_reset, machineVars, historyVars
    <2> QED  BY <1>1, <1>2, <2>1, BackInStep DEF SyncInv
  <1> QED  BY <1>3, <1>5, <1>6, <1>7, <1>8 DEF User

LEMMA SyncInvStep == SyncInv /\ [Next]_syncVars => SyncInv'
  <1> SUFFICES ASSUME SyncInv, [Next]_syncVars PROVE SyncInv'
    OBVIOUS
  <1>1. ASSUME NEW n \in 1 .. MaxTick, MainInstruction(n) PROVE SyncInv'
    BY <1>1, MainInstructionAccounts
  <1>2. CASE FrameEnd
    BY <1>2, FrameEndAccounts
  <1>3. CASE Guards
    BY <1>3, GuardsAccount
  <1>4. CASE WarpLate
    BY <1>4, WarpLateAccounts
  <1>12. CASE RunForLater
    BY <1>12, RunForLaterAccounts
  <1>5. ASSUME NEW n \in 1 .. MaxDriveTick, DriveInstruction(n) PROVE SyncInv'
    BY <1>5, NothingOwedChanges DEF DriveInstruction, DriveRuns, machineVars
  <1>6. ASSUME NEW next \in Clock, IdleTrap(next) PROVE SyncInv'
    BY <1>6, NothingOwedChanges DEF IdleTrap, DriveRuns, machineVars
  <1>7. CASE DriveDone
    BY <1>7, DriveDoneAccounts
  <1>8. CASE MainAccess
    BY <1>8, MainAccessAccounts
  <1>9. CASE Accessed
    BY <1>9, AccessedAccounts
  <1>10. CASE User
    BY <1>10, UserAccounts
  <1>11. CASE UNCHANGED syncVars
    BY <1>11 DEF syncVars, machineVars, driveVars, historyVars, SyncInv, MainTypes,
                 MainGuarded, Accounted, Until
  <1> QED  BY <1>1, <1>2, <1>3, <1>4, <1>5, <1>6, <1>7, <1>8, <1>9, <1>10, <1>11, <1>12
              DEF Next, Machine, Access

----------------------------------------------------------------------------
(* However often either clock is wound back, and whoever is reset, the next *)
(* catching up hands over the main cycles since the last one, unless that   *)
(* was the second one in an overflow.                                       *)
THEOREM NoCycleEverLost == Spec => []NoCycleLost
  <1>1. ASSUME SyncInv PROVE NoCycleLost
    <2> SUFFICES ASSUME enable, loop = Main, ~ doubled
                 PROVE  behind = Wrap(maincpu_clk - last_clk)
      BY DEF NoCycleLost
    <2>1. loop.at = "main"
      BY DEF Main
    <2>2. /\ behind = maincpu_clk - last_clk /\ behind \in Nat
          /\ maincpu_clk \in Clock /\ last_clk \in Nat
      BY <1>1, <2>1 DEF SyncInv, MainTypes, Accounted
    <2>3. behind \in Clock
      BY <1>1, <2>2, ConstantsFacts DEF SyncInv
    <2> QED  BY <2>2, <2>3, WrapInRange
  <1> QED  BY <1>1, InitiallySyncInv, SyncInvStep, PTL DEF Spec

----------------------------------------------------------------------------
(* The drive in step.                                                       *)

DriveTypes ==
    /\ clk \in Clock /\ stop_clk \in Clock
    /\ cycle_accum \in 0 .. Unit - 1
    /\ sync_factor \in Nat /\ clock_frequency \in {1, 2}
    /\ tracked \in BOOLEAN
    /\ tracked => ~ doubled

\* The drive is x cycles beyond stop_clk, however often the clocks have wrapped,
\* and has executed as much more, or less, than it owes.
Beyond(x) ==
    /\ \E rounds \in Int : clk - stop_clk = x + Modulus * rounds
    /\ lead = Unit * x - cycle_accum

\* While the drive executes it may be behind, by less than half a clock's range.
InReach(x) ==
    /\ x < LongestPass
    /\ IF Between THEN x >= 0 ELSE -x < Modulus \div 2

Tracks == tracked => \E x \in Int : Beyond(x) /\ InReach(x)

DriveInv == SyncInv /\ DriveTypes /\ Tracks

----------------------------------------------------------------------------
(* Arithmetic modulo the range of a clock.                                  *)

LEMMA Half ==
    /\ Modulus \div 2 \in Nat
    /\ 2 * (Modulus \div 2) <= Modulus
    /\ LongestPass \in Nat \ {0} /\ LongestPass <= Modulus \div 2
  BY ModulusAssumption, ResetAssumption, PassAssumption DEF LongestPass

LEMMA Rounds ==
    /\ \A a, b \in Int : Modulus * (a + b) = Modulus * a + Modulus * b
    /\ \A a, b \in Int : Modulus * (a - b) = Modulus * a - Modulus * b
    /\ \A a \in Int : Modulus * a \in Int
    /\ \A a \in Int : Modulus * a < Modulus => a <= 0
    /\ \A a \in Int : Modulus * a > 0 - Modulus => a >= 0
    /\ \A a \in Int : Modulus * a > 0 => a >= 1
    /\ \A a \in Int : Modulus * a < 2 * Modulus => a <= 1
  BY ModulusAssumption

\* What looks like the past is behind, if it is not too far away.
LEMMA LooksBehind ==
    ASSUME NEW x \in Int, x < LongestPass, -x < Modulus \div 2,
           clk \in Clock, stop_clk \in Clock,
           \E rounds \in Int : clk - stop_clk = x + Modulus * rounds
    PROVE  Before(clk, stop_clk) <=> x < 0
  <1>1. PICK k \in Int : clk - stop_clk = x + Modulus * k
    OBVIOUS
  <1>2. clk - stop_clk \in Int /\ Modulus \in Nat \ {0}
    BY ConstantsFacts
  <1>3. PICK q \in Int : Wrap(clk - stop_clk) = clk - stop_clk + Modulus * q
    BY <1>2, WrapIs
  <1> DEFINE w == Wrap(clk - stop_clk)
             h == Modulus \div 2
             rest == Modulus * (k + q)
  <1>4. w \in 0 .. Modulus - 1
    BY <1>2, WrapIs
  <1>5. h \in Nat /\ 2 * h <= Modulus /\ x < h /\ 0 - x < h
    BY Half, <1>2
  <1>6. Modulus * k \in Int /\ Modulus * q \in Int
        /\ rest = Modulus * k + Modulus * q /\ rest \in Int
    BY <1>1, <1>3, Rounds
  <1>7. Before(clk, stop_clk) <=> w >= h
    BY DEF Before
  <1> HIDE DEF w, h, rest
  <1>8. w = x + rest
    BY <1>1, <1>2, <1>3, <1>6 DEF w
  <1>9. CASE x >= 0
    <2>1. rest < Modulus /\ rest > 0 - Modulus
      BY <1>2, <1>4, <1>5, <1>6, <1>8, <1>9
    <2>2. k + q \in Int /\ k + q <= 0 /\ k + q >= 0
      BY <2>1, <1>1, <1>3, Rounds DEF rest
    <2>3. rest = 0
      <3>1. k + q = 0
        BY <2>2
      <3> QED  BY <3>1, <1>2 DEF rest
    <2> QED  BY <1>4, <1>5, <1>7, <1>8, <1>9, <2>3
  <1>10. CASE x < 0
    <2>1. rest < 2 * Modulus /\ rest > 0
      BY <1>2, <1>4, <1>5, <1>6, <1>8, <1>10
    <2>2. k + q \in Int /\ k + q <= 1 /\ k + q >= 1
      BY <2>1, <1>1, <1>3, Rounds DEF rest
    <2>3. rest = Modulus
      <3>1. k + q = 1
        BY <2>2
      <3> QED  BY <3>1, <1>2 DEF rest
    <2> QED  BY <1>2, <1>4, <1>5, <1>7, <1>8, <1>10, <2>3
  <1> QED  BY <1>9, <1>10

LEMMA Fractions ==
    /\ Unit \in Nat \ {0}
    /\ \A a, b \in Int : Unit * (a + b) = Unit * a + Unit * b
    /\ \A a, b \in Int : Unit * (a - b) = Unit * a - Unit * b
    /\ \A a \in Int : Unit * a \in Int
    /\ \A a \in Nat : Unit * a >= 0
    /\ \A a, b \in Int : a < b => Unit * a + Unit <= Unit * b
  BY UnitAssumption

----------------------------------------------------------------------------
(* How the drive gets in step, and stays there.                             *)

\* A clock is x beyond another for as long as they differ by x and full rounds.
LEMMA StaysBeyond ==
    ASSUME NEW x \in Int, InReach(x)', clk' \in Int, stop_clk' \in Int,
           NEW rounds \in Int, clk' - stop_clk' = x + Modulus * rounds,
           lead' = Unit * x - cycle_accum'
    PROVE  Tracks'
  <1>1. Beyond(x)'
    BY DEF Beyond
  <1> QED  BY <1>1 DEF Tracks

LEMMA PutInStep ==
    ASSUME clk' \in Clock, stop_clk' = clk', lead' = - cycle_accum,
           cycle_accum' = cycle_accum, cycle_accum \in Int, Between'
    PROVE  Tracks'
  <1>1. InReach(0)'
    BY Half DEF InReach
  <1>2. clk' \in Int /\ Modulus * 0 = 0
    BY ConstantsFacts
  <1>3. lead' = Unit * 0 - cycle_accum'
    BY Fractions
  <1>4. stop_clk' \in Int /\ clk' - stop_clk' = 0 + Modulus * 0 /\ 0 \in Int
    BY <1>2
  <1> QED  BY <1>1, <1>2, <1>3, <1>4, StaysBeyond

\* Nothing happens to the drive, or something after which it is not tracked.
LEMMA Undisturbed ==
    ASSUME Tracks, Between' = Between,
           tracked' => tracked /\ UNCHANGED <<clk, stop_clk, cycle_accum, lead>>
    PROVE  Tracks'
  <1> SUFFICES ASSUME tracked' PROVE Tracks'
    BY DEF Tracks
  <1>1. PICK x \in Int : Beyond(x) /\ InReach(x)
    BY DEF Tracks
  <1>2. Beyond(x)' /\ InReach(x)'
    BY <1>1 DEF Beyond, InReach
  <1> QED  BY <1>2 DEF Tracks

\* What the drive is to execute is cut into whole cycles and a fraction.
LEMMA CatchingUpStays ==
    ASSUME DriveTypes, Tracks, Between, behind \in Nat, last_clk \in Nat,
           NEW now \in Int, NEW value \in Int, NEW then \in Then,
           StartExecute(now, value, then), sync_factor' = sync_factor,
           tracked => behind = value - last_clk \/ then = "main",
           then \notin {"warp", "main"} => now = value
    PROVE  DriveTypes' /\ Tracks'
  <1> DEFINE factor == sync_factor * clock_frequency
             last == IF Skips(now) THEN now ELSE last_clk
             total == cycle_accum + factor * CyclesOwed(value, last)
             q == total \div Unit
             r == total % Unit
             kept == /\ tracked
                     /\ then # "main"
                     /\ ~ (Skips(now) /\ then = "warp")
                     /\ q < Modulus \div 2
  <1>1. /\ stop_clk' = Wrap(stop_clk + q) /\ cycle_accum' = r
        /\ loop' = Executing(value, then)
        /\ tracked' = kept /\ doubled' = (then = "main")
        /\ lead' = IF ~ kept THEN 0 ELSE IF Skips(now) THEN lead ELSE lead - factor * behind
        /\ UNCHANGED <<clk, clock_frequency>>
    BY DEF StartExecute, Remainder
  <1>2. CyclesOwed(value, last) \in Nat
    BY DEF CyclesOwed
  <1>3. factor \in Nat /\ factor * behind \in Nat /\ total \in Nat
    <2>1. \A a, b \in Nat : a * b \in Nat
      OBVIOUS
    <2>2. sync_factor \in Nat /\ clock_frequency \in Nat /\ cycle_accum \in Nat
      BY DEF DriveTypes
    <2>3. factor \in Nat
      BY <2>1, <2>2
    <2>4. factor * behind \in Nat /\ factor * CyclesOwed(value, last) \in Nat
      BY <1>2, <2>1, <2>3
    <2> QED  BY <2>2, <2>3, <2>4
  <1>4. /\ q \in Nat /\ r \in 0 .. Unit - 1 /\ total = Unit * q + r
    <2>1. \A n \in Nat, d \in Nat \ {0} : n \div d \in Nat
      OBVIOUS
    <2>2. Unit \in Nat \ {0} /\ total \in Int
      BY <1>3, Fractions
    <2>3. r \in 0 .. Unit - 1 /\ total = Unit * q + r
      BY <2>2, Division
    <2>4. q \in Nat
      BY <1>3, <2>1, <2>2
    <2> QED  BY <2>3, <2>4
  <1>5. kept => total = cycle_accum + (IF Skips(now) THEN 0 ELSE factor * behind)
    <2>1. \A a \in Nat : a * 0 = 0
      OBVIOUS
    <2>2. CASE Skips(now) /\ now = value
      <3>1. CyclesOwed(value, last) = 0
        BY <2>2 DEF CyclesOwed
      <3> QED  BY <1>3, <2>1, <2>2, <3>1
    <2>3. CASE ~ Skips(now)
      <3>1. kept => CyclesOwed(value, last) = behind
        BY <2>3 DEF CyclesOwed
      <3> QED  BY <2>3, <3>1
    <2> QED  BY <2>2, <2>3 DEF Then
  <1>6. stop_clk + q \in Int /\ clk \in Int /\ stop_clk \in Int /\ cycle_accum \in Int
        /\ tracked \in BOOLEAN
    BY <1>4, ConstantsFacts DEF DriveTypes
  <1>7. kept \in BOOLEAN
    BY <1>6
  <1>8. loop'.at = "drive"
    BY <1>1 DEF Executing
  <1> HIDE DEF factor, last, total, q, r
  <1>9. DriveTypes'
    <2>1. stop_clk' \in Clock
      BY <1>1, <1>6, WrapIs
    <2> QED  BY <1>1, <1>4, <1>7, <2>1 DEF DriveTypes
  <1>10. Tracks'
    <2> SUFFICES ASSUME kept PROVE Tracks'
      BY <1>1 DEF Tracks
    <2>1. PICK x \in Int : Beyond(x) /\ InReach(x)
      BY DEF Tracks
    <2>2. PICK rounds \in Int : clk - stop_clk = x + Modulus * rounds
      BY <2>1 DEF Beyond
    <2>3. PICK w \in Int : Wrap(stop_clk + q) = stop_clk + q + Modulus * w
      BY <1>6, WrapIs
    <2>4. PICK cycles \in Nat : cycles = q
      BY <1>4
    <2>5. x >= 0 /\ x < LongestPass /\ cycles < Modulus \div 2
      BY <2>1, <2>4 DEF InReach
    <2>6. InReach(x - cycles)'
      <3>1. x - cycles < LongestPass /\ -(x - cycles) < Modulus \div 2
        BY <2>1, <2>4, <2>5, Half
      <3> QED  BY <3>1, <1>8 DEF InReach, Between
    <2>7. /\ clk' \in Int /\ stop_clk' \in Int /\ x - cycles \in Int /\ rounds - w \in Int
      <3>1. clk' \in Int /\ stop_clk' \in Int
        BY <1>9, ConstantsFacts DEF DriveTypes
      <3> QED  BY <2>1, <2>2, <2>3, <2>4, <3>1
    <2>8. clk' - stop_clk' = x - cycles + Modulus * (rounds - w)
      <3>1. /\ Modulus * (rounds - w) = Modulus * rounds - Modulus * w
            /\ Modulus * rounds \in Int /\ Modulus * w \in Int
        BY <2>2, <2>3, Rounds
      <3> DEFINE a == Modulus * rounds
                 b == Modulus * w
      <3>2. clk' = clk /\ stop_clk' = stop_clk + cycles + b
        BY <1>1, <2>3, <2>4
      <3>3. a \in Int /\ b \in Int /\ clk - stop_clk = x + a
        BY <2>2, <3>1
      <3> HIDE DEF a, b
      <3>4. clk' - stop_clk' = x - cycles + (a - b)
        BY <1>6, <2>1, <2>4, <3>2, <3>3
      <3> QED  BY <3>1, <3>4 DEF a, b
    <2>9. lead' = Unit * (x - cycles) - cycle_accum'
      <3> DEFINE a == Unit * x
                 b == Unit * cycles
                 owed == factor * behind
      <3>1. Unit * (x - cycles) = a - b /\ a \in Int /\ b \in Int
        BY <2>1, <2>4, Fractions
      <3>2. lead = a - cycle_accum
        BY <2>1 DEF Beyond
      <3>3. total = b + r /\ owed \in Nat /\ r \in Int
        BY <1>3, <1>4, <2>4
      <3>4. total = cycle_accum + (IF Skips(now) THEN 0 ELSE owed)
        BY <1>5
      <3>5. lead' = (IF Skips(now) THEN lead ELSE lead - owed) /\ cycle_accum' = r
        BY <1>1
      <3> HIDE DEF a, b, owed
      <3>6. lead' = (a - b) - cycle_accum'
        BY <1>6, <3>1, <3>2, <3>3, <3>4, <3>5
      <3> QED  BY <3>1, <3>6
    <2> QED  BY <2>6, <2>7, <2>8, <2>9, StaysBeyond
  <1> QED  BY <1>9, <1>10

\* The loop of the drive is entered only by one that is behind.
LEMMA BehindWhileItRuns ==
    ASSUME DriveTypes, DriveRuns, NEW x \in Int, Beyond(x), InReach(x)
    PROVE  x < 0 /\ -x < Modulus \div 2
  <1>1. x < LongestPass /\ -x < Modulus \div 2
    BY DEF InReach, DriveRuns, Between
  <1>2. Before(clk, stop_clk)
    BY DEF DriveRuns
  <1> QED  BY <1>1, <1>2, LooksBehind DEF Beyond, DriveTypes

\* The clock of a drive is moved by what it executes, and may wrap.
LEMMA PassStays ==
    ASSUME DriveTypes, Tracks, NEW n \in 1 .. MaxDriveTick, DriveInstruction(n)
    PROVE  DriveTypes' /\ Tracks'
  <1>1. PICK ran \in Nat : ran = IF resetPending THEN ResetClk + n ELSE n
    BY ConstantsFacts, PassAssumption
  <1>2. ran < LongestPass + 1 /\ clk \in Int /\ clk + ran \in Int /\ cycle_accum \in Int
        /\ stop_clk \in Int
    BY <1>1, ConstantsFacts, PassAssumption DEF LongestPass, DriveTypes
  <1>3. /\ loop' = loop /\ stop_clk' = stop_clk /\ cycle_accum' = cycle_accum
        /\ UNCHANGED sync_factor /\ clock_frequency' \in {1, 2}
        /\ tracked' = (tracked /\ (resetPending => clk = 0)) /\ doubled' = doubled
        /\ tracked' => lead' = lead + Unit * ran
        /\ clk' = Wrap((IF resetPending THEN ResetClk ELSE clk) + n)
    BY <1>1 DEF DriveInstruction, machineVars
  <1>4. tracked' => clk' = Wrap(clk + ran)
    <2> SUFFICES ASSUME tracked' PROVE clk' = Wrap(clk + ran)
      OBVIOUS
    <2>1. (IF resetPending THEN ResetClk ELSE clk) + n = clk + ran
      <3>1. resetPending => clk = 0
        BY <1>3
      <3> QED  BY <1>1, <1>2, <3>1, ConstantsFacts
    <2> QED  BY <1>3, <2>1
  <1>5. DriveTypes'
    <2>1. (IF resetPending THEN ResetClk ELSE clk) + n \in Int
      BY <1>2, ConstantsFacts
    <2>2. clk' \in Clock
      BY <1>3, <2>1, WrapIs
    <2>3. tracked' \in BOOLEAN
      BY <1>3 DEF DriveTypes
    <2> QED  BY <1>3, <2>2, <2>3 DEF DriveTypes
  <1>6. Tracks'
    <2> SUFFICES ASSUME tracked' PROVE Tracks'
      BY DEF Tracks
    <2>1. PICK x \in Int : Beyond(x) /\ InReach(x)
      BY <1>3 DEF Tracks
    <2>2. DriveRuns
      BY DEF DriveInstruction
    <2>3. x < 0 /\ -x < Modulus \div 2
      BY <2>1, <2>2, BehindWhileItRuns
    <2>4. PICK rounds \in Int : clk - stop_clk = x + Modulus * rounds
      BY <2>1 DEF Beyond
    <2>5. PICK w \in Int : Wrap(clk + ran) = clk + ran + Modulus * w
      BY <1>2, WrapIs
    <2>6. InReach(x + ran)'
      <3>1. x + ran < LongestPass /\ -(x + ran) < Modulus \div 2
        BY <1>1, <1>2, <2>1, <2>3, Half
      <3>2. loop'.at = "drive"
        BY <1>3, <2>2 DEF DriveRuns
      <3> QED  BY <3>1, <3>2 DEF InReach, Between
    <2>7. clk' \in Int /\ stop_clk' \in Int /\ x + ran \in Int /\ rounds + w \in Int
      <3>1. clk' \in Int /\ stop_clk' \in Int
        BY <1>5, ConstantsFacts DEF DriveTypes
      <3> QED  BY <1>1, <2>1, <2>4, <2>5, <3>1
    <2>8. clk' - stop_clk' = x + ran + Modulus * (rounds + w)
      <3> DEFINE a == Modulus * rounds
                 b == Modulus * w
      <3>1. Modulus * (rounds + w) = a + b /\ a \in Int /\ b \in Int
        BY <2>4, <2>5, Rounds
      <3>2. clk' = clk + ran + b /\ stop_clk' = stop_clk /\ clk - stop_clk = x + a
        BY <1>3, <1>4, <2>4, <2>5
      <3> HIDE DEF a, b
      <3>3. clk' - stop_clk' = x + ran + (a + b)
        BY <1>1, <1>2, <2>1, <3>1, <3>2
      <3> QED  BY <3>1, <3>3
    <2>9. lead' = Unit * (x + ran) - cycle_accum'
      <3> DEFINE a == Unit * x
                 b == Unit * ran
      <3>1. Unit * (x + ran) = a + b /\ a \in Int /\ b \in Int
        BY <1>1, <2>1, Fractions
      <3>2. lead = a - cycle_accum /\ lead' = lead + b /\ cycle_accum' = cycle_accum
        BY <1>3, <2>1 DEF Beyond
      <3> HIDE DEF a, b
      <3>3. lead' = (a + b) - cycle_accum'
        BY <1>2, <3>1, <3>2
      <3> QED  BY <3>1, <3>3
    <2> QED  BY <2>6, <2>7, <2>8, <2>9, StaysBeyond
  <1> QED  BY <1>5, <1>6

\* An idling drive goes ahead to stop_clk at most.
LEMMA IdleTrapStays ==
    ASSUME DriveTypes, Tracks, NEW next \in Clock, IdleTrap(next)
    PROVE  DriveTypes' /\ Tracks'
  <1>1. /\ loop' = loop /\ stop_clk' = stop_clk /\ cycle_accum' = cycle_accum
        /\ UNCHANGED <<sync_factor, clock_frequency, tracked, doubled>>
        /\ clk' = next /\ next \in clk + 1 .. stop_clk
        /\ tracked => lead' = lead + Unit * (next - clk)
    BY DEF IdleTrap, machineVars
  <1>2. DriveTypes'
    BY <1>1 DEF DriveTypes
  <1>3. next \in Int /\ clk \in Int /\ stop_clk \in Int /\ cycle_accum \in Int
        /\ clk < next /\ next <= stop_clk /\ clk >= 0 /\ stop_clk < Modulus
        /\ Modulus \in Nat
    BY <1>1, ConstantsFacts DEF DriveTypes
  <1>4. Tracks'
    <2> SUFFICES ASSUME tracked' PROVE Tracks'
      BY DEF Tracks
    <2>1. PICK x \in Int : Beyond(x) /\ InReach(x)
      BY <1>1 DEF Tracks
    <2>2. DriveRuns
      BY DEF IdleTrap
    <2>3. x < 0 /\ -x < Modulus \div 2
      BY <2>1, <2>2, BehindWhileItRuns
    <2>4. PICK rounds \in Int : clk - stop_clk = x + Modulus * rounds
      BY <2>1 DEF Beyond
    <2>5. PICK ran \in Nat : ran = next - clk
      BY <1>3
    <2>6. clk - stop_clk = x
      <3> DEFINE a == Modulus * rounds
      <3>1. a \in Int /\ clk - stop_clk = x + a
        BY <2>4, Rounds
      <3> HIDE DEF a
      <3>2. a < Modulus /\ a > 0 - Modulus
        BY <1>3, <2>1, <2>3, <3>1, Half
      <3>3. rounds = 0
        BY <2>4, <3>2, Rounds DEF a
      <3>4. Modulus * 0 = 0
        BY <1>3
      <3> QED  BY <2>1, <2>4, <3>3, <3>4
    <2>7. InReach(x + ran)'
      <3>1. x + ran < LongestPass /\ -(x + ran) < Modulus \div 2
        BY <1>3, <2>1, <2>3, <2>5, <2>6, Half
      <3>2. loop'.at = "drive"
        BY <1>1, <2>2 DEF DriveRuns
      <3> QED  BY <3>1, <3>2 DEF InReach, Between
    <2>8. clk' \in Int /\ stop_clk' \in Int /\ x + ran \in Int /\ 0 \in Int
      BY <1>1, <1>3, <2>1, <2>5
    <2>9. clk' - stop_clk' = x + ran + Modulus * 0
      BY <1>1, <1>3, <2>5, <2>6
    <2>10. lead' = Unit * (x + ran) - cycle_accum'
      <3> DEFINE a == Unit * x
                 b == Unit * ran
      <3>1. Unit * (x + ran) = a + b /\ a \in Int /\ b \in Int
        BY <2>1, <2>5, Fractions
      <3>2. lead = a - cycle_accum /\ lead' = lead + b /\ cycle_accum' = cycle_accum
        BY <1>1, <2>1, <2>5 DEF Beyond
      <3> HIDE DEF a, b
      <3>3. lead' = (a + b) - cycle_accum'
        BY <1>3, <3>1, <3>2
      <3> QED  BY <3>1, <3>3
    <2> QED  BY <2>7, <2>8, <2>9, <2>10, StaysBeyond
  <1> QED  BY <1>2, <1>4

\* The drive stops when it is not behind any more.
LEMMA DriveDoneStays ==
    ASSUME MainTypes, DriveTypes, Tracks, DriveDone
    PROVE  DriveTypes' /\ Tracks'
  <1>1. /\ loop.at = "drive" /\ ~ Before(clk, stop_clk) /\ loop' = At(loop.then)
        /\ UNCHANGED <<sync_factor, clock_frequency, clk, stop_clk, cycle_accum,
                       tracked, doubled, lead>>
    BY DEF DriveDone, machineVars, historyVars
  <1>2. DriveTypes'
    BY <1>1 DEF DriveTypes
  <1>3. Between' /\ ~ Between
    BY <1>1, InDrive, Places DEF MainTypes, Between, Then
  <1>4. Tracks'
    <2> SUFFICES ASSUME tracked' PROVE Tracks'
      BY DEF Tracks
    <2>1. PICK x \in Int : Beyond(x) /\ InReach(x)
      BY <1>1 DEF Tracks
    <2>2. ~ (x < 0)
      BY <1>1, <1>3, <2>1, LooksBehind DEF Beyond, InReach, DriveTypes
    <2>3. Beyond(x)'
      BY <1>1, <2>1 DEF Beyond
    <2>4. InReach(x)'
      <3>1. x >= 0 /\ x < LongestPass
        BY <2>1, <2>2, Half DEF InReach
      <3> QED  BY <1>3, <3>1 DEF InReach
    <2> QED  BY <2>3, <2>4 DEF Tracks
  <1> QED  BY <1>2, <1>4

\* Winding the drive's clock back: the drive is not tracked any more.
LEMMA DriveGuardStays ==
    ASSUME DriveTypes, Tracks, DriveGuard(tracked), Between,
           loop' \in {Main, At("rewound")},
           UNCHANGED <<sync_factor, clock_frequency, stop_clk, cycle_accum, doubled>>
    PROVE  DriveTypes' /\ Tracks'
  <1>1. clk' \in Clock
    BY ConstantsFacts DEF DriveGuard, driveSub, DriveTypes
  <1>2. tracked' \in BOOLEAN /\ (tracked' => ~ doubled')
    BY DEF DriveGuard, DriveTypes
  <1>3. Between'
    BY DEF Between, Main, At
  <1>4. tracked' => tracked /\ UNCHANGED <<clk, stop_clk, cycle_accum, lead>>
    BY DEF DriveGuard
  <1> QED  BY <1>1, <1>2, <1>3, <1>4, Undisturbed DEF DriveTypes

LEMMA GuardsStay ==
    ASSUME SyncInv, DriveTypes, Tracks, Guards
    PROVE  DriveTypes' /\ Tracks'
  <1>1. loop.at = "guard" /\ sync_factor' = sync_factor
    BY DEF Guards, At
  <1>2. Between
    BY <1>1 DEF Between
  <1>3. CASE /\ loop' \in {Main, At("rewound")} /\ DriveGuard(tracked)
             /\ UNCHANGED <<clock_frequency, stop_clk, cycle_accum, doubled>>
    BY <1>1, <1>2, <1>3, DriveGuardStays
  <1>4. CASE /\ enable /\ maincpu_clk' = maincpu_clk - mainSub
             /\ StartExecute(maincpu_clk', maincpu_clk, "warp")
    <2>1. PICK now \in Int : now = maincpu_clk'
      BY <1>4, SubBounds, ConstantsFacts DEF SyncInv, MainTypes
    <2>2. /\ maincpu_clk \in Int /\ behind \in Nat /\ last_clk \in Nat
          /\ tracked => behind = maincpu_clk - last_clk
      BY <1>1, <1>4, ConstantsFacts DEF SyncInv, MainTypes, Accounted, DriveTypes
    <2> QED  BY <1>1, <1>2, <1>4, <2>1, <2>2, CatchingUpStays DEF Then
  <1> QED  BY <1>3, <1>4 DEF Guards

LEMMA WarpLateStays ==
    ASSUME DriveTypes, Tracks, WarpLate
    PROVE  DriveTypes' /\ Tracks'
  BY DriveGuardStays DEF WarpLate, Between, At, machineVars

LEMMA RunForLaterStays ==
    ASSUME SyncInv, DriveTypes, Tracks, RunForLater
    PROVE  DriveTypes' /\ Tracks'
  <1>1. /\ loop.at = "rewound" /\ sync_factor' = sync_factor
        /\ StartExecute(maincpu_clk, maincpu_clk + mainSub, "main")
    BY DEF RunForLater, At, machineVars
  <1>2. Between
    BY <1>1 DEF Between
  <1>3. /\ maincpu_clk \in Int /\ maincpu_clk + mainSub \in Int
        /\ behind \in Nat /\ last_clk \in Nat
    BY SubBounds, ConstantsFacts DEF SyncInv, MainTypes
  <1> QED  BY <1>1, <1>2, <1>3, CatchingUpStays DEF Then

----------------------------------------------------------------------------
(* The steps of the main CPU and of the user.                               *)

\* The drive is not concerned.
LEMMA ElsewhereStays ==
    ASSUME DriveTypes, Tracks, Between, Between',
           UNCHANGED <<sync_factor, clock_frequency, clk, stop_clk, cycle_accum,
                       tracked, lead, doubled>>
    PROVE  DriveTypes' /\ Tracks'
  BY Undisturbed DEF DriveTypes

LEMMA MainAccessStays ==
    ASSUME SyncInv, DriveTypes, Tracks, MainAccess
    PROVE  DriveTypes' /\ Tracks'
  <1>1. loop.at = "main" /\ sync_factor' = sync_factor
    BY DEF MainAccess, machineVars, Main
  <1>2. Between
    BY <1>1 DEF Between
  <1>3. CASE enable
    <2>1. StartExecute(maincpu_clk, maincpu_clk, "access")
      BY <1>3 DEF MainAccess
    <2>2. /\ maincpu_clk \in Int /\ behind \in Nat /\ last_clk \in Nat
          /\ tracked => behind = maincpu_clk - last_clk
      BY <1>1, <1>3, ConstantsFacts DEF SyncInv, MainTypes, Accounted, DriveTypes
    <2> QED  BY <1>1, <1>2, <2>1, <2>2, CatchingUpStays DEF Then
  <1>4. CASE ~ enable
    BY <1>1, <1>2, <1>4, ElsewhereStays
       DEF MainAccess, driveVars, historyVars, At, Between
  <1> QED  BY <1>3, <1>4

LEMMA FrameEndStays ==
    ASSUME SyncInv, DriveTypes, Tracks, FrameEnd
    PROVE  DriveTypes' /\ Tracks'
  <1>1. loop.at = "main" /\ sync_factor' = sync_factor
    BY DEF FrameEnd, Main
  <1>2. Between
    BY <1>1 DEF Between
  <1>3. CASE enable /\ idling_method # "SKIP_CYCLES"
    <2>1. StartExecute(maincpu_clk, maincpu_clk, "guard")
      BY <1>3 DEF FrameEnd
    <2>2. /\ maincpu_clk \in Int /\ behind \in Nat /\ last_clk \in Nat
          /\ tracked => behind = maincpu_clk - last_clk
      BY <1>1, <1>3, ConstantsFacts DEF SyncInv, MainTypes, Accounted, DriveTypes
    <2> QED  BY <1>1, <1>2, <2>1, <2>2, CatchingUpStays DEF Then
  <1>4. CASE ~ (enable /\ idling_method # "SKIP_CYCLES")
    BY <1>1, <1>2, <1>4, ElsewhereStays
       DEF FrameEnd, driveVars, historyVars, At, Between
  <1> QED  BY <1>3, <1>4

LEMMA UserStays ==
    ASSUME DriveTypes, Tracks, User
    PROVE  DriveTypes' /\ Tracks'
  <1>1. loop = Main /\ loop' = loop /\ sync_factor' = sync_factor
    BY DEF User, MachineReset, drive_set_disk_drive_type, EnableDrive, DisableDrive,
           drivecpu_trigger_reset, machineVars
  <1>2. Between /\ Between'
    BY <1>1 DEF Between, Main
  <1>3. 0 \in Clock /\ cycle_accum \in Int
    BY ConstantsFacts, UnitAssumption DEF DriveTypes
  <1>4. ASSUME InStepAgain, clk' \in Clock, stop_clk' = clk', cycle_accum' = cycle_accum,
               clock_frequency' \in {1, 2}
        PROVE  DriveTypes' /\ Tracks'
    <2>1. Tracks'
      BY <1>2, <1>3, <1>4, PutInStep DEF InStepAgain
    <2> QED  BY <1>1, <1>4, <2>1 DEF InStepAgain, DriveTypes
  <1>5. CASE MachineReset
    BY <1>3, <1>4, <1>5 DEF MachineReset, drivecpu_reset, DriveTypes
  <1>6. CASE drive_set_disk_drive_type
    BY <1>3, <1>4, <1>6 DEF drive_set_disk_drive_type, drivecpu_reset
  <1>7. CASE EnableDrive
    BY <1>4, <1>7 DEF EnableDrive, DriveTypes
  <1>8. CASE DisableDrive
    BY <1>1, <1>2, <1>8, ElsewhereStays DEF DisableDrive
  <1>9. CASE drivecpu_trigger_reset
    BY <1>1, <1>2, <1>9, ElsewhereStays DEF drivecpu_trigger_reset, historyVars
  <1> QED  BY <1>5, <1>6, <1>7, <1>8, <1>9 DEF User

----------------------------------------------------------------------------
LEMMA InitiallyTracks == Init => DriveTypes /\ Tracks
  <1> SUFFICES ASSUME Init PROVE DriveTypes /\ Tracks
    OBVIOUS
  <1>1. DriveTypes
    BY ConstantsFacts, UnitAssumption DEF Init, DriveTypes
  <1>2. 0 \in Int /\ Modulus * 0 = 0 /\ Unit * 0 = 0
    BY ConstantsFacts, UnitAssumption
  <1>3. Between
    BY DEF Init, Between, Main
  <1>4. InReach(0)
    BY <1>3, Half DEF InReach
  <1>5. clk - stop_clk = 0 + Modulus * 0 /\ lead = Unit * 0 - cycle_accum
    BY <1>2 DEF Init
  <1>6. Beyond(0)
    BY <1>2, <1>5 DEF Beyond
  <1> QED  BY <1>1, <1>2, <1>4, <1>6 DEF Tracks

LEMMA DriveInvStep == DriveInv /\ [Next]_syncVars => DriveInv'
  <1> SUFFICES ASSUME DriveInv, [Next]_syncVars PROVE DriveTypes' /\ Tracks'
    BY SyncInvStep DEF DriveInv
  <1> USE DEF DriveInv
  <1>1. ASSUME NEW n \in 1 .. MaxTick, MainInstruction(n) PROVE DriveTypes' /\ Tracks'
    BY <1>1, ElsewhereStays DEF MainInstruction, driveVars, Main, Between
  <1>2. CASE FrameEnd
    BY <1>2, FrameEndStays
  <1>3. CASE Guards
    BY <1>3, GuardsStay
  <1>4. CASE WarpLate
    BY <1>4, WarpLateStays
  <1>12. CASE RunForLater
    BY <1>12, RunForLaterStays
  <1>5. ASSUME NEW n \in 1 .. MaxDriveTick, DriveInstruction(n)
        PROVE  DriveTypes' /\ Tracks'
    BY <1>5, PassStays
  <1>6. ASSUME NEW next \in Clock, IdleTrap(next) PROVE DriveTypes' /\ Tracks'
    BY <1>6, IdleTrapStays
  <1>7. CASE DriveDone
    BY <1>7, DriveDoneStays DEF SyncInv
  <1>8. CASE MainAccess
    BY <1>8, MainAccessStays
  <1>9. CASE Accessed
    BY <1>9, ElsewhereStays DEF Accessed, machineVars, driveVars, historyVars, At, Main,
                                Between
  <1>10. CASE User
    BY <1>10, UserStays
  <1>11. CASE UNCHANGED syncVars
    BY <1>11, Undisturbed
       DEF syncVars, machineVars, driveVars, historyVars, DriveTypes, Between
  <1> QED  BY <1>1, <1>2, <1>3, <1>4, <1>5, <1>6, <1>7, <1>8, <1>9, <1>10, <1>11, <1>12
              DEF Next, Machine, Access

(* Whatever the main CPU does in between, at whatever frequency the drive   *)
(* runs and however it idles, after catching up it has executed what it     *)
(* owed: short of it by less than a cycle, beyond by less than a pass.      *)
THEOREM AlwaysInStep == Spec => []InStep
  <1>1. Init => DriveInv
    BY InitiallySyncInv, InitiallyTracks DEF DriveInv
  <1>2. ASSUME DriveInv PROVE InStep
    <2> SUFFICES ASSUME Between, tracked
                 PROVE  lead > - Unit /\ lead < Unit * LongestPass
      BY DEF InStep
    <2>1. PICK x \in Int : Beyond(x) /\ InReach(x)
      BY <1>2 DEF DriveInv, Tracks
    <2>2. x \in Nat /\ x < LongestPass
      BY <2>1 DEF InReach
    <2> DEFINE a == Unit * x
               b == Unit * LongestPass
    <2>3. a \in Int /\ a >= 0 /\ a + Unit <= b /\ b \in Int
      BY <2>2, Fractions, Half
    <2>4. lead = a - cycle_accum /\ cycle_accum \in 0 .. Unit - 1 /\ Unit \in Nat \ {0}
      BY <1>2, <2>1, UnitAssumption DEF Beyond, DriveInv, DriveTypes
    <2> HIDE DEF a, b
    <2>5. lead > - Unit /\ lead < b
      BY <2>3, <2>4
    <2> QED  BY <2>5 DEF b
  <1> QED  BY <1>1, <1>2, DriveInvStep, PTL DEF Spec

----------------------------------------------------------------------------
LEMMA LastClkStep ==
    DriveInv /\ last_clk \in Clock /\ [Next]_syncVars => (last_clk \in Clock)'
  <1> SUFFICES ASSUME DriveInv, last_clk \in Clock, [Next]_syncVars
               PROVE  last_clk' \in Clock
    OBVIOUS
  <1>1. maincpu_clk' \in Clock /\ maincpu_clk \in Clock
    BY SyncInvStep DEF DriveInv, SyncInv, MainTypes
  <1>2. ASSUME NEW now, NEW value, NEW then, StartExecute(now, value, then), now \in Clock
        PROVE  last_clk' \in Clock
    BY <1>2 DEF StartExecute
  <1>3. Rewound(last_clk, mainSub) \in Clock
    <2>1. last_clk - mainSub \in Int
      BY SubBounds, ConstantsFacts
    <2> QED  BY <2>1, WrapIs DEF Rewound
  <1>4. CASE UNCHANGED last_clk \/ last_clk' \in {maincpu_clk, maincpu_clk'}
    BY <1>1, <1>4
  <1>5. CASE MainAccess \/ FrameEnd
    BY <1>1, <1>2, <1>4, <1>5 DEF MainAccess, FrameEnd, driveVars
  <1>6. CASE Guards
    BY <1>1, <1>2, <1>3, <1>4, <1>6 DEF Guards
  <1>7. CASE WarpLate
    BY <1>3, <1>7 DEF WarpLate
  <1>11. CASE RunForLater
    BY <1>1, <1>2, <1>11 DEF RunForLater
  <1>8. CASE DriveDone
    BY <1>8, InDrive DEF DriveDone, DriveInv, SyncInv, MainTypes
  <1>9. CASE User
    BY <1>1, <1>4, <1>9, ConstantsFacts
       DEF User, MachineReset, drive_set_disk_drive_type, drivecpu_reset, EnableDrive,
           DisableDrive, drivecpu_trigger_reset
  <1>10. CASE \/ \E n \in 1 .. MaxTick : MainInstruction(n)
              \/ \E n \in 1 .. MaxDriveTick : DriveInstruction(n)
              \/ \E next \in Clock : IdleTrap(next)
              \/ Accessed \/ UNCHANGED syncVars
    BY <1>4, <1>10
       DEF MainInstruction, DriveInstruction, IdleTrap, Accessed, syncVars, driveVars
  <1> QED  BY <1>5, <1>6, <1>7, <1>8, <1>9, <1>10, <1>11 DEF Next, Machine, Access

\* Clocks and fractions stay in range, wrapped, wound back or reset.
THEOREM TypesHold == Spec => []TypeOK
  <1>1. Init => DriveInv /\ last_clk \in Clock
    BY InitiallySyncInv, InitiallyTracks, ConstantsFacts DEF DriveInv, Init
  <1>2. DriveInv /\ last_clk \in Clock => TypeOK
    BY DEF DriveInv, SyncInv, MainTypes, DriveTypes, TypeOK
  <1> QED  BY <1>1, <1>2, DriveInvStep, LastClkStep, PTL DEF Spec
=============================================================================
