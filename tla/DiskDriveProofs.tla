--------------------------- MODULE DiskDriveProofs ---------------------------
(****************************************************************************)
(* Proofs about the two ways in which the emulator has disk drives: those   *)
(* on the serial bus, which run their own program (IecBus, for any number   *)
(* of drives in any order), and the virtual drive that the serial traps use *)
(* (VirtualDrive, for a disk of any finite size).                           *)
(****************************************************************************)
EXTENDS IecBus, VirtualDrive, FiniteSetTheorems, WellFoundedInduction, TLAPS

(****************************************************************************)
(* The serial bus                                                           *)
(****************************************************************************)

\* A drive on the bus is enabled, and none is without true emulation.
SwitchesAgree ==
    /\ truedrive \in BOOLEAN
    /\ type \in [Drive -> Types]
    /\ drivetype \in [Drive -> BOOLEAN]
    /\ enable \in [Drive -> BOOLEAN]
    /\ \A d \in Drive : /\ OnBus(d) => enable[d]
                        /\ enable[d] => truedrive
                        /\ drivetype[d] => type[d] # "NONE"

\* Who waits for the drives, and for which.
Accesses == [at : {"catching"}, todo : Seq(Drive), then : {"store", "read", "frame"}]
ToDo == {loop.todo[i] : i \in 1 .. Len(loop.todo)}

\* Drives that are behind, and matter for the access, are still to be run.
LateAreToDo ==
    /\ loop \in {Main} \union Accesses
    /\ behind \subseteq {d \in Drive : enable[d]}
    /\ loop # Main =>
           (IF loop.then = "store" THEN behind \intersect BusDrives ELSE behind)
               \subseteq ToDo

Storing == loop # Main /\ loop.then = "store"

\* The parts of the record, each as long as nobody was reset or cut off.
RecordIsTrue ==
    /\ drv_bus \in [Drive -> BOOLEAN]
    /\ drv_data \in [Drive -> Outputs]
    /\ pb \in [Drive -> Outputs]
    /\ atnFlag \in [Drive -> BOOLEAN]
    /\ pa \in Lines /\ cpu_bus \in Lines
    /\ iec_old_atn = cpu_bus.atn
    /\ "cpu" \in spoken /\ ~ Storing => cpu_bus = pa
    /\ "ports" \in spoken =>
           cpu_port = (cpu_bus.data /\ \A d \in Drive : drv_bus[d])
    /\ \A d \in Drive :
           /\ ~ enable[d] => drv_bus[d]
           /\ d \in spoken => truedrive
           /\ d \in spoken /\ OnBus(d) =>
                  /\ drv_data[d] = pb[d]
                  /\ drv_bus[d] = LetsGo(type[d], pb[d], cpu_bus.atn)

BusInv == SwitchesAgree /\ LateAreToDo /\ RecordIsTrue

----------------------------------------------------------------------------
LEMMA InitiallyBusInv == Init => BusInv
  <1> SUFFICES ASSUME Init PROVE BusInv
    OBVIOUS
  <1>1. SwitchesAgree
    BY TypesAssumption DEF Init, SwitchesAgree, OnBus
  <1>2. LateAreToDo
    BY DEF Init, LateAreToDo, Main
  <1>3. RecordIsTrue
    BY DEF Init, RecordIsTrue, Lines, Outputs, NothingPulled, AllPulled, High, Low
  <1> QED  BY <1>1, <1>2, <1>3 DEF BusInv

\* Outside `User' nobody touches a switch.
LEMMA SwitchesStay ==
    ASSUME SwitchesAgree, UNCHANGED switches
    PROVE  SwitchesAgree' /\ BusDrives' = BusDrives
  BY DEF SwitchesAgree, switches, OnBus, BusDrives

LEMMA SwitchesAgreeStep ==
    ASSUME BusInv, [Next]_busVars
    PROVE  SwitchesAgree'
  <1> USE DEF BusInv
  <1>1. ASSUME UNCHANGED switches PROVE SwitchesAgree'
    BY <1>1, SwitchesStay
  <1>2. ASSUME NEW on \in BOOLEAN, SetTrueEmulation(on) PROVE SwitchesAgree'
    BY <1>2 DEF SwitchesAgree, SetTrueEmulation, OnBus
  <1>3. ASSUME NEW d \in Drive, NEW t \in Types, SetType(d, t)
        PROVE  SwitchesAgree'
    <2>1. /\ type' = [type EXCEPT ![d] = t]
          /\ truedrive' = truedrive
      BY <1>3 DEF SetType
    <2>2. CASE t = "NONE"
      <3>1. /\ drivetype' = [drivetype EXCEPT ![d] = FALSE]
            /\ enable' = [enable EXCEPT ![d] = FALSE]
        BY <1>3, <2>2 DEF SetType
      <3>2. /\ truedrive' \in BOOLEAN
            /\ type' \in [Drive -> Types]
            /\ drivetype' \in [Drive -> BOOLEAN]
            /\ enable' \in [Drive -> BOOLEAN]
        BY <2>1, <3>1 DEF SwitchesAgree
      <3>3. ~ drivetype'[d] /\ ~ enable'[d]
        BY <3>1 DEF SwitchesAgree
      <3>4. \A e \in Drive \ {d} : /\ drivetype'[e] = drivetype[e]
                                   /\ enable'[e] = enable[e]
                                   /\ type'[e] = type[e]
        BY <2>1, <3>1 DEF SwitchesAgree
      <3> QED  BY <2>1, <3>2, <3>3, <3>4 DEF SwitchesAgree, OnBus
    <2>3. CASE t # "NONE"
      BY <1>3, <2>1, <2>3 DEF SwitchesAgree, SetType, OnBus
    <2> QED  BY <2>2, <2>3
  <1>4. CASE UNCHANGED busVars
    BY <1>1, <1>4 DEF busVars
  <1>5. CASE Next
    <2>1. CASE MainInstruction
      BY <1>1, <2>1 DEF MainInstruction
    <2>2. CASE \E then \in {"store", "read"}, out \in CpuStores \union {pa} : Access(then, out)
      BY <1>1, <2>2 DEF Access
    <2>3. CASE FrameEnd
      BY <1>1, <2>3 DEF FrameEnd
    <2>4. CASE \E d \in Drive, out \in DriveStores : DriveStore(d, out)
      BY <1>1, <2>4 DEF DriveStore
    <2>5. CASE \E d \in Drive : DriveServes(d) \/ SelectEdge(d)
      BY <1>1, <2>5 DEF DriveServes, SelectEdge
    <2>6. CASE NextDrive
      BY <1>1, <2>6 DEF NextDrive
    <2>7. CASE Store
      BY <1>1, <2>7 DEF Store
    <2>8. CASE Look
      BY <1>1, <2>8 DEF Look
    <2>9. CASE User
      <3>1. CASE MachineReset
        BY <1>1, <3>1 DEF MachineReset
      <3> QED  BY <1>2, <1>3, <2>9, <3>1 DEF User
    <2> QED  BY <1>5, <2>1, <2>2, <2>3, <2>4, <2>5, <2>6, <2>7, <2>8, <2>9 DEF Next
  <1> QED  BY <1>4, <1>5

----------------------------------------------------------------------------
(* Who is still to be run.                                                  *)

LEMMA DrivesAreToDo ==
    ASSUME NEW then \in {"store", "read", "frame"}, behind \subseteq Drive,
           loop' = Catching(Units, then)
    PROVE  /\ loop' \in Accesses
           /\ loop' # Main /\ loop'.then = then
           /\ behind \subseteq ToDo'
  <1>1. Units \in Seq(Drive)
    BY UnitsAssumption DEF Drive
  <1>2. loop'.todo = Units /\ loop'.then = then /\ loop'.at = "catching"
    BY DEF Catching
  <1>3. loop' \in Accesses /\ loop' # Main
    BY <1>1, <1>2 DEF Catching, Accesses, Main
  <1>4. ToDo' = Drive
    BY <1>2 DEF ToDo, Drive
  <1> QED  BY <1>2, <1>3, <1>4

\* A drive that is left out is not behind, or not on the bus.
LEMMA NextDriveKeepsOrder ==
    ASSUME BusInv, NextDrive
    PROVE  LateAreToDo'
  <1> DEFINE d == Head(loop.todo)
  <1>1. loop \in Accesses /\ loop.todo # << >>
    BY DEF BusInv, LateAreToDo, NextDrive, Main
  <1>2. /\ loop.todo \in Seq(Drive)
        /\ loop.then \in {"store", "read", "frame"}
    BY <1>1 DEF Accesses
  <1>3. /\ loop' \in Accesses
        /\ loop' # Main
        /\ loop'.todo = Tail(loop.todo)
        /\ loop'.then = loop.then
    <2>1. Tail(loop.todo) \in Seq(Drive)
      BY <1>1, <1>2
    <2> QED  BY <1>1, <1>2, <2>1 DEF NextDrive, Accesses, Main
  <1>4. ToDo \subseteq ToDo' \union {d}
    <2> SUFFICES ASSUME NEW i \in 1 .. Len(loop.todo), loop.todo[i] # d
                 PROVE  loop.todo[i] \in ToDo'
      BY DEF ToDo
    <2>1. loop.todo[1] = d
      BY <1>1, <1>2
    <2>2. /\ Len(loop.todo) \in Nat /\ i # 1
          /\ Len(Tail(loop.todo)) = Len(loop.todo) - 1
      BY <1>1, <1>2, <2>1
    <2>3. i - 1 \in 1 .. Len(Tail(loop.todo)) /\ Tail(loop.todo)[i - 1] = loop.todo[i]
      BY <1>1, <1>2, <2>2
    <2> QED  BY <1>3, <2>3 DEF ToDo
  <1>5. d \in Drive
    BY <1>1, <1>2
  <1>6. BusDrives' = BusDrives /\ enable' = enable
    BY SwitchesStay DEF BusInv, NextDrive, switches
  <1>7. behind' = IF CatchesUp(d, loop.then) THEN behind \ {d} ELSE behind
    BY DEF NextDrive
  <1>8. /\ behind \subseteq {e \in Drive : enable[e]}
        /\ IF loop.then = "store" THEN behind \intersect BusDrives \subseteq ToDo
                                  ELSE behind \subseteq ToDo
    BY <1>1, NextDrive DEF BusInv, LateAreToDo, NextDrive, Main
  <1>9. CASE CatchesUp(d, loop.then)
    BY <1>3, <1>4, <1>6, <1>7, <1>8, <1>9 DEF LateAreToDo
  <1>10. CASE ~ CatchesUp(d, loop.then) /\ ~ enable[d]
    BY <1>3, <1>4, <1>6, <1>7, <1>8, <1>10 DEF LateAreToDo
  <1>11. CASE ~ CatchesUp(d, loop.then) /\ enable[d]
    <2>1. loop.then = "store" /\ d \notin BusDrives
      BY <1>5, <1>11 DEF CatchesUp, BusDrives
    <2> QED  BY <1>3, <1>4, <1>6, <1>7, <1>8, <1>11, <2>1 DEF LateAreToDo
  <1> QED  BY <1>9, <1>10, <1>11

LEMMA LateAreToDoStep ==
    ASSUME BusInv, [Next]_busVars
    PROVE  LateAreToDo'
  <1> USE DEF BusInv
  <1>1. ASSUME UNCHANGED <<switches, behind, loop>> PROVE LateAreToDo'
    <2>1. BusDrives' = BusDrives
      BY <1>1, SwitchesStay
    <2> QED  BY <1>1, <2>1 DEF LateAreToDo, ToDo, switches
  <1>2. ASSUME loop' = Main, behind' \subseteq {d \in Drive : enable'[d]}
        PROVE  LateAreToDo'
    BY <1>2 DEF LateAreToDo
  <1>3. ASSUME NEW then \in {"store", "read", "frame"},
               loop' = Catching(Units, then), UNCHANGED <<switches, behind>>
        PROVE  LateAreToDo'
    <2>1. behind \subseteq Drive
      BY DEF LateAreToDo
    <2>2. behind' \subseteq {d \in Drive : enable'[d]}
      BY <1>3 DEF LateAreToDo, switches
    <2> QED  BY <1>3, <2>1, <2>2, DrivesAreToDo DEF LateAreToDo
  <1>4. CASE UNCHANGED busVars
    BY <1>1, <1>4 DEF busVars
  <1>5. CASE Next
    <2>1. CASE MainInstruction
      BY <1>2, <2>1 DEF MainInstruction, switches
    <2>2. CASE \E then \in {"store", "read"}, out \in CpuStores \union {pa} : Access(then, out)
      BY <1>1, <1>3, <2>2 DEF Access
    <2>3. CASE FrameEnd
      BY <1>3, <2>3 DEF FrameEnd
    <2>4. CASE \E d \in Drive, out \in DriveStores : DriveStore(d, out)
      BY <1>1, <2>4 DEF DriveStore
    <2>5. CASE \E d \in Drive : DriveServes(d) \/ SelectEdge(d)
      BY <1>1, <2>5 DEF DriveServes, SelectEdge
    <2>6. CASE NextDrive
      BY <2>6, NextDriveKeepsOrder
    <2>7. CASE Store
      BY <1>2, <2>7 DEF Store, LateAreToDo, switches
    <2>8. CASE Look
      BY <1>2, <2>8 DEF Look, LateAreToDo, switches
    <2>9. ASSUME NEW on \in BOOLEAN, SetTrueEmulation(on) PROVE LateAreToDo'
      BY <1>2, <2>9 DEF SetTrueEmulation, PortDefault, LateAreToDo
    <2>10. ASSUME NEW d \in Drive, NEW t \in Types, SetType(d, t)
           PROVE  LateAreToDo'
      <3>1. behind' = behind \ {d} /\ loop' = Main
        BY <2>10 DEF SetType, PortDefault
      <3>2. \A e \in Drive \ {d} : enable'[e] = enable[e]
        BY <2>10 DEF SetType, SwitchesAgree
      <3> QED  BY <1>2, <3>1, <3>2 DEF LateAreToDo
    <2>11. CASE MachineReset
      BY <1>2, <2>11 DEF MachineReset
    <2> QED  BY <1>5, <2>1, <2>2, <2>3, <2>4, <2>5, <2>6, <2>7, <2>8,
                <2>9, <2>10, <2>11 DEF Next, User
  <1> QED  BY <1>4, <1>5

----------------------------------------------------------------------------
(* The record.                                                              *)

LEMMA NamesAreApart == \A d \in Drive : d # "cpu" /\ d # "ports"
  BY NamesAssumption

LEMMA LetsGoIsBoolean ==
    \A t, out, atn : LetsGo(t, out, atn) \in BOOLEAN
  BY DEF LetsGo

\* The drive that stores is on, so true emulation is.
LEMMA DriveStoreKeepsRecord ==
    ASSUME BusInv, NEW d \in Drive, NEW out \in Outputs, DriveStore(d, out)
    PROVE  RecordIsTrue'
  <1> USE DEF BusInv
  <1>1. enable[d] /\ truedrive
    BY DEF DriveStore, Runs, CatchesUp, SwitchesAgree
  <1>2. /\ UNCHANGED <<pa, cpu_bus, iec_old_atn, atnFlag, switches, loop>>
        /\ spoken' = spoken \union {d, "ports"}
    BY DEF DriveStore, via
  <1>3. /\ drv_bus' = [drv_bus EXCEPT ![d] = LetsGo(type[d], out, cpu_bus.atn)]
        /\ drv_data' = [drv_data EXCEPT ![d] = out]
        /\ pb' = [pb EXCEPT ![d] = out]
        /\ cpu_port' = (cpu_bus'.data /\ \A e \in Drive : drv_bus'[e])
    BY DEF DriveStore, UpdatePorts
  <1>4. /\ drv_bus' \in [Drive -> BOOLEAN]
        /\ drv_data' \in [Drive -> Outputs]
        /\ pb' \in [Drive -> Outputs]
    BY <1>3, LetsGoIsBoolean DEF RecordIsTrue
  <1>5. /\ drv_bus'[d] = LetsGo(type[d], out, cpu_bus.atn)
        /\ drv_data'[d] = out /\ pb'[d] = out
    BY <1>3 DEF RecordIsTrue
  <1>6. \A e \in Drive \ {d} :
            drv_bus'[e] = drv_bus[e] /\ drv_data'[e] = drv_data[e] /\ pb'[e] = pb[e]
    BY <1>3 DEF RecordIsTrue
  <1>7. "cpu" \in spoken' => "cpu" \in spoken
    BY <1>2, NamesAreApart
  <1>8. /\ truedrive' = truedrive /\ type' = type /\ enable' = enable
        /\ drivetype' = drivetype
    BY <1>2 DEF switches
  <1>9. \A e \in Drive :
            /\ ~ enable'[e] => drv_bus'[e]
            /\ e \in spoken' => truedrive'
            /\ e \in spoken' /\ OnBus(e)' =>
                   /\ drv_data'[e] = pb'[e]
                   /\ drv_bus'[e] = LetsGo(type'[e], pb'[e], cpu_bus'.atn)
    <2> TAKE e \in Drive
    <2>1. CASE e = d
      BY <1>1, <1>2, <1>5, <1>8, <2>1
    <2>2. CASE e # d
      <3>1. e \in spoken' => e \in spoken
        BY <1>2, <2>2, NamesAreApart
      <3> QED  BY <1>2, <1>6, <1>8, <2>2, <3>1 DEF RecordIsTrue, OnBus
    <2> QED  BY <2>1, <2>2
  <1> QED  BY <1>2, <1>3, <1>4, <1>7, <1>9 DEF RecordIsTrue, Storing

\* The new ATN is answered for by the drives on the bus.
LEMMA StoreKeepsRecord ==
    ASSUME BusInv, Store
    PROVE  RecordIsTrue'
  <1> USE DEF BusInv
  <1>1. /\ UNCHANGED <<pa, drv_data, pb, switches>>
        /\ spoken' = spoken \union {"cpu", "ports"}
        /\ cpu_bus' = pa
        /\ iec_old_atn' = cpu_bus'.atn
        /\ cpu_port' = (cpu_bus'.data /\ \A e \in Drive : drv_bus'[e])
    BY DEF Store, UpdatePorts
  <1>2. /\ truedrive' = truedrive /\ type' = type /\ enable' = enable
        /\ drivetype' = drivetype
    BY <1>1 DEF switches
  <1>3. drv_bus' = [d \in Drive |-> AnswerTo(d, cpu_bus'.atn)]
    BY DEF Store
  <1>4. \A d \in Drive :
            drv_bus'[d] = IF OnBus(d) THEN LetsGo(type[d], drv_data[d], cpu_bus'.atn)
                                      ELSE drv_bus[d]
    BY <1>3 DEF AnswerTo
  <1>5. drv_bus' \in [Drive -> BOOLEAN]
    BY <1>3, <1>4, LetsGoIsBoolean DEF RecordIsTrue
  <1>6. atnFlag' \in [Drive -> BOOLEAN]
    <2>1. \A d \in Drive : atnFlag[d] \in BOOLEAN
      BY DEF RecordIsTrue
    <2> QED  BY <2>1 DEF Store
  <1>7. \A d \in Drive :
            /\ ~ enable'[d] => drv_bus'[d]
            /\ d \in spoken' => truedrive'
            /\ d \in spoken' /\ OnBus(d)' =>
                   /\ drv_data'[d] = pb'[d]
                   /\ drv_bus'[d] = LetsGo(type'[d], pb'[d], cpu_bus'.atn)
    <2> TAKE d \in Drive
    <2>1. d \in spoken' => d \in spoken
      BY <1>1, NamesAreApart
    <2>2. OnBus(d)' = OnBus(d)
      BY <1>2 DEF OnBus
    <2>3. ~ enable[d] => ~ OnBus(d)
      BY DEF SwitchesAgree
    <2> QED  BY <1>1, <1>2, <1>4, <2>1, <2>2, <2>3 DEF RecordIsTrue
  <1> QED  BY <1>1, <1>5, <1>6, <1>7 DEF RecordIsTrue

\* Only ports of drives that were on the bus count, and these are cut off.
LEMMA SwitchKeepsRecord ==
    ASSUME BusInv, NEW on \in BOOLEAN, SetTrueEmulation(on)
    PROVE  RecordIsTrue'
  <1> USE DEF BusInv
  <1>1. UNCHANGED <<pa, cpu_bus, cpu_port, iec_old_atn, pb, atnFlag, type, drivetype, loop>>
        /\ truedrive' = on
    BY DEF SetTrueEmulation, PortDefault, lines, via
  <1>2. CASE on
    <2>1. /\ UNCHANGED <<drv_data, drv_bus, spoken>>
          /\ \A d \in Drive : enable[d] => enable'[d]
      BY <1>2 DEF SetTrueEmulation, lines, SwitchesAgree
    <2>2. \A d \in Drive : d \in spoken /\ OnBus(d)' => OnBus(d)
      BY <1>1 DEF RecordIsTrue, OnBus
    <2> QED  BY <1>1, <1>2, <2>1, <2>2 DEF RecordIsTrue, Storing
  <1>3. CASE ~ on
    <2>1. PortDefault(Drive)
      BY <1>3 DEF SetTrueEmulation
    <2>2. /\ drv_bus' \in [Drive -> BOOLEAN] /\ drv_data' \in [Drive -> Outputs]
          /\ \A d \in Drive : drv_bus'[d] /\ d \notin spoken'
          /\ "cpu" \in spoken' => "cpu" \in spoken
      BY <2>1 DEF PortDefault, RecordIsTrue, NothingPulled, Outputs
    <2>3. "ports" \notin spoken'
      <3>1. Drive # {}
        <4>1. Len(Units) \in Nat /\ 1 \in 1 .. Len(Units)
          BY UnitsAssumption
        <4>2. Units[1] \in Drive
          BY <4>1 DEF Drive
        <4> QED  BY <4>2
      <3> QED  BY <2>1, <3>1 DEF PortDefault
    <2> QED  BY <1>1, <2>2, <2>3 DEF RecordIsTrue, Storing
  <1> QED  BY <1>2, <1>3

LEMMA TypeKeepsRecord ==
    ASSUME BusInv, NEW d \in Drive, NEW t \in Types, SetType(d, t)
    PROVE  RecordIsTrue'
  <1> USE DEF BusInv
  <1>1. /\ UNCHANGED <<pa, cpu_bus, cpu_port, iec_old_atn, truedrive, loop>>
        /\ type' = [type EXCEPT ![d] = t]
    BY DEF SetType, PortDefault, lines
  <1>2. \A e \in Drive \ {d} : /\ type'[e] = type[e]
                               /\ enable'[e] = enable[e]
                               /\ OnBus(e)' = OnBus(e)
    BY <1>1 DEF SetType, SwitchesAgree, OnBus
  <1>3. d \notin spoken' /\ spoken' \subseteq spoken
    BY DEF SetType, PortDefault
  <1>4. CASE t = "NONE"
    <2>1. PortDefault({d}) /\ UNCHANGED <<pb, atnFlag>>
      BY <1>4 DEF SetType, via
    <2>2. /\ drv_bus' \in [Drive -> BOOLEAN] /\ drv_data' \in [Drive -> Outputs]
          /\ drv_bus'[d]
          /\ \A e \in Drive \ {d} : drv_bus'[e] = drv_bus[e] /\ drv_data'[e] = drv_data[e]
          /\ "ports" \notin spoken'
      BY <2>1 DEF PortDefault, RecordIsTrue, NothingPulled, Outputs
    <2> QED  BY <1>1, <1>2, <1>3, <2>1, <2>2 DEF RecordIsTrue, Storing
  <1>5. CASE t # "NONE"
    <2>1. /\ UNCHANGED <<drv_data, drv_bus>>
          /\ pb' = [pb EXCEPT ![d] = AllPulled]
          /\ atnFlag' = [e \in Drive |-> e \notin {d} /\ atnFlag[e]]
          /\ enable' = [enable EXCEPT ![d] = truedrive]
      BY <1>5 DEF SetType, ViaReset, lines
    <2>2. /\ pb' \in [Drive -> Outputs]
          /\ \A e \in Drive \ {d} : pb'[e] = pb[e]
      BY <2>1 DEF RecordIsTrue, AllPulled, Outputs
    <2>4. atnFlag' \in [Drive -> BOOLEAN]
      BY <2>1
    <2>3. ~ enable'[d] => ~ enable[d]
      BY <2>1 DEF SwitchesAgree
    <2> QED  BY <1>1, <1>2, <1>3, <2>1, <2>2, <2>3, <2>4 DEF RecordIsTrue, Storing
  <1> QED  BY <1>4, <1>5

LEMMA ResetKeepsRecord ==
    ASSUME BusInv, MachineReset
    PROVE  RecordIsTrue'
  <1> USE DEF BusInv
  <1>1. /\ UNCHANGED <<cpu_bus, cpu_port, drv_bus, drv_data, iec_old_atn, enable>>
        /\ pa' = Low
        /\ pb' = [d \in Drive |-> AllPulled]
        /\ atnFlag' \in [Drive -> BOOLEAN]
        /\ spoken' = spoken \intersect {"ports"}
    BY DEF MachineReset, ViaReset, lines, switches
  <1>2. "cpu" \notin spoken' /\ \A d \in Drive : d \notin spoken'
    BY <1>1, NamesAreApart
  <1>3. pb' \in [Drive -> Outputs] /\ pa' \in Lines
    BY <1>1 DEF AllPulled, Outputs, Low, Lines
  <1> QED  BY <1>1, <1>2, <1>3 DEF RecordIsTrue

LEMMA RecordIsTrueStep ==
    ASSUME BusInv, [Next]_busVars
    PROVE  RecordIsTrue'
  <1> USE DEF BusInv
  <1>1. ASSUME UNCHANGED <<pa, lines, iec_old_atn, pb, switches, spoken>>,
               atnFlag' \in [Drive -> BOOLEAN],
               Storing => Storing'
        PROVE  RecordIsTrue'
    <2>1. \A d \in Drive : OnBus(d)' = OnBus(d)
      BY <1>1 DEF OnBus, switches
    <2> QED  BY <1>1, <2>1 DEF RecordIsTrue, lines, switches
  <1>2. atnFlag \in [Drive -> BOOLEAN]
    BY DEF RecordIsTrue
  <1>3. CASE UNCHANGED busVars
    BY <1>1, <1>2, <1>3 DEF busVars, via, Storing
  <1>4. CASE Next
    <2>1. CASE MainInstruction
      BY <1>1, <1>2, <2>1 DEF MainInstruction, via, Storing
    <2>2. ASSUME NEW then \in {"store", "read"}, NEW out \in CpuStores \union {pa},
                 Access(then, out)
          PROVE  RecordIsTrue'
      <3>1. /\ UNCHANGED <<lines, iec_old_atn, pb, atnFlag, switches>>
            /\ pa' = out /\ spoken' \subseteq spoken
            /\ ~ Storing
        BY <2>2 DEF Access, Storing, via
      <3>4. pa' \in Lines
        BY <3>1, StoresAssumption DEF RecordIsTrue
      <3>2. "cpu" \in spoken' /\ ~ Storing' => "cpu" \in spoken /\ pa' = pa
        <4>1. CASE BusDrives = {}
          BY <2>2, <4>1 DEF Access
        <4>2. CASE BusDrives # {} /\ then = "store"
          <5>1. loop' = Catching(Units, "store")
            BY <2>2, <4>2 DEF Access
          <5>2. loop'.then = "store" /\ loop'.at = "catching"
            BY <5>1 DEF Catching
          <5>3. Storing'
            BY <5>2 DEF Storing, Main
          <5> QED  BY <5>3
        <4>3. CASE BusDrives # {} /\ then = "read"
          BY <2>2, <4>3 DEF Access
        <4> QED  BY <4>1, <4>2, <4>3
      <3>3. \A d \in Drive : OnBus(d)' = OnBus(d)
        BY <3>1 DEF OnBus, switches
      <3> QED  BY <3>1, <3>2, <3>3, <3>4 DEF RecordIsTrue, lines, switches
    <2>3. CASE FrameEnd
      BY <1>1, <1>2, <2>3 DEF FrameEnd, via, Storing
    <2>4. CASE \E d \in Drive, out \in DriveStores : DriveStore(d, out)
      BY <2>4, DriveStoreKeepsRecord, StoresAssumption
    <2>5. CASE \E d \in Drive : DriveServes(d) \/ SelectEdge(d)
      <3>1. atnFlag' \in [Drive -> BOOLEAN]
        BY <1>2, <2>5 DEF DriveServes, SelectEdge
      <3> QED  BY <1>1, <2>5, <3>1 DEF DriveServes, SelectEdge, Storing
    <2>6. CASE NextDrive
      <3>1. Storing => Storing'
        <4>1. loop' = [loop EXCEPT !.todo = Tail(loop.todo)] /\ loop \in Accesses
          BY <2>6 DEF NextDrive, LateAreToDo, Main
        <4> QED  BY <4>1 DEF Storing, Accesses, Main
      <3> QED  BY <1>1, <1>2, <2>6, <3>1 DEF NextDrive, via
    <2>7. CASE Store
      BY <2>7, StoreKeepsRecord
    <2>8. CASE Look
      BY <1>1, <1>2, <2>8 DEF Look, CaughtUp, via, Storing
    <2>9. CASE User
      BY <2>9, SwitchKeepsRecord, TypeKeepsRecord, ResetKeepsRecord DEF User
    <2> QED  BY <1>4, <2>1, <2>2, <2>3, <2>4, <2>5, <2>6, <2>7, <2>8, <2>9 DEF Next
  <1> QED  BY <1>3, <1>4

----------------------------------------------------------------------------
LEMMA BusInvAlways == Spec => []BusInv
  <1>1. BusInv /\ [Next]_busVars => BusInv'
    BY SwitchesAgreeStep, LateAreToDoStep, RecordIsTrueStep DEF BusInv
  <1> QED  BY <1>1, InitiallyBusInv, PTL DEF Spec

LEMMA NobodyIsBehind ==
    ASSUME BusInv, NEW then \in {"store", "read"}, CaughtUp(then)
    PROVE  /\ then = "read" => behind = {}
           /\ then = "store" => behind \intersect BusDrives = {}
  <1>1. loop # Main /\ loop.todo = << >> /\ loop.then = then
    BY DEF CaughtUp, Main
  <1>2. ToDo = {}
    BY <1>1 DEF ToDo
  <1> QED  BY <1>1, <1>2 DEF BusInv, LateAreToDo

(* Whatever is stored, switched and reset, what the main CPU reads is the   *)
(* wired AND of the ports.                                                  *)
THEOREM ReadsAlwaysTrue == Spec => []ReadsAreTrue
  <1>1. ASSUME BusInv PROVE ReadsAreTrue
    <2> SUFFICES ASSUME CaughtUp("read"), {"cpu", "ports"} \subseteq spoken,
                        \A d \in Drive : Speaks(d)
                 PROVE  /\ behind = {}
                        /\ cpu_port = (pa.data /\ \A d \in BusDrives :
                                                 LetsGo(type[d], pb[d], pa.atn))
      BY DEF ReadsAreTrue
    <2>1. behind = {}
      BY <1>1, NobodyIsBehind
    <2>2. ~ Storing
      BY DEF CaughtUp, Storing
    <2>3. cpu_bus = pa /\ cpu_port = (pa.data /\ \A d \in Drive : drv_bus[d])
      BY <1>1, <2>2 DEF BusInv, RecordIsTrue
    <2>4. \A d \in BusDrives : drv_bus[d] = LetsGo(type[d], pb[d], pa.atn)
      BY <1>1, <2>3 DEF BusInv, RecordIsTrue, SwitchesAgree, Speaks, BusDrives
    <2>5. \A d \in Drive \ BusDrives : drv_bus[d]
      BY <1>1 DEF BusInv, RecordIsTrue, Speaks, BusDrives
    <2>6. BusDrives \subseteq Drive
      BY DEF BusDrives
    <2>7. (\A d \in Drive : drv_bus[d])
            <=> \A d \in BusDrives : LetsGo(type[d], pb[d], pa.atn)
      BY <2>4, <2>5, <2>6
    <2>8. cpu_port = (pa.data /\ \A d \in BusDrives : LetsGo(type[d], pb[d], pa.atn))
      BY <2>3, <2>7
    <2> QED  BY <2>1, <2>8
  <1> QED  BY <1>1, BusInvAlways, PTL

(* The lines change under no drive that has yet to execute what came before *)
(* the change.                                                              *)
THEOREM StoreAlwaysFindsNoneBehind == Spec => StoreFindsNoneBehind
  <1>1. ASSUME BusInv, [Next]_busVars
        PROVE  [cpu_bus' # cpu_bus => behind \intersect BusDrives = {}]_busVars
    <2>1. CASE Store
      BY <1>1, <2>1, NobodyIsBehind DEF Store
    <2>2. CASE ~ Store
      <3>1. cpu_bus' = cpu_bus
        BY <1>1, <2>2 DEF Next, busVars, lines, MainInstruction, Access, FrameEnd,
           DriveStore, DriveServes, SelectEdge, NextDrive, Look, User, SetTrueEmulation, SetType,
           PortDefault, MachineReset
      <3> QED  BY <3>1
    <2> QED  BY <2>1, <2>2
  <1> QED  BY <1>1, BusInvAlways, PTL DEF Spec, StoreFindsNoneBehind

----------------------------------------------------------------------------
(* ATN.                                                                     *)

\* Every drive of which the bus hears has in its flag whether the edge came,
\* also while there is no true emulation.
EdgesAreTrue ==
    /\ pcr \in [Drive -> BOOLEAN]
    /\ came \in [Drive -> SUBSET BOOLEAN]
    /\ drv_port.atn = iec_old_atn
    /\ \A d \in Drive \intersect Selecting :
           drivetype[d] => (atnFlag[d] <=> Awaited(d) \in came[d])

LEMMA InitiallyEdgesAreTrue == Init => EdgesAreTrue
  BY DEF Init, EdgesAreTrue, High

\* Nothing about a drive's edges changes that was not on the bus.
LEMMA EdgesStay ==
    ASSUME EdgesAreTrue, UNCHANGED <<via, type, drivetype, iec_old_atn>>,
           drv_port'.atn = drv_port.atn
    PROVE  EdgesAreTrue'
  <1>1. /\ UNCHANGED <<atnFlag, pcr, came, type, drivetype, iec_old_atn>>
        /\ drv_port'.atn = drv_port.atn
    BY DEF via
  <1> QED  BY <1>1 DEF EdgesAreTrue, Awaited

LEMMA StoreKeepsEdges ==
    ASSUME BusInv, EdgesAreTrue, Store
    PROVE  EdgesAreTrue'
  <1> DEFINE new == cpu_bus'.atn
  <1>1. /\ UNCHANGED <<pcr, type, drivetype>>
        /\ iec_old_atn' = new /\ drv_port'.atn = new
        /\ came' = [d \in Drive |->
                        IF d \in Selecting /\ OnBus(d) /\ drv_port.atn # new
                        THEN came[d] \union {new} ELSE came[d]]
    BY DEF Store, switches, UpdatePorts, AtnCame
  <1>2. atnFlag' = [d \in Drive |->
                        atnFlag[d] \/ (OnBus(d) /\ AtnSeen(d, iec_old_atn, new))]
    BY DEF Store
  <1>3. new \in BOOLEAN
    BY DEF Store, BusInv, RecordIsTrue, Lines
  <1>4. came' \in [Drive -> SUBSET BOOLEAN]
    BY <1>1, <1>3 DEF EdgesAreTrue
  <1>5. ASSUME NEW d \in Drive \intersect Selecting, drivetype'[d]
        PROVE  atnFlag'[d] <=> Awaited(d)' \in came'[d]
    <2>1. Awaited(d)' = Awaited(d)
      BY <1>1 DEF Awaited
    <2>2. atnFlag[d] <=> Awaited(d) \in came[d]
      BY <1>1, <1>5 DEF EdgesAreTrue
    <2>3. drv_port.atn = iec_old_atn
      BY DEF EdgesAreTrue
    <2>4. CASE OnBus(d) /\ iec_old_atn # new
      <3>1. came'[d] = came[d] \union {new}
        BY <1>1, <2>3, <2>4
      <3>2. atnFlag'[d] <=> atnFlag[d] \/ new = Awaited(d)
        BY <1>2, <2>4 DEF AtnSeen
      <3> QED  BY <2>1, <2>2, <3>1, <3>2
    <2>5. CASE ~ (OnBus(d) /\ iec_old_atn # new)
      <3>1. came'[d] = came[d]
        BY <1>1, <2>3, <2>5
      <3>2. atnFlag'[d] <=> atnFlag[d]
        BY <1>2, <2>5 DEF AtnSeen
      <3> QED  BY <2>1, <2>2, <3>1, <3>2
    <2> QED  BY <2>4, <2>5
  <1> QED  BY <1>1, <1>4, <1>5 DEF EdgesAreTrue

\* The drive's own program: it clears the flag, or chooses the edge.
LEMMA DriveKeepsEdges ==
    ASSUME BusInv, EdgesAreTrue, NEW d \in Drive, DriveServes(d) \/ SelectEdge(d)
    PROVE  EdgesAreTrue'
  <1>1. UNCHANGED <<lines, iec_old_atn, switches>>
    BY DEF DriveServes, SelectEdge
  <1>2. drv_port' = drv_port /\ UNCHANGED <<type, drivetype>>
    BY <1>1 DEF lines, switches
  <1>3. atnFlag \in [Drive -> BOOLEAN]
    BY DEF BusInv, RecordIsTrue
  <1>4. /\ pcr' \in [Drive -> BOOLEAN]
        /\ \A e \in Drive \ {d} : pcr'[e] = pcr[e] /\ atnFlag'[e] = atnFlag[e]
    BY <1>3 DEF DriveServes, SelectEdge, EdgesAreTrue
  <1>5. /\ came' \in [Drive -> SUBSET BOOLEAN]
        /\ \A e \in Drive \ {d} : came'[e] = came[e]
    <2>1. CASE DriveServes(d)
      BY <2>1 DEF DriveServes, EdgesAreTrue
    <2>2. CASE SelectEdge(d)
      <3> DEFINE new == IF atnFlag[d] THEN {AwaitedBy(type[d], pcr'[d])} ELSE {}
      <3>1. came' = [came EXCEPT ![d] = new]
        BY <2>2 DEF SelectEdge
      <3>2. AwaitedBy(type[d], pcr'[d]) \in BOOLEAN
        BY <1>4 DEF AwaitedBy
      <3>3. new \in SUBSET BOOLEAN
        BY <3>2
      <3> QED  BY <3>1, <3>3 DEF EdgesAreTrue
    <2> QED  BY <2>1, <2>2
  <1>6. atnFlag'[d] <=> Awaited(d)' \in came'[d]
    <2>1. CASE DriveServes(d)
      BY <1>3, <2>1 DEF DriveServes, EdgesAreTrue
    <2>2. CASE SelectEdge(d)
      <3>1. /\ came'[d] = IF atnFlag[d] THEN {AwaitedBy(type[d], pcr'[d])} ELSE {}
            /\ atnFlag' = atnFlag
        BY <2>2 DEF SelectEdge, EdgesAreTrue
      <3>2. Awaited(d)' = AwaitedBy(type[d], pcr'[d])
        BY <1>2 DEF Awaited
      <3> QED  BY <3>1, <3>2
    <2> QED  BY <2>1, <2>2
  <1>7. \A e \in Drive \ {d} : Awaited(e)' = Awaited(e)
    BY <1>2, <1>4 DEF Awaited
  <1> QED  BY <1>1, <1>2, <1>4, <1>5, <1>6, <1>7 DEF EdgesAreTrue

LEMMA ViaResetTypes ==
    ASSUME EdgesAreTrue, NEW ds, ViaReset(ds)
    PROVE  /\ pcr' \in [Drive -> BOOLEAN]
           /\ came' \in [Drive -> SUBSET BOOLEAN]
  <1>1. \A d \in Drive : (IF d \in ds THEN {} ELSE came[d]) \in SUBSET BOOLEAN
    BY DEF EdgesAreTrue
  <1> QED  BY <1>1 DEF ViaReset, EdgesAreTrue

LEMMA UserKeepsEdges ==
    ASSUME BusInv, EdgesAreTrue, User
    PROVE  EdgesAreTrue'
  <1>1. drv_port' = drv_port /\ iec_old_atn' = iec_old_atn
    BY DEF User, SetTrueEmulation, SetType, MachineReset, PortDefault, lines
  <1>2. ASSUME NEW on \in BOOLEAN, SetTrueEmulation(on) PROVE EdgesAreTrue'
    BY <1>1, <1>2, EdgesStay DEF SetTrueEmulation
  <1>3. ASSUME NEW d \in Drive, NEW t \in Types, SetType(d, t) PROVE EdgesAreTrue'
    <2>1. \A e \in Drive \ {d} : type'[e] = type[e] /\ drivetype'[e] = drivetype[e]
      BY <1>3 DEF SetType, BusInv, SwitchesAgree
    <2>2. CASE t = "NONE"
      <3>1. UNCHANGED <<atnFlag, pcr, came>> /\ ~ drivetype'[d]
        BY <1>3, <2>2 DEF SetType, via, BusInv, SwitchesAgree
      <3> QED  BY <1>1, <2>1, <3>1 DEF EdgesAreTrue, Awaited
    <2>3. CASE t # "NONE"
      <3>1. ViaReset({d})
        BY <1>3, <2>3 DEF SetType
      <3>2. /\ ~ atnFlag'[d] /\ came'[d] = {}
            /\ \A e \in Drive \ {d} : /\ atnFlag'[e] <=> atnFlag[e]
                                      /\ pcr'[e] <=> pcr[e]
                                      /\ came'[e] = came[e]
        BY <3>1 DEF ViaReset
      <3>3. \A e \in Drive \ {d} : Awaited(e)' = Awaited(e)
        BY <2>1, <3>2 DEF Awaited, AwaitedBy
      <3>4. pcr' \in [Drive -> BOOLEAN] /\ came' \in [Drive -> SUBSET BOOLEAN]
        BY <3>1, ViaResetTypes
      <3> QED  BY <1>1, <2>1, <3>2, <3>3, <3>4 DEF EdgesAreTrue
    <2> QED  BY <2>2, <2>3
  <1>4. CASE MachineReset
    <2>1. ViaReset(Drive)
      BY <1>4 DEF MachineReset
    <2>2. \A d \in Drive : ~ atnFlag'[d] /\ came'[d] = {}
      BY <2>1 DEF ViaReset
    <2>3. pcr' \in [Drive -> BOOLEAN] /\ came' \in [Drive -> SUBSET BOOLEAN]
      BY <2>1, ViaResetTypes
    <2> QED  BY <1>1, <2>2, <2>3 DEF EdgesAreTrue
  <1> QED  BY <1>2, <1>3, <1>4 DEF User

LEMMA EdgesAreTrueStep ==
    ASSUME BusInv, EdgesAreTrue, [Next]_busVars
    PROVE  EdgesAreTrue'
  <1>1. CASE Store
    BY <1>1, StoreKeepsEdges
  <1>2. CASE \E d \in Drive : DriveServes(d) \/ SelectEdge(d)
    BY <1>2, DriveKeepsEdges
  <1>3. CASE User
    BY <1>3, UserKeepsEdges
  <1>4. CASE \E d \in Drive, out \in DriveStores : DriveStore(d, out)
    <2>1. /\ UNCHANGED <<via, switches, iec_old_atn, cpu_bus>>
          /\ drv_port'.atn = cpu_bus'.atn
      BY <1>4 DEF DriveStore, UpdatePorts
    <2>2. drv_port'.atn = drv_port.atn
      BY <2>1 DEF BusInv, RecordIsTrue, EdgesAreTrue
    <2> QED  BY <2>1, <2>2, EdgesStay DEF switches
  <1>5. CASE UNCHANGED <<via, switches, iec_old_atn, lines>>
    BY <1>5, EdgesStay DEF switches, lines
  <1>6. \/ UNCHANGED <<via, switches, iec_old_atn, lines>>
        \/ Store
        \/ \E d \in Drive : DriveServes(d) \/ SelectEdge(d)
        \/ \E d \in Drive, out \in DriveStores : DriveStore(d, out)
        \/ User
    BY DEF Next, busVars, MainInstruction, Access, FrameEnd, NextDrive, Look
  <1> QED  BY <1>1, <1>2, <1>3, <1>4, <1>5, <1>6

(* Both edges of ATN go to every drive on the bus.  Its flag is up exactly  *)
(* if the one came that its program waits for, however often it chooses     *)
(* another, is reset, or is taken off the bus and put on it again.          *)
THEOREM AtnAlwaysReachesAll == Spec => []AtnReachesAll
  <1>1. BusInv /\ [Next]_busVars => BusInv'
    BY SwitchesAgreeStep, LateAreToDoStep, RecordIsTrueStep DEF BusInv
  <1>2. BusInv /\ EdgesAreTrue /\ [Next]_busVars => EdgesAreTrue'
    BY EdgesAreTrueStep
  <1>3. EdgesAreTrue => AtnReachesAll
    BY DEF EdgesAreTrue, AtnReachesAll, BusDrives, OnBus
  <1> QED  BY <1>1, <1>2, <1>3, InitiallyBusInv, InitiallyEdgesAreTrue, PTL DEF Spec

(****************************************************************************)
(* The virtual drive: sets and functions                                    *)
(****************************************************************************)

(* Induction: a set that goes on from 0, one by one, holds all numbers up   *)
(* to N.                                                                    *)
LEMMA UpTo ==
    ASSUME NEW N \in Nat, NEW G, 0 \in G, \A i \in 1 .. N : i - 1 \in G => i \in G
    PROVE  \A i \in 0 .. N : i \in G
<1> DEFINE Bad == {i \in 0 .. N : i \notin G}
<1>1. SUFFICES ASSUME Bad # {} PROVE FALSE
  OBVIOUS
<1>2. Bad \subseteq Nat
  OBVIOUS
<1>3. PICK m \in Bad : \A i \in Bad : ~ (<<i, m>> \in OpToRel(<, Nat))
  <2> HIDE DEF Bad
  <2> QED BY <1>1, <1>2, NatLessThanWellFounded, WFMin
<1>4. m \in 1 .. N /\ m - 1 \in 0 .. N /\ m \in Nat /\ m - 1 \in Nat
  OBVIOUS
<1>5. m - 1 \in Bad
  BY <1>4
<1>6. <<m - 1, m>> \in OpToRel(<, Nat)
  BY <1>4 DEF OpToRel
<1> QED BY <1>3, <1>5, <1>6

(* A function whose values each follow from the one before exists.          *)
Steps(n, V) == [1 .. n -> [V -> V]]
Follows(g, n, e, step) == g[0] = e /\ \A i \in 1 .. n : g[i] = step[i][g[i - 1]]

LEMMA RecursionExists ==
    ASSUME NEW N \in Nat, NEW V, NEW e \in V, NEW step \in Steps(N, V)
    PROVE  \E g \in [0 .. N -> V] : Follows(g, N, e, step)
<1> USE DEF Steps, Follows
<1> DEFINE Good(n, g) == Follows(g, n, e, step)
           G == {n \in 0 .. N : \E g \in [0 .. n -> V] : Good(n, g)}
<1>1. 0 \in G
  <2> DEFINE g == [i \in 0 .. 0 |-> e]
  <2>1. g \in [0 .. 0 -> V] /\ Good(0, g) /\ 0 \in 0 .. N
    OBVIOUS
  <2> HIDE DEF g
  <2> QED BY <2>1
<1>2. ASSUME NEW n \in 1 .. N, n - 1 \in G
      PROVE  n \in G
  <2>1. n - 1 \in 0 .. N /\ n \in 0 .. N
    OBVIOUS
  <2>2. PICK g \in [0 .. n - 1 -> V] : Good(n - 1, g)
    BY <1>2
  <2> DEFINE h == [i \in 0 .. n |-> IF i = n THEN step[n][g[n - 1]] ELSE g[i]]
  <2>3. h \in [0 .. n -> V]
    BY <2>1
  <2>4. Good(n, h)
    <3>1. h[0] = e
      BY <2>2
    <3>2. ASSUME NEW i \in 1 .. n
          PROVE  h[i] = step[i][h[i - 1]]
      <4>1. i - 1 \in 0 .. n /\ i \in 0 .. n /\ h[i - 1] = g[i - 1]
        BY <2>1
      <4>2. CASE i = n
        BY <4>1, <4>2
      <4>3. CASE i # n
        <5>1. i \in 1 .. n - 1
          BY <2>1, <4>3
        <5> QED BY <2>2, <4>1, <4>3, <5>1
      <4> QED BY <4>2, <4>3
    <3> HIDE DEF h
    <3> QED BY <3>1, <3>2
  <2> HIDE DEF h
  <2> QED BY <2>1, <2>3, <2>4
<1>3. N \in G
  <2> HIDE DEF G
  <2>1. \A i \in 0 .. N : i \in G
    BY <1>1, <1>2, UpTo
  <2> QED BY <2>1
<1> QED BY <1>3

----------------------------------------------------------------------------
(* Walks along the links.                                                   *)

LEMMA WalkIs ==
    ASSUME NEW next \in [Blocks -> BlockOrNone], NEW first \in BlockOrNone
    PROVE  LET N == Cardinality(Blocks)
               at == Walk(next, first)
           IN  /\ N \in Nat /\ at \in [0 .. N -> BlockOrNone] /\ at[0] = first
               /\ \A i \in 1 .. N : at[i] = IF at[i - 1] = None THEN None ELSE next[at[i - 1]]
<1>1. PICK N \in Nat : N = Cardinality(Blocks)
  BY BlocksAssumption, FS_CardinalityType
<1> DEFINE step == [i \in 1 .. N |-> [b \in BlockOrNone |-> IF b = None THEN None ELSE next[b]]]
<1>2. step \in Steps(N, BlockOrNone)
  BY DEF BlockOrNone, Steps
<1>3. PICK g \in [0 .. N -> BlockOrNone] :
          g[0] = first /\ \A i \in 1 .. N : g[i] = step[i][g[i - 1]]
  <2> HIDE DEF step
  <2>1. PICK g \in [0 .. N -> BlockOrNone] : Follows(g, N, first, step)
    BY <1>2, RecursionExists
  <2> QED BY <2>1 DEF Follows
<1> DEFINE rec(h) == [i \in 0 .. N |-> IF i = 0 THEN first
                          ELSE IF h[i - 1] = None THEN None ELSE next[h[i - 1]]]
<1>4. g = rec(g)
  <2>1. ASSUME NEW i \in 0 .. N
        PROVE  g[i] = rec(g)[i]
    <3>1. CASE i = 0
      BY <1>3, <3>1
    <3>2. CASE i # 0
      <4>1. i \in 1 .. N /\ i - 1 \in 0 .. N
        BY <1>1, <3>2
      <4> QED BY <1>3, <3>2, <4>1
    <3> QED BY <3>1, <3>2
  <2> QED BY <2>1
<1>5. Walk(next, first) = CHOOSE h : h = rec(h)
  BY <1>1 DEF Walk
<1>6. PICK at : at = Walk(next, first) /\ at = rec(at)
  BY <1>4, <1>5
<1>7. at[0] = first
  <2>1. 0 \in 0 .. N
    BY <1>1
  <2> QED BY <1>6, <2>1
<1>8. ASSUME NEW i \in 1 .. N
      PROVE  at[i] = IF at[i - 1] = None THEN None ELSE next[at[i - 1]]
  <2>1. i \in 0 .. N /\ i # 0
    BY <1>1
  <2>2. at[i] = rec(at)[i]
    BY <1>6
  <2> QED BY <2>1, <2>2
<1>9. at \in [0 .. N -> BlockOrNone]
  <2> DEFINE G == {i \in 0 .. N : at[i] \in BlockOrNone}
  <2>1. 0 \in G
    BY <1>1, <1>7
  <2>2. \A i \in 1 .. N : i - 1 \in G => i \in G
    BY <1>1, <1>8 DEF BlockOrNone
  <2> HIDE DEF G
  <2>3. \A i \in 0 .. N : i \in G
    BY <1>1, <2>1, <2>2, UpTo
  <2>4. \A i \in 0 .. N : at[i] \in BlockOrNone
    BY <2>3 DEF G
  <2> QED BY <1>6, <2>4
<1> QED BY <1>1, <1>6, <1>7, <1>8, <1>9

Links == [Blocks -> BlockOrNone]
Size == Cardinality(Blocks)

LEMMA AtIs ==
    ASSUME NEW next \in Links, NEW first \in BlockOrNone
    PROVE  /\ Size \in Nat /\ Walk(next, first) \in [0 .. Size -> BlockOrNone]
           /\ Walk(next, first)[0] = first
           /\ \A i \in 1 .. Size :
                 Walk(next, first)[i] = IF Walk(next, first)[i - 1] = None THEN None
                                        ELSE next[Walk(next, first)[i - 1]]
  BY WalkIs DEF Links, Size

LEMMA NoneIs == None \notin Blocks /\ BlockOrNone = Blocks \cup {None}
  BY NoneAssumption DEF BlockOrNone

\* The chain and its end, by places of the walk.
LEMMA ChainIs ==
    ASSUME NEW next \in Links, NEW first \in BlockOrNone
    PROVE  /\ Chain(next, first) \subseteq Blocks
           /\ \A b : b \in Chain(next, first) <=>
                 b # None /\ \E i \in 0 .. Size : Walk(next, first)[i] = b
           /\ Ends(next, first) <=> \E i \in 0 .. Size : Walk(next, first)[i] = None
           /\ first # None => first \in Chain(next, first)
<1>1. PICK at \in [0 .. Size -> BlockOrNone] : at = Walk(next, first) /\ at[0] = first
  BY AtIs
<1>2. Size \in Nat /\ 0 \in 0 .. Size
  BY AtIs
<1>3. DOMAIN at = 0 .. Size
  OBVIOUS
<1>4. \A b : b \in Range(at) <=> \E i \in 0 .. Size : at[i] = b
  BY <1>3 DEF Range
<1>5. Chain(next, first) = Range(at) \ {None} /\ (Ends(next, first) <=> None \in Range(at))
  BY <1>1 DEF Chain, Ends
<1>6. Range(at) \subseteq BlockOrNone
  BY <1>4
<1> QED BY <1>1, <1>2, <1>4, <1>5, <1>6, NoneIs

\* Beyond the end there is nothing.
LEMMA NoneStays ==
    ASSUME NEW next \in Links, NEW first \in BlockOrNone
    PROVE  \A j \in 0 .. Size : \A i \in 0 .. j :
               Walk(next, first)[i] = None => Walk(next, first)[j] = None
<1>1. PICK at : at = Walk(next, first)
  OBVIOUS
<1>2. Size \in Nat /\ \A i \in 1 .. Size : at[i] = IF at[i - 1] = None THEN None ELSE next[at[i - 1]]
  BY <1>1, AtIs
<1> DEFINE G == {j \in 0 .. Size : \A i \in 0 .. j : at[i] = None => at[j] = None}
<1>3. 0 \in G
  BY <1>2
<1>4. ASSUME NEW j \in 1 .. Size, j - 1 \in G
      PROVE  j \in G
  <2>1. j \in 0 .. Size /\ j \in Nat
    BY <1>2
  <2>2. ASSUME NEW i \in 0 .. j, at[i] = None
        PROVE  at[j] = None
    <3>1. CASE i = j
      BY <2>2, <3>1
    <3>2. CASE i # j
      <4>1. i \in 0 .. j - 1
        BY <2>1, <3>2
      <4>2. at[j - 1] = None
        BY <1>4, <2>2, <4>1
      <4> QED BY <1>2, <4>2
    <3> QED BY <3>1, <3>2
  <2> QED BY <2>1, <2>2
<1>5. \A j \in 0 .. Size : j \in G
  <2> HIDE DEF G
  <2> QED BY <1>2, <1>3, <1>4, UpTo
<1> QED BY <1>1, <1>5

\* A chain does not change with the links of other blocks.
LEMMA SameWalk ==
    ASSUME NEW next \in Links, NEW next2 \in Links, NEW first \in BlockOrNone,
           \A b \in Chain(next, first) : next2[b] = next[b]
    PROVE  /\ Walk(next2, first) = Walk(next, first)
           /\ Chain(next2, first) = Chain(next, first)
           /\ Ends(next2, first) <=> Ends(next, first)
<1>1. PICK at \in [0 .. Size -> BlockOrNone] :
         /\ at = Walk(next, first) /\ at[0] = first
         /\ \A i \in 1 .. Size : at[i] = IF at[i - 1] = None THEN None ELSE next[at[i - 1]]
  BY AtIs
<1>2. PICK bt \in [0 .. Size -> BlockOrNone] :
         /\ bt = Walk(next2, first) /\ bt[0] = first
         /\ \A i \in 1 .. Size : bt[i] = IF bt[i - 1] = None THEN None ELSE next2[bt[i - 1]]
  BY AtIs
<1>3. Size \in Nat
  BY AtIs
<1> DEFINE G == {j \in 0 .. Size : bt[j] = at[j]}
<1>4. 0 \in G
  BY <1>1, <1>2, <1>3
<1>5. ASSUME NEW j \in 1 .. Size, j - 1 \in G
      PROVE  j \in G
  <2>1. j \in 0 .. Size /\ j - 1 \in 0 .. Size /\ bt[j - 1] = at[j - 1]
    BY <1>3, <1>5
  <2>2. CASE at[j - 1] = None
    BY <1>1, <1>2, <2>1, <2>2
  <2>3. CASE at[j - 1] # None
    <3>1. at[j - 1] \in Chain(next, first)
      BY <1>1, <2>1, <2>3, ChainIs
    <3>2. next2[at[j - 1]] = next[at[j - 1]]
      BY <3>1
    <3> QED BY <1>1, <1>2, <2>1, <2>3, <3>2
  <2> QED BY <2>2, <2>3
<1>6. \A j \in 0 .. Size : j \in G
  <2> HIDE DEF G
  <2> QED BY <1>3, <1>4, <1>5, UpTo
<1>7. bt = at
  <2>1. \A j \in 0 .. Size : bt[j] = at[j]
    BY <1>6
  <2>2. [j \in 0 .. Size |-> bt[j]] = [j \in 0 .. Size |-> at[j]]
    BY <2>1
  <2>3. bt = [j \in 0 .. Size |-> bt[j]] /\ at = [j \in 0 .. Size |-> at[j]]
    OBVIOUS
  <2> QED BY <2>2, <2>3
<1> QED BY <1>1, <1>2, <1>7 DEF Chain, Ends

\* Freeing stops at no block of a chain in use.
LEMMA FreeChainIs ==
    ASSUME NEW next \in Links, NEW first \in BlockOrNone, NEW used \in SUBSET Blocks,
           Chain(next, first) \subseteq used
    PROVE  FreeChain(used, next, first) = used \ Chain(next, first)
<1>1. PICK at \in [0 .. Size -> BlockOrNone] : at = Walk(next, first)
  BY AtIs
<1>2. Size \in Nat /\ DOMAIN at = 0 .. Size
  BY AtIs
<1> DEFINE K == {k \in DOMAIN at : \A j \in 0 .. k : at[j] \in used}
           F == {at[i] : i \in K}
<1>3. FreeChain(used, next, first) = used \ F
  BY <1>1 DEF FreeChain
<1>4. ASSUME NEW b \in F
      PROVE  b \in Chain(next, first)
  <2>1. PICK i \in K : b = at[i]
    OBVIOUS
  <2>2. i \in 0 .. Size /\ i \in 0 .. i
    BY <1>2
  <2>3. b \in used
    BY <2>1, <2>2
  <2>4. b # None
    BY <2>3, NoneIs
  <2> QED BY <1>1, <2>1, <2>2, <2>4, ChainIs
<1>5. ASSUME NEW b \in Chain(next, first)
      PROVE  b \in F
  <2>1. b # None /\ \E i \in 0 .. Size : Walk(next, first)[i] = b
    BY ChainIs
  <2>2. PICK i \in 0 .. Size : at[i] = b /\ b # None
    BY <1>1, <2>1
  <2>3. ASSUME NEW j \in 0 .. i
        PROVE  at[j] \in used
    <3>1. at[j] # None
      BY <1>1, <2>2, NoneStays
    <3>2. j \in 0 .. Size
      BY <1>2
    <3>3. at[j] \in Chain(next, first)
      BY <1>1, <3>1, <3>2, ChainIs
    <3> QED BY <3>3
  <2>4. i \in K
    BY <1>2, <2>3
  <2> QED BY <2>2, <2>4
<1> HIDE DEF F
<1>6. F = Chain(next, first)
  BY <1>4, <1>5
<1> QED BY <1>3, <1>6

\* The last block of a chain that ends.
LEMMA LastIs ==
    ASSUME NEW next \in Links, NEW first \in BlockOrNone, first # None, Ends(next, first)
    PROVE  LastOf(next, first) \in Chain(next, first) /\ next[LastOf(next, first)] = None
<1>1. PICK at \in [0 .. Size -> BlockOrNone] :
         /\ at = Walk(next, first) /\ at[0] = first
         /\ \A i \in 1 .. Size : at[i] = IF at[i - 1] = None THEN None ELSE next[at[i - 1]]
  BY AtIs
<1>2. Size \in Nat
  BY AtIs
<1> DEFINE G == {i \in 0 .. Size : at[i] # None}
<1>3. 0 \in G
  BY <1>1, <1>2
<1>4. PICK i \in 1 .. Size : i - 1 \in G /\ i \notin G
  <2>1. CASE \A i \in 1 .. Size : i - 1 \in G => i \in G
    <3>1. \A i \in 0 .. Size : i \in G
      <4> HIDE DEF G
      <4> QED BY <1>2, <1>3, <2>1, UpTo
    <3>2. \E i \in 0 .. Size : Walk(next, first)[i] = None
      BY ChainIs
    <3>3. \E i \in 0 .. Size : at[i] = None
      BY <1>1, <3>2
    <3> QED BY <3>1, <3>3
  <2> QED BY <2>1
<1>5. i - 1 \in 0 .. Size /\ at[i - 1] # None /\ at[i] = None
  BY <1>2, <1>4
<1>6. at[i - 1] \in Chain(next, first) /\ next[at[i - 1]] = None
  BY <1>1, <1>4, <1>5, ChainIs
<1> QED BY <1>6 DEF LastOf

LEMMA SingleChain ==
    ASSUME NEW next \in Links, NEW b \in Blocks, next[b] = None
    PROVE  Chain(next, b) = {b} /\ Ends(next, b)
<1>1. b \in BlockOrNone /\ b # None
  BY NoneIs
<1>2. PICK at \in [0 .. Size -> BlockOrNone] :
         /\ at = Walk(next, b) /\ at[0] = b
         /\ \A i \in 1 .. Size : at[i] = IF at[i - 1] = None THEN None ELSE next[at[i - 1]]
  BY <1>1, AtIs
<1>3. Size \in Nat /\ Size >= 1
  <2>1. Size \in Nat /\ Size # 0
    BY AtIs, BlocksAssumption, FS_CardinalityType, FS_EmptySet DEF Size
  <2> QED BY <2>1
<1>4. 1 \in 1 .. Size /\ 1 \in 0 .. Size /\ 1 - 1 = 0
  BY <1>3
<1>5. at[1] = None
  BY <1>1, <1>2, <1>4
<1>6. Ends(next, b)
  BY <1>1, <1>2, <1>4, <1>5, ChainIs
<1>7. ASSUME NEW i \in 0 .. Size, at[i] # None
      PROVE  at[i] = b
  <2>1. ~ (1 \in 0 .. i)
    BY <1>1, <1>2, <1>5, <1>7, NoneStays
  <2>2. i = 0
    BY <1>3, <2>1
  <2> QED BY <1>2, <2>2
<1>8. \A x : x \in Chain(next, b) <=> x # None /\ \E i \in 0 .. Size : at[i] = x
  <2>1. \A x : x \in Chain(next, b) <=> x # None /\ \E i \in 0 .. Size : Walk(next, b)[i] = x
    BY <1>1, ChainIs
  <2> QED BY <1>2, <2>1
<1>9. b \in Chain(next, b)
  BY <1>1, ChainIs
<1>10. ASSUME NEW x \in Chain(next, b)
       PROVE  x = b
  <2>1. PICK i \in 0 .. Size : at[i] = x /\ x # None
    BY <1>8
  <2> QED BY <1>7, <2>1
<1> QED BY <1>6, <1>9, <1>10

\* Before its end a walk meets every block once.
LEMMA WalkIsInjective ==
    ASSUME NEW next \in Links, NEW first \in BlockOrNone, NEW k \in 0 .. Size,
           \A i \in 0 .. k : Walk(next, first)[i] = Walk(next, first)[k] => i = k
    PROVE  \A i \in 0 .. k : \A j \in 0 .. k :
               Walk(next, first)[i] = Walk(next, first)[j] => i = j
<1>1. PICK at \in [0 .. Size -> BlockOrNone] :
         /\ at = Walk(next, first)
         /\ \A i \in 1 .. Size : at[i] = IF at[i - 1] = None THEN None ELSE next[at[i - 1]]
  BY AtIs
<1>2. Size \in Nat /\ k \in Nat
  BY AtIs
<1>3. ASSUME NEW i \in 0 .. k, NEW j \in 0 .. k, at[i] = at[j], i < j
      PROVE  FALSE
  <2> DEFINE n == k - j
             G == {t \in 0 .. n : at[i + t] = at[j + t]}
  <2>1. n \in Nat /\ i + n \in 0 .. k /\ j + n = k /\ i + n < k /\ i \in Nat /\ j \in Nat
    BY <1>2, <1>3
  <2> HIDE DEF n
  <2>2. 0 \in G
    BY <1>3, <2>1
  <2>3. ASSUME NEW t \in 1 .. n, t - 1 \in G
        PROVE  t \in G
    <3>1. t \in 0 .. n /\ i + t \in 1 .. Size /\ j + t \in 1 .. Size
          /\ i + t - 1 = i + (t - 1) /\ j + t - 1 = j + (t - 1)
      BY <1>2, <2>1
    <3>2. at[i + (t - 1)] = at[j + (t - 1)]
      BY <2>3
    <3>3. PICK a \in 1 .. Size : a = i + t
      BY <3>1
    <3>4. PICK b \in 1 .. Size : b = j + t
      BY <3>1
    <3>5. at[a - 1] = at[b - 1]
      BY <3>1, <3>2, <3>3, <3>4
    <3>6. at[a] = at[b]
      BY <1>1, <3>5
    <3> QED BY <3>1, <3>3, <3>4, <3>6
  <2>4. \A t \in 0 .. n : t \in G
    <3> HIDE DEF G
    <3> QED BY <2>1, <2>2, <2>3, UpTo
  <2>5. n \in 0 .. n
    BY <2>1
  <2>6. at[i + n] = at[j + n]
    BY <2>4, <2>5
  <2>7. PICK c \in 0 .. k : c = i + n
    BY <2>1
  <2>8. at[c] = at[k] /\ c # k
    BY <2>1, <2>6, <2>7
  <2> QED BY <1>1, <2>8
<1>4. ASSUME NEW i \in 0 .. k, NEW j \in 0 .. k, at[i] = at[j]
      PROVE  i = j
  <2>1. i < j \/ j < i \/ i = j
    BY <1>2
  <2> QED BY <1>3, <1>4, <2>1
<1> QED BY <1>1, <1>4

LEMMA Least ==
    ASSUME NEW S \in SUBSET Nat, S # {}
    PROVE  \E m \in S : \A i \in S : m <= i
<1>1. PICK m \in S : \A i \in S : ~ (<<i, m>> \in OpToRel(<, Nat))
  BY NatLessThanWellFounded, WFMin
<1>2. ASSUME NEW i \in S
      PROVE  m <= i
  <2>1. m \in Nat /\ i \in Nat /\ ~ (i < m)
    BY <1>1 DEF OpToRel
  <2> QED BY <2>1
<1> QED BY <1>2

(* A chain whose last block is linked to a new one has that block more, and *)
(* still ends: there are enough blocks for the walk to see it.              *)
LEMMA Extend ==
    ASSUME NEW next \in Links, NEW first \in BlockOrNone,
           NEW last \in Chain(next, first), next[last] = None,
           NEW new \in Blocks \ Chain(next, first),
           NEW next2 \in Links, next2[last] = new, next2[new] = None,
           \A b \in Chain(next, first) \ {last} : next2[b] = next[b]
    PROVE  Chain(next2, first) = Chain(next, first) \cup {new} /\ Ends(next2, first)
<1>1. PICK at \in [0 .. Size -> BlockOrNone] :
         /\ at = Walk(next, first) /\ at[0] = first
         /\ \A i \in 1 .. Size : at[i] = IF at[i - 1] = None THEN None ELSE next[at[i - 1]]
  BY AtIs
<1>2. PICK bt \in [0 .. Size -> BlockOrNone] :
         /\ bt = Walk(next2, first) /\ bt[0] = first
         /\ \A i \in 1 .. Size : bt[i] = IF bt[i - 1] = None THEN None ELSE next2[bt[i - 1]]
  BY AtIs
<1>3. PICK N \in Nat : N = Size
  BY AtIs
<1>4. PICK C : C = Chain(next, first) /\ C \subseteq Blocks
  BY ChainIs
<1>5. \A b : b \in C <=> b # None /\ \E i \in 0 .. N : at[i] = b
  <2>1. \A b : b \in Chain(next, first) <=>
            b # None /\ \E i \in 0 .. Size : Walk(next, first)[i] = b
    BY ChainIs
  <2> QED BY <1>1, <1>3, <1>4, <2>1
<1>6. \A b : b \in Chain(next2, first) <=> b # None /\ \E i \in 0 .. N : bt[i] = b
  <2>1. \A b : b \in Chain(next2, first) <=>
            b # None /\ \E i \in 0 .. Size : Walk(next2, first)[i] = b
    BY ChainIs
  <2> QED BY <1>2, <1>3, <2>1
<1>7. Ends(next2, first) <=> \E i \in 0 .. N : bt[i] = None
  <2>1. Ends(next2, first) <=> \E i \in 0 .. Size : Walk(next2, first)[i] = None
    BY ChainIs
  <2> QED BY <1>2, <1>3, <2>1
<1>8. last \in C /\ new \in Blocks \ C /\ last # None /\ new # None /\ new # last
  BY <1>4, NoneIs
<1>9. PICK k \in 0 .. N : at[k] = last /\ \A i \in 0 .. N : at[i] = last => k <= i
  <2> DEFINE S == {i \in 0 .. N : at[i] = last}
  <2>1. S # {} /\ S \in SUBSET Nat
    BY <1>3, <1>5, <1>8
  <2> HIDE DEF S
  <2>2. \E m \in S : \A i \in S : m <= i
    BY <2>1, Least
  <2> QED BY <2>2 DEF S
<1>10. \A i \in 0 .. k : \A j \in 0 .. k : at[i] = at[j] => i = j
  <2>1. ASSUME NEW i \in 0 .. k, at[i] = at[k]
        PROVE  i = k
    <3>1. i \in 0 .. N /\ k <= i
      BY <1>3, <1>9, <2>1
    <3> QED BY <1>3, <3>1
  <2>2. \A i \in 0 .. k : Walk(next, first)[i] = Walk(next, first)[k] => i = k
    BY <1>1, <2>1
  <2>3. k \in 0 .. Size
    BY <1>3
  <2>4. \A i \in 0 .. k : \A j \in 0 .. k :
            Walk(next, first)[i] = Walk(next, first)[j] => i = j
    BY <2>2, <2>3, WalkIsInjective
  <2> QED BY <1>1, <2>4
<1>11. \A i \in 0 .. k : at[i] \in C
  <2> TAKE i \in 0 .. k
  <2>1. k \in 0 .. Size /\ i \in 0 .. N
    BY <1>3
  <2>2. Walk(next, first)[i] = None => Walk(next, first)[k] = None
    BY <2>1, NoneStays
  <2>3. at[i] # None
    BY <1>1, <1>8, <1>9, <2>2
  <2> QED BY <1>5, <2>1, <2>3
<1>12. k + 2 <= N
  <2> DEFINE I == 0 .. k
             f == [i \in I |-> at[i]]
             T == Blocks \ {new}
  <2>1. IsFiniteSet(T) /\ Cardinality(T) = N - 1
    BY <1>3, <1>8, BlocksAssumption, FS_RemoveElement DEF Size
  <2>2. IsFiniteSet(I) /\ Cardinality(I) = k + 1
    <3>1. 0 \in Int /\ k \in Int /\ ~ (0 > k) /\ (k - 0) + 1 = k + 1
      BY <1>3
    <3>2. IsFiniteSet(0 .. k) /\ Cardinality(0 .. k) = IF 0 > k THEN 0 ELSE k - 0 + 1
      BY <3>1, FS_Interval
    <3> QED BY <3>1, <3>2
  <2>3. f \in [I -> T]
    BY <1>4, <1>8, <1>11
  <2>4. \A i, j \in I : f[i] = f[j] => i = j
    BY <1>10
  <2>5. ~ (Cardinality(I) > Cardinality(T))
    <3> HIDE DEF I, T, f
    <3>1. CASE Cardinality(I) > Cardinality(T)
      <4>1. \E x, y \in I : x # y /\ f[x] = f[y]
        BY <2>1, <2>2, <2>3, <3>1, FS_PigeonHole
      <4> QED BY <2>4, <4>1
    <3> QED BY <3>1
  <2> HIDE DEF I, T, f
  <2> QED BY <1>3, <2>1, <2>2, <2>5
<1>13. \A i \in 0 .. k : bt[i] = at[i]
  <2> DEFINE G == {i \in 0 .. k : bt[i] = at[i]}
  <2>1. 0 \in G /\ k \in Nat
    BY <1>1, <1>2, <1>3
  <2>2. ASSUME NEW i \in 1 .. k, i - 1 \in G
        PROVE  i \in G
    <3>1. i \in 1 .. Size /\ i - 1 \in 0 .. k /\ i \in 0 .. k /\ i - 1 # k
      BY <1>3
    <3>2. at[i - 1] \in C \ {last} /\ at[i - 1] # None /\ bt[i - 1] = at[i - 1]
      BY <1>8, <1>9, <1>10, <1>11, <2>1, <2>2, <3>1, NoneIs, <1>4
    <3>3. next2[at[i - 1]] = next[at[i - 1]]
      BY <1>4, <3>2
    <3> QED BY <1>1, <1>2, <3>1, <3>2, <3>3
  <2> HIDE DEF G
  <2>3. \A i \in 0 .. k : i \in G
    BY <2>1, <2>2, UpTo
  <2> QED BY <2>3 DEF G
<1>14. bt[k + 1] = new /\ bt[k + 2] = None /\ at[k + 1] = None
  <2>1. k \in 0 .. k /\ k + 1 \in 1 .. Size /\ k + 2 \in 1 .. Size /\ (k + 1) - 1 = k /\ (k + 2) - 1 = k + 1
    BY <1>3, <1>12
  <2>2. bt[k] = last /\ at[k] = last
    BY <1>9, <1>13, <2>1
  <2>3. bt[k + 1] = new /\ at[k + 1] = None
    BY <1>1, <1>2, <1>8, <2>1, <2>2
  <2>4. bt[k + 2] = next2[bt[k + 1]]
    BY <1>2, <1>8, <2>1, <2>3
  <2> QED BY <2>3, <2>4
<1>15. ASSUME NEW i \in 0 .. N, i > k + 1
       PROVE  bt[i] = None
  <2>1. k + 2 \in 0 .. i /\ i \in 0 .. Size
    BY <1>3, <1>15
  <2>2. Walk(next2, first)[k + 2] = None => Walk(next2, first)[i] = None
    BY <2>1, NoneStays
  <2> QED BY <1>2, <1>14, <2>2
<1>16. ASSUME NEW i \in 0 .. N, i > k
       PROVE  at[i] = None
  <2>1. k + 1 \in 0 .. i /\ i \in 0 .. Size
    BY <1>3, <1>16
  <2>2. Walk(next, first)[k + 1] = None => Walk(next, first)[i] = None
    BY <2>1, NoneStays
  <2> QED BY <1>1, <1>14, <2>2
<1>17. ASSUME NEW b, b \in Chain(next2, first)
       PROVE  b \in C \cup {new}
  <2>1. PICK i \in 0 .. N : bt[i] = b /\ b # None
    BY <1>6, <1>17
  <2>2. i \in 0 .. k \/ i = k + 1 \/ i > k + 1
    BY <1>3
  <2> QED BY <1>11, <1>13, <1>14, <1>15, <2>1, <2>2
<1>18. ASSUME NEW b \in C \cup {new}
       PROVE  b \in Chain(next2, first)
  <2>1. CASE b = new
    <3>1. k + 1 \in 0 .. N
      BY <1>3, <1>12
    <3> QED BY <1>6, <1>8, <1>14, <2>1, <3>1
  <2>2. CASE b # new
    <3>1. PICK i \in 0 .. N : at[i] = b /\ b # None
      BY <1>5, <2>2
    <3>2. i \in 0 .. k
      BY <1>3, <1>16, <3>1
    <3> QED BY <1>6, <1>13, <3>1, <3>2
  <2> QED BY <2>1, <2>2
<1>19. Ends(next2, first)
  <2>1. k + 2 \in 0 .. N
    BY <1>3, <1>12
  <2> QED BY <1>7, <1>14, <2>1
<1> QED BY <1>4, <1>17, <1>18, <1>19

----------------------------------------------------------------------------
(* What a chain of blocks holds.                                            *)

Texts == Seq(Bytes)
Datas == [Blocks -> Texts]

\* The bytes of a walk's places, and what has been read up to each place.
BytesAt(L, T, first) ==
    [i \in 0 .. Size |-> IF Walk(L, first)[i] = None THEN << >> ELSE T[Walk(L, first)[i]]]
Reads(u, h) ==
    /\ u \in [0 .. Size -> Texts]
    /\ u[0] = h[0] /\ \A i \in 1 .. Size : u[i] = u[i - 1] \o h[i]

LEMMA BytesAreTexts ==
    ASSUME NEW L \in Links, NEW T \in Datas, NEW first \in BlockOrNone
    PROVE  BytesAt(L, T, first) \in [0 .. Size -> Texts]
<1>1. << >> \in Texts
  BY DEF Texts
<1>2. PICK at \in [0 .. Size -> BlockOrNone] : at = Walk(L, first)
  BY AtIs
<1>3. ASSUME NEW i \in 0 .. Size
      PROVE  (IF at[i] = None THEN << >> ELSE T[at[i]]) \in Texts
  <2>1. CASE at[i] = None
    BY <1>1, <2>1
  <2>2. CASE at[i] # None
    <3>1. at[i] \in Blocks
      BY <2>2, NoneIs
    <3> QED BY <2>2, <3>1 DEF Datas
  <2> QED BY <2>1, <2>2
<1> QED BY <1>2, <1>3 DEF BytesAt

\* What a file holds is read place by place.
LEMMA ContentsIs ==
    ASSUME NEW L \in Links, NEW T \in Datas, NEW first \in BlockOrNone
    PROVE  \E u : Reads(u, BytesAt(L, T, first)) /\ Contents(L, T, first) = u[Size]
<1>1. PICK at \in [0 .. Size -> BlockOrNone] : at = Walk(L, first)
  BY AtIs
<1>2. PICK N \in Nat : N = Size
  BY AtIs
<1>3. DOMAIN at = 0 .. N /\ 0 \in 0 .. N /\ N \in 0 .. N
  BY <1>2
<1> DEFINE here(i) == IF at[i] = None THEN << >> ELSE T[at[i]]
           step == [i \in 1 .. N |-> [s \in Texts |-> s \o here(i)]]
           rec(h) == [i \in DOMAIN at |-> IF i = 0 THEN here(i) ELSE h[i - 1] \o here(i)]
<1>4. ASSUME NEW i \in 0 .. N
      PROVE  here(i) \in Texts /\ here(i) = BytesAt(L, T, first)[i]
  <2>1. here(i) = BytesAt(L, T, first)[i]
    BY <1>1, <1>2 DEF BytesAt
  <2> HIDE DEF here
  <2> QED BY <1>2, <2>1, BytesAreTexts
<1>5. here(0) \in Texts
  BY <1>3, <1>4
<1>6. step \in Steps(N, Texts)
  <2>1. ASSUME NEW i \in 1 .. N, NEW s \in Texts
        PROVE  s \o here(i) \in Texts
    <3>1. here(i) \in Texts
      BY <1>2, <1>4
    <3> HIDE DEF here
    <3> QED BY <3>1 DEF Texts
  <2> HIDE DEF here
  <2> QED BY <2>1 DEF Steps
<1>7. PICK g \in [0 .. N -> Texts] :
          g[0] = here(0) /\ \A i \in 1 .. N : g[i] = step[i][g[i - 1]]
  <2> HIDE DEF step, here
  <2>1. PICK g \in [0 .. N -> Texts] : Follows(g, N, here(0), step)
    BY <1>2, <1>5, <1>6, RecursionExists
  <2> QED BY <2>1 DEF Follows
<1>8. g = rec(g)
  <2>1. ASSUME NEW i \in 0 .. N
        PROVE  g[i] = rec(g)[i]
    <3>1. CASE i = 0
      BY <1>3, <1>7, <3>1
    <3>2. CASE i # 0
      <4>1. i \in 1 .. N /\ i - 1 \in 0 .. N
        BY <1>2, <3>2
      <4>2. g[i] = g[i - 1] \o here(i)
        <5> HIDE DEF here
        <5> QED BY <1>7, <4>1
      <4> HIDE DEF here
      <4> QED BY <1>3, <3>2, <4>2
    <3> QED BY <3>1, <3>2
  <2> HIDE DEF here
  <2> QED BY <1>3, <2>1
<1>9. Contents(L, T, first) = (CHOOSE h : h = rec(h))[N]
  BY <1>1, <1>2 DEF Contents, Size
<1>10. PICK u : u = (CHOOSE h : h = rec(h)) /\ u = rec(u)
  <2> HIDE DEF rec
  <2> QED BY <1>8
<1>11. /\ u = [i \in 0 .. N |-> u[i]] /\ u[0] = here(0)
       /\ \A i \in 1 .. N : u[i] = u[i - 1] \o here(i)
  <2>1. \A i \in 0 .. N : u[i] = IF i = 0 THEN here(i) ELSE u[i - 1] \o here(i)
    <3> HIDE DEF here
    <3> QED BY <1>3, <1>10
  <2>2. u = [i \in 0 .. N |-> u[i]]
    <3>1. u = [i \in 0 .. N |-> rec(u)[i]]
      <4> HIDE DEF here
      <4> QED BY <1>3, <1>10
    <3> HIDE DEF rec
    <3> QED BY <1>10, <3>1
  <2> HIDE DEF here, rec
  <2> QED BY <1>2, <2>1, <2>2
<1> HIDE DEF rec, here
<1>12. \A i \in 0 .. N : u[i] \in Texts
  <2> DEFINE G == {i \in 0 .. N : u[i] \in Texts}
  <2>1. 0 \in G
    BY <1>3, <1>5, <1>11
  <2>2. ASSUME NEW i \in 1 .. N, i - 1 \in G
        PROVE  i \in G
    <3>1. i \in 0 .. N /\ u[i - 1] \in Texts
      BY <1>2, <2>2
    <3>2. here(i) \in Texts
      BY <1>4, <3>1
    <3>3. u[i - 1] \o here(i) \in Texts
      BY <3>1, <3>2 DEF Texts
    <3> QED BY <1>11, <3>1, <3>3
  <2> HIDE DEF G
  <2>3. \A i \in 0 .. N : i \in G
    BY <1>2, <2>1, <2>2, UpTo
  <2> QED BY <2>3 DEF G
<1>13. u \in [0 .. N -> Texts]
  BY <1>11, <1>12
<1>14. Reads(u, BytesAt(L, T, first))
  <2>1. ASSUME NEW i \in 1 .. N
        PROVE  u[i] = u[i - 1] \o BytesAt(L, T, first)[i]
    <3>1. i \in 0 .. N /\ u[i] = u[i - 1] \o here(i)
      BY <1>2, <1>11, SMTT(30)
    <3> QED BY <1>4, <3>1
  <2> QED BY <1>2, <1>3, <1>4, <1>11, <1>13, <2>1 DEF Reads
<1> QED BY <1>2, <1>9, <1>10, <1>14

LEMMA ContentsAreBytes ==
    ASSUME NEW next \in Links, NEW first \in BlockOrNone, NEW bytes \in [Blocks -> Seq(Bytes)]
    PROVE  Contents(next, bytes, first) \in Seq(Bytes)
<1>1. bytes \in Datas
  BY DEF Datas, Texts
<1>2. PICK u : /\ Reads(u, BytesAt(next, bytes, first))
               /\ Contents(next, bytes, first) = u[Size]
  BY <1>1, ContentsIs
<1>3. Size \in 0 .. Size
  BY AtIs
<1> QED BY <1>2, <1>3 DEF Reads, Texts

\* Reading agrees as long as the bytes do, and goes no further than they do.
LEMMA ReadsSame ==
    ASSUME NEW g, NEW h, NEW u, NEW v, Reads(u, g), Reads(v, h),
           NEW k \in 0 .. Size, \A i \in 0 .. k : g[i] = h[i]
    PROVE  u[k] = v[k]
<1>1. Size \in Nat
  BY AtIs, NoneIs, BlocksAssumption, FS_CardinalityType DEF Size
<1> DEFINE G == {i \in 0 .. k : u[i] = v[i]}
<1>2. 0 \in G
  BY <1>1 DEF Reads
<1>3. ASSUME NEW i \in 1 .. k, i - 1 \in G
      PROVE  i \in G
  <2>1. i \in 1 .. Size /\ i \in 0 .. k
    BY <1>1
  <2> QED BY <1>3, <2>1 DEF Reads
<1>4. k \in Nat
  BY <1>1
<1> HIDE DEF G
<1>5. \A i \in 0 .. k : i \in G
  BY <1>2, <1>3, <1>4, UpTo
<1> QED BY <1>4, <1>5 DEF G

LEMMA ReadsStop ==
    ASSUME NEW h, NEW u, Reads(u, h),
           NEW k \in 0 .. Size, \A i \in k + 1 .. Size : h[i] = << >>
    PROVE  u[Size] = u[k]
<1>1. Size \in Nat /\ k \in Nat
  BY BlocksAssumption, FS_CardinalityType DEF Size
<1> DEFINE G == {j \in 0 .. Size : j >= k => u[j] = u[k]}
<1>2. 0 \in G
  BY <1>1
<1>3. ASSUME NEW j \in 1 .. Size, j - 1 \in G
      PROVE  j \in G
  <2>1. j \in 0 .. Size /\ j - 1 \in 0 .. Size /\ j \in Nat
    BY <1>1
  <2>2. ASSUME j >= k, j # k
        PROVE  u[j] = u[k]
    <3>1. j - 1 >= k /\ j \in k + 1 .. Size
      BY <1>1, <2>1, <2>2
    <3>2. u[j - 1] = u[k] /\ h[j] = << >> /\ u[j] = u[j - 1] \o h[j]
      BY <1>3, <3>1 DEF Reads
    <3>3. u[k] \in Seq(Bytes)
      BY DEF Reads, Texts
    <3> QED BY <3>2, <3>3
  <2> QED BY <2>1, <2>2
<1> HIDE DEF G
<1>4. \A j \in 0 .. Size : j \in G
  BY <1>1, <1>2, <1>3, UpTo
<1> QED BY <1>1, <1>4 DEF G

----------------------------------------------------------------------------
(* What a channel keeps.                                                    *)

\* The first block of the file as its directory entry will have it.
FirstOf(f) == IF f.needsupdate THEN f.replacement ELSE f.entry.first

LEMMA EntryIn ==
    ASSUME NEW n \in Names, NEW closed \in BOOLEAN, NEW first \in BlockOrNone
    PROVE  /\ Entry(n, closed, first) \in Entries
           /\ Entry(n, closed, first).name = n /\ (Entry(n, closed, first).closed <=> closed)
           /\ Entry(n, closed, first).first = first
  BY DEF Entry, Entries

LEMMA BufferFields ==
    ASSUME NEW f \in Buffers
    PROVE  /\ f # None /\ f.slot \in Slots /\ f.entry \in Entries
           /\ f.replacement \in BlockOrNone /\ f.track \in BlockOrNone
           /\ f.needsupdate \in BOOLEAN /\ f.buffer \in Seq(Bytes)
           /\ f.id \in Nat /\ f.count \in Nat /\ f.text \in Seq(Bytes) /\ f.whole \in BOOLEAN
           /\ f.entry.name \in Names /\ f.entry.closed \in BOOLEAN
           /\ f.entry.first \in BlockOrNone
           /\ FirstOf(f) \in BlockOrNone
<1>1. f # None
  BY NoneAssumption
<1>2. f.entry \in Entries
  BY DEF Buffers
<1> QED BY <1>1, <1>2 DEF Buffers, Entries, FirstOf

LEMMA ChannelIs ==
    ASSUME NEW s \in Slots, NEW entry \in Entries, NEW track \in BlockOrNone,
           NEW needsupdate \in BOOLEAN, NEW buffer \in Seq(Bytes), NEW text \in Seq(Bytes),
           opens \in Nat
    PROVE  LET f == Channel(s, entry, track, needsupdate, buffer, text)
           IN  /\ f \in Buffers
               /\ f.slot = s /\ f.entry = entry /\ f.track = track
               /\ (f.needsupdate <=> needsupdate) /\ f.replacement = None
  BY NoneIs DEF Channel, Buffers

LEMMA WithFirstIs ==
    ASSUME NEW f \in Buffers, NEW b \in BlockOrNone
    PROVE  LET g == WithFirst(f, b)
           IN  /\ g \in Buffers
               /\ g.slot = f.slot /\ g.track = b /\ g.needsupdate = f.needsupdate
               /\ FirstOf(g) = b /\ g.entry.name = f.entry.name
               /\ f.needsupdate => g.entry = f.entry
               /\ g.buffer = f.buffer
<1>1. f.entry \in Entries /\ f.needsupdate \in BOOLEAN
  BY DEF Buffers
<1>2. CASE f.needsupdate
  BY <1>1, <1>2 DEF WithFirst, Buffers, FirstOf
<1>3. CASE ~ f.needsupdate
  <2> DEFINE e == [f.entry EXCEPT !.first = b]
             g == [f EXCEPT !.track = b, !.entry = e]
  <2>1. e \in Entries /\ e.first = b /\ e.name = f.entry.name
    BY <1>1 DEF Entries
  <2>2. WithFirst(f, b) = g
    BY <1>3 DEF WithFirst
  <2> HIDE DEF e
  <2>3. g \in Buffers /\ g.slot = f.slot /\ g.track = b /\ g.needsupdate = f.needsupdate
        /\ g.entry = e /\ g.buffer = f.buffer
    BY <2>1 DEF Buffers
  <2> HIDE DEF g
  <2> QED BY <1>3, <2>1, <2>2, <2>3 DEF FirstOf
<1> QED BY <1>1, <1>2, <1>3

LEMMA TrackIs ==
    ASSUME NEW f \in Buffers, NEW b \in BlockOrNone
    PROVE  LET g == [f EXCEPT !.track = b]
           IN  /\ g \in Buffers
               /\ g.slot = f.slot /\ g.track = b /\ g.needsupdate = f.needsupdate
               /\ FirstOf(g) = FirstOf(f) /\ g.entry = f.entry
  BY DEF Buffers, FirstOf

LEMMA TakeIs ==
    ASSUME NEW f \in Buffers, NEW buffer \in Seq(Bytes)
    PROVE  LET g == Take(f, buffer)
           IN  /\ g \in Buffers
               /\ g.slot = f.slot /\ g.track = f.track /\ g.needsupdate = f.needsupdate
               /\ FirstOf(g) = FirstOf(f) /\ g.entry = f.entry
<1>1. f.id \in Nat /\ f.count \in Nat /\ f.text \in Seq(Bytes)
  BY DEF Buffers
<1>2. Byte(f) \in Bytes /\ f.count + 1 \in Nat
  BY <1>1 DEF Byte, Bytes
<1>3. Append(buffer, Byte(f)) \in Seq(Bytes) /\ Append(f.text, Byte(f)) \in Seq(Bytes)
  BY <1>1, <1>2
<1> DEFINE x == Append(buffer, Byte(f))
           y == Append(f.text, Byte(f))
           n == f.count + 1
           g == [f EXCEPT !.buffer = x, !.count = n, !.text = y]
<1>4. Take(f, buffer) = g
  BY DEF Take
<1> HIDE DEF x, y, n
<1>5. x \in Seq(Bytes) /\ y \in Seq(Bytes) /\ n \in Nat
  BY <1>2, <1>3 DEF x, y, n
<1>6. g \in Buffers
  BY <1>5 DEF Buffers
<1>7. g.slot = f.slot /\ g.track = f.track /\ g.needsupdate = f.needsupdate
      /\ FirstOf(g) = FirstOf(f) /\ g.entry = f.entry
  BY DEF Buffers, FirstOf
<1> HIDE DEF g
<1> QED BY <1>4, <1>6, <1>7

LEMMA RefuseIs ==
    ASSUME NEW f \in Buffers
    PROVE  LET g == Refuse(f)
           IN  /\ g \in Buffers
               /\ g.slot = f.slot /\ g.track = f.track /\ g.needsupdate = f.needsupdate
               /\ FirstOf(g) = FirstOf(f) /\ g.entry = f.entry
<1> DEFINE g == [f EXCEPT !.buffer = << >>, !.whole = FALSE]
<1>1. << >> \in Seq(Bytes)
  OBVIOUS
<1>2. g \in Buffers
  BY <1>1 DEF Buffers
<1>3. g.slot = f.slot /\ g.track = f.track /\ g.needsupdate = f.needsupdate
      /\ FirstOf(g) = FirstOf(f) /\ g.entry = f.entry
  BY DEF Buffers, FirstOf
<1>4. Refuse(f) = g
  BY DEF Refuse
<1> HIDE DEF g
<1> QED BY <1>2, <1>3, <1>4

LEMMA ClosingIs ==
    ASSUME NEW f \in Buffers
    PROVE  /\ Closing(f) \in Entries
           /\ Closing(f).closed /\ Closing(f).first = FirstOf(f)
<1>1. f.entry.name \in Names /\ FirstOf(f) \in BlockOrNone
  BY BufferFields
<1>2. PICK first \in BlockOrNone : first = FirstOf(f)
  BY <1>1
<1>3. PICK n \in Names : n = f.entry.name
  BY <1>1
<1>4. Closing(f) = Entry(n, TRUE, first)
  BY <1>2, <1>3 DEF Closing, FirstOf
<1>5. TRUE \in BOOLEAN
  OBVIOUS
<1>6. PICK e : e = Entry(n, TRUE, first)
  OBVIOUS
<1>7. e \in Entries /\ e.closed /\ e.first = first
  BY <1>5, <1>6, EntryIn
<1> QED BY <1>2, <1>4, <1>6, <1>7

----------------------------------------------------------------------------
(* Types.                                                                   *)

LEMMA InitTypes ==
    VdriveInit => VdriveTypeOK
<1> SUFFICES ASSUME VdriveInit PROVE VdriveTypeOK
  OBVIOUS
<1>1. dir \in [Slots -> Entries \cup {None}] /\ chan \in [Channels -> Buffers \cup {None}]
  BY DEF VdriveInit
<1>2. link \in [Blocks -> BlockOrNone]
  BY DEF VdriveInit, BlockOrNone
<1>3. data \in [Blocks -> Seq(Bytes)]
  <2>1. << >> \in Seq(Bytes)
    OBVIOUS
  <2> QED BY <2>1 DEF VdriveInit
<1> QED BY <1>1, <1>2, <1>3 DEF VdriveInit, VdriveTypeOK

LEMMA SlotFields ==
    ASSUME VdriveTypeOK, NEW s \in Slots, dir[s] # None
    PROVE  /\ dir[s] \in Entries /\ dir[s].name \in Names /\ dir[s].closed \in BOOLEAN
           /\ dir[s].first \in BlockOrNone
<1>1. dir[s] \in Entries
  BY DEF VdriveTypeOK
<1> QED BY <1>1 DEF Entries

LEMMA MinIs ==
    ASSUME NEW S \in SUBSET Nat, S # {}
    PROVE  Min(S) \in S
<1>1. \E m \in S : \A i \in S : m <= i
  BY Least
<1> QED BY <1>1 DEF Min

LEMMA FreeChainType ==
    ASSUME NEW next, NEW first, NEW used \in SUBSET Blocks
    PROVE  FreeChain(used, next, first) \in SUBSET Blocks
  BY DEF FreeChain

LEMMA CloseFileTypes ==
    ASSUME VdriveTypeOK, NEW c \in Channels, CloseFile(c), command' \in {None, "I", "V", "UJ", "ATTACH"}
    PROVE  VdriveTypeOK'
<1>1. PICK b \in LastBlock(chan[c]) :
        LET f == IF chan[c].track = None THEN WithFirst(chan[c], b) ELSE chan[c]
            used == bam \cup ({b} \ {None})
        IN  /\ IF b = None
               THEN UNCHANGED <<link, data>> /\ last_code' = SetError("DISK_FULL")
               ELSE /\ link' = [link EXCEPT ![b] = None]
                    /\ data' = [data EXCEPT ![b] = f.buffer]
                    /\ UNCHANGED last_code
            /\ dir' = [dir EXCEPT ![f.slot] = Closing(f)]
            /\ bam' = IF f.needsupdate THEN FreeChain(used, link', f.entry.first) ELSE used
            /\ diskBam' = bam'
  BY DEF CloseFile, Flush, Flushed
<1>2. PICK g \in Buffers : g = chan[c]
  BY DEF CloseFile, VdriveTypeOK
<1>3. b \in BlockOrNone
  BY <1>2, BufferFields DEF LastBlock, BlockOrNone
<1>4. PICK f \in Buffers : f = IF g.track = None THEN WithFirst(g, b) ELSE g
  BY <1>2, <1>3, WithFirstIs
<1>5. /\ IF b = None
         THEN UNCHANGED <<link, data>> /\ last_code' = SetError("DISK_FULL")
         ELSE /\ link' = [link EXCEPT ![b] = None]
              /\ data' = [data EXCEPT ![b] = f.buffer]
              /\ UNCHANGED last_code
      /\ dir' = [dir EXCEPT ![f.slot] = Closing(f)]
      /\ bam' = IF f.needsupdate THEN FreeChain(bam \cup ({b} \ {None}), link', f.entry.first)
                ELSE bam \cup ({b} \ {None})
      /\ diskBam' = bam'
  BY <1>1, <1>2, <1>4
<1>6. bam' \subseteq Blocks /\ diskBam' \subseteq Blocks
  <2>1. bam \cup ({b} \ {None}) \in SUBSET Blocks
    BY <1>3, NoneIs DEF VdriveTypeOK
  <2>2. FreeChain(bam \cup ({b} \ {None}), link', f.entry.first) \in SUBSET Blocks
    BY <2>1, FreeChainType
  <2> QED BY <1>5, <2>1, <2>2
<1>7. link' \in [Blocks -> BlockOrNone] /\ data' \in [Blocks -> Seq(Bytes)]
      /\ last_code' \in {"OK", "DISK_FULL", "OTHER"}
  <2>1. f.buffer \in Seq(Bytes)
    BY BufferFields
  <2> QED BY <1>5, <2>1, NoneIs DEF VdriveTypeOK, SetError
<1>8. dir' \in [Slots -> Entries \cup {None}]
  <2>1. Closing(f) \in Entries /\ f.slot \in Slots
    BY ClosingIs, BufferFields
  <2> QED BY <1>5, <2>1 DEF VdriveTypeOK
<1>9. chan' \in [Channels -> Buffers \cup {None}]
  BY DEF CloseFile, VdriveTypeOK
<1> QED BY <1>6, <1>7, <1>8, <1>9 DEF CloseFile, VdriveTypeOK

(* What appending opens: the entry, no longer closed, its last block and    *)
(* what that holds.                                                         *)
LEMMA AppendIs ==
    ASSUME NEW c, NEW s, OpenAppend(c, s)
    PROVE  \E e, track, buffer, text :
               /\ e = [dir[s] EXCEPT !.closed = FALSE]
               /\ track = IF e.first = None THEN None ELSE LastOf(link, e.first)
               /\ buffer = IF track = None THEN << >> ELSE data[track]
               /\ text = Contents(link, data, e.first)
               /\ OpenChannel(c, Channel(s, e, track, FALSE, buffer, text))
               /\ dir' = [dir EXCEPT ![s] = e]
<1> DEFINE Is(e, track, buffer, text) ==
               /\ e = [dir[s] EXCEPT !.closed = FALSE]
               /\ track = IF e.first = None THEN None ELSE LastOf(link, e.first)
               /\ buffer = IF track = None THEN << >> ELSE data[track]
               /\ text = Contents(link, data, e.first)
               /\ OpenChannel(c, Channel(s, e, track, FALSE, buffer, text))
               /\ dir' = [dir EXCEPT ![s] = e]
           entry == [dir[s] EXCEPT !.closed = FALSE]
           last == IF entry.first = None THEN None ELSE LastOf(link, entry.first)
           held == IF last = None THEN << >> ELSE data[last]
           whole == Contents(link, data, entry.first)
<1>1. Is(entry, last, held, whole)
  BY DEF OpenAppend
<1>2. \E e, track, buffer, text : Is(e, track, buffer, text)
  <2> HIDE DEF Is, entry, last, held, whole
  <2> QED BY <1>1
<1> QED BY <1>2

LEMMA OpenTypes ==
    ASSUME VdriveTypeOK, NEW c \in Channels, NEW s \in Slots, NEW n \in Names,
           OpenNew(c, n) \/ OpenReplace(c, s) \/ OpenAppend(c, s)
    PROVE  VdriveTypeOK'
<1>1. << >> \in Seq(Bytes) /\ opens \in Nat
  BY DEF VdriveTypeOK
<1>2. ASSUME NEW f \in Buffers, OpenChannel(c, f), dir' \in [Slots -> Entries \cup {None}]
      PROVE  VdriveTypeOK'
  <2>1. chan' \in [Channels -> Buffers \cup {None}] /\ opens' \in Nat
    BY <1>1, <1>2 DEF OpenChannel, VdriveTypeOK
  <2> QED BY <1>2, <2>1 DEF OpenChannel, VdriveTypeOK
<1>3. CASE OpenNew(c, n)
  <2>1. PICK e : e = Entry(n, FALSE, None)
    OBVIOUS
  <2>2. PICK t \in Slots : /\ e = Entry(n, FALSE, None)
                           /\ OpenChannel(c, Channel(t, e, None, FALSE, << >>, << >>))
                           /\ dir' = [dir EXCEPT ![t] = e]
    BY <1>3, <2>1 DEF OpenNew
  <2>3. e \in Entries
    BY <2>2, EntryIn, NoneIs
  <2>4. PICK f : f = Channel(t, e, None, FALSE, << >>, << >>)
    OBVIOUS
  <2>5. f \in Buffers
    BY <1>1, <2>3, <2>4, ChannelIs, NoneIs
  <2>6. dir' \in [Slots -> Entries \cup {None}]
    BY <2>2, <2>3 DEF VdriveTypeOK
  <2> QED BY <1>2, <2>2, <2>4, <2>5, <2>6
<1>4. CASE OpenReplace(c, s)
  <2>1. PICK f : f = Channel(s, dir[s], None, TRUE, << >>, << >>)
    OBVIOUS
  <2>2. OpenChannel(c, f) /\ dir' = dir /\ dir[s] \in Entries
    BY <1>4, <2>1, SlotFields DEF OpenReplace
  <2>3. f \in Buffers
    BY <1>1, <2>1, <2>2, ChannelIs, NoneIs
  <2>4. dir' \in [Slots -> Entries \cup {None}]
    BY <2>2 DEF VdriveTypeOK
  <2> QED BY <1>2, <2>2, <2>3, <2>4
<1>5. CASE OpenAppend(c, s)
  <2>1. dir[s] # None /\ dir[s] \in Entries /\ dir[s].first \in BlockOrNone
    BY <1>5, SlotFields DEF OpenAppend
  <2>2. PICK e, track, buffer, text :
               /\ e = [dir[s] EXCEPT !.closed = FALSE]
               /\ track = IF e.first = None THEN None ELSE LastOf(link, e.first)
               /\ buffer = IF track = None THEN << >> ELSE data[track]
               /\ text = Contents(link, data, e.first)
               /\ OpenChannel(c, Channel(s, e, track, FALSE, buffer, text))
               /\ dir' = [dir EXCEPT ![s] = e]
    BY <1>5, AppendIs
  <2>3. e \in Entries /\ e.first = dir[s].first
    BY <2>1, <2>2 DEF Entries
  <2>4. track \in BlockOrNone
    <3>1. CASE e.first = None
      BY <2>2, <3>1, NoneIs
    <3>2. CASE e.first # None
      <4>1. link \in Links /\ Ends(link, e.first)
        BY <1>5, <2>3 DEF OpenAppend, VdriveTypeOK, Links
      <4>2. LastOf(link, e.first) \in Chain(link, e.first) /\ Chain(link, e.first) \subseteq Blocks
        BY <2>1, <2>3, <3>2, <4>1, LastIs, ChainIs
      <4> QED BY <2>2, <3>2, <4>2, NoneIs
    <3> QED BY <3>1, <3>2
  <2>5. text \in Seq(Bytes)
    BY <2>1, <2>2, <2>3, ContentsAreBytes DEF VdriveTypeOK, Links
  <2>6. buffer \in Seq(Bytes)
    BY <1>1, <2>2, <2>4, NoneIs DEF VdriveTypeOK
  <2>7. PICK f : f = Channel(s, e, track, FALSE, buffer, text)
    OBVIOUS
  <2>8. f \in Buffers
    BY <1>1, <2>3, <2>4, <2>5, <2>6, <2>7, ChannelIs
  <2>9. dir' \in [Slots -> Entries \cup {None}]
    BY <2>2, <2>3 DEF VdriveTypeOK
  <2> QED BY <1>2, <2>2, <2>7, <2>8, <2>9
<1> QED BY <1>3, <1>4, <1>5

LEMMA WriteTypes ==
    ASSUME VdriveTypeOK, NEW c \in Channels, WriteByte(c) \/ WriteBlock(c) \/ WriteRefused(c)
    PROVE  VdriveTypeOK'
<1>1. PICK f \in Buffers : f = chan[c]
  BY DEF WriteByte, WriteBlock, WriteRefused, CanWrite, VdriveTypeOK
<1>2. << >> \in Seq(Bytes) /\ f.buffer \in Seq(Bytes) /\ f.track \in BlockOrNone
  BY BufferFields
<1>3. UNCHANGED <<dir, diskBam, command, true_emulation, opens, orphans, torn>>
  BY DEF WriteByte, WriteBlock, WriteRefused, CanWrite
<1>4. ASSUME NEW g \in Buffers, chan' = [chan EXCEPT ![c] = g]
      PROVE  chan' \in [Channels -> Buffers \cup {None}]
  BY <1>4 DEF VdriveTypeOK
<1>5. CASE WriteByte(c)
  <2>1. PICK g : g = Take(f, f.buffer)
    OBVIOUS
  <2>2. g \in Buffers
    BY <1>2, <2>1, TakeIs
  <2>3. chan' = [chan EXCEPT ![c] = g]
    BY <1>1, <1>5, <2>1 DEF WriteByte
  <2>4. chan' \in [Channels -> Buffers \cup {None}]
    BY <1>4, <2>2, <2>3
  <2> QED BY <1>3, <1>5, <2>4 DEF WriteByte, VdriveTypeOK
<1>6. CASE WriteBlock(c)
  <2>1. PICK this \in IF f.track = None THEN Blocks \ bam ELSE {f.track} :
        \E next \in Blocks \ bam :
        /\ LET g == IF f.track = None THEN WithFirst(f, this) ELSE f
           IN  chan' = [chan EXCEPT ![c] = Take([g EXCEPT !.track = next], << >>)]
        /\ link' = [link EXCEPT ![this] = next]
        /\ data' = [data EXCEPT ![this] = f.buffer]
        /\ bam' = bam \cup {this, next}
    BY <1>1, <1>6 DEF WriteBlock
  <2>2. PICK next \in Blocks \ bam :
        /\ LET g == IF f.track = None THEN WithFirst(f, this) ELSE f
           IN  chan' = [chan EXCEPT ![c] = Take([g EXCEPT !.track = next], << >>)]
        /\ link' = [link EXCEPT ![this] = next]
        /\ data' = [data EXCEPT ![this] = f.buffer]
        /\ bam' = bam \cup {this, next}
    BY <2>1
  <2>3. this \in Blocks /\ next \in Blocks
    BY <1>2, <2>2, NoneIs
  <2>4. PICK g \in Buffers : g = IF f.track = None THEN WithFirst(f, this) ELSE f
    BY <2>3, WithFirstIs, NoneIs
  <2>5. PICK h \in Buffers : h = [g EXCEPT !.track = next]
    BY <2>3, TrackIs, NoneIs
  <2>6. PICK k \in Buffers : k = Take(h, << >>)
    BY <1>2, TakeIs
  <2>7. chan' = [chan EXCEPT ![c] = k]
    BY <2>2, <2>4, <2>5, <2>6
  <2>8. chan' \in [Channels -> Buffers \cup {None}]
    BY <1>4, <2>7
  <2>9. link' \in [Blocks -> BlockOrNone] /\ data' \in [Blocks -> Seq(Bytes)]
        /\ bam' \subseteq Blocks
    BY <1>2, <2>2, <2>3, NoneIs DEF VdriveTypeOK
  <2> QED BY <1>3, <1>6, <2>8, <2>9 DEF WriteBlock, VdriveTypeOK
<1>7. CASE WriteRefused(c)
  <2>1. bam' \subseteq Blocks
    BY <1>7 DEF WriteRefused, VdriveTypeOK
  <2>2. \/ chan' = [chan EXCEPT ![c] = Refuse(f)]
        \/ \E b \in Blocks : chan' = [chan EXCEPT ![c] = Refuse(WithFirst(f, b))]
    BY <1>1, <1>7 DEF WriteRefused
  <2>3. chan' \in [Channels -> Buffers \cup {None}]
    <3>1. CASE chan' = [chan EXCEPT ![c] = Refuse(f)]
      <4>1. PICK g \in Buffers : g = Refuse(f)
        BY RefuseIs
      <4> QED BY <1>4, <3>1, <4>1
    <3>2. ASSUME NEW b \in Blocks, chan' = [chan EXCEPT ![c] = Refuse(WithFirst(f, b))]
          PROVE  chan' \in [Channels -> Buffers \cup {None}]
      <4>1. PICK h \in Buffers : h = WithFirst(f, b)
        BY WithFirstIs, NoneIs
      <4>2. PICK g \in Buffers : g = Refuse(h)
        BY RefuseIs
      <4> QED BY <1>4, <3>2, <4>1, <4>2
    <3> QED BY <2>2, <3>1, <3>2
  <2> QED BY <1>3, <1>7, <2>1, <2>3 DEF WriteRefused, SetError, VdriveTypeOK
<1> QED BY <1>5, <1>6, <1>7

LEMMA CommandTypes ==
    ASSUME VdriveTypeOK,
           \/ Refused \/ ReadStatus \/ Initialized \/ AttachOver \/ ResetByUJ \/ Validated
           \/ SwitchOn \/ SwitchOff
           \/ \E cmd \in {"I", "V", "UJ", "ATTACH"} : CloseAll(cmd)
           \/ \E s \in Slots : Scratch(s) \/ DriveScratches(s) \/ \E n \in Names : Rename(s, n)
           \/ \E s \in Slots, n \in Names, b \in Blocks : DriveSaves(s, n, b)
    PROVE  VdriveTypeOK'
<1> USE DEF SetError
<1>1. CASE Refused \/ ReadStatus
  BY <1>1 DEF VdriveTypeOK, Refused, ReadStatus, diskVars
<1>2. CASE Initialized \/ ResetByUJ
  BY <1>2 DEF VdriveTypeOK, Initialized, ResetByUJ, AllClosed, Command, diskVars
<1>3. CASE Validated
  <2>1. ClosedSlots \subseteq Slots /\ InUse \subseteq Blocks
    <3>1. ASSUME NEW s \in ClosedSlots
          PROVE  ChainOf(s) \subseteq Blocks
      <4>1. s \in Slots /\ dir[s] # None
        BY DEF ClosedSlots
      <4>2. dir[s].first \in BlockOrNone /\ link \in Links
        BY <4>1, SlotFields DEF VdriveTypeOK, Links
      <4> QED BY <4>2, ChainIs DEF ChainOf
    <3> QED BY <3>1 DEF ClosedSlots, InUse
  <2>2. \A upTo : Deleted(upTo) \in [Slots -> Entries \cup {None}]
    BY DEF Deleted, VdriveTypeOK
  <2> QED BY <1>3, <2>1, <2>2 DEF VdriveTypeOK, Validated, AllClosed, Command
<1>4. CASE AttachOver
  BY <1>4 DEF VdriveTypeOK, AttachOver, diskVars
<1>5. CASE SwitchOn \/ SwitchOff
  BY <1>5 DEF VdriveTypeOK, SwitchOn, SwitchOff, AfterSwitchOff, diskVars
<1>6. ASSUME NEW cmd \in {"I", "V", "UJ", "ATTACH"}, CloseAll(cmd)
      PROVE  VdriveTypeOK'
  BY <1>6 DEF VdriveTypeOK, CloseAll, diskVars
<1>7. ASSUME NEW s \in Slots, Scratch(s)
      PROVE  VdriveTypeOK'
  <2>1. bam' \in SUBSET Blocks
    BY <1>7, FreeChainType DEF Scratch, VdriveTypeOK
  <2> QED BY <1>7, <2>1 DEF VdriveTypeOK, Scratch, Command
<1>8. ASSUME NEW s \in Slots, DriveScratches(s)
      PROVE  VdriveTypeOK'
  <2>1. diskBam' \in SUBSET Blocks
    BY <1>8, FreeChainType DEF DriveScratches, VdriveTypeOK
  <2> QED BY <1>8, <2>1 DEF VdriveTypeOK, DriveScratches
<1>9. ASSUME NEW s \in Slots, NEW n \in Names, Rename(s, n)
      PROVE  VdriveTypeOK'
  <2>1. dir[s] \in Entries
    BY <1>9, SlotFields DEF Rename
  <2>2. [dir[s] EXCEPT !.name = n] \in Entries
    BY <2>1 DEF Entries
  <2>3. dir' \in [Slots -> Entries \cup {None}]
    BY <1>9, <2>2 DEF Rename, VdriveTypeOK
  <2> QED BY <1>9, <2>3 DEF VdriveTypeOK, Rename, Command
<1>10. ASSUME NEW s \in Slots, NEW n \in Names, NEW b \in Blocks, DriveSaves(s, n, b)
       PROVE  VdriveTypeOK'
  <2>1. Entry(n, TRUE, b) \in Entries
    BY EntryIn, NoneIs
  <2>2. dir' \in [Slots -> Entries \cup {None}]
    BY <1>10, <2>1 DEF DriveSaves, VdriveTypeOK
  <2>3. <<<<opens + 1, 1>>>> \in Seq(Bytes) /\ opens + 1 \in Nat
    BY DEF VdriveTypeOK, Bytes
  <2>4. data' \in [Blocks -> Seq(Bytes)] /\ opens' \in Nat
    BY <1>10, <2>3 DEF DriveSaves, VdriveTypeOK
  <2>5. link' \in [Blocks -> BlockOrNone] /\ diskBam' \subseteq Blocks
    BY <1>10, NoneIs DEF DriveSaves, VdriveTypeOK
  <2> QED BY <1>10, <2>2, <2>4, <2>5 DEF VdriveTypeOK, DriveSaves
<1> QED BY <1>1, <1>2, <1>3, <1>4, <1>5, <1>6, <1>7, <1>8, <1>9, <1>10

\* What is left by a kill.
LEMMA KilledTypes ==
    ASSUME VdriveTypeOK, Killed,
           dir' \in [Slots -> Entries \cup {None}], link' \in [Blocks -> BlockOrNone],
           data' \in [Blocks -> Seq(Bytes)], diskBam' \subseteq Blocks,
           opens' \in Nat, torn' \in BOOLEAN
    PROVE  VdriveTypeOK'
<1>1. chan' \in [Channels -> Buffers \cup {None}]
  BY DEF Killed
<1> QED BY <1>1 DEF Killed, VdriveTypeOK

LEMMA KillTypes ==
    ASSUME VdriveTypeOK,
           \/ Kill \/ KilledInValidate \/ KilledInDrive
           \/ \E c \in Channels : KilledInClose(c)
           \/ \E s \in Slots : KilledInScratch(s)
    PROVE  VdriveTypeOK'
<1>1. CASE Kill
  BY <1>1, KilledTypes DEF Kill, diskVars, VdriveTypeOK
<1>2. CASE KilledInValidate
  <2>1. PICK upTo : dir' = Deleted(upTo)
    BY <1>2 DEF KilledInValidate
  <2>2. dir' \in [Slots -> Entries \cup {None}]
    BY <2>1 DEF Deleted, VdriveTypeOK
  <2> QED BY <1>2, <2>2, KilledTypes DEF KilledInValidate, VdriveTypeOK
<1>3. ASSUME NEW c \in Channels, KilledInClose(c)
      PROVE  VdriveTypeOK'
  <2>1. PICK g \in Buffers : g = chan[c]
    BY <1>3 DEF KilledInClose, VdriveTypeOK
  <2>2. PICK b \in LastBlock(g) :
          /\ Flush(c, b)
          /\ dir' = dir \/ dir' = [dir EXCEPT ![Flushed(c, b).slot] = Closing(Flushed(c, b))]
    BY <1>3, <2>1 DEF KilledInClose
  <2>3. b \in BlockOrNone
    BY BufferFields DEF LastBlock, BlockOrNone
  <2>4. PICK f \in Buffers : f = Flushed(c, b)
    BY <2>1, <2>3, WithFirstIs DEF Flushed
  <2>5. f.buffer \in Seq(Bytes) /\ f.slot \in Slots /\ Closing(f) \in Entries
    BY BufferFields, ClosingIs
  <2>6. link' \in [Blocks -> BlockOrNone] /\ data' \in [Blocks -> Seq(Bytes)]
    BY <2>2, <2>4, <2>5, NoneIs DEF Flush, VdriveTypeOK
  <2>7. dir' \in [Slots -> Entries \cup {None}]
    BY <2>2, <2>4, <2>5 DEF VdriveTypeOK
  <2> QED BY <1>3, <2>6, <2>7, KilledTypes DEF KilledInClose, VdriveTypeOK
<1>4. ASSUME NEW s \in Slots, KilledInScratch(s)
      PROVE  VdriveTypeOK'
  <2>1. diskBam' \subseteq Blocks
    BY <1>4, FreeChainType DEF KilledInScratch, VdriveTypeOK
  <2> QED BY <1>4, <2>1, KilledTypes DEF KilledInScratch, VdriveTypeOK
<1>5. CASE KilledInDrive
  <2>1. /\ dir' \in [Slots -> Entries \cup {None}] /\ diskBam' \subseteq Blocks
        /\ link' \in [Blocks -> BlockOrNone] /\ data' \in [Blocks -> Seq(Bytes)]
        /\ opens' \in Nat
    <3>1. ASSUME NEW s \in ClosedSlots, UNCHANGED <<link, data, opens>>,
                 \/ dir' = [dir EXCEPT ![s] = None] /\ UNCHANGED diskBam
                 \/ diskBam' = FreeChain(diskBam, link, dir[s].first) /\ UNCHANGED dir
          PROVE  /\ dir' \in [Slots -> Entries \cup {None}] /\ diskBam' \subseteq Blocks
                 /\ link' \in [Blocks -> BlockOrNone] /\ data' \in [Blocks -> Seq(Bytes)]
                 /\ opens' \in Nat
      BY <3>1, FreeChainType DEF VdriveTypeOK
    <3>2. ASSUME NEW s \in Slots, NEW n \in Names, NEW b \in Blocks \ diskBam,
                 \/ dir' = [dir EXCEPT ![s] = Entry(n, TRUE, b)] /\ UNCHANGED diskBam
                 \/ diskBam' = diskBam \cup {b} /\ UNCHANGED dir,
                 link' = [link EXCEPT ![b] = None],
                 data' = [data EXCEPT ![b] = <<<<opens + 1, 1>>>>], opens' = opens + 1
          PROVE  /\ dir' \in [Slots -> Entries \cup {None}] /\ diskBam' \subseteq Blocks
                 /\ link' \in [Blocks -> BlockOrNone] /\ data' \in [Blocks -> Seq(Bytes)]
                 /\ opens' \in Nat
      <4>1. Entry(n, TRUE, b) \in Entries
        BY EntryIn, NoneIs
      <4>2. dir' \in [Slots -> Entries \cup {None}] /\ diskBam' \subseteq Blocks
        BY <3>2, <4>1 DEF VdriveTypeOK
      <4>3. <<<<opens + 1, 1>>>> \in Seq(Bytes) /\ opens + 1 \in Nat
        BY DEF VdriveTypeOK, Bytes
      <4>4. data' \in [Blocks -> Seq(Bytes)] /\ opens' \in Nat
        BY <3>2, <4>3 DEF VdriveTypeOK
      <4>5. link' \in [Blocks -> BlockOrNone]
        BY <3>2, NoneIs DEF VdriveTypeOK
      <4> QED BY <4>2, <4>4, <4>5
    <3> QED BY <1>5, <3>1, <3>2 DEF KilledInDrive
  <2> QED BY <1>5, <2>1, KilledTypes DEF KilledInDrive
<1> QED BY <1>1, <1>2, <1>3, <1>4, <1>5

\* Which channels are open, and which is closed next.
LEMMA NextClosedIs ==
    ASSUME VdriveTypeOK, CloseNext
    PROVE  Min(Open) \in Channels /\ CloseFile(Min(Open)) /\ command' = command
<1>1. Open \in SUBSET Nat /\ Open \subseteq Channels /\ Open # {}
  BY SizesArePositive DEF CloseNext, Open, Channels
<1> QED BY <1>1, MinIs DEF CloseNext

LEMMA StepTypes ==
    ASSUME VdriveTypeOK, [VdriveNext]_vars
    PROVE  VdriveTypeOK'
<1>1. CASE UNCHANGED vars
  BY <1>1 DEF VdriveTypeOK, vars, diskVars
<1>2. ASSUME NEW c \in Channels, Close(c)
      PROVE  VdriveTypeOK'
  <2>1. command' \in {None, "I", "V", "UJ", "ATTACH"}
    BY <1>2 DEF Close, VdriveTypeOK
  <2> QED BY <1>2, <2>1, CloseFileTypes DEF Close
<1>3. CASE CloseNext
  <2>1. command' \in {None, "I", "V", "UJ", "ATTACH"}
    BY <1>3, NextClosedIs DEF VdriveTypeOK
  <2> QED BY <1>3, <2>1, NextClosedIs, CloseFileTypes
<1>4. ASSUME NEW c \in Channels, NEW n \in Names, OpenNew(c, n)
      PROVE  VdriveTypeOK'
  <2>1. PICK s : s \in Slots
    BY <1>4 DEF OpenNew
  <2> QED BY <1>4, <2>1, OpenTypes
<1>5. ASSUME NEW c \in Channels, NEW s \in Slots, OpenReplace(c, s) \/ OpenAppend(c, s)
      PROVE  VdriveTypeOK'
  <2>1. dir[s].name \in Names
    BY <1>5, SlotFields DEF OpenReplace, OpenAppend
  <2> QED BY <1>5, <2>1, OpenTypes
<1>6. ASSUME NEW c \in Channels, WriteByte(c) \/ WriteBlock(c) \/ WriteRefused(c)
      PROVE  VdriveTypeOK'
  BY <1>6, WriteTypes
<1>7. CASE UNCHANGED vars \/ VdriveNext
  BY <1>1, <1>2, <1>3, <1>4, <1>5, <1>6, <1>7, CommandTypes, KillTypes DEF VdriveNext
<1> QED BY <1>7

THEOREM DriveTypesHold == VdriveSpec => []VdriveTypeOK
<1>1. VdriveInit => VdriveTypeOK
  BY InitTypes
<1>2. VdriveTypeOK /\ [VdriveNext]_vars => VdriveTypeOK'
  BY StepTypes
<1> QED BY <1>1, <1>2, PTL DEF VdriveSpec

----------------------------------------------------------------------------
(* Files on the image and files being written, for a directory D, links L   *)
(* and channels C.                                                          *)

Dirs == [Slots -> Entries \cup {None}]
Chans == [Channels -> Buffers \cup {None}]

\* The blocks of closed files.
ClosedIn(D) == {s \in Slots : D[s] # None /\ D[s].closed}
InUseIn(D, L) == UNION {Chain(L, D[s].first) : s \in ClosedIn(D)}

\* The blocks of a file being written: the block in the buffer is the last.
Cut(L, b) == [L EXCEPT ![b] = None]
OwnIn(L, f) == IF f.track = None THEN {} ELSE Chain(Cut(L, f.track), FirstOf(f))
OpenIn(C) == {c \in Channels : C[c] # None}
HeldIn(L, C) == UNION {OwnIn(L, C[c]) : c \in OpenIn(C)}

\* Closed files end, and have no block in common.
FilesApart(D, L) ==
    /\ \A s \in ClosedIn(D) : Ends(L, D[s].first)
    /\ \A s, t \in ClosedIn(D) :
           s # t => Chain(L, D[s].first) \cap Chain(L, D[t].first) = {}

\* What is written ends with the block in the buffer.
EndsAtTrack(L, f) ==
    /\ f.track = None <=> FirstOf(f) = None
    /\ f.track # None => f.track \in OwnIn(L, f) /\ Ends(Cut(L, f.track), FirstOf(f))

(* A channel has the entry of its file: closed exactly if the file will be  *)
(* replaced, and then with the chain to be freed.                           *)
Writes(D, f) ==
    /\ D[f.slot] # None
    /\ D[f.slot].closed = f.needsupdate
    /\ f.needsupdate => D[f.slot].first = f.entry.first

\* Channels write different files, into blocks of their own.
WritersApart(D, L, C) ==
    /\ \A c \in OpenIn(C) : /\ Writes(D, C[c]) /\ EndsAtTrack(L, C[c])
                            /\ OwnIn(L, C[c]) \cap InUseIn(D, L) = {}
    /\ \A c, d \in OpenIn(C) :
           c # d => /\ C[c].slot # C[d].slot
                    /\ OwnIn(L, C[c]) \cap OwnIn(L, C[d]) = {}

Sound(D, L, C) == FilesApart(D, L) /\ WritersApart(D, L, C)

LEMMA InUseIs ==
    ASSUME NEW D \in Dirs, NEW L \in Links
    PROVE  /\ \A x : x \in InUseIn(D, L) <=> \E s \in ClosedIn(D) : x \in Chain(L, D[s].first)
           /\ InUseIn(D, L) \subseteq Blocks
           /\ \A s \in ClosedIn(D) : s \in Slots /\ D[s] \in Entries /\ D[s].first \in BlockOrNone
<1>1. ASSUME NEW s \in ClosedIn(D)
      PROVE  s \in Slots /\ D[s] \in Entries /\ D[s].first \in BlockOrNone
  <2>1. s \in Slots /\ D[s] \in Entries
    BY DEF ClosedIn, Dirs
  <2> QED BY <2>1 DEF Entries
<1>2. \A x : x \in InUseIn(D, L) <=> \E s \in ClosedIn(D) : x \in Chain(L, D[s].first)
  BY DEF InUseIn
<1>3. \A s \in ClosedIn(D) : Chain(L, D[s].first) \subseteq Blocks
  BY <1>1, ChainIs
<1> QED BY <1>1, <1>2, <1>3

LEMMA CutIn ==
    ASSUME NEW L \in Links, NEW b \in Blocks
    PROVE  Cut(L, b) \in Links /\ Cut(L, b)[b] = None /\ \A x \in Blocks \ {b} : Cut(L, b)[x] = L[x]
  BY NoneIs DEF Cut, Links

LEMMA OwnBlocks ==
    ASSUME NEW L \in Links, NEW f \in Buffers
    PROVE  OwnIn(L, f) \subseteq Blocks
<1>1. f.track \in BlockOrNone /\ FirstOf(f) \in BlockOrNone
  BY BufferFields
<1>2. CASE f.track # None
  <2>1. Cut(L, f.track) \in Links
    BY <1>1, <1>2, CutIn, NoneIs
  <2> QED BY <1>1, <1>2, <2>1, ChainIs DEF OwnIn
<1> QED BY <1>2 DEF OwnIn

LEMMA HeldIs ==
    ASSUME NEW L \in Links, NEW C \in Chans
    PROVE  /\ \A x : x \in HeldIn(L, C) <=> \E c \in OpenIn(C) : x \in OwnIn(L, C[c])
           /\ HeldIn(L, C) \subseteq Blocks
           /\ \A c \in OpenIn(C) : c \in Channels /\ C[c] \in Buffers
<1>1. \A c \in OpenIn(C) : c \in Channels /\ C[c] \in Buffers
  BY DEF OpenIn, Chans
<1>2. \A x : x \in HeldIn(L, C) <=> \E c \in OpenIn(C) : x \in OwnIn(L, C[c])
  BY DEF HeldIn
<1> QED BY <1>1, <1>2, OwnBlocks

\* Files do not change with the links of blocks that are not theirs.
LEMMA SameFiles ==
    ASSUME NEW D \in Dirs, NEW L \in Links, NEW M \in Links,
           \A b \in InUseIn(D, L) : M[b] = L[b]
    PROVE  /\ \A s \in ClosedIn(D) : /\ Chain(M, D[s].first) = Chain(L, D[s].first)
                                     /\ Ends(M, D[s].first) <=> Ends(L, D[s].first)
           /\ InUseIn(D, M) = InUseIn(D, L)
           /\ FilesApart(D, M) <=> FilesApart(D, L)
<1>1. ASSUME NEW s \in ClosedIn(D)
      PROVE  /\ Chain(M, D[s].first) = Chain(L, D[s].first)
             /\ Ends(M, D[s].first) <=> Ends(L, D[s].first)
  <2>1. D[s].first \in BlockOrNone /\ \A b \in Chain(L, D[s].first) : M[b] = L[b]
    BY InUseIs
  <2> QED BY <2>1, SameWalk
<1>2. \A x : x \in InUseIn(D, M) <=> x \in InUseIn(D, L)
  <2>1. \A x : x \in InUseIn(D, M) <=> \E s \in ClosedIn(D) : x \in Chain(M, D[s].first)
    BY InUseIs
  <2>2. \A x : x \in InUseIn(D, L) <=> \E s \in ClosedIn(D) : x \in Chain(L, D[s].first)
    BY InUseIs
  <2> QED BY <1>1, <2>1, <2>2
<1>3. FilesApart(D, M) <=> FilesApart(D, L)
  BY <1>1 DEF FilesApart
<1> QED BY <1>1, <1>2, <1>3

LEMMA SameOwn ==
    ASSUME NEW f \in Buffers, NEW L \in Links, NEW M \in Links,
           \A b \in OwnIn(L, f) : M[b] = L[b]
    PROVE  OwnIn(M, f) = OwnIn(L, f) /\ (EndsAtTrack(M, f) <=> EndsAtTrack(L, f))
<1>1. f.track \in BlockOrNone /\ FirstOf(f) \in BlockOrNone
  BY BufferFields
<1>2. CASE f.track = None
  BY <1>2 DEF OwnIn, EndsAtTrack
<1>3. CASE f.track # None
  <2>1. f.track \in Blocks
    BY <1>1, <1>3, NoneIs
  <2>2. PICK P \in Links : /\ P = Cut(L, f.track) /\ P[f.track] = None
                           /\ \A x \in Blocks \ {f.track} : P[x] = L[x]
    BY <2>1, CutIn
  <2>3. PICK Q \in Links : /\ Q = Cut(M, f.track) /\ Q[f.track] = None
                           /\ \A x \in Blocks \ {f.track} : Q[x] = M[x]
    BY <2>1, CutIn
  <2>4. OwnIn(L, f) = Chain(P, FirstOf(f)) /\ OwnIn(M, f) = Chain(Q, FirstOf(f))
    BY <1>3, <2>2, <2>3 DEF OwnIn
  <2>5. \A b \in Chain(P, FirstOf(f)) : Q[b] = P[b]
    <3>1. OwnIn(L, f) \subseteq Blocks
      BY OwnBlocks
    <3> QED BY <2>2, <2>3, <2>4, <3>1
  <2>6. Chain(Q, FirstOf(f)) = Chain(P, FirstOf(f)) /\ (Ends(Q, FirstOf(f)) <=> Ends(P, FirstOf(f)))
    BY <1>1, <2>5, SameWalk
  <2> QED BY <1>3, <2>2, <2>3, <2>4, <2>6 DEF EndsAtTrack
<1> QED BY <1>2, <1>3

\* Only the place and the first block of a file matter.
LEMMA OwnDepends ==
    ASSUME NEW L, NEW f, NEW g, f.track = g.track, FirstOf(f) = FirstOf(g)
    PROVE  OwnIn(L, f) = OwnIn(L, g) /\ (EndsAtTrack(L, f) <=> EndsAtTrack(L, g))
  BY DEF OwnIn, EndsAtTrack

----------------------------------------------------------------------------
(* What operations do to sound files.                                       *)

\* A file being written gets new blocks, or none.
LEMMA Grow ==
    ASSUME NEW D \in Dirs, NEW L \in Links, NEW C \in Chans, Sound(D, L, C),
           NEW c \in OpenIn(C), NEW f \in Buffers, NEW M \in Links, NEW N \in SUBSET Blocks,
           f.slot = C[c].slot, f.needsupdate = C[c].needsupdate,
           f.needsupdate => f.entry.first = C[c].entry.first,
           EndsAtTrack(M, f), OwnIn(M, f) = OwnIn(L, C[c]) \cup N,
           N \cap (InUseIn(D, L) \cup HeldIn(L, C)) = {},
           \A b \in (InUseIn(D, L) \cup HeldIn(L, C)) \ OwnIn(L, C[c]) : M[b] = L[b],
           NEW B \in Chans, B[c] = f, \A d \in Channels \ {c} : B[d] = C[d]
    PROVE  /\ OpenIn(B) = OpenIn(C)
           /\ Sound(D, M, B)
           /\ InUseIn(D, M) = InUseIn(D, L)
           /\ HeldIn(M, B) = HeldIn(L, C) \cup N
<1> DEFINE U == InUseIn(D, L)
           H == HeldIn(L, C)
           own == OwnIn(L, C[c])
<1>1. c \in Channels /\ C[c] \in Buffers /\ f # None
  BY HeldIs, BufferFields
<1>2. OpenIn(B) = OpenIn(C)
  BY <1>1 DEF OpenIn
<1>3. own \cap U = {} /\ own \subseteq H
  BY HeldIs DEF Sound, WritersApart
<1>4. \A b \in U : M[b] = L[b]
  BY <1>3
<1>5. /\ InUseIn(D, M) = U /\ FilesApart(D, M)
      /\ \A s \in ClosedIn(D) : Chain(M, D[s].first) = Chain(L, D[s].first)
  BY <1>4, SameFiles DEF Sound
<1>6. ASSUME NEW d \in OpenIn(C), d # c
      PROVE  /\ d \in Channels /\ C[d] \in Buffers /\ B[d] = C[d]
             /\ OwnIn(L, C[d]) \subseteq H /\ OwnIn(L, C[d]) \cap own = {}
             /\ OwnIn(M, B[d]) = OwnIn(L, C[d])
             /\ EndsAtTrack(M, B[d])
  <2>1. d \in Channels /\ C[d] \in Buffers /\ B[d] = C[d]
    BY <1>6, HeldIs
  <2>2. OwnIn(L, C[d]) \subseteq H
    BY HeldIs
  <2>3. OwnIn(L, C[d]) \cap own = {} /\ EndsAtTrack(L, C[d])
    BY <1>6 DEF Sound, WritersApart
  <2>4. \A b \in OwnIn(L, C[d]) : M[b] = L[b]
    BY <2>2, <2>3
  <2>5. OwnIn(M, C[d]) = OwnIn(L, C[d]) /\ EndsAtTrack(M, C[d])
    BY <2>1, <2>3, <2>4, SameOwn
  <2> QED BY <2>1, <2>2, <2>3, <2>5
<1>7. HeldIn(M, B) = H \cup N
  <2>1. \A x : x \in HeldIn(M, B) <=> \E d \in OpenIn(C) : x \in OwnIn(M, B[d])
    BY <1>2, HeldIs
  <2>2. \A x : x \in H <=> \E d \in OpenIn(C) : x \in OwnIn(L, C[d])
    BY HeldIs
  <2>3. OwnIn(M, B[c]) = own \cup N
    OBVIOUS
  <2> HIDE DEF H, own
  <2>4. \A x : x \in HeldIn(M, B) => x \in H \cup N
    BY <1>6, <2>1, <2>2, <2>3 DEF own
  <2>5. \A x : x \in H \cup N => x \in HeldIn(M, B)
    BY <1>6, <2>1, <2>2, <2>3 DEF own
  <2> QED BY <2>4, <2>5
<1>8. WritersApart(D, M, B)
  <2>1. ASSUME NEW d \in OpenIn(C)
        PROVE  /\ Writes(D, B[d]) /\ EndsAtTrack(M, B[d])
               /\ OwnIn(M, B[d]) \cap U = {}
    <3>1. Writes(D, C[d]) /\ OwnIn(L, C[d]) \cap U = {}
      BY DEF Sound, WritersApart
    <3>2. CASE d = c
      <4>1. Writes(D, f)
        BY <3>1, <3>2 DEF Writes
      <4>2. (own \cup N) \cap U = {}
        BY <1>3
      <4> QED BY <3>2, <4>1, <4>2
    <3>3. CASE d # c
      BY <1>6, <3>1, <3>3
    <3> QED BY <3>2, <3>3
  <2>2. ASSUME NEW d \in OpenIn(C), NEW e \in OpenIn(C), d # e
        PROVE  B[d].slot # B[e].slot /\ OwnIn(M, B[d]) \cap OwnIn(M, B[e]) = {}
    <3>1. C[d].slot # C[e].slot /\ OwnIn(L, C[d]) \cap OwnIn(L, C[e]) = {}
      BY <2>2 DEF Sound, WritersApart
    <3>2. \A x : x \in OpenIn(C) => B[x].slot = C[x].slot
      BY <1>6
    <3>3. \A x \in OpenIn(C) : x # c => OwnIn(M, B[x]) = OwnIn(L, C[x]) /\ OwnIn(L, C[x]) \cap N = {}
      BY <1>6
    <3>4. OwnIn(M, B[c]) = OwnIn(L, C[c]) \cup N
      OBVIOUS
    <3> QED BY <2>2, <3>1, <3>2, <3>3, <3>4
  <2> QED BY <1>2, <1>5, <2>1, <2>2 DEF WritersApart
<1> QED BY <1>2, <1>5, <1>7, <1>8 DEF Sound

\* Fewer closed files, as long as they are the same, are still apart.
LEMMA Fewer ==
    ASSUME NEW D \in Dirs, NEW E \in Dirs, NEW L \in Links, FilesApart(D, L),
           ClosedIn(E) \subseteq ClosedIn(D), \A s \in ClosedIn(E) : E[s].first = D[s].first
    PROVE  FilesApart(E, L) /\ InUseIn(E, L) \subseteq InUseIn(D, L)
<1>1. FilesApart(E, L)
  BY DEF FilesApart
<1>2. \A x : x \in InUseIn(E, L) => x \in InUseIn(D, L)
  <2>1. \A x : x \in InUseIn(E, L) <=> \E s \in ClosedIn(E) : x \in Chain(L, E[s].first)
    BY InUseIs
  <2>2. \A x : x \in InUseIn(D, L) <=> \E s \in ClosedIn(D) : x \in Chain(L, D[s].first)
    BY InUseIs
  <2> QED BY <2>1, <2>2
<1> QED BY <1>1, <1>2

\* The same for the files being written: no entry of theirs has changed.
LEMMA WritersStay ==
    ASSUME NEW D \in Dirs, NEW E \in Dirs, NEW L \in Links, NEW C \in Chans, Sound(D, L, C),
           FilesApart(E, L), InUseIn(E, L) \cap HeldIn(L, C) = {},
           \A c \in OpenIn(C) : Writes(E, C[c])
    PROVE  Sound(E, L, C)
<1>1. \A c \in OpenIn(C) : OwnIn(L, C[c]) \subseteq HeldIn(L, C)
  BY HeldIs
<1> QED BY <1>1 DEF Sound, WritersApart

\* No block is of a closed file and of one being written.
LEMMA HeldApart ==
    ASSUME NEW D \in Dirs, NEW L \in Links, NEW C \in Chans, Sound(D, L, C)
    PROVE  InUseIn(D, L) \cap HeldIn(L, C) = {}
<1>1. \A x : x \in HeldIn(L, C) => \E c \in OpenIn(C) : x \in OwnIn(L, C[c])
  BY HeldIs
<1> QED BY <1>1 DEF Sound, WritersApart

\* One more file is written, and its entry is changed.
LEMMA Add ==
    ASSUME NEW D \in Dirs, NEW E \in Dirs, NEW L \in Links, NEW C \in Chans, Sound(D, L, C),
           NEW c \in Channels \ OpenIn(C), NEW f \in Buffers,
           \A s \in Slots \ {f.slot} : E[s] = D[s],
           \A d \in OpenIn(C) : C[d].slot # f.slot,
           FilesApart(E, L), Writes(E, f), EndsAtTrack(L, f),
           OwnIn(L, f) \subseteq InUseIn(D, L), InUseIn(E, L) = InUseIn(D, L) \ OwnIn(L, f),
           NEW B \in Chans, B[c] = f, \A d \in Channels \ {c} : B[d] = C[d]
    PROVE  /\ OpenIn(B) = OpenIn(C) \cup {c}
           /\ Sound(E, L, B)
           /\ HeldIn(L, B) = HeldIn(L, C) \cup OwnIn(L, f)
<1>1. f # None /\ f.slot \in Slots
  BY BufferFields
<1>2. OpenIn(B) = OpenIn(C) \cup {c}
  BY <1>1 DEF OpenIn
<1>3. ASSUME NEW d \in OpenIn(C)
      PROVE  /\ d # c /\ B[d] = C[d] /\ C[d] \in Buffers
             /\ OwnIn(L, C[d]) \cap InUseIn(D, L) = {}
             /\ EndsAtTrack(L, C[d]) /\ Writes(E, C[d]) /\ C[d].slot # f.slot
  <2>1. d # c /\ B[d] = C[d] /\ C[d] \in Buffers
    BY HeldIs
  <2>2. Writes(D, C[d]) /\ C[d].slot # f.slot /\ C[d].slot \in Slots
    BY <2>1, BufferFields DEF Sound, WritersApart
  <2>3. Writes(E, C[d])
    BY <2>2 DEF Writes
  <2> QED BY <2>1, <2>2, <2>3 DEF Sound, WritersApart
<1>4. HeldIn(L, B) = HeldIn(L, C) \cup OwnIn(L, f)
  <2>1. \A x : x \in HeldIn(L, B) <=> \E d \in OpenIn(B) : x \in OwnIn(L, B[d])
    BY HeldIs
  <2>2. \A x : x \in HeldIn(L, C) <=> \E d \in OpenIn(C) : x \in OwnIn(L, C[d])
    BY HeldIs
  <2>3. \A x : x \in HeldIn(L, B) => x \in HeldIn(L, C) \cup OwnIn(L, f)
    BY <1>2, <1>3, <2>1, <2>2
  <2>4. \A x : x \in HeldIn(L, C) \cup OwnIn(L, f) => x \in HeldIn(L, B)
    BY <1>2, <1>3, <2>1, <2>2
  <2> QED BY <2>3, <2>4
<1>5. WritersApart(E, L, B)
  <2>1. \A d \in OpenIn(B) : /\ Writes(E, B[d]) /\ EndsAtTrack(L, B[d])
                             /\ OwnIn(L, B[d]) \cap InUseIn(E, L) = {}
    BY <1>2, <1>3
  <2>2. ASSUME NEW d \in OpenIn(B), NEW e \in OpenIn(B), d # e
        PROVE  B[d].slot # B[e].slot /\ OwnIn(L, B[d]) \cap OwnIn(L, B[e]) = {}
    <3>1. CASE d # c /\ e # c
      <4>1. d \in OpenIn(C) /\ e \in OpenIn(C)
        BY <1>2, <3>1
      <4>2. C[d].slot # C[e].slot /\ OwnIn(L, C[d]) \cap OwnIn(L, C[e]) = {}
        BY <2>2, <4>1 DEF Sound, WritersApart
      <4> QED BY <1>3, <4>1, <4>2
    <3>2. CASE d = c /\ e # c
      BY <1>2, <1>3, <3>2
    <3>3. CASE d # c /\ e = c
      BY <1>2, <1>3, <3>3
    <3> QED BY <2>2, <3>1, <3>2, <3>3
  <2> QED BY <2>1, <2>2 DEF WritersApart
<1> QED BY <1>2, <1>4, <1>5 DEF Sound

LEMMA NoChain ==
    ASSUME NEW L \in Links
    PROVE  Chain(L, None) = {} /\ Ends(L, None)
<1>1. None \in BlockOrNone /\ Size \in Nat /\ 0 \in 0 .. Size
  BY NoneIs, AtIs
<1>2. PICK at : at = Walk(L, None) /\ at[0] = None
  BY <1>1, AtIs
<1>3. Ends(L, None)
  <2>1. Ends(L, None) <=> \E i \in 0 .. Size : Walk(L, None)[i] = None
    BY <1>1, ChainIs
  <2> QED BY <1>1, <1>2, <2>1
<1>4. \A b : b \in Chain(L, None) => b # None /\ \E i \in 0 .. Size : at[i] = b
  <2>1. \A b : b \in Chain(L, None) => b # None /\ \E i \in 0 .. Size : Walk(L, None)[i] = b
    BY <1>1, ChainIs
  <2> QED BY <1>2, <2>1
<1>5. \A i \in 0 .. Size : at[i] = None
  <2> TAKE i \in 0 .. Size
  <2>1. 0 \in 0 .. i
    BY <1>1
  <2>2. Walk(L, None)[0] = None => Walk(L, None)[i] = None
    BY <1>1, <2>1, NoneStays
  <2> QED BY <1>2, <2>2
<1> QED BY <1>3, <1>4, <1>5

(* A file is closed: its blocks are in use from now on, and those of the    *)
(* file it replaces no more.                                                *)
LEMMA Settle ==
    ASSUME NEW D \in Dirs, NEW L \in Links, NEW C \in Chans, Sound(D, L, C),
           NEW c \in OpenIn(C), NEW f, f = C[c],
           NEW M \in Links, M = IF f.track = None THEN L ELSE Cut(L, f.track),
           NEW e \in Entries, e.closed, e.first = FirstOf(f),
           NEW E \in Dirs, E[f.slot] = e, \A s \in Slots \ {f.slot} : E[s] = D[s],
           NEW B \in Chans, B[c] = None, \A d \in Channels \ {c} : B[d] = C[d]
    PROVE  /\ Sound(E, M, B)
           /\ OpenIn(B) = OpenIn(C) \ {c}
           /\ HeldIn(M, B) = HeldIn(L, C) \ OwnIn(L, f)
           /\ InUseIn(E, M) = (IF f.needsupdate THEN InUseIn(D, L) \ Chain(L, f.entry.first)
                               ELSE InUseIn(D, L)) \cup OwnIn(L, f)
           /\ f.needsupdate => /\ Chain(L, f.entry.first) \subseteq InUseIn(D, L)
                               /\ Chain(M, f.entry.first) = Chain(L, f.entry.first)
<1>1. c \in Channels /\ f \in Buffers /\ f.slot \in Slots /\ f.track \in BlockOrNone
      /\ f.needsupdate \in BOOLEAN
  <2>1. f \in Buffers /\ c \in Channels
    BY HeldIs
  <2> QED BY <2>1, BufferFields
<1>2. PICK own : own = OwnIn(L, f) /\ own \subseteq Blocks
  BY <1>1, OwnBlocks
<1>3. Writes(D, f) /\ EndsAtTrack(L, f) /\ own \cap InUseIn(D, L) = {}
  BY <1>2 DEF Sound, WritersApart
<1>4. \A b \in Blocks : b \notin own => M[b] = L[b]
  <2>1. CASE f.track = None
    BY <2>1
  <2>2. CASE f.track # None
    <3>1. f.track \in Blocks /\ f.track \in own
      BY <1>1, <1>2, <1>3, <2>2, NoneIs DEF EndsAtTrack
    <3> QED BY <2>2, <3>1, CutIn
  <2> QED BY <2>1, <2>2
<1>5. Chain(M, e.first) = own /\ Ends(M, e.first)
  <2>1. CASE f.track = None
    <3>1. own = {} /\ e.first = None
      BY <1>2, <1>3, <2>1 DEF OwnIn, EndsAtTrack
    <3> QED BY <3>1, NoChain
  <2>2. CASE f.track # None
    BY <1>2, <1>3, <2>2 DEF OwnIn, EndsAtTrack
  <2> QED BY <2>1, <2>2
<1>6. None \notin Entries /\ e # None
  BY NoneAssumption
<1>7. ClosedIn(E) = ClosedIn(D) \cup {f.slot} /\ (f.slot \in ClosedIn(D) <=> f.needsupdate)
  <2>1. \A s : s \in ClosedIn(E) <=> s \in ClosedIn(D) \cup {f.slot}
    BY <1>1, <1>6 DEF ClosedIn
  <2>2. f.slot \in ClosedIn(D) <=> f.needsupdate
    BY <1>1, <1>3 DEF ClosedIn, Writes
  <2> QED BY <2>1, <2>2
<1>8. ASSUME NEW s \in ClosedIn(D)
       PROVE  /\ s \in Slots /\ Chain(L, D[s].first) \subseteq InUseIn(D, L)
              /\ Chain(M, D[s].first) = Chain(L, D[s].first)
              /\ Ends(M, D[s].first)
              /\ Chain(L, D[s].first) \cap own = {}
  <2>1. s \in Slots /\ Chain(L, D[s].first) \subseteq InUseIn(D, L) /\ InUseIn(D, L) \subseteq Blocks
    BY InUseIs
  <2>2. \A b \in InUseIn(D, L) : M[b] = L[b]
    BY <1>3, <1>4, <2>1
  <2>3. Chain(M, D[s].first) = Chain(L, D[s].first) /\ (Ends(M, D[s].first) <=> Ends(L, D[s].first))
    BY <2>2, SameFiles
  <2>4. Ends(L, D[s].first)
    BY DEF Sound, FilesApart
  <2> QED BY <1>3, <2>1, <2>3, <2>4
<1>9. f.needsupdate => D[f.slot].first = f.entry.first
  BY <1>3 DEF Writes
<1>10. FilesApart(E, M)
  <2>1. ASSUME NEW s \in ClosedIn(E)
        PROVE  Ends(M, E[s].first)
    <3>1. CASE s = f.slot
      BY <1>5, <3>1
    <3>2. CASE s # f.slot
      <4>1. s \in ClosedIn(D)
        BY <1>7, <3>2
      <4>2. E[s] = D[s]
        BY <1>8, <3>2, <4>1
      <4> QED BY <1>8, <4>1, <4>2
    <3> QED BY <3>1, <3>2
  <2>2. ASSUME NEW s \in ClosedIn(E), NEW t \in ClosedIn(E), s # t
        PROVE  Chain(M, E[s].first) \cap Chain(M, E[t].first) = {}
    <3>1. \A r \in ClosedIn(E) : r # f.slot =>
            r \in ClosedIn(D) /\ Chain(M, E[r].first) = Chain(L, D[r].first)
      BY <1>7, <1>8
    <3>2. Chain(M, E[f.slot].first) = own
      BY <1>5
    <3>3. CASE s = f.slot
      BY <1>8, <2>2, <3>1, <3>2, <3>3
    <3>4. CASE t = f.slot
      BY <1>8, <2>2, <3>1, <3>2, <3>4
    <3>5. CASE s # f.slot /\ t # f.slot
      BY <2>2, <3>1, <3>5 DEF Sound, FilesApart
    <3> QED BY <3>3, <3>4, <3>5
  <2> QED BY <2>1, <2>2 DEF FilesApart
<1>11. InUseIn(E, M) = (IF f.needsupdate THEN InUseIn(D, L) \ Chain(L, f.entry.first)
                        ELSE InUseIn(D, L)) \cup own
  <2>1. \A x : x \in InUseIn(E, M) <=> \E s \in ClosedIn(E) : x \in Chain(M, E[s].first)
    BY InUseIs
  <2>2. \A x : x \in InUseIn(D, L) <=> \E s \in ClosedIn(D) : x \in Chain(L, D[s].first)
    BY InUseIs
  <2>3. \A x : x \in InUseIn(E, M) <=>
            x \in own \/ \E s \in ClosedIn(D) : s # f.slot /\ x \in Chain(L, D[s].first)
    <3>1. \A s \in ClosedIn(D) : s # f.slot => Chain(M, E[s].first) = Chain(L, D[s].first)
      BY <1>8
    <3>2. Chain(M, E[f.slot].first) = own
      BY <1>5
    <3> QED BY <1>7, <2>1, <3>1, <3>2
  <2>4. CASE f.needsupdate
    <3>1. f.slot \in ClosedIn(D) /\ D[f.slot].first = f.entry.first
      BY <1>7, <1>9, <2>4
    <3>2. \A s \in ClosedIn(D) : s # f.slot =>
              Chain(L, D[s].first) \cap Chain(L, f.entry.first) = {}
      BY <3>1 DEF Sound, FilesApart
    <3>3. \A x : (\E s \in ClosedIn(D) : s # f.slot /\ x \in Chain(L, D[s].first))
                     <=> x \in InUseIn(D, L) \ Chain(L, f.entry.first)
      BY <2>2, <3>1, <3>2
    <3> QED BY <2>3, <2>4, <3>3
  <2>5. CASE ~ f.needsupdate
    <3>1. f.slot \notin ClosedIn(D)
      BY <1>7, <2>5
    <3> QED BY <2>2, <2>3, <2>5, <3>1
  <2> QED BY <1>1, <2>4, <2>5
<1>12. OpenIn(B) = OpenIn(C) \ {c}
  BY <1>1 DEF OpenIn
<1>13. ASSUME NEW d \in OpenIn(C), d # c
       PROVE  /\ B[d] = C[d] /\ C[d] \in Buffers
              /\ OwnIn(L, C[d]) \cap own = {}
              /\ OwnIn(M, C[d]) = OwnIn(L, C[d]) /\ EndsAtTrack(M, C[d])
              /\ C[d].slot # f.slot /\ Writes(E, C[d])
              /\ OwnIn(L, C[d]) \cap InUseIn(D, L) = {}
  <2>1. B[d] = C[d] /\ C[d] \in Buffers
    BY <1>13, HeldIs
  <2>2. /\ OwnIn(L, C[d]) \cap own = {} /\ C[d].slot # f.slot
        /\ Writes(D, C[d]) /\ EndsAtTrack(L, C[d]) /\ OwnIn(L, C[d]) \cap InUseIn(D, L) = {}
    BY <1>2, <1>13 DEF Sound, WritersApart
  <2>3. OwnIn(L, C[d]) \subseteq Blocks /\ C[d].slot \in Slots
    BY <2>1, OwnBlocks, BufferFields
  <2>4. \A b \in OwnIn(L, C[d]) : M[b] = L[b]
    BY <1>4, <2>2, <2>3
  <2>5. OwnIn(M, C[d]) = OwnIn(L, C[d]) /\ EndsAtTrack(M, C[d])
    BY <2>1, <2>2, <2>4, SameOwn
  <2>6. Writes(E, C[d])
    BY <2>2, <2>3 DEF Writes
  <2> QED BY <2>1, <2>2, <2>5, <2>6
<1>14. HeldIn(M, B) = HeldIn(L, C) \ own
  <2>1. \A x : x \in HeldIn(M, B) <=> \E d \in OpenIn(B) : x \in OwnIn(M, B[d])
    BY HeldIs
  <2>2. \A x : x \in HeldIn(L, C) <=> \E d \in OpenIn(C) : x \in OwnIn(L, C[d])
    BY HeldIs
  <2>3. \A x : x \in HeldIn(M, B) => x \in HeldIn(L, C) \ own
    BY <1>12, <1>13, <2>1, <2>2
  <2>4. \A x : x \in HeldIn(L, C) \ own => x \in HeldIn(M, B)
    BY <1>2, <1>12, <1>13, <2>1, <2>2
  <2> QED BY <2>3, <2>4
<1>15. WritersApart(E, M, B)
  <2>1. \A d \in OpenIn(B) : OwnIn(L, C[d]) \cap InUseIn(E, M) = {}
    BY <1>1, <1>11, <1>12, <1>13
  <2>2. \A d, h \in OpenIn(B) : d # h =>
          C[d].slot # C[h].slot /\ OwnIn(L, C[d]) \cap OwnIn(L, C[h]) = {}
    BY <1>12 DEF Sound, WritersApart
  <2>3. \A d \in OpenIn(B) : /\ B[d] = C[d] /\ OwnIn(M, B[d]) = OwnIn(L, C[d])
                             /\ EndsAtTrack(M, B[d]) /\ Writes(E, B[d])
    BY <1>12, <1>13
  <2> QED BY <2>1, <2>2, <2>3 DEF WritersApart
<1>16. f.needsupdate => /\ Chain(L, f.entry.first) \subseteq InUseIn(D, L)
                        /\ Chain(M, f.entry.first) = Chain(L, f.entry.first)
  BY <1>7, <1>8, <1>9
<1> QED BY <1>2, <1>10, <1>11, <1>12, <1>14, <1>15, <1>16 DEF Sound

\* Closed files and their places stay as they are.
LEMMA Keep ==
    ASSUME NEW D \in Dirs, NEW E \in Dirs, NEW L \in Links, NEW C \in Chans, Sound(D, L, C),
           ClosedIn(E) = ClosedIn(D), \A s \in ClosedIn(D) : E[s].first = D[s].first,
           \A c \in OpenIn(C) : Writes(E, C[c])
    PROVE  Sound(E, L, C) /\ InUseIn(E, L) = InUseIn(D, L)
<1>1. FilesApart(E, L) /\ InUseIn(E, L) \subseteq InUseIn(D, L)
  BY Fewer DEF Sound
<1>2. InUseIn(D, L) \subseteq InUseIn(E, L)
  BY <1>1, Fewer
<1>3. InUseIn(E, L) \cap HeldIn(L, C) = {}
  BY <1>1, HeldApart
<1> QED BY <1>1, <1>2, <1>3, WritersStay

\* A closed file is deleted, or opened to be written.
LEMMA RemoveFile ==
    ASSUME NEW D \in Dirs, NEW L \in Links, NEW C \in Chans, Sound(D, L, C),
           NEW s \in ClosedIn(D), \A c \in OpenIn(C) : C[c].slot # s,
           NEW E \in Dirs, s \notin ClosedIn(E), \A t \in Slots \ {s} : E[t] = D[t]
    PROVE  /\ Sound(E, L, C)
           /\ Chain(L, D[s].first) \subseteq InUseIn(D, L)
           /\ InUseIn(E, L) = InUseIn(D, L) \ Chain(L, D[s].first)
<1>1. s \in Slots
  BY InUseIs
<1>2. ClosedIn(E) = ClosedIn(D) \ {s}
  BY <1>1 DEF ClosedIn
<1>3. \A t \in ClosedIn(E) : E[t] = D[t]
  BY <1>2, InUseIs
<1>4. FilesApart(E, L) /\ InUseIn(E, L) \subseteq InUseIn(D, L)
  BY <1>2, <1>3, Fewer DEF Sound
<1>5. ASSUME NEW c \in OpenIn(C)
      PROVE  Writes(E, C[c])
  <2>1. C[c].slot \in Slots /\ C[c].slot # s /\ Writes(D, C[c])
    BY HeldIs, BufferFields DEF Sound, WritersApart
  <2> QED BY <2>1 DEF Writes
<1>6. InUseIn(E, L) \cap HeldIn(L, C) = {}
  BY <1>4, HeldApart
<1>7. Sound(E, L, C)
  BY <1>4, <1>5, <1>6, WritersStay
<1>8. InUseIn(E, L) = InUseIn(D, L) \ Chain(L, D[s].first) /\ Chain(L, D[s].first) \subseteq InUseIn(D, L)
  <2>1. \A x : x \in InUseIn(E, L) <=> \E t \in ClosedIn(E) : x \in Chain(L, E[t].first)
    BY InUseIs
  <2>2. \A x : x \in InUseIn(D, L) <=> \E t \in ClosedIn(D) : x \in Chain(L, D[t].first)
    BY InUseIs
  <2>3. \A t \in ClosedIn(D) : t # s => Chain(L, D[t].first) \cap Chain(L, D[s].first) = {}
    BY DEF Sound, FilesApart
  <2>4. \A x : x \in InUseIn(E, L) <=> x \in InUseIn(D, L) \ Chain(L, D[s].first)
    BY <1>2, <1>3, <2>1, <2>2, <2>3
  <2> QED BY <2>2, <2>4
<1> QED BY <1>7, <1>8

\* A file of one block is saved, when no other is being written.
LEMMA SaveFile ==
    ASSUME NEW D \in Dirs, NEW L \in Links, NEW C \in Chans, Sound(D, L, C), OpenIn(C) = {},
           NEW s \in Slots, D[s] = None, NEW b \in Blocks \ InUseIn(D, L),
           NEW M \in Links, M = Cut(L, b),
           NEW e \in Entries, e.closed, e.first = b,
           NEW E \in Dirs, E[s] = e, \A t \in Slots \ {s} : E[t] = D[t]
    PROVE  Sound(E, M, C) /\ InUseIn(E, M) = InUseIn(D, L) \cup {b}
<1>1. M \in Links /\ M[b] = None /\ \A x \in Blocks \ {b} : M[x] = L[x]
  BY CutIn
<1>2. e # None
  BY NoneAssumption
<1>3. ClosedIn(E) = ClosedIn(D) \cup {s} /\ s \notin ClosedIn(D)
  BY <1>2 DEF ClosedIn
<1>4. InUseIn(D, L) \subseteq Blocks /\ \A t \in ClosedIn(D) : Chain(L, D[t].first) \subseteq InUseIn(D, L)
  BY InUseIs
<1>5. \A t \in ClosedIn(D) : /\ t # s /\ E[t] = D[t]
                             /\ Chain(M, E[t].first) = Chain(L, D[t].first)
                             /\ Ends(M, E[t].first)
                             /\ b \notin Chain(L, D[t].first)
  <2>1. \A x \in InUseIn(D, L) : M[x] = L[x]
    BY <1>1, <1>4
  <2>2. \A t \in ClosedIn(D) : t \in Slots /\ t # s /\ E[t] = D[t]
    BY <1>3, InUseIs
  <2>3. \A t \in ClosedIn(D) : /\ Chain(M, D[t].first) = Chain(L, D[t].first)
                               /\ Ends(M, D[t].first) <=> Ends(L, D[t].first)
    BY <1>1, <2>1, SameFiles
  <2> QED BY <1>4, <2>2, <2>3 DEF Sound, FilesApart
<1>6. Chain(M, E[s].first) = {b} /\ Ends(M, E[s].first)
  BY <1>1, SingleChain
<1>7. FilesApart(E, M)
  <2>1. \A t \in ClosedIn(E) : Ends(M, E[t].first)
    BY <1>3, <1>5, <1>6
  <2>2. ASSUME NEW t \in ClosedIn(E), NEW u \in ClosedIn(E), t # u
        PROVE  Chain(M, E[t].first) \cap Chain(M, E[u].first) = {}
    <3>1. CASE t = s
      BY <1>3, <1>5, <1>6, <2>2, <3>1
    <3>2. CASE u = s
      BY <1>3, <1>5, <1>6, <2>2, <3>2
    <3>3. CASE t # s /\ u # s
      BY <1>3, <1>5, <2>2, <3>3 DEF Sound, FilesApart
    <3> QED BY <3>1, <3>2, <3>3
  <2> QED BY <2>1, <2>2 DEF FilesApart
<1>8. InUseIn(E, M) = InUseIn(D, L) \cup {b}
  <2>1. \A x : x \in InUseIn(E, M) <=> \E t \in ClosedIn(E) : x \in Chain(M, E[t].first)
    BY <1>1, InUseIs
  <2>2. \A x : x \in InUseIn(D, L) <=> \E t \in ClosedIn(D) : x \in Chain(L, D[t].first)
    BY InUseIs
  <2>3. \A x : x \in InUseIn(E, M) <=> x \in InUseIn(D, L) \cup {b}
    BY <1>3, <1>5, <1>6, <2>1, <2>2
  <2> QED BY <2>3
<1>9. WritersApart(E, M, C)
  BY DEF WritersApart
<1> QED BY <1>7, <1>8, <1>9 DEF Sound

\* No file is being written any more.
LEMMA Forget ==
    ASSUME NEW D, NEW L \in Links, NEW C, NEW B \in Chans, Sound(D, L, C), OpenIn(B) = {}
    PROVE  Sound(D, L, B) /\ HeldIn(L, B) = {}
<1>1. HeldIn(L, B) = {}
  BY HeldIs
<1> QED BY <1>1 DEF Sound, WritersApart

----------------------------------------------------------------------------
(* The inductive invariant, of a drive whose user is careful.               *)

(* What the bitmaps say.  Blocks in use are marked, on the disk those of    *)
(* closed files and in memory those of all; and, if no file was lost when   *)
(* the emulator was killed, no others.                                      *)
BitmapsTrue ==
    /\ InUseIn(dir, link) \subseteq diskBam
    /\ true_emulation => OpenIn(chan) = {}
    /\ ~ true_emulation => InUseIn(dir, link) \cup HeldIn(link, chan) \subseteq bam
    /\ ~ true_emulation /\ OpenIn(chan) = {} => bam = diskBam
    /\ ~ true_emulation /\ ~ orphans => bam = InUseIn(dir, link) \cup HeldIn(link, chan)
    /\ OpenIn(chan) = {} /\ ~ orphans => diskBam = InUseIn(dir, link)

DriveInv == Sound(dir, link, chan) /\ BitmapsTrue

LEMMA TypesAre ==
    ASSUME VdriveTypeOK
    PROVE  dir \in Dirs /\ link \in Links /\ chan \in Chans /\ bam \in SUBSET Blocks
           /\ orphans \in BOOLEAN /\ true_emulation \in BOOLEAN
  BY DEF VdriveTypeOK, Dirs, Links, Chans

LEMMA NoneHeld ==
    ASSUME NEW L \in Links, NEW C \in Chans, OpenIn(C) = {}
    PROVE  HeldIn(L, C) = {}
  BY HeldIs

LEMMA InitSound ==
    ASSUME VdriveInit
    PROVE  DriveInv
<1>1. dir \in Dirs /\ link \in Links /\ chan \in Chans
  BY InitTypes, TypesAre
<1>2. ClosedIn(dir) = {} /\ OpenIn(chan) = {}
  BY DEF VdriveInit, ClosedIn, OpenIn
<1>3. InUseIn(dir, link) = {} /\ HeldIn(link, chan) = {}
  BY <1>1, <1>2, InUseIs, NoneHeld
<1> QED BY <1>2, <1>3 DEF VdriveInit, DriveInv, Sound, FilesApart, WritersApart, BitmapsTrue

LEMMA QuietSound ==
    ASSUME VdriveTypeOK, DriveInv, Careful,
           \/ UNCHANGED vars \/ Refused \/ ReadStatus \/ Initialized \/ ResetByUJ
           \/ SwitchOn \/ SwitchOff
           \/ \E cmd \in {"I", "V", "UJ", "ATTACH"} : CloseAll(cmd)
    PROVE  DriveInv'
<1>1. dir' = dir /\ link' = link /\ chan' = chan /\ diskBam' = diskBam /\ orphans' = orphans
  BY DEF vars, diskVars, Refused, ReadStatus, Initialized, ResetByUJ, SwitchOn, SwitchOff,
         CloseAll, Command
<1>2. Sound(dir, link, chan)'
  BY <1>1 DEF DriveInv
<1>3. OpenIn(chan) = {} => HeldIn(link, chan) = {}
  BY NoneHeld, TypesAre
<1>4. CASE true_emulation' = true_emulation /\ bam' = bam
  BY <1>1, <1>2, <1>4 DEF DriveInv, BitmapsTrue
<1>5. CASE Initialized
  <2>1. OpenIn(chan) = {} /\ true_emulation' = true_emulation /\ bam' = diskBam
    BY <1>5 DEF Initialized, AllClosed, Command, Open, OpenIn
  <2> QED BY <1>1, <1>2, <1>3, <2>1 DEF DriveInv, BitmapsTrue
<1>6. CASE SwitchOn
  <2>1. OpenIn(chan) = {} /\ true_emulation' = TRUE
    BY <1>6 DEF SwitchOn, MaySwitch, Open, OpenIn
  <2> QED BY <1>1, <1>2, <2>1 DEF DriveInv, BitmapsTrue
<1>7. CASE SwitchOff
  <2>1. true_emulation /\ bam' = diskBam
    BY <1>7 DEF SwitchOff, AfterSwitchOff
  <2> QED BY <1>1, <1>2, <1>3, <2>1 DEF DriveInv, BitmapsTrue
<1> QED BY <1>4, <1>5, <1>6, <1>7 DEF vars, diskVars, Refused, ReadStatus, ResetByUJ, CloseAll, Command

LEMMA KillSound ==
    ASSUME VdriveTypeOK, DriveInv, Kill \/ AttachOver
    PROVE  DriveInv'
<1>1. dir' = dir /\ link' = link /\ diskBam' = diskBam /\ bam' = diskBam
      /\ (~ orphans' => ~ orphans /\ OpenIn(chan) = {})
  BY DEF Kill, Killed, AttachOver, diskVars, Open, OpenIn
<1>2. chan' \in Chans /\ OpenIn(chan') = {}
  BY DEF Kill, Killed, AttachOver, Chans, OpenIn
<1>3. Sound(dir, link, chan') /\ HeldIn(link, chan') = {}
  BY <1>2, Forget, TypesAre DEF DriveInv
<1> QED BY <1>1, <1>2, <1>3 DEF DriveInv, BitmapsTrue

\* The last block of a file that is being closed has been written, no more.
LEMMA CutOffSound ==
    ASSUME VdriveTypeOK, VdriveTypeOK', DriveInv, NEW c \in Channels, KilledInClose(c), ~ torn'
    PROVE  /\ DriveInv' /\ dir' = dir /\ OpenIn(chan') = {}
           /\ \A b \in InUseIn(dir, link) : link'[b] = link[b] /\ data'[b] = data[b]
<1>1. /\ dir \in Dirs /\ link \in Links /\ chan \in Chans /\ link' \in Links /\ chan' \in Chans
      /\ Sound(dir, link, chan) /\ bam \in SUBSET Blocks
      /\ data \in [Blocks -> Seq(Bytes)]
  BY TypesAre DEF VdriveTypeOK, Links, Chans, DriveInv
<1>2. /\ dir' = dir /\ diskBam' = diskBam /\ bam' = diskBam /\ c \in OpenIn(chan)
      /\ chan' = [d \in Channels |-> None] /\ orphans'
  BY DEF KilledInClose, Killed, OpenIn, Open
<1>3. OpenIn(chan') = {}
  BY <1>2 DEF OpenIn
<1>4. PICK g \in Buffers : g = chan[c]
  BY <1>1, <1>2, HeldIs
<1>5. PICK b \in LastBlock(g) : Flush(c, b)
  BY <1>4 DEF KilledInClose
<1>6. PICK U : U = InUseIn(dir, link) /\ U \subseteq Blocks /\ U \subseteq bam
  BY <1>1, <1>2, InUseIs DEF DriveInv, BitmapsTrue
<1>7. b = None \/ (b \in Blocks /\ b \notin U)
  <2>1. CASE g.track # None
    <3>1. b = g.track /\ g.track \in OwnIn(link, g) /\ OwnIn(link, g) \cap U = {}
      BY <1>1, <1>2, <1>4, <1>5, <1>6, <2>1 DEF LastBlock, Sound, WritersApart, EndsAtTrack
    <3>2. OwnIn(link, g) \subseteq Blocks
      BY <1>1, OwnBlocks
    <3> QED BY <3>1, <3>2
  <2>2. CASE g.track = None
    BY <1>5, <1>6, <2>2 DEF LastBlock
  <2> QED BY <2>1, <2>2
<1>8. \A x \in U : link'[x] = link[x] /\ data'[x] = data[x]
  BY <1>1, <1>5, <1>6, <1>7 DEF Flush, Links
<1>9. PICK M \in Links : M = link'
  BY <1>1
<1>10. \A s \in ClosedIn(dir) : /\ Chain(M, dir[s].first) = Chain(link, dir[s].first)
                                /\ Ends(M, dir[s].first) <=> Ends(link, dir[s].first)
  BY <1>1, <1>6, <1>8, <1>9, SameFiles
<1>11. InUseIn(dir, M) = U /\ FilesApart(dir, M)
  <2>1. FilesApart(dir, M)
    BY <1>1, <1>10 DEF Sound, FilesApart
  <2>2. \A x : x \in InUseIn(dir, M) <=> x \in U
    BY <1>1, <1>6, <1>10, InUseIs
  <2> QED BY <2>1, <2>2
<1>12. Sound(dir, M, chan')
  BY <1>3, <1>11 DEF Sound, WritersApart
<1>13. HeldIn(M, chan') = {}
  BY <1>1, <1>3, NoneHeld
<1>14. BitmapsTrue'
  BY <1>2, <1>3, <1>6, <1>9, <1>11, <1>13 DEF DriveInv, BitmapsTrue
<1> QED BY <1>2, <1>3, <1>6, <1>8, <1>9, <1>12, <1>14 DEF DriveInv

LEMMA DeleteSound ==
    ASSUME VdriveTypeOK, DriveInv, Careful, NEW s \in Slots, Scratch(s) \/ DriveScratches(s)
    PROVE  DriveInv'
<1>1. dir \in Dirs /\ link \in Links /\ chan \in Chans /\ link' = link /\ chan' = chan
      /\ orphans' = orphans /\ true_emulation' = true_emulation
      /\ dir' = [dir EXCEPT ![s] = None]
  BY TypesAre DEF Scratch, DriveScratches, Command
<1>2. PICK chain : chain = Chain(link, dir[s].first)
  OBVIOUS
<1>3. s \in ClosedIn(dir) /\ \A c \in OpenIn(chan) : chan[c].slot # s
  <2>1. CASE Scratch(s)
    BY <2>1 DEF Scratch, MayTouch, Written, ClosedIn, OpenIn
  <2>2. CASE DriveScratches(s)
    <3>1. OpenIn(chan) = {}
      BY <2>2 DEF DriveScratches, DriveInv, BitmapsTrue
    <3> QED BY <2>2, <3>1 DEF DriveScratches, ClosedSlots, ClosedIn
  <2> QED BY <2>1, <2>2
<1>4. /\ Sound(dir', link, chan) /\ chain \subseteq InUseIn(dir, link)
      /\ InUseIn(dir', link) = InUseIn(dir, link) \ chain
  <2>1. PICK E \in Dirs : /\ E = dir' /\ s \notin ClosedIn(E)
                          /\ \A t \in Slots \ {s} : E[t] = dir[t]
    BY <1>1, <1>3 DEF Dirs, ClosedIn
  <2>2. Sound(dir, link, chan) /\ dir \in Dirs /\ link \in Links /\ chan \in Chans
    BY <1>1 DEF DriveInv
  <2>3. /\ Sound(E, link, chan) /\ Chain(link, dir[s].first) \subseteq InUseIn(dir, link)
        /\ InUseIn(E, link) = InUseIn(dir, link) \ Chain(link, dir[s].first)
    BY <1>3, <2>1, <2>2, RemoveFile
  <2> QED BY <1>2, <2>1, <2>3
<1>5. InUseIn(dir, link) \cap HeldIn(link, chan) = {}
  BY <1>1, HeldApart DEF DriveInv
<1>6. dir[s].first \in BlockOrNone
  BY <1>1, <1>3, InUseIs
<1>7. CASE Scratch(s)
  <2>1. ~ true_emulation /\ bam' = FreeChain(bam, link, dir[s].first) /\ diskBam' = bam'
    BY <1>7 DEF Scratch, Served
  <2>2. chain \subseteq bam /\ bam \in SUBSET Blocks
    BY <1>4, <2>1, TypesAre DEF DriveInv, BitmapsTrue
  <2>3. bam' = bam \ chain
    BY <1>1, <1>2, <1>6, <2>1, <2>2, FreeChainIs
  <2> QED BY <1>1, <1>4, <1>5, <2>1, <2>2, <2>3, NoneHeld DEF DriveInv, BitmapsTrue
<1>8. CASE DriveScratches(s)
  <2>1. true_emulation /\ diskBam' = FreeChain(diskBam, link, dir[s].first)
    BY <1>8 DEF DriveScratches
  <2>2. chain \subseteq diskBam /\ diskBam \in SUBSET Blocks
    BY <1>4 DEF DriveInv, BitmapsTrue, VdriveTypeOK
  <2>3. diskBam' = diskBam \ chain
    BY <1>1, <1>2, <1>6, <2>1, <2>2, FreeChainIs
  <2> QED BY <1>1, <1>4, <2>1, <2>2, <2>3 DEF DriveInv, BitmapsTrue
<1> QED BY <1>7, <1>8

LEMMA RenameSound ==
    ASSUME VdriveTypeOK, VdriveTypeOK', DriveInv, NEW s \in Slots, NEW n \in Names, Rename(s, n)
    PROVE  DriveInv'
<1>1. dir \in Dirs /\ link \in Links /\ chan \in Chans /\ dir' \in Dirs
  BY TypesAre DEF VdriveTypeOK, Dirs
<1>2. link' = link /\ chan' = chan /\ orphans' = orphans /\ true_emulation' = true_emulation
      /\ bam' = bam /\ diskBam' = diskBam
  BY DEF Rename, Command
<1>3. \A t \in Slots : /\ dir'[t] = None <=> dir[t] = None
                       /\ dir[t] # None => /\ dir'[t].closed = dir[t].closed
                                           /\ dir'[t].first = dir[t].first
  <2> TAKE t \in Slots
  <2>1. CASE t = s
    <3>1. dir[s] # None /\ dir[s] \in Entries
      BY SlotFields DEF Rename
    <3>2. dir'[s] = [dir[s] EXCEPT !.name = n]
      BY <1>1 DEF Rename, Dirs
    <3>3. dir'[s] \in Entries /\ dir'[s].closed = dir[s].closed /\ dir'[s].first = dir[s].first
      BY <3>1, <3>2 DEF Entries
    <3> QED BY <2>1, <3>1, <3>3, NoneAssumption
  <2>2. CASE t # s
    <3>1. dir'[t] = dir[t]
      BY <1>1, <2>2 DEF Rename, Dirs
    <3> QED BY <3>1
  <2> QED BY <2>1, <2>2
<1>4. ClosedIn(dir') = ClosedIn(dir) /\ \A t \in ClosedIn(dir) : dir'[t].first = dir[t].first
  BY <1>3 DEF ClosedIn
<1>5. ASSUME NEW c \in OpenIn(chan)
      PROVE  Writes(dir', chan[c])
  <2>1. chan[c].slot \in Slots /\ Writes(dir, chan[c])
    BY <1>1, HeldIs, BufferFields DEF DriveInv, Sound, WritersApart
  <2> QED BY <1>3, <2>1 DEF Writes
<1>6. Sound(dir', link, chan) /\ InUseIn(dir', link) = InUseIn(dir, link)
  BY <1>1, <1>4, <1>5, Keep DEF DriveInv
<1> QED BY <1>2, <1>6 DEF DriveInv, BitmapsTrue

\* Validating finds nothing wrong with the files, and frees what is not theirs.
LEMMA NoConflicts ==
    ASSUME FilesApart(dir, link)
    PROVE  Conflicts = {}
<1>1. ClosedSlots = ClosedIn(dir)
  BY DEF ClosedSlots, ClosedIn
<1>2. ASSUME NEW s \in ClosedSlots, NEW t \in ClosedSlots, t < s
      PROVE  ChainOf(t) \cap ChainOf(s) = {}
  <2>1. t # s
    BY <1>2 DEF ClosedSlots, Slots
  <2> QED BY <1>1, <2>1 DEF FilesApart, ChainOf
<1>3. \A s \in ClosedSlots : Ends(link, dir[s].first)
  BY <1>1 DEF FilesApart
<1> QED BY <1>2, <1>3 DEF Conflicts

LEMMA ConflictsAre ==
    ASSUME Conflicts = {}
    PROVE  FilesApart(dir, link)
<1>1. ClosedSlots = ClosedIn(dir)
  BY DEF ClosedSlots, ClosedIn
<1>2. \A s \in ClosedSlots : Ends(link, dir[s].first)
  BY DEF Conflicts
<1>3. \A s, t \in ClosedSlots : t < s => ChainOf(t) \cap ChainOf(s) = {}
  BY DEF Conflicts
<1>4. ASSUME NEW s \in ClosedSlots, NEW t \in ClosedSlots, s # t
      PROVE  ChainOf(s) \cap ChainOf(t) = {}
  <2>1. s < t \/ t < s
    BY <1>4, SizesArePositive DEF ClosedSlots, Slots
  <2> QED BY <1>3, <2>1
<1> QED BY <1>1, <1>2, <1>4 DEF FilesApart, ChainOf

(* However torn the disk has been: a validate that succeeds makes it sound. *)
LEMMA ValidateSound ==
    ASSUME VdriveTypeOK, VdriveTypeOK', Conflicts = {}, Validated
    PROVE  DriveInv'
<1>1. dir \in Dirs /\ link \in Links /\ chan \in Chans /\ dir' \in Dirs
  BY TypesAre DEF VdriveTypeOK, Dirs
<1>2. ClosedSlots = ClosedIn(dir) /\ InUse = InUseIn(dir, link)
  BY DEF ClosedSlots, ClosedIn, InUse, InUseIn, ChainOf
<1>3. /\ bam' = InUseIn(dir, link) /\ diskBam' = InUseIn(dir, link)
      /\ dir' = Deleted(SlotCount + 1)
      /\ link' = link /\ chan' = chan /\ true_emulation' = true_emulation
      /\ OpenIn(chan) = {}
  BY <1>2 DEF Validated, Command, AllClosed, Open, OpenIn
<1>4. \A s \in Slots : dir'[s] = IF s \notin ClosedIn(dir) THEN None ELSE dir[s]
  <2>1. \A s \in Slots : s < SlotCount + 1
    BY SizesArePositive DEF Slots
  <2> QED BY <1>2, <1>3, <2>1 DEF Deleted
<1>5. ClosedIn(dir') = ClosedIn(dir) /\ \A s \in ClosedIn(dir) : dir'[s].first = dir[s].first
  BY <1>4 DEF ClosedIn
<1>6. Sound(dir', link, chan) /\ InUseIn(dir', link) = InUseIn(dir, link)
  <2>1. \A c \in OpenIn(chan) : Writes(dir', chan[c])
    BY <1>3
  <2>2. Sound(dir, link, chan)
    BY <1>3, ConflictsAre DEF Sound, WritersApart
  <2> QED BY <1>1, <1>5, <2>1, <2>2, Keep
<1>7. HeldIn(link, chan) = {}
  BY <1>1, <1>3, NoneHeld
<1> QED BY <1>3, <1>6, <1>7 DEF DriveInv, BitmapsTrue

\* Some of the files not closed have been deleted, no more.
LEMMA HalfValidatedSound ==
    ASSUME VdriveTypeOK, VdriveTypeOK', DriveInv, KilledInValidate
    PROVE  /\ DriveInv' /\ link' = link /\ data' = data /\ OpenIn(chan') = {}
           /\ \A s \in Slots : dir'[s] = IF s \in ClosedIn(dir) THEN dir[s] ELSE dir'[s]
           /\ \A s \in Slots : dir'[s] = None \/ dir'[s] = dir[s]
<1>1. dir \in Dirs /\ link \in Links /\ chan \in Chans /\ dir' \in Dirs /\ chan' \in Chans
  BY TypesAre DEF VdriveTypeOK, Dirs, Chans
<1>2. /\ bam' = diskBam /\ diskBam' = diskBam /\ link' = link /\ data' = data
      /\ (orphans => orphans') /\ OpenIn(chan) = {}
      /\ chan' = [c \in Channels |-> None]
  BY DEF KilledInValidate, Killed, Open, OpenIn
<1>3. OpenIn(chan') = {}
  BY <1>2 DEF OpenIn
<1>4. PICK upTo : dir' = Deleted(upTo)
  BY DEF KilledInValidate
<1>5. \A s \in Slots : /\ s \in ClosedIn(dir) => dir'[s] = dir[s]
                       /\ dir'[s] = None \/ dir'[s] = dir[s]
  BY <1>4 DEF Deleted, ClosedSlots, ClosedIn
<1>6. ClosedIn(dir') = ClosedIn(dir) /\ \A s \in ClosedIn(dir) : dir'[s].first = dir[s].first
  BY <1>5 DEF ClosedIn
<1>7. Sound(dir', link, chan) /\ InUseIn(dir', link) = InUseIn(dir, link)
  BY <1>1, <1>2, <1>6, Keep DEF DriveInv
<1>8. Sound(dir', link, chan') /\ HeldIn(link, chan') = {}
  BY <1>1, <1>3, <1>7, Forget
<1>9. BitmapsTrue'
  BY <1>2, <1>3, <1>7, <1>8 DEF DriveInv, BitmapsTrue
<1> QED BY <1>2, <1>3, <1>5, <1>8, <1>9 DEF DriveInv

LEMMA SaveSound ==
    ASSUME VdriveTypeOK, VdriveTypeOK', DriveInv, NEW s \in Slots, NEW n \in Names, NEW b \in Blocks,
           DriveSaves(s, n, b)
    PROVE  DriveInv'
<1>1. dir \in Dirs /\ link \in Links /\ chan \in Chans /\ dir' \in Dirs /\ link' \in Links
  BY TypesAre DEF VdriveTypeOK, Dirs, Links
<1>2. /\ true_emulation /\ dir[s] = None /\ b \notin diskBam
      /\ diskBam' = diskBam \cup {b} /\ chan' = chan /\ true_emulation' = true_emulation
      /\ orphans' = orphans
  BY DEF DriveSaves
<1>3. OpenIn(chan) = {} /\ b \in Blocks \ InUseIn(dir, link)
  BY <1>2 DEF DriveInv, BitmapsTrue
<1>4. PICK e \in Entries : e = Entry(n, TRUE, b) /\ e.closed /\ e.first = b
  <2>1. PICK e : e = Entry(n, TRUE, b)
    OBVIOUS
  <2>2. TRUE \in BOOLEAN /\ b \in BlockOrNone
    BY NoneIs
  <2>3. e \in Entries /\ e.closed /\ e.first = b
    BY <2>1, <2>2, EntryIn
  <2> QED BY <2>1, <2>3
<1>5. dir' = [dir EXCEPT ![s] = e] /\ link' = Cut(link, b)
  BY <1>4 DEF DriveSaves, Cut
<1>6. Sound(dir', link', chan) /\ InUseIn(dir', link') = InUseIn(dir, link) \cup {b}
  <2>1. Sound(dir, link, chan)
    BY DEF DriveInv
  <2>2. PICK M \in Links : M = link' /\ M = Cut(link, b)
    BY <1>1, <1>5
  <2>3. dir \in Dirs /\ link \in Links /\ chan \in Chans /\ dir[s] = None
    BY <1>1, <1>2
  <2>4. PICK E \in Dirs : E = dir' /\ E[s] = e /\ \A t \in Slots \ {s} : E[t] = dir[t]
    BY <1>1, <1>5 DEF Dirs
  <2>5. Sound(E, M, chan) /\ InUseIn(E, M) = InUseIn(dir, link) \cup {b}
    <3>1. s \in Slots /\ b \in Blocks \ InUseIn(dir, link) /\ M = Cut(link, b)
          /\ e.closed /\ e.first = b /\ OpenIn(chan) = {}
      BY <1>3, <1>4, <2>2
    <3> QED BY <2>1, <2>3, <2>4, <3>1, SaveFile
  <2> QED BY <2>2, <2>4, <2>5
<1> QED BY <1>2, <1>3, <1>6 DEF DriveInv, BitmapsTrue

\* A file is opened: some blocks in use, or none, are now of a file being written.
LEMMA OpenedSound ==
    ASSUME VdriveTypeOK, VdriveTypeOK', DriveInv, NEW c \in Channels, NEW f \in Buffers,
           OpenChannel(c, f), Sound(dir', link, chan'),
           OpenIn(chan') = OpenIn(chan) \cup {c},
           OwnIn(link, f) \subseteq InUseIn(dir, link),
           InUseIn(dir', link) = InUseIn(dir, link) \ OwnIn(link, f),
           HeldIn(link, chan') = HeldIn(link, chan) \cup OwnIn(link, f)
    PROVE  DriveInv'
<1>1. /\ link' = link /\ bam' = bam /\ diskBam' = diskBam /\ orphans' = orphans
      /\ true_emulation' = true_emulation /\ ~ true_emulation
  BY DEF OpenChannel, Served
<1>2. InUseIn(dir', link) \cup HeldIn(link, chan') = InUseIn(dir, link) \cup HeldIn(link, chan)
  OBVIOUS
<1>3. OpenIn(chan') # {}
  OBVIOUS
<1> QED BY <1>1, <1>2, <1>3 DEF DriveInv, BitmapsTrue

LEMMA OpenSound ==
    ASSUME VdriveTypeOK, VdriveTypeOK', DriveInv, Careful, NEW c \in Channels, NEW s \in Slots, NEW n \in Names,
           OpenNew(c, n) \/ OpenReplace(c, s) \/ OpenAppend(c, s)
    PROVE  DriveInv'
<1>1. /\ dir \in Dirs /\ link \in Links /\ chan \in Chans /\ dir' \in Dirs /\ chan' \in Chans
      /\ Sound(dir, link, chan) /\ FilesApart(dir, link)
  BY TypesAre DEF VdriveTypeOK, Dirs, Chans, DriveInv, Sound
<1>2. << >> \in Seq(Bytes) /\ opens \in Nat /\ None \in BlockOrNone
  BY NoneIs DEF VdriveTypeOK
<1>3. ASSUME NEW f \in Buffers, OpenChannel(c, f)
      PROVE  /\ c \in Channels \ OpenIn(chan) /\ chan'[c] = f
             /\ \A d \in Channels \ {c} : chan'[d] = chan[d]
  BY <1>1, <1>3 DEF OpenChannel, OpenIn, Chans
<1>4. ASSUME NEW f \in Buffers, OpenChannel(c, f),
             \A t \in Slots \ {f.slot} : dir'[t] = dir[t],
             \A d \in OpenIn(chan) : chan[d].slot # f.slot,
             FilesApart(dir', link), Writes(dir', f), EndsAtTrack(link, f),
             OwnIn(link, f) \subseteq InUseIn(dir, link),
             InUseIn(dir', link) = InUseIn(dir, link) \ OwnIn(link, f)
      PROVE  DriveInv'
  <2>1. PICK E \in Dirs : E = dir'
    BY <1>1
  <2>2. PICK B \in Chans : B = chan'
    BY <1>1
  <2>3. c \in Channels \ OpenIn(chan) /\ B[c] = f /\ \A d \in Channels \ {c} : B[d] = chan[d]
    BY <1>3, <1>4, <2>2
  <2>4. /\ \A t \in Slots \ {f.slot} : E[t] = dir[t]
        /\ FilesApart(E, link) /\ Writes(E, f)
        /\ InUseIn(E, link) = InUseIn(dir, link) \ OwnIn(link, f)
    BY <1>4, <2>1
  <2>5. /\ OpenIn(B) = OpenIn(chan) \cup {c}
        /\ Sound(E, link, B)
        /\ HeldIn(link, B) = HeldIn(link, chan) \cup OwnIn(link, f)
    BY <1>1, <1>4, <2>3, <2>4, Add
  <2> QED BY <1>4, <2>1, <2>2, <2>5, OpenedSound
<1>5. CASE OpenNew(c, n)
  <2>1. PICK e : e = Entry(n, FALSE, None)
    OBVIOUS
  <2>2. PICK t \in Slots : /\ dir[t] = None
                           /\ OpenChannel(c, Channel(t, e, None, FALSE, << >>, << >>))
                           /\ dir' = [dir EXCEPT ![t] = e]
    BY <1>5, <2>1 DEF OpenNew
  <2>3. e \in Entries /\ e.closed = FALSE /\ e.first = None /\ e # None
    <3>1. e \in Entries /\ e # None
      BY <1>2, <2>1, EntryIn, NoneAssumption, ZenonT(60)
    <3>2. e.closed = FALSE /\ e.first = None
      BY <2>1 DEF Entry
    <3> QED BY <3>1, <3>2
  <2>4. PICK f : f = Channel(t, e, None, FALSE, << >>, << >>)
    OBVIOUS
  <2>5. f \in Buffers /\ f.slot = t /\ f.entry = e /\ f.track = None /\ f.needsupdate = FALSE
    <3>1. f \in Buffers
      BY <1>2, <2>3, <2>4, ChannelIs
    <3>2. f.slot = t /\ f.entry = e /\ f.track = None /\ f.needsupdate = FALSE
      BY <2>4 DEF Channel
    <3> QED BY <3>1, <3>2
  <2>6. dir'[t] = e /\ \A u \in Slots \ {t} : dir'[u] = dir[u]
    BY <1>1, <2>2 DEF Dirs
  <2>7. OwnIn(link, f) = {} /\ EndsAtTrack(link, f) /\ Writes(dir', f)
    BY <2>3, <2>5, <2>6 DEF OwnIn, EndsAtTrack, FirstOf, Writes
  <2>8. \A d \in OpenIn(chan) : chan[d].slot # f.slot
    BY <1>1, <2>2, <2>5 DEF Sound, WritersApart, Writes
  <2>9. ClosedIn(dir') = ClosedIn(dir) /\ t \notin ClosedIn(dir)
    BY <2>2, <2>3, <2>6 DEF ClosedIn
  <2>10. \A u \in ClosedIn(dir) : dir'[u].first = dir[u].first
    BY <2>6, <2>9 DEF ClosedIn
  <2>11. FilesApart(dir', link) /\ InUseIn(dir', link) \subseteq InUseIn(dir, link)
    BY <1>1, <2>9, <2>10, Fewer
  <2>12. InUseIn(dir, link) \subseteq InUseIn(dir', link)
    BY <1>1, <2>9, <2>10, <2>11, Fewer
  <2> QED BY <1>4, <2>2, <2>4, <2>5, <2>6, <2>7, <2>8, <2>11, <2>12
<1>6. CASE OpenReplace(c, s)
  <2>1. dir[s] # None /\ dir[s] \in Entries /\ dir' = dir /\ dir[s].closed /\ ~ Written(s)
    BY <1>6, SlotFields DEF OpenReplace, MayTouch
  <2>2. PICK f : f = Channel(s, dir[s], None, TRUE, << >>, << >>)
    OBVIOUS
  <2>3. OpenChannel(c, f)
    BY <1>6, <2>2 DEF OpenReplace
  <2>4. /\ f \in Buffers /\ f.slot = s /\ f.entry = dir[s] /\ f.track = None
        /\ f.needsupdate = TRUE /\ f.replacement = None
    <3>1. f \in Buffers
      BY <1>2, <2>1, <2>2, ChannelIs
    <3>2. /\ f.slot = s /\ f.entry = dir[s] /\ f.track = None
          /\ f.needsupdate = TRUE /\ f.replacement = None
      BY <2>2 DEF Channel
    <3> QED BY <3>1, <3>2
  <2>5. OwnIn(link, f) = {} /\ EndsAtTrack(link, f)
    BY <2>4 DEF OwnIn, EndsAtTrack, FirstOf
  <2>6. Writes(dir', f)
    <3>1. dir[s].closed \in BOOLEAN
      BY <2>1, SlotFields
    <3> QED BY <2>1, <2>4, <3>1 DEF Writes
  <2>7. \A d \in OpenIn(chan) : chan[d].slot # f.slot
    BY <2>1, <2>4 DEF Written, OpenIn
  <2> QED BY <1>1, <1>4, <2>1, <2>3, <2>4, <2>5, <2>6, <2>7
<1>7. CASE OpenAppend(c, s)
  <2>1. dir[s] # None /\ dir[s] \in Entries /\ dir[s].first \in BlockOrNone
        /\ dir[s].closed /\ ~ Written(s) /\ Ends(link, dir[s].first)
    BY <1>7, SlotFields DEF OpenAppend, MayTouch
  <2>2. PICK e, track, buffer, text :
               /\ e = [dir[s] EXCEPT !.closed = FALSE]
               /\ track = IF e.first = None THEN None ELSE LastOf(link, e.first)
               /\ buffer = IF track = None THEN << >> ELSE data[track]
               /\ text = Contents(link, data, e.first)
               /\ OpenChannel(c, Channel(s, e, track, FALSE, buffer, text))
               /\ dir' = [dir EXCEPT ![s] = e]
    BY <1>7, AppendIs
  <2>3. e \in Entries /\ e.first = dir[s].first /\ e.closed = FALSE /\ e # None
    BY <2>1, <2>2, NoneAssumption DEF Entries
  <2>4. PICK f : f = Channel(s, e, track, FALSE, buffer, text)
    OBVIOUS
  <2>5. OpenChannel(c, f) /\ dir' = [dir EXCEPT ![s] = e]
    BY <2>2, <2>4
  <2>6. f.slot = s /\ f.entry = e /\ f.track = track /\ f.needsupdate = FALSE
    BY <2>4 DEF Channel
  <2>7. PICK chain : chain = Chain(link, dir[s].first)
    OBVIOUS
  <2>8. track \in BlockOrNone /\ (track = None <=> e.first = None)
         /\ (track # None => track \in chain /\ link[track] = None)
    <3>1. CASE e.first = None
      BY <1>2, <2>2, <3>1
    <3>2. CASE e.first # None
      <4>1. /\ LastOf(link, e.first) \in Chain(link, e.first)
            /\ link[LastOf(link, e.first)] = None
            /\ Chain(link, e.first) \subseteq Blocks
        BY <1>1, <2>1, <2>3, <3>2, LastIs, ChainIs
      <4> QED BY <2>2, <2>3, <2>7, <3>2, <4>1, NoneIs
    <3> QED BY <3>1, <3>2
  <2>9. f \in Buffers
    <3>1. text \in Seq(Bytes)
      BY <1>1, <2>1, <2>2, <2>3, ContentsAreBytes DEF VdriveTypeOK
    <3>2. buffer \in Seq(Bytes)
      BY <1>2, <2>2, <2>8, NoneIs DEF VdriveTypeOK
    <3> QED BY <1>2, <2>3, <2>4, <2>8, <3>1, <3>2, ChannelIs
  <2>10. FirstOf(f) = dir[s].first
    BY <2>3, <2>6 DEF FirstOf
  <2>11. OwnIn(link, f) = chain /\ EndsAtTrack(link, f)
    <3>1. CASE track = None
      <4>1. chain = {}
        BY <1>1, <2>3, <2>7, <2>8, <3>1, NoChain
      <4> QED BY <2>3, <2>6, <2>8, <2>10, <3>1, <4>1 DEF OwnIn, EndsAtTrack
    <3>2. CASE track # None
      <4>1. PICK M \in Links : /\ M = Cut(link, track) /\ M[track] = None
                               /\ \A x \in Blocks \ {track} : M[x] = link[x]
        BY <1>1, <2>8, <3>2, CutIn, NoneIs
      <4>2. chain \subseteq Blocks
        BY <1>1, <2>1, <2>7, ChainIs
      <4>3. \A b \in Chain(link, dir[s].first) : M[b] = link[b]
        BY <2>7, <2>8, <3>2, <4>1, <4>2
      <4>4. Chain(M, dir[s].first) = chain /\ Ends(M, dir[s].first)
        BY <1>1, <2>1, <2>7, <4>3, SameWalk
      <4>5. OwnIn(link, f) = chain
        BY <2>6, <2>10, <3>2, <4>1, <4>4 DEF OwnIn
      <4> QED BY <2>3, <2>6, <2>8, <2>10, <3>2, <4>1, <4>4, <4>5 DEF EndsAtTrack
    <3> QED BY <3>1, <3>2
  <2>12. dir'[s] = e /\ \A t \in Slots \ {s} : dir'[t] = dir[t]
    BY <1>1, <2>5 DEF Dirs
  <2>13. s \in ClosedIn(dir) /\ s \notin ClosedIn(dir')
    BY <2>1, <2>3, <2>12 DEF ClosedIn
  <2>14. \A d \in OpenIn(chan) : chan[d].slot # s
    BY <2>1 DEF Written, OpenIn
  <2>15. /\ Sound(dir', link, chan) /\ chain \subseteq InUseIn(dir, link)
         /\ InUseIn(dir', link) = InUseIn(dir, link) \ chain
    <3>1. PICK E \in Dirs : E = dir'
      BY <1>1
    <3>2. s \notin ClosedIn(E) /\ \A t \in Slots \ {s} : E[t] = dir[t]
      BY <2>12, <2>13, <3>1
    <3>3. /\ Sound(E, link, chan) /\ Chain(link, dir[s].first) \subseteq InUseIn(dir, link)
          /\ InUseIn(E, link) = InUseIn(dir, link) \ Chain(link, dir[s].first)
      BY <1>1, <2>13, <2>14, <3>2, RemoveFile
    <3> QED BY <2>7, <3>1, <3>3
  <2>16. Writes(dir', f)
    BY <2>3, <2>6, <2>12 DEF Writes
  <2>17. FilesApart(dir', link)
    BY <2>15 DEF Sound
  <2> QED BY <1>4, <2>5, <2>6, <2>9, <2>11, <2>12, <2>14, <2>15, <2>16, <2>17
<1> QED BY <1>5, <1>6, <1>7

\* A file of one block, which is in the buffer.
LEMMA FreshOwn ==
    ASSUME NEW L \in Links, NEW f \in Buffers, NEW b \in Blocks, f.track = b, FirstOf(f) = b
    PROVE  OwnIn(L, f) = {b} /\ EndsAtTrack(L, f)
<1>1. PICK P \in Links : P = Cut(L, b) /\ P[b] = None
  BY CutIn
<1>2. Chain(P, b) = {b} /\ Ends(P, b) /\ b # None
  BY <1>1, SingleChain, NoneIs
<1>3. OwnIn(L, f) = {b}
  BY <1>1, <1>2 DEF OwnIn
<1> QED BY <1>1, <1>2, <1>3 DEF EndsAtTrack

\* What the bitmaps need to know of a write: new blocks are marked.
LEMMA GrownSound ==
    ASSUME VdriveTypeOK, DriveInv, ~ true_emulation, NEW N,
           Sound(dir, link', chan'), OpenIn(chan') = OpenIn(chan), OpenIn(chan) # {},
           InUseIn(dir, link') = InUseIn(dir, link),
           HeldIn(link', chan') = HeldIn(link, chan) \cup N,
           bam' = bam \cup N,
           UNCHANGED <<dir, diskBam, true_emulation, orphans>>
    PROVE  DriveInv'
  BY DEF DriveInv, BitmapsTrue

LEMMA WriteSound ==
    ASSUME VdriveTypeOK, VdriveTypeOK', DriveInv, NEW c \in Channels,
           WriteByte(c) \/ WriteBlock(c) \/ WriteRefused(c)
    PROVE  DriveInv'
<1>1. /\ dir \in Dirs /\ link \in Links /\ chan \in Chans /\ link' \in Links /\ chan' \in Chans
      /\ Sound(dir, link, chan) /\ bam \in SUBSET Blocks
  BY TypesAre DEF VdriveTypeOK, Links, Chans, DriveInv
<1>2. /\ ~ true_emulation /\ c \in OpenIn(chan)
      /\ UNCHANGED <<dir, diskBam, true_emulation, orphans>>
  BY DEF WriteByte, WriteBlock, WriteRefused, CanWrite, Served, OpenIn
<1>3. PICK f \in Buffers : f = chan[c]
  BY <1>1, <1>2, HeldIs
<1>4. PICK own : own = OwnIn(link, f) /\ own \subseteq Blocks
  BY <1>1, OwnBlocks
<1>5. PICK UH : UH = InUseIn(dir, link) \cup HeldIn(link, chan) /\ UH \subseteq bam
  BY <1>2 DEF DriveInv, BitmapsTrue
<1>6. own \subseteq HeldIn(link, chan) /\ EndsAtTrack(link, f) /\ (f.track = None => own = {})
  BY <1>1, <1>2, <1>3, <1>4, HeldIs DEF Sound, WritersApart, OwnIn
<1>7. << >> \in Seq(Bytes) /\ f.buffer \in Seq(Bytes) /\ f.track \in BlockOrNone
      /\ FirstOf(f) \in BlockOrNone
  BY BufferFields
<1>8. ASSUME NEW g \in Buffers, NEW N \in SUBSET Blocks, chan' = [chan EXCEPT ![c] = g],
             g.slot = f.slot, g.needsupdate = f.needsupdate,
             g.needsupdate => g.entry.first = f.entry.first,
             EndsAtTrack(link', g), OwnIn(link', g) = own \cup N,
             N \cap UH = {}, bam' = bam \cup N,
             \A b \in UH \ own : link'[b] = link[b]
      PROVE  DriveInv'
  <2>1. PICK B \in Chans : B = chan' /\ B[c] = g /\ \A d \in Channels \ {c} : B[d] = chan[d]
    BY <1>1, <1>2, <1>8, HeldIs DEF Chans
  <2>2. PICK M \in Links : M = link'
    BY <1>1
  <2>3. /\ EndsAtTrack(M, g) /\ OwnIn(M, g) = OwnIn(link, chan[c]) \cup N
        /\ \A b \in (InUseIn(dir, link) \cup HeldIn(link, chan)) \ OwnIn(link, chan[c]) :
               M[b] = link[b]
        /\ N \cap (InUseIn(dir, link) \cup HeldIn(link, chan)) = {}
        /\ g.slot = chan[c].slot /\ g.needsupdate = chan[c].needsupdate
        /\ (g.needsupdate => g.entry.first = chan[c].entry.first)
    BY <1>3, <1>4, <1>5, <1>8, <2>2
  <2>4. /\ OpenIn(B) = OpenIn(chan) /\ Sound(dir, M, B)
        /\ InUseIn(dir, M) = InUseIn(dir, link)
        /\ HeldIn(M, B) = HeldIn(link, chan) \cup N
    BY <1>1, <1>2, <2>1, <2>3, Grow
  <2>5. OpenIn(chan) # {}
    BY <1>2
  <2> QED BY <1>2, <1>8, <2>1, <2>2, <2>4, <2>5, GrownSound
<1>9. CASE WriteByte(c)
  <2>1. PICK g \in Buffers : g = Take(f, f.buffer)
    BY <1>7, TakeIs
  <2>2. /\ g.slot = f.slot /\ g.track = f.track /\ g.needsupdate = f.needsupdate
        /\ FirstOf(g) = FirstOf(f) /\ g.entry = f.entry
    BY <1>7, <2>1, TakeIs
  <2>3. chan' = [chan EXCEPT ![c] = g] /\ link' = link /\ bam' = bam
    BY <1>3, <1>9, <2>1 DEF WriteByte
  <2>4. OwnIn(link, g) = OwnIn(link, f) /\ (EndsAtTrack(link, g) <=> EndsAtTrack(link, f))
    BY <2>2, OwnDepends
  <2>5. PICK N \in SUBSET Blocks : N = {}
    OBVIOUS
  <2> QED BY <1>4, <1>6, <1>8, <2>2, <2>3, <2>4, <2>5
<1>10. CASE WriteRefused(c)
  <2>1. CASE bam = Blocks /\ chan' = [chan EXCEPT ![c] = Refuse(f)] /\ bam' = bam
    <3>1. PICK g \in Buffers : g = Refuse(f)
      BY RefuseIs
    <3>2. /\ g.slot = f.slot /\ g.track = f.track /\ g.needsupdate = f.needsupdate
          /\ FirstOf(g) = FirstOf(f) /\ g.entry = f.entry
      BY <3>1, RefuseIs
    <3>3. chan' = [chan EXCEPT ![c] = g] /\ link' = link /\ bam' = bam
      BY <1>10, <2>1, <3>1 DEF WriteRefused
    <3>4. OwnIn(link, g) = OwnIn(link, f) /\ (EndsAtTrack(link, g) <=> EndsAtTrack(link, f))
      BY <3>2, OwnDepends
    <3>5. PICK N \in SUBSET Blocks : N = {}
      OBVIOUS
    <3> QED BY <1>4, <1>6, <1>8, <3>2, <3>3, <3>4, <3>5
  <2>2. ASSUME f.track = None, Cardinality(Blocks \ bam) = 1, bam' = Blocks,
               NEW b \in Blocks \ bam, chan' = [chan EXCEPT ![c] = Refuse(WithFirst(f, b))]
        PROVE  DriveInv'
    <3>1. PICK h \in Buffers : h = WithFirst(f, b)
      BY WithFirstIs, NoneIs
    <3>2. PICK g \in Buffers : g = Refuse(h)
      BY RefuseIs
    <3>3. b \in BlockOrNone
      BY NoneIs
    <3>4. /\ h.slot = f.slot /\ h.track = b /\ h.needsupdate = f.needsupdate
          /\ FirstOf(h) = b /\ (f.needsupdate => h.entry = f.entry)
      BY <3>1, <3>3, WithFirstIs
    <3>5. /\ g.slot = f.slot /\ g.track = b /\ g.needsupdate = f.needsupdate
          /\ FirstOf(g) = b /\ g.entry = h.entry
      BY <3>2, <3>4, RefuseIs
    <3>6. OwnIn(link, g) = {b} /\ EndsAtTrack(link, g)
      BY <1>1, <3>5, FreshOwn
    <3>7. Blocks \ bam = {b}
      <4>1. IsFiniteSet(Blocks \ bam)
        BY BlocksAssumption, FS_Difference
      <4>2. PICK x : Blocks \ bam = {x}
        BY <2>2, <4>1, FS_Singleton
      <4> QED BY <4>2
    <3>8. bam' = bam \cup {b}
      BY <1>1, <2>2, <3>7
    <3>9. link' = link
      BY <1>10 DEF WriteRefused
    <3>10. chan' = [chan EXCEPT ![c] = g]
      BY <2>2, <3>1, <3>2
    <3>11. {b} \cap UH = {} /\ {b} \in SUBSET Blocks /\ OwnIn(link', g) = own \cup {b}
      BY <1>5, <1>6, <2>2, <3>6, <3>9
    <3> QED BY <1>8, <3>4, <3>5, <3>6, <3>8, <3>9, <3>10, <3>11
  <2> QED BY <1>3, <1>10, <2>1, <2>2 DEF WriteRefused
<1>11. CASE WriteBlock(c)
  <2>1. PICK this \in IF f.track = None THEN Blocks \ bam ELSE {f.track} :
          \E next \in Blocks \ (bam \cup {b \in {this} : f.track = None}) :
            /\ LET g == IF f.track = None THEN WithFirst(f, this) ELSE f
               IN  chan' = [chan EXCEPT ![c] = Take([g EXCEPT !.track = next], << >>)]
            /\ link' = [link EXCEPT ![this] = next]
            /\ bam' = bam \cup {this, next}
    BY <1>3, <1>11 DEF WriteBlock
  <2>2. PICK next \in Blocks \ (bam \cup {b \in {this} : f.track = None}) :
            /\ LET g == IF f.track = None THEN WithFirst(f, this) ELSE f
               IN  chan' = [chan EXCEPT ![c] = Take([g EXCEPT !.track = next], << >>)]
            /\ link' = [link EXCEPT ![this] = next]
            /\ bam' = bam \cup {this, next}
    BY <2>1
  <2>3. /\ this \in Blocks /\ next \in Blocks /\ this # next /\ this # None /\ next # None
        /\ this \in BlockOrNone /\ next \in BlockOrNone /\ next \notin UH
        /\ (f.track = None => this \notin UH) /\ (f.track # None => this = f.track)
    <3>1. f.track # None => f.track \in bam
      BY <1>5, <1>6, <1>4 DEF EndsAtTrack
    <3>2. this \in Blocks /\ (f.track # None => this = f.track) /\ (f.track = None => this \notin bam)
      BY <1>5, <1>7, <2>1, NoneIs
    <3>3. next \in Blocks /\ next \notin bam /\ (f.track = None => next # this)
      BY <2>2
    <3> QED BY <1>5, <3>1, <3>2, <3>3, NoneIs
  <2>4. PICK g \in Buffers : g = IF f.track = None THEN WithFirst(f, this) ELSE f
    BY <2>3, WithFirstIs
  <2>5. /\ g.slot = f.slot /\ g.needsupdate = f.needsupdate /\ g.track = this
        /\ (f.needsupdate => g.entry = f.entry)
        /\ FirstOf(g) \in BlockOrNone
        /\ FirstOf(g) = IF f.track = None THEN this ELSE FirstOf(f)
    <3>1. CASE f.track = None
      <4>1. g = WithFirst(f, this)
        BY <2>4, <3>1
      <4>2. /\ g.slot = f.slot /\ g.needsupdate = f.needsupdate /\ g.track = this
            /\ FirstOf(g) = this /\ (f.needsupdate => g.entry = f.entry)
        BY <2>3, <4>1, WithFirstIs
      <4> QED BY <2>3, <3>1, <4>2
    <3>2. CASE f.track # None
      <4>1. g = f
        BY <2>4, <3>2
      <4> QED BY <1>7, <2>3, <3>2, <4>1
    <3> QED BY <3>1, <3>2
  <2>6. PICK h \in Buffers : h = [g EXCEPT !.track = next]
    BY <2>3, TrackIs
  <2>7. /\ h.slot = g.slot /\ h.track = next /\ h.needsupdate = g.needsupdate
        /\ FirstOf(h) = FirstOf(g) /\ h.entry = g.entry
    BY <2>3, <2>6, TrackIs
  <2>8. PICK k \in Buffers : k = Take(h, << >>)
    BY <1>7, TakeIs
  <2>9. /\ k.slot = f.slot /\ k.track = next /\ k.needsupdate = f.needsupdate
        /\ FirstOf(k) = FirstOf(g) /\ (k.needsupdate => k.entry = f.entry)
    BY <1>7, <2>5, <2>7, <2>8, TakeIs
  <2>10. PICK first \in BlockOrNone : first = FirstOf(g) /\ first # None
    BY <1>6, <2>3, <2>5 DEF EndsAtTrack
  <2>11. OwnIn(link, g) = own \cup {this} /\ EndsAtTrack(link, g)
    <3>1. CASE f.track = None
      BY <1>1, <1>6, <2>3, <2>5, <3>1, FreshOwn
    <3>2. CASE f.track # None
      BY <1>4, <1>6, <2>3, <2>4, <3>2 DEF EndsAtTrack
    <3> QED BY <3>1, <3>2
  <2>12. PICK P \in Links : /\ P = Cut(link, this) /\ P[this] = None
                            /\ \A x \in Blocks \ {this} : P[x] = link[x]
    BY <1>1, <2>3, CutIn
  <2>13. Chain(P, first) = own \cup {this}
    BY <2>3, <2>5, <2>10, <2>11, <2>12 DEF OwnIn
  <2>14. link' \in Links /\ link'[this] = next /\ \A x \in Blocks \ {this} : link'[x] = link[x]
    BY <1>1, <2>2, <2>3 DEF Links
  <2>15. PICK Q \in Links : /\ Q = Cut(link', next) /\ Q[next] = None
                            /\ \A x \in Blocks \ {next} : Q[x] = link'[x]
    BY <2>3, <2>14, CutIn
  <2>16. Chain(Q, first) = own \cup {this, next} /\ Ends(Q, first)
    <3>1. this \in Chain(P, first) /\ next \in Blocks \ Chain(P, first)
      BY <1>5, <1>6, <2>3, <2>13
    <3>2. Q[this] = next
      BY <2>3, <2>14, <2>15
    <3>3. \A b \in Chain(P, first) \ {this} : Q[b] = P[b]
      BY <1>4, <2>3, <2>12, <2>13, <2>14, <2>15, <3>1
    <3>4. Chain(Q, first) = Chain(P, first) \cup {next} /\ Ends(Q, first)
      BY <2>12, <2>15, <3>1, <3>2, <3>3, Extend
    <3> QED BY <2>13, <3>4
  <2>17. PICK N \in SUBSET Blocks : N = {this, next} \ own
    BY <2>3
  <2>18. OwnIn(link', k) = own \cup N /\ EndsAtTrack(link', k)
    <3>1. OwnIn(link', k) = Chain(Q, first)
      BY <2>3, <2>9, <2>10, <2>15 DEF OwnIn
    <3>2. EndsAtTrack(link', k)
      BY <2>3, <2>9, <2>10, <2>15, <2>16, <3>1 DEF EndsAtTrack
    <3> QED BY <2>16, <2>17, <3>1, <3>2
  <2>19. this \in UH => this \in own
    BY <1>4, <1>6, <2>3 DEF EndsAtTrack
  <2>20. N \cap UH = {} /\ bam' = bam \cup N
    BY <1>5, <1>6, <2>2, <2>3, <2>17, <2>19
  <2>21. \A b \in UH \ own : link'[b] = link[b]
    BY <1>1, <1>5, <2>14, <2>19
  <2>22. chan' = [chan EXCEPT ![c] = k]
    BY <2>2, <2>4, <2>6, <2>8
  <2> QED BY <1>8, <2>9, <2>17, <2>18, <2>20, <2>21, <2>22
<1> QED BY <1>9, <1>10, <1>11

LEMMA CloseSound ==
    ASSUME VdriveTypeOK, VdriveTypeOK', DriveInv, NEW c \in Channels, CloseFile(c), ~ true_emulation
    PROVE  DriveInv'
<1>1. /\ dir \in Dirs /\ link \in Links /\ chan \in Chans
      /\ dir' \in Dirs /\ link' \in Links /\ chan' \in Chans
      /\ Sound(dir, link, chan) /\ bam \in SUBSET Blocks
  BY TypesAre DEF VdriveTypeOK, Dirs, Links, Chans, DriveInv
<1>2. c \in OpenIn(chan) /\ UNCHANGED <<true_emulation, orphans>>
      /\ chan' = [chan EXCEPT ![c] = None]
  BY DEF CloseFile, OpenIn
<1>3. PICK g \in Buffers : g = chan[c]
  BY <1>1, <1>2, HeldIs
<1>4. PICK b \in LastBlock(g) :
        LET f == IF g.track = None THEN WithFirst(g, b) ELSE g
            used == bam \cup ({b} \ {None})
        IN  /\ IF b = None THEN link' = link ELSE link' = [link EXCEPT ![b] = None]
            /\ dir' = [dir EXCEPT ![f.slot] = Closing(f)]
            /\ bam' = IF f.needsupdate THEN FreeChain(used, link', f.entry.first) ELSE used
            /\ diskBam' = bam'
  BY <1>3 DEF CloseFile, Flush, Flushed
<1>5. g.track \in BlockOrNone
  BY BufferFields
<1>6. PICK U : U = InUseIn(dir, link) /\ U \subseteq Blocks
  BY <1>1, InUseIs
<1>7. PICK H : H = HeldIn(link, chan) /\ OwnIn(link, g) \subseteq H
  BY <1>1, <1>2, <1>3, HeldIs
<1>8. U \cup H \subseteq bam
  BY <1>6, <1>7 DEF DriveInv, BitmapsTrue
<1>9. EndsAtTrack(link, g) /\ (g.track = None => OwnIn(link, g) = {})
  BY <1>2, <1>3 DEF Sound, WritersApart, DriveInv, OwnIn
<1>10. b \in BlockOrNone /\ (g.track # None => b = g.track)
       /\ (g.track = None => b = None \/ b \notin U \cup H)
  BY <1>5, <1>8, NoneIs DEF LastBlock
<1>11. PICK N \in SUBSET Blocks : N = {b} \ {None}
  BY <1>10, NoneIs
<1>12. PICK f \in Buffers : f = IF g.track = None THEN WithFirst(g, b) ELSE g
  BY <1>10, WithFirstIs
<1>13. /\ f.slot = g.slot /\ f.needsupdate = g.needsupdate /\ f.track = b
       /\ (f.needsupdate => f.entry = g.entry)
       /\ (g.track = None => FirstOf(f) = b)
  <2>1. CASE g.track = None
    <3>1. f = WithFirst(g, b)
      BY <1>12, <2>1
    <3> QED BY <1>10, <3>1, WithFirstIs
  <2>2. CASE g.track # None
    <3>1. f = g
      BY <1>12, <2>2
    <3> QED BY <1>10, <2>2, <3>1
  <2> QED BY <2>1, <2>2
\* First the last block is the file's ...
<1>14. PICK C \in Chans : /\ C = [chan EXCEPT ![c] = f] /\ C[c] = f
                          /\ \A d \in Channels \ {c} : C[d] = chan[d]
  <2> DEFINE C == [chan EXCEPT ![c] = f]
  <2>1. C \in Chans /\ C[c] = f /\ \A d \in Channels \ {c} : C[d] = chan[d]
    BY <1>1 DEF Chans
  <2> QED BY <2>1
<1>15. /\ OpenIn(C) = OpenIn(chan) /\ Sound(dir, link, C)
       /\ HeldIn(link, C) = H \cup N /\ N \subseteq OwnIn(link, f)
  <2>1. CASE g.track = None
    <3>1. EndsAtTrack(link, f) /\ OwnIn(link, f) = N
      <4>1. CASE b = None
        BY <1>11, <1>13, <2>1, <4>1 DEF EndsAtTrack, OwnIn
      <4>2. CASE b # None
        <5>1. b \in Blocks
          BY <1>10, <4>2, NoneIs
        <5> QED BY <1>1, <1>11, <1>13, <2>1, <4>2, <5>1, FreshOwn
      <4> QED BY <4>1, <4>2
    <3>2. OwnIn(link, f) = OwnIn(link, chan[c]) \cup N
      BY <1>3, <1>9, <2>1, <3>1
    <3>3. /\ N \cap (InUseIn(dir, link) \cup HeldIn(link, chan)) = {}
          /\ f.slot = chan[c].slot /\ f.needsupdate = chan[c].needsupdate
          /\ (f.needsupdate => f.entry.first = chan[c].entry.first)
      BY <1>3, <1>6, <1>7, <1>10, <1>11, <1>13, <2>1
    <3>4. PICK K \in Links : K = link
      BY <1>1
    <3>5. /\ EndsAtTrack(K, f) /\ OwnIn(K, f) = OwnIn(link, chan[c]) \cup N
          /\ \A x \in (InUseIn(dir, link) \cup HeldIn(link, chan)) \ OwnIn(link, chan[c]) :
                 K[x] = link[x]
      BY <3>1, <3>2, <3>4
    <3>6. /\ dir \in Dirs /\ link \in Links /\ chan \in Chans /\ Sound(dir, link, chan)
          /\ c \in OpenIn(chan) /\ C[c] = f /\ \A d \in Channels \ {c} : C[d] = chan[d]
      BY <1>1, <1>2, <1>14
    <3>7. /\ OpenIn(C) = OpenIn(chan) /\ Sound(dir, K, C)
          /\ HeldIn(K, C) = HeldIn(link, chan) \cup N
      BY <3>3, <3>5, <3>6, Grow, SMTT(60)
    <3> QED BY <1>7, <3>1, <3>4, <3>7
  <2>2. CASE g.track # None
    <3>1. f = g
      BY <1>12, <2>2
    <3>2. C = chan
      BY <1>1, <1>3, <1>14, <3>1 DEF Chans
    <3>3. b \in OwnIn(link, f)
      BY <1>9, <1>10, <2>2, <3>1 DEF EndsAtTrack
    <3> QED BY <1>1, <1>7, <1>11, <3>1, <3>2, <3>3
  <2> QED BY <2>1, <2>2
\* ... and then the file is closed.
<1>16. PICK own : own = OwnIn(link, f) /\ own \subseteq H \cup N
  BY <1>1, <1>2, <1>14, <1>15, HeldIs
<1>17. PICK e \in Entries : e = Closing(f) /\ e.closed /\ e.first = FirstOf(f)
  BY ClosingIs
<1>18. PICK M \in Links : M = link' /\ M = IF f.track = None THEN link ELSE Cut(link, f.track)
  BY <1>1, <1>4, <1>13 DEF Cut
<1>19. PICK E \in Dirs : E = dir' /\ E[f.slot] = e /\ \A s \in Slots \ {f.slot} : E[s] = dir[s]
  <2>1. dir' = [dir EXCEPT ![f.slot] = e] /\ f.slot \in Slots
    BY <1>4, <1>12, <1>17, BufferFields
  <2> QED BY <1>1, <2>1 DEF Dirs
<1>20. PICK B \in Chans : B = chan' /\ B[c] = None /\ \A d \in Channels \ {c} : B[d] = C[d]
  BY <1>1, <1>2, <1>14, HeldIs DEF Chans
<1>21. /\ Sound(E, M, B)
       /\ HeldIn(M, B) = HeldIn(link, C) \ own
       /\ InUseIn(E, M) = (IF f.needsupdate THEN U \ Chain(link, f.entry.first) ELSE U) \cup own
       /\ f.needsupdate => /\ Chain(link, f.entry.first) \subseteq U
                           /\ Chain(M, f.entry.first) = Chain(link, f.entry.first)
  <2>1. c \in OpenIn(C)
    BY <1>2, <1>15
  <2>2. /\ Sound(E, M, B)
        /\ HeldIn(M, B) = HeldIn(link, C) \ OwnIn(link, f)
        /\ InUseIn(E, M) = (IF f.needsupdate THEN InUseIn(dir, link) \ Chain(link, f.entry.first)
                            ELSE InUseIn(dir, link)) \cup OwnIn(link, f)
        /\ f.needsupdate => /\ Chain(link, f.entry.first) \subseteq InUseIn(dir, link)
                            /\ Chain(M, f.entry.first) = Chain(link, f.entry.first)
    <3>1. dir \in Dirs /\ link \in Links /\ Sound(dir, link, C) /\ f = C[c]
      BY <1>1, <1>14, <1>15
    <3>2. M = IF f.track = None THEN link ELSE Cut(link, f.track)
      BY <1>18
    <3>3. e.closed /\ e.first = FirstOf(f)
      BY <1>17
    <3>4. E[f.slot] = e /\ \A s \in Slots \ {f.slot} : E[s] = dir[s]
      BY <1>19
    <3>5. B[c] = None /\ \A d \in Channels \ {c} : B[d] = C[d]
      BY <1>20
    <3> QED BY <2>1, <3>1, <3>2, <3>3, <3>4, <3>5, Settle
  <2> QED BY <1>6, <1>16, <2>2
<1>22. PICK used \in SUBSET Blocks : used = bam \cup N
  BY <1>1
<1>23. /\ bam' = IF f.needsupdate THEN FreeChain(used, M, f.entry.first) ELSE used
       /\ diskBam' = bam'
  BY <1>4, <1>11, <1>12, <1>18, <1>22
<1>24. PICK chain : chain = (IF f.needsupdate THEN Chain(link, f.entry.first) ELSE {}) /\ chain \subseteq U
  BY <1>21
<1>25. bam' = used \ chain
  <2>1. CASE f.needsupdate
    <3>1. Chain(M, f.entry.first) = chain /\ chain \subseteq used /\ f.entry.first \in BlockOrNone
      BY <1>8, <1>21, <1>22, <1>24, <2>1, BufferFields
    <3>2. FreeChain(used, M, f.entry.first) = used \ chain
      BY <3>1, FreeChainIs
    <3> QED BY <1>23, <2>1, <3>2
  <2>2. CASE ~ f.needsupdate
    BY <1>23, <1>24, <2>2
  <2> QED BY <2>1, <2>2
<1>26. InUseIn(E, M) = (U \ chain) \cup own
  BY <1>21, <1>24
<1>27. HeldIn(M, B) = (H \cup N) \ own
  BY <1>15, <1>21
<1>28. U \cap (H \cup N) = {}
  BY <1>1, <1>6, <1>15, HeldApart
<1>29. InUseIn(E, M) \cup HeldIn(M, B) = (U \cup H \cup N) \ chain
  BY <1>16, <1>24, <1>26, <1>27, <1>28
<1>30. (U \cup H \cup N) \ chain \subseteq bam'
  BY <1>8, <1>22, <1>25
<1>31. ~ orphans => bam' = (U \cup H \cup N) \ chain
  <2>1. ~ orphans => bam = U \cup H
    BY <1>6, <1>7 DEF DriveInv, BitmapsTrue
  <2> QED BY <1>22, <1>25, <2>1
<1>32. OpenIn(B) = {} => HeldIn(M, B) = {}
  BY NoneHeld
<1>33. BitmapsTrue'
  <2>1. InUseIn(E, M) \subseteq diskBam'
    BY <1>23, <1>29, <1>30
  <2>2. InUseIn(E, M) \cup HeldIn(M, B) \subseteq bam'
    BY <1>29, <1>30
  <2>3. ~ orphans => bam' = InUseIn(E, M) \cup HeldIn(M, B)
    BY <1>29, <1>31
  <2>4. OpenIn(B) = {} /\ ~ orphans => diskBam' = InUseIn(E, M)
    BY <1>23, <1>32, <2>3
  <2> QED BY <1>2, <1>18, <1>19, <1>20, <1>23, <2>1, <2>2, <2>3, <2>4 DEF BitmapsTrue
<1> QED BY <1>18, <1>19, <1>20, <1>21, <1>33 DEF DriveInv

\* Only a validate that succeeds ends a torn disk.
LEMMA TornKept ==
    ASSUME [VdriveNext]_vars, ~ Validated, ~ torn', torn \in BOOLEAN
    PROVE  ~ torn
<1>1. CASE UNCHANGED vars
  BY <1>1 DEF vars
<1>2. ASSUME NEW c \in Channels,
             \/ \E n \in Names : OpenNew(c, n)
             \/ \E s \in Slots : OpenReplace(c, s) \/ OpenAppend(c, s)
      PROVE  ~ torn
  BY <1>2 DEF OpenNew, OpenReplace, OpenAppend, OpenChannel
<1>3. ASSUME NEW c \in Channels, WriteByte(c) \/ WriteBlock(c) \/ WriteRefused(c)
      PROVE  ~ torn
  BY <1>3 DEF WriteByte, WriteBlock, WriteRefused, CanWrite
<1>4. CASE CloseNext \/ \E c \in Channels : Close(c)
  BY <1>4 DEF CloseNext, Close, CloseFile
<1>5. ASSUME NEW s \in Slots,
             \/ Scratch(s) \/ DriveScratches(s) \/ \E n \in Names : Rename(s, n)
             \/ \E n \in Names, b \in Blocks : DriveSaves(s, n, b)
      PROVE  ~ torn
  BY <1>5 DEF Scratch, DriveScratches, Rename, DriveSaves
<1>6. CASE \/ Refused \/ ReadStatus \/ Initialized \/ AttachOver \/ ResetByUJ
           \/ SwitchOn \/ SwitchOff \/ \E cmd \in {"I", "V", "UJ", "ATTACH"} : CloseAll(cmd)
  BY <1>6 DEF Refused, ReadStatus, Initialized, AttachOver, ResetByUJ, SwitchOn, SwitchOff, CloseAll
<1>7. CASE Kill \/ KilledInValidate
  BY <1>7 DEF Kill, KilledInValidate
<1>8. CASE \E c \in Channels : KilledInClose(c)
  BY <1>8 DEF KilledInClose
<1>9. ~ KilledInDrive /\ \A s \in Slots : ~ KilledInScratch(s)
  BY DEF KilledInDrive, KilledInScratch
<1> QED BY <1>1, <1>2, <1>3, <1>4, <1>5, <1>6, <1>7, <1>8, <1>9 DEF VdriveNext

LEMMA StepSound ==
    ASSUME VdriveTypeOK, VdriveTypeOK', ~ torn => DriveInv, Careful, [VdriveNext]_vars, ~ torn'
    PROVE  DriveInv'
<1>0. CASE Validated
  <2>1. Conflicts = {}
    <3>1. CASE torn
      BY <1>0, <3>1 DEF Validated
    <3>2. CASE ~ torn
      BY <3>2, NoConflicts DEF DriveInv, Sound
    <3> QED BY <3>1, <3>2
  <2> QED BY <1>0, <2>1, ValidateSound
<1> SUFFICES ASSUME ~ Validated, ~ torn, DriveInv
             PROVE  DriveInv'
  BY <1>0, TornKept
<1>1. CASE UNCHANGED vars
  BY <1>1, QuietSound
<1>2. ASSUME NEW c \in Channels, Close(c)
      PROVE  DriveInv'
  BY <1>2, CloseSound DEF Close, Served
<1>3. CASE CloseNext
  <2>1. PICK c \in Channels : CloseFile(c)
    BY <1>3, NextClosedIs
  <2>2. ~ true_emulation
    BY <1>3 DEF CloseNext, Open, OpenIn, DriveInv, BitmapsTrue
  <2> QED BY <2>1, <2>2, CloseSound
<1>4. ASSUME NEW c \in Channels, NEW n \in Names, OpenNew(c, n)
      PROVE  DriveInv'
  <2>1. PICK s : s \in Slots
    BY <1>4 DEF OpenNew
  <2> QED BY <1>4, <2>1, OpenSound
<1>5. ASSUME NEW c \in Channels, NEW s \in Slots, OpenReplace(c, s) \/ OpenAppend(c, s)
      PROVE  DriveInv'
  <2>1. dir[s].name \in Names
    BY <1>5, SlotFields DEF OpenReplace, OpenAppend
  <2> QED BY <1>5, <2>1, OpenSound
<1>6. ASSUME NEW c \in Channels, WriteByte(c) \/ WriteBlock(c) \/ WriteRefused(c)
      PROVE  DriveInv'
  BY <1>6, WriteSound
<1>7. ASSUME NEW s \in Slots, Scratch(s) \/ DriveScratches(s)
      PROVE  DriveInv'
  BY <1>7, DeleteSound
<1>8. ASSUME NEW s \in Slots, NEW n \in Names, Rename(s, n)
      PROVE  DriveInv'
  BY <1>8, RenameSound
<1>9. ASSUME NEW s \in Slots, NEW n \in Names, NEW b \in Blocks, DriveSaves(s, n, b)
      PROVE  DriveInv'
  BY <1>9, SaveSound
<1>10. CASE Kill \/ AttachOver
  BY <1>10, KillSound
<1>11. CASE KilledInValidate
  BY <1>11, HalfValidatedSound
<1>12. ASSUME NEW c \in Channels, KilledInClose(c)
       PROVE  DriveInv'
  BY <1>12, CutOffSound
<1>13. CASE \/ Refused \/ ReadStatus \/ Initialized \/ ResetByUJ \/ SwitchOn \/ SwitchOff
            \/ \E cmd \in {"I", "V", "UJ", "ATTACH"} : CloseAll(cmd)
  BY <1>13, QuietSound
<1>14. ~ KilledInDrive /\ \A s \in Slots : ~ KilledInScratch(s)
  BY DEF KilledInDrive, KilledInScratch
<1> QED BY <1>1, <1>2, <1>3, <1>4, <1>5, <1>6, <1>7, <1>8, <1>9, <1>10, <1>11, <1>12, <1>13, <1>14
        DEF VdriveNext

LEMMA InvariantMeans ==
    ASSUME VdriveTypeOK, ~ torn => DriveInv
    PROVE  DiskIsSound /\ NoBlockLost
<1> SUFFICES ASSUME DriveInv
             PROVE  DiskIsSound /\ NoBlockLost
  BY DEF DiskIsSound, NoBlockLost
<1>1. dir \in Dirs /\ link \in Links /\ chan \in Chans
  BY TypesAre
<1>2. InUse = InUseIn(dir, link) /\ Open = OpenIn(chan)
  BY DEF ClosedSlots, ClosedIn, InUse, InUseIn, ChainOf, Open, OpenIn
<1>3. Conflicts = {}
  BY NoConflicts DEF DriveInv, Sound
<1>4. ASSUME NEW c \in Open
      PROVE  chan[c].track \notin InUse
  <2>1. /\ EndsAtTrack(link, chan[c]) /\ OwnIn(link, chan[c]) \cap InUse = {}
        /\ None \notin InUse
    BY <1>1, <1>2, NoneIs, InUseIs DEF DriveInv, Sound, WritersApart
  <2> QED BY <2>1 DEF EndsAtTrack
<1>5. OpenIn(chan) = {} => HeldIn(link, chan) = {}
  BY <1>1, NoneHeld
<1> QED BY <1>2, <1>3, <1>4, <1>5 DEF DriveInv, BitmapsTrue, DiskIsSound, NoBlockLost

LEMMA DriveInvariant ==
    ASSUME Careful
    PROVE  VdriveSpec => [](VdriveTypeOK /\ (~ torn => DriveInv))
<1>1. VdriveInit => VdriveTypeOK /\ (~ torn => DriveInv)
  BY InitTypes, InitSound
<1>2. VdriveTypeOK /\ (~ torn => DriveInv) /\ [VdriveNext]_vars
          => (VdriveTypeOK /\ (~ torn => DriveInv))'
  BY StepTypes, StepSound
<1> QED BY <1>1, <1>2, PTL DEF VdriveSpec

(* Of a careful user: whatever is open, killed or switched, the image is    *)
(* sound, but for a kill between the writes of directory and bitmap, and    *)
(* then after the next validate that succeeds.                              *)
THEOREM DiskStaysSound == Careful /\ VdriveSpec => []DiskIsSound
<1> SUFFICES ASSUME Careful PROVE VdriveSpec => []DiskIsSound
  OBVIOUS
<1>1. VdriveSpec => [](VdriveTypeOK /\ (~ torn => DriveInv))
  BY DriveInvariant
<1>2. VdriveTypeOK /\ (~ torn => DriveInv) => DiskIsSound
  BY InvariantMeans
<1> QED BY <1>1, <1>2, PTL

(* ... and no block is lost, unless a file that was open was, or by such a  *)
(* kill.                                                                    *)
THEOREM BlocksAreFiles == Careful /\ VdriveSpec => []NoBlockLost
<1> SUFFICES ASSUME Careful PROVE VdriveSpec => []NoBlockLost
  OBVIOUS
<1>1. VdriveSpec => [](VdriveTypeOK /\ (~ torn => DriveInv))
  BY DriveInvariant
<1>2. VdriveTypeOK /\ (~ torn => DriveInv) => NoBlockLost
  BY InvariantMeans
<1> QED BY <1>1, <1>2, PTL

\* No block, no bytes.
LEMMA NoContents ==
    ASSUME NEW L \in Links, NEW T \in Datas
    PROVE  Contents(L, T, None) = << >>
<1>1. None \in BlockOrNone /\ Size \in Nat
  BY NoneIs, AtIs
<1>2. PICK u : Reads(u, BytesAt(L, T, None)) /\ Contents(L, T, None) = u[Size]
  BY <1>1, ContentsIs
<1>3. \A i \in 0 .. Size : Walk(L, None)[i] = None
  <2>1. Walk(L, None)[0] = None
    BY <1>1, AtIs
  <2> QED BY <1>1, <2>1, NoneStays
<1>4. \A i \in 0 .. Size : BytesAt(L, T, None)[i] = << >>
  BY <1>3 DEF BytesAt
<1>5. u[Size] = u[0]
  BY <1>1, <1>2, <1>4, ReadsStop
<1> QED BY <1>1, <1>2, <1>4, <1>5 DEF Reads

\* Other blocks do not matter.
LEMMA SameContents ==
    ASSUME NEW L \in Links, NEW M \in Links, NEW T \in Datas, NEW U \in Datas,
           NEW first \in BlockOrNone,
           \A b \in Chain(L, first) : M[b] = L[b] /\ U[b] = T[b]
    PROVE  Contents(M, U, first) = Contents(L, T, first)
<1>1. Walk(M, first) = Walk(L, first)
  BY SameWalk
<1>2. PICK u : Reads(u, BytesAt(L, T, first)) /\ Contents(L, T, first) = u[Size]
  BY ContentsIs
<1>3. PICK v : Reads(v, BytesAt(M, U, first)) /\ Contents(M, U, first) = v[Size]
  BY ContentsIs
<1>4. ASSUME NEW i \in 0 .. Size
      PROVE  BytesAt(M, U, first)[i] = BytesAt(L, T, first)[i]
  <2>1. PICK b : b = Walk(L, first)[i]
    OBVIOUS
  <2>2. b # None => b \in Chain(L, first)
    BY <2>1, ChainIs
  <2>3. b # None => U[b] = T[b]
    BY <2>2
  <2> QED BY <1>1, <2>1, <2>3 DEF BytesAt
<1>5. Size \in 0 .. Size
  BY AtIs
<1> QED BY <1>2, <1>3, <1>4, <1>5, ReadsSame

\* The walk comes to the last block once, over other blocks, and ends there.
LEMMA LastPlace ==
    ASSUME NEW L \in Links, NEW first \in BlockOrNone,
           NEW last \in Chain(L, first), L[last] = None
    PROVE  \E k \in 0 .. Size :
               /\ Walk(L, first)[k] = last
               /\ \A i \in 0 .. k - 1 : Walk(L, first)[i] \in Chain(L, first) \ {last}
               /\ \A i \in k + 1 .. Size : Walk(L, first)[i] = None
<1>1. PICK at \in [0 .. Size -> BlockOrNone] :
         /\ at = Walk(L, first) /\ at[0] = first
         /\ \A i \in 1 .. Size : at[i] = IF at[i - 1] = None THEN None ELSE L[at[i - 1]]
  BY AtIs
<1>2. Size \in Nat /\ last # None
  BY AtIs, ChainIs
<1>3. PICK k \in 0 .. Size : at[k] = last
  <2>1. \E k \in 0 .. Size : Walk(L, first)[k] = last
    BY ChainIs
  <2> QED BY <1>1, <2>1
<1>4. ASSUME NEW j \in 0 .. Size, NEW i \in 0 .. Size, j < i, at[j] = last \/ at[j] = None
      PROVE  at[i] = None
  <2>1. j + 1 \in 1 .. Size /\ j + 1 \in 0 .. i /\ (j + 1) - 1 = j /\ j \in 0 .. i
    BY <1>2, <1>4
  <2>2. at[j] = None => at[i] = None
    BY <1>1, <2>1, NoneStays
  <2>3. at[j] = last => at[j + 1] = None
    BY <1>1, <1>2, <2>1
  <2>4. at[j + 1] = None => at[i] = None
    BY <1>1, <2>1, NoneStays
  <2> QED BY <1>4, <2>2, <2>3, <2>4
<1>5. ASSUME NEW i \in 0 .. k - 1
      PROVE  at[i] \in Chain(L, first) \ {last}
  <2>1. i \in 0 .. Size /\ i < k
    BY <1>2
  <2>2. at[i] # last /\ at[i] # None
    BY <1>2, <1>3, <1>4, <2>1
  <2> QED BY <1>1, <2>1, <2>2, ChainIs
<1>6. ASSUME NEW i \in k + 1 .. Size
      PROVE  at[i] = None
  <2>1. i \in 0 .. Size /\ k < i
    BY <1>2
  <2> QED BY <1>3, <1>4, <2>1
<1> QED BY <1>1, <1>3, <1>5, <1>6

\* What a file holds ends with the bytes of its last block.
LEMMA ContentsEnd ==
    ASSUME NEW L \in Links, NEW T \in Datas, NEW first \in BlockOrNone,
           NEW last \in Chain(L, first), L[last] = None
    PROVE  \E text \in Texts : \A U \in Datas :
               (\A b \in Chain(L, first) \ {last} : U[b] = T[b])
                   => Contents(L, U, first) = text \o U[last]
<1>1. PICK at \in [0 .. Size -> BlockOrNone] : at = Walk(L, first)
  BY AtIs
<1>2. Size \in Nat /\ last \in Blocks /\ last # None
  BY AtIs, ChainIs
<1>3. PICK k \in 0 .. Size : /\ at[k] = last
                             /\ \A i \in 0 .. k - 1 : at[i] \in Chain(L, first) \ {last}
                             /\ \A i \in k + 1 .. Size : at[i] = None
  <2>1. PICK k \in 0 .. Size :
            /\ Walk(L, first)[k] = last
            /\ \A i \in 0 .. k - 1 : Walk(L, first)[i] \in Chain(L, first) \ {last}
            /\ \A i \in k + 1 .. Size : Walk(L, first)[i] = None
    BY LastPlace
  <2> QED BY <1>1, <2>1
<1>4. PICK u : Reads(u, BytesAt(L, T, first))
  BY ContentsIs
<1>5. PICK text \in Texts : text = IF k = 0 THEN << >> ELSE u[k - 1]
  <2>1. k # 0 => k - 1 \in 0 .. Size
    BY <1>2
  <2>2. << >> \in Texts
    BY DEF Texts
  <2> QED BY <1>4, <2>1, <2>2 DEF Reads
<1>6. ASSUME NEW U \in Datas, \A b \in Chain(L, first) \ {last} : U[b] = T[b]
      PROVE  Contents(L, U, first) = text \o U[last]
  <2>1. PICK v : Reads(v, BytesAt(L, U, first)) /\ Contents(L, U, first) = v[Size]
    BY ContentsIs
  <2>2. ASSUME NEW i \in 0 .. k - 1
        PROVE  BytesAt(L, U, first)[i] = BytesAt(L, T, first)[i]
    <3>1. i \in 0 .. Size /\ at[i] \in Chain(L, first) \ {last}
      BY <1>2, <1>3
    <3>2. U[at[i]] = T[at[i]]
      BY <1>6, <3>1
    <3> QED BY <1>1, <3>1, <3>2 DEF BytesAt
  <2>3. BytesAt(L, U, first)[k] = U[last]
    BY <1>1, <1>2, <1>3 DEF BytesAt
  <2>4. v[Size] = v[k]
    <3>1. \A i \in k + 1 .. Size : BytesAt(L, U, first)[i] = << >>
      BY <1>1, <1>2, <1>3 DEF BytesAt
    <3> QED BY <2>1, <3>1, ReadsStop
  <2>5. U[last] \in Seq(Bytes)
    BY <1>2 DEF Datas, Texts
  <2>6. CASE k = 0
    <3>1. text = << >> /\ v[0] = U[last]
      BY <1>5, <2>1, <2>3, <2>6 DEF Reads
    <3> QED BY <2>1, <2>4, <2>5, <2>6, <3>1
  <2>7. CASE k # 0
    <3>1. k \in 1 .. Size /\ k - 1 \in 0 .. Size
      BY <1>2, <2>7
    <3>2. v[k - 1] = u[k - 1]
      BY <1>4, <2>1, <2>2, <3>1, ReadsSame
    <3>3. v[k] = v[k - 1] \o U[last]
      BY <2>1, <2>3, <3>1 DEF Reads
    <3> QED BY <1>5, <2>1, <2>4, <2>7, <3>2, <3>3
  <2> QED BY <2>6, <2>7
<1> QED BY <1>6

\* A file that grows by a block holds that block's bytes in addition.
LEMMA ContentsExtend ==
    ASSUME NEW L \in Links, NEW T \in Datas, NEW first \in BlockOrNone,
           NEW last \in Chain(L, first), L[last] = None,
           NEW new \in Blocks \ Chain(L, first),
           NEW M \in Links, M[last] = new, M[new] = None,
           \A b \in Chain(L, first) \ {last} : M[b] = L[b],
           NEW U \in Datas, \A b \in Chain(L, first) : U[b] = T[b]
    PROVE  Contents(M, U, first) = Contents(L, T, first) \o U[new]
<1>1. Chain(M, first) = Chain(L, first) \cup {new}
  BY Extend
<1>2. M[new] = None /\ new \in Chain(M, first)
  BY <1>1
<1>3. PICK at \in [0 .. Size -> BlockOrNone] :
         /\ at = Walk(L, first) /\ at[0] = first
         /\ \A i \in 1 .. Size : at[i] = IF at[i - 1] = None THEN None ELSE L[at[i - 1]]
  BY AtIs
<1>4. PICK bt \in [0 .. Size -> BlockOrNone] :
         /\ bt = Walk(M, first) /\ bt[0] = first
         /\ \A i \in 1 .. Size : bt[i] = IF bt[i - 1] = None THEN None ELSE M[bt[i - 1]]
  BY AtIs
<1>5. Size \in Nat /\ last # None /\ new # None
  BY AtIs, ChainIs, NoneIs
<1>6. PICK k \in 0 .. Size : /\ at[k] = last
                             /\ \A i \in 0 .. k - 1 : at[i] \in Chain(L, first) \ {last}
                             /\ \A i \in k + 1 .. Size : at[i] = None
  <2>1. PICK k \in 0 .. Size :
            /\ Walk(L, first)[k] = last
            /\ \A i \in 0 .. k - 1 : Walk(L, first)[i] \in Chain(L, first) \ {last}
            /\ \A i \in k + 1 .. Size : Walk(L, first)[i] = None
    BY LastPlace
  <2> QED BY <1>3, <2>1
<1>7. \A i \in 0 .. k : bt[i] = at[i]
  <2> DEFINE G == {i \in 0 .. k : bt[i] = at[i]}
  <2>1. 0 \in G
    BY <1>3, <1>4, <1>5
  <2>2. ASSUME NEW i \in 1 .. k, i - 1 \in G
        PROVE  i \in G
    <3>1. i \in 1 .. Size /\ i - 1 \in 0 .. k - 1 /\ i \in 0 .. k /\ bt[i - 1] = at[i - 1]
      BY <1>5, <2>2
    <3>2. at[i - 1] \in Chain(L, first) \ {last} /\ at[i - 1] # None
      BY <1>6, <3>1, ChainIs
    <3>3. M[at[i - 1]] = L[at[i - 1]]
      BY <3>2
    <3> QED BY <1>3, <1>4, <3>1, <3>2, <3>3
  <2> HIDE DEF G
  <2>3. k \in Nat
    BY <1>5
  <2>4. \A i \in 0 .. k : i \in G
    BY <2>1, <2>2, <2>3, UpTo
  <2> QED BY <2>4 DEF G
<1>8. PICK m \in 0 .. Size : /\ bt[m] = new
                             /\ \A i \in m + 1 .. Size : bt[i] = None
  <2>1. PICK m \in 0 .. Size : /\ Walk(M, first)[m] = new
                               /\ \A i \in m + 1 .. Size : Walk(M, first)[i] = None
    BY <1>2, LastPlace
  <2> QED BY <1>4, <2>1
<1>9. m = k + 1 /\ m \in 1 .. Size
  <2>1. ASSUME NEW i \in 0 .. k
        PROVE  bt[i] # new
    <3>1. i \in 0 .. k - 1 \/ i = k
      BY <1>5
    <3>2. at[i] \in Chain(L, first)
      BY <1>6, <3>1
    <3> QED BY <1>7, <3>2
  <2>2. m > k
    BY <1>5, <1>8, <2>1
  <2>3. k + 1 \in 1 .. Size /\ (k + 1) - 1 = k
    BY <1>5, <2>2
  <2>4. k \in 0 .. k
    BY <1>5
  <2>5. bt[k] = last
    BY <1>6, <1>7, <2>4
  <2>6. bt[k + 1] = new
    BY <1>4, <1>5, <2>3, <2>5
  <2>7. ~ (m > k + 1)
    <3>1. SUFFICES ASSUME m > k + 1 PROVE FALSE
      OBVIOUS
    <3>2. PICK n : n = k + 2 /\ n \in 1 .. Size /\ n - 1 = k + 1 /\ n \in 0 .. m /\ m \in 0 .. Size
      BY <1>5, <3>1
    <3>3. bt[n] = None
      BY <1>2, <1>4, <1>5, <2>6, <3>2
    <3>4. bt[m] = None
      BY <1>4, <3>2, <3>3, NoneStays
    <3> QED BY <1>5, <1>8, <3>4
  <2> QED BY <1>5, <2>2, <2>7
<1>10. PICK u : Reads(u, BytesAt(L, T, first)) /\ Contents(L, T, first) = u[Size]
  BY ContentsIs
<1>11. PICK v : Reads(v, BytesAt(M, U, first)) /\ Contents(M, U, first) = v[Size]
  BY ContentsIs
<1>12. ASSUME NEW i \in 0 .. k
       PROVE  BytesAt(M, U, first)[i] = BytesAt(L, T, first)[i]
  <2>1. i \in 0 .. Size /\ (i \in 0 .. k - 1 \/ i = k)
    BY <1>5
  <2>2. at[i] \in Chain(L, first) /\ bt[i] = at[i]
    BY <1>6, <1>7, <2>1
  <2>3. U[at[i]] = T[at[i]]
    BY <2>2
  <2> QED BY <1>3, <1>4, <2>1, <2>2, <2>3 DEF BytesAt
<1>13. u[Size] = u[k]
  <2>1. \A i \in k + 1 .. Size : BytesAt(L, T, first)[i] = << >>
    BY <1>3, <1>5, <1>6 DEF BytesAt
  <2> QED BY <1>10, <2>1, ReadsStop
<1>14. v[k] = u[k]
  BY <1>10, <1>11, <1>12, ReadsSame
<1>15. v[Size] = v[m]
  <2>1. \A i \in m + 1 .. Size : BytesAt(M, U, first)[i] = << >>
    BY <1>4, <1>5, <1>8 DEF BytesAt
  <2> QED BY <1>11, <2>1, ReadsStop
<1>16. v[m] = v[k] \o U[new]
  <2>1. BytesAt(M, U, first)[m] = U[new]
    BY <1>4, <1>5, <1>8 DEF BytesAt
  <2>2. m - 1 = k
    BY <1>5, <1>9
  <2> QED BY <1>9, <1>11, <2>1, <2>2 DEF Reads
<1> QED BY <1>10, <1>11, <1>13, <1>14, <1>15, <1>16

----------------------------------------------------------------------------
(* What has been written to a channel, and what its file would hold if it   *)
(* were closed now.                                                         *)

SoFar(L, T, f) ==
    IF f.track = None THEN f.buffer
    ELSE Contents(Cut(L, f.track), [T EXCEPT ![f.track] = f.buffer], FirstOf(f))
Told(L, T, f) ==
    /\ Files!PartOf(SoFar(L, T, f), f.text)
    /\ f.whole => SoFar(L, T, f) = f.text

LEMMA PartAll ==
    ASSUME NEW text \in Texts
    PROVE  Files!PartOf(text, text) /\ Files!PartOf(<< >>, text)
  BY DEF Files!PartOf, Texts

LEMMA PartGrows ==
    ASSUME NEW part \in Texts, NEW text \in Texts, NEW x \in Bytes, Files!PartOf(part, text)
    PROVE  Files!PartOf(Append(part, x), Append(text, x))
<1>1. part \in Seq(Bytes) /\ text \in Seq(Bytes) /\ Len(part) \in Nat /\ Len(text) \in Nat
  BY DEF Texts
<1>2. PICK p \in Seq(Bytes) : /\ p = Append(part, x) /\ Len(p) = Len(part) + 1 /\ p[Len(p)] = x
                              /\ \A i \in 1 .. Len(part) : p[i] = part[i]
  <2>1. /\ Append(part, x) \in Seq(Bytes) /\ Len(Append(part, x)) = Len(part) + 1
        /\ Append(part, x)[Len(part) + 1] = x
        /\ \A i \in 1 .. Len(part) : Append(part, x)[i] = part[i]
    BY <1>1
  <2> QED BY <2>1
<1>3. PICK t \in Seq(Bytes) : /\ t = Append(text, x) /\ Len(t) = Len(text) + 1 /\ t[Len(t)] = x
                              /\ \A i \in 1 .. Len(text) : t[i] = text[i]
  <2>1. /\ Append(text, x) \in Seq(Bytes) /\ Len(Append(text, x)) = Len(text) + 1
        /\ Append(text, x)[Len(text) + 1] = x
        /\ \A i \in 1 .. Len(text) : Append(text, x)[i] = text[i]
    BY <1>1
  <2> QED BY <2>1
<1>4. /\ DOMAIN part = 1 .. Len(part) /\ DOMAIN text = 1 .. Len(text)
      /\ DOMAIN p = 1 .. Len(p) /\ DOMAIN t = 1 .. Len(t)
  BY <1>1
<1>5. ASSUME NEW i \in DOMAIN p
      PROVE  \E k \in DOMAIN t : p[i] = t[k]
  <2>1. CASE i = Len(p)
    <3>1. Len(t) \in DOMAIN t /\ p[i] = t[Len(t)]
      BY <1>1, <1>2, <1>3, <1>4, <2>1
    <3> QED BY <3>1
  <2>2. CASE i # Len(p)
    <3>1. i \in DOMAIN part /\ p[i] = part[i]
      BY <1>1, <1>2, <1>4, <2>2
    <3>2. PICK k \in DOMAIN text : part[i] = text[k]
      BY <3>1 DEF Files!PartOf
    <3>3. k \in DOMAIN t /\ t[k] = text[k]
      BY <1>1, <1>3, <1>4
    <3> QED BY <3>1, <3>2, <3>3
  <2> QED BY <2>1, <2>2
<1>6. ASSUME NEW i \in DOMAIN p, NEW j \in DOMAIN p, i < j
      PROVE  \E k, l \in DOMAIN t : k < l /\ p[i] = t[k] /\ p[j] = t[l]
  <2>1. i \in DOMAIN part /\ p[i] = part[i]
    BY <1>1, <1>2, <1>4, <1>6
  <2>2. CASE j = Len(p)
    <3>1. PICK k \in DOMAIN text : part[i] = text[k]
      BY <2>1 DEF Files!PartOf
    <3>2. k \in DOMAIN t /\ t[k] = text[k] /\ k < Len(t) /\ Len(t) \in DOMAIN t
      BY <1>1, <1>3, <1>4
    <3>3. p[j] = t[Len(t)]
      BY <1>2, <1>3, <2>2
    <3> QED BY <2>1, <3>1, <3>2, <3>3
  <2>3. CASE j # Len(p)
    <3>1. j \in DOMAIN part /\ p[j] = part[j]
      BY <1>1, <1>2, <1>4, <2>3
    <3>2. PICK k, l \in DOMAIN text : k < l /\ part[i] = text[k] /\ part[j] = text[l]
      BY <1>6, <2>1, <3>1 DEF Files!PartOf
    <3>3. k \in DOMAIN t /\ l \in DOMAIN t /\ t[k] = text[k] /\ t[l] = text[l]
      BY <1>1, <1>3, <1>4
    <3> QED BY <2>1, <3>1, <3>2, <3>3
  <2> QED BY <2>2, <2>3
<1>7. Files!PartOf(p, t)
  BY <1>5, <1>6 DEF Files!PartOf
<1> QED BY <1>2, <1>3, <1>7

\* What is given up is at the end.
LEMMA PartShrinks ==
    ASSUME NEW part \in Texts, NEW lost \in Texts, NEW text \in Texts,
           Files!PartOf(part \o lost, text)
    PROVE  Files!PartOf(part, text)
<1>1. PICK p \in Texts : p = part \o lost
  <2>1. part \o lost \in Texts
    BY DEF Texts
  <2> QED BY <2>1
<1>2. DOMAIN part \subseteq DOMAIN p /\ \A i \in DOMAIN part : p[i] = part[i]
  BY <1>1 DEF Texts
<1>3. Files!PartOf(p, text)
  BY <1>1
<1> QED BY <1>2, <1>3 DEF Files!PartOf

LEMMA DataWith ==
    ASSUME NEW T \in Datas, NEW b \in Blocks, NEW text \in Texts
    PROVE  \E U \in Datas : /\ U = [T EXCEPT ![b] = text] /\ U[b] = text
                            /\ \A x \in Blocks \ {b} : U[x] = T[x]
<1>1. PICK U : U = [T EXCEPT ![b] = text]
  OBVIOUS
<1>2. U \in Datas /\ U[b] = text /\ \A x \in Blocks \ {b} : U[x] = T[x]
  BY <1>1 DEF Datas
<1> QED BY <1>1, <1>2

\* It ends with the buffer, and depends on the blocks of the channel only.
LEMMA SoFarEnds ==
    ASSUME NEW L \in Links, NEW T \in Datas, NEW f \in Buffers, EndsAtTrack(L, f)
    PROVE  \E text \in Texts :
               \A U \in Datas : \A g \in Buffers :
                   /\ g.track = f.track /\ FirstOf(g) = FirstOf(f)
                   /\ \A b \in OwnIn(L, f) \ {f.track} : U[b] = T[b]
                   => SoFar(L, U, g) = text \o g.buffer
<1>1. f.track \in BlockOrNone /\ FirstOf(f) \in BlockOrNone
  BY BufferFields
<1>2. \A g \in Buffers : g.buffer \in Texts /\ << >> \o g.buffer = g.buffer
  <2> SUFFICES ASSUME NEW g \in Buffers PROVE g.buffer \in Texts /\ << >> \o g.buffer = g.buffer
    OBVIOUS
  <2>1. g.buffer \in Seq(Bytes)
    BY BufferFields
  <2> QED BY <2>1 DEF Texts
<1>3. CASE f.track = None
  <2>1. << >> \in Texts
    BY DEF Texts
  <2>2. \A U \in Datas : \A g \in Buffers :
            g.track = f.track => SoFar(L, U, g) = << >> \o g.buffer
    BY <1>2, <1>3 DEF SoFar
  <2> QED BY <2>1, <2>2
<1>4. CASE f.track # None
  <2>1. f.track \in Blocks
    BY <1>1, <1>4, NoneIs
  <2>2. PICK P \in Links : P = Cut(L, f.track) /\ P[f.track] = None
    BY <2>1, CutIn
  <2>3. PICK first \in BlockOrNone : first = FirstOf(f)
    BY <1>1
  <2>4. OwnIn(L, f) = Chain(P, first) /\ f.track \in Chain(P, first)
    BY <1>4, <2>2, <2>3 DEF OwnIn, EndsAtTrack
  <2>5. PICK text \in Texts : \A U \in Datas :
               (\A b \in Chain(P, first) \ {f.track} : U[b] = T[b])
                   => Contents(P, U, first) = text \o U[f.track]
    BY <2>2, <2>4, ContentsEnd
  <2>6. ASSUME NEW U \in Datas, NEW g \in Buffers, g.track = f.track, FirstOf(g) = FirstOf(f),
               \A b \in OwnIn(L, f) \ {f.track} : U[b] = T[b]
        PROVE  SoFar(L, U, g) = text \o g.buffer
    <3>1. PICK V \in Datas : /\ V = [U EXCEPT ![f.track] = g.buffer] /\ V[f.track] = g.buffer
                             /\ \A x \in Blocks \ {f.track} : V[x] = U[x]
      <4>1. PICK held \in Texts : held = g.buffer
        BY <1>2
      <4>2. PICK V \in Datas : /\ V = [U EXCEPT ![f.track] = held] /\ V[f.track] = held
                               /\ \A x \in Blocks \ {f.track} : V[x] = U[x]
        BY <2>1, DataWith
      <4> QED BY <4>1, <4>2
    <3>2. Chain(P, first) \subseteq Blocks
      BY ChainIs
    <3>3. \A b \in Chain(P, first) \ {f.track} : V[b] = T[b]
      BY <2>4, <2>6, <3>1, <3>2
    <3>4. Contents(P, V, first) = text \o g.buffer
      BY <2>5, <3>1, <3>3
    <3> QED BY <1>4, <2>2, <2>3, <2>6, <3>1, <3>4 DEF SoFar
  <2> QED BY <2>5, <2>6
<1> QED BY <1>3, <1>4

LEMMA SoFarSame ==
    ASSUME NEW L \in Links, NEW M \in Links, NEW T \in Datas, NEW U \in Datas,
           NEW f \in Buffers, \A b \in OwnIn(L, f) : M[b] = L[b] /\ U[b] = T[b]
    PROVE  SoFar(M, U, f) = SoFar(L, T, f)
<1>1. f.track \in BlockOrNone /\ FirstOf(f) \in BlockOrNone /\ f.buffer \in Texts
  BY BufferFields DEF Texts
<1>2. CASE f.track = None
  BY <1>2 DEF SoFar
<1>3. CASE f.track # None
  <2>1. f.track \in Blocks
    BY <1>1, <1>3, NoneIs
  <2>2. PICK P \in Links : /\ P = Cut(L, f.track) /\ P[f.track] = None
                           /\ \A x \in Blocks \ {f.track} : P[x] = L[x]
    BY <2>1, CutIn
  <2>3. PICK Q \in Links : /\ Q = Cut(M, f.track) /\ Q[f.track] = None
                           /\ \A x \in Blocks \ {f.track} : Q[x] = M[x]
    BY <2>1, CutIn
  <2>4. PICK V \in Datas : /\ V = [T EXCEPT ![f.track] = f.buffer] /\ V[f.track] = f.buffer
                           /\ \A x \in Blocks \ {f.track} : V[x] = T[x]
    BY <1>1, <2>1, DataWith
  <2>5. PICK W \in Datas : /\ W = [U EXCEPT ![f.track] = f.buffer] /\ W[f.track] = f.buffer
                           /\ \A x \in Blocks \ {f.track} : W[x] = U[x]
    BY <1>1, <2>1, DataWith
  <2>6. OwnIn(L, f) = Chain(P, FirstOf(f)) /\ OwnIn(L, f) \subseteq Blocks
    BY <1>3, <2>2, OwnBlocks DEF OwnIn
  <2>7. ASSUME NEW b \in Chain(P, FirstOf(f))
        PROVE  Q[b] = P[b] /\ W[b] = V[b]
    <3>1. b \in Blocks /\ M[b] = L[b] /\ U[b] = T[b]
      BY <2>6
    <3> QED BY <2>2, <2>3, <2>4, <2>5, <3>1
  <2>8. Contents(Q, W, FirstOf(f)) = Contents(P, V, FirstOf(f))
    BY <1>1, <2>7, SameContents
  <2> QED BY <1>3, <2>2, <2>3, <2>4, <2>5, <2>8 DEF SoFar
<1> QED BY <1>2, <1>3

LEMMA ToldSame ==
    ASSUME NEW L \in Links, NEW M \in Links, NEW T \in Datas, NEW U \in Datas,
           NEW f \in Buffers, \A b \in OwnIn(L, f) : M[b] = L[b] /\ U[b] = T[b],
           Told(L, T, f)
    PROVE  Told(M, U, f)
  BY SoFarSame DEF Told

----------------------------------------------------------------------------
(* The files and the channels as the programs see them.                     *)

NamesApart(D) ==
    \A s, t \in Slots : D[s] # None /\ D[t] # None /\ D[s].name = D[t].name => s = t

FilesIn(D, L, T) ==
    [n \in Names |->
        IF \E s \in ClosedIn(D) : D[s].name = n
        THEN Contents(L, T, D[CHOOSE s \in ClosedIn(D) : D[s].name = n].first)
        ELSE None]
Handed(f) ==
    IF f = None THEN None ELSE [name |-> f.entry.name, text |-> f.text, whole |-> f.whole]
HandedIn(C) == [c \in Channels |-> Handed(C[c])]

LEMMA FilesAre ==
    /\ files = FilesIn(dir, link, data) /\ files' = FilesIn(dir', link', data')
    /\ writing = HandedIn(chan) /\ writing' = HandedIn(chan')
<1>1. ClosedSlots = ClosedIn(dir) /\ ClosedSlots' = ClosedIn(dir')
  BY DEF ClosedSlots, ClosedIn
<1>2. files = FilesIn(dir, link, data) /\ files' = FilesIn(dir', link', data')
  BY <1>1 DEF files, FilesIn
<1>3. writing = HandedIn(chan) /\ writing' = HandedIn(chan')
  BY DEF writing, HandedIn, Handed
<1> QED BY <1>2, <1>3

\* The file of a name is what its closed slot holds.
LEMMA FileIs ==
    ASSUME NEW D \in Dirs, NEW L, NEW T, NamesApart(D), NEW s \in ClosedIn(D)
    PROVE  /\ D[s].name \in Names
           /\ FilesIn(D, L, T)[D[s].name] = Contents(L, T, D[s].first)
<1>1. s \in Slots /\ D[s] \in Entries /\ D[s] # None
  BY DEF ClosedIn, Dirs
<1>2. PICK n \in Names : n = D[s].name
  BY <1>1 DEF Entries
<1>3. PICK t : t = CHOOSE x \in ClosedIn(D) : D[x].name = n
  OBVIOUS
<1>4. t \in ClosedIn(D) /\ D[t].name = n
  BY <1>2, <1>3
<1>5. t = s
  BY <1>1, <1>2, <1>4 DEF ClosedIn, NamesApart
<1>6. FilesIn(D, L, T)[n] = Contents(L, T, D[t].first)
  BY <1>2, <1>3 DEF FilesIn
<1> QED BY <1>2, <1>5, <1>6

LEMMA NoFileIs ==
    ASSUME NEW D, NEW L, NEW T, NEW n \in Names, \A s \in ClosedIn(D) : D[s].name # n
    PROVE  FilesIn(D, L, T)[n] = None
  BY DEF FilesIn

\* Files stay what they are with their slots and blocks.
LEMMA FilesStay ==
    ASSUME NEW D \in Dirs, NEW E \in Dirs, NamesApart(D), NamesApart(E),
           NEW L \in Links, NEW M \in Links, NEW T \in Datas, NEW U \in Datas, NEW X,
           \A s \in ClosedIn(D) :
               D[s].name \notin X =>
                   /\ s \in ClosedIn(E) /\ E[s].name = D[s].name /\ E[s].first = D[s].first
                   /\ \A b \in Chain(L, D[s].first) : M[b] = L[b] /\ U[b] = T[b],
           \A s \in ClosedIn(E) :
               E[s].name \notin X => s \in ClosedIn(D) /\ E[s].name = D[s].name
    PROVE  \A n \in Names \ X : FilesIn(E, M, U)[n] = FilesIn(D, L, T)[n]
<1> SUFFICES ASSUME NEW n \in Names, n \notin X
             PROVE  FilesIn(E, M, U)[n] = FilesIn(D, L, T)[n]
  OBVIOUS
<1>1. CASE \E s \in ClosedIn(D) : D[s].name = n
  <2>1. PICK s \in ClosedIn(D) : D[s].name = n
    BY <1>1
  <2>2. /\ s \in ClosedIn(E) /\ E[s].name = n /\ E[s].first = D[s].first
        /\ \A b \in Chain(L, D[s].first) : M[b] = L[b] /\ U[b] = T[b]
    BY <2>1
  <2>3. D[s].first \in BlockOrNone
    BY InUseIs
  <2>4. FilesIn(D, L, T)[n] = Contents(L, T, D[s].first)
    BY <2>1, FileIs
  <2>5. FilesIn(E, M, U)[n] = Contents(M, U, E[s].first)
    BY <2>2, FileIs
  <2>6. Contents(M, U, D[s].first) = Contents(L, T, D[s].first)
    BY <2>2, <2>3, SameContents
  <2> QED BY <2>2, <2>4, <2>5, <2>6
<1>2. CASE \A s \in ClosedIn(D) : D[s].name # n
  <2>1. \A s \in ClosedIn(E) : E[s].name # n
    BY <1>2
  <2> QED BY <1>2, <2>1, NoFileIs
<1> QED BY <1>1, <1>2

\* ... all of them, or all but one.
LEMMA AllStay ==
    ASSUME NEW D, NEW L, NEW T, NEW E, NEW M, NEW U,
           \A n \in Names : FilesIn(E, M, U)[n] = FilesIn(D, L, T)[n]
    PROVE  FilesIn(E, M, U) = FilesIn(D, L, T)
  BY DEF FilesIn

LEMMA OneChanges ==
    ASSUME NEW g, NEW h, g = [m \in Names |-> g[m]], h = [m \in Names |-> h[m]],
           NEW n \in Names, \A m \in Names \ {n} : h[m] = g[m]
    PROVE  h = [g EXCEPT ![n] = h[n]]
<1>1. [m \in Names |-> h[m]] = [[m \in Names |-> g[m]] EXCEPT ![n] = h[n]]
  OBVIOUS
<1> QED BY <1>1

OnlyChanges(n) == files' = [files EXCEPT ![n] = files'[n]]

LEMMA FilesFunctions ==
    files = [m \in Names |-> files[m]] /\ files' = [m \in Names |-> files'[m]]
  BY DEF files

\* A file that is stored is one, and a channel that writes has been handed one.
LEMMA SomethingIs ==
    /\ \A text \in Texts : text # None
    /\ \A f \in Buffers :
           /\ Handed(f) # None /\ Handed(f).name = f.entry.name
           /\ Handed(f).text = f.text /\ Handed(f).whole = f.whole
<1>1. \A text \in Texts : text # None
  BY NoneAssumption DEF Texts
<1>2. ASSUME NEW f \in Buffers
      PROVE  /\ Handed(f) # None /\ Handed(f).name = f.entry.name
             /\ Handed(f).text = f.text /\ Handed(f).whole = f.whole
  <2>1. PICK h : h = [name |-> f.entry.name, text |-> f.text, whole |-> f.whole]
    OBVIOUS
  <2>2. h \in [name : Names, text : Seq(Bytes), whole : BOOLEAN] /\ f # None
    BY <2>1, BufferFields
  <2>3. Handed(f) = h
    BY <2>1, <2>2 DEF Handed
  <2> QED BY <2>1, <2>2, <2>3, NoneAssumption
<1> QED BY <1>1, <1>2

LEMMA HandedIs ==
    ASSUME NEW C \in Chans, NEW c \in Channels
    PROVE  HandedIn(C)[c] = Handed(C[c]) /\ (C[c] = None => HandedIn(C)[c] = None)
  BY DEF HandedIn, Handed

LEMMA HandedChanges ==
    ASSUME NEW C \in Chans, NEW B \in Chans, NEW c \in Channels,
           \A d \in Channels \ {c} : B[d] = C[d]
    PROVE  HandedIn(B) = [HandedIn(C) EXCEPT ![c] = Handed(B[c])]
<1>1. \A d \in Channels : Handed(B[d]) = IF d = c THEN Handed(B[c]) ELSE Handed(C[d])
  OBVIOUS
<1> QED BY <1>1 DEF HandedIn

----------------------------------------------------------------------------
(* Every file being written would hold what was handed over.                *)

TextsFor(D, L, T, C) ==
    /\ NamesApart(D)
    /\ \A c \in OpenIn(C) : Told(L, T, C[c]) /\ C[c].entry.name = D[C[c].slot].name
TextsInv == TextsFor(dir, link, data, chan)

LEMMA StateIs ==
    ASSUME VdriveTypeOK
    PROVE  dir \in Dirs /\ link \in Links /\ data \in Datas /\ chan \in Chans
           /\ bam \in SUBSET Blocks
  BY TypesAre DEF VdriveTypeOK, Datas, Texts

\* A file of one block.
LEMMA OneBlock ==
    ASSUME NEW L \in Links, NEW T \in Datas, NEW b \in Blocks, L[b] = None
    PROVE  Contents(L, T, b) = T[b]
<1>1. b \in BlockOrNone /\ b # None
  BY NoneIs
<1>2. Size \in Nat /\ 0 \in 0 .. Size
  BY <1>1, AtIs
<1>3. PICK u : Reads(u, BytesAt(L, T, b)) /\ Contents(L, T, b) = u[Size]
  BY <1>1, ContentsIs
<1>4. PICK at \in [0 .. Size -> BlockOrNone] :
         /\ at = Walk(L, b) /\ at[0] = b
         /\ \A i \in 1 .. Size : at[i] = IF at[i - 1] = None THEN None ELSE L[at[i - 1]]
  BY <1>1, AtIs
<1>5. ASSUME NEW i \in 0 + 1 .. Size
      PROVE  at[i] = None
  <2>1. 1 \in 1 .. Size /\ 1 - 1 = 0 /\ 1 \in 0 .. i /\ i \in 0 .. Size
    BY <1>2
  <2>2. at[1] = None
    BY <1>1, <1>4, <2>1
  <2> QED BY <1>1, <1>4, <2>1, <2>2, NoneStays
<1>6. \A i \in 0 + 1 .. Size : BytesAt(L, T, b)[i] = << >>
  <2> TAKE i \in 0 + 1 .. Size
  <2>1. i \in 0 .. Size
    BY <1>2
  <2> QED BY <1>4, <1>5, <2>1 DEF BytesAt
<1>7. BytesAt(L, T, b)[0] = T[b]
  BY <1>1, <1>2, <1>4 DEF BytesAt
<1>8. u[Size] = u[0]
  BY <1>2, <1>3, <1>6, ReadsStop
<1> QED BY <1>3, <1>7, <1>8 DEF Reads

\* What happens on one channel leaves the texts of the others alone.
LEMMA TextsStay ==
    ASSUME NEW D \in Dirs, NEW E \in Dirs, NEW L \in Links, NEW M \in Links,
           NEW T \in Datas, NEW U \in Datas, NEW C \in Chans, NEW B \in Chans,
           TextsFor(D, L, T, C), NamesApart(E), NEW c,
           \A d \in Channels \ {c} : B[d] = C[d],
           \A d \in OpenIn(C) \ {c} :
               /\ \A b \in OwnIn(L, C[d]) : M[b] = L[b] /\ U[b] = T[b]
               /\ E[C[d].slot].name = D[C[d].slot].name,
           c \in OpenIn(B) => Told(M, U, B[c]) /\ B[c].entry.name = E[B[c].slot].name
    PROVE  TextsFor(E, M, U, B)
<1>1. ASSUME NEW d \in OpenIn(B), d # c
      PROVE  Told(M, U, B[d]) /\ B[d].entry.name = E[B[d].slot].name
  <2>1. d \in OpenIn(C) /\ B[d] = C[d] /\ C[d] \in Buffers
    BY <1>1 DEF OpenIn, Chans
  <2>2. Told(L, T, C[d]) /\ C[d].entry.name = D[C[d].slot].name
    BY <2>1 DEF TextsFor
  <2>3. Told(M, U, C[d])
    BY <1>1, <2>1, <2>2, ToldSame
  <2> QED BY <1>1, <2>1, <2>2, <2>3
<1> QED BY <1>1 DEF TextsFor

\* Names of files stay apart if none is new.
LEMMA NamesStay ==
    ASSUME NEW D, NEW E, NamesApart(D),
           \A s \in Slots : E[s] # None => D[s] # None /\ E[s].name = D[s].name
    PROVE  NamesApart(E)
  BY DEF NamesApart

\* No file is deleted, or one is.
LEMMA FilesUnmoved ==
    ASSUME NEW E \in Dirs, E = dir', dir \in Dirs, link \in Links, data \in Datas,
           NamesApart(dir), NamesApart(E), link' = link, data' = data,
           ClosedIn(E) = ClosedIn(dir), \A s \in ClosedIn(dir) : E[s] = dir[s]
    PROVE  files' = files
<1>1. PICK X : X = {}
  OBVIOUS
<1>2. \A t \in ClosedIn(dir) :
          dir[t].name \notin X =>
              /\ t \in ClosedIn(E) /\ E[t].name = dir[t].name /\ E[t].first = dir[t].first
              /\ \A b \in Chain(link, dir[t].first) : link[b] = link[b] /\ data[b] = data[b]
  OBVIOUS
<1>3. \A t \in ClosedIn(E) :
          E[t].name \notin X => t \in ClosedIn(dir) /\ E[t].name = dir[t].name
  OBVIOUS
<1>4. \A m \in Names \ X : FilesIn(E, link, data)[m] = FilesIn(dir, link, data)[m]
  BY <1>2, <1>3, FilesStay
<1>5. FilesIn(E, link, data) = FilesIn(dir, link, data)
  BY <1>1, <1>4, AllStay
<1> QED BY <1>5, FilesAre

\* ... nor is any block of one written.
LEMMA FilesKept ==
    ASSUME VdriveTypeOK, VdriveTypeOK', NamesApart(dir), dir' = dir,
           \A b \in InUseIn(dir, link) : link'[b] = link[b] /\ data'[b] = data[b]
    PROVE  files' = files
<1>1. dir \in Dirs /\ link \in Links /\ data \in Datas
  BY StateIs
<1>2. PICK M \in Links : M = link'
  BY DEF VdriveTypeOK, Links
<1>3. PICK U \in Datas : U = data'
  BY DEF VdriveTypeOK, Datas, Texts
<1>4. ASSUME NEW s \in ClosedIn(dir), NEW b \in Chain(link, dir[s].first)
      PROVE  M[b] = link[b] /\ U[b] = data[b]
  <2>1. b \in InUseIn(dir, link)
    BY <1>1, InUseIs
  <2> QED BY <1>2, <1>3, <2>1
<1>5. PICK X : X = {}
  OBVIOUS
<1>6. \A s \in ClosedIn(dir) :
          dir[s].name \notin X =>
              /\ s \in ClosedIn(dir) /\ dir[s].name = dir[s].name /\ dir[s].first = dir[s].first
              /\ \A b \in Chain(link, dir[s].first) : M[b] = link[b] /\ U[b] = data[b]
  BY <1>4
<1>7. \A s \in ClosedIn(dir) :
          dir[s].name \notin X => s \in ClosedIn(dir) /\ dir[s].name = dir[s].name
  OBVIOUS
<1>8. \A m \in Names \ X : FilesIn(dir, M, U)[m] = FilesIn(dir, link, data)[m]
  BY <1>1, <1>6, <1>7, FilesStay
<1>9. FilesIn(dir, M, U) = FilesIn(dir, link, data)
  BY <1>5, <1>8, AllStay
<1> QED BY <1>2, <1>3, <1>9, FilesAre

LEMMA FileGone ==
    ASSUME NEW E \in Dirs, E = dir', dir \in Dirs, link \in Links, data \in Datas,
           NamesApart(dir), NamesApart(E), link' = link, data' = data,
           NEW s \in ClosedIn(dir), NEW n \in Names, n = dir[s].name,
           ClosedIn(E) = ClosedIn(dir) \ {s}, \A t \in Slots \ {s} : E[t] = dir[t]
    PROVE  files' = [files EXCEPT ![n] = None]
<1>1. PICK X : X = {n}
  OBVIOUS
<1>2. \A t \in ClosedIn(dir) \ {s} : dir[t].name # n /\ E[t] = dir[t]
  BY DEF NamesApart, ClosedIn
<1>3. FilesIn(E, link, data)[n] = None
  BY <1>2, NoFileIs
<1>4. \A t \in ClosedIn(dir) :
          dir[t].name \notin X =>
              /\ t \in ClosedIn(E) /\ E[t].name = dir[t].name /\ E[t].first = dir[t].first
              /\ \A b \in Chain(link, dir[t].first) : link[b] = link[b] /\ data[b] = data[b]
  BY <1>1, <1>2
<1>5. \A t \in ClosedIn(E) :
          E[t].name \notin X => t \in ClosedIn(dir) /\ E[t].name = dir[t].name
  BY <1>2
<1>6. \A m \in Names \ X : FilesIn(E, link, data)[m] = FilesIn(dir, link, data)[m]
  BY <1>4, <1>5, FilesStay
<1>7. files' = FilesIn(E, link, data) /\ files = FilesIn(dir, link, data)
  BY FilesAre
<1>8. \A m \in Names \ {n} : files'[m] = files[m]
  BY <1>1, <1>6, <1>7
<1> QED BY <1>3, <1>7, <1>8, OneChanges, FilesFunctions

----------------------------------------------------------------------------
(* Every step is one of the store.                                          *)

LEMMA StoreQuiet ==
    ASSUME VdriveTypeOK, TextsInv,
           \/ UNCHANGED vars \/ Refused \/ ReadStatus \/ Initialized \/ ResetByUJ
           \/ SwitchOn \/ SwitchOff
           \/ \E cmd \in {"I", "V", "UJ", "ATTACH"} : CloseAll(cmd)
    PROVE  TextsInv' /\ Files!Operate
<1>1. dir' = dir /\ link' = link /\ data' = data /\ chan' = chan
  BY DEF vars, diskVars, Refused, ReadStatus, Initialized, ResetByUJ, SwitchOn, SwitchOff,
         CloseAll, Command
<1>2. TextsInv'
  BY <1>1 DEF TextsInv
<1>3. files' = files /\ writing' = writing
  BY <1>1, FilesAre
<1> QED BY <1>2, <1>3 DEF Files!Operate, Files!Report

LEMMA Silenced ==
    ASSUME chan' = [c \in Channels |-> None]
    PROVE  OpenIn(chan') = {} /\ Files!Silence
<1>1. OpenIn(chan') = {}
  BY DEF OpenIn
<1>2. writing' = [c \in Channels |-> None]
  <2>1. HandedIn(chan') = [c \in Channels |-> None]
    BY DEF HandedIn, Handed
  <2> QED BY <2>1, FilesAre
<1> QED BY <1>1, <1>2 DEF Files!Silence

LEMMA StoreKill ==
    ASSUME VdriveTypeOK, TextsInv, Kill \/ AttachOver
    PROVE  TextsInv' /\ Files!Operate
<1>1. dir' = dir /\ link' = link /\ data' = data /\ chan' = [c \in Channels |-> None]
  BY DEF Kill, Killed, AttachOver, diskVars
<1>2. OpenIn(chan') = {} /\ Files!Silence
  BY <1>1, Silenced
<1>3. TextsInv'
  BY <1>1, <1>2 DEF TextsInv, TextsFor
<1>4. files' = files
  BY <1>1, FilesAre
<1> QED BY <1>2, <1>3, <1>4 DEF Files!Operate, Files!Lose

LEMMA StoreDelete ==
    ASSUME VdriveTypeOK, VdriveTypeOK', DriveInv, TextsInv, Careful, NEW s \in Slots,
           Scratch(s) \/ DriveScratches(s)
    PROVE  TextsInv' /\ Files!Operate
<1>1. /\ dir \in Dirs /\ link \in Links /\ data \in Datas /\ chan \in Chans
      /\ link' = link /\ data' = data /\ chan' = chan
      /\ dir' = [dir EXCEPT ![s] = None]
  BY StateIs DEF Scratch, DriveScratches, Command
<1>2. s \in ClosedIn(dir) /\ \A c \in OpenIn(chan) : chan[c].slot # s
  <2>1. CASE Scratch(s)
    BY <2>1 DEF Scratch, MayTouch, Written, ClosedIn, OpenIn
  <2>2. CASE DriveScratches(s)
    <3>1. OpenIn(chan) = {}
      BY <2>2 DEF DriveScratches, DriveInv, BitmapsTrue
    <3> QED BY <2>2, <3>1 DEF DriveScratches, ClosedSlots, ClosedIn
  <2> QED BY <2>1, <2>2
<1>3. PICK E \in Dirs : E = dir' /\ E[s] = None /\ \A t \in Slots \ {s} : E[t] = dir[t]
  BY <1>1 DEF Dirs
<1>4. NamesApart(dir)
  BY DEF TextsInv, TextsFor
<1>5. NamesApart(E)
  <2>1. \A t \in Slots : E[t] # None => dir[t] # None /\ E[t].name = dir[t].name
    BY <1>3
  <2> QED BY <1>4, <2>1, NamesStay
<1>6. PICK n \in Names : n = dir[s].name
  BY <1>1, <1>2, <1>4, FileIs
<1>7. TextsInv'
  <2>1. \A c \in OpenIn(chan) : chan[c].slot \in Slots \ {s}
    BY <1>1, <1>2, HeldIs, BufferFields
  <2>2. \A c \in OpenIn(chan) : E[chan[c].slot].name = dir[chan[c].slot].name
    BY <1>3, <2>1
  <2>3. TextsFor(E, link, data, chan)
    BY <1>5, <2>2 DEF TextsInv, TextsFor
  <2> QED BY <1>1, <1>3, <2>3 DEF TextsInv
<1>8. ClosedIn(E) = ClosedIn(dir) \ {s}
  BY <1>3 DEF ClosedIn
<1>9. files' = [files EXCEPT ![n] = None]
  <2>1. /\ dir \in Dirs /\ link \in Links /\ data \in Datas /\ link' = link /\ data' = data
        /\ E = dir' /\ \A t \in Slots \ {s} : E[t] = dir[t]
    BY <1>1, <1>3
  <2> QED BY <1>2, <1>4, <1>5, <1>6, <1>8, <2>1, FileGone
<1>10. writing' = writing
  BY <1>1, FilesAre
<1>11. Files!Drop(n)
  BY <1>9, <1>10 DEF Files!Drop
<1> QED BY <1>7, <1>11 DEF Files!Operate

LEMMA StoreRename ==
    ASSUME VdriveTypeOK, VdriveTypeOK', DriveInv, TextsInv, Careful,
           NEW s \in Slots, NEW n \in Names, Rename(s, n)
    PROVE  TextsInv' /\ Files!Operate
<1>1. /\ dir \in Dirs /\ link \in Links /\ data \in Datas /\ chan \in Chans /\ dir' \in Dirs
      /\ link' = link /\ data' = data /\ chan' = chan
      /\ dir' = [dir EXCEPT ![s].name = n]
  BY StateIs DEF Rename, Command, VdriveTypeOK, Dirs
<1>2. s \in ClosedIn(dir) /\ (\A c \in OpenIn(chan) : chan[c].slot # s) /\ Named(n) = {}
  BY DEF Rename, MayTouch, Written, ClosedIn, OpenIn
<1>3. PICK e : e = [dir[s] EXCEPT !.name = n]
  OBVIOUS
<1>4. /\ e \in Entries /\ e # None /\ e.name = n /\ e.closed
      /\ e.first = dir[s].first /\ dir[s] # None /\ dir[s].name \in Names
  <2>1. dir[s] \in Entries /\ dir[s].closed /\ dir[s] # None
    BY <1>2, SlotFields DEF ClosedIn
  <2>2. e \in Entries /\ e.name = n /\ e.closed /\ e.first = dir[s].first /\ dir[s].name \in Names
    BY <1>3, <2>1 DEF Entries
  <2> QED BY <2>1, <2>2, NoneAssumption
<1>5. PICK E \in Dirs : E = dir' /\ E[s] = e /\ \A t \in Slots \ {s} : E[t] = dir[t]
  BY <1>1, <1>3 DEF Dirs
<1>6. NamesApart(dir)
  BY DEF TextsInv, TextsFor
<1>7. \A t \in Slots : dir[t] # None => dir[t].name # n
  BY <1>2 DEF Named
<1>8. NamesApart(E)
  <2>1. \A t \in Slots : E[t] # None => dir[t] # None
    BY <1>4, <1>5
  <2>2. \A t \in Slots \ {s} : E[t] # None => E[t].name # n
    BY <1>5, <1>7
  <2> QED BY <1>4, <1>5, <1>6, <2>1, <2>2 DEF NamesApart
<1>9. PICK old \in Names : old = dir[s].name /\ old # n
  BY <1>4, <1>7
<1>10. TextsInv'
  <2>1. \A c \in OpenIn(chan) : chan[c].slot \in Slots \ {s}
    BY <1>1, <1>2, HeldIs, BufferFields
  <2>2. \A c \in OpenIn(chan) : E[chan[c].slot].name = dir[chan[c].slot].name
    BY <1>5, <2>1
  <2>3. TextsFor(E, link, data, chan)
    BY <1>8, <2>2 DEF TextsInv, TextsFor
  <2> QED BY <1>1, <1>5, <2>3 DEF TextsInv
<1>11. ClosedIn(E) = ClosedIn(dir)
  BY <1>2, <1>4, <1>5 DEF ClosedIn
<1>12. \A t \in ClosedIn(dir) \ {s} : dir[t].name # n /\ dir[t].name # old /\ E[t] = dir[t]
  BY <1>2, <1>5, <1>6, <1>7, <1>9 DEF NamesApart, ClosedIn
<1>13. FilesIn(dir, link, data)[n] = None
  <2>1. \A t \in ClosedIn(dir) : dir[t].name # n
    BY <1>7 DEF ClosedIn
  <2> QED BY <2>1, NoFileIs
<1>14. FilesIn(E, link, data)[old] = None
  <2>1. \A t \in ClosedIn(E) : E[t].name # old
    BY <1>4, <1>5, <1>9, <1>11, <1>12
  <2> QED BY <2>1, NoFileIs
<1>15. FilesIn(E, link, data)[n] = FilesIn(dir, link, data)[old]
  <2>1. FilesIn(dir, link, data)[dir[s].name] = Contents(link, data, dir[s].first)
    BY <1>1, <1>2, <1>6, FileIs
  <2>2. FilesIn(E, link, data)[E[s].name] = Contents(link, data, E[s].first)
    BY <1>2, <1>8, <1>11, FileIs
  <2> QED BY <1>4, <1>5, <1>9, <2>1, <2>2
<1>16. \A m \in Names \ {n, old} : FilesIn(E, link, data)[m] = FilesIn(dir, link, data)[m]
  <2>1. PICK X : X = {n, old}
    OBVIOUS
  <2>2. \A t \in ClosedIn(dir) :
            dir[t].name \notin X =>
                /\ t \in ClosedIn(E) /\ E[t].name = dir[t].name /\ E[t].first = dir[t].first
                /\ \A b \in Chain(link, dir[t].first) : link[b] = link[b] /\ data[b] = data[b]
    BY <1>9, <1>11, <1>12, <2>1
  <2>3. \A t \in ClosedIn(E) :
            E[t].name \notin X => t \in ClosedIn(dir) /\ E[t].name = dir[t].name
    BY <1>4, <1>5, <1>11, <1>12, <2>1
  <2>4. \A m \in Names \ X : FilesIn(E, link, data)[m] = FilesIn(dir, link, data)[m]
    BY <1>1, <1>6, <1>8, <2>2, <2>3, FilesStay
  <2> QED BY <2>1, <2>4
<1>17. PICK g : g = files /\ g = [m \in Names |-> g[m]]
  <2>1. files = [m \in Names |-> files[m]]
    BY FilesFunctions
  <2> QED BY <2>1
<1>18. PICK h : h = files' /\ h = [m \in Names |-> h[m]]
  <2>1. files' = [m \in Names |-> files'[m]]
    BY FilesFunctions
  <2> QED BY <2>1
<1>19. /\ g[n] = None /\ h[old] = None /\ h[n] = g[old]
       /\ \A m \in Names \ {n, old} : h[m] = g[m]
  <2>1. g = FilesIn(dir, link, data) /\ h = FilesIn(E, link, data)
    BY <1>1, <1>5, <1>17, <1>18, FilesAre
  <2> QED BY <1>13, <1>14, <1>15, <1>16, <2>1
<1>20. h = [g EXCEPT ![old] = None, ![n] = g[old]]
  <2>1. [m \in Names |-> h[m]] = [[m \in Names |-> g[m]] EXCEPT ![old] = None, ![n] = g[old]]
    BY <1>9, <1>19
  <2> QED BY <1>17, <1>18, <2>1
<1>21. files' = [files EXCEPT ![old] = None, ![n] = files[old]] /\ writing' = writing
       /\ files[n] = None
  BY <1>1, <1>17, <1>18, <1>19, <1>20, FilesAre
<1>22. Files!Move(old, n)
  BY <1>21 DEF Files!Move
<1> QED BY <1>10, <1>22 DEF Files!Operate

\* A validate that succeeds changes no file, whatever the disk was before.
LEMMA StoreValidate ==
    ASSUME VdriveTypeOK, VdriveTypeOK', NamesApart(dir), Conflicts = {}, Validated
    PROVE  TextsInv' /\ Files!Repair
<1>1. dir \in Dirs /\ link \in Links /\ data \in Datas /\ chan \in Chans /\ dir' \in Dirs
  BY StateIs DEF VdriveTypeOK, Dirs
<1>2. ClosedSlots = ClosedIn(dir)
  BY DEF ClosedSlots, ClosedIn
<1>3. /\ dir' = Deleted(SlotCount + 1) /\ OpenIn(chan) = {}
      /\ link' = link /\ data' = data /\ chan' = chan
  BY DEF Validated, Command, AllClosed, Open, OpenIn
<1>4. \A s \in Slots : dir'[s] = IF s \notin ClosedIn(dir) THEN None ELSE dir[s]
  <2>1. \A s \in Slots : s < SlotCount + 1
    BY SizesArePositive DEF Slots
  <2> QED BY <1>2, <1>3, <2>1 DEF Deleted
<1>5. PICK E \in Dirs : E = dir'
  BY <1>1
<1>6. ClosedIn(E) = ClosedIn(dir) /\ \A s \in ClosedIn(dir) : E[s] = dir[s]
  BY <1>4, <1>5 DEF ClosedIn
<1>7. NamesApart(E)
  <2>1. \A s \in Slots : E[s] # None => dir[s] # None /\ E[s].name = dir[s].name
    BY <1>4, <1>5
  <2> QED BY <2>1, NamesStay
<1>8. TextsInv'
  BY <1>3, <1>5, <1>7 DEF TextsInv, TextsFor
<1>9. files' = files /\ writing' = writing
  BY <1>1, <1>3, <1>5, <1>6, <1>7, FilesUnmoved, FilesAre
<1> QED BY <1>8, <1>9 DEF Files!Repair

\* A new file leaves the others what they are.
LEMMA OthersStay ==
    ASSUME NEW D \in Dirs, NEW E \in Dirs, NamesApart(D), NamesApart(E),
           NEW L \in Links, NEW M \in Links, NEW T \in Datas, NEW U \in Datas,
           NEW s \in Slots, NEW n \in Names, NEW b, D[s] = None, E[s].name = n,
           \A t \in Slots \ {s} : E[t] = D[t], b \notin InUseIn(D, L),
           \A x \in Blocks \ {b} : M[x] = L[x], \A x \in Blocks \ {b} : U[x] = T[x]
    PROVE  \A m \in Names \ {n} : FilesIn(E, M, U)[m] = FilesIn(D, L, T)[m]
<1>1. PICK X : X = {n}
  OBVIOUS
<1>2. \A t \in ClosedIn(D) : t \in Slots \ {s} /\ E[t] = D[t] /\ t \in ClosedIn(E)
  BY DEF ClosedIn
<1>3. \A t \in ClosedIn(E) : t \in ClosedIn(D) \/ E[t].name = n
  BY DEF ClosedIn
<1>4. \A t \in ClosedIn(D) : \A x \in Chain(L, D[t].first) : x \in Blocks \ {b}
  BY InUseIs
<1>5. \A t \in ClosedIn(D) :
          D[t].name \notin X =>
              /\ t \in ClosedIn(E) /\ E[t].name = D[t].name /\ E[t].first = D[t].first
              /\ \A x \in Chain(L, D[t].first) : M[x] = L[x] /\ U[x] = T[x]
  BY <1>2, <1>4
<1>6. \A t \in ClosedIn(E) : E[t].name \notin X => t \in ClosedIn(D) /\ E[t].name = D[t].name
  BY <1>1, <1>2, <1>3
<1>7. \A m \in Names \ X : FilesIn(E, M, U)[m] = FilesIn(D, L, T)[m]
  BY <1>5, <1>6, FilesStay
<1> QED BY <1>1, <1>7

\* A file of one free block that the drive's own program enters.
LEMMA FileArrives ==
    ASSUME VdriveTypeOK, VdriveTypeOK', DriveInv, TextsInv, true_emulation,
           NEW s \in Slots, NEW n \in Names, NEW b \in Blocks, NEW bytes,
           dir[s] = None, Named(n) = {}, b \notin diskBam,
           dir' = [dir EXCEPT ![s] = Entry(n, TRUE, b)],
           link' = [link EXCEPT ![b] = None], data' = [data EXCEPT ![b] = bytes]
    PROVE  /\ OpenIn(chan) = {} /\ NamesApart(dir')
           /\ files[n] = None /\ OnlyChanges(n)
<1>1. /\ dir \in Dirs /\ link \in Links /\ data \in Datas /\ chan \in Chans
      /\ dir' \in Dirs /\ link' \in Links /\ data' \in Datas
      /\ NamesApart(dir)
  BY StateIs DEF VdriveTypeOK, Dirs, Links, Datas, Texts, TextsInv, TextsFor
<1>3. OpenIn(chan) = {} /\ b \notin InUseIn(dir, link)
  BY DEF DriveInv, BitmapsTrue
<1>4. PICK e \in Entries : e = Entry(n, TRUE, b) /\ e.name = n /\ e # None
  <2>1. PICK e : e = Entry(n, TRUE, b)
    OBVIOUS
  <2>2. TRUE \in BOOLEAN /\ b \in BlockOrNone
    BY NoneIs
  <2>3. e \in Entries /\ e.name = n
    BY <2>1, <2>2, EntryIn
  <2> QED BY <2>1, <2>3, NoneAssumption
<1>5. PICK E \in Dirs : E = dir' /\ E[s] = e /\ \A t \in Slots \ {s} : E[t] = dir[t]
  <2>1. dir' = [dir EXCEPT ![s] = e]
    BY <1>4
  <2> QED BY <1>1, <2>1 DEF Dirs
<1>6. PICK M \in Links : M = link' /\ \A x \in Blocks \ {b} : M[x] = link[x]
  BY <1>1 DEF Links
<1>7. PICK U \in Datas : U = data' /\ \A x \in Blocks \ {b} : U[x] = data[x]
  BY <1>1 DEF Datas
<1>8. \A t \in Slots : dir[t] # None => dir[t].name # n
  BY DEF Named
<1>9. NamesApart(E)
  <2>1. \A t \in Slots \ {s} : E[t] # None => E[t].name # n /\ E[t] = dir[t]
    BY <1>5, <1>8
  <2>2. \A t, u \in Slots \ {s} :
            E[t] # None /\ E[u] # None /\ E[t].name = E[u].name => t = u
    BY <1>1, <2>1 DEF NamesApart
  <2>3. \A t \in Slots : t = s \/ t \in Slots \ {s}
    OBVIOUS
  <2>4. E[s].name = n
    BY <1>4, <1>5
  <2> QED BY <2>1, <2>2, <2>3, <2>4 DEF NamesApart
<1>11. FilesIn(dir, link, data)[n] = None
  <2>1. \A t \in ClosedIn(dir) : dir[t].name # n
    BY <1>8 DEF ClosedIn
  <2> QED BY <2>1, NoFileIs
<1>12. \A m \in Names \ {n} : FilesIn(E, M, U)[m] = FilesIn(dir, link, data)[m]
  <2>1. /\ dir \in Dirs /\ link \in Links /\ data \in Datas
        /\ NamesApart(dir) /\ NamesApart(E) /\ E[s].name = n
    BY <1>1, <1>4, <1>5, <1>9
  <2>2. /\ \A t \in Slots \ {s} : E[t] = dir[t]
        /\ b \notin InUseIn(dir, link)
        /\ \A x \in Blocks \ {b} : M[x] = link[x]
        /\ \A x \in Blocks \ {b} : U[x] = data[x]
    BY <1>3, <1>5, <1>6, <1>7
  <2> QED BY <2>1, <2>2, OthersStay, SMTT(60)
<1>13. files' = FilesIn(E, M, U) /\ files = FilesIn(dir, link, data)
  BY <1>5, <1>6, <1>7, FilesAre
<1>14. OnlyChanges(n)
  <2>1. \A m \in Names \ {n} : files'[m] = files[m]
    BY <1>12, <1>13
  <2> QED BY <2>1, OneChanges, FilesFunctions DEF OnlyChanges
<1>15. files[n] = None
  BY <1>11, <1>13
<1> QED BY <1>3, <1>5, <1>9, <1>14, <1>15

LEMMA StoreSave ==
    ASSUME VdriveTypeOK, VdriveTypeOK', DriveInv, TextsInv,
           NEW s \in Slots, NEW n \in Names, NEW b \in Blocks, DriveSaves(s, n, b)
    PROVE  TextsInv' /\ Files!Operate
<1>1. /\ true_emulation /\ dir[s] = None /\ b \notin diskBam /\ chan' = chan /\ Named(n) = {}
      /\ link' = [link EXCEPT ![b] = None] /\ dir' = [dir EXCEPT ![s] = Entry(n, TRUE, b)]
      /\ data' = [data EXCEPT ![b] = <<<<opens + 1, 1>>>>]
  BY DEF DriveSaves
<1>2. PICK bytes : bytes = <<<<opens + 1, 1>>>>
  OBVIOUS
<1>3. /\ OpenIn(chan) = {} /\ NamesApart(dir')
      /\ files[n] = None /\ OnlyChanges(n)
  BY <1>1, <1>2, FileArrives
<1>4. TextsInv'
  BY <1>1, <1>3 DEF TextsInv, TextsFor
<1>5. writing' = writing
  BY <1>1, FilesAre
<1>6. Files!Arrive(n)
  BY <1>3, <1>5 DEF Files!Arrive, OnlyChanges
<1> QED BY <1>4, <1>6 DEF Files!Operate

\* A channel is opened with what its file holds so far.
LEMMA StoreBegins ==
    ASSUME VdriveTypeOK, VdriveTypeOK', DriveInv, TextsInv, NEW c \in Channels,
           NEW s \in Slots, NEW e \in Entries, NEW track \in BlockOrNone,
           NEW needsupdate \in BOOLEAN, NEW buffer \in Texts, NEW text \in Texts, NEW f,
           f = Channel(s, e, track, needsupdate, buffer, text), OpenChannel(c, f),
           NamesApart(dir'), dir'[s].name = e.name,
           \A t \in Slots \ {s} : dir'[t] = dir[t],
           \A d \in OpenIn(chan) : chan[d].slot # s,
           SoFar(link, data, f) = text,
           \/ text = << >> /\ files' = files
           \/ text = files[e.name] /\ files' = [files EXCEPT ![e.name] = None]
    PROVE  TextsInv' /\ Files!Operate
<1>1. /\ dir \in Dirs /\ link \in Links /\ data \in Datas /\ chan \in Chans
      /\ dir' \in Dirs /\ chan' \in Chans
  BY StateIs DEF VdriveTypeOK, Dirs, Chans
<1>2. /\ chan[c] = None /\ chan' = [chan EXCEPT ![c] = f]
      /\ last_code' = "OK" /\ link' = link /\ data' = data
  BY DEF OpenChannel
<1>3. /\ f.slot = s /\ f.entry = e /\ f.text = text /\ f.whole = TRUE
  BY DEF Channel
<1>4. PICK B \in Chans : B = chan' /\ B[c] = f /\ \A d \in Channels \ {c} : B[d] = chan[d]
  BY <1>1, <1>2 DEF Chans
<1>5. f \in Buffers
  BY <1>1, <1>3, ChannelIs DEF VdriveTypeOK, Texts
<1>6. PICK E \in Dirs : E = dir'
  BY <1>1
<1>7. Told(link, data, f) /\ f.entry.name = E[f.slot].name
  BY <1>3, <1>6, PartAll DEF Told
<1>8. TextsFor(E, link, data, B)
  <2>1. \A d \in OpenIn(chan) : chan[d].slot \in Slots \ {s}
    BY <1>1, HeldIs, BufferFields
  <2>2. \A d \in OpenIn(chan) \ {c} :
            /\ \A b \in OwnIn(link, chan[d]) : link[b] = link[b] /\ data[b] = data[b]
            /\ E[chan[d].slot].name = dir[chan[d].slot].name
    BY <1>6, <2>1
  <2>3. TextsFor(dir, link, data, chan) /\ NamesApart(E)
    BY <1>6 DEF TextsInv
  <2>4. c \in OpenIn(B) => Told(link, data, B[c]) /\ B[c].entry.name = E[B[c].slot].name
    BY <1>4, <1>7
  <2> QED BY <1>1, <1>4, <2>2, <2>3, <2>4, TextsStay
<1>9. TextsInv'
  BY <1>2, <1>4, <1>6, <1>8 DEF TextsInv
<1>10. PICK n \in Names : n = e.name
  BY DEF Entries
<1>11. PICK h : h = [name |-> n, text |-> text, whole |-> TRUE]
  OBVIOUS
<1>12. Handed(f) = h /\ h # None /\ h.text = text
  <2>1. h.text = text /\ f # None
    BY <1>5, <1>11, BufferFields
  <2>2. Handed(f) = h
    BY <1>3, <1>10, <1>11, <2>1 DEF Handed
  <2> QED BY <1>5, <2>1, <2>2, SomethingIs
<1>13. writing' = [writing EXCEPT ![c] = h]
  <2>1. HandedIn(B) = [HandedIn(chan) EXCEPT ![c] = Handed(B[c])]
    BY <1>1, <1>4, HandedChanges
  <2> QED BY <1>4, <1>12, <2>1, FilesAre
<1>14. writing[c] = None /\ writing'[c] = h
  <2>1. HandedIn(B)[c] = Handed(B[c]) /\ HandedIn(chan)[c] = None
    BY <1>1, <1>2, <1>4, HandedIs
  <2> QED BY <1>4, <1>12, <2>1, FilesAre
<1>15. Files!Begin(c, n)
  BY <1>2, <1>10, <1>11, <1>12, <1>13, <1>14 DEF Files!Begin
<1> QED BY <1>9, <1>10, <1>15 DEF Files!Operate

LEMMA StoreOpen ==
    ASSUME VdriveTypeOK, VdriveTypeOK', DriveInv, TextsInv, Careful,
           NEW c \in Channels, NEW s \in Slots, NEW n \in Names,
           OpenNew(c, n) \/ OpenReplace(c, s) \/ OpenAppend(c, s)
    PROVE  TextsInv' /\ Files!Operate
<1>1. /\ dir \in Dirs /\ link \in Links /\ data \in Datas /\ chan \in Chans /\ dir' \in Dirs
      /\ Sound(dir, link, chan) /\ NamesApart(dir)
  BY StateIs DEF VdriveTypeOK, Dirs, DriveInv, TextsInv, TextsFor
<1>2. << >> \in Texts /\ None \in BlockOrNone
  BY NoneIs DEF Texts
<1>3. link' = link /\ data' = data
  BY DEF OpenNew, OpenReplace, OpenAppend, OpenChannel
<1>4. CASE OpenNew(c, n)
  <2>1. PICK e : e = Entry(n, FALSE, None)
    OBVIOUS
  <2>2. PICK t \in Slots : /\ dir[t] = None
                           /\ OpenChannel(c, Channel(t, e, None, FALSE, << >>, << >>))
                           /\ dir' = [dir EXCEPT ![t] = e]
    BY <1>4, <2>1 DEF OpenNew
  <2>3. e \in Entries /\ e.name = n /\ e.closed = FALSE /\ e # None
    <3>1. e \in Entries /\ e # None
      BY <1>2, <2>1, EntryIn, NoneAssumption, ZenonT(60)
    <3> QED BY <2>1, <3>1 DEF Entry
  <2>4. PICK E \in Dirs : E = dir' /\ E[t] = e /\ \A u \in Slots \ {t} : E[u] = dir[u]
    BY <1>1, <2>2 DEF Dirs
  <2>5. NamesApart(E)
    <3>1. \A u \in Slots \ {t} : E[u] # None => E[u].name # n /\ E[u] = dir[u]
      BY <1>4, <2>4 DEF OpenNew, Named
    <3>2. \A u, v \in Slots \ {t} :
              E[u] # None /\ E[v] # None /\ E[u].name = E[v].name => u = v
      BY <1>1, <3>1 DEF NamesApart
    <3>3. \A u \in Slots : u = t \/ u \in Slots \ {t}
      OBVIOUS
    <3>4. E[t].name = n
      BY <2>3, <2>4
    <3> QED BY <3>1, <3>2, <3>3, <3>4 DEF NamesApart
  <2>6. \A d \in OpenIn(chan) : chan[d].slot # t
    BY <1>1, <2>2 DEF Sound, WritersApart, Writes
  <2>7. files' = files
    <3>1. ClosedIn(E) = ClosedIn(dir) /\ \A u \in ClosedIn(dir) : E[u] = dir[u]
      BY <2>2, <2>3, <2>4 DEF ClosedIn
    <3> QED BY <1>1, <1>3, <2>4, <2>5, <3>1, FilesUnmoved
  <2>8. PICK f : f = Channel(t, e, None, FALSE, << >>, << >>)
    OBVIOUS
  <2>9. SoFar(link, data, f) = << >>
    BY <2>8 DEF SoFar, Channel
  <2>10. /\ e \in Entries /\ OpenChannel(c, f)
         /\ NamesApart(dir') /\ dir'[t].name = e.name /\ \A u \in Slots \ {t} : dir'[u] = dir[u]
    BY <2>2, <2>3, <2>4, <2>5, <2>8
  <2>11. PICK empty \in Texts : empty = << >>
    BY <1>2
  <2>12. PICK needsupdate \in BOOLEAN : needsupdate = FALSE
    OBVIOUS
  <2>13. f = Channel(t, e, None, needsupdate, empty, empty) /\ SoFar(link, data, f) = empty
    BY <2>8, <2>9, <2>11, <2>12
  <2>14. empty = << >> /\ files' = files
    BY <2>7, <2>11
  <2> QED BY <1>2, <2>6, <2>10, <2>13, <2>14, StoreBegins
<1>5. CASE OpenReplace(c, s)
  <2>1. dir[s] # None /\ dir[s] \in Entries /\ dir' = dir /\ ~ Written(s)
    BY <1>5, SlotFields DEF OpenReplace, MayTouch
  <2>2. PICK f : f = Channel(s, dir[s], None, TRUE, << >>, << >>)
    OBVIOUS
  <2>3. OpenChannel(c, f)
    BY <1>5, <2>2 DEF OpenReplace
  <2>4. \A d \in OpenIn(chan) : chan[d].slot # s
    BY <2>1 DEF Written, OpenIn
  <2>5. files' = files
    BY <1>3, <2>1, FilesAre
  <2>6. SoFar(link, data, f) = << >>
    BY <2>2 DEF SoFar, Channel
  <2>7. PICK e \in Entries : e = dir[s]
    BY <2>1
  <2>8. /\ e \in Entries /\ NamesApart(dir') /\ dir'[s].name = e.name
        /\ \A u \in Slots \ {s} : dir'[u] = dir[u]
    BY <1>1, <2>1, <2>7
  <2>9. PICK empty \in Texts : empty = << >>
    BY <1>2
  <2>10. PICK needsupdate \in BOOLEAN : needsupdate = TRUE
    OBVIOUS
  <2>11. f = Channel(s, e, None, needsupdate, empty, empty) /\ SoFar(link, data, f) = empty
    BY <2>2, <2>6, <2>7, <2>9, <2>10
  <2>12. empty = << >> /\ files' = files
    BY <2>5, <2>9
  <2> QED BY <1>2, <2>3, <2>4, <2>8, <2>11, <2>12, StoreBegins
<1>6. CASE OpenAppend(c, s)
  <2>1. dir[s] # None /\ dir[s] \in Entries /\ dir[s].first \in BlockOrNone
        /\ dir[s].closed /\ ~ Written(s) /\ Ends(link, dir[s].first)
    BY <1>6, SlotFields DEF OpenAppend, MayTouch
  <2>2. PICK e, track, buffer, text :
               /\ e = [dir[s] EXCEPT !.closed = FALSE]
               /\ track = IF e.first = None THEN None ELSE LastOf(link, e.first)
               /\ buffer = IF track = None THEN << >> ELSE data[track]
               /\ text = Contents(link, data, e.first)
               /\ OpenChannel(c, Channel(s, e, track, FALSE, buffer, text))
               /\ dir' = [dir EXCEPT ![s] = e]
    BY <1>6, AppendIs
  <2>3. e \in Entries /\ e.first = dir[s].first /\ e.name = dir[s].name
        /\ e.closed = FALSE /\ e # None
    BY <2>1, <2>2, NoneAssumption DEF Entries
  <2>4. PICK first \in BlockOrNone : first = dir[s].first
    BY <2>1
  <2>5. track \in BlockOrNone /\ (track = None <=> first = None)
         /\ (track # None => track \in Chain(link, first) /\ link[track] = None)
    <3>1. CASE first = None
      BY <1>2, <2>2, <2>3, <2>4, <3>1
    <3>2. CASE first # None
      <4>1. /\ LastOf(link, first) \in Chain(link, first)
            /\ link[LastOf(link, first)] = None
            /\ Chain(link, first) \subseteq Blocks
        BY <1>1, <2>1, <2>4, <3>2, LastIs, ChainIs
      <4> QED BY <2>2, <2>3, <2>4, <3>2, <4>1, NoneIs
    <3> QED BY <3>1, <3>2
  <2>6. text \in Texts
    BY <1>1, <2>2, <2>3, <2>4, ContentsAreBytes DEF Links, Datas, Texts
  <2>7. buffer \in Texts
    BY <1>1, <1>2, <2>2, <2>5, NoneIs DEF Datas
  <2>8. PICK f : f = Channel(s, e, track, FALSE, buffer, text)
    OBVIOUS
  <2>9. f.track = track /\ f.buffer = buffer /\ FirstOf(f) = first
    BY <2>3, <2>4, <2>8 DEF Channel, FirstOf
  <2>10. SoFar(link, data, f) = text
    <3>1. CASE track = None
      <4>1. text = << >>
        BY <1>1, <2>2, <2>3, <2>4, <2>5, <3>1, NoContents
      <4> QED BY <2>2, <2>9, <3>1, <4>1 DEF SoFar
    <3>2. CASE track # None
      <4>1. track \in Blocks /\ link[track] = None
        BY <2>5, <3>2, NoneIs
      <4>2. Cut(link, track) = link /\ [data EXCEPT ![track] = buffer] = data
        <5>1. buffer = data[track]
          BY <2>2, <3>2
        <5> QED BY <1>1, <4>1, <5>1 DEF Cut, Links, Datas
      <4> QED BY <2>2, <2>3, <2>4, <2>9, <3>2, <4>2 DEF SoFar
    <3> QED BY <3>1, <3>2
  <2>11. PICK E \in Dirs : E = dir' /\ E[s] = e /\ \A t \in Slots \ {s} : E[t] = dir[t]
    BY <1>1, <2>2 DEF Dirs
  <2>12. NamesApart(E)
    <3>1. \A t \in Slots : E[t] # None => dir[t] # None /\ E[t].name = dir[t].name
      BY <2>1, <2>3, <2>11
    <3> QED BY <1>1, <3>1, NamesStay
  <2>13. \A d \in OpenIn(chan) : chan[d].slot # s
    BY <2>1 DEF Written, OpenIn
  <2>14. s \in ClosedIn(dir) /\ ClosedIn(E) = ClosedIn(dir) \ {s}
    BY <2>1, <2>3, <2>11 DEF ClosedIn
  <2>15. PICK m \in Names : m = e.name
    BY <2>3 DEF Entries
  <2>16. files[m] = text
    <3>1. FilesIn(dir, link, data)[dir[s].name] = Contents(link, data, dir[s].first)
      BY <1>1, <2>14, FileIs
    <3> QED BY <2>2, <2>3, <2>15, <3>1, FilesAre
  <2>17. files' = [files EXCEPT ![m] = None]
    BY <1>1, <1>3, <2>3, <2>11, <2>12, <2>14, <2>15, FileGone
  <2>18. /\ FALSE \in BOOLEAN /\ OpenChannel(c, f)
         /\ NamesApart(dir') /\ dir'[s].name = e.name /\ \A u \in Slots \ {s} : dir'[u] = dir[u]
    BY <2>2, <2>8, <2>11, <2>12
  <2>19. e \in Entries /\ track \in BlockOrNone
    BY <2>3, <2>5
  <2>20. text = files[e.name] /\ files' = [files EXCEPT ![e.name] = None]
    BY <2>15, <2>16, <2>17
  <2> QED BY <2>6, <2>7, <2>8, <2>10, <2>13, <2>18, <2>19, <2>20, StoreBegins
<1> QED BY <1>4, <1>5, <1>6

----------------------------------------------------------------------------
(* Writing.                                                                 *)

LEMMA WithFirstKeeps ==
    ASSUME NEW f \in Buffers, NEW b \in BlockOrNone
    PROVE  LET g == WithFirst(f, b)
           IN  /\ g.buffer = f.buffer /\ g.text = f.text /\ g.whole = f.whole
               /\ g.entry.name = f.entry.name
<1>1. f.needsupdate \in BOOLEAN /\ f.entry \in Entries
  BY BufferFields
<1>2. CASE f.needsupdate
  BY <1>2 DEF WithFirst, Buffers
<1>3. CASE ~ f.needsupdate
  <2> DEFINE e == [f.entry EXCEPT !.first = b]
             g == [f EXCEPT !.track = b, !.entry = e]
  <2>1. e.name = f.entry.name
    BY <1>1 DEF Entries
  <2>2. WithFirst(f, b) = g
    BY <1>3 DEF WithFirst
  <2> HIDE DEF e
  <2>3. g.buffer = f.buffer /\ g.text = f.text /\ g.whole = f.whole /\ g.entry = e
    BY DEF Buffers
  <2> HIDE DEF g
  <2> QED BY <2>1, <2>2, <2>3
<1> QED BY <1>1, <1>2, <1>3

LEMMA TakeGives ==
    ASSUME NEW f \in Buffers, NEW buffer \in Texts
    PROVE  /\ Byte(f) \in Bytes
           /\ LET g == Take(f, buffer)
              IN  /\ g.buffer = Append(buffer, Byte(f)) /\ g.text = Append(f.text, Byte(f))
                  /\ g.whole = f.whole
<1>1. f.id \in Nat /\ f.count \in Nat
  BY BufferFields
<1>2. Byte(f) \in Bytes
  BY <1>1 DEF Byte, Bytes
<1>3. PICK x, y, n : x = Append(buffer, Byte(f)) /\ y = Append(f.text, Byte(f)) /\ n = f.count + 1
  OBVIOUS
<1>4. PICK g : g = [f EXCEPT !.buffer = x, !.count = n, !.text = y]
  OBVIOUS
<1>5. g.buffer = x /\ g.text = y /\ g.whole = f.whole
  BY <1>4 DEF Buffers
<1>6. Take(f, buffer) = g
  BY <1>3, <1>4 DEF Take
<1> QED BY <1>2, <1>3, <1>5, <1>6

LEMMA RefuseGives ==
    ASSUME NEW f \in Buffers
    PROVE  LET g == Refuse(f)
           IN  g.buffer = << >> /\ g.text = f.text /\ g.whole = FALSE
<1>1. PICK g : g = [f EXCEPT !.buffer = << >>, !.whole = FALSE]
  OBVIOUS
<1>2. g.buffer = << >> /\ g.text = f.text /\ g.whole = FALSE
  BY <1>1 DEF Buffers
<1> QED BY <1>1, <1>2 DEF Refuse

LEMMA TrackKeeps ==
    ASSUME NEW f \in Buffers, NEW b \in BlockOrNone
    PROVE  LET g == [f EXCEPT !.track = b]
           IN  g.text = f.text /\ g.whole = f.whole
  BY DEF Buffers

LEMMA SoFarIn ==
    ASSUME NEW L \in Links, NEW T \in Datas, NEW f \in Buffers, EndsAtTrack(L, f)
    PROVE  SoFar(L, T, f) \in Texts
<1>1. PICK text \in Texts : SoFar(L, T, f) = text \o f.buffer
  <2>1. PICK text \in Texts : \A U \in Datas : \A g \in Buffers :
                   /\ g.track = f.track /\ FirstOf(g) = FirstOf(f)
                   /\ \A b \in OwnIn(L, f) \ {f.track} : U[b] = T[b]
                   => SoFar(L, U, g) = text \o g.buffer
    BY SoFarEnds
  <2> QED BY <2>1
<1>2. f.buffer \in Texts
  BY BufferFields DEF Texts
<1> QED BY <1>1, <1>2 DEF Texts

LEMMA OneSoFar ==
    ASSUME NEW L \in Links, NEW T \in Datas, NEW f \in Buffers, NEW b \in Blocks,
           f.track = b, FirstOf(f) = b
    PROVE  SoFar(L, T, f) = f.buffer
<1>1. f.buffer \in Texts /\ b # None
  BY BufferFields, NoneIs DEF Texts
<1>2. PICK P \in Links : P = Cut(L, b) /\ P[b] = None
  BY CutIn
<1>3. PICK U \in Datas : U = [T EXCEPT ![b] = f.buffer] /\ U[b] = f.buffer
  BY <1>1, DataWith
<1>4. Contents(P, U, b) = f.buffer
  BY <1>2, <1>3, OneBlock
<1> QED BY <1>1, <1>2, <1>3, <1>4 DEF SoFar

\* The buffer becomes a block of the file, and another block is begun.
LEMMA SoFarExtends ==
    ASSUME NEW L \in Links, NEW M \in Links, NEW T \in Datas, NEW U \in Datas,
           NEW g \in Buffers, NEW k \in Buffers, EndsAtTrack(L, g),
           g.track # None, k.track # None, k.track \notin OwnIn(L, g), FirstOf(k) = FirstOf(g),
           M[g.track] = k.track, \A x \in Blocks \ {g.track} : M[x] = L[x],
           U[g.track] = g.buffer, \A x \in Blocks \ {g.track} : U[x] = T[x]
    PROVE  SoFar(M, U, k) = SoFar(L, T, g) \o k.buffer
<1>1. PICK this \in Blocks, next \in Blocks :
          /\ g.track = this /\ k.track = next /\ this # None /\ next # None
          /\ next \notin OwnIn(L, g)
          /\ M[this] = next /\ \A x \in Blocks \ {this} : M[x] = L[x]
          /\ U[this] = g.buffer /\ \A x \in Blocks \ {this} : U[x] = T[x]
          /\ k.buffer \in Texts /\ g.buffer \in Texts
  BY NoneIs, BufferFields DEF Texts
<1>2. PICK P \in Links : /\ P = Cut(L, this) /\ P[this] = None
                         /\ \A x \in Blocks \ {this} : P[x] = L[x]
  BY CutIn
<1>3. PICK Q \in Links : /\ Q = Cut(M, next) /\ Q[next] = None
                         /\ \A x \in Blocks \ {next} : Q[x] = M[x]
  BY CutIn
<1>4. PICK W \in Datas : /\ W = [U EXCEPT ![next] = k.buffer] /\ W[next] = k.buffer
                         /\ \A x \in Blocks \ {next} : W[x] = U[x]
  <2>1. PICK held \in Texts : held = k.buffer
    BY <1>1
  <2>2. next \in Blocks
    OBVIOUS
  <2>3. PICK W : W = [U EXCEPT ![next] = held]
    OBVIOUS
  <2>4. W \in Datas /\ W[next] = held /\ \A x \in Blocks \ {next} : W[x] = U[x]
    BY <2>2, <2>3 DEF Datas
  <2> QED BY <2>1, <2>3, <2>4
<1>5. PICK first \in BlockOrNone : first = FirstOf(g)
  BY BufferFields
<1>6. OwnIn(L, g) = Chain(P, first) /\ this \in Chain(P, first) /\ OwnIn(L, g) \subseteq Blocks
  BY <1>1, <1>2, <1>5, OwnBlocks DEF OwnIn, EndsAtTrack
<1>7. next \in Blocks \ Chain(P, first) /\ this # next
  BY <1>1, <1>6
<1>8. Q[this] = next
  BY <1>1, <1>3, <1>7
<1>9. ASSUME NEW b \in Chain(P, first)
      PROVE  W[b] = U[b] /\ (b # this => Q[b] = P[b])
  <2>1. b \in Blocks \ {next}
    BY <1>6, <1>7
  <2> QED BY <1>1, <1>2, <1>3, <1>4, <2>1
<1>10. Contents(Q, W, first) = Contents(P, U, first) \o W[next]
  <2>1. \A b \in Chain(P, first) \ {this} : Q[b] = P[b]
    BY <1>9
  <2>2. \A b \in Chain(P, first) : W[b] = U[b]
    BY <1>9
  <2>3. P[this] = None /\ Q[next] = None /\ this \in Chain(P, first)
    BY <1>2, <1>3, <1>6
  <2> QED BY <1>7, <1>8, <2>1, <2>2, <2>3, ContentsExtend
<1>11. SoFar(L, T, g) = Contents(P, U, first)
  <2>1. [T EXCEPT ![this] = g.buffer] = U
    BY <1>1 DEF Datas
  <2> QED BY <1>1, <1>2, <1>5, <2>1 DEF SoFar
<1>12. SoFar(M, U, k) = Contents(Q, W, first)
  BY <1>1, <1>3, <1>4, <1>5 DEF SoFar
<1> QED BY <1>4, <1>10, <1>11, <1>12

LEMMA AppendEnds ==
    ASSUME NEW s \in Texts, NEW t \in Texts, NEW x \in Bytes
    PROVE  /\ s \o Append(t, x) = Append(s \o t, x) /\ s \o Append(<< >>, x) = Append(s, x)
           /\ Append(s, x) \in Texts /\ Append(s, x) # << >> /\ Last(Append(s, x)) = x
  BY DEF Texts, Last

\* What a channel is handed, and a byte that is refused.
LEMMA StorePuts ==
    ASSUME VdriveTypeOK, VdriveTypeOK', DriveInv, TextsInv,
           NEW c \in OpenIn(chan), NEW f \in Buffers, f = chan[c], NEW g \in Buffers,
           chan'[c] = g, \A d \in Channels \ {c} : chan'[d] = chan[d], dir' = dir,
           g.slot = f.slot, g.entry.name = f.entry.name,
           \A b \in (InUseIn(dir, link) \cup HeldIn(link, chan)) \ OwnIn(link, f) :
               link'[b] = link[b] /\ data'[b] = data[b],
           Told(link', data', g),
           \/ \E x \in Bytes : g.text = Append(f.text, x) /\ g.whole = f.whole
           \/ g.text = f.text /\ g.whole = FALSE /\ last_code' # "OK"
    PROVE  TextsInv' /\ Files!Operate
<1>1. /\ dir \in Dirs /\ link \in Links /\ data \in Datas /\ chan \in Chans
      /\ Sound(dir, link, chan) /\ TextsFor(dir, link, data, chan) /\ NamesApart(dir)
  BY StateIs DEF DriveInv, TextsInv, TextsFor
<1>2. c \in Channels
  BY DEF OpenIn
<1>3. PICK M \in Links : M = link'
  BY DEF VdriveTypeOK, Links
<1>4. PICK U \in Datas : U = data'
  BY DEF VdriveTypeOK, Datas, Texts
<1>5. PICK B \in Chans : B = chan' /\ B[c] = g /\ \A d \in Channels \ {c} : B[d] = chan[d]
  <2>1. chan' \in Chans
    BY DEF VdriveTypeOK, Chans
  <2> QED BY <1>1, <1>2, <2>1 DEF Chans
<1>6. \A b \in (InUseIn(dir, link) \cup HeldIn(link, chan)) \ OwnIn(link, f) :
          M[b] = link[b] /\ U[b] = data[b]
  BY <1>3, <1>4
<1>7. \A d \in OpenIn(chan) \ {c} :
          /\ \A b \in OwnIn(link, chan[d]) : M[b] = link[b] /\ U[b] = data[b]
          /\ dir[chan[d].slot].name = dir[chan[d].slot].name
  <2> SUFFICES ASSUME NEW d \in OpenIn(chan) \ {c}, NEW b \in OwnIn(link, chan[d])
               PROVE  M[b] = link[b] /\ U[b] = data[b]
    OBVIOUS
  <2>1. b \in HeldIn(link, chan)
    BY <1>1, HeldIs
  <2>2. b \notin OwnIn(link, f)
    BY <1>1 DEF Sound, WritersApart
  <2> QED BY <1>6, <2>1, <2>2
<1>8. Told(M, U, g) /\ g.entry.name = dir[g.slot].name
  BY <1>1, <1>3, <1>4 DEF TextsFor
<1>9. TextsFor(dir, M, U, B)
  <2>1. c \in OpenIn(B) => Told(M, U, B[c]) /\ B[c].entry.name = dir[B[c].slot].name
    BY <1>5, <1>8
  <2>2. \A d \in Channels \ {c} : B[d] = chan[d]
    BY <1>5
  <2> QED BY <1>1, <1>7, <2>1, <2>2, TextsStay
<1>10. TextsInv'
  BY <1>3, <1>4, <1>5, <1>9 DEF TextsInv
<1>11. files' = files
  <2>1. ASSUME NEW b \in InUseIn(dir, link)
        PROVE  link'[b] = link[b] /\ data'[b] = data[b]
    <3>1. b \notin OwnIn(link, f)
      BY <1>1 DEF Sound, WritersApart
    <3> QED BY <3>1
  <2> QED BY <1>1, <2>1, FilesKept
<1>12. PICK w : w = writing
  OBVIOUS
<1>13. PICK h : h = Handed(f) /\ h # None
                /\ h = [name |-> f.entry.name, text |-> f.text, whole |-> f.whole]
  BY BufferFields, SomethingIs DEF Handed
<1>14. PICK k : k = Handed(g) /\ k # None
                /\ k = [name |-> f.entry.name, text |-> g.text, whole |-> g.whole]
  BY BufferFields, SomethingIs DEF Handed
<1>15. writing' = [w EXCEPT ![c] = k]
  <2>1. HandedIn(B) = [HandedIn(chan) EXCEPT ![c] = Handed(B[c])]
    BY <1>1, <1>2, <1>5, HandedChanges
  <2> QED BY <1>5, <1>12, <1>14, <2>1, FilesAre
<1>16. w[c] = h /\ writing'[c] = k
  <2>1. HandedIn(B)[c] = Handed(B[c]) /\ HandedIn(chan)[c] = Handed(chan[c])
    BY <1>1, <1>2, <1>5, HandedIs
  <2> QED BY <1>5, <1>12, <1>13, <1>14, <2>1, FilesAre
<1>17. Files!Put(c)
  <2>1. ASSUME NEW x \in Bytes, g.text = Append(f.text, x), g.whole = f.whole
        PROVE  /\ k.text # << >>
               /\ writing' = [w EXCEPT ![c].text = Append(@, Last(k.text))]
    <3>1. k.text # << >> /\ Last(k.text) = x
      <4>1. PICK t \in Texts : t = f.text
        BY BufferFields DEF Texts
      <4>2. k.text = Append(t, x)
        BY <1>14, <2>1, <4>1
      <4>3. Append(t, x) # << >> /\ Last(Append(t, x)) = x
        BY AppendEnds
      <4> QED BY <4>2, <4>3
    <3>2. k = [h EXCEPT !.text = Append(h.text, x)]
      <4>1. PICK n, t, u, e : n = f.entry.name /\ t = f.text /\ u = Append(t, x) /\ e = f.whole
        OBVIOUS
      <4>2. /\ h = [name |-> n, text |-> t, whole |-> e] /\ h.text = t
            /\ k = [name |-> n, text |-> u, whole |-> e]
        BY <1>13, <1>14, <2>1, <4>1
      <4>3. [h EXCEPT !.text = u] = k
        BY <4>2, SMT
      <4> QED BY <4>1, <4>2, <4>3
    <3> QED BY <1>15, <1>16, <3>1, <3>2
  <2>2. ASSUME g.text = f.text, g.whole = FALSE
        PROVE  writing' = [w EXCEPT ![c].whole = FALSE]
    <3>1. k = [h EXCEPT !.whole = g.whole]
      <4>1. PICK n, t, e, u : n = f.entry.name /\ t = f.text /\ e = f.whole /\ u = g.whole
        OBVIOUS
      <4>2. /\ h = [name |-> n, text |-> t, whole |-> e] /\ h.text = t
            /\ k = [name |-> n, text |-> t, whole |-> u]
        BY <1>13, <1>14, <2>2, <4>1
      <4>3. [h EXCEPT !.whole = u] = k
        BY <4>2, SMT
      <4> QED BY <4>1, <4>2, <4>3
    <3>2. g.whole \in BOOLEAN
      BY BufferFields
    <3> QED BY <1>15, <1>16, <2>2, <3>1, <3>2
  <2>3. writing[c] # None /\ writing'[c] # None /\ writing'[c] = k
    BY <1>12, <1>13, <1>14, <1>16
  <2>4. \/ writing'[c].text # << >>
           /\ writing' = [writing EXCEPT ![c].text = Append(@, Last(writing'[c].text))]
        \/ writing' = [writing EXCEPT ![c].whole = FALSE] /\ last_code' # "OK"
    BY <1>12, <2>1, <2>2, <2>3
  <2> QED BY <1>11, <2>3, <2>4 DEF Files!Put, Files!Last, Last
<1> QED BY <1>2, <1>10, <1>17 DEF Files!Operate

LEMMA StoreWrite ==
    ASSUME VdriveTypeOK, VdriveTypeOK', DriveInv, TextsInv, NEW c \in Channels,
           WriteByte(c) \/ WriteBlock(c) \/ WriteRefused(c)
    PROVE  TextsInv' /\ Files!Operate
<1>1. /\ dir \in Dirs /\ link \in Links /\ data \in Datas /\ chan \in Chans
      /\ Sound(dir, link, chan) /\ TextsFor(dir, link, data, chan) /\ bam \in SUBSET Blocks
      /\ link' \in Links /\ data' \in Datas
  BY StateIs DEF DriveInv, TextsInv, VdriveTypeOK, Links, Datas, Texts
<1>2. /\ ~ true_emulation /\ c \in OpenIn(chan) /\ dir' = dir
  BY DEF WriteByte, WriteBlock, WriteRefused, CanWrite, Served, OpenIn
<1>3. PICK f \in Buffers : f = chan[c]
  BY <1>1, <1>2, HeldIs
<1>4. EndsAtTrack(link, f) /\ Told(link, data, f)
  BY <1>1, <1>2, <1>3 DEF Sound, WritersApart, TextsFor
<1>5. << >> \in Texts /\ << >> \in Seq(Bytes) /\ f.buffer \in Texts /\ f.buffer \in Seq(Bytes)
      /\ f.text \in Texts /\ f.track \in BlockOrNone /\ f.whole \in BOOLEAN
  BY BufferFields DEF Texts
<1>6. PICK part \in Texts : /\ part = SoFar(link, data, f)
                            /\ Files!PartOf(part, f.text) /\ (f.whole => part = f.text)
  BY <1>1, <1>4, SoFarIn DEF Told
\* What every case comes to: a byte is told, or it is refused.
<1>7. ASSUME NEW g \in Buffers, NEW x \in Bytes, chan' = [chan EXCEPT ![c] = g],
             g.slot = f.slot, g.entry.name = f.entry.name,
             \A b \in (InUseIn(dir, link) \cup HeldIn(link, chan)) \ OwnIn(link, f) :
                 link'[b] = link[b] /\ data'[b] = data[b],
             SoFar(link', data', g) = Append(part, x),
             g.text = Append(f.text, x), g.whole = f.whole
      PROVE  TextsInv' /\ Files!Operate
  <2>1. chan'[c] = g /\ \A d \in Channels \ {c} : chan'[d] = chan[d]
    BY <1>1, <1>7 DEF Chans
  <2>2. Told(link', data', g)
    <3>1. Files!PartOf(Append(part, x), Append(f.text, x))
      BY <1>5, <1>6, PartGrows
    <3> QED BY <1>6, <1>7, <3>1 DEF Told
  <2> QED BY <1>2, <1>3, <1>7, <2>1, <2>2, StorePuts
<1>8. ASSUME NEW g \in Buffers, chan' = [chan EXCEPT ![c] = g], link' = link, data' = data,
             g.slot = f.slot, g.entry.name = f.entry.name,
             Files!PartOf(SoFar(link, data, g), f.text),
             g.text = f.text, g.whole = FALSE, last_code' = SetError("DISK_FULL")
      PROVE  TextsInv' /\ Files!Operate
  <2>1. chan'[c] = g /\ \A d \in Channels \ {c} : chan'[d] = chan[d]
    BY <1>1, <1>8 DEF Chans
  <2>2. last_code' # "OK"
    BY <1>8 DEF SetError
  <2>3. Told(link', data', g)
    BY <1>8 DEF Told
  <2>4. \A b \in (InUseIn(dir, link) \cup HeldIn(link, chan)) \ OwnIn(link, f) :
            link'[b] = link[b] /\ data'[b] = data[b]
    BY <1>8
  <2> QED BY <1>2, <1>3, <1>8, <2>1, <2>2, <2>3, <2>4, StorePuts
<1>9. PICK before \in Texts : \A g \in Buffers :
          g.track = f.track /\ FirstOf(g) = FirstOf(f)
              => SoFar(link, data, g) = before \o g.buffer
  <2>1. PICK text \in Texts : \A U \in Datas : \A g \in Buffers :
                   /\ g.track = f.track /\ FirstOf(g) = FirstOf(f)
                   /\ \A b \in OwnIn(link, f) \ {f.track} : U[b] = data[b]
                   => SoFar(link, U, g) = text \o g.buffer
    BY <1>1, <1>4, SoFarEnds
  <2> QED BY <1>1, <2>1
<1>10. part = before \o f.buffer
  BY <1>6, <1>9
<1>11. CASE WriteByte(c)
  <2>1. PICK g \in Buffers : g = Take(f, f.buffer)
    BY <1>5, TakeIs
  <2>2. /\ g.slot = f.slot /\ g.track = f.track /\ FirstOf(g) = FirstOf(f)
        /\ g.entry.name = f.entry.name
    BY <1>5, <2>1, TakeIs
  <2>3. PICK x \in Bytes : /\ g.buffer = Append(f.buffer, x) /\ g.text = Append(f.text, x)
                           /\ g.whole = f.whole
    BY <1>5, <2>1, TakeGives
  <2>4. chan' = [chan EXCEPT ![c] = g] /\ link' = link /\ data' = data
    BY <1>3, <1>11, <2>1 DEF WriteByte
  <2>5. SoFar(link, data, g) = Append(part, x)
    <3>1. PICK held \in Texts : held = f.buffer
      BY <1>5
    <3>2. SoFar(link, data, g) = before \o Append(held, x) /\ part = before \o held
      BY <1>9, <1>10, <2>2, <2>3, <3>1
    <3>3. before \o Append(held, x) = Append(before \o held, x)
      BY AppendEnds
    <3> QED BY <3>2, <3>3
  <2> QED BY <1>7, <2>2, <2>3, <2>4, <2>5
<1>12. CASE WriteRefused(c)
  <2>1. last_code' = SetError("DISK_FULL") /\ link' = link /\ data' = data
    BY <1>12 DEF WriteRefused
  <2>2. CASE chan' = [chan EXCEPT ![c] = Refuse(f)]
    <3>1. PICK g \in Buffers : g = Refuse(f)
      BY RefuseIs
    <3>2. /\ g.slot = f.slot /\ g.track = f.track /\ FirstOf(g) = FirstOf(f)
          /\ g.entry.name = f.entry.name
      BY <3>1, RefuseIs
    <3>3. g.buffer = << >> /\ g.text = f.text /\ g.whole = FALSE
      BY <3>1, RefuseGives
    <3>4. SoFar(link, data, g) = before
      <4>1. SoFar(link, data, g) = before \o << >>
        BY <1>9, <3>2, <3>3
      <4> QED BY <4>1 DEF Texts
    <3>5. Files!PartOf(before, f.text)
      BY <1>5, <1>6, <1>10, PartShrinks
    <3> QED BY <1>8, <2>1, <2>2, <3>1, <3>2, <3>3, <3>4, <3>5
  <2>3. ASSUME NEW b \in Blocks, chan' = [chan EXCEPT ![c] = Refuse(WithFirst(f, b))]
        PROVE  TextsInv' /\ Files!Operate
    <3>1. b \in BlockOrNone
      BY NoneIs
    <3>2. PICK h \in Buffers : h = WithFirst(f, b)
      BY <3>1, WithFirstIs
    <3>3. /\ h.slot = f.slot /\ h.track = b /\ FirstOf(h) = b /\ h.text = f.text
          /\ h.entry.name = f.entry.name
      BY <3>1, <3>2, WithFirstIs, WithFirstKeeps
    <3>4. PICK g \in Buffers : g = Refuse(h)
      BY RefuseIs
    <3>5. /\ g.slot = f.slot /\ g.track = b /\ FirstOf(g) = b /\ g.entry.name = f.entry.name
      BY <3>3, <3>4, RefuseIs
    <3>6. g.buffer = << >> /\ g.text = f.text /\ g.whole = FALSE
      BY <3>3, <3>4, RefuseGives
    <3>7. SoFar(link, data, g) = << >>
      BY <1>1, <3>5, <3>6, OneSoFar
    <3>8. Files!PartOf(<< >>, f.text)
      BY <1>5, PartAll
    <3>9. chan' = [chan EXCEPT ![c] = g]
      BY <2>3, <3>2, <3>4
    <3> QED BY <1>8, <2>1, <3>5, <3>6, <3>7, <3>8, <3>9
  <2> QED BY <1>3, <1>12, <2>2, <2>3 DEF WriteRefused
<1>13. CASE WriteBlock(c)
  <2>1. PICK this \in IF f.track = None THEN Blocks \ bam ELSE {f.track} :
          \E next \in Blocks \ (bam \cup {b \in {this} : f.track = None}) :
            /\ LET g == IF f.track = None THEN WithFirst(f, this) ELSE f
               IN  chan' = [chan EXCEPT ![c] = Take([g EXCEPT !.track = next], << >>)]
            /\ link' = [link EXCEPT ![this] = next]
            /\ data' = [data EXCEPT ![this] = f.buffer]
    BY <1>3, <1>13 DEF WriteBlock
  <2>2. PICK next \in Blocks \ (bam \cup {b \in {this} : f.track = None}) :
            /\ LET g == IF f.track = None THEN WithFirst(f, this) ELSE f
               IN  chan' = [chan EXCEPT ![c] = Take([g EXCEPT !.track = next], << >>)]
            /\ link' = [link EXCEPT ![this] = next]
            /\ data' = [data EXCEPT ![this] = f.buffer]
    BY <2>1
  <2>3. PICK UH : UH = InUseIn(dir, link) \cup HeldIn(link, chan) /\ UH \subseteq bam
    BY <1>2 DEF DriveInv, BitmapsTrue
  <2>4. /\ this \in Blocks /\ next \in Blocks /\ this # next /\ this # None /\ next # None
        /\ this \in BlockOrNone /\ next \in BlockOrNone /\ next \notin UH
        /\ (f.track = None => this \notin UH) /\ (f.track # None => this = f.track)
    <3>1. f.track # None => f.track \in bam
      BY <1>1, <1>2, <1>3, <1>4, <2>3, HeldIs DEF EndsAtTrack
    <3>2. this \in Blocks /\ (f.track # None => this = f.track) /\ (f.track = None => this \notin bam)
      BY <1>5, <2>1, NoneIs
    <3>3. next \in Blocks /\ next \notin bam /\ (f.track = None => next # this)
      BY <2>2
    <3> QED BY <2>3, <3>1, <3>2, <3>3, NoneIs
  <2>5. PICK g \in Buffers : g = IF f.track = None THEN WithFirst(f, this) ELSE f
    BY <2>4, WithFirstIs
  <2>6. /\ g.slot = f.slot /\ g.track = this /\ g.entry.name = f.entry.name
        /\ g.buffer = f.buffer /\ g.text = f.text /\ g.whole = f.whole
        /\ EndsAtTrack(link, g) /\ SoFar(link, data, g) = part
        /\ OwnIn(link, g) \subseteq UH \cup {this}
    <3>1. CASE f.track = None
      <4>1. g = WithFirst(f, this)
        BY <2>5, <3>1
      <4>2. /\ g.slot = f.slot /\ g.track = this /\ FirstOf(g) = this
        BY <2>4, <4>1, WithFirstIs
      <4>3. /\ g.entry.name = f.entry.name
            /\ g.buffer = f.buffer /\ g.text = f.text /\ g.whole = f.whole
        BY <2>4, <4>1, WithFirstKeeps
      <4>4. EndsAtTrack(link, g) /\ OwnIn(link, g) = {this}
        BY <1>1, <2>4, <4>2, FreshOwn
      <4>5. SoFar(link, data, g) = g.buffer
        BY <1>1, <2>4, <4>2, OneSoFar
      <4>6. part = f.buffer
        BY <1>6, <3>1 DEF SoFar
      <4> QED BY <4>2, <4>3, <4>4, <4>5, <4>6
    <3>2. CASE f.track # None
      <4>1. g = f
        BY <2>5, <3>2
      <4>2. OwnIn(link, f) \subseteq UH
        BY <1>1, <1>2, <1>3, <2>3, HeldIs
      <4> QED BY <1>4, <1>6, <2>4, <3>2, <4>1, <4>2
    <3> QED BY <3>1, <3>2
  <2>7. PICK h \in Buffers : h = [g EXCEPT !.track = next]
    BY <2>4, TrackIs
  <2>8. /\ h.slot = f.slot /\ h.track = next /\ FirstOf(h) = FirstOf(g)
        /\ h.entry.name = f.entry.name /\ h.text = f.text /\ h.whole = f.whole
    BY <2>4, <2>6, <2>7, TrackIs, TrackKeeps
  <2>9. PICK k \in Buffers : k = Take(h, << >>)
    BY <1>5, TakeIs
  <2>10. /\ k.slot = f.slot /\ k.track = next /\ FirstOf(k) = FirstOf(g)
         /\ k.entry.name = f.entry.name
    BY <1>5, <2>8, <2>9, TakeIs
  <2>11. PICK x \in Bytes : /\ k.buffer = Append(<< >>, x) /\ k.text = Append(f.text, x)
                            /\ k.whole = f.whole
    BY <1>5, <2>8, <2>9, TakeGives, SMTT(30)
  <2>12. PICK M \in Links : /\ M = link' /\ M[this] = next
                            /\ \A b \in Blocks \ {this} : M[b] = link[b]
    BY <1>1, <2>2, <2>4 DEF Links
  <2>13. PICK U \in Datas : /\ U = data' /\ U[this] = g.buffer
                            /\ \A b \in Blocks \ {this} : U[b] = data[b]
    BY <1>1, <2>2, <2>4, <2>6 DEF Datas
  <2>14. SoFar(M, U, k) = part \o k.buffer
    <3>1. g.track # None /\ k.track # None /\ k.track \notin OwnIn(link, g)
      BY <2>4, <2>6, <2>10
    <3>2. M[g.track] = k.track /\ \A b \in Blocks \ {g.track} : M[b] = link[b]
      BY <2>6, <2>10, <2>12
    <3>3. U[g.track] = g.buffer /\ \A b \in Blocks \ {g.track} : U[b] = data[b]
      BY <2>6, <2>13
    <3>4. /\ link \in Links /\ data \in Datas /\ EndsAtTrack(link, g)
          /\ FirstOf(k) = FirstOf(g)
      BY <1>1, <2>6, <2>10
    <3>5. SoFar(M, U, k) = SoFar(link, data, g) \o k.buffer
      BY <3>1, <3>2, <3>3, <3>4, SoFarExtends
    <3> QED BY <2>6, <3>5
  <2>15. SoFar(link', data', k) = Append(part, x)
    BY <1>5, <2>11, <2>12, <2>13, <2>14, AppendEnds
  <2>16. \A b \in UH \ OwnIn(link, f) : link'[b] = link[b] /\ data'[b] = data[b]
    <3>1. this \in UH => this \in OwnIn(link, f)
      BY <1>4, <2>4 DEF EndsAtTrack
    <3>2. UH \subseteq Blocks
      BY <1>1, <2>3
    <3> QED BY <2>12, <2>13, <3>1, <3>2
  <2>17. chan' = [chan EXCEPT ![c] = k]
    BY <2>2, <2>5, <2>7, <2>9
  <2> QED BY <1>7, <2>3, <2>10, <2>11, <2>15, <2>16, <2>17
<1> QED BY <1>11, <1>12, <1>13

----------------------------------------------------------------------------
(* Closing.                                                                 *)

LEMMA ClosingName ==
    ASSUME NEW f \in Buffers
    PROVE  Closing(f).name = f.entry.name
  BY DEF Closing, Entry

\* What a file is when it is closed: what its channel made of it so far.
LEMMA ClosedText ==
    ASSUME NEW L \in Links, NEW T \in Datas, NEW g \in Buffers, NEW f \in Buffers,
           NEW b \in Blocks, f = (IF g.track = None THEN WithFirst(g, b) ELSE g),
           g.track # None => b = g.track,
           NEW M \in Links, M = Cut(L, b),
           NEW U \in Datas, U[b] = f.buffer, \A x \in Blocks \ {b} : U[x] = T[x]
    PROVE  Contents(M, U, FirstOf(f)) = SoFar(L, T, g)
<1>1. b \in BlockOrNone /\ b # None
  BY NoneIs
<1>2. CASE g.track = None
  <2>1. FirstOf(f) = b /\ f.buffer = g.buffer
    BY <1>1, <1>2, WithFirstIs
  <2>2. M[b] = None
    BY CutIn
  <2>3. Contents(M, U, b) = U[b]
    BY <2>2, OneBlock
  <2> QED BY <1>2, <2>1, <2>3 DEF SoFar
<1>3. CASE g.track # None
  <2>1. f = g /\ b = g.track
    BY <1>3
  <2>2. [T EXCEPT ![b] = g.buffer] = U
    BY <2>1 DEF Datas
  <2> QED BY <1>3, <2>1, <2>2 DEF SoFar
<1> QED BY <1>2, <1>3

\* The write of the last block touches no block but the channel's own.
LEMMA FlushKeeps ==
    ASSUME VdriveTypeOK, VdriveTypeOK', DriveInv, ~ true_emulation, NEW c \in OpenIn(chan),
           NEW b \in LastBlock(chan[c]), Flush(c, b)
    PROVE  /\ b \in BlockOrNone /\ b \notin InUseIn(dir, link)
           /\ \A x \in Blocks \ {b} : link'[x] = link[x] /\ data'[x] = data[x]
           /\ \A d \in OpenIn(chan) \ {c} : b \notin OwnIn(link, chan[d])
<1>1. /\ dir \in Dirs /\ link \in Links /\ data \in Datas /\ chan \in Chans
      /\ Sound(dir, link, chan)
  BY StateIs DEF DriveInv
<1>2. PICK g \in Buffers : g = chan[c]
  BY <1>1, HeldIs
<1>3. /\ EndsAtTrack(link, g) /\ OwnIn(link, g) \cap InUseIn(dir, link) = {}
      /\ \A d \in OpenIn(chan) \ {c} : OwnIn(link, chan[d]) \cap OwnIn(link, g) = {}
  BY <1>1, <1>2 DEF Sound, WritersApart
<1>4. b \in BlockOrNone /\ (g.track # None => b = g.track)
      /\ (g.track = None => b = None \/ b \notin bam)
  BY <1>2, NoneIs, BufferFields DEF LastBlock
<1>5. InUseIn(dir, link) \cup HeldIn(link, chan) \subseteq bam
  BY DEF DriveInv, BitmapsTrue
<1>6. None \notin Blocks /\ InUseIn(dir, link) \subseteq Blocks
      /\ \A d \in OpenIn(chan) : /\ OwnIn(link, chan[d]) \subseteq HeldIn(link, chan)
                                 /\ OwnIn(link, chan[d]) \subseteq Blocks
  BY <1>1, NoneIs, InUseIs, HeldIs
<1>7. b \notin InUseIn(dir, link) /\ \A d \in OpenIn(chan) \ {c} : b \notin OwnIn(link, chan[d])
  BY <1>3, <1>4, <1>5, <1>6 DEF EndsAtTrack
<1>8. \A x \in Blocks \ {b} : link'[x] = link[x] /\ data'[x] = data[x]
  BY <1>1 DEF Flush, Links, Datas
<1> QED BY <1>4, <1>7, <1>8

\* What a close makes of the files, with the bitmap or before it.
LEMMA FileCloses ==
    ASSUME VdriveTypeOK, VdriveTypeOK', DriveInv, TextsInv, ~ true_emulation,
           NEW c \in OpenIn(chan), NEW b \in LastBlock(chan[c]), Flush(c, b),
           dir' = [dir EXCEPT ![Flushed(c, b).slot] = Closing(Flushed(c, b))],
           NEW g \in Buffers, g = chan[c], NEW n \in Names, n = g.entry.name
    PROVE  /\ NamesApart(dir')
           /\ \A d \in OpenIn(chan) \ {c} : dir'[chan[d].slot] = dir[chan[d].slot]
           /\ OnlyChanges(n)
           /\ files'[n] \in Texts /\ Files!PartOf(files'[n], g.text)
           /\ b # None /\ g.whole = TRUE => files'[n] = g.text
<1>1. /\ dir \in Dirs /\ link \in Links /\ data \in Datas /\ chan \in Chans
      /\ Sound(dir, link, chan) /\ TextsFor(dir, link, data, chan) /\ NamesApart(dir)
  BY StateIs DEF DriveInv, TextsInv, TextsFor
<1>4. LET f == IF g.track = None THEN WithFirst(g, b) ELSE g
      IN  /\ IF b = None THEN link' = link /\ data' = data
             ELSE link' = [link EXCEPT ![b] = None] /\ data' = [data EXCEPT ![b] = f.buffer]
          /\ dir' = [dir EXCEPT ![f.slot] = Closing(f)]
  BY DEF Flush, Flushed
<1>5. g.track \in BlockOrNone /\ g.slot \in Slots /\ g.text \in Texts /\ g.whole \in BOOLEAN
  BY BufferFields DEF Texts
<1>6. Told(link, data, g) /\ g.entry.name = dir[g.slot].name
  BY <1>1 DEF TextsFor
<1>7. EndsAtTrack(link, g) /\ dir[g.slot] # None
  BY <1>1 DEF Sound, WritersApart, Writes
<1>8. b \in BlockOrNone /\ (g.track # None => b = g.track)
  BY <1>5, NoneIs DEF LastBlock
<1>10. None \notin Blocks /\ InUseIn(dir, link) \subseteq Blocks
  BY <1>1, NoneIs, InUseIs
<1>11. b \notin InUseIn(dir, link)
  BY FlushKeeps
<1>12. ASSUME NEW d \in OpenIn(chan) \ {c}
       PROVE  chan[d].slot \in Slots \ {g.slot}
  <2>1. chan[d].slot # g.slot
    BY <1>1 DEF Sound, WritersApart
  <2>2. chan[d].slot \in Slots
    BY <1>1, HeldIs, BufferFields
  <2> QED BY <2>1, <2>2
<1>13. PICK f \in Buffers : f = IF g.track = None THEN WithFirst(g, b) ELSE g
  BY <1>8, WithFirstIs
<1>14. f.slot = g.slot /\ f.entry.name = g.entry.name
  <2>1. CASE g.track = None
    BY <1>8, <1>13, <2>1, WithFirstIs
  <2>2. CASE g.track # None
    BY <1>13, <2>2
  <2> QED BY <2>1, <2>2
<1>16. PICK e \in Entries : e = Closing(f) /\ e.closed /\ e.first = FirstOf(f) /\ e.name = n
                            /\ e # None
  <2>1. /\ Closing(f) \in Entries /\ Closing(f).closed /\ Closing(f).first = FirstOf(f)
        /\ Closing(f).name = n
    BY <1>14, ClosingIs, ClosingName
  <2> QED BY <2>1, NoneAssumption
<1>17. PICK E \in Dirs : E = dir' /\ E[g.slot] = e /\ \A s \in Slots \ {g.slot} : E[s] = dir[s]
  <2>1. dir' = [dir EXCEPT ![g.slot] = e]
    BY <1>4, <1>13, <1>14, <1>16
  <2> QED BY <1>1, <1>5, <2>1 DEF Dirs
<1>18. PICK M \in Links : M = link' /\ M = IF b = None THEN link ELSE Cut(link, b)
  <2>1. link' \in Links
    BY DEF VdriveTypeOK, Links
  <2> QED BY <1>4, <2>1 DEF Cut
<1>19. PICK U \in Datas : /\ U = data' /\ (b = None => U = data)
                          /\ (b # None => U[b] = f.buffer)
                          /\ \A x \in Blocks \ {b} : U[x] = data[x]
  <2>1. data' \in Datas
    BY DEF VdriveTypeOK, Datas, Texts
  <2>2. data' = IF b = None THEN data ELSE [data EXCEPT ![b] = f.buffer]
    BY <1>4, <1>13
  <2> QED BY <1>1, <1>8, <2>1, <2>2, NoneIs DEF Datas
<1>20. \A x \in Blocks \ {b} : M[x] = link[x] /\ U[x] = data[x]
  <2>1. b # None => b \in Blocks
    BY <1>8, NoneIs
  <2> QED BY <1>1, <1>18, <1>19, <2>1, CutIn
<1>22. NamesApart(E)
  <2>1. \A s \in Slots : E[s] # None => dir[s] # None /\ E[s].name = dir[s].name
    BY <1>6, <1>7, <1>16, <1>17
  <2> QED BY <1>1, <2>1, NamesStay
<1>24. FilesIn(E, M, U)[n] = Contents(M, U, FirstOf(f))
  <2>1. g.slot \in ClosedIn(E)
    BY <1>5, <1>16, <1>17 DEF ClosedIn
  <2>2. FilesIn(E, M, U)[E[g.slot].name] = Contents(M, U, E[g.slot].first)
    BY <1>22, <2>1, FileIs
  <2> QED BY <1>16, <1>17, <2>2
<1>25. \A m \in Names \ {n} : FilesIn(E, M, U)[m] = FilesIn(dir, link, data)[m]
  <2>1. PICK X : X = {n}
    OBVIOUS
  <2>2. ASSUME NEW s \in ClosedIn(dir), dir[s].name \notin X
        PROVE  /\ s \in ClosedIn(E) /\ E[s].name = dir[s].name /\ E[s].first = dir[s].first
               /\ \A x \in Chain(link, dir[s].first) : M[x] = link[x] /\ U[x] = data[x]
    <3>1. s \in Slots \ {g.slot} /\ E[s] = dir[s]
      BY <1>6, <1>17, <2>1, <2>2 DEF ClosedIn
    <3>2. \A x \in Chain(link, dir[s].first) : x \in Blocks \ {b}
      BY <1>1, <1>10, <1>11, InUseIs
    <3> QED BY <1>20, <3>1, <3>2 DEF ClosedIn
  <2>3. ASSUME NEW s \in ClosedIn(E), E[s].name \notin X
        PROVE  s \in ClosedIn(dir) /\ E[s].name = dir[s].name
    <3>1. s \in Slots \ {g.slot} /\ E[s] = dir[s]
      BY <1>16, <1>17, <2>1, <2>3 DEF ClosedIn
    <3> QED BY <3>1 DEF ClosedIn
  <2>4. \A m \in Names \ X : FilesIn(E, M, U)[m] = FilesIn(dir, link, data)[m]
    <3>1. dir \in Dirs /\ link \in Links /\ data \in Datas /\ NamesApart(dir) /\ NamesApart(E)
      BY <1>1, <1>22
    <3> QED BY <2>2, <2>3, <3>1, FilesStay, SMTT(60)
  <2> QED BY <2>1, <2>4
<1>26. files' = FilesIn(E, M, U) /\ files = FilesIn(dir, link, data)
  BY <1>17, <1>18, <1>19, FilesAre
<1>27. /\ files'[n] \in Texts /\ Files!PartOf(files'[n], g.text)
       /\ b # None /\ g.whole = TRUE => files'[n] = g.text
  <2>1. CASE b = None
    <3>1. g.track = None
      BY <1>8, <2>1
    <3>2. FirstOf(f) = None
      BY <1>8, <1>13, <2>1, <3>1, WithFirstIs
    <3>3. Contents(M, U, None) = << >>
      BY NoContents
    <3>4. << >> \in Texts /\ Files!PartOf(<< >>, g.text)
      BY <1>5, PartAll DEF Texts
    <3> QED BY <1>24, <1>26, <2>1, <3>2, <3>3, <3>4
  <2>2. CASE b # None
    <3>1. b \in Blocks
      BY <1>8, <2>2, NoneIs
    <3>2. Contents(M, U, FirstOf(f)) = SoFar(link, data, g)
      BY <1>1, <1>8, <1>13, <1>18, <1>19, <2>2, <3>1, ClosedText
    <3>3. SoFar(link, data, g) \in Texts
      BY <1>1, <1>7, SoFarIn
    <3> QED BY <1>6, <1>24, <1>26, <3>2, <3>3 DEF Told
  <2> QED BY <2>1, <2>2
<1>28. OnlyChanges(n)
  <2>1. \A m \in Names \ {n} : files'[m] = files[m]
    BY <1>25, <1>26
  <2> QED BY <2>1, OneChanges, FilesFunctions DEF OnlyChanges
<1> QED BY <1>12, <1>17, <1>22, <1>27, <1>28

LEMMA StoreClose ==
    ASSUME VdriveTypeOK, VdriveTypeOK', DriveInv, TextsInv, NEW c \in Channels, CloseFile(c),
           ~ true_emulation
    PROVE  TextsInv' /\ Files!Operate
<1>1. /\ dir \in Dirs /\ link \in Links /\ data \in Datas /\ chan \in Chans
      /\ dir' \in Dirs /\ link' \in Links /\ data' \in Datas /\ chan' \in Chans
      /\ TextsFor(dir, link, data, chan)
  BY StateIs DEF TextsInv, VdriveTypeOK, Dirs, Links, Datas, Texts, Chans
<1>2. c \in OpenIn(chan) /\ chan' = [chan EXCEPT ![c] = None]
  BY DEF CloseFile, OpenIn
<1>3. PICK g \in Buffers : g = chan[c]
  BY <1>1, <1>2, HeldIs
<1>4. PICK b \in LastBlock(chan[c]) :
        /\ Flush(c, b)
        /\ last_code' = IF b = None THEN SetError("DISK_FULL") ELSE last_code
        /\ dir' = [dir EXCEPT ![Flushed(c, b).slot] = Closing(Flushed(c, b))]
  BY DEF CloseFile
<1>5. PICK n \in Names : n = g.entry.name
  BY BufferFields
<1>6. /\ NamesApart(dir')
      /\ \A d \in OpenIn(chan) \ {c} : dir'[chan[d].slot] = dir[chan[d].slot]
      /\ OnlyChanges(n)
      /\ files'[n] \in Texts /\ Files!PartOf(files'[n], g.text)
      /\ b # None /\ g.whole = TRUE => files'[n] = g.text
  <2>1. /\ c \in OpenIn(chan) /\ b \in LastBlock(chan[c]) /\ Flush(c, b) /\ ~ true_emulation
        /\ dir' = [dir EXCEPT ![Flushed(c, b).slot] = Closing(Flushed(c, b))]
        /\ g \in Buffers /\ g = chan[c] /\ n \in Names /\ n = g.entry.name
    BY <1>2, <1>3, <1>4, <1>5
  <2> QED BY <2>1, FileCloses
<1>7. /\ \A x \in Blocks \ {b} : link'[x] = link[x] /\ data'[x] = data[x]
      /\ \A d \in OpenIn(chan) \ {c} : b \notin OwnIn(link, chan[d])
  BY <1>2, <1>4, FlushKeeps
<1>8. PICK B \in Chans : B = chan' /\ B[c] = None /\ \A d \in Channels \ {c} : B[d] = chan[d]
  BY <1>1, <1>2 DEF Chans
<1>9. TextsInv'
  <2>1. PICK M \in Links : M = link'
    BY <1>1
  <2>2. PICK U \in Datas : U = data'
    BY <1>1
  <2>3. ASSUME NEW d \in OpenIn(B)
        PROVE  Told(M, U, B[d]) /\ B[d].entry.name = dir'[B[d].slot].name
    <3>1. d \in OpenIn(chan) \ {c} /\ B[d] = chan[d] /\ chan[d] \in Buffers
      BY <1>1, <1>8, HeldIs DEF OpenIn
    <3>2. \A x \in OwnIn(link, chan[d]) : M[x] = link[x] /\ U[x] = data[x]
      <4>1. OwnIn(link, chan[d]) \subseteq Blocks \ {b}
        BY <1>1, <1>7, <3>1, HeldIs
      <4> QED BY <1>7, <2>1, <2>2, <4>1
    <3>3. Told(link, data, chan[d]) /\ chan[d].entry.name = dir[chan[d].slot].name
      BY <1>1, <3>1 DEF TextsFor
    <3>4. Told(M, U, chan[d])
      BY <1>1, <3>1, <3>2, <3>3, ToldSame
    <3> QED BY <1>6, <3>1, <3>3, <3>4
  <2> QED BY <1>6, <1>8, <2>1, <2>2, <2>3 DEF TextsInv, TextsFor
<1>10. /\ writing[c] # None /\ writing[c].name = n /\ writing[c].text = g.text
       /\ writing[c].whole = g.whole
  <2>1. HandedIn(chan)[c] = Handed(g)
    BY <1>1, <1>3, HandedIs
  <2> QED BY <1>5, <2>1, SomethingIs, FilesAre
<1>11. writing' = [writing EXCEPT ![c] = None]
  <2>1. HandedIn(B) = [HandedIn(chan) EXCEPT ![c] = Handed(B[c])]
    BY <1>1, <1>8, HandedChanges
  <2>2. Handed(B[c]) = None
    BY <1>8 DEF Handed
  <2> QED BY <1>8, <2>1, <2>2, FilesAre
<1>12. Files!Finish(c)
  <2>1. PICK stored : stored = files'[n]
    OBVIOUS
  <2>2. stored # None
    BY <1>6, <2>1, SomethingIs
  <2>3. stored # g.text => ~ g.whole \/ last_code' # "OK"
    BY <1>4, <1>6, <2>1 DEF SetError
  <2>4. PICK text : text = g.text
    OBVIOUS
  <2>5. PICK whole \in BOOLEAN : whole = g.whole
    BY BufferFields
  <2>6. /\ stored \in {files'[n]} /\ stored # None /\ Files!PartOf(stored, text)
        /\ (stored # text => ~ whole \/ last_code' # "OK")
        /\ files' = [files EXCEPT ![n] = stored]
        /\ writing[c].name = n /\ writing[c].text = text /\ writing[c].whole = whole
    BY <1>6, <1>10, <2>1, <2>2, <2>3, <2>4, <2>5 DEF OnlyChanges
  <2> QED BY <1>10, <1>11, <2>6 DEF Files!Finish
<1> QED BY <1>9, <1>12 DEF Files!Operate

----------------------------------------------------------------------------
(* Kills between the writes to the image.                                   *)

LEMMA NothingChanges ==
    ASSUME files' = files, NEW n \in Names
    PROVE  OnlyChanges(n)
  BY OneChanges, FilesFunctions DEF OnlyChanges

LEMMA CutOffIs ==
    ASSUME DriveInv, NEW c \in Channels, KilledInClose(c)
    PROVE  c \in OpenIn(chan) /\ ~ true_emulation /\ chan' = [d \in Channels |-> None]
<1>1. c \in OpenIn(chan) /\ chan' = [d \in Channels |-> None]
  BY DEF KilledInClose, Killed, OpenIn
<1>2. ~ true_emulation
  BY <1>1 DEF KilledInClose, Served, DriveInv, BitmapsTrue
<1> QED BY <1>1, <1>2

LEMMA StoreCutOff ==
    ASSUME VdriveTypeOK, VdriveTypeOK', DriveInv, TextsInv, ~ torn',
           (\E c \in Channels : KilledInClose(c)) \/ KilledInValidate
    PROVE  TextsInv' /\ Files!Operate
<1>1. NamesApart(dir)
  BY DEF TextsInv, TextsFor
<1>2. ASSUME NEW c \in Channels, KilledInClose(c)
      PROVE  NamesApart(dir') /\ chan' = [d \in Channels |-> None] /\ files' = files
  <2>1. c \in OpenIn(chan) /\ ~ true_emulation /\ chan' = [d \in Channels |-> None]
    BY <1>2, CutOffIs
  <2>2. dir' = dir
    BY <1>2 DEF KilledInClose
  <2>3. PICK b \in LastBlock(chan[c]) : Flush(c, b)
    BY <1>2 DEF KilledInClose
  <2>4. /\ b \notin InUseIn(dir, link)
        /\ \A x \in Blocks \ {b} : link'[x] = link[x] /\ data'[x] = data[x]
    BY <2>1, <2>3, FlushKeeps
  <2>5. InUseIn(dir, link) \subseteq Blocks
    BY StateIs, InUseIs
  <2>6. \A x \in InUseIn(dir, link) : link'[x] = link[x] /\ data'[x] = data[x]
    BY <2>4, <2>5
  <2> QED BY <1>1, <2>1, <2>2, <2>6, FilesKept
<1>3. ASSUME KilledInValidate
      PROVE  NamesApart(dir') /\ chan' = [d \in Channels |-> None] /\ files' = files
  <2>1. /\ link' = link /\ data' = data
        /\ \A s \in Slots : dir'[s] = IF s \in ClosedIn(dir) THEN dir[s] ELSE dir'[s]
        /\ \A s \in Slots : dir'[s] = None \/ dir'[s] = dir[s]
    BY <1>3, HalfValidatedSound
  <2>2. PICK E \in Dirs : E = dir'
    BY DEF VdriveTypeOK, Dirs
  <2>3. NamesApart(E)
    BY <1>1, <2>1, <2>2, NamesStay
  <2>4. ClosedIn(E) = ClosedIn(dir) /\ \A s \in ClosedIn(dir) : E[s] = dir[s]
    BY <2>1, <2>2 DEF ClosedIn
  <2>5. files' = files
    BY <1>1, <2>1, <2>2, <2>3, <2>4, StateIs, FilesUnmoved
  <2> QED BY <1>3, <2>2, <2>3, <2>5 DEF KilledInValidate, Killed
<1>4. NamesApart(dir') /\ chan' = [d \in Channels |-> None] /\ files' = files
  BY <1>2, <1>3
<1>5. OpenIn(chan') = {} /\ Files!Silence
  BY <1>4, Silenced
<1>6. TextsInv'
  BY <1>4, <1>5 DEF TextsInv, TextsFor
<1> QED BY <1>4, <1>5, <1>6 DEF Files!Operate, Files!Lose

\* A kill that tears the disk has touched one file.
LEMMA TornClose ==
    ASSUME VdriveTypeOK, VdriveTypeOK', DriveInv, TextsInv,
           NEW c \in Channels, KilledInClose(c)
    PROVE  \E n \in Names : OnlyChanges(n)
<1>1. c \in OpenIn(chan) /\ ~ true_emulation
  BY CutOffIs
<1>2. PICK b \in LastBlock(chan[c]) :
        /\ Flush(c, b)
        /\ \/ dir' = dir
           \/ dir' = [dir EXCEPT ![Flushed(c, b).slot] = Closing(Flushed(c, b))]
  BY DEF KilledInClose
<1>3. PICK g \in Buffers : g = chan[c]
  BY <1>1, StateIs, HeldIs
<1>4. PICK n \in Names : n = g.entry.name
  BY BufferFields
<1>5. CASE dir' = dir
  <2>1. /\ b \notin InUseIn(dir, link)
        /\ \A x \in Blocks \ {b} : link'[x] = link[x] /\ data'[x] = data[x]
    BY <1>1, <1>2, FlushKeeps
  <2>2. InUseIn(dir, link) \subseteq Blocks
    BY StateIs, InUseIs
  <2>3. \A x \in InUseIn(dir, link) : link'[x] = link[x] /\ data'[x] = data[x]
    BY <2>1, <2>2
  <2>4. NamesApart(dir)
    BY DEF TextsInv, TextsFor
  <2>5. files' = files
    BY <1>5, <2>3, <2>4, FilesKept
  <2> QED BY <2>5, NothingChanges
<1>6. CASE dir' = [dir EXCEPT ![Flushed(c, b).slot] = Closing(Flushed(c, b))]
  <2>1. /\ c \in OpenIn(chan) /\ b \in LastBlock(chan[c]) /\ Flush(c, b) /\ ~ true_emulation
        /\ dir' = [dir EXCEPT ![Flushed(c, b).slot] = Closing(Flushed(c, b))]
        /\ g \in Buffers /\ g = chan[c] /\ n \in Names /\ n = g.entry.name
    BY <1>1, <1>2, <1>3, <1>4, <1>6
  <2>2. OnlyChanges(n)
    BY <2>1, FileCloses
  <2> QED BY <2>2
<1> QED BY <1>2, <1>5, <1>6

LEMMA TornScratch ==
    ASSUME VdriveTypeOK, TextsInv, NEW s \in Slots, KilledInScratch(s)
    PROVE  \E n \in Names : OnlyChanges(n)
<1>1. dir' = dir /\ link' = link /\ data' = data /\ dir[s] # None
  BY DEF KilledInScratch
<1>2. PICK n \in Names : n = dir[s].name
  BY <1>1, SlotFields
<1>3. files' = files
  BY <1>1, FilesAre
<1> QED BY <1>3, NothingChanges

LEMMA TornDrive ==
    ASSUME VdriveTypeOK, VdriveTypeOK', DriveInv, TextsInv, KilledInDrive
    PROVE  \E n \in Names : OnlyChanges(n)
<1>1. true_emulation /\ NamesApart(dir)
  BY DEF KilledInDrive, TextsInv, TextsFor
<1>2. ASSUME NEW s \in ClosedSlots, dir' = [dir EXCEPT ![s] = None] \/ dir' = dir,
             link' = link, data' = data
      PROVE  \E n \in Names : OnlyChanges(n)
  <2>1. s \in ClosedIn(dir) /\ s \in Slots /\ dir[s] # None
    BY <1>2 DEF ClosedSlots, ClosedIn
  <2>2. PICK n \in Names : n = dir[s].name
    BY <2>1, SlotFields
  <2>3. CASE dir' = dir
    <3>1. files' = files
      BY <1>2, <2>3, FilesAre
    <3> QED BY <3>1, NothingChanges
  <2>4. CASE dir' = [dir EXCEPT ![s] = None]
    <3>1. dir \in Dirs /\ link \in Links /\ data \in Datas
      BY StateIs
    <3>2. PICK E \in Dirs : E = dir' /\ E[s] = None /\ \A u \in Slots \ {s} : E[u] = dir[u]
      BY <2>1, <2>4, <3>1 DEF VdriveTypeOK, Dirs
    <3>3. NamesApart(E)
      <4>1. \A u \in Slots : E[u] # None => dir[u] # None /\ E[u].name = dir[u].name
        BY <3>2
      <4> QED BY <1>1, <4>1, NamesStay
    <3>4. ClosedIn(E) = ClosedIn(dir) \ {s}
      BY <3>2 DEF ClosedIn
    <3>5. files' = [files EXCEPT ![n] = None]
      BY <1>1, <1>2, <2>1, <2>2, <3>1, <3>2, <3>3, <3>4, FileGone
    <3>6. \A m \in Names \ {n} : files'[m] = files[m]
      BY <3>5, FilesFunctions
    <3>7. OnlyChanges(n)
      BY <3>6, OneChanges, FilesFunctions DEF OnlyChanges
    <3> QED BY <3>7
  <2> QED BY <1>2, <2>3, <2>4
<1>3. ASSUME NEW s \in Slots, NEW n \in Names, NEW b \in Blocks, b \notin diskBam,
             Named(n) = {}, dir[s] = None,
             dir' = [dir EXCEPT ![s] = Entry(n, TRUE, b)] \/ dir' = dir,
             link' = [link EXCEPT ![b] = None],
             data' = [data EXCEPT ![b] = <<<<opens + 1, 1>>>>]
      PROVE  \E m \in Names : OnlyChanges(m)
  <2>1. PICK bytes : bytes = <<<<opens + 1, 1>>>>
    OBVIOUS
  <2>2. CASE dir' = [dir EXCEPT ![s] = Entry(n, TRUE, b)]
    <3>1. /\ true_emulation /\ dir[s] = None /\ Named(n) = {} /\ b \notin diskBam
          /\ dir' = [dir EXCEPT ![s] = Entry(n, TRUE, b)]
          /\ link' = [link EXCEPT ![b] = None] /\ data' = [data EXCEPT ![b] = bytes]
      BY <1>1, <1>3, <2>1, <2>2
    <3>2. OnlyChanges(n)
      BY <3>1, FileArrives
    <3> QED BY <3>2
  <2>3. CASE dir' = dir
    <3>1. /\ dir \in Dirs /\ link \in Links /\ data \in Datas
          /\ InUseIn(dir, link) \subseteq Blocks /\ b \notin InUseIn(dir, link)
      BY <1>3, StateIs, InUseIs DEF DriveInv, BitmapsTrue
    <3>2. \A x \in InUseIn(dir, link) : link'[x] = link[x] /\ data'[x] = data[x]
      BY <1>3, <3>1 DEF Links, Datas
    <3>3. files' = files
      BY <1>1, <2>3, <3>2, FilesKept
    <3> QED BY <3>3, NothingChanges
  <2> QED BY <1>3, <2>2, <2>3
<1>4. \/ \E s \in ClosedSlots : /\ dir' = [dir EXCEPT ![s] = None] \/ dir' = dir
                                /\ link' = link /\ data' = data
      \/ \E s \in Slots, n \in Names, b \in Blocks :
            /\ b \notin diskBam /\ Named(n) = {} /\ dir[s] = None
            /\ dir' = [dir EXCEPT ![s] = Entry(n, TRUE, b)] \/ dir' = dir
            /\ link' = [link EXCEPT ![b] = None]
            /\ data' = [data EXCEPT ![b] = <<<<opens + 1, 1>>>>]
  BY DEF KilledInDrive
<1> QED BY <1>2, <1>3, <1>4

LEMMA StoreTears ==
    ASSUME VdriveTypeOK, VdriveTypeOK', DriveInv, TextsInv, ~ torn, torn', [VdriveNext]_vars
    PROVE  Files!Tear
<1>1. \/ \E c \in Channels : KilledInClose(c)
      \/ \E s \in Slots : KilledInScratch(s)
      \/ KilledInDrive
  <2>1. ASSUME UNCHANGED torn PROVE FALSE
    BY <2>1
  <2>2. UNCHANGED vars => UNCHANGED torn
    BY DEF vars
  <2>3. ASSUME NEW c \in Channels,
               \/ \E n \in Names : OpenNew(c, n)
               \/ \E s \in Slots : OpenReplace(c, s) \/ OpenAppend(c, s)
        PROVE  UNCHANGED torn
    BY <2>3 DEF OpenNew, OpenReplace, OpenAppend, OpenChannel
  <2>4. ASSUME NEW c \in Channels, WriteByte(c) \/ WriteBlock(c) \/ WriteRefused(c) \/ Close(c)
        PROVE  UNCHANGED torn
    BY <2>4 DEF WriteByte, WriteBlock, WriteRefused, CanWrite, Close, CloseFile
  <2>5. ASSUME NEW s \in Slots,
               \/ Scratch(s) \/ DriveScratches(s) \/ \E n \in Names : Rename(s, n)
               \/ \E n \in Names, b \in Blocks : DriveSaves(s, n, b)
        PROVE  UNCHANGED torn
    BY <2>5 DEF Scratch, DriveScratches, Rename, DriveSaves
  <2>6. \/ Refused \/ ReadStatus \/ Initialized \/ AttachOver \/ ResetByUJ \/ CloseNext
        \/ SwitchOn \/ SwitchOff \/ \E cmd \in {"I", "V", "UJ", "ATTACH"} : CloseAll(cmd)
        => UNCHANGED torn
    BY DEF Refused, ReadStatus, Initialized, AttachOver, ResetByUJ, SwitchOn, SwitchOff, CloseAll,
           CloseNext, CloseFile
  <2>7. Kill \/ KilledInValidate => UNCHANGED torn
    BY DEF Kill, KilledInValidate
  <2>8. Validated => FALSE
    BY DEF Validated
  <2> QED BY <2>1, <2>2, <2>3, <2>4, <2>5, <2>6, <2>7, <2>8 DEF VdriveNext
<1>2. \E n \in Names : OnlyChanges(n)
  BY <1>1, TornClose, TornScratch, TornDrive
<1>3. chan' = [c \in Channels |-> None]
  BY <1>1 DEF KilledInClose, KilledInScratch, KilledInDrive, Killed
<1>4. Files!Silence
  BY <1>3, Silenced
<1> QED BY <1>2, <1>4 DEF Files!Tear, OnlyChanges

----------------------------------------------------------------------------
(* What holds of the names though the disk is torn: with it a validate      *)
(* finds the files as the programs know them.                               *)

NamesFor(D, C) ==
    /\ NamesApart(D)
    /\ \A c \in OpenIn(C) : D[C[c].slot] # None /\ D[C[c].slot].name = C[c].entry.name
NamesInv == NamesFor(dir, chan) /\ (true_emulation => OpenIn(chan) = {})

\* No name is new, or one slot gets a name that no other has.
LEMMA NamesNew ==
    ASSUME NEW D \in Dirs, NEW E \in Dirs, NamesApart(D), NEW s \in Slots, NEW n,
           \A t \in Slots : D[t] # None => D[t].name # n,
           E[s].name = n, \A t \in Slots \ {s} : E[t] = D[t]
    PROVE  NamesApart(E)
<1>1. \A t \in Slots \ {s} : E[t] # None => E[t].name # n /\ E[t] = D[t]
  OBVIOUS
<1>2. \A t, u \in Slots \ {s} :
          E[t] # None /\ E[u] # None /\ E[t].name = E[u].name => t = u
  BY <1>1 DEF NamesApart
<1>3. \A t \in Slots : t = s \/ t \in Slots \ {s}
  OBVIOUS
<1> QED BY <1>1, <1>2, <1>3 DEF NamesApart

LEMMA OpenIs ==
    ASSUME NEW C \in Chans
    PROVE  \A c \in OpenIn(C) : c \in Channels /\ C[c] \in Buffers /\ C[c].slot \in Slots
<1> SUFFICES ASSUME NEW c \in OpenIn(C)
             PROVE  c \in Channels /\ C[c] \in Buffers /\ C[c].slot \in Slots
  OBVIOUS
<1>1. c \in Channels /\ C[c] \in Buffers
  BY DEF OpenIn, Chans
<1> QED BY <1>1, BufferFields

\* One channel changes, its slot and name apart, or one slot without a writer.
LEMMA NamesHeld ==
    ASSUME NEW D \in Dirs, NEW E \in Dirs, NEW C \in Chans, NEW B \in Chans,
           NamesFor(D, C), NamesApart(E), NEW c,
           \A d \in Channels \ {c} : B[d] = C[d],
           c \in OpenIn(B) => E[B[c].slot] # None /\ E[B[c].slot].name = B[c].entry.name,
           \A d \in OpenIn(C) \ {c} :
               /\ E[C[d].slot] # None
               /\ E[C[d].slot].name = D[C[d].slot].name
    PROVE  NamesFor(E, B)
<1>1. ASSUME NEW d \in OpenIn(B), d # c
      PROVE  E[B[d].slot] # None /\ E[B[d].slot].name = B[d].entry.name
  <2>1. d \in OpenIn(C) \ {c} /\ B[d] = C[d]
    BY <1>1 DEF OpenIn
  <2> QED BY <2>1 DEF NamesFor
<1> QED BY <1>1 DEF NamesFor

LEMMA NamesOpen ==
    ASSUME VdriveTypeOK, VdriveTypeOK', NamesInv, NEW c \in Channels,
           \/ \E n \in Names : OpenNew(c, n)
           \/ \E s \in Slots : OpenReplace(c, s) \/ OpenAppend(c, s)
    PROVE  NamesInv'
<1>1. /\ dir \in Dirs /\ dir' \in Dirs /\ chan \in Chans /\ chan' \in Chans
      /\ NamesFor(dir, chan) /\ NamesApart(dir)
      /\ \A d \in OpenIn(chan) : d \in Channels /\ chan[d].slot \in Slots
  <2>1. dir \in Dirs /\ dir' \in Dirs /\ chan \in Chans /\ chan' \in Chans
    BY StateIs DEF VdriveTypeOK, Dirs, Chans
  <2> QED BY <2>1, OpenIs DEF NamesInv, NamesFor
<1>2. ~ true_emulation'
  BY DEF OpenNew, OpenReplace, OpenAppend, OpenChannel, Served
<1>3. PICK E \in Dirs : E = dir'
  BY <1>1
<1>4. PICK B \in Chans : B = chan'
  BY <1>1
<1> DEFINE Opened(s) ==
             /\ NamesApart(E) /\ E[s] # None
             /\ dir[s] # None => E[s].name = dir[s].name
             /\ \A t \in Slots \ {s} : E[t] = dir[t]
             /\ B[c].slot = s /\ B[c].entry.name = E[s].name
             /\ \A d \in Channels \ {c} : B[d] = chan[d]
<1>5. \E s \in Slots : Opened(s)
  <2>1. ASSUME NEW s \in Slots, NEW e \in Entries, NEW track, NEW needsupdate, NEW buffer, NEW text,
               OpenChannel(c, Channel(s, e, track, needsupdate, buffer, text))
        PROVE  /\ B[c].slot = s /\ B[c].entry = e
               /\ \A d \in Channels \ {c} : B[d] = chan[d]
    <3>1. PICK f : f = Channel(s, e, track, needsupdate, buffer, text)
      OBVIOUS
    <3>2. f.slot = s /\ f.entry = e
      BY <3>1 DEF Channel
    <3>3. chan' = [chan EXCEPT ![c] = f]
      BY <2>1, <3>1 DEF OpenChannel
    <3>4. B[c] = f /\ \A d \in Channels \ {c} : B[d] = chan[d]
      BY <1>1, <1>4, <3>3 DEF Chans
    <3> QED BY <3>2, <3>4
  <2>2. ASSUME NEW n \in Names, OpenNew(c, n)
        PROVE  \E s \in Slots : Opened(s)
    <3>1. PICK e : e = Entry(n, FALSE, None)
      OBVIOUS
    <3>2. PICK s \in Slots : /\ dir[s] = None /\ dir' = [dir EXCEPT ![s] = e]
                             /\ OpenChannel(c, Channel(s, e, None, FALSE, << >>, << >>))
      BY <2>2, <3>1 DEF OpenNew
    <3>3. e \in Entries /\ e.name = n /\ e # None
      <4>1. FALSE \in BOOLEAN /\ None \in BlockOrNone
        BY NoneIs
      <4>2. e \in Entries /\ e.name = n
        BY <3>1, <4>1, EntryIn
      <4> QED BY <4>2, NoneAssumption
    <3>4. E[s] = e /\ \A t \in Slots \ {s} : E[t] = dir[t]
      BY <1>1, <1>3, <3>2 DEF Dirs
    <3>5. \A t \in Slots : dir[t] # None => dir[t].name # n
      BY <2>2 DEF OpenNew, Named
    <3>6. NamesApart(E)
      BY <1>1, <3>3, <3>4, <3>5, NamesNew
    <3>7. B[c].slot = s /\ B[c].entry = e /\ \A d \in Channels \ {c} : B[d] = chan[d]
      BY <2>1, <3>2, <3>3
    <3> QED BY <3>2, <3>3, <3>4, <3>6, <3>7
  <2>3. ASSUME NEW s \in Slots, OpenReplace(c, s)
        PROVE  Opened(s)
    <3>1. PICK e \in Entries : e = dir[s] /\ e # None
      BY <2>3, SlotFields DEF OpenReplace
    <3>2. dir' = dir /\ OpenChannel(c, Channel(s, e, None, TRUE, << >>, << >>))
      BY <2>3, <3>1 DEF OpenReplace
    <3>3. B[c].slot = s /\ B[c].entry = e /\ \A d \in Channels \ {c} : B[d] = chan[d]
      BY <2>1, <3>2
    <3> QED BY <1>1, <1>3, <3>1, <3>2, <3>3
  <2>4. ASSUME NEW s \in Slots, OpenAppend(c, s)
        PROVE  Opened(s)
    <3>1. dir[s] \in Entries /\ dir[s] # None
      BY <2>4, SlotFields DEF OpenAppend
    <3>2. PICK e, track, buffer, text :
               /\ e = [dir[s] EXCEPT !.closed = FALSE]
               /\ OpenChannel(c, Channel(s, e, track, FALSE, buffer, text))
               /\ dir' = [dir EXCEPT ![s] = e]
      BY <2>4, AppendIs
    <3>3. e \in Entries /\ e.name = dir[s].name /\ e # None
      BY <3>1, <3>2, NoneAssumption DEF Entries
    <3>4. E[s] = e /\ \A t \in Slots \ {s} : E[t] = dir[t]
      BY <1>1, <1>3, <3>2 DEF Dirs
    <3>5. NamesApart(E)
      <4>1. \A t \in Slots : E[t] # None => dir[t] # None /\ E[t].name = dir[t].name
        BY <3>1, <3>3, <3>4
      <4> QED BY <1>1, <4>1, NamesStay
    <3>6. B[c].slot = s /\ B[c].entry = e /\ \A d \in Channels \ {c} : B[d] = chan[d]
      BY <2>1, <3>2, <3>3
    <3> QED BY <3>1, <3>3, <3>4, <3>5, <3>6
  <2> QED BY <2>2, <2>3, <2>4
<1>6. PICK s \in Slots : Opened(s)
  BY <1>5
<1>7. \A d \in OpenIn(chan) \ {c} : E[chan[d].slot] # None /\ E[chan[d].slot].name = dir[chan[d].slot].name
  BY <1>1, <1>6 DEF NamesFor
<1>8. NamesFor(E, B)
  BY <1>1, <1>6, <1>7, NamesHeld
<1> QED BY <1>2, <1>3, <1>4, <1>8 DEF NamesInv

LEMMA NamesWrite ==
    ASSUME VdriveTypeOK, VdriveTypeOK', NamesInv, NEW c \in Channels,
           WriteByte(c) \/ WriteBlock(c) \/ WriteRefused(c)
    PROVE  NamesInv'
<1>1. /\ dir \in Dirs /\ chan \in Chans /\ chan' \in Chans
      /\ NamesFor(dir, chan) /\ NamesApart(dir)
  BY StateIs DEF VdriveTypeOK, Chans, NamesInv, NamesFor
<1>2. /\ c \in OpenIn(chan) /\ dir' = dir /\ ~ true_emulation'
  BY DEF WriteByte, WriteBlock, WriteRefused, CanWrite, Served, OpenIn
<1>3. PICK f \in Buffers : f = chan[c]
  BY <1>1, <1>2, OpenIs
<1>4. << >> \in Seq(Bytes) /\ f.buffer \in Seq(Bytes) /\ f.track \in BlockOrNone
  BY BufferFields
<1> DEFINE Becomes(g) == /\ chan' = [chan EXCEPT ![c] = g]
                         /\ g.slot = f.slot /\ g.entry.name = f.entry.name
<1>5. \E g \in Buffers : Becomes(g)
  <2>1. CASE WriteByte(c)
    <3>1. PICK g \in Buffers : g = Take(f, f.buffer)
      BY <1>4, TakeIs
    <3>2. g.slot = f.slot /\ g.entry = f.entry
      BY <1>4, <3>1, TakeIs
    <3> QED BY <1>3, <2>1, <3>1, <3>2 DEF WriteByte
  <2>2. CASE WriteRefused(c)
    <3>1. ASSUME NEW h \in Buffers, h.slot = f.slot, h.entry.name = f.entry.name,
                 chan' = [chan EXCEPT ![c] = Refuse(h)]
          PROVE  \E g \in Buffers : Becomes(g)
      <4>1. PICK g \in Buffers : g = Refuse(h)
        BY RefuseIs
      <4>2. g.slot = h.slot /\ g.entry = h.entry
        BY <4>1, RefuseIs
      <4> QED BY <3>1, <4>1, <4>2
    <3>2. ASSUME NEW b \in Blocks, chan' = [chan EXCEPT ![c] = Refuse(WithFirst(f, b))]
          PROVE  \E g \in Buffers : Becomes(g)
      <4>1. PICK h \in Buffers : h = WithFirst(f, b)
        BY NoneIs, WithFirstIs
      <4>2. h.slot = f.slot /\ h.entry.name = f.entry.name
        BY <4>1, NoneIs, WithFirstIs
      <4>3. chan' = [chan EXCEPT ![c] = Refuse(h)]
        BY <3>2, <4>1
      <4> QED BY <3>1, <4>2, <4>3
    <3>3. \/ chan' = [chan EXCEPT ![c] = Refuse(f)]
          \/ \E b \in Blocks : chan' = [chan EXCEPT ![c] = Refuse(WithFirst(f, b))]
      BY <1>3, <2>2 DEF WriteRefused
    <3> QED BY <3>1, <3>2, <3>3
  <2>3. CASE WriteBlock(c)
    <3>1. PICK this \in IF f.track = None THEN Blocks \ bam ELSE {f.track}, next \in Blocks :
            LET g == IF f.track = None THEN WithFirst(f, this) ELSE f
            IN  chan' = [chan EXCEPT ![c] = Take([g EXCEPT !.track = next], << >>)]
      BY <1>3, <2>3 DEF WriteBlock
    <3>2. this \in BlockOrNone /\ next \in BlockOrNone
      BY <1>4, NoneIs
    <3>3. PICK g \in Buffers : g = IF f.track = None THEN WithFirst(f, this) ELSE f
      BY <3>2, WithFirstIs
    <3>4. g.slot = f.slot /\ g.entry.name = f.entry.name
      <4>1. CASE f.track = None
        BY <3>2, <3>3, <4>1, WithFirstIs
      <4>2. CASE f.track # None
        BY <3>3, <4>2
      <4> QED BY <4>1, <4>2
    <3>5. PICK h \in Buffers : h = [g EXCEPT !.track = next] /\ h.slot = g.slot /\ h.entry = g.entry
      BY <3>2, TrackIs
    <3>6. PICK k \in Buffers : k = Take(h, << >>) /\ k.slot = h.slot /\ k.entry = h.entry
      BY <1>4, TakeIs
    <3>7. chan' = [chan EXCEPT ![c] = k]
      BY <3>1, <3>3, <3>5, <3>6
    <3> QED BY <3>4, <3>5, <3>6, <3>7
  <2> QED BY <2>1, <2>2, <2>3
<1>6. PICK g \in Buffers : Becomes(g)
  BY <1>5
<1>7. PICK B \in Chans : B = chan' /\ B[c] = g /\ \A d \in Channels \ {c} : B[d] = chan[d]
  BY <1>1, <1>6 DEF Chans
<1>8. \A d \in OpenIn(chan) : dir[chan[d].slot] # None /\ dir[chan[d].slot].name = chan[d].entry.name
  BY <1>1 DEF NamesFor
<1>9. NamesFor(dir, B)
  <2>1. dir[B[c].slot] # None /\ dir[B[c].slot].name = B[c].entry.name
    BY <1>2, <1>3, <1>6, <1>7, <1>8
  <2>2. \A d \in OpenIn(chan) \ {c} :
            dir[chan[d].slot] # None /\ dir[chan[d].slot].name = dir[chan[d].slot].name
    BY <1>8
  <2> QED BY <1>1, <1>7, <2>1, <2>2, NamesHeld
<1> QED BY <1>2, <1>7, <1>9 DEF NamesInv

\* A close enters the file under the name it has.
LEMMA NamesClosed ==
    ASSUME VdriveTypeOK, VdriveTypeOK', NamesInv, NEW c \in OpenIn(chan),
           NEW b \in LastBlock(chan[c]),
           dir' = [dir EXCEPT ![Flushed(c, b).slot] = Closing(Flushed(c, b))]
    PROVE  /\ NamesApart(dir')
           /\ \A t \in Slots : dir[t] # None => dir'[t] # None /\ dir'[t].name = dir[t].name
<1>1. dir \in Dirs /\ chan \in Chans /\ NamesFor(dir, chan)
  BY StateIs DEF NamesInv
<1>2. PICK g \in Buffers : g = chan[c]
  BY <1>1, OpenIs
<1>3. b \in BlockOrNone
  BY <1>2, NoneIs, BufferFields DEF LastBlock
<1>4. PICK f \in Buffers : f = Flushed(c, b) /\ f.slot = g.slot /\ f.entry.name = g.entry.name
  <2>1. CASE g.track = None
    BY <1>2, <1>3, <2>1, WithFirstIs DEF Flushed
  <2>2. CASE g.track # None
    BY <1>2, <2>2 DEF Flushed
  <2> QED BY <2>1, <2>2
<1>5. PICK e \in Entries : e = Closing(f) /\ e.name = g.entry.name /\ e # None
  BY <1>4, ClosingIs, ClosingName, NoneAssumption
<1>6. PICK E \in Dirs : E = dir' /\ E[g.slot] = e /\ \A t \in Slots \ {g.slot} : E[t] = dir[t]
  <2>1. dir' = [dir EXCEPT ![g.slot] = e] /\ g.slot \in Slots
    BY <1>4, <1>5, BufferFields
  <2> QED BY <1>1, <2>1 DEF VdriveTypeOK, Dirs
<1>7. dir[g.slot] # None /\ dir[g.slot].name = g.entry.name
  BY <1>1, <1>2 DEF NamesFor
<1>8. \A t \in Slots : /\ E[t] # None => dir[t] # None /\ E[t].name = dir[t].name
                       /\ dir[t] # None => E[t] # None /\ E[t].name = dir[t].name
  BY <1>5, <1>6, <1>7
<1>9. NamesApart(E)
  <2>1. NamesApart(dir)
    BY <1>1 DEF NamesFor
  <2> QED BY <1>8, <2>1, NamesStay
<1> QED BY <1>6, <1>8, <1>9

LEMMA NamesClose ==
    ASSUME VdriveTypeOK, VdriveTypeOK', NamesInv, NEW c \in Channels, CloseFile(c)
    PROVE  NamesInv'
<1>1. /\ dir \in Dirs /\ dir' \in Dirs /\ chan \in Chans /\ chan' \in Chans /\ NamesFor(dir, chan)
  BY StateIs DEF VdriveTypeOK, Dirs, Chans, NamesInv
<1>2. c \in OpenIn(chan) /\ chan' = [chan EXCEPT ![c] = None] /\ true_emulation' = true_emulation
  BY DEF CloseFile, OpenIn
<1>3. PICK b \in LastBlock(chan[c]) :
        dir' = [dir EXCEPT ![Flushed(c, b).slot] = Closing(Flushed(c, b))]
  BY DEF CloseFile
<1>4. /\ NamesApart(dir')
      /\ \A t \in Slots : dir[t] # None => dir'[t] # None /\ dir'[t].name = dir[t].name
  BY <1>2, <1>3, NamesClosed
<1>5. PICK B \in Chans : B = chan' /\ B[c] = None /\ \A d \in Channels \ {c} : B[d] = chan[d]
  BY <1>1, <1>2 DEF Chans
<1>6. PICK E \in Dirs : E = dir'
  BY <1>1
<1>7. \A d \in OpenIn(chan) : chan[d].slot \in Slots /\ dir[chan[d].slot] # None
  BY <1>1, OpenIs DEF NamesFor
<1>8. NamesFor(E, B)
  <2>1. c \notin OpenIn(B)
    BY <1>5 DEF OpenIn
  <2> QED BY <1>1, <1>4, <1>5, <1>6, <1>7, <2>1, NamesHeld
<1>9. ~ true_emulation
  BY <1>2 DEF NamesInv
<1> QED BY <1>2, <1>5, <1>6, <1>8, <1>9 DEF NamesInv

\* Slots that no channel writes.
LEMMA NamesSlot ==
    ASSUME VdriveTypeOK, VdriveTypeOK', NamesInv, NEW s \in Slots,
           chan' = chan, true_emulation' = true_emulation, NamesApart(dir'),
           \A c \in OpenIn(chan) : chan[c].slot # s,
           \A t \in Slots \ {s} : dir'[t] = dir[t]
    PROVE  NamesInv'
<1>1. chan \in Chans /\ NamesFor(dir, chan)
  BY StateIs DEF NamesInv
<1>2. \A c \in OpenIn(chan) : chan[c].slot \in Slots \ {s}
  BY <1>1, OpenIs
<1>3. NamesFor(dir', chan)
  BY <1>1, <1>2 DEF NamesFor
<1> QED BY <1>3 DEF NamesInv

LEMMA NamesDir ==
    ASSUME VdriveTypeOK, VdriveTypeOK', NamesInv, Careful, NEW s \in Slots,
           \/ Scratch(s) \/ DriveScratches(s)
           \/ \E n \in Names : Rename(s, n) \/ \E b \in Blocks : DriveSaves(s, n, b)
    PROVE  NamesInv'
<1>1. dir \in Dirs /\ dir' \in Dirs /\ NamesApart(dir)
  BY StateIs DEF VdriveTypeOK, Dirs, NamesInv, NamesFor
<1>2. chan' = chan /\ true_emulation' = true_emulation
  BY DEF Scratch, DriveScratches, Rename, DriveSaves, Command
<1>3. \A c \in OpenIn(chan) : chan[c].slot # s
  <2>1. CASE Scratch(s) \/ \E n \in Names : Rename(s, n)
    BY <2>1 DEF Scratch, Rename, MayTouch, Written, OpenIn
  <2>2. CASE DriveScratches(s) \/ \E n \in Names, b \in Blocks : DriveSaves(s, n, b)
    BY <2>2 DEF DriveScratches, DriveSaves, NamesInv
  <2> QED BY <2>1, <2>2
<1>4. PICK E \in Dirs : E = dir'
  BY <1>1
<1> DEFINE Entered == NamesApart(E) /\ \A t \in Slots \ {s} : E[t] = dir[t]
<1>5. Entered
  <2>1. CASE Scratch(s) \/ DriveScratches(s)
    <3>1. E = [dir EXCEPT ![s] = None]
      BY <1>4, <2>1 DEF Scratch, DriveScratches
    <3>2. E[s] = None /\ \A t \in Slots \ {s} : E[t] = dir[t]
      BY <1>1, <3>1 DEF Dirs
    <3> QED BY <1>1, <3>2, NamesStay
  <2>2. ASSUME NEW n \in Names, NEW e, E = [dir EXCEPT ![s] = e], e.name = n, Named(n) = {}
        PROVE  Entered
    <3>1. E[s] = e /\ \A t \in Slots \ {s} : E[t] = dir[t]
      BY <1>1, <2>2 DEF Dirs
    <3>2. \A t \in Slots : dir[t] # None => dir[t].name # n
      BY <2>2 DEF Named
    <3>3. dir \in Dirs /\ NamesApart(dir) /\ E[s].name = n
      BY <1>1, <2>2, <3>1
    <3>4. NamesApart(E)
      BY <3>1, <3>2, <3>3, NamesNew
    <3> QED BY <3>1, <3>4
  <2>3. ASSUME NEW n \in Names, Rename(s, n)
        PROVE  Entered
    <3>1. PICK e : e = [dir[s] EXCEPT !.name = n]
      OBVIOUS
    <3>2. e.name = n
      <4>1. dir[s] \in Entries
        BY <2>3, SlotFields DEF Rename
      <4> QED BY <3>1, <4>1 DEF Entries
    <3>3. E = [dir EXCEPT ![s] = e] /\ Named(n) = {}
      BY <1>4, <2>3, <3>1 DEF Rename
    <3> QED BY <2>2, <3>2, <3>3
  <2>4. ASSUME NEW n \in Names, NEW b \in Blocks, DriveSaves(s, n, b)
        PROVE  Entered
    <3>1. PICK e : e = Entry(n, TRUE, b)
      OBVIOUS
    <3>2. e.name = n
      BY <3>1 DEF Entry
    <3>3. E = [dir EXCEPT ![s] = e] /\ Named(n) = {}
      BY <1>4, <2>4, <3>1 DEF DriveSaves
    <3> QED BY <2>2, <3>2, <3>3
  <2> QED BY <2>1, <2>3, <2>4
<1> QED BY <1>2, <1>3, <1>4, <1>5, NamesSlot

\* After a kill no channel is open, and no file has a name twice.
LEMMA NamesKilled ==
    ASSUME VdriveTypeOK, VdriveTypeOK', NamesInv,
           \/ Kill \/ AttachOver \/ KilledInValidate \/ KilledInDrive \/ Validated
           \/ \E c \in Channels : KilledInClose(c)
           \/ \E s \in Slots : KilledInScratch(s)
    PROVE  NamesInv'
<1>1. dir \in Dirs /\ dir' \in Dirs /\ NamesApart(dir)
  BY StateIs DEF VdriveTypeOK, Dirs, NamesInv, NamesFor
<1>2. OpenIn(chan') = {}
  <2>1. CASE Validated
    BY <2>1 DEF Validated, AllClosed, Command, Open, OpenIn
  <2>2. CASE ~ Validated
    BY <2>2 DEF Kill, AttachOver, KilledInValidate, KilledInDrive, KilledInClose, KilledInScratch,
                Killed, OpenIn
  <2> QED BY <2>1, <2>2
<1>3. NamesApart(dir')
  <2>1. CASE dir' = dir
    BY <1>1, <2>1
  <2>2. ASSUME NEW upTo, dir' = Deleted(upTo)
        PROVE  NamesApart(dir')
    <3>1. \A s \in Slots : dir'[s] # None => dir[s] # None /\ dir'[s].name = dir[s].name
      BY <2>2 DEF Deleted
    <3> QED BY <1>1, <3>1, NamesStay
  <2>3. ASSUME NEW c \in Channels, KilledInClose(c)
        PROVE  NamesApart(dir')
    <3>1. c \in OpenIn(chan)
      BY <2>3 DEF KilledInClose, OpenIn
    <3>2. PICK b \in LastBlock(chan[c]) :
            \/ dir' = dir
            \/ dir' = [dir EXCEPT ![Flushed(c, b).slot] = Closing(Flushed(c, b))]
      BY <2>3 DEF KilledInClose
    <3>3. CASE dir' = [dir EXCEPT ![Flushed(c, b).slot] = Closing(Flushed(c, b))]
      BY <3>1, <3>3, NamesClosed
    <3> QED BY <2>1, <3>2, <3>3
  <2>4. CASE KilledInDrive
    <3>1. PICK E \in Dirs : E = dir'
      BY <1>1
    <3>2. ASSUME NEW s \in Slots, E = [dir EXCEPT ![s] = None]
          PROVE  NamesApart(E)
      <4>1. E[s] = None /\ \A t \in Slots \ {s} : E[t] = dir[t]
        BY <1>1, <3>2 DEF Dirs
      <4> QED BY <1>1, <4>1, NamesStay
    <3>3. ASSUME NEW s \in Slots, NEW n \in Names, NEW b \in Blocks,
                 Named(n) = {}, E = [dir EXCEPT ![s] = Entry(n, TRUE, b)]
          PROVE  NamesApart(E)
      <4>1. PICK e : e = Entry(n, TRUE, b) /\ e.name = n
        <5>1. Entry(n, TRUE, b).name = n
          BY DEF Entry
        <5> QED BY <5>1
      <4>2. E[s] = e /\ \A t \in Slots \ {s} : E[t] = dir[t]
        BY <1>1, <3>3, <4>1 DEF Dirs
      <4>3. \A t \in Slots : dir[t] # None => dir[t].name # n
        BY <3>3 DEF Named
      <4>4. dir \in Dirs /\ E[s].name = n
        BY <1>1, <4>1, <4>2
      <4>5. \A t \in Slots \ {s} : E[t] = dir[t]
        BY <4>2
      <4> QED BY <1>1, <4>3, <4>4, <4>5, NamesNew, SMTT(30)
    <3>4. \/ dir' = dir
          \/ \E s \in Slots : dir' = [dir EXCEPT ![s] = None]
          \/ \E s \in Slots, n \in Names, b \in Blocks :
                Named(n) = {} /\ dir' = [dir EXCEPT ![s] = Entry(n, TRUE, b)]
      BY <2>4 DEF KilledInDrive, ClosedSlots
    <3> QED BY <2>1, <3>1, <3>2, <3>3, <3>4
  <2>5. CASE \/ Kill \/ AttachOver \/ Validated \/ KilledInValidate
             \/ \E s \in Slots : KilledInScratch(s)
    <3>1. dir' = dir \/ \E upTo : dir' = Deleted(upTo)
      BY <2>5 DEF Kill, AttachOver, Validated, KilledInValidate, KilledInScratch, diskVars
    <3> QED BY <2>1, <2>2, <3>1
  <2> QED BY <2>3, <2>4, <2>5
<1> QED BY <1>2, <1>3 DEF NamesInv, NamesFor

LEMMA NamesStep ==
    ASSUME VdriveTypeOK, VdriveTypeOK', NamesInv, Careful, [VdriveNext]_vars
    PROVE  NamesInv'
<1>1. ASSUME dir' = dir, chan' = chan, true_emulation' => true_emulation \/ OpenIn(chan) = {}
      PROVE  NamesInv'
  BY <1>1 DEF NamesInv
<1>2. CASE \/ UNCHANGED vars \/ Refused \/ ReadStatus \/ Initialized \/ ResetByUJ \/ SwitchOff
           \/ \E cmd \in {"I", "V", "UJ", "ATTACH"} : CloseAll(cmd)
  <2>1. dir' = dir /\ chan' = chan /\ (true_emulation' => true_emulation)
    BY <1>2 DEF vars, diskVars, Refused, ReadStatus, Initialized, ResetByUJ, SwitchOff, CloseAll,
                Command
  <2> QED BY <1>1, <2>1
<1>3. CASE SwitchOn
  <2>1. dir' = dir /\ chan' = chan /\ OpenIn(chan) = {}
    BY <1>3 DEF SwitchOn, MaySwitch, Open, OpenIn, diskVars
  <2> QED BY <1>1, <2>1
<1>4. ASSUME NEW c \in Channels, Close(c)
      PROVE  NamesInv'
  BY <1>4, NamesClose DEF Close
<1>5. CASE CloseNext
  BY <1>5, NextClosedIs, NamesClose
<1>6. ASSUME NEW c \in Channels,
             \/ \E n \in Names : OpenNew(c, n)
             \/ \E s \in Slots : OpenReplace(c, s) \/ OpenAppend(c, s)
      PROVE  NamesInv'
  BY <1>6, NamesOpen
<1>7. ASSUME NEW c \in Channels, WriteByte(c) \/ WriteBlock(c) \/ WriteRefused(c)
      PROVE  NamesInv'
  BY <1>7, NamesWrite
<1>8. ASSUME NEW s \in Slots,
             \/ Scratch(s) \/ DriveScratches(s)
             \/ \E n \in Names : Rename(s, n) \/ \E b \in Blocks : DriveSaves(s, n, b)
      PROVE  NamesInv'
  BY <1>8, NamesDir
<1>9. CASE \/ Kill \/ AttachOver \/ KilledInValidate \/ KilledInDrive \/ Validated
           \/ \E c \in Channels : KilledInClose(c)
           \/ \E s \in Slots : KilledInScratch(s)
  BY <1>9, NamesKilled
<1> QED BY <1>2, <1>3, <1>4, <1>5, <1>6, <1>7, <1>8, <1>9 DEF VdriveNext

----------------------------------------------------------------------------
LEMMA StoreWhole ==
    ASSUME VdriveTypeOK, VdriveTypeOK', DriveInv, TextsInv, Careful, [VdriveNext]_vars,
           ~ torn', ~ Validated
    PROVE  TextsInv' /\ Files!Operate
<1>1. CASE UNCHANGED vars
  BY <1>1, StoreQuiet
<1>2. ASSUME NEW c \in Channels, Close(c)
      PROVE  TextsInv' /\ Files!Operate
  BY <1>2, StoreClose DEF Close, Served
<1>3. CASE CloseNext
  <2>1. PICK c \in Channels : CloseFile(c)
    BY <1>3, NextClosedIs
  <2>2. ~ true_emulation
    BY <1>3 DEF CloseNext, Open, OpenIn, DriveInv, BitmapsTrue
  <2> QED BY <2>1, <2>2, StoreClose
<1>4. ASSUME NEW c \in Channels, NEW n \in Names, OpenNew(c, n)
      PROVE  TextsInv' /\ Files!Operate
  <2>1. PICK s : s \in Slots
    BY <1>4 DEF OpenNew
  <2> QED BY <1>4, <2>1, StoreOpen
<1>5. ASSUME NEW c \in Channels, NEW s \in Slots, OpenReplace(c, s) \/ OpenAppend(c, s)
      PROVE  TextsInv' /\ Files!Operate
  <2>1. dir[s].name \in Names
    BY <1>5, SlotFields DEF OpenReplace, OpenAppend
  <2> QED BY <1>5, <2>1, StoreOpen
<1>6. ASSUME NEW c \in Channels, WriteByte(c) \/ WriteBlock(c) \/ WriteRefused(c)
      PROVE  TextsInv' /\ Files!Operate
  BY <1>6, StoreWrite
<1>7. ASSUME NEW s \in Slots, Scratch(s) \/ DriveScratches(s)
      PROVE  TextsInv' /\ Files!Operate
  BY <1>7, StoreDelete
<1>8. ASSUME NEW s \in Slots, NEW n \in Names, Rename(s, n)
      PROVE  TextsInv' /\ Files!Operate
  BY <1>8, StoreRename
<1>9. ASSUME NEW s \in Slots, NEW n \in Names, NEW b \in Blocks, DriveSaves(s, n, b)
      PROVE  TextsInv' /\ Files!Operate
  BY <1>9, StoreSave
<1>10. CASE Kill \/ AttachOver
  BY <1>10, StoreKill
<1>11. CASE KilledInValidate \/ \E c \in Channels : KilledInClose(c)
  BY <1>11, StoreCutOff
<1>12. CASE \/ Refused \/ ReadStatus \/ Initialized \/ ResetByUJ \/ SwitchOn \/ SwitchOff
            \/ \E cmd \in {"I", "V", "UJ", "ATTACH"} : CloseAll(cmd)
  BY <1>12, StoreQuiet
<1>13. ~ KilledInDrive /\ \A s \in Slots : ~ KilledInScratch(s)
  BY DEF KilledInDrive, KilledInScratch
<1> QED BY <1>1, <1>2, <1>3, <1>4, <1>5, <1>6, <1>7, <1>8, <1>9, <1>10, <1>11, <1>12, <1>13
        DEF VdriveNext

LEMMA StoreStep ==
    ASSUME VdriveTypeOK, VdriveTypeOK', NamesInv, ~ torn => DriveInv /\ TextsInv,
           Careful, [VdriveNext]_vars
    PROVE  (~ torn' => TextsInv') /\ Files!Next
<1>1. torn \in BOOLEAN /\ torn' \in BOOLEAN
  BY DEF VdriveTypeOK
<1>2. CASE torn'
  <2>1. CASE ~ torn
    BY <1>2, <2>1, StoreTears DEF Files!Next
  <2>2. CASE torn
    BY <1>2, <2>2 DEF Files!Next
  <2> QED BY <1>2, <2>1, <2>2
<1>3. CASE ~ torn' /\ Validated
  <2>1. Conflicts = {}
    <3>1. CASE torn
      BY <1>3, <3>1 DEF Validated
    <3>2. CASE ~ torn
      BY <3>2, NoConflicts DEF DriveInv, Sound
    <3> QED BY <3>1, <3>2
  <2>2. TextsInv' /\ Files!Repair
    BY <1>3, <2>1, StoreValidate DEF NamesInv, NamesFor
  <2>3. CASE torn
    BY <1>3, <2>2, <2>3 DEF Files!Next
  <2>4. CASE ~ torn
    BY <1>3, <2>2, <2>4 DEF Files!Next, Files!Operate, Files!Report, Files!Repair
  <2> QED BY <2>2, <2>3, <2>4
<1>4. CASE ~ torn' /\ ~ Validated
  <2>1. ~ torn
    BY <1>1, <1>4, TornKept
  <2>2. TextsInv' /\ Files!Operate
    BY <1>4, <2>1, StoreWhole
  <2> QED BY <1>4, <2>1, <2>2 DEF Files!Next
<1> QED BY <1>2, <1>3, <1>4

LEMMA InitStore ==
    ASSUME VdriveInit
    PROVE  TextsInv /\ NamesInv /\ Files!Init
<1>1. ClosedIn(dir) = {} /\ OpenIn(chan) = {} /\ \A s \in Slots : dir[s] = None
  BY DEF VdriveInit, ClosedIn, OpenIn
<1>2. TextsInv /\ NamesInv
  BY <1>1 DEF TextsInv, TextsFor, NamesInv, NamesFor, NamesApart
<1>3. FilesIn(dir, link, data) = [n \in Names |-> None]
  BY <1>1 DEF FilesIn
<1>4. HandedIn(chan) = [c \in Channels |-> None]
  BY DEF VdriveInit, HandedIn, Handed
<1>5. last_code = "OK" /\ torn = FALSE
  BY DEF VdriveInit
<1> QED BY <1>2, <1>3, <1>4, <1>5, FilesAre DEF Files!Init

(* To the programs of a careful user the drive is a store of files: a file  *)
(* becomes what was written when it is closed, one that is replaced stays   *)
(* what it was until then, nothing done to one file changes another, and a  *)
(* file that a full disk has left incomplete holds nothing but bytes that   *)
(* were written, in order, and there is an error to report.  Killed between *)
(* the writes of directory and bitmap it has changed one file at most; then *)
(* nothing is promised until a validate that succeeds, which leaves the     *)
(* files as it finds them.                                                  *)
THEOREM VirtualDriveIsStore == Careful /\ VdriveSpec => ImplementsFiles
<1> SUFFICES ASSUME Careful PROVE VdriveSpec => ImplementsFiles
  OBVIOUS
<1> DEFINE Inv == VdriveTypeOK /\ NamesInv /\ (~ torn => DriveInv /\ TextsInv)
<1>1. VdriveInit => Inv /\ Files!Init
  BY InitTypes, InitSound, InitStore
<1>2. Inv /\ [VdriveNext]_vars => Inv' /\ Files!Next
  BY StepTypes, StepSound, NamesStep, StoreStep
<1> HIDE DEF Inv
<1> QED BY <1>1, <1>2, PTL DEF VdriveSpec, ImplementsFiles, Files!Spec
==============================================================================
