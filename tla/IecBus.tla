-------------------------------- MODULE IecBus --------------------------------
(****************************************************************************)
(* The serial bus between the C64 and its emulated drives: iecbus.c with    *)
(* c64iec.c, the ports of cia2 and of the drives, and the switches of       *)
(* drive-resources.c.                                                       *)
(*                                                                          *)
(* A line is high unless somebody pulls it.  What each side pulls, and the  *)
(* lines that result, are kept in a record that is brought up to date at    *)
(* every store to a port.  Drives lag behind: an access of the main CPU     *)
(* lets them catch up first, one after the other.  When and how far is the  *)
(* concern of DriveSync; here a drive is behind or not.  The clock line is  *)
(* left out: it is the data line without the acknowledgement of ATN.  The   *)
(* types 2000 and 4000, whose ATN goes to CA2 of another via, are too.      *)
(****************************************************************************)
EXTENDS Naturals, Sequences

CONSTANTS
    Units,          \* the drives, two or more, in the order in which they are looked at
    Types,          \* drive types considered
    CpuStores,      \* what the main CPU stores to its port, and the drives to
    DriveStores,    \*   theirs
    Selecting       \* the drives whose programs choose the edge of ATN they
                    \* wait for, and for which `came' is kept

VARIABLES
    pa,             \* what the port of cia2 releases: lines to BOOLEAN, old_pa
    cpu_bus,        \* iecbus.cpu_bus
    drv_data,       \* iecbus.drv_data: drive to [data, atna]
    drv_bus,        \* iecbus.drv_bus: does the drive let go of the data line?
    cpu_port,       \* iecbus.cpu_port, the data line as the main CPU sees it
    drv_port,       \* iecbus.drv_port, both lines as the drives see them
    iec_old_atn,
    pb,             \* what the drive's port pulls: drive to [data, atna]
    atnFlag,        \* an edge of ATN waits in the drive's via or cia
    pcr,            \* bit 0 of the via's PCR, the edge: drive to BOOLEAN
    truedrive,      \* resource DriveTrueEmulation
    type,           \* resource Drive8Type, ...
    drivetype,      \* iecbus_status_set's own idea of it
    enable,
    behind,         \* drives with main cycles to catch up with
    loop,           \* where the one thread is, see LoopState
    spoken,         \* history: ports stored to since they were last reset or cut off
    came            \* history: the levels to which ATN has come since the drive
                    \* last cleared its flag, or chose its edge

lines == <<cpu_bus, drv_data, drv_bus, cpu_port, drv_port>>
switches == <<truedrive, type, drivetype, enable>>
via == <<atnFlag, pcr, came>>
busVars == <<pa, lines, iec_old_atn, pb, via, switches, behind, loop, spoken>>

Drive == {Units[i] : i \in 1 .. Len(Units)}
Lines == [atn : BOOLEAN, data : BOOLEAN]
Outputs == [atna : BOOLEAN, data : BOOLEAN]
High == [atn |-> TRUE, data |-> TRUE]
Low == [atn |-> FALSE, data |-> FALSE]
AllPulled == [atna |-> TRUE, data |-> TRUE]
NothingPulled == [atna |-> FALSE, data |-> FALSE]

ASSUME UnitsAssumption == Units \in Seq(STRING) /\ Len(Units) >= 2
ASSUME TypesAssumption == Types \subseteq {"NONE", "1541", "1581"} /\ "NONE" \in Types
ASSUME StoresAssumption == CpuStores \subseteq Lines /\ DriveStores \subseteq Outputs
\* In `spoken' these two stand for the main CPU's port and for the ports' lines.
ASSUME NamesAssumption == Drive \intersect {"cpu", "ports"} = {}

\* The CPU between two instructions; or drives in `todo' catching up, one by
\* one, and then the store of pa, a look at the bus, or the rest of a frame.
Main == [at |-> "main"]
Catching(todo, then) == [at |-> "catching", todo |-> todo, then |-> then]
LoopState ==
    {Main} \union
    {Catching(SubSeq(Units, i, Len(Units)), t) :
        i \in 1 .. Len(Units) + 1, t \in {"store", "read", "frame"}}

\* iecbus_device[d] = IECBUS_DEVICE_TRUEDRIVE
OnBus(d) == truedrive /\ drivetype[d]
BusDrives == {d \in Drive : OnBus(d)}

----------------------------------------------------------------------------
(* Faults that the properties below must notice; none is used by the model. *)
CatchesUp_ReadsOnly(d, then) == enable[d] /\ then # "store"
AnswerTo_AtnForgotten(d, atn) == drv_bus[d]
AtnSeen_PcrIgnored(d, old, new) == old /\ ~ new
----------------------------------------------------------------------------
Init ==
    /\ pa = Low
    /\ cpu_bus = High
    /\ drv_data = [d \in Drive |-> NothingPulled]
    /\ drv_bus = [d \in Drive |-> TRUE]
    /\ cpu_port = TRUE
    /\ drv_port = High
    /\ iec_old_atn = TRUE
    /\ pb = [d \in Drive |-> AllPulled]
    /\ atnFlag = [d \in Drive |-> FALSE]
    /\ pcr = [d \in Drive |-> FALSE]
    /\ came = [d \in Drive |-> {}]
    /\ truedrive = TRUE
    /\ type \in [Drive -> Types]
    /\ drivetype = [d \in Drive |-> type[d] # "NONE"]
    /\ enable = drivetype
    /\ behind = {}
    /\ loop = Main
    /\ spoken = {}

\* Does a drive that pulls `data' let go of the data line?  The acknowledgement
\* of ATN is made by the drive's hardware.
LetsGo(t, data, atn) ==
    /\ ~ data.data
    /\ IF t = "1541" THEN data.atna # atn ELSE ~ data.atna \/ atn

\* iec_update_ports
UpdatePorts ==
    /\ cpu_port' = (cpu_bus'.data /\ \A d \in Drive : drv_bus'[d])
    /\ drv_port' = [data |-> cpu_port', atn |-> cpu_bus'.atn]

----------------------------------------------------------------------------
(* The main CPU.                                                            *)

MainInstruction ==
    /\ loop = Main
    /\ behind' = {d \in Drive : enable[d]}
    /\ UNCHANGED <<pa, lines, iec_old_atn, pb, via, switches, loop, spoken>>

\* store_ciapa and read_ciapa up to the drives: a store calls the bus only if
\* the port changes.  With no drive on the bus the record is left alone: the
\* store goes to iec_fast_1541, from where the main CPU reads it back.
Access(then, out) ==
    /\ loop = Main
    /\ then = "store" => out # pa
    /\ then = "read" => out = pa
    /\ IF BusDrives = {}
       THEN /\ spoken' = IF out = pa THEN spoken ELSE spoken \ {"cpu"}
            /\ UNCHANGED loop
       ELSE /\ loop' = Catching(Units, then)
            /\ UNCHANGED spoken
    /\ pa' = out
    /\ UNCHANGED <<lines, iec_old_atn, pb, via, switches, behind>>

\* drive_vsync_hook, for drives that do not skip.
FrameEnd ==
    /\ loop = Main
    /\ loop' = Catching(Units, "frame")
    /\ UNCHANGED <<pa, lines, iec_old_atn, pb, via, switches, behind, spoken>>

----------------------------------------------------------------------------
(* The drives.                                                              *)

\* With one of the first two drives alone on the bus, a store looks at no other.
CatchesUp(d, then) ==
    /\ enable[d]
    /\ then = "store" /\ BusDrives \in {{Units[1]}, {Units[2]}} => OnBus(d)

Runs(d) ==
    /\ loop.at = "catching"
    /\ loop.todo # <<>>
    /\ d = Head(loop.todo)
    /\ CatchesUp(d, loop.then)
    /\ d \in behind

\* store_prb, store_ciapb
DriveStore(d, out) ==
    /\ Runs(d)
    /\ out # pb[d]
    /\ pb' = [pb EXCEPT ![d] = out]
    /\ drv_data' = [drv_data EXCEPT ![d] = out]
    /\ drv_bus' = [drv_bus EXCEPT ![d] = LetsGo(type[d], out, cpu_bus.atn)]
    /\ UNCHANGED cpu_bus
    /\ UpdatePorts
    /\ spoken' = spoken \union {d, "ports"}
    /\ UNCHANGED <<pa, iec_old_atn, via, switches, behind, loop>>

\* The via or the cia of drive d as a reset leaves it.
ViaReset(ds) ==
    /\ atnFlag' = [d \in Drive |-> d \notin ds /\ atnFlag[d]]
    /\ pcr' = [d \in Drive |-> d \notin ds /\ pcr[d]]
    /\ came' = [d \in Drive |-> IF d \in ds THEN {} ELSE came[d]]

\* The interrupt routine reads the port and so clears the flag.
DriveServes(d) ==
    /\ Runs(d)
    /\ atnFlag' = [atnFlag EXCEPT ![d] = FALSE]
    /\ came' = [came EXCEPT ![d] = {}]
    /\ UNCHANGED <<pa, lines, iec_old_atn, pb, pcr, switches, behind, loop, spoken>>

\* The level to which ATN falls or rises at the edge that drive d waits for.
\* Between the bus and the via is an inverter; a cia's flag falls only.
AwaitedBy(t, bit) == IF t = "1581" THEN FALSE ELSE ~ bit
Awaited(d) == AwaitedBy(type[d], pcr[d])

\* The drive's program stores the PCR.  What waits counts as of the new edge.
SelectEdge(d) ==
    /\ d \in Selecting
    /\ Runs(d)
    /\ type[d] # "1581"
    /\ pcr' = [pcr EXCEPT ![d] = ~ @]
    /\ came' = [came EXCEPT ![d] =
                    IF atnFlag[d] THEN {AwaitedBy(type[d], pcr'[d])} ELSE {}]
    /\ UNCHANGED <<pa, lines, iec_old_atn, pb, atnFlag, switches, behind, loop, spoken>>

NextDrive ==
    /\ loop.at = "catching"
    /\ loop.todo # <<>>
    /\ LET d == Head(loop.todo)
       IN behind' = IF CatchesUp(d, loop.then) THEN behind \ {d} ELSE behind
    /\ loop' = [loop EXCEPT !.todo = Tail(loop.todo)]
    /\ UNCHANGED <<pa, lines, iec_old_atn, pb, via, switches, spoken>>

----------------------------------------------------------------------------
(* The access itself, with the drives at the main clock.                    *)

\* Either change of ATN is signalled to the drive's via, only the fall to a cia.
AtnSeen(d, old, new) == new # old /\ new = Awaited(d)

\* The levels to which ATN has come as the drives read it.
AtnCame(new) ==
    [d \in Drive |-> IF d \in Selecting /\ OnBus(d) /\ drv_port.atn # new
                     THEN came[d] \union {new} ELSE came[d]]

\* drv_bus of a drive, worked out again with the new ATN.
AnswerTo(d, atn) ==
    IF OnBus(d) THEN LetsGo(type[d], drv_data[d], atn) ELSE drv_bus[d]

CaughtUp(then) == loop.at = "catching" /\ loop.todo = <<>> /\ loop.then = then

\* iecbus_cpu_write_conf1, _conf2 and _conf3
Store ==
    /\ CaughtUp("store")
    /\ cpu_bus' = pa
    /\ iec_old_atn' = cpu_bus'.atn
    /\ atnFlag' = [d \in Drive |->
            atnFlag[d] \/ (OnBus(d) /\ AtnSeen(d, iec_old_atn, cpu_bus'.atn))]
    /\ drv_bus' = [d \in Drive |-> AnswerTo(d, cpu_bus'.atn)]
    /\ UNCHANGED <<drv_data, pcr>>
    /\ UpdatePorts
    /\ came' = AtnCame(drv_port'.atn)
    /\ spoken' = spoken \union {"cpu", "ports"}
    /\ loop' = Main
    /\ UNCHANGED <<pa, pb, switches, behind>>

\* iecbus_cpu_read_conf1, _conf2 and _conf3 return cpu_port.
Look ==
    /\ CaughtUp("read") \/ CaughtUp("frame")
    /\ loop' = Main
    /\ UNCHANGED <<pa, lines, iec_old_atn, pb, via, switches, behind, spoken>>

----------------------------------------------------------------------------
(* The user.                                                                *)

\* machine_drive_port_default of the drives in `off', which updates no port.
PortDefault(off) ==
    /\ drv_bus' = [d \in Drive |-> d \in off \/ drv_bus[d]]
    /\ drv_data' = [d \in Drive |-> IF d \in off THEN NothingPulled ELSE drv_data[d]]
    /\ spoken' = spoken \ (off \union IF off = {} THEN {} ELSE {"ports"})
    /\ behind' = behind \ off
    /\ UNCHANGED <<cpu_bus, cpu_port, drv_port>>

\* set_drive_true_emulation
SetTrueEmulation(on) ==
    /\ loop = Main
    /\ truedrive' = on
    /\ IF on
       THEN /\ enable' = [d \in Drive |-> enable[d] \/ type[d] # "NONE"]
            /\ behind' = {}
            /\ UNCHANGED <<lines, spoken>>
       ELSE /\ enable' = [d \in Drive |-> FALSE]
            /\ PortDefault(Drive)
    /\ UNCHANGED <<pa, iec_old_atn, pb, via, type, drivetype, loop>>

\* drive_resources_type, with the reset of drivecpu_init.  Of a drive that is
\* chosen while there is no true emulation the bus does not hear.
SetType(d, t) ==
    /\ loop = Main
    /\ type' = [type EXCEPT ![d] = t]
    /\ IF t = "NONE"
       THEN /\ enable' = [enable EXCEPT ![d] = FALSE]
            /\ drivetype' = [drivetype EXCEPT ![d] = FALSE]
            /\ PortDefault({d})
            /\ UNCHANGED <<pb, via>>
       ELSE /\ enable' = [enable EXCEPT ![d] = truedrive]
            /\ drivetype' = [drivetype EXCEPT ![d] = truedrive \/ @]
            /\ pb' = [pb EXCEPT ![d] = AllPulled]
            /\ ViaReset({d})
            /\ behind' = behind \ {d}
            /\ spoken' = spoken \ {d}
            /\ UNCHANGED lines
    /\ UNCHANGED <<pa, iec_old_atn, truedrive, loop>>

\* ciacore_reset of cia2 and drive_reset: ports float, but the bus is not told.
MachineReset ==
    /\ loop = Main
    /\ pa' = Low
    /\ pb' = [d \in Drive |-> AllPulled]
    /\ ViaReset(Drive)
    /\ behind' = {}
    /\ spoken' = spoken \intersect {"ports"}
    /\ UNCHANGED <<lines, iec_old_atn, switches, loop>>

User ==
    \/ \E on \in BOOLEAN : SetTrueEmulation(on)
    \/ \E d \in Drive, t \in Types : SetType(d, t)
    \/ MachineReset

----------------------------------------------------------------------------
Next ==
    \/ MainInstruction
    \/ \E then \in {"store", "read"}, out \in CpuStores \union {pa} : Access(then, out)
    \/ FrameEnd
    \/ \E d \in Drive, out \in DriveStores : DriveStore(d, out)
    \/ \E d \in Drive : DriveServes(d) \/ SelectEdge(d)
    \/ NextDrive
    \/ Store
    \/ Look
    \/ User

Spec == Init /\ [][Next]_busVars

----------------------------------------------------------------------------
TypeOK ==
    /\ pa \in Lines /\ cpu_bus \in Lines /\ drv_port \in Lines
    /\ drv_data \in [Drive -> Outputs] /\ pb \in [Drive -> Outputs]
    /\ drv_bus \in [Drive -> BOOLEAN] /\ atnFlag \in [Drive -> BOOLEAN]
    /\ pcr \in [Drive -> BOOLEAN] /\ came \in [Drive -> SUBSET BOOLEAN]
    /\ type \in [Drive -> Types]
    /\ drivetype \in [Drive -> BOOLEAN] /\ enable \in [Drive -> BOOLEAN]
    /\ behind \subseteq {d \in Drive : enable[d]}
    /\ loop \in LoopState
    /\ spoken \subseteq Drive \union {"cpu", "ports"}

(* Every drive that is enabled is on the bus, as iecbus_status_set's table  *)
(* has it.                                                                  *)
EnabledIsOnBus == \A d \in Drive : enable[d] => OnBus(d)

Speaks(d) == enable[d] => OnBus(d) /\ d \in spoken

(* What the main CPU reads is the wired AND of what everybody's port pulls  *)
(* at that moment, the hardware's answer to ATN included, although it is    *)
(* taken from a record of what was pulled.  A port that was reset, or cut   *)
(* off, counts from its next store.                                         *)
ReadsAreTrue ==
    CaughtUp("read") /\ {"cpu", "ports"} \subseteq spoken /\ (\A d \in Drive : Speaks(d)) =>
        /\ behind = {}
        /\ cpu_port = (pa.data /\ \A d \in BusDrives : LetsGo(type[d], pb[d], pa.atn))

(* No drive executes cycles from before a store with the lines after it.    *)
StoreFindsNoneBehind ==
    [][cpu_bus' # cpu_bus => behind \intersect BusDrives = {}]_busVars

(* No drive on the bus misses ATN, and none hears it falsely: its flag is   *)
(* up exactly if ATN, as the drive reads it from its port, has made the     *)
(* edge that its program waits for since the program last cleared the flag, *)
(* whatever other edges came and whichever the program waited for before.   *)
AtnReachesAll ==
    \A d \in BusDrives \intersect Selecting : atnFlag[d] <=> Awaited(d) \in came[d]
=============================================================================
