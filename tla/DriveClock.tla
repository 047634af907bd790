----------------------------- MODULE DriveClock -----------------------------
(* The clock of a drive's CPU: the same loop, without a frame of its own.   *)
(* Its alarms are the timers of its VIAs, which may all be stopped, and its *)
(* guard is called from the main CPU's vsync hook.                          *)
EXTENDS CpuClock

\* drivecpu_prevent_clk_overflow, between two instructions of the drive.
DriveHook ==
    /\ VsyncAlarm = NoAlarm
    /\ loop = Cpu
    /\ clk_guard_prevent_overflow
    /\ UNCHANGED loop

DriveNext == Next \/ DriveHook

DriveSpec == Init /\ [][DriveNext]_vars
=============================================================================
