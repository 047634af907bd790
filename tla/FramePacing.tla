----------------------------- MODULE FramePacing -----------------------------
(****************************************************************************)
(* The pace of the emulation under a script: vsync_do_vsync at the end of   *)
(* every emulated frame, the wrapped SDL_GetTicks and SDL_Delay it reads    *)
(* the host's time with, and run_frames and warp_frames, which emulate      *)
(* until frameCounter has advanced.                                         *)
(*                                                                          *)
(* frameCounter counts the calls of SDL_Delay, not the frames: SDL_Delay is *)
(* where the script's on_frame function is called.  While a script warps,   *)
(* time is virtual: SDL_GetTicks stands still and SDL_Delay advances it.    *)
(*                                                                          *)
(* Times are relative.  `lead' is next_frame_start minus the last value of  *)
(* SDL_GetTicks, in timer units; `drift' is what the host's clock plus      *)
(* tick_offset has run on since that value, in milliseconds.                *)
(*                                                                          *)
(* Left out: the adjustment of frame_ticks to the sound buffer, the delays  *)
(* of a full sound buffer and the resynchronisation after a drained one,    *)
(* network play, the wrap of the host's clock after 49 days, and scripts    *)
(* that run frames from within on_frame.                                    *)
(****************************************************************************)
EXTENDS Integers

CONSTANTS
    SCALE,          \* VICE_SDL_TICKS_SCALE: timer units per millisecond
    FrameTicks,     \* frame_ticks_orig, a frame at the speed that is asked for
    Behind,         \* vsyncarch_freq / 8
    MAX_SKIPPED_FRAMES,
    TickRange,      \* 2^32, the values of a Uint32
    RefreshRate,    \* refresh_rate, 0 for automatic
    Hosts,          \* hosts, each the set of milliseconds a frame may take it
    CallTime,       \* milliseconds for a call of on_frame,
    IdleTime,       \*   and for the script between two calls of run_frames
    Overshoot,      \* how much later than asked for the host may wake up
    Users,          \* users, each a set of what is touched: WarpMode, Speed, Pause
    MaxFrames,      \* bound on the argument of run_frames
    MaxDrift,       \* drift saturates here,
    MaxLead,        \*   lead here,
    MaxUncounted    \*   and the count of uncounted frames here

ASSUME ScaleAssumption == SCALE \in Nat \ {0} /\ FrameTicks \in Nat \ {0}
ASSUME WorldAssumption ==
    /\ Hosts \subseteq SUBSET Nat
    /\ CallTime \subseteq Nat /\ IdleTime \subseteq Nat /\ Overshoot \subseteq Nat
ASSUME LimitAssumption ==
    /\ Behind \in Nat /\ MAX_SKIPPED_FRAMES \in Nat /\ RefreshRate \in Nat
    /\ MaxFrames \in Nat /\ MaxDrift \in Nat /\ MaxLead \in Nat
    /\ MaxUncounted \in Nat /\ TickRange \in Nat
\* A Uint32 holds the sleeps that are asked for.
ASSUME TickAssumption == 10 < TickRange /\ MaxLead < SCALE * TickRange
ASSUME BoundAssumption ==
    SCALE * MaxDrift > Behind + 2 * FrameTicks /\ MaxLead > 2 * FrameTicks + SCALE

VARIABLES
    lead, drift,
    warped,         \* is frameDelay zero?
    warp_mode,      \* warp_mode_enabled
    timer_speed,    \* does a speed limit apply?
    frame_ticks,
    suspended,      \* speed_eval_suspended
    sync_reset,
    skipped_redraw,
    at,             \* where the program is: see Place
    caller,         \* who called SDL_Delay: vsync_do_vsync or the pause loop
    ms,             \* its argument; when asleep, what the host was asked for
    script,         \* idle, or in run_frames, or in warp_frames
    toGo,           \* toFrame - frameCounter
    uncounted,      \* history: frames of this call less those counted
    called,         \* history: milliseconds the last call of on_frame took
    host, user      \* which host and which user: they never change

pauseVars == <<warp_mode, timer_speed, skipped_redraw>>
world == <<host, user>>
evalVars == <<suspended, sync_reset, frame_ticks>>
vars == <<lead, drift, warped, pauseVars, evalVars, at, caller, ms, script,
          toGo, uncounted, called, world>>

Place == {"emulating", "callback", "asleep", "paused"}

AtMost(n, bound) == IF n < bound THEN n ELSE bound

Init ==
    /\ lead = 0 /\ drift = 0
    /\ warped = FALSE /\ warp_mode = FALSE /\ timer_speed = TRUE
    /\ suspended = TRUE /\ sync_reset = TRUE /\ frame_ticks = FrameTicks
    /\ skipped_redraw = 0
    /\ at = "emulating" /\ caller = "vsync" /\ ms = 0
    /\ script = "idle" /\ toGo = 0 /\ uncounted = 0 /\ called = 0
    /\ host \in Hosts /\ user \in Users

----------------------------------------------------------------------------
(* Faults that the properties below must notice; none is used by the model. *)
Elapsed_AlsoWhenWarped(t) == drift + t
DriftAfterWarpDelay_OffsetKept == drift - ms
SpeedEvalResumes_Not == UNCHANGED suspended
SuspendSpeedEval_Forgotten == UNCHANGED <<suspended, sync_reset, lead>>
----------------------------------------------------------------------------
(* SDL_GetTicks, t milliseconds after the last event: how far the time it   *)
(* returns has advanced, and what stays unread.                             *)
Elapsed(t) == IF warped THEN 0 ELSE drift + t
Unread(t) == IF warped THEN AtMost(drift + t, MaxDrift) ELSE 0

\* vsync_suspend_speed_eval: next_frame_start is not used before it is set.
SuspendSpeedEval == suspended' = TRUE /\ sync_reset' = TRUE /\ lead' = 0

----------------------------------------------------------------------------
\* run_frames and warp_frames, called by the script.
RunFrames(kind, n, idle) ==
    /\ script = "idle"
    /\ script' = kind
    /\ toGo' = n
    /\ uncounted' = 0
    /\ warped' = (kind = "warp")
    /\ drift' = AtMost(drift + idle, MaxDrift)
    /\ UNCHANGED <<lead, pauseVars, evalVars, at, caller, ms, called>>

Running == at = "emulating" /\ script # "idle"

\* toFrame > frameCounter no longer holds, and the call returns.
RunReturns ==
    /\ Running
    /\ toGo = 0
    /\ script' = "idle"
    /\ warped' = FALSE
    /\ uncounted' = 0
    /\ UNCHANGED <<lead, drift, pauseVars, evalVars, at, caller, ms, toGo,
                   called>>

----------------------------------------------------------------------------
\* Does vsync_do_vsync sleep when the next frame starts l units from now?
MustWait(l) == ~ warp_mode /\ timer_speed /\ l > 0

(* Is the next frame left undrawn, when l units are left to the start of    *)
(* this one, a frame lasts `ticks' and `skipped' frames were undrawn?       *)
MaySkip(skipped) == skipped < MAX_SKIPPED_FRAMES
SkipNextFrame(l, ticks, skipped) ==
    /\ MaySkip(skipped)
    /\ \/ warp_mode
       \/ skipped < RefreshRate - 1
       \/ (~ timer_speed \/ -l > 3 * ticks) /\ RefreshRate = 0

Redraw(l, ticks, skipped) ==
    skipped_redraw' = IF SkipNextFrame(l, ticks, skipped)
        THEN AtMost(skipped + 1, MAX_SKIPPED_FRAMES + 1) ELSE 0

\* Too far behind: the frames missed so far are given up.
Lost(l) == -l >= Behind

\* The start of the next frame, when this frame's was due l units from now.
NextStart(l, ticks) == AtMost((IF Lost(l) THEN 0 ELSE l) + ticks, MaxLead)

\* After a resynchronisation, half of an adjustment is taken back.
FrameTicksNow ==
    IF sync_reset THEN (FrameTicks + frame_ticks) \div 2 ELSE frame_ticks

SpeedEvalResumes == suspended' = FALSE

\* SDL_Delay counts a frame and calls the script.
EntersDelay(who, delay) ==
    /\ at' = "callback"
    /\ caller' = who
    /\ ms' = delay
    /\ toGo' = IF toGo > 0 THEN toGo - 1 ELSE 0

(* The end of an emulated frame, which took t milliseconds: too early,      *)
(* vsync_do_vsync sleeps, and otherwise it returns.                         *)
Vsync(t) ==
    LET l == IF suspended THEN 0 ELSE lead - SCALE * Elapsed(t)
        skipped == IF suspended THEN 0 ELSE skipped_redraw IN
    /\ Running
    /\ toGo > 0
    /\ drift' = Unread(t)
    /\ SpeedEvalResumes
    /\ frame_ticks' = FrameTicksNow
    /\ sync_reset' = Lost(l)
    /\ IF MustWait(l)
       THEN /\ EntersDelay("vsync", l \div SCALE)
            /\ lead' = l
            /\ skipped_redraw' = skipped
            /\ UNCHANGED uncounted
       ELSE /\ lead' = NextStart(l, FrameTicksNow)
            /\ Redraw(l, FrameTicksNow, skipped)
            /\ uncounted' = AtMost(uncounted + 1, MaxUncounted)
            /\ UNCHANGED <<at, caller, ms, toGo>>
    /\ UNCHANGED <<warped, warp_mode, timer_speed, script, called>>

\* What follows the sleep; `now' is still the time before it.
DelayReturns(l) ==
    \/ /\ caller = "vsync"
       /\ at' = "emulating"
       /\ lead' = AtMost(l + frame_ticks, MaxLead)
       /\ Redraw(0, frame_ticks, skipped_redraw)
    \/ /\ caller = "pause"
       /\ at' = "paused"
       /\ lead' = 0
       /\ UNCHANGED skipped_redraw

\* tick_offset is set so that the host's clock goes on from `ticks'.
DriftAfterWarpDelay == 0

\* on_frame returns; the rest of SDL_Delay when time is virtual.
WarpDelay ==
    /\ at = "callback"
    /\ warped
    /\ drift' = DriftAfterWarpDelay
    /\ DelayReturns(lead - SCALE * ms)
    /\ UNCHANGED <<warped, warp_mode, timer_speed, evalVars, caller, ms,
                   script, toGo, uncounted, called>>

\* on_frame took t milliseconds, and the host sleeps for the rest.
HostDelay(t) ==
    /\ at = "callback"
    /\ ~ warped
    /\ at' = "asleep"
    /\ ms' = (ms - t) % TickRange
    /\ lead' = lead - SCALE * t
    /\ called' = t
    /\ UNCHANGED <<drift, warped, pauseVars, evalVars, caller, script, toGo,
                   uncounted>>

Wakes(late) ==
    /\ at = "asleep"
    /\ drift' = AtMost(ms + late, MaxDrift)
    /\ DelayReturns(lead)
    /\ UNCHANGED <<warped, warp_mode, timer_speed, evalVars, caller, ms,
                   script, toGo, uncounted, called>>

----------------------------------------------------------------------------
\* set_timer_speed, with a limit or without
SetTimerSpeed(limited) ==
    /\ timer_speed' = limited
    /\ frame_ticks' = IF limited THEN FrameTicks ELSE 0
    /\ SuspendSpeedEval

\* The resources WarpMode and Speed
SetWarpMode ==
    /\ Running
    /\ "WarpMode" \in user
    /\ warp_mode' = ~ warp_mode
    /\ SetTimerSpeed(timer_speed)
    /\ UNCHANGED <<drift, warped, skipped_redraw, at, caller, ms, script, toGo,
                   uncounted, called>>

SetSpeed ==
    /\ Running
    /\ "Speed" \in user
    /\ SetTimerSpeed(~ timer_speed)
    /\ UNCHANGED <<drift, warped, warp_mode, skipped_redraw, at, caller, ms,
                   script, toGo, uncounted, called>>

\* pause_trap: until the user goes on, SDL_Delay is called again and again.
PauseStarts ==
    /\ Running
    /\ "Pause" \in user
    /\ at' = "paused"
    /\ SuspendSpeedEval
    /\ UNCHANGED <<drift, warped, pauseVars, frame_ticks, caller, ms, script,
                   toGo, uncounted, called>>

PauseDelay == 10

PauseGoesOn ==
    /\ at = "paused"
    /\ EntersDelay("pause", PauseDelay)
    /\ drift' = Unread(0)
    /\ uncounted' = IF -uncounted < MaxUncounted THEN uncounted - 1 ELSE uncounted
    /\ UNCHANGED <<lead, warped, pauseVars, evalVars, script, called>>

PauseEnds ==
    /\ at = "paused"
    /\ at' = "emulating"
    /\ UNCHANGED <<lead, drift, warped, pauseVars, evalVars, caller, ms,
                   script, toGo, uncounted, called>>

----------------------------------------------------------------------------
ScriptCalls ==
    \E kind \in {"run", "warp"}, n \in 1 .. MaxFrames, idle \in IdleTime :
        RunFrames(kind, n, idle)

Program ==
    \/ \E t \in host : Vsync(t)
    \/ WarpDelay
    \/ \E t \in CallTime : HostDelay(t)
    \/ \E late \in Overshoot : Wakes(late)
    \/ RunReturns
    \/ PauseGoesOn

User == SetWarpMode \/ SetSpeed \/ PauseStarts \/ PauseEnds

Next == (ScriptCalls \/ Program \/ User) /\ UNCHANGED world

(* The program is one thread that keeps running; nobody must call or press  *)
(* anything.                                                                *)
Spec == Init /\ [][Next]_vars
FairSpec == Spec /\ WF_vars(Program /\ UNCHANGED world)

----------------------------------------------------------------------------
\* The types of the variables.
TypeOK ==
    /\ lead \in Int /\ lead <= MaxLead
    /\ drift \in Int /\ drift <= MaxDrift
    /\ warped \in BOOLEAN /\ warp_mode \in BOOLEAN /\ timer_speed \in BOOLEAN
    /\ suspended \in BOOLEAN /\ sync_reset \in BOOLEAN
    /\ frame_ticks \in 0 .. FrameTicks
    /\ skipped_redraw \in 0 .. MAX_SKIPPED_FRAMES
    /\ at \in Place /\ caller \in {"vsync", "pause"}
    /\ ms \in 0 .. TickRange - 1
    /\ script \in {"idle", "run", "warp"} /\ toGo \in 0 .. MaxFrames
    /\ uncounted \in -MaxUncounted .. MaxUncounted
    /\ called \in CallTime \union {0}
    /\ host \in Hosts /\ user \in Users

(* Virtual time never runs ahead of what tick_offset makes of the host's    *)
(* clock, so that time does not jump back when a warp ends, whatever the    *)
(* order of warped and other runs.                                          *)
TimeNeverRunsBack == drift >= 0

(* However long the machine ran unlimited, paused or warped before, it does *)
(* not owe the host more sleep than one frame when it is limited again.     *)
NoSleepOwed ==
    MustWait(1) /\ ~ suspended /\ ~ warped /\ Running =>
        lead - SCALE * drift < FrameTicks + SCALE

(* Under warp_frames the frames emulated and those counted do not depend on *)
(* the host's speed: a warp leaves at most its first frame uncounted, unless *)
(* the last call of on_frame in real time put the machine behind, and then  *)
(* fewer frames than that call lasted.                                      *)
WarpIsExact ==
    script = "warp" /\ user = {} =>
        uncounted <= 1 \/ FrameTicks * uncounted < SCALE * called

\* The user does not let frames be counted, or lets none be emulated.
Unlimited == warp_mode \/ ~ timer_speed
HeldUp == Unlimited \/ at = "paused"

(* warp_frames returns however slow the host is.                            *)
WarpFramesReturn == script = "warp" ~> script = "idle" \/ HeldUp

(* run_frames returns on a host that emulates frames faster than they last, *)
(* whatever on_frame and the script cost.                                   *)
KeepsUp == \A t \in host : SCALE * t < FrameTicks
RunFramesReturnInTime == script = "run" /\ KeepsUp ~> script = "idle" \/ HeldUp

(* "Run for a specific number of frames" (python_interface.cpp): run_frames *)
(* returns.                                                                 *)
RunFramesReturn == script = "run" ~> script = "idle"

(* However many frames are skipped, while frames are emulated the screen is *)
(* drawn again and again.                                                   *)
DisplayRefreshes ==
    skipped_redraw > 0 ~> skipped_redraw = 0 \/ script = "idle" \/ at = "paused"

(* "We sleep until the start of the next frame" (vsync.c), which is never   *)
(* more than a frame away, or for a step of the pause loop.                 *)
SleepsWithinFrame ==
    at = "asleep" /\ caller = "vsync" => SCALE * ms < FrameTicks + SCALE
=============================================================================
