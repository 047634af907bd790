------------------------- MODULE FramePacingProofs -------------------------
(****************************************************************************)
(* Time never runs back, no sleep is owed, and a warp counts its frames,    *)
(* for any speed of the machine, any hosts and any users.  All times are    *)
(* differences; what the proofs need is how far the start of the next frame *)
(* may be ahead at each place of the program.                               *)
(****************************************************************************)
EXTENDS FramePacing, TLAPS

(* The script waits while the program is anywhere but in the emulation, a   *)
(* warped delay does not sleep, and a pause has suspended the evaluation.   *)
Places ==
    /\ script = "idle" => at = "emulating"
    /\ warped <=> script = "warp"
    /\ at = "asleep" => ~ warped
    /\ at # "emulating" /\ (at = "paused" \/ caller = "pause") => suspended

(* A delay of vsync_do_vsync is what is left of a frame, in milliseconds.   *)
SleepFits ==
    /\ at = "callback" /\ caller = "vsync" =>
           /\ ~ suspended /\ MustWait(lead)
           /\ SCALE * ms <= lead /\ lead < SCALE * ms + SCALE
           /\ ~ warped => lead < FrameTicks + SCALE
    /\ at = "asleep" /\ caller = "vsync" =>
           /\ ~ suspended /\ MustWait(1)
           /\ lead < SCALE * ms + SCALE
           /\ lead < FrameTicks + SCALE

(* At a limited speed the next frame starts within a frame of now.          *)
GapBounded ==
    at = "emulating" /\ MustWait(1) /\ ~ suspended =>
        lead - SCALE * drift < FrameTicks + SCALE

(* At a limited speed there is no adjustment to take back.                  *)
Unadjusted == timer_speed => frame_ticks = FrameTicks

PaceInv ==
    /\ TypeOK /\ TimeNeverRunsBack /\ Places /\ SleepFits /\ GapBounded
    /\ Unadjusted

(* The halves of the types: what is counted, and where the program is.      *)
Numbers ==
    /\ lead \in Int /\ lead <= MaxLead
    /\ drift \in Int /\ drift <= MaxDrift /\ drift >= 0
    /\ skipped_redraw \in 0 .. MAX_SKIPPED_FRAMES
    /\ ms \in 0 .. TickRange - 1
    /\ toGo \in 0 .. MaxFrames
    /\ uncounted \in -MaxUncounted .. MaxUncounted
    /\ frame_ticks \in 0 .. FrameTicks
    /\ called \in CallTime \union {0}
Modes ==
    /\ warped \in BOOLEAN /\ warp_mode \in BOOLEAN /\ timer_speed \in BOOLEAN
    /\ suspended \in BOOLEAN /\ sync_reset \in BOOLEAN
    /\ at \in Place /\ caller \in {"vsync", "pause"}
    /\ script \in {"idle", "run", "warp"}
    /\ host \in Hosts /\ user \in Users

----------------------------------------------------------------------------
LEMMA Halves == Numbers /\ Modes <=> TypeOK /\ TimeNeverRunsBack
BY DEF Numbers, Modes, TypeOK, TimeNeverRunsBack

(* Milliseconds and timer units.                                            *)
LEMMA Units ==
    /\ \A a \in Nat : SCALE * a \in Nat
    /\ \A a \in Int : SCALE * a \in Int
    /\ \A a, b \in Int : a <= b => SCALE * a <= SCALE * b
    /\ \A a, b \in Int : SCALE * (a - b) = SCALE * a - SCALE * b
    /\ \A a \in Int : SCALE * (a + 1) = SCALE * a + SCALE
BY ScaleAssumption

LEMMA Milliseconds ==
    ASSUME NEW l \in Int, l > 0
    PROVE  /\ l \div SCALE \in Nat
           /\ SCALE * (l \div SCALE) <= l
           /\ l < SCALE * (l \div SCALE) + SCALE
BY ScaleAssumption

LEMMA SleepIsUint32 ==
    ASSUME NEW l \in Int, l > 0, l <= MaxLead
    PROVE  l \div SCALE \in 0 .. TickRange - 1
<1>1. SCALE * (l \div SCALE) < SCALE * TickRange
  BY Milliseconds, TickAssumption, LimitAssumption, ScaleAssumption
<1>2. l \div SCALE < TickRange
  BY <1>1, Milliseconds, Units, LimitAssumption, ScaleAssumption
<1> QED BY <1>2, Milliseconds, LimitAssumption

(* A sleep shortened by a call of on_frame is still a Uint32.               *)
LEMMA RestIsUint32 ==
    ASSUME NEW a \in Int, NEW b \in Int
    PROVE  (a - b) % TickRange \in 0 .. TickRange - 1
BY TickAssumption, LimitAssumption

LEMMA AtMostIs ==
    ASSUME NEW n \in Int, NEW bound \in Int
    PROVE  /\ AtMost(n, bound) \in Int
           /\ AtMost(n, bound) <= n /\ AtMost(n, bound) <= bound
           /\ n <= bound => AtMost(n, bound) = n
           /\ n > bound => AtMost(n, bound) = bound
BY DEF AtMost

(* The bounds hold what the model tells apart.                              *)
LEMMA Bounds ==
    /\ SCALE \in Nat /\ SCALE > 0 /\ FrameTicks \in Nat /\ FrameTicks > 0
    /\ Behind \in Nat /\ MaxLead \in Nat /\ MaxDrift \in Nat
    /\ MaxUncounted \in Nat
    /\ SCALE * MaxDrift \in Int
    /\ SCALE * MaxDrift > 2 * FrameTicks
    /\ MaxLead > 2 * FrameTicks + SCALE
<1>1. SCALE * MaxDrift \in Int
  BY Units, LimitAssumption
<1> QED BY <1>1, ScaleAssumption, LimitAssumption, BoundAssumption

LEMMA WithinFrame ==
    /\ \A n \in Int, gone \in Nat :
           n <= FrameTicks => n - gone < FrameTicks + SCALE
    /\ \A n \in Int, left \in Int, gone \in Nat, f \in 0 .. FrameTicks :
           n <= left + f /\ left - gone < SCALE => n - gone < FrameTicks + SCALE
BY ScaleAssumption

(* Taking back half of an adjustment stays within the length of a frame.    *)
LEMMA FrameTicksIs ==
    ASSUME frame_ticks \in 0 .. FrameTicks, sync_reset \in BOOLEAN
    PROVE  /\ FrameTicksNow \in 0 .. FrameTicks
           /\ frame_ticks = FrameTicks => FrameTicksNow = FrameTicks
<1>1. CASE sync_reset
  <2>1. FrameTicksNow = (FrameTicks + frame_ticks) \div 2
    BY <1>1 DEF FrameTicksNow
  <2> QED BY <2>1, Bounds
<1>2. CASE ~ sync_reset
  BY <1>2, Bounds DEF FrameTicksNow
<1> QED BY <1>1, <1>2

LEMMA NextStartIs ==
    ASSUME NEW l \in Int, NEW f \in 0 .. FrameTicks
    PROVE  /\ NextStart(l, f) \in Int /\ NextStart(l, f) <= MaxLead
           /\ l <= 0 => NextStart(l, f) <= FrameTicks
<1>1. PICK start \in Int : /\ NextStart(l, f) = AtMost(start + f, MaxLead)
                           /\ l <= 0 => start <= 0
  BY Bounds DEF NextStart
<1>2. f \in Nat /\ f <= FrameTicks
  BY Bounds
<1>3. start + f \in Int /\ MaxLead \in Int
  BY <1>2, Bounds
<1>4. l <= 0 => start + f <= FrameTicks
  BY <1>1, <1>2, Bounds
<1> QED BY <1>1, <1>3, <1>4, AtMostIs, Bounds

LEMMA HostTakesTime == TypeOK => \A t \in host : t \in Nat
BY WorldAssumption DEF TypeOK

LEMMA RedrawTyped ==
    ASSUME NEW l, NEW f, NEW skipped \in 0 .. MAX_SKIPPED_FRAMES,
           Redraw(l, f, skipped)
    PROVE  skipped_redraw' \in 0 .. MAX_SKIPPED_FRAMES
<1>1. CASE SkipNextFrame(l, f, skipped)
  <2>1. skipped + 1 \in 0 .. MAX_SKIPPED_FRAMES
    BY <1>1, LimitAssumption DEF SkipNextFrame, MaySkip
  <2> QED BY <1>1, <2>1, LimitAssumption DEF Redraw, AtMost
<1>2. CASE ~ SkipNextFrame(l, f, skipped)
  BY <1>2, LimitAssumption DEF Redraw
<1> QED BY <1>1, <1>2

----------------------------------------------------------------------------
(* How far ahead of now a frame's end finds the start of the next.          *)
Due(t) == IF suspended THEN 0 ELSE lead - SCALE * Elapsed(t)
Skipped == IF suspended THEN 0 ELSE skipped_redraw

LEMMA DueIs ==
    ASSUME TypeOK, TimeNeverRunsBack, NEW t \in Nat
    PROVE  /\ Due(t) \in Int /\ Due(t) <= MaxLead
           /\ ~ suspended /\ warped => Due(t) = lead
           /\ ~ suspended /\ ~ warped => Due(t) <= lead - SCALE * drift
           /\ suspended => Due(t) = 0
<1>1. lead \in Int /\ lead <= MaxLead /\ drift \in Int /\ drift >= 0
  BY DEF TypeOK, TimeNeverRunsBack
<1>2. CASE suspended
  BY <1>2, Bounds DEF Due
<1>3. CASE ~ suspended /\ warped
  <2>1. SCALE * 0 = 0
    BY Bounds
  <2> QED BY <1>1, <1>3, <2>1 DEF Due, Elapsed
<1>4. CASE ~ suspended /\ ~ warped
  <2>1. Due(t) = lead - SCALE * (drift + t)
    BY <1>4 DEF Due, Elapsed
  <2>2. /\ SCALE * (drift + t) \in Int /\ SCALE * drift \in Int
        /\ SCALE * drift <= SCALE * (drift + t) /\ 0 <= SCALE * (drift + t)
    <3>1. \A d, n \in Nat : /\ SCALE * (d + n) \in Nat /\ SCALE * d \in Nat
                            /\ SCALE * d <= SCALE * (d + n)
      BY ScaleAssumption
    <3> QED BY <1>1, <3>1
  <2> QED BY <1>1, <1>4, <2>1, <2>2, Bounds
<1> QED BY <1>2, <1>3, <1>4

LEMMA UnreadIs ==
    ASSUME TypeOK, TimeNeverRunsBack, NEW t \in Nat
    PROVE  Unread(t) \in 0 .. MaxDrift
<1>1. drift + t \in Nat
  BY DEF TypeOK, TimeNeverRunsBack
<1> QED BY <1>1, Bounds DEF Unread, AtMost

(* The end of a frame either enters SDL_Delay or goes on.                   *)
LEMMA VsyncCases ==
    ASSUME NEW t, Vsync(t)
    PROVE  /\ Running /\ toGo > 0 /\ drift' = Unread(t) /\ suspended' = FALSE
           /\ frame_ticks' = FrameTicksNow /\ sync_reset' = Lost(Due(t))
           /\ UNCHANGED <<warped, warp_mode, timer_speed, script, called>>
           /\ \/ /\ MustWait(Due(t))
                 /\ EntersDelay("vsync", Due(t) \div SCALE)
                 /\ lead' = Due(t)
                 /\ skipped_redraw' = Skipped
                 /\ UNCHANGED uncounted
              \/ /\ ~ MustWait(Due(t))
                 /\ lead' = NextStart(Due(t), FrameTicksNow)
                 /\ Redraw(Due(t), FrameTicksNow, Skipped)
                 /\ uncounted' = AtMost(uncounted + 1, MaxUncounted)
                 /\ UNCHANGED <<at, caller, ms, toGo>>
BY DEF Vsync, Due, Skipped, SpeedEvalResumes

LEMMA EntersDelayTyped ==
    ASSUME TypeOK, NEW who \in {"vsync", "pause"}, NEW delay \in 0 .. TickRange - 1,
           EntersDelay(who, delay)
    PROVE  /\ at' \in Place /\ caller' \in {"vsync", "pause"}
           /\ ms' \in 0 .. TickRange - 1 /\ toGo' \in 0 .. MaxFrames
<1>1. toGo' \in 0 .. MaxFrames
  BY LimitAssumption DEF EntersDelay, TypeOK
<1> QED BY <1>1 DEF EntersDelay, Place

LEMMA DelayReturnsTyped ==
    ASSUME TypeOK, NEW l \in Int, DelayReturns(l)
    PROVE  /\ lead' \in Int /\ lead' <= MaxLead /\ at' \in Place
           /\ skipped_redraw' \in 0 .. MAX_SKIPPED_FRAMES
<1>1. CASE caller = "vsync"
  <2>1. /\ lead' = AtMost(l + frame_ticks, MaxLead)
        /\ Redraw(0, frame_ticks, skipped_redraw)
        /\ at' = "emulating"
    BY <1>1 DEF DelayReturns
  <2>2. l + frame_ticks \in Int /\ MaxLead \in Int
    BY Bounds DEF TypeOK
  <2>3. skipped_redraw' \in 0 .. MAX_SKIPPED_FRAMES
    BY <2>1, RedrawTyped DEF TypeOK
  <2> QED BY <2>1, <2>2, <2>3, AtMostIs DEF Place
<1>2. CASE caller # "vsync"
  BY <1>2, Bounds DEF DelayReturns, TypeOK, Place
<1> QED BY <1>1, <1>2

----------------------------------------------------------------------------
LEMMA InitPace == Init => PaceInv
<1> SUFFICES ASSUME Init PROVE PaceInv
  OBVIOUS
<1>1. Numbers
  BY Bounds, LimitAssumption, TickAssumption DEF Init, Numbers
<1>2. Modes
  BY DEF Init, Modes, Place
<1>3. Places /\ SleepFits /\ GapBounded /\ Unadjusted
  BY DEF Init, Places, SleepFits, GapBounded, Unadjusted
<1> QED BY <1>1, <1>2, <1>3, Halves DEF PaceInv

(* The places and modes: no step makes up another.                          *)
LEMMA NextKeepsModes == Modes /\ Next => Modes'
<1> SUFFICES ASSUME Modes, Next PROVE Modes'
  OBVIOUS
<1>1. host' = host /\ user' = user
  BY DEF Next, world
<1>2. ASSUME NEW t \in host, Vsync(t) PROVE Modes'
  <2>1. sync_reset' = Lost(Due(t))
    BY <1>2, VsyncCases
  <2>2. sync_reset' \in BOOLEAN
    BY <2>1 DEF Lost
  <2> QED BY <1>1, <1>2, <2>2, VsyncCases DEF EntersDelay, Modes, Place
<1>3. CASE WarpDelay
  <2>1. at' \in {"emulating", "paused"}
    BY <1>3 DEF WarpDelay, DelayReturns
  <2> QED BY <1>1, <1>3, <2>1 DEF WarpDelay, evalVars, Modes, Place
<1>4. ASSUME NEW t \in CallTime, HostDelay(t) PROVE Modes'
  BY <1>1, <1>4 DEF HostDelay, pauseVars, evalVars, Modes, Place
<1>5. ASSUME NEW late \in Overshoot, Wakes(late) PROVE Modes'
  <2>1. at' \in {"emulating", "paused"}
    BY <1>5 DEF Wakes, DelayReturns
  <2> QED BY <1>1, <1>5, <2>1 DEF Wakes, evalVars, Modes, Place
<1>6. CASE RunReturns
  BY <1>1, <1>6 DEF RunReturns, pauseVars, evalVars, Modes
<1>7. CASE PauseGoesOn
  BY <1>1, <1>7 DEF PauseGoesOn, EntersDelay, pauseVars, evalVars, Modes, Place
<1>8. CASE ScriptCalls
  BY <1>1, <1>8 DEF ScriptCalls, RunFrames, pauseVars, evalVars, Modes
<1>9. CASE User
  BY <1>1, <1>9 DEF User, SetWarpMode, SetSpeed, PauseStarts, PauseEnds,
     SetTimerSpeed, SuspendSpeedEval, pauseVars, evalVars, Modes, Place
<1> QED
  BY <1>2, <1>3, <1>4, <1>5, <1>6, <1>7, <1>8, <1>9 DEF Next, Program

(* The numbers, and with them the sign of drift.                            *)
LEMMA VsyncKeepsNumbers ==
    ASSUME TypeOK, TimeNeverRunsBack, NEW t \in host, Vsync(t)
    PROVE  Numbers'
<1>1. t \in Nat
  BY HostTakesTime
<1>2. PICK l \in Int : l = Due(t) /\ l <= MaxLead
  BY <1>1, DueIs
<1>3. drift' \in Int /\ drift' <= MaxDrift /\ drift' >= 0
  <2>1. drift' = Unread(t)
    BY VsyncCases
  <2>2. Unread(t) \in 0 .. MaxDrift
    BY <1>1, UnreadIs
  <2> QED BY <2>1, <2>2, Bounds
<1>6. /\ frame_ticks' \in 0 .. FrameTicks /\ called' = called
      /\ FrameTicksNow \in 0 .. FrameTicks
  BY VsyncCases, FrameTicksIs DEF TypeOK
<1>7. Skipped \in 0 .. MAX_SKIPPED_FRAMES
  BY LimitAssumption DEF Skipped, TypeOK
<1>4. CASE MustWait(Due(t))
  <2>1. /\ EntersDelay("vsync", l \div SCALE) /\ lead' = l /\ l > 0
        /\ skipped_redraw' = Skipped /\ uncounted' = uncounted
    BY <1>2, <1>4, VsyncCases DEF MustWait
  <2>2. l \div SCALE \in 0 .. TickRange - 1
    BY <1>2, <2>1, SleepIsUint32
  <2>3. ms' \in 0 .. TickRange - 1 /\ toGo' \in 0 .. MaxFrames
    BY <2>1, <2>2, EntersDelayTyped
  <2> QED BY <1>2, <1>3, <1>6, <1>7, <2>1, <2>3, Halves DEF Numbers
<1>5. CASE ~ MustWait(Due(t))
  <2>1. /\ lead' = NextStart(l, FrameTicksNow)
        /\ Redraw(l, FrameTicksNow, Skipped)
        /\ uncounted' = AtMost(uncounted + 1, MaxUncounted)
        /\ UNCHANGED <<at, caller, ms, toGo>>
    BY <1>2, <1>5, VsyncCases
  <2>2. lead' \in Int /\ lead' <= MaxLead
    BY <1>6, <2>1, NextStartIs
  <2>3. uncounted' \in -MaxUncounted .. MaxUncounted
    BY <2>1, Halves, Bounds DEF Numbers, AtMost
  <2>4. skipped_redraw' \in 0 .. MAX_SKIPPED_FRAMES
    BY <1>7, <2>1, RedrawTyped
  <2> QED BY <1>3, <1>6, <2>1, <2>2, <2>3, <2>4, Halves DEF Numbers
<1> QED BY <1>4, <1>5

LEMMA DelaysKeepNumbers ==
    ASSUME TypeOK, TimeNeverRunsBack,
           \/ WarpDelay
           \/ \E t \in CallTime : HostDelay(t)
           \/ \E late \in Overshoot : Wakes(late)
    PROVE  Numbers'
<1>1. Numbers
  BY Halves
<1>2. CASE WarpDelay
  <2>1. PICK l \in Int : DelayReturns(l)
    <3>1. \A a \in Int : SCALE * a \in Int
      BY ScaleAssumption
    <3>2. ms \in Int /\ lead \in Int
      BY <1>1, LimitAssumption DEF Numbers
    <3> QED BY <1>2, <3>1, <3>2 DEF WarpDelay
  <2>2. /\ lead' \in Int /\ lead' <= MaxLead
        /\ skipped_redraw' \in 0 .. MAX_SKIPPED_FRAMES
    BY <2>1, DelayReturnsTyped
  <2> QED
    BY <1>1, <1>2, <2>2, Bounds DEF WarpDelay, DriftAfterWarpDelay, evalVars, Numbers
<1>3. ASSUME NEW t \in CallTime, HostDelay(t) PROVE Numbers'
  <2>1. t \in Nat /\ ms \in Int
    BY <1>1, WorldAssumption, LimitAssumption DEF Numbers
  <2>2. ms' = (ms - t) % TickRange /\ lead' = lead - SCALE * t
    BY <1>3 DEF HostDelay
  <2>3. ms' \in 0 .. TickRange - 1
    <3>1. \A a, b \in Int : (a - b) % TickRange \in 0 .. TickRange - 1
      BY RestIsUint32
    <3>2. t \in Int
      BY <2>1
    <3> QED BY <2>1, <2>2, <3>1, <3>2, Zenon
  <2>4. lead' \in Int /\ lead' <= MaxLead
    <3>1. SCALE * t \in Nat
      BY <2>1, ScaleAssumption
    <3> QED BY <1>1, <2>2, <3>1, Bounds DEF Numbers
  <2> QED BY <1>1, <1>3, <2>3, <2>4 DEF HostDelay, Numbers, pauseVars, evalVars
<1>4. ASSUME NEW late \in Overshoot, Wakes(late) PROVE Numbers'
  <2>1. ms + late \in Nat
    BY <1>1, WorldAssumption, LimitAssumption DEF Numbers
  <2>2. drift' \in Int /\ drift' <= MaxDrift /\ drift' >= 0
    BY <1>4, <2>1, Bounds DEF Wakes, AtMost
  <2>3. lead \in Int /\ DelayReturns(lead)
    BY <1>1, <1>4 DEF Wakes, Numbers
  <2>4. /\ lead' \in Int /\ lead' <= MaxLead
        /\ skipped_redraw' \in 0 .. MAX_SKIPPED_FRAMES
    BY <2>3, DelayReturnsTyped
  <2> QED BY <1>1, <1>4, <2>2, <2>4 DEF Wakes, evalVars, Numbers
<1> QED BY <1>2, <1>3, <1>4

LEMMA OthersKeepNumbers ==
    ASSUME TypeOK, TimeNeverRunsBack,
           ScriptCalls \/ RunReturns \/ PauseGoesOn \/ User
    PROVE  Numbers'
<1>1. Numbers
  BY Halves
<1>2. CASE ScriptCalls
  <2>1. PICK kind \in {"run", "warp"}, n \in 1 .. MaxFrames, idle \in IdleTime :
            RunFrames(kind, n, idle)
    BY <1>2 DEF ScriptCalls
  <2>2. drift' \in Int /\ drift' <= MaxDrift /\ drift' >= 0
    <3>1. drift + idle \in Nat
      BY <1>1, WorldAssumption DEF Numbers
    <3> QED BY <2>1, <3>1, Bounds DEF RunFrames, AtMost
  <2>3. toGo' \in 0 .. MaxFrames /\ uncounted' \in -MaxUncounted .. MaxUncounted
    BY <2>1, Bounds, LimitAssumption DEF RunFrames
  <2> QED BY <1>1, <2>1, <2>2, <2>3 DEF RunFrames, Numbers, pauseVars, evalVars
<1>3. CASE RunReturns
  <2>1. uncounted' \in -MaxUncounted .. MaxUncounted
    BY <1>3, Bounds DEF RunReturns
  <2> QED BY <1>1, <1>3, <2>1 DEF RunReturns, Numbers, pauseVars, evalVars
<1>4. CASE PauseGoesOn
  <2>1. PauseDelay \in 0 .. TickRange - 1
    BY TickAssumption, LimitAssumption DEF PauseDelay
  <2>2. ms' \in 0 .. TickRange - 1 /\ toGo' \in 0 .. MaxFrames
    BY <1>4, <2>1, EntersDelayTyped DEF PauseGoesOn
  <2>3. drift' \in Int /\ drift' <= MaxDrift /\ drift' >= 0
    BY <1>4, UnreadIs, Bounds DEF PauseGoesOn
  <2>4. uncounted' \in -MaxUncounted .. MaxUncounted
    BY <1>1, <1>4, Bounds DEF PauseGoesOn, Numbers
  <2> QED
    BY <1>1, <1>4, <2>2, <2>3, <2>4 DEF PauseGoesOn, Numbers, pauseVars, evalVars
<1>5. CASE User
  <2>1. /\ lead' \in {lead, 0} /\ frame_ticks' \in {frame_ticks, 0, FrameTicks}
        /\ UNCHANGED <<drift, skipped_redraw, ms, toGo, uncounted, called>>
    BY <1>5 DEF User, SetWarpMode, SetSpeed, PauseStarts, PauseEnds,
       SetTimerSpeed, SuspendSpeedEval, pauseVars, evalVars
  <2> QED BY <1>1, <2>1, Bounds DEF Numbers
<1> QED BY <1>2, <1>3, <1>4, <1>5

LEMMA NextKeepsTypes ==
    ASSUME TypeOK, TimeNeverRunsBack, Next
    PROVE  TypeOK' /\ TimeNeverRunsBack'
<1>1. Modes'
  BY Halves, NextKeepsModes
<1>2. Numbers'
  BY VsyncKeepsNumbers, DelaysKeepNumbers, OthersKeepNumbers DEF Next, Program
<1> QED BY <1>1, <1>2, Halves DEF Numbers, Modes, TypeOK, TimeNeverRunsBack

----------------------------------------------------------------------------
LEMMA NextKeepsPlaces == Modes /\ Places /\ Next => Places'
<1> SUFFICES ASSUME Modes, Places, Next PROVE Places'
  OBVIOUS
<1>1. ASSUME NEW t \in host, Vsync(t) PROVE Places'
  BY <1>1, VsyncCases DEF EntersDelay, Running, Places, Modes
<1>2. CASE WarpDelay
  BY <1>2 DEF WarpDelay, DelayReturns, evalVars, Places, Modes
<1>3. ASSUME NEW t \in CallTime, HostDelay(t) PROVE Places'
  BY <1>3 DEF HostDelay, pauseVars, evalVars, Places, Modes
<1>4. ASSUME NEW late \in Overshoot, Wakes(late) PROVE Places'
  BY <1>4 DEF Wakes, DelayReturns, evalVars, Places, Modes
<1>5. CASE RunReturns
  BY <1>5 DEF RunReturns, Running, pauseVars, evalVars, Places, Modes
<1>6. CASE PauseGoesOn
  BY <1>6 DEF PauseGoesOn, EntersDelay, pauseVars, evalVars, Places, Modes
<1>7. CASE ScriptCalls
  BY <1>7 DEF ScriptCalls, RunFrames, pauseVars, evalVars, Places, Modes
<1>8. CASE User
  BY <1>8 DEF User, SetWarpMode, SetSpeed, PauseStarts, PauseEnds, Running,
     SetTimerSpeed, SuspendSpeedEval, pauseVars, evalVars, Places, Modes
<1> QED
  BY <1>1, <1>2, <1>3, <1>4, <1>5, <1>6, <1>7, <1>8 DEF Next, Program

----------------------------------------------------------------------------
(* The next frame's start and the sleep.                                    *)
Ahead == SleepFits /\ GapBounded

(* A frame that is waited for is in reach; one that is not is over.         *)
LEMMA VsyncKeepsAhead ==
    ASSUME PaceInv, NEW t \in host, Vsync(t)
    PROVE  Ahead'
<1>1. t \in Nat /\ TypeOK /\ TimeNeverRunsBack
  BY HostTakesTime DEF PaceInv
<1>2. PICK l \in Int : l = Due(t) /\ l <= MaxLead
  BY <1>1, DueIs
<1>3. PICK d \in Nat : d = drift'
  <2>1. drift' = Unread(t)
    BY VsyncCases
  <2>2. Unread(t) \in 0 .. MaxDrift
    BY <1>1, UnreadIs
  <2> QED BY <2>1, <2>2, Bounds
<1>4. CASE MustWait(l)
  <2>1. /\ at' = "callback" /\ ms' = l \div SCALE /\ lead' = l
        /\ ~ suspended' /\ UNCHANGED <<warped, warp_mode, timer_speed>>
        /\ at = "emulating"
    BY <1>2, <1>4, VsyncCases DEF EntersDelay, Running
  <2>2. l > 0 /\ MustWait(1)
    BY <1>4 DEF MustWait
  <2>3. ~ warped => l < FrameTicks + SCALE
    <3>1. SUFFICES ASSUME ~ warped PROVE l < FrameTicks + SCALE
      OBVIOUS
    <3>2. ~ suspended
      BY <1>1, <1>2, <2>2, DueIs
    <3>3. l <= lead - SCALE * drift
      BY <1>1, <1>2, <3>1, <3>2, DueIs
    <3>4. lead - SCALE * drift < FrameTicks + SCALE
      BY <2>2, <2>1, <3>2 DEF PaceInv, GapBounded
    <3>5. \A a \in Int : SCALE * a \in Int
      BY ScaleAssumption
    <3>6. lead \in Int /\ drift \in Int
      BY DEF PaceInv, TypeOK
    <3> QED BY <3>3, <3>4, <3>5, <3>6, Bounds
  <2>4. MustWait(lead)'
    BY <1>4, <2>1 DEF MustWait
  <2>5. SCALE * ms' <= lead' /\ lead' < SCALE * ms' + SCALE
    BY <2>2, <2>1, Milliseconds
  <2> QED BY <2>1, <2>3, <2>4, <2>5 DEF Ahead, SleepFits, GapBounded
<1>5. CASE ~ MustWait(l)
  <2>1. /\ at' = "emulating" /\ lead' = NextStart(l, FrameTicksNow)
        /\ UNCHANGED <<warp_mode, timer_speed>>
    BY <1>2, <1>5, VsyncCases DEF Running
  <2>2. SleepFits'
    BY <2>1 DEF SleepFits
  <2>3. ASSUME MustWait(1)' PROVE lead' - SCALE * drift' < FrameTicks + SCALE
    <3>1. ~ (l > 0)
      BY <1>5, <2>1, <2>3 DEF MustWait
    <3>2. lead' \in Int /\ lead' <= FrameTicks
      BY <1>1, <2>1, <3>1, FrameTicksIs, NextStartIs DEF TypeOK
    <3>3. PICK gone \in Nat : gone = SCALE * d
      BY <1>3, Units
    <3>4. lead' - gone < FrameTicks + SCALE
      BY <3>2, <3>3, WithinFrame, Zenon
    <3> QED BY <1>3, <3>3, <3>4
  <2> QED BY <2>2, <2>3 DEF Ahead, GapBounded
<1> QED BY <1>4, <1>5

(* After the sleep the next frame starts one frame later than this one.     *)
LEMMA WarpDelayKeepsAhead == ASSUME PaceInv, WarpDelay PROVE Ahead'
<1>1. CASE caller = "vsync"
  <2>1. /\ at' = "emulating" /\ drift' = 0
        /\ lead' = AtMost((lead - SCALE * ms) + frame_ticks, MaxLead)
    BY <1>1 DEF WarpDelay, DriftAfterWarpDelay, DelayReturns
  <2>2. PICK slept \in Int : slept = SCALE * ms
    <3>1. ms \in Int
      BY LimitAssumption DEF PaceInv, TypeOK
    <3> QED BY <3>1, Units
  <2>3. lead < slept + SCALE
    BY <1>1, <2>2 DEF WarpDelay, PaceInv, SleepFits
  <2>4. lead \in Int /\ frame_ticks \in Nat /\ frame_ticks <= FrameTicks
    BY Bounds DEF PaceInv, TypeOK
  <2>5. lead' \in Int /\ lead' <= (lead - slept) + frame_ticks
    BY <2>1, <2>2, <2>4, AtMostIs, Bounds
  <2>6. lead' < FrameTicks + SCALE
    BY <2>3, <2>4, <2>5, Bounds
  <2>7. SCALE * drift' = 0
    BY <2>1, Bounds
  <2> QED
    BY <2>1, <2>5, <2>6, <2>7, Bounds DEF Ahead, SleepFits, GapBounded
<1>2. CASE caller = "pause"
  <2>1. at' = "paused"
    BY <1>2 DEF WarpDelay, DelayReturns
  <2> QED BY <2>1 DEF Ahead, SleepFits, GapBounded
<1> QED BY <1>1, <1>2 DEF PaceInv, TypeOK

(* A call of on_frame shortens the sleep by as much as the frame has become *)
(* nearer; one that takes longer than the sleep leaves the frame behind.    *)
LEMMA HostDelayKeepsAhead ==
    ASSUME PaceInv, NEW t \in CallTime, HostDelay(t)
    PROVE  Ahead'
<1>1. /\ at = "callback" /\ at' = "asleep" /\ ~ warped
      /\ ms' = (ms - t) % TickRange /\ lead' = lead - SCALE * t
      /\ UNCHANGED <<warp_mode, timer_speed, suspended, caller>>
  BY DEF HostDelay, pauseVars, evalVars
<1>2. CASE caller = "vsync"
  <2>1. /\ ~ suspended /\ MustWait(1)
        /\ lead < SCALE * ms + SCALE /\ lead < FrameTicks + SCALE
    BY <1>1, <1>2 DEF PaceInv, SleepFits, MustWait
  <2>2. PICK m \in 0 .. TickRange - 1 : m = ms
    BY DEF PaceInv, TypeOK
  <2>3. PICK n \in Nat : n = t
    BY WorldAssumption
  <2>4. PICK rest \in 0 .. TickRange - 1 :
            rest = (m - n) % TickRange /\ (n <= m => rest = m - n)
    <3>1. (m - n) % TickRange \in 0 .. TickRange - 1
      BY <2>2, <2>3, RestIsUint32, LimitAssumption
    <3>2. n <= m => (m - n) % TickRange = m - n
      BY LimitAssumption, TickAssumption
    <3> QED BY <3>1, <3>2
  <2>5. /\ SCALE * n \in Nat /\ SCALE * m \in Nat /\ SCALE * rest \in Nat
        /\ lead \in Int /\ SCALE \in Nat /\ FrameTicks \in Nat /\ SCALE > 0
    BY <2>2, <2>3, <2>4, Units, Bounds, LimitAssumption DEF PaceInv, TypeOK
  <2>6. ms' = rest /\ lead' = lead - SCALE * n
    BY <1>1, <2>2, <2>3, <2>4
  <2>7. lead' < SCALE * rest + SCALE
    <3>1. CASE n <= m
      <4>1. SCALE * rest = SCALE * m - SCALE * n
        BY <2>2, <2>3, <2>4, <3>1, Units, LimitAssumption
      <4> QED BY <2>1, <2>2, <2>5, <2>6, <4>1
    <3>2. CASE ~ (n <= m)
      <4>1. m + 1 \in Int /\ m \in Int /\ n \in Int /\ m + 1 <= n
        BY <2>2, <2>3, <3>2, LimitAssumption
      <4>2. SCALE * (m + 1) <= SCALE * n /\ SCALE * (m + 1) = SCALE * m + SCALE
        BY <4>1, Units
      <4> QED BY <2>1, <2>2, <2>5, <2>6, <4>2
    <3> QED BY <3>1, <3>2
  <2>8. lead' < FrameTicks + SCALE
    BY <2>1, <2>5, <2>6
  <2> QED
    BY <1>1, <2>1, <2>6, <2>7, <2>8 DEF Ahead, SleepFits, GapBounded, MustWait
<1>3. CASE caller # "vsync"
  BY <1>1, <1>3 DEF Ahead, SleepFits, GapBounded
<1> QED BY <1>2, <1>3

(* The host sleeps at least as long as asked for.                           *)
LEMMA WakesKeepsAhead ==
    ASSUME PaceInv, NEW late \in Overshoot, Wakes(late)
    PROVE  Ahead'
<1>1. CASE caller = "vsync"
  <2>1. /\ at' = "emulating" /\ drift' = AtMost(ms + late, MaxDrift)
        /\ lead' = AtMost(lead + frame_ticks, MaxLead)
    BY <1>1 DEF Wakes, DelayReturns
  <2>2. PICK m \in Nat : m = ms
    BY LimitAssumption DEF PaceInv, TypeOK
  <2>3. lead < SCALE * m + SCALE /\ lead < FrameTicks + SCALE
    BY <1>1, <2>2 DEF Wakes, PaceInv, SleepFits
  <2>4. lead \in Int /\ frame_ticks \in Nat /\ frame_ticks <= FrameTicks
    BY Bounds DEF PaceInv, TypeOK
  <2>5. lead' \in Int /\ lead' <= lead + frame_ticks
    BY <2>1, <2>4, AtMostIs, Bounds
  <2>6. PICK d \in Nat : d = drift' /\ (d = MaxDrift \/ d >= m)
    BY <2>1, <2>2, WorldAssumption, LimitAssumption DEF AtMost
  <2>7. PICK gone \in Nat : gone = SCALE * d
    BY <2>6, Units
  <2>8. lead - gone < SCALE
    <3>1. PICK slept \in Nat : slept = SCALE * m
      BY <2>2, Units
    <3>2. d >= m => slept <= gone
      BY <2>2, <2>6, <2>7, <3>1, Units
    <3>3. d = MaxDrift => gone > 2 * FrameTicks
      BY <2>7, Bounds
    <3>4. lead < slept + SCALE
      BY <2>3, <3>1
    <3> QED BY <2>3, <2>4, <2>6, <3>2, <3>3, <3>4, Bounds
  <2>9. lead' - gone < FrameTicks + SCALE
    <3>1. frame_ticks \in 0 .. FrameTicks
      BY <2>4, ScaleAssumption
    <3> QED BY <2>4, <2>5, <2>7, <2>8, <3>1, WithinFrame, Zenon
  <2> QED BY <2>1, <2>6, <2>7, <2>9 DEF Ahead, SleepFits, GapBounded
<1>2. CASE caller = "pause"
  <2>1. at' = "paused"
    BY <1>2 DEF Wakes, DelayReturns
  <2> QED BY <2>1 DEF Ahead, SleepFits, GapBounded
<1> QED BY <1>1, <1>2 DEF PaceInv, TypeOK

(* Between two calls time passes; a change of the speed, and the pause,     *)
(* suspend the evaluation.                                                  *)
LEMMA OthersKeepAhead ==
    ASSUME PaceInv, ScriptCalls \/ RunReturns \/ PauseGoesOn \/ User
    PROVE  Ahead'
<1>1. CASE ScriptCalls
  <2>1. PICK kind \in {"run", "warp"}, n \in 1 .. MaxFrames, idle \in IdleTime :
            RunFrames(kind, n, idle)
    BY <1>1 DEF ScriptCalls
  <2>2. /\ at' = "emulating" /\ at = "emulating"
        /\ UNCHANGED <<lead, warp_mode, timer_speed, suspended>>
    BY <2>1 DEF RunFrames, PaceInv, Places, pauseVars, evalVars
  <2>3. PICK d \in Nat, e \in Nat : d = drift /\ e = drift' /\ d <= e
    BY <2>1, WorldAssumption, Bounds
    DEF RunFrames, AtMost, PaceInv, TypeOK, TimeNeverRunsBack
  <2>4. PICK x \in Nat, y \in Nat : x = SCALE * d /\ y = SCALE * e /\ x <= y
    <3>1. d \in Int /\ e \in Int
      BY <2>3
    <3> QED BY <2>3, <3>1, Units
  <2>5. lead \in Int
    BY DEF PaceInv, TypeOK
  <2>6. lead - x < FrameTicks + SCALE => lead - y < FrameTicks + SCALE
    BY <2>4, <2>5, Bounds
  <2>7. GapBounded'
    BY <2>2, <2>3, <2>4, <2>6 DEF PaceInv, GapBounded, MustWait
  <2> QED BY <2>2, <2>7 DEF Ahead, SleepFits
<1>2. CASE RunReturns
  BY <1>2 DEF RunReturns, Running, pauseVars, evalVars, PaceInv, Ahead,
     SleepFits, GapBounded, MustWait
<1>3. CASE PauseGoesOn
  BY <1>3 DEF PauseGoesOn, EntersDelay, Ahead, SleepFits, GapBounded
<1>4. CASE SetWarpMode \/ SetSpeed
  BY <1>4 DEF SetWarpMode, SetSpeed, SetTimerSpeed, SuspendSpeedEval, Running,
     Ahead, SleepFits, GapBounded
<1>5. CASE PauseStarts
  BY <1>5 DEF PauseStarts, Ahead, SleepFits, GapBounded
<1>6. CASE PauseEnds
  BY <1>6 DEF PauseEnds, evalVars, PaceInv, Places, Ahead, SleepFits,
     GapBounded
<1> QED BY <1>1, <1>2, <1>3, <1>4, <1>5, <1>6 DEF User

LEMMA NextKeepsTicks == PaceInv /\ Next => Unadjusted'
<1> SUFFICES ASSUME PaceInv, Next PROVE Unadjusted'
  OBVIOUS
<1>1. ASSUME NEW t \in host, Vsync(t) PROVE Unadjusted'
  BY <1>1, VsyncCases, FrameTicksIs DEF PaceInv, TypeOK, Unadjusted
<1>2. CASE SetWarpMode \/ SetSpeed
  BY <1>2 DEF SetWarpMode, SetSpeed, SetTimerSpeed, Unadjusted
<1>3. ASSUME \A t \in host : ~ Vsync(t), ~ SetWarpMode, ~ SetSpeed
      PROVE  UNCHANGED <<timer_speed, frame_ticks>>
  BY <1>3 DEF Next, Program, User, ScriptCalls, RunFrames, WarpDelay, HostDelay,
     Wakes, RunReturns, PauseGoesOn, PauseStarts, PauseEnds, pauseVars, evalVars
<1> QED BY <1>1, <1>2, <1>3 DEF PaceInv, Unadjusted

LEMMA NextKeepsPace == PaceInv /\ [Next]_vars => PaceInv'
<1> SUFFICES ASSUME PaceInv, [Next]_vars PROVE PaceInv'
  OBVIOUS
<1>1. CASE Next
  <2>1. TypeOK' /\ TimeNeverRunsBack'
    BY <1>1, NextKeepsTypes DEF PaceInv
  <2>2. Places'
    BY <1>1, NextKeepsPlaces, Halves DEF PaceInv
  <2>3. Ahead'
    BY <1>1, VsyncKeepsAhead, WarpDelayKeepsAhead, HostDelayKeepsAhead,
       WakesKeepsAhead, OthersKeepAhead DEF Next, Program
  <2>4. Unadjusted'
    BY <1>1, NextKeepsTicks
  <2> QED BY <2>1, <2>2, <2>3, <2>4 DEF PaceInv, Ahead
<1>2. CASE UNCHANGED vars
  BY <1>2 DEF vars, pauseVars, evalVars, world, PaceInv, TypeOK,
     TimeNeverRunsBack, Places, SleepFits, GapBounded, MustWait, Unadjusted
<1> QED BY <1>1, <1>2

LEMMA PaceAlways == Spec => []PaceInv
BY InitPace, NextKeepsPace, PTL DEF Spec

----------------------------------------------------------------------------
(* After k frames of a warp that were not counted, what is left to the      *)
(* start of the next makes up, with the time of the last call of on_frame,  *)
(* for more than k + 1 frames: that call came before a frame was over, and  *)
(* every frame since has moved the start by one frame.                      *)
Spent == SCALE * called
Room(k) == lead + Spent > FrameTicks * (k + 1)
Few(k) == k <= 1 \/ FrameTicks * k < Spent

(* Without a user, what the counts of a warp follow from.                   *)
WarpCounts ==
    user = {} =>
        /\ ~ warp_mode /\ timer_speed /\ at # "paused" /\ caller = "vsync"
        /\ at = "asleep" => lead + Spent > 0
        /\ at = "emulating" /\ toGo = 0 => suspended \/ lead > 0 \/ Room(0)
        /\ script = "idle" => toGo = 0
        /\ script = "warp" => Few(uncounted)
        /\ script = "warp" /\ at = "emulating" =>
               \/ suspended /\ uncounted = 0
               \/ ~ suspended /\ lead > 0
               \/ ~ suspended /\ Room(uncounted)

LEMMA SpentIs == TypeOK => Spent \in Nat
<1>1. TypeOK => called \in Nat
  BY WorldAssumption DEF TypeOK
<1> QED BY <1>1, Units DEF Spent

LEMMA Products ==
    /\ FrameTicks * 0 = 0 /\ FrameTicks * 1 = FrameTicks
    /\ \A k \in Int : /\ FrameTicks * k \in Int
                      /\ FrameTicks * (k + 1) = FrameTicks * k + FrameTicks
    /\ \A j, k \in Int : j <= k => FrameTicks * j <= FrameTicks * k
BY ScaleAssumption

(* Fewer are few.                                                           *)
LEMMA FewAreFew ==
    ASSUME TypeOK, NEW j \in Int, NEW k \in Int, j <= k, Few(k)
    PROVE  Few(j)
<1>1. FrameTicks * j \in Int /\ FrameTicks * k \in Int /\ Spent \in Int
  BY Products, SpentIs
<1>2. FrameTicks * j <= FrameTicks * k
  BY Products
<1> QED BY <1>1, <1>2 DEF Few

LEMMA VsyncKeepsCounts ==
    ASSUME PaceInv, WarpCounts, user = {}, NEW t \in host, Vsync(t),
           UNCHANGED world
    PROVE  WarpCounts'
<1>1. /\ t \in Nat /\ TypeOK /\ TimeNeverRunsBack
      /\ uncounted \in Int /\ lead \in Int
  BY HostTakesTime, Bounds DEF PaceInv, TypeOK
<1>2. PICK l \in Int : l = Due(t)
  BY <1>1, DueIs
<1>3. /\ ~ warp_mode' /\ timer_speed' /\ caller = "vsync" /\ at = "emulating"
      /\ script' = script /\ script # "idle" /\ toGo > 0
      /\ timer_speed /\ ~ warp_mode /\ called' = called
  BY VsyncCases DEF WarpCounts, Running
<1>4. CASE MustWait(Due(t))
  <2>1. at' = "callback" /\ caller' = "vsync" /\ uncounted' = uncounted
    BY <1>4, VsyncCases DEF EntersDelay
  <2> QED BY <1>3, <2>1 DEF WarpCounts, Few, Spent
<1>5. CASE ~ MustWait(Due(t))
  <2>1. /\ at' = "emulating" /\ caller' = "vsync" /\ toGo' = toGo
        /\ lead' = NextStart(l, FrameTicksNow) /\ ~ suspended'
        /\ uncounted' = AtMost(uncounted + 1, MaxUncounted)
    BY <1>2, <1>3, <1>5, VsyncCases
  <2>2. l <= 0
    BY <1>2, <1>3, <1>5 DEF MustWait
  <2>3. /\ lead' \in Int /\ (lead' = FrameTicks \/ lead' = l + FrameTicks)
        /\ l = 0 => lead' = FrameTicks
    <3>1. FrameTicksNow = FrameTicks
      BY <1>1, <1>3, FrameTicksIs DEF PaceInv, TypeOK, Unadjusted
    <3>2. PICK start \in Int : /\ lead' = AtMost(start + FrameTicks, MaxLead)
                               /\ start = 0 \/ start = l
      BY <2>1, <3>1 DEF NextStart
    <3>3. start + FrameTicks \in Int /\ start + FrameTicks <= MaxLead
      BY <2>2, <3>2, Bounds
    <3> QED BY <3>2, <3>3, Bounds DEF AtMost
  <2>4. ASSUME script = "warp"
        PROVE  Few(uncounted)' /\ (lead' > 0 \/ Room(uncounted)')
    <3>1. warped
      BY <2>4 DEF PaceInv, Places
    <3>2. uncounted' \in Int /\ uncounted' <= uncounted + 1
      BY <1>1, <2>1, Bounds, AtMostIs
    <3>3. CASE suspended
      <4>1. uncounted = 0 /\ l = 0
        BY <1>1, <1>2, <1>3, <2>4, <3>3, DueIs DEF WarpCounts
      <4> QED BY <2>3, <3>2, <4>1, Bounds DEF Few
    <3>4. CASE ~ suspended
      <4>1. l = lead /\ Room(uncounted)
        BY <1>1, <1>2, <1>3, <2>2, <2>4, <3>1, <3>4, DueIs DEF WarpCounts
      <4>2. PICK p \in Int : /\ p = FrameTicks * (uncounted + 1)
                             /\ FrameTicks * (uncounted + 2) = p + FrameTicks
        <5>1. uncounted + 1 \in Int /\ (uncounted + 1) + 1 = uncounted + 2
          BY <1>1
        <5> QED BY <5>1, Products
      <4>3. Spent \in Int /\ Spent' = Spent /\ lead + Spent > p
        BY <1>1, <1>3, <4>1, <4>2, SpentIs DEF Room, Spent
      <4>4. Few(uncounted + 1)
        BY <1>1, <2>2, <4>1, <4>2, <4>3 DEF Few
      <4>5. Few(uncounted')
        BY <1>1, <3>2, <4>4, FewAreFew
      <4>6. FrameTicks * (uncounted' + 1) <= p + FrameTicks
        <5>1. PICK n \in Int : n = uncounted'
          BY <3>2
        <5>2. PICK m \in Int : m = uncounted /\ n <= m + 1
          BY <1>1, <3>2, <5>1
        <5>3. n + 1 \in Int /\ m + 2 \in Int /\ n + 1 <= m + 2
          BY <5>2
        <5>4. FrameTicks * (n + 1) <= FrameTicks * (m + 2)
          BY <5>3, Products
        <5> QED BY <4>2, <5>1, <5>2, <5>4
      <4>7. FrameTicks * (uncounted' + 1) \in Int
        BY <3>2, Products
      <4>8. lead' > 0 \/ lead' + Spent > FrameTicks * (uncounted' + 1)
        BY <1>1, <2>3, <4>1, <4>2, <4>3, <4>6, <4>7, Bounds
      <4> QED BY <4>3, <4>5, <4>8 DEF Few, Room
    <3> QED BY <3>3, <3>4
  <2>5. ~ (toGo' = 0)
    BY <1>3, <2>1
  <2> QED BY <1>3, <2>1, <2>4, <2>5 DEF WarpCounts
<1> QED BY <1>4, <1>5

LEMMA DelaysKeepCounts ==
    ASSUME PaceInv, WarpCounts, user = {}, UNCHANGED world,
           \/ WarpDelay
           \/ \E t \in CallTime : HostDelay(t)
           \/ \E late \in Overshoot : Wakes(late)
    PROVE  WarpCounts'
<1>1. /\ ~ warp_mode /\ timer_speed /\ caller = "vsync"
      /\ frame_ticks = FrameTicks
  BY DEF WarpCounts, PaceInv, Unadjusted
<1>2. lead \in Int /\ ms \in Int /\ Spent \in Nat
  BY LimitAssumption, SpentIs DEF PaceInv, TypeOK
<1>3. CASE WarpDelay
  <2>1. /\ at = "callback" /\ at' = "emulating"
        /\ lead' = AtMost((lead - SCALE * ms) + FrameTicks, MaxLead)
        /\ UNCHANGED <<warp_mode, timer_speed, suspended, caller, script, toGo,
                       uncounted, called>>
    BY <1>1, <1>3 DEF WarpDelay, DelayReturns, evalVars
  <2>2. ~ suspended /\ SCALE * ms <= lead
    BY <1>1, <2>1 DEF PaceInv, SleepFits
  <2>3. lead' \in Int /\ lead' >= FrameTicks
    <3>1. PICK slept \in Int : slept = SCALE * ms
      BY <1>2, Units
    <3>2. PICK left \in Int : left = lead - slept /\ left >= 0
      BY <1>2, <2>2, <3>1
    <3>3. lead' = AtMost(left + FrameTicks, MaxLead)
      BY <2>1, <3>1, <3>2
    <3> QED BY <3>2, <3>3, Bounds DEF AtMost
  <2>4. script = "warp"
    BY <1>3 DEF WarpDelay, PaceInv, Places
  <2>5. lead' > 0
    BY <2>3, Bounds
  <2> QED BY <1>1, <2>1, <2>2, <2>4, <2>5 DEF WarpCounts, Few, Spent
<1>4. ASSUME NEW t \in CallTime, HostDelay(t) PROVE WarpCounts'
  <2>1. /\ at = "callback" /\ at' = "asleep" /\ lead' = lead - SCALE * t
        /\ called' = t /\ ~ warped
        /\ UNCHANGED <<warp_mode, timer_speed, caller, script, uncounted>>
    BY <1>4 DEF HostDelay, pauseVars
  <2>2. lead > 0
    BY <1>1, <2>1 DEF PaceInv, SleepFits, MustWait
  <2>3. lead' + Spent' > 0
    <3>1. t \in Nat
      BY WorldAssumption
    <3>2. PICK spent \in Nat : spent = SCALE * t
      BY <3>1, Units
    <3> QED BY <1>2, <2>1, <2>2, <3>2 DEF Spent
  <2>4. script # "idle" /\ script # "warp"
    BY <2>1 DEF PaceInv, Places
  <2> QED BY <1>1, <2>1, <2>3, <2>4 DEF WarpCounts
<1>5. ASSUME NEW late \in Overshoot, Wakes(late) PROVE WarpCounts'
  <2>1. /\ at = "asleep" /\ at' = "emulating"
        /\ lead' = AtMost(lead + FrameTicks, MaxLead)
        /\ UNCHANGED <<warp_mode, timer_speed, caller, script, called>>
    BY <1>1, <1>5 DEF Wakes, DelayReturns
  <2>2. lead + Spent > 0
    BY <2>1 DEF WarpCounts
  <2>3. Room(0)'
    <3>1. lead < FrameTicks + SCALE
      BY <1>1, <2>1 DEF PaceInv, SleepFits
    <3>2. lead' = lead + FrameTicks
      BY <1>2, <2>1, <3>1, Bounds DEF AtMost
    <3>3. FrameTicks * (0 + 1) = FrameTicks /\ Spent' = Spent
      BY <2>1, Products DEF Spent
    <3> QED BY <1>2, <2>2, <3>2, <3>3, Bounds DEF Room
  <2>4. script # "idle" /\ script # "warp"
    BY <2>1 DEF PaceInv, Places
  <2> QED BY <1>1, <2>1, <2>3, <2>4 DEF WarpCounts
<1> QED BY <1>3, <1>4, <1>5

LEMMA OthersKeepCounts ==
    ASSUME PaceInv, WarpCounts, user = {}, UNCHANGED world,
           ScriptCalls \/ RunReturns \/ PauseGoesOn \/ User
    PROVE  WarpCounts'
<1>1. at # "paused" /\ lead \in Int
  BY DEF WarpCounts, PaceInv, TypeOK
<1>2. CASE ScriptCalls
  <2>1. PICK kind \in {"run", "warp"}, n \in 1 .. MaxFrames, idle \in IdleTime :
            RunFrames(kind, n, idle)
    BY <1>2 DEF ScriptCalls
  <2>2. /\ script = "idle" /\ at = "emulating" /\ at' = at
        /\ script' # "idle" /\ toGo' = n /\ uncounted' = 0
        /\ UNCHANGED <<lead, called, suspended, warp_mode, timer_speed, caller>>
    BY <2>1 DEF RunFrames, PaceInv, Places, pauseVars, evalVars
  <2>3. toGo' # 0 /\ Few(uncounted)'
    BY <2>2 DEF Few
  <2>4. suspended \/ lead > 0 \/ Room(0)
    BY <2>2 DEF WarpCounts
  <2>5. Room(0) => Room(uncounted)'
    BY <2>2 DEF Room, Spent
  <2>6. suspended \in BOOLEAN
    BY DEF PaceInv, TypeOK
  <2> QED BY <2>2, <2>3, <2>4, <2>5, <2>6 DEF WarpCounts
<1>3. CASE RunReturns
  BY <1>3 DEF RunReturns, Running, WarpCounts, Room, Spent, pauseVars, evalVars
<1>4. ~ PauseGoesOn /\ ~ User
  BY <1>1 DEF PauseGoesOn, User, SetWarpMode, SetSpeed, PauseStarts, PauseEnds
<1> QED BY <1>2, <1>3, <1>4

LEMMA NextKeepsCounts == PaceInv /\ WarpCounts /\ [Next]_vars => WarpCounts'
<1> SUFFICES ASSUME PaceInv, WarpCounts, [Next]_vars PROVE WarpCounts'
  OBVIOUS
<1>1. CASE Next /\ user = {}
  BY <1>1, VsyncKeepsCounts, DelaysKeepCounts, OthersKeepCounts DEF Next, Program
<1>2. CASE Next /\ user # {}
  BY <1>2 DEF Next, world, WarpCounts
<1>3. CASE UNCHANGED vars
  BY <1>3 DEF vars, pauseVars, evalVars, world, WarpCounts, Room, Few, Spent
<1> QED BY <1>1, <1>2, <1>3

----------------------------------------------------------------------------
(* The types, for any machine, hosts and users.                             *)
THEOREM TypesHold == Spec => []TypeOK
<1>1. PaceInv => TypeOK
  BY DEF PaceInv
<1> QED BY <1>1, PaceAlways, PTL

(* Time does not jump back when a warp ends, whatever was run, warped and   *)
(* paused before.                                                           *)
THEOREM TimeNeverJumpsBack == Spec => []TimeNeverRunsBack
<1>1. PaceInv => TimeNeverRunsBack
  BY DEF PaceInv
<1> QED BY <1>1, PaceAlways, PTL

(* However far the machine was ahead or behind, limited it never sleeps     *)
(* longer than to the end of a frame.                                       *)
THEOREM NoSleepEverOwed == Spec => []NoSleepOwed
<1>1. PaceInv => NoSleepOwed
  BY DEF PaceInv, GapBounded, NoSleepOwed, Running
<1> QED BY <1>1, PaceAlways, PTL

(* A warp leaves at most its first frame uncounted, or fewer than the last  *)
(* call of on_frame before it lasted, on any host and for calls of any      *)
(* length, if nobody interferes.                                            *)
THEOREM WarpAlwaysExact == Spec => []WarpIsExact
<1>1. Init => WarpCounts
  BY Bounds DEF Init, WarpCounts
<1>2. WarpCounts => WarpIsExact
  BY DEF WarpCounts, Few, Spent, WarpIsExact
<1> QED BY <1>1, <1>2, NextKeepsCounts, PaceAlways, PTL DEF Spec
=============================================================================
