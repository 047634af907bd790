---------------------------- MODULE KeyInjection ----------------------------
(****************************************************************************)
(* Keys typed by a script: put_key and put_raw_key queue changes of the     *)
(* keyboard matrix, onframe_python applies one of them at every other call  *)
(* of SDL_Delay, and keyboard.c takes over from there: a change reaches a   *)
(* latched matrix at once, and the matrix the machine sees when an alarm    *)
(* set to a random cycle within the next frame has run.                     *)
(*                                                                          *)
(* A change must stay visible long enough for the machine to notice it, so  *)
(* the distance of the calls of SDL_Delay, the random delay of the alarm    *)
(* and the alarm's fate in a reset all matter.  SDL_Delay is called at the  *)
(* end of a frame, if at all, but also by the loop that pauses the machine. *)
(*                                                                          *)
(* Keys of the host's keyboard, joysticks, network play and the RESTORE key *)
(* are left out.  Nothing fills the queue `keys' of onframe_python.         *)
(****************************************************************************)
EXTENDS Integers, Sequences

CONSTANTS
    Key,            \* positions in the matrix other than the shift keys
    LShift, RShift, \* the shift keys; put_key uses the left one
    RawKey,         \* the keys passed to put_raw_key
    Users,          \* users, each the set of what else happens: Pause, Reset
    MaxQueued,      \* bound on the queue `matrix'
    MaxResets,      \* bound on the number of resets
    MaxUptime       \* bound on the frames by which a reset winds back the clock

ASSUME UptimeAssumption == MaxUptime \in Nat
ASSUME KeyAssumption ==
    /\ LShift # RShift /\ LShift \notin Key /\ RShift \notin Key
    /\ RawKey \subseteq Key \union {LShift, RShift}

VARIABLES
    matrix,         \* the queue of changes
    delay,          \* calls of onframe_python to skip
    latch_keyarr,   \* the keys that are down in the latched matrix,
    keyarr,         \*   and in the one the machine sees
    alarm,          \* frames that ended since keyboard_alarm was set, or Off;
                    \* negative when a reset has put it off
    paused,         \* is pause_trap's loop running?
    asked,          \* history: `typed' of the change applied last,
    held,           \*   and the shift keys held down by put_raw_key
    resets,         \* how many resets happened
    user            \* which user: it never changes

keyVars == <<matrix, delay, latch_keyarr, keyarr, alarm, paused, asked,
             held, resets, user>>

Shifts == {LShift, RShift}

Off == 2

(* A change of the matrix.  `typed' are the keys that the put_key that      *)
(* queued it wants to be seen together, and is empty for put_raw_key.       *)
Change(key, pressed, typed) ==
    [key |-> key, pressed |-> pressed, typed |-> typed]
Changes ==
    [key : Key \union Shifts, pressed : BOOLEAN,
     typed : {{}} \union {{k} : k \in Key} \union {{k, LShift} : k \in Key}]

KeysInit ==
    /\ matrix = << >>
    /\ delay = 0
    /\ latch_keyarr = {} /\ keyarr = {}
    /\ alarm = Off
    /\ paused = FALSE
    /\ asked = {} /\ held = {}
    /\ resets = 0
    /\ user \in Users

----------------------------------------------------------------------------
(* Faults that the properties below must notice; none is used by the model. *)
CallsSkipped_None == 0
Typing_ShiftLast(k, shifted) ==
    IF shifted
    THEN <<Change(k, TRUE, {k, LShift}), Change(LShift, TRUE, {k, LShift}),
           Change(k, FALSE, {k, LShift}), Change(LShift, FALSE, {k, LShift})>>
    ELSE <<Change(k, TRUE, {k}), Change(k, FALSE, {k})>>
VisibleKeys_Accumulated == keyarr \union latch_keyarr
AlarmAfterReset_Unset(n) == Off
----------------------------------------------------------------------------
\* The changes that put_key queues for a key, with shift or without.
Typing(k, shifted) ==
    IF shifted
    THEN <<Change(LShift, TRUE, {k, LShift}), Change(k, TRUE, {k, LShift}),
           Change(LShift, FALSE, {k, LShift}), Change(k, FALSE, {k, LShift})>>
    ELSE <<Change(k, TRUE, {k}), Change(k, FALSE, {k})>>

Queue(changes) ==
    /\ Len(matrix) + Len(changes) <= MaxQueued
    /\ matrix' = matrix \o changes
    /\ UNCHANGED <<delay, latch_keyarr, keyarr, alarm, paused, asked, held,
                   resets, user>>

put_key(k, shifted) == Queue(Typing(k, shifted))
put_raw_key(k, pressed) == Queue(<<Change(k, pressed, {})>>)

(* keyboard_rowcol_press and _release: with no shift key held on the host's *)
(* keyboard, every release also releases both shift keys.                   *)
Latched(change) ==
    IF change.pressed THEN latch_keyarr \union {change.key}
                      ELSE latch_keyarr \ ({change.key} \union Shifts)
HeldAfter(change) ==
    IF ~ change.pressed THEN {}
    ELSE held \union IF change.typed = {} THEN {change.key} \intersect Shifts ELSE {}

\* How many calls onframe_python skips after one that applied a change.
CallsSkipped == 1
NextDelay == IF delay = 0 THEN CallsSkipped ELSE delay - 1

(* onframe_python, `elapsed' frames after the last one.                     *)
onframe_python(elapsed) ==
    LET applies == delay = 0 /\ matrix # << >> IN
    /\ delay' = NextDelay
    /\ IF applies
       THEN /\ latch_keyarr' = Latched(Head(matrix))
            /\ matrix' = Tail(matrix)
            /\ alarm' = 0
            /\ asked' = Head(matrix).typed
            /\ held' = HeldAfter(Head(matrix))
       ELSE /\ alarm' = IF alarm = Off THEN Off ELSE alarm + elapsed
            /\ UNCHANGED <<latch_keyarr, matrix, asked, held>>

(* A frame ends.  An alarm set at the end of a frame may still be pending   *)
(* at the end of the next, which is late by some cycles, but not longer.    *)
AlarmMayWait == alarm # Off => alarm <= 0

FrameCounted ==
    /\ ~ paused
    /\ AlarmMayWait
    /\ onframe_python(1)
    /\ UNCHANGED <<keyarr, paused, resets, user>>

\* The host is too slow, and SDL_Delay is not called.
FrameUncounted ==
    /\ ~ paused
    /\ AlarmMayWait
    /\ alarm' = IF alarm = Off THEN Off ELSE alarm + 1
    /\ UNCHANGED <<matrix, delay, latch_keyarr, keyarr, paused, asked, held,
                   resets, user>>

\* keyboard_latch_matrix
VisibleKeys == latch_keyarr

\* keyboard_latch_handler, in the course of a frame.
keyboard_latch_handler ==
    /\ ~ paused
    /\ alarm # Off
    /\ alarm >= 0
    /\ keyarr' = VisibleKeys
    /\ alarm' = Off
    /\ UNCHANGED <<matrix, delay, latch_keyarr, paused, asked, held, resets,
                   user>>

----------------------------------------------------------------------------
\* pause_trap: SDL_Delay is called while no time passes for the machine.
PauseStarts ==
    /\ "Pause" \in user
    /\ ~ paused
    /\ paused' = TRUE
    /\ UNCHANGED <<matrix, delay, latch_keyarr, keyarr, alarm, asked, held,
                   resets, user>>

PauseGoesOn ==
    /\ paused
    /\ onframe_python(0)
    /\ UNCHANGED <<keyarr, paused, resets, user>>

PauseEnds ==
    /\ paused
    /\ paused' = FALSE
    /\ UNCHANGED <<matrix, delay, latch_keyarr, keyarr, alarm, asked, held,
                   resets, user>>

(* A reset winds the clock back by n frames; the keyboard's alarm keeps its *)
(* deadline.                                                                *)
AlarmAfterReset(n) == IF alarm = Off THEN Off ELSE alarm - n

MachineReset(n) ==
    /\ "Reset" \in user
    /\ ~ paused
    /\ resets < MaxResets
    /\ resets' = resets + 1
    /\ alarm' = AlarmAfterReset(n)
    /\ UNCHANGED <<matrix, delay, latch_keyarr, keyarr, paused, asked, held, user>>

----------------------------------------------------------------------------
ScriptTypes ==
    \/ \E k \in Key, shifted \in BOOLEAN : put_key(k, shifted)
    \/ \E k \in RawKey, pressed \in BOOLEAN : put_raw_key(k, pressed)

KeysNext ==
    \/ ScriptTypes
    \/ FrameCounted
    \/ FrameUncounted
    \/ keyboard_latch_handler
    \/ PauseStarts
    \/ PauseGoesOn
    \/ PauseEnds
    \/ \E n \in 1 .. MaxUptime : MachineReset(n)

KeysSpec == KeysInit /\ [][KeysNext]_keyVars

(* On a host that keeps up, or under warp_frames, frames are counted again  *)
(* and again although not each of them is, see FramePacing.                 *)
KeysFairSpec ==
    /\ KeysSpec
    /\ SF_keyVars(FrameCounted)
    /\ WF_keyVars(keyboard_latch_handler)

----------------------------------------------------------------------------
\* The types of the variables.
KeysTypeOK ==
    /\ matrix \in Seq(Changes) /\ Len(matrix) <= MaxQueued
    /\ delay \in 0 .. 1
    /\ latch_keyarr \subseteq Key \union Shifts
    /\ keyarr \subseteq Key \union Shifts
    /\ held \subseteq Shifts
    /\ alarm = Off \/ alarm \in -MaxUptime * MaxResets .. 1
    /\ paused \in BOOLEAN
    /\ resets \in 0 .. MaxResets
    /\ user \in Users

(* "Simulate typing a key code" (python_interface.cpp): no change overtakes *)
(* another, the machine has seen each before the next is made.              *)
EveryChangeSeen ==
    [][user = {} /\ latch_keyarr' # latch_keyarr =>
           keyarr = latch_keyarr]_keyVars

(* A key typed by put_key appears to the machine with the shift asked for   *)
(* and with no other, whatever is queued around it, but for shift keys that *)
(* the script itself holds down with put_raw_key.  Those end with the next  *)
(* release of any key, which releases both shift keys.                      *)
TypedAsAsked ==
    [][\A k \in (keyarr' \ keyarr) \intersect Key :
           user = {} /\ asked # {} =>
               keyarr' \intersect ({k} \union Shifts) = asked \union held]_keyVars

(* What a script has queued is typed in the end, even across resets.        *)
QueueMoves == Len(matrix) = MaxQueued ~> Len(matrix) < MaxQueued \/ paused

(* No change is lost between the two matrices: while they differ, the alarm *)
(* that copies one to the other is set.                                     *)
ChangePending == latch_keyarr # keyarr => alarm # Off

(* What is latched reaches the machine in the end, although a reset leaves  *)
(* the alarm at a deadline of the old clock.                                *)
ChangesArrive == latch_keyarr # keyarr ~> latch_keyarr = keyarr \/ paused
=============================================================================
