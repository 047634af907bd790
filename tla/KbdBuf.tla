------------------------------- MODULE KbdBuf -------------------------------
(****************************************************************************)
(* Feeding text to the emulated machine (kbdbuf.c).  Strings wait in a      *)
(* circular queue and are pushed into the Kernal's own keyboard buffer      *)
(* whenever that is empty: when a string is fed, and once a frame.          *)
(*                                                                          *)
(* kbdbuf_feed_runcmd, used by autostart, holds a RETURN back: kbdbuf_flush *)
(* sets an alarm, one to two frames ahead, whose callback injects it.       *)
(*                                                                          *)
(* The clock is kept in frames: the e-th frame ends at time e, and clk      *)
(* frames have ended.  The Kernal's buffer is memory of the machine that    *)
(* the running program reads from the front; its code is not part of the    *)
(* emulator.  Characters the user types by hand are left out, and so are    *)
(* the escapes of kbd_buf_parse_string.                                     *)
(****************************************************************************)
EXTENDS Integers, Sequences, SequencesExt

CONSTANTS
    QUEUE_SIZE,
    BufferSize,     \* buffer_size, of the Kernal
    RETURN,         \* character 13
    Strings,        \* the strings that are fed,
    Autostarts,     \*   and sets of those fed by kbdbuf_feed_runcmd
    InitFrames,     \* kernal_init_cycles
    MaxClk,         \* where the overflow guard of the clock acts,
    GuardClk,       \*   and the clock it leaves
    MaxFeeds, MaxResets     \* bounds on how often strings are fed, and resets

ASSUME SizeAssumption ==
    QUEUE_SIZE \in Nat \ {0} /\ BufferSize \in Nat \ {0}
ASSUME ClockAssumption == MaxClk \in Nat /\ GuardClk \in 1 .. MaxClk - 1
ASSUME BoundAssumption == MaxFeeds \in Nat /\ MaxResets \in Nat

VARIABLES
    queue, head_idx, num_pending,
    kbd_buf_enabled,
    use_kbdbuf_flush_alarm,
    flushAlarm,     \* 0 when kbdbuf_flush_alarm_time is; else the alarm's frame
    kernal,         \* the Kernal's buffer, up to its count of characters
    clk,            \* maincpu_clk in frames
    feeds, resets,  \* how often strings were fed, and the machine was reset
                    \* or its buffer moved
    runCommands     \* the strings fed by kbdbuf_feed_runcmd: never changes

queueVars == <<queue, head_idx, num_pending>>
flagVars == <<kbd_buf_enabled, use_kbdbuf_flush_alarm>>
vars == <<queueVars, flagVars, flushAlarm, kernal, clk, feeds, resets,
          runCommands>>

Index == 0 .. QUEUE_SIZE - 1
Char ==
    (UNION {Range(s) : s \in Strings \union (UNION Autostarts)}) \union {RETURN}

ASSUME StringsAssumption == Strings \union (UNION Autostarts) \subseteq Seq(Char)

Init ==
    /\ queue = [i \in Index |-> RETURN]
    /\ head_idx = 0 /\ num_pending = 0
    /\ kbd_buf_enabled = TRUE /\ use_kbdbuf_flush_alarm = FALSE
    /\ flushAlarm = 0
    /\ kernal = << >>
    /\ clk = 0
    /\ feeds = 0 /\ resets = 0
    /\ runCommands \in Autostarts

\* The n characters of the circular queue q from the head on.
Contents(q, n) == [i \in 1 .. n |-> q[(head_idx + i - 1) % QUEUE_SIZE]]

----------------------------------------------------------------------------
(* Faults that the properties below must notice; none is used by the model. *)
kbdbuf_is_empty_RoomLeft == Len(kernal) < BufferSize
NoFlush_AlarmIgnored(n) ==
    ~ kbd_buf_enabled \/ n = 0 \/ kernal # << >> \/ clk < InitFrames
FrameFlush_Missing == UNCHANGED <<head_idx, num_pending, kernal, flushAlarm>>
----------------------------------------------------------------------------
kbdbuf_is_empty == kernal = << >>
AlarmPending == flushAlarm # 0
ClockTooEarly == clk < InitFrames

\* How many of n characters are pushed, when nothing is held back.
Pushed(n) == Min({n, BufferSize})

\* The positions of a RETURN among the characters that would be pushed.
Returns(q, n) == {i \in 1 .. Pushed(n) : Contents(q, n)[i] = RETURN}

\* k of the n characters of queue q leave it for the Kernal's buffer.
Push(q, n, k) ==
    /\ head_idx' = (head_idx + k) % QUEUE_SIZE
    /\ num_pending' = n - k
    /\ kernal' = IF k = 0 THEN kernal ELSE Contents(q, k)

\* Does kbdbuf_flush return at once, with n characters in the queue?
NoFlush(n) ==
    \/ ~ kbd_buf_enabled \/ n = 0 \/ ~ kbdbuf_is_empty
    \/ ClockTooEarly \/ AlarmPending

(* kbdbuf_flush after t frames, with the queue q of n characters, `hold'    *)
(* for use_kbdbuf_flush_alarm and the alarm as given: all that fits, or up  *)
(* to a RETURN, held back for a frame and up to a second one.               *)
kbdbuf_flush(q, n, hold, t, alarm) ==
    \/ /\ NoFlush(n)
       /\ num_pending' = n
       /\ flushAlarm' = alarm
       /\ UNCHANGED <<head_idx, kernal>>
    \/ /\ ~ NoFlush(n)
       /\ IF hold /\ Returns(q, n) # {}
          THEN /\ Push(q, n, Min(Returns(q, n)) - 1)
               /\ flushAlarm' \in {t + 1, t + 2}
          ELSE /\ Push(q, n, Pushed(n))
               /\ flushAlarm' = alarm

FitsQueue(s) == num_pending + Len(s) <= QUEUE_SIZE

\* The queue after s was written behind its last character.
Queued(s) ==
    [i \in Index |->
        LET k == (i - head_idx - num_pending) % QUEUE_SIZE IN
        IF k < Len(s) THEN s[k + 1] ELSE queue[i]]

\* kbdbuf_feed (hold = FALSE) and kbdbuf_feed_runcmd (hold = TRUE).
Feed(s, hold) ==
    /\ feeds < MaxFeeds
    /\ feeds' = feeds + 1
    /\ use_kbdbuf_flush_alarm' = hold
    /\ IF FitsQueue(s) /\ kbd_buf_enabled
       THEN /\ queue' = Queued(s)
            /\ kbdbuf_flush(Queued(s), num_pending + Len(s), hold, clk,
                            flushAlarm)
       ELSE UNCHANGED <<queueVars, flushAlarm, kernal>>
    /\ UNCHANGED <<kbd_buf_enabled, clk, resets, runCommands>>

\* What the overflow guard takes from the clock and the alarm in this frame.
GuardSub == IF clk = MaxClk THEN MaxClk + 1 - GuardClk ELSE 0

FrameFlush ==
    kbdbuf_flush(queue, num_pending, use_kbdbuf_flush_alarm,
                 clk + 1 - GuardSub,
                 IF AlarmPending THEN flushAlarm - GuardSub ELSE 0)

(* A frame ends, with no alarm due: kbdbuf_flush, and later, in the         *)
(* machine's vsync hook, the guard of the clock.                            *)
FrameEnd ==
    /\ AlarmPending => clk < flushAlarm
    /\ FrameFlush
    /\ clk' = clk + 1 - GuardSub
    /\ UNCHANGED <<queue, flagVars, feeds, resets, runCommands>>

(* kbdbuf_flush_alarm_triggered: the RETURN becomes the only character of   *)
(* the Kernal's buffer.                                                     *)
AlarmRuns ==
    /\ AlarmPending
    /\ clk = flushAlarm
    /\ flushAlarm' = 0
    /\ kernal' = <<RETURN>>
    /\ num_pending' = num_pending - 1
    /\ UNCHANGED <<queue, head_idx, flagVars, clk, feeds, resets, runCommands>>

\* The running program reads a character.
KernalReads ==
    /\ kernal # << >>
    /\ kernal' = Tail(kernal)
    /\ UNCHANGED <<queueVars, flagVars, flushAlarm, clk, feeds, resets,
                   runCommands>>

(* A reset of the machine winds the clock back and empties the Kernal's     *)
(* buffer; the queue and the alarm stay as they are.                        *)
MachineReset ==
    /\ resets < MaxResets
    /\ resets' = resets + 1
    /\ clk' = 0
    /\ kernal' = << >>
    /\ UNCHANGED <<queueVars, flagVars, flushAlarm, feeds, runCommands>>

(* The machine changes mode or ROM: its Kernal's buffer is elsewhere, or at *)
(* no known place.                                                          *)
kbdbuf_reset(known) ==
    /\ resets < MaxResets
    /\ resets' = resets + 1
    /\ kbd_buf_enabled' = known
    /\ kernal' = << >>
    /\ UNCHANGED <<queueVars, use_kbdbuf_flush_alarm, flushAlarm, clk, feeds,
                   runCommands>>

----------------------------------------------------------------------------
Next ==
    \/ \E s \in Strings : Feed(s, FALSE)
    \/ \E s \in runCommands : Feed(s, TRUE)
    \/ FrameEnd
    \/ AlarmRuns
    \/ KernalReads
    \/ MachineReset
    \/ \E known \in BOOLEAN : kbdbuf_reset(known)

Spec == Init /\ [][Next]_vars

(* Frames end, alarms run, and the program reads its keyboard now and then. *)
FairSpec ==
    Spec /\ WF_vars(FrameEnd) /\ WF_vars(AlarmRuns) /\ WF_vars(KernalReads)

----------------------------------------------------------------------------
\* The types of the variables; the Kernal's buffer never overflows.
TypeOK ==
    /\ queue \in [Index -> Char] /\ head_idx \in Index
    /\ num_pending \in 0 .. QUEUE_SIZE
    /\ kbd_buf_enabled \in BOOLEAN /\ use_kbdbuf_flush_alarm \in BOOLEAN
    /\ flushAlarm \in 0 .. MaxClk + 2 /\ clk \in 0 .. MaxClk
    /\ Range(kernal) \subseteq Char /\ Len(kernal) <= BufferSize
    /\ feeds \in 0 .. MaxFeeds /\ resets \in 0 .. MaxResets
    /\ runCommands \in Autostarts

(* While the alarm is set, the character at the head of the queue is the    *)
(* RETURN its callback will inject, whatever is fed or reset meanwhile.     *)
HeldReturnAtHead == AlarmPending => num_pending > 0 /\ queue[head_idx] = RETURN

(* Without held RETURNs, the program reads what was fed, in order and once, *)
(* although queue and buffer fill up and run empty at any moment.           *)
Unread ==
    IF runCommands = {} THEN kernal \o Contents(queue, num_pending) ELSE << >>
Stream == INSTANCE KeyStream WITH unread <- Unread
ImplementsStream == Stream!Spec

(* Nothing stays in the queue for ever: neither a reset, nor the guard of   *)
(* the clock, nor a held RETURN stops the flushing for good, unless the     *)
(* buffer's place is unknown.                                               *)
QueueDrains == num_pending > 0 ~> num_pending = 0 \/ ~ kbd_buf_enabled

(* "Next element in `queue' we must push into the kernal's queue"           *)
(* (kbdbuf.c, of head_idx): once the held RETURN has been injected, what is *)
(* left in the queue are the characters behind it.                          *)
HeadFollowsReturn ==
    [][AlarmPending /\ flushAlarm' = 0 =>
           Contents(queue, num_pending)' = Tail(Contents(queue, num_pending))]_vars
=============================================================================
