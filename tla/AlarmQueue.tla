----------------------------- MODULE AlarmQueue -----------------------------
(****************************************************************************)
(* What the alarms of an emulated CPU promise, without arrays, caches,      *)
(* clock counters or overflow: every armed alarm has a time left to wait,   *)
(* time passes for all of them alike, an instruction starts only when no    *)
(* alarm is due, and a due alarm is serviced before those due after it.     *)
(****************************************************************************)
EXTENDS Integers

CONSTANTS
    Alarm,      \* the alarms
    NoAlarm,    \* not an alarm
    MaxDelta,   \* alarms are armed at most this far ahead
    MaxTick     \* an instruction or a DMA takes at most this long

VARIABLES
    wait,       \* armed alarm -> cycles left, negative when overdue
    serving     \* the alarm whose callback is running, or NoAlarm

queueVars == <<wait, serving>>

Armed == DOMAIN wait
Without(a) == [b \in Armed \ {a} |-> wait[b]]

Init ==
    /\ wait = [a \in {} |-> 0]
    /\ serving = NoAlarm

\* An instruction starts with nothing due; a callback may steal cycles.
Tick(n) ==
    /\ serving = NoAlarm => \A a \in Armed : wait[a] > 0
    /\ wait' = [a \in Armed |-> wait[a] - n]
    /\ UNCHANGED serving

\* A reset also arms alarms that are due at once, or already overdue.
Arm(a, d) ==
    /\ wait' = [b \in Armed \union {a} |-> IF b = a THEN d ELSE wait[b]]
    /\ UNCHANGED serving

Cancel(a) ==
    /\ wait' = Without(a)
    /\ UNCHANGED serving

\* An earliest of the due alarms is serviced.
Serve(a) ==
    /\ serving = NoAlarm
    /\ wait[a] <= 0
    /\ \A b \in Armed : wait[a] <= wait[b]
    /\ serving' = a
    /\ UNCHANGED wait

\* Its callback re-arms it relative to when it was due, without drift.
Again(d) ==
    /\ serving # NoAlarm
    /\ wait' = [wait EXCEPT ![serving] = @ + d]
    /\ serving' = NoAlarm

Done ==
    /\ serving # NoAlarm
    /\ wait' = Without(serving)
    /\ serving' = NoAlarm

(* A reset takes the clock back, so whatever stays armed waits longer.      *)
Postpone ==
    /\ serving = NoAlarm
    /\ \/ wait' = wait
       \/ \E a \in Armed :
              /\ wait'[a] >= wait[a]
              /\ wait' = [b \in Armed |-> wait[b] + (wait'[a] - wait[a])]
    /\ UNCHANGED serving

Next ==
    \/ \E n \in 1 .. MaxTick : Tick(n)
    \/ \E a \in Alarm, d \in -MaxTick .. MaxDelta : Arm(a, d)
    \/ \E a \in Armed : Cancel(a) \/ Serve(a)
    \/ \E d \in 1 .. MaxDelta : Again(d)
    \/ Done
    \/ Postpone

Spec == Init /\ [][Next]_queueVars
=============================================================================
