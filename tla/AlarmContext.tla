---------------------------- MODULE AlarmContext ----------------------------
(****************************************************************************)
(* The alarm context of alarm.c and alarm.h: the timer queue every emulated *)
(* CPU owns.  Chips create alarms in a context and set them to the clock    *)
(* tick at which their callback must run; the CPU compares its clock with   *)
(* the cached tick of the next pending alarm before every instruction.      *)
(*                                                                          *)
(* pending_alarms is an unsorted array.  Three pieces of redundant state    *)
(* have to agree with it after every operation: each alarm's index into the *)
(* array, and the context's cached tick and index of the next alarm.        *)
(*                                                                          *)
(* The linked list of a context's alarms is the set `alarms'; its order is  *)
(* only used to free it.  Entries of the array at or above                  *)
(* num_pending_alarms are never read and are left out.                      *)
(****************************************************************************)
EXTENDS Integers

CONSTANTS
    Alarm,              \* the alarm_t objects the chips may create
    MaxPending,         \* ALARM_CONTEXT_MAX_PENDING_ALARMS
    ClockMax,           \* CLOCK_MAX, the value of (CLOCK) ~0L
    WarpsWhenEmpty      \* may the owner warp a context with nothing pending?

ASSUME MaxPendingAssumption == MaxPending \in Nat \ {0}
ASSUME ClockMaxAssumption == ClockMax \in Nat \ {0}
ASSUME WarpsWhenEmptyAssumption == WarpsWhenEmpty \in BOOLEAN

VARIABLES
    alarms,                     \* the alarms that exist
    pending_idx,                \* per alarm: its slot, -1 when not pending
    pending_alarms,             \* slot -> [alarm, clk]
    num_pending_alarms,
    next_pending_alarm_clk,
    next_pending_alarm_idx

contextVars == <<alarms, pending_idx, pending_alarms, num_pending_alarms,
                 next_pending_alarm_clk, next_pending_alarm_idx>>

Clock == 0 .. ClockMax          \* the values of a CLOCK
Deadline == 0 .. ClockMax - 1   \* ClockMax stands for `never' and is not set
Slot == 0 .. MaxPending - 1
Slots(n) == 0 .. n - 1          \* the slots in use when n alarms are pending
Pending == [clk : Clock, alarm : Alarm]

\* Arithmetic on CLOCKs wraps.
Wrap(c) == c % (ClockMax + 1)

IsPending(a) == pending_idx[a] >= 0

----------------------------------------------------------------------------
(* Faults that the properties below must notice; none is used by the model. *)
CacheAfterMove_Forgotten(idx, last) == next_pending_alarm_idx
----------------------------------------------------------------------------
(* alarm_context_init does not set next_pending_alarm_idx: the memory comes *)
(* from malloc, so any value may be found there.                            *)
alarm_context_new ==
    /\ alarms = {}
    /\ pending_idx = [a \in Alarm |-> -1]
    /\ pending_alarms = [i \in Slots(0) |-> 0]
    /\ num_pending_alarms = 0
    /\ next_pending_alarm_clk = ClockMax
    /\ next_pending_alarm_idx \in -1 .. MaxPending

----------------------------------------------------------------------------
(* Slot i of the array p holds the last of its earliest alarms: the scan of *)
(* alarm_context_update_next_pending compares with <=.                      *)
IsNextSlot(p, i) ==
    /\ \A j \in DOMAIN p : p[i].clk <= p[j].clk
    /\ \A j \in DOMAIN p : j > i => p[i].clk < p[j].clk

\* Recompute the cache from a non-empty array p, the one being assigned.
alarm_context_update_next_pending(p) ==
    \E i \in DOMAIN p :
        /\ IsNextSlot(p, i)
        /\ next_pending_alarm_idx' = i
        /\ next_pending_alarm_clk' = p[i].clk

alarm_new(a) ==
    /\ a \notin alarms
    /\ alarms' = alarms \union {a}
    /\ UNCHANGED <<pending_idx, pending_alarms, num_pending_alarms,
                   next_pending_alarm_clk, next_pending_alarm_idx>>

HasRoom == num_pending_alarms < MaxPending

\* alarm_set, "Not pending yet: add", with room for one more.
AddAlarm(a, c) ==
    /\ ~ IsPending(a)
    /\ HasRoom
    /\ LET n == num_pending_alarms IN
       /\ pending_alarms' = [i \in Slots(n + 1) |->
              IF i = n THEN [clk |-> c, alarm |-> a] ELSE pending_alarms[i]]
       /\ num_pending_alarms' = n + 1
       /\ IF c < next_pending_alarm_clk
          THEN next_pending_alarm_clk' = c /\ next_pending_alarm_idx' = n
          ELSE UNCHANGED <<next_pending_alarm_clk, next_pending_alarm_idx>>
       /\ pending_idx' = [pending_idx EXCEPT ![a] = n]
    /\ UNCHANGED alarms

\* alarm_set with the array full: the request is logged and dropped.
TooManyAlarms(a) ==
    /\ ~ IsPending(a)
    /\ ~ HasRoom
    /\ UNCHANGED contextVars

\* alarm_set, "Already pending: modify".
ModifyAlarm(a, c) ==
    LET idx == pending_idx[a]
        p == [pending_alarms EXCEPT ![idx].clk = c] IN
    /\ IsPending(a)
    /\ pending_alarms' = p
    /\ IF next_pending_alarm_clk > c \/ idx = next_pending_alarm_idx
       THEN alarm_context_update_next_pending(p)
       ELSE UNCHANGED <<next_pending_alarm_clk, next_pending_alarm_idx>>
    /\ UNCHANGED <<alarms, pending_idx, num_pending_alarms>>

alarm_set(a, c) ==
    \/ AddAlarm(a, c)
    \/ TooManyAlarms(a)
    \/ ModifyAlarm(a, c)

\* The indices once the alarm in slot `last' has replaced a in slot idx.
IndicesAfterMove(a, idx, last) ==
    [pending_idx EXCEPT ![pending_alarms[last].alarm] = idx, ![a] = -1]

\* The cached slot, when it was not idx, after slot `last' moved to idx.
CacheAfterMove(idx, last) ==
    IF next_pending_alarm_idx = last THEN idx ELSE next_pending_alarm_idx

\* alarm_unset with other alarms pending: the last one moves into the hole.
RemoveOneOfMany(a) ==
    LET idx == pending_idx[a]
        last == num_pending_alarms - 1
        p == [i \in Slots(last) |->
                 IF i = idx THEN pending_alarms[last] ELSE pending_alarms[i]] IN
    /\ IsPending(a)
    /\ num_pending_alarms > 1
    /\ num_pending_alarms' = last
    /\ pending_alarms' = p
    /\ pending_idx' = IndicesAfterMove(a, idx, last)
    /\ IF next_pending_alarm_idx = idx
       THEN alarm_context_update_next_pending(p)
       ELSE /\ next_pending_alarm_idx' = CacheAfterMove(idx, last)
            /\ UNCHANGED next_pending_alarm_clk

RemoveTheOnlyOne(a) ==
    /\ IsPending(a)
    /\ num_pending_alarms <= 1
    /\ num_pending_alarms' = 0
    /\ pending_alarms' = [i \in Slots(0) |-> 0]
    /\ next_pending_alarm_clk' = ClockMax
    /\ next_pending_alarm_idx' = -1
    /\ pending_idx' = [pending_idx EXCEPT ![a] = -1]

Remove(a) == RemoveOneOfMany(a) \/ RemoveTheOnlyOne(a)

alarm_unset(a) ==
    \/ Remove(a) /\ UNCHANGED alarms
    \/ ~ IsPending(a) /\ UNCHANGED contextVars

alarm_destroy(a) ==
    /\ a \in alarms
    /\ alarms' = alarms \ {a}
    /\ \/ Remove(a)
       \/ /\ ~ IsPending(a)
          /\ UNCHANGED <<pending_idx, pending_alarms, num_pending_alarms,
                         next_pending_alarm_clk, next_pending_alarm_idx>>

(* Shift every deadline, and the cached one whether or not anything is      *)
(* pending.  direction is the sign of warp_direction.                       *)
alarm_context_time_warp(amount, direction) ==
    /\ pending_alarms' = [i \in DOMAIN pending_alarms |->
           [pending_alarms[i] EXCEPT !.clk = Wrap(@ + direction * amount)]]
    /\ next_pending_alarm_clk' = IF direction = 0 THEN next_pending_alarm_clk
           ELSE Wrap(next_pending_alarm_clk + direction * amount)
    /\ UNCHANGED <<alarms, pending_idx, num_pending_alarms,
                   next_pending_alarm_idx>>

(* alarm_context_dispatch calls the callback of the alarm in this slot.     *)
DispatchSlot == next_pending_alarm_idx

----------------------------------------------------------------------------
(* The owner of a context warps it down by an amount its clock has already  *)
(* reached, and never leaves the clock beyond the next deadline for long:   *)
(* the amount does not exceed the cached tick.                              *)
Warp(amount) ==
    /\ amount <= next_pending_alarm_clk
    /\ num_pending_alarms = 0 => WarpsWhenEmpty
    /\ alarm_context_time_warp(amount, -1)

ContextNext ==
    \/ \E a \in Alarm : alarm_new(a)
    \/ \E a \in alarms, c \in Deadline : alarm_set(a, c)
    \/ \E a \in alarms : alarm_unset(a)
    \/ \E a \in alarms : alarm_destroy(a)
    \/ \E amount \in 1 .. ClockMax : Warp(amount)

ContextSpec == alarm_context_new /\ [][ContextNext]_contextVars

----------------------------------------------------------------------------
\* The types of the context's fields.
ContextTypeOK ==
    /\ alarms \subseteq Alarm
    /\ pending_idx \in [Alarm -> Slot \union {-1}]
    /\ num_pending_alarms \in 0 .. MaxPending
    /\ pending_alarms \in [Slots(num_pending_alarms) -> Pending]
    /\ next_pending_alarm_clk \in Clock
    /\ next_pending_alarm_idx \in -1 .. MaxPending

(* The array and the alarms' indices are inverse to each other whatever     *)
(* sequence of swaps alarm_unset has made, and only alarms that have not    *)
(* been destroyed are in the array (no dangling callback).                  *)
IndexesAgree ==
    /\ \A i \in Slots(num_pending_alarms) :
           /\ pending_alarms[i].alarm \in alarms
           /\ pending_idx[pending_alarms[i].alarm] = i
    /\ \A a \in Alarm : IsPending(a) =>
           /\ pending_idx[a] < num_pending_alarms
           /\ pending_alarms[pending_idx[a]].alarm = a

(* No alarm is late without the CPU noticing: the cached tick the CPU       *)
(* compares its clock with is never after a pending alarm's tick.           *)
NextIsLowerBound ==
    \A i \in Slots(num_pending_alarms) :
        next_pending_alarm_clk <= pending_alarms[i].clk

(* When the cached tick is one the clock can reach, the slot that dispatch  *)
(* reads holds a pending alarm due at exactly that tick ("Clock tick for    *)
(* the next pending alarm", alarm.h).                                       *)
NextIsPending ==
    next_pending_alarm_clk < ClockMax =>
        /\ DispatchSlot \in Slots(num_pending_alarms)
        /\ pending_alarms[DispatchSlot].clk = next_pending_alarm_clk
=============================================================================
