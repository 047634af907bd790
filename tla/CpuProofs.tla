------------------------------ MODULE CpuProofs ------------------------------
(****************************************************************************)
(* Proofs about the main CPU: its alarms and its clock (AlarmContext and    *)
(* CpuClock), and its interrupt lines, latches and traps (InterruptStatus,  *)
(* from the section of that name on).                                       *)
(*                                                                          *)
(* The clock, for clocks of any width, frames of any length and any alarms: *)
(* no alarm is ever late by more than an instruction and a DMA, so neither  *)
(* is the end of the frame, which is never set more than a frame after the  *)
(* guard's last check; hence the guard is never further behind than that,   *)
(* and the rest of the clock's range holds what is set ahead.               *)
(*                                                                          *)
(* The interrupts: the counters and the IRQ flag agree with the lines, the  *)
(* trap's slot with its flag, and an entry for an NMI with its vector, for  *)
(* any number of lines and traps.  Given the types, LinesCounted,           *)
(* SlotIsPending and NmiEntryKeepsNmi are each inductive, and NmiIsEdge is  *)
(* with LineInv.                                                            *)
(****************************************************************************)
EXTENDS CpuClock, InterruptStatus, FiniteSetTheorems, TLAPS


(****************************************************************************)
(* First the alarm context, for every set of alarms, capacity and clock     *)
(* width.  The argument is one inductive invariant: the array and the       *)
(* alarms' indices are inverse to each other, no deadline is the `never'    *)
(* value, the cached tick is a lower bound and, when the owner does not     *)
(* warp an empty context, the cached slot holds that tick.                  *)
(****************************************************************************)

(* Needed for NextIsPending: a deadline equal to ClockMax would leave the   *)
(* cached slot unset, and a warp would then expose it.                      *)
DeadlinesAreSet ==
    \A i \in Slots(num_pending_alarms) : pending_alarms[i].clk < ClockMax

ContextInv ==
    /\ ContextTypeOK
    /\ IndexesAgree
    /\ DeadlinesAreSet
    /\ NextIsLowerBound
    /\ ~ WarpsWhenEmpty => NextIsPending

----------------------------------------------------------------------------
(* Wrapping a value that is a CLOCK already changes nothing.                *)
LEMMA WrapInRange == \A c \in Clock : Wrap(c) = c
BY ClockMaxAssumption DEF Clock, Wrap

(* The scan leaves a slot of the array and its tick in the cache, and the   *)
(* tick is a lower bound of the array's.                                    *)
LEMMA UpdateFindsNext ==
    ASSUME NEW n \in 0 .. MaxPending, NEW p \in [Slots(n) -> Pending],
           alarm_context_update_next_pending(p)
    PROVE  /\ next_pending_alarm_idx' \in Slots(n)
           /\ next_pending_alarm_clk' \in Clock
           /\ p[next_pending_alarm_idx'].clk = next_pending_alarm_clk'
           /\ \A i \in Slots(n) : next_pending_alarm_clk' <= p[i].clk
BY DEF alarm_context_update_next_pending, IsNextSlot, Pending

----------------------------------------------------------------------------
LEMMA InitContextInv == alarm_context_new => ContextInv
BY MaxPendingAssumption, ClockMaxAssumption
   DEF alarm_context_new, ContextInv, ContextTypeOK, IndexesAgree,
       DeadlinesAreSet, NextIsLowerBound, NextIsPending, Slots, Slot, Clock,
       IsPending

LEMMA NewKeepsInv ==
    ASSUME ContextInv, NEW a \in Alarm, alarm_new(a)
    PROVE  ContextInv'
BY DEF ContextInv, alarm_new, ContextTypeOK, IndexesAgree, DeadlinesAreSet,
       NextIsLowerBound, NextIsPending, Slots, IsPending, DispatchSlot

LEMMA AddKeepsInv ==
    ASSUME ContextInv, NEW a \in alarms, NEW c \in Deadline, AddAlarm(a, c)
    PROVE  ContextInv'
<1> DEFINE n == num_pending_alarms
<1> USE DEF ContextInv
<1>1. a \in Alarm /\ n \in 0 .. MaxPending - 1 /\ c \in Clock /\ c < ClockMax
  BY MaxPendingAssumption, ClockMaxAssumption
     DEF AddAlarm, HasRoom, ContextTypeOK, Deadline, Clock
<1>2. /\ n + 1 \in 0 .. MaxPending
      /\ num_pending_alarms' = n + 1
      /\ pending_alarms' = [i \in Slots(n + 1) |->
             IF i = n THEN [clk |-> c, alarm |-> a] ELSE pending_alarms[i]]
  BY <1>1, MaxPendingAssumption DEF AddAlarm
<1>3. \A i \in Slots(n + 1) : i = n \/ i \in Slots(n)
  BY <1>1 DEF Slots
<1>4. pending_alarms' \in [Slots(n + 1) -> Pending]
  BY <1>1, <1>2, <1>3 DEF Pending, ContextTypeOK
<1>5. ContextTypeOK'
  BY <1>1, <1>2, <1>4, MaxPendingAssumption
     DEF ContextTypeOK, AddAlarm, Slot, Clock
<1>6. IndexesAgree'
  BY <1>1, <1>2, <1>3
     DEF ContextTypeOK, IndexesAgree, AddAlarm, IsPending, Slots, Slot, Pending
<1>7. DeadlinesAreSet' /\ NextIsLowerBound'
  BY <1>1, <1>2, <1>3
     DEF ContextTypeOK, DeadlinesAreSet, NextIsLowerBound, AddAlarm, Pending,
         Clock, Slots
<1>8. ~ WarpsWhenEmpty => NextIsPending'
  BY <1>1, <1>2, <1>3
     DEF ContextTypeOK, NextIsPending, DispatchSlot, AddAlarm, Pending, Clock,
         Slots
<1> QED BY <1>5, <1>6, <1>7, <1>8

LEMMA ModifyKeepsInv ==
    ASSUME ContextInv, NEW a \in alarms, NEW c \in Deadline, ModifyAlarm(a, c)
    PROVE  ContextInv'
<1> DEFINE n == num_pending_alarms
           idx == pending_idx[a]
           p == [pending_alarms EXCEPT ![idx].clk = c]
<1> USE DEF ContextInv
<1>1. /\ a \in Alarm /\ n \in 0 .. MaxPending /\ c \in Clock /\ c < ClockMax
      /\ idx \in Slots(n) /\ pending_alarms \in [Slots(n) -> Pending]
  BY MaxPendingAssumption, ClockMaxAssumption
     DEF ModifyAlarm, ContextTypeOK, IndexesAgree, IsPending, Deadline, Clock,
         Slots, Slot
<1>2. p \in [Slots(n) -> Pending]
  BY <1>1 DEF Pending
<1>3. \A i \in Slots(n) : /\ p[i].alarm = pending_alarms[i].alarm
                          /\ p[i].clk = IF i = idx THEN c
                                                   ELSE pending_alarms[i].clk
  BY <1>1 DEF Pending
<1>4. /\ pending_alarms' = p /\ num_pending_alarms' = n
      /\ pending_idx' = pending_idx /\ alarms' = alarms
  BY DEF ModifyAlarm
<1> HIDE DEF p
<1>5. IndexesAgree' /\ DeadlinesAreSet'
  <2>1. \A i \in Slots(n) : p[i].alarm \in alarms /\ pending_idx[p[i].alarm] = i
    BY <1>3 DEF IndexesAgree
  <2>2. \A b \in Alarm : IsPending(b) =>
            pending_idx[b] \in Slots(n) /\ p[pending_idx[b]].alarm = b
    BY <1>1, <1>3 DEF IndexesAgree, IsPending, ContextTypeOK, Slots, Slot
  <2>3. IndexesAgree'
    BY <2>1, <2>2, <1>1, <1>4 DEF IndexesAgree, IsPending, Slots
  <2>4. DeadlinesAreSet'
    BY <1>1, <1>3, <1>4 DEF DeadlinesAreSet
  <2> QED BY <2>3, <2>4
<1>6. CASE next_pending_alarm_clk > c \/ idx = next_pending_alarm_idx
  <2>1. alarm_context_update_next_pending(p)
    BY <1>6 DEF ModifyAlarm, p
  <2>2. /\ next_pending_alarm_idx' \in Slots(n)
        /\ next_pending_alarm_clk' \in Clock
        /\ p[next_pending_alarm_idx'].clk = next_pending_alarm_clk'
        /\ \A i \in Slots(n) : next_pending_alarm_clk' <= p[i].clk
    BY <2>1, <1>1, <1>2, UpdateFindsNext
  <2> QED
    BY <2>2, <1>1, <1>2, <1>4, <1>5, MaxPendingAssumption
       DEF ContextTypeOK, NextIsLowerBound, NextIsPending, DispatchSlot, Slots
<1>7. CASE ~ (next_pending_alarm_clk > c \/ idx = next_pending_alarm_idx)
  <2>1. UNCHANGED <<next_pending_alarm_clk, next_pending_alarm_idx>>
    BY <1>7 DEF ModifyAlarm
  <2>2. next_pending_alarm_clk <= c /\ idx # next_pending_alarm_idx
    BY <1>7, <1>1 DEF ContextTypeOK, Clock
  <2> QED
    BY <2>1, <2>2, <1>1, <1>2, <1>3, <1>4, <1>5
       DEF ContextTypeOK, NextIsLowerBound, NextIsPending, DispatchSlot
<1> QED BY <1>6, <1>7

LEMMA SetKeepsInv ==
    ASSUME ContextInv, NEW a \in alarms, NEW c \in Deadline, alarm_set(a, c)
    PROVE  ContextInv'
<1>1. CASE TooManyAlarms(a)
  BY <1>1 DEF TooManyAlarms, contextVars, ContextInv, ContextTypeOK,
         IndexesAgree, DeadlinesAreSet, NextIsLowerBound, NextIsPending,
         IsPending, DispatchSlot
<1> QED BY <1>1, AddKeepsInv, ModifyKeepsInv DEF alarm_set

----------------------------------------------------------------------------
(* Removing an alarm keeps the invariant, and leaves no slot with it: the   *)
(* alarm may then be freed.  `rest' is what becomes of the set of alarms.   *)
LEMMA RemoveManyKeepsInv ==
    ASSUME ContextInv, NEW a \in alarms, RemoveOneOfMany(a),
           alarms' = alarms \/ alarms' = alarms \ {a}
    PROVE  ContextInv'
<1> DEFINE n == num_pending_alarms
           idx == pending_idx[a]
           last == n - 1
           moved == pending_alarms[last].alarm
           p == [i \in Slots(last) |->
                    IF i = idx THEN pending_alarms[last] ELSE pending_alarms[i]]
<1> USE DEF ContextInv
<1>1. /\ a \in Alarm /\ n \in 2 .. MaxPending /\ last \in Slots(n)
      /\ last \in Slot /\ idx \in Slots(n)
      /\ \A i \in Slots(n) : i # last => i \in Slots(last)
      /\ \A i \in Slots(last) : i \in Slots(n) /\ i # last
      /\ pending_alarms \in [Slots(n) -> Pending]
      /\ moved \in Alarm /\ moved \in alarms
      /\ pending_idx[moved] = last
      /\ pending_alarms[idx].alarm = a
      /\ idx = last => moved = a
  BY MaxPendingAssumption
     DEF RemoveOneOfMany, ContextTypeOK, IndexesAgree, IsPending, Slots, Slot,
         Pending
<1>2. /\ num_pending_alarms' = last /\ pending_alarms' = p
      /\ pending_idx' = [pending_idx EXCEPT ![moved] = idx, ![a] = -1]
  BY DEF RemoveOneOfMany, IndicesAfterMove
<1>3. p \in [Slots(last) -> Pending]
  BY <1>1
<1>4. \A b \in Alarm : pending_idx'[b] = IF b = a THEN -1
                                         ELSE IF b = moved THEN idx
                                         ELSE pending_idx[b]
  BY <1>1, <1>2 DEF ContextTypeOK
<1>5. \A i \in Slots(last) :
          p[i] = IF i = idx THEN pending_alarms[last] ELSE pending_alarms[i]
  OBVIOUS
<1> HIDE DEF p
<1>6. IndexesAgree'
  <2>1. ASSUME NEW i \in Slots(last)
        PROVE  p[i].alarm \in alarms' /\ pending_idx'[p[i].alarm] = i
    <3>1. CASE i = idx
      BY <3>1, <1>1, <1>4, <1>5 DEF IndexesAgree
    <3>2. CASE i # idx
      <4>1. p[i].alarm \in Alarm /\ p[i].alarm # a /\ p[i].alarm # moved
        BY <3>2, <1>1, <1>5 DEF IndexesAgree, ContextTypeOK
      <4> QED BY <4>1, <3>2, <1>1, <1>4, <1>5 DEF IndexesAgree
    <3> QED BY <3>1, <3>2
  <2>2. ASSUME NEW b \in Alarm, pending_idx'[b] >= 0
        PROVE  pending_idx'[b] \in Slots(last) /\ p[pending_idx'[b]].alarm = b
    <3>1. b # a
      BY <2>2, <1>4
    <3>2. CASE b = moved
      BY <3>1, <3>2, <1>1, <1>4, <1>5
    <3>3. CASE b # moved
      <4>1. pending_idx[b] \in Slots(n) /\ pending_alarms[pending_idx[b]].alarm = b
        BY <3>1, <3>3, <2>2, <1>4
           DEF IndexesAgree, IsPending, ContextTypeOK, Slots, Slot
      <4>2. pending_idx[b] # last /\ pending_idx[b] # idx
        BY <4>1, <3>1, <3>3, <1>1
      <4> QED BY <4>1, <4>2, <3>1, <3>3, <1>1, <1>4, <1>5
    <3> QED BY <3>2, <3>3
  <2>3. \A j \in Slots(last) : j < last
    BY <1>1, MaxPendingAssumption DEF Slots
  <2>4. \A i \in Slots(num_pending_alarms') :
            /\ pending_alarms'[i].alarm \in alarms'
            /\ pending_idx'[pending_alarms'[i].alarm] = i
    BY <2>1, <1>2
  <2>5. \A b \in Alarm : pending_idx'[b] >= 0 =>
            /\ pending_idx'[b] < num_pending_alarms'
            /\ pending_alarms'[pending_idx'[b]].alarm = b
    BY <2>2, <2>3, <1>2
  <2> QED BY <2>4, <2>5 DEF IndexesAgree, IsPending
<1>7. DeadlinesAreSet'
  BY <1>1, <1>2, <1>5 DEF DeadlinesAreSet
<1>8. pending_idx' \in [Alarm -> Slot \union {-1}]
  BY <1>1, <1>2 DEF ContextTypeOK, Slots, Slot
<1>9. last \in 0 .. MaxPending
  BY <1>1, MaxPendingAssumption
<1>10. CASE next_pending_alarm_idx = idx
  <2>1. alarm_context_update_next_pending(p)
    BY <1>10 DEF RemoveOneOfMany, p
  <2>2. /\ next_pending_alarm_idx' \in Slots(last)
        /\ next_pending_alarm_clk' \in Clock
        /\ p[next_pending_alarm_idx'].clk = next_pending_alarm_clk'
        /\ \A i \in Slots(last) : next_pending_alarm_clk' <= p[i].clk
    BY <2>1, <1>3, <1>9, UpdateFindsNext
  <2>3. next_pending_alarm_idx' \in -1 .. MaxPending
    BY <2>2, <1>9, MaxPendingAssumption DEF Slots
  <2>4. ContextTypeOK'
    BY <2>2, <2>3, <1>2, <1>3, <1>8, <1>9 DEF ContextTypeOK
  <2>5. NextIsLowerBound' /\ NextIsPending'
    BY <2>2, <1>2 DEF NextIsLowerBound, NextIsPending, DispatchSlot
  <2> QED BY <2>4, <2>5, <1>6, <1>7
<1>11. CASE next_pending_alarm_idx # idx
  <2>1. /\ next_pending_alarm_idx' = IF next_pending_alarm_idx = last THEN idx
                                      ELSE next_pending_alarm_idx
        /\ next_pending_alarm_clk' = next_pending_alarm_clk
    BY <1>11 DEF RemoveOneOfMany, CacheAfterMove
  <2>2. next_pending_alarm_idx' \in -1 .. MaxPending
    BY <2>1, <1>1, MaxPendingAssumption DEF ContextTypeOK, Slots
  <2>3. NextIsLowerBound'
    BY <2>1, <1>1, <1>2, <1>5 DEF NextIsLowerBound
  <2>4. ~ WarpsWhenEmpty => NextIsPending'
    BY <2>1, <1>1, <1>2, <1>5, <1>11 DEF NextIsPending, DispatchSlot, Slots
  <2> QED
    BY <2>1, <2>2, <2>3, <2>4, <1>1, <1>2, <1>3, <1>6, <1>7, <1>8, <1>9
       DEF ContextTypeOK
<1> QED BY <1>10, <1>11

LEMMA RemoveOnlyKeepsInv ==
    ASSUME ContextInv, NEW a \in alarms, RemoveTheOnlyOne(a),
           alarms' = alarms \/ alarms' = alarms \ {a}
    PROVE  ContextInv'
<1> USE DEF ContextInv
<1>1. /\ a \in Alarm /\ num_pending_alarms = 1 /\ pending_idx[a] = 0
      /\ pending_alarms[0].alarm = a
  BY MaxPendingAssumption
     DEF RemoveTheOnlyOne, ContextTypeOK, IndexesAgree, IsPending, Slot, Slots
<1>2. \A b \in Alarm : b # a => pending_idx[b] = -1
  BY <1>1 DEF ContextTypeOK, IndexesAgree, IsPending, Slot, Slots
<1>3. \A b \in Alarm : pending_idx'[b] = -1
  BY <1>1, <1>2 DEF RemoveTheOnlyOne, ContextTypeOK
<1>4. pending_idx' \in [Alarm -> Slot \union {-1}]
  BY <1>1 DEF RemoveTheOnlyOne, ContextTypeOK
<1> QED
  BY <1>1, <1>3, <1>4, MaxPendingAssumption, ClockMaxAssumption
     DEF RemoveTheOnlyOne, ContextTypeOK, IndexesAgree, DeadlinesAreSet,
         NextIsLowerBound, NextIsPending, IsPending, Slots, Clock

LEMMA UnsetKeepsInv ==
    ASSUME ContextInv, NEW a \in alarms, alarm_unset(a)
    PROVE  ContextInv'
<1>1. CASE UNCHANGED contextVars
  BY <1>1 DEF contextVars, ContextInv, ContextTypeOK, IndexesAgree,
         DeadlinesAreSet, NextIsLowerBound, NextIsPending, IsPending,
         DispatchSlot
<1> QED
  BY <1>1, RemoveManyKeepsInv, RemoveOnlyKeepsInv DEF alarm_unset, Remove

LEMMA DestroyKeepsInv ==
    ASSUME ContextInv, NEW a \in Alarm, alarm_destroy(a)
    PROVE  ContextInv'
<1>1. a \in alarms /\ alarms' = alarms \ {a}
  BY DEF alarm_destroy
<1>2. CASE Remove(a)
  BY <1>1, <1>2, RemoveManyKeepsInv, RemoveOnlyKeepsInv DEF Remove
<1>3. CASE /\ ~ IsPending(a)
           /\ UNCHANGED <<pending_idx, pending_alarms, num_pending_alarms,
                          next_pending_alarm_clk, next_pending_alarm_idx>>
  <2>1. \A i \in Slots(num_pending_alarms) : pending_alarms[i].alarm # a
    BY <1>3 DEF ContextInv, IndexesAgree, IsPending, Slots
  <2> QED
    BY <2>1, <1>1, <1>3
       DEF ContextInv, ContextTypeOK, IndexesAgree, DeadlinesAreSet,
           NextIsLowerBound, NextIsPending, IsPending, DispatchSlot
<1> QED BY <1>2, <1>3 DEF alarm_destroy

----------------------------------------------------------------------------
LEMMA WarpKeepsInv ==
    ASSUME ContextInv, NEW amount \in 1 .. ClockMax, Warp(amount)
    PROVE  ContextInv'
<1> USE DEF ContextInv
<1>1. /\ amount \in Nat /\ amount <= next_pending_alarm_clk
      /\ next_pending_alarm_clk - amount \in Clock
      /\ next_pending_alarm_clk' = next_pending_alarm_clk - amount
  <2>1. next_pending_alarm_clk + (-1) * amount = next_pending_alarm_clk - amount
        /\ next_pending_alarm_clk - amount \in Clock /\ amount \in Nat
    BY ClockMaxAssumption DEF Warp, ContextTypeOK, Clock
  <2> QED
    BY <2>1, WrapInRange DEF Warp, alarm_context_time_warp
<1>2. ASSUME NEW i \in Slots(num_pending_alarms)
      PROVE  /\ pending_alarms'[i].alarm = pending_alarms[i].alarm
             /\ pending_alarms'[i].clk = pending_alarms[i].clk - amount
             /\ pending_alarms'[i] \in Pending
  <2>1. /\ pending_alarms[i] \in Pending
        /\ amount <= pending_alarms[i].clk
        /\ pending_alarms[i].clk + (-1) * amount = pending_alarms[i].clk - amount
        /\ pending_alarms[i].clk - amount \in Clock
    BY <1>1, ClockMaxAssumption
       DEF ContextTypeOK, NextIsLowerBound, Pending, Clock
  <2>2. pending_alarms'[i] = [pending_alarms[i] EXCEPT
                                 !.clk = Wrap(@ + (-1) * amount)]
    BY DEF Warp, alarm_context_time_warp, ContextTypeOK
  <2> QED BY <2>1, <2>2, WrapInRange DEF Pending
<1>3. /\ DOMAIN pending_alarms = Slots(num_pending_alarms)
      /\ num_pending_alarms' = num_pending_alarms
      /\ pending_idx' = pending_idx /\ alarms' = alarms
      /\ next_pending_alarm_idx' = next_pending_alarm_idx
  BY DEF Warp, alarm_context_time_warp, ContextTypeOK
<1>4. pending_alarms' \in [Slots(num_pending_alarms) -> Pending]
  BY <1>2, <1>3 DEF Warp, alarm_context_time_warp
<1>5. ContextTypeOK'
  BY <1>1, <1>3, <1>4 DEF ContextTypeOK
<1>6. IndexesAgree'
  <2>1. \A b \in Alarm : IsPending(b) =>
            pending_idx[b] \in Slots(num_pending_alarms)
    BY DEF IndexesAgree, IsPending, ContextTypeOK, Slots, Slot
  <2> QED BY <2>1, <1>2, <1>3 DEF IndexesAgree, IsPending
<1>7. DeadlinesAreSet'
  BY <1>1, <1>2, <1>3, ClockMaxAssumption
     DEF DeadlinesAreSet, ContextTypeOK, Pending, Clock
<1>8. NextIsLowerBound'
  BY <1>1, <1>2, <1>3 DEF NextIsLowerBound, ContextTypeOK, Pending, Clock
<1>9. ~ WarpsWhenEmpty => NextIsPending'
  <2> SUFFICES ASSUME ~ WarpsWhenEmpty PROVE NextIsPending'
    OBVIOUS
  <2>1. 0 \in Slots(num_pending_alarms)
    BY DEF Warp, ContextTypeOK, Slots
  <2>2. next_pending_alarm_clk < ClockMax
    BY <2>1, ClockMaxAssumption
       DEF NextIsLowerBound, DeadlinesAreSet, ContextTypeOK, Pending, Clock
  <2>3. /\ DispatchSlot \in Slots(num_pending_alarms)
        /\ pending_alarms[DispatchSlot].clk = next_pending_alarm_clk
    BY <2>2 DEF NextIsPending
  <2> QED BY <2>3, <1>1, <1>2, <1>3 DEF NextIsPending, DispatchSlot
<1> QED BY <1>5, <1>6, <1>7, <1>8, <1>9

----------------------------------------------------------------------------
LEMMA NextKeepsInv == ContextInv /\ [ContextNext]_contextVars => ContextInv'
<1> SUFFICES ASSUME ContextInv, [ContextNext]_contextVars
             PROVE  ContextInv'
  OBVIOUS
<1>1. CASE UNCHANGED contextVars
  BY <1>1 DEF contextVars, ContextInv, ContextTypeOK, IndexesAgree,
         DeadlinesAreSet, NextIsLowerBound, NextIsPending, IsPending,
         DispatchSlot
<1>2. ASSUME NEW a \in Alarm, alarm_new(a) PROVE ContextInv'
  BY <1>2, NewKeepsInv
<1>3. ASSUME NEW a \in alarms, NEW c \in Deadline, alarm_set(a, c)
      PROVE  ContextInv'
  BY <1>3, SetKeepsInv
<1>4. ASSUME NEW a \in alarms, alarm_unset(a) PROVE ContextInv'
  BY <1>4, UnsetKeepsInv
<1>5. ASSUME NEW a \in alarms, alarm_destroy(a) PROVE ContextInv'
  BY <1>5, DestroyKeepsInv DEF ContextInv, ContextTypeOK
<1>6. ASSUME NEW amount \in 1 .. ClockMax, Warp(amount) PROVE ContextInv'
  BY <1>6, WarpKeepsInv
<1> QED BY <1>1, <1>2, <1>3, <1>4, <1>5, <1>6 DEF ContextNext

(* The fields keep their types: no operation sequence drives a count or an  *)
(* index out of the array.                                                  *)
THEOREM ContextTypesHold == ContextSpec => []ContextTypeOK
<1>1. ContextInv => ContextTypeOK
  BY DEF ContextInv
<1> QED BY <1>1, InitContextInv, NextKeepsInv, PTL DEF ContextSpec

(* alarm_unset's swap never separates an alarm from its slot, and the array *)
(* never refers to a destroyed alarm.                                       *)
THEOREM IndexesAlwaysAgree == ContextSpec => []IndexesAgree
<1>1. ContextInv => IndexesAgree
  BY DEF ContextInv
<1> QED BY <1>1, InitContextInv, NextKeepsInv, PTL DEF ContextSpec

(* The cached tick is never after a pending alarm's: PROCESS_ALARMS cannot  *)
(* run past a deadline.                                                     *)
THEOREM NextAlwaysLowerBound == ContextSpec => []NextIsLowerBound
<1>1. ContextInv => NextIsLowerBound
  BY DEF ContextInv
<1> QED BY <1>1, InitContextInv, NextKeepsInv, PTL DEF ContextSpec

(* An owner that never warps an empty context always dispatches a pending   *)
(* alarm at its own tick.                                                   *)
THEOREM NextAlwaysPending == ~ WarpsWhenEmpty /\ ContextSpec => []NextIsPending
<1>1. ~ WarpsWhenEmpty /\ ContextInv => NextIsPending
  BY DEF ContextInv
<1>2. ~ WarpsWhenEmpty => [](~ WarpsWhenEmpty)
  OBVIOUS
<1> QED BY <1>1, <1>2, InitContextInv, NextKeepsInv, PTL DEF ContextSpec

----------------------------------------------------------------------------
(* Then the clock, which the context's owner moves.                         *)

\* The machine's own CPU: its context is never empty when it is warped.
MainCpu == VsyncAlarm # NoAlarm /\ ~ WarpsWhenEmpty

\* The clock when the guard last checked it, wound back with it.
checked == clk - unguarded

HasStolen == InHandler /\ loop.alarm = FetchAlarm /\ loop.stage # "start"
FrameHasEnded ==
    InHandler /\ \/ loop.stage = "drawn"
                 \/ loop.alarm = VsyncAlarm /\ loop.stage = "end"
FrameIsReset == loop.at = "reset" /\ VsyncAlarm \in loop.todo

LoopTypes ==
    /\ ContextInv
    /\ alarms = Alarm
    /\ clk \in Clock
    /\ unguarded \in Nat
    /\ loop \in LoopState
    /\ InHandler =>
           /\ loop.alarm = VsyncAlarm => loop.stage \in {"start", "end"}
           /\ loop.stage \in {"stolen", "drawn"} => loop.alarm = FetchAlarm

\* A callback's own alarm is still pending, with the deadline it computes.
ServedIsPending ==
    InHandler => /\ IsPending(loop.alarm)
                 /\ DeadlineOf(loop.alarm) = clk - loop.offset

(* Instructions start with nothing due, so an alarm is less than one late;  *)
(* only the fetch steals, when it is the earliest, and re-arms after it.    *)
LatenessBounded ==
    \A a \in Alarm : IsPending(a) =>
        /\ DeadlineOf(a) > clk - 2 * MaxTick
        /\ a = FetchAlarm /\ ~ HasStolen => DeadlineOf(a) > clk - MaxTick
        /\ InHandler /\ loop.alarm = FetchAlarm /\ loop.stage = "start" =>
               DeadlineOf(a) >= DeadlineOf(FetchAlarm)

\* The end of the frame is set at most a frame after the guard's last check.
FrameInReach ==
    ~ FrameIsReset =>
        /\ IsPending(VsyncAlarm)
        /\ DeadlineOf(VsyncAlarm) <= checked + FrameCycles
        /\ FrameHasEnded => DeadlineOf(VsyncAlarm) <= checked

Guarded ==
    /\ checked < clk_max_value
    /\ loop.at = "reset" => clk = ResetClk /\ unguarded = 0

ClockInv ==
    /\ LoopTypes
    /\ ServedIsPending
    /\ LatenessBounded
    /\ FrameInReach
    /\ Guarded

----------------------------------------------------------------------------
(* What the operations on a context do to the deadlines of its alarms.      *)

LEMMA DeadlineTypes ==
    ASSUME ContextInv, NEW a \in Alarm, IsPending(a)
    PROVE  /\ pending_idx[a] \in Slots(num_pending_alarms)
           /\ pending_alarms[pending_idx[a]].alarm = a
           /\ DeadlineOf(a) \in Deadline
           /\ next_pending_alarm_clk <= DeadlineOf(a)
BY MaxPendingAssumption, ClockMaxAssumption
   DEF ContextInv, ContextTypeOK, IndexesAgree, DeadlinesAreSet,
       NextIsLowerBound, IsPending, DeadlineOf, Slots, Slot, Pending, Clock,
       Deadline

\* As many slots as alarms: there is room for an alarm that is not pending.
LEMMA RoomForAll ==
    ASSUME ContextInv, NEW a \in Alarm, ~ IsPending(a)
    PROVE  HasRoom
<1> SUFFICES ASSUME num_pending_alarms = MaxPending PROVE FALSE
  BY MaxPendingAssumption DEF HasRoom, ContextInv, ContextTypeOK
<1> DEFINE others == Alarm \ {a}
           slots == 0 .. MaxPending - 1
           f == [i \in slots |-> pending_alarms[i].alarm]
<1>1. IsFiniteSet(others) /\ Cardinality(others) = Cardinality(Alarm) - 1
  BY RoomAssumption, FS_RemoveElement
<1>2. IsFiniteSet(slots) /\ Cardinality(slots) = MaxPending
  BY MaxPendingAssumption, FS_Interval
<1>3. f \in [slots -> others]
  BY DEF ContextInv, ContextTypeOK, IndexesAgree, Slots, IsPending
<1>4. \A i, j \in slots : f[i] = f[j] => i = j
  BY DEF ContextInv, IndexesAgree, Slots
<1>5. Cardinality(others) < Cardinality(slots)
  BY <1>1, <1>2, RoomAssumption, MaxPendingAssumption, FS_CardinalityType
<1> HIDE DEF f, slots, others
<1>6. \E i, j \in slots : i # j /\ f[i] = f[j]
  BY <1>1, <1>2, <1>3, <1>5, FS_PigeonHole
<1> QED BY <1>4, <1>6

LEMMA SetMovesOne ==
    ASSUME ContextInv, alarms = Alarm, NEW a \in Alarm, NEW c \in Deadline,
           alarm_set(a, c)
    PROVE  /\ ContextInv' /\ alarms' = alarms
           /\ IsPending(a)' /\ DeadlineOf(a)' = c
           /\ \A b \in Alarm \ {a} :
                  /\ IsPending(b)' <=> IsPending(b)
                  /\ IsPending(b) => DeadlineOf(b)' = DeadlineOf(b)
<1>1. ContextInv'
  BY SetKeepsInv
<1>2. CASE AddAlarm(a, c)
  <2>1. \A b \in Alarm : pending_idx'[b] =
            IF b = a THEN num_pending_alarms ELSE pending_idx[b]
    BY <1>2 DEF AddAlarm, ContextInv, ContextTypeOK
  <2>2. \A b \in Alarm : IsPending(b) =>
            /\ pending_idx[b] \in Slots(num_pending_alarms)
            /\ pending_alarms'[pending_idx[b]] = pending_alarms[pending_idx[b]]
    BY <1>2, DeadlineTypes DEF AddAlarm, Slots, ContextInv, ContextTypeOK
  <2>3. pending_alarms'[num_pending_alarms].clk = c /\ num_pending_alarms >= 0
    BY <1>2 DEF AddAlarm, Slots, ContextInv, ContextTypeOK
  <2> QED BY <2>1, <2>2, <2>3, <1>1, <1>2 DEF AddAlarm, IsPending, DeadlineOf
<1>3. CASE ModifyAlarm(a, c)
  <2>1. /\ pending_idx' = pending_idx /\ alarms' = alarms /\ IsPending(a)
        /\ pending_alarms' = [pending_alarms EXCEPT ![pending_idx[a]].clk = c]
    BY <1>3 DEF ModifyAlarm
  <2>2. pending_alarms \in [Slots(num_pending_alarms) -> Pending]
    BY DEF ContextInv, ContextTypeOK
  <2>3. \A b \in Alarm : IsPending(b) =>
            DeadlineOf(b)' = IF b = a THEN c ELSE DeadlineOf(b)
    BY <2>1, <2>2, DeadlineTypes DEF DeadlineOf, Pending
  <2> QED BY <2>1, <2>3, <1>1 DEF IsPending
<1>4. CASE TooManyAlarms(a)
  BY <1>4, RoomForAll DEF TooManyAlarms
<1> QED BY <1>2, <1>3, <1>4 DEF alarm_set

LEMMA RemoveTakesOne ==
    ASSUME ContextInv, NEW a \in Alarm, Remove(a)
    PROVE  /\ ~ IsPending(a)'
           /\ \A b \in Alarm \ {a} :
                  /\ IsPending(b)' <=> IsPending(b)
                  /\ IsPending(b) => DeadlineOf(b)' = DeadlineOf(b)
<1> USE DEF ContextInv
<1>1. CASE RemoveOneOfMany(a)
  <2> DEFINE idx == pending_idx[a]
             last == num_pending_alarms - 1
             moved == pending_alarms[last].alarm
  <2>1. /\ num_pending_alarms \in 2 .. MaxPending /\ last \in Slots(num_pending_alarms)
        /\ idx \in Slots(num_pending_alarms) /\ moved \in Alarm
        /\ pending_idx[moved] = last /\ IsPending(moved)
        /\ idx >= 0 /\ last >= 0
    BY <1>1, DeadlineTypes, MaxPendingAssumption
       DEF RemoveOneOfMany, ContextTypeOK, IndexesAgree, Slots, IsPending
  <2>2. \A b \in Alarm : pending_idx'[b] = IF b = a THEN -1
                                           ELSE IF b = moved THEN idx
                                           ELSE pending_idx[b]
    BY <1>1, <2>1 DEF RemoveOneOfMany, IndicesAfterMove, ContextTypeOK
  <2>3. \A i \in Slots(last) : pending_alarms'[i] =
            IF i = idx THEN pending_alarms[last] ELSE pending_alarms[i]
    BY <1>1 DEF RemoveOneOfMany
  <2>4. ASSUME NEW b \in Alarm, b # a, b # moved, IsPending(b)
        PROVE  pending_idx[b] \in Slots(last) /\ pending_idx[b] # idx
    BY <2>1, <2>4, <1>1, DeadlineTypes DEF Slots, RemoveOneOfMany
  <2>5. moved # a => idx \in Slots(last)
    BY <2>1, <1>1, DeadlineTypes DEF Slots, RemoveOneOfMany
  <2>6. ~ IsPending(a)'
    BY <2>2 DEF IsPending
  <2>7. ASSUME NEW b \in Alarm, b # a
        PROVE  /\ IsPending(b)' <=> IsPending(b)
               /\ IsPending(b) => DeadlineOf(b)' = DeadlineOf(b)
    <3>1. CASE b = moved
      BY <3>1, <2>7, <2>1, <2>2, <2>3, <2>5 DEF IsPending, DeadlineOf
    <3>2. CASE b # moved
      BY <3>2, <2>7, <2>2, <2>3, <2>4 DEF IsPending, DeadlineOf
    <3> QED BY <3>1, <3>2
  <2> QED BY <2>6, <2>7
<1>2. CASE RemoveTheOnlyOne(a)
  <2>1. \A b \in Alarm \ {a} : ~ IsPending(b)
    BY <1>2, DeadlineTypes DEF RemoveTheOnlyOne, Slots, ContextTypeOK
  <2>2. \A b \in Alarm : pending_idx'[b] = IF b = a THEN -1 ELSE pending_idx[b]
    BY <1>2 DEF RemoveTheOnlyOne, ContextTypeOK
  <2> QED BY <2>1, <2>2 DEF IsPending
<1> QED BY <1>1, <1>2 DEF Remove

LEMMA UnsetTakesOne ==
    ASSUME ContextInv, alarms = Alarm, NEW a \in Alarm, alarm_unset(a)
    PROVE  /\ ContextInv' /\ alarms' = alarms
           /\ ~ IsPending(a)'
           /\ \A b \in Alarm \ {a} :
                  /\ IsPending(b)' <=> IsPending(b)
                  /\ IsPending(b) => DeadlineOf(b)' = DeadlineOf(b)
<1>1. ContextInv'
  BY UnsetKeepsInv
<1>2. CASE Remove(a) /\ UNCHANGED alarms
  BY <1>1, <1>2, RemoveTakesOne
<1>3. CASE ~ IsPending(a) /\ UNCHANGED contextVars
  BY <1>1, <1>3 DEF contextVars, IsPending, DeadlineOf
<1> QED BY <1>2, <1>3 DEF alarm_unset

LEMMA WarpMovesAll ==
    ASSUME ContextInv, NEW amount \in 1 .. ClockMax, Warp(amount)
    PROVE  /\ ContextInv' /\ alarms' = alarms
           /\ \A b \in Alarm :
                  /\ IsPending(b)' <=> IsPending(b)
                  /\ IsPending(b) => DeadlineOf(b)' = DeadlineOf(b) - amount
<1>1. ContextInv'
  BY WarpKeepsInv
<1>2. /\ pending_idx' = pending_idx /\ alarms' = alarms
      /\ amount <= next_pending_alarm_clk
  BY DEF Warp, alarm_context_time_warp
<1>3. ASSUME NEW b \in Alarm, IsPending(b)
      PROVE  DeadlineOf(b)' = DeadlineOf(b) - amount
  <2>1. DeadlineOf(b) - amount \in Clock
    BY <1>2, <1>3, DeadlineTypes, ClockMaxAssumption
       DEF Deadline, Clock, ContextInv, ContextTypeOK
  <2>2. DeadlineOf(b) + (-1) * amount = DeadlineOf(b) - amount
    BY <1>3, DeadlineTypes, ClockMaxAssumption DEF Deadline
  <2>3. DeadlineOf(b)' = Wrap(DeadlineOf(b) + (-1) * amount)
    BY <1>2, <1>3, DeadlineTypes
       DEF Warp, alarm_context_time_warp, DeadlineOf, ContextInv, ContextTypeOK,
           Pending
  <2> QED BY <2>1, <2>2, <2>3, WrapInRange
<1> QED BY <1>1, <1>2, <1>3 DEF IsPending

LEMMA ContextStays ==
    ASSUME ContextInv, UNCHANGED contextVars
    PROVE  /\ ContextInv' /\ alarms' = alarms
           /\ next_pending_alarm_clk' = next_pending_alarm_clk
           /\ \A b \in Alarm : /\ IsPending(b)' <=> IsPending(b)
                               /\ DeadlineOf(b)' = DeadlineOf(b)
BY DEF contextVars, ContextInv, ContextTypeOK, IndexesAgree, DeadlinesAreSet,
       NextIsLowerBound, NextIsPending, IsPending, DispatchSlot, DeadlineOf

\* The cached tick, if it is one, is the deadline of the alarm in the slot.
LEMMA NextIsDeadline ==
    ASSUME ContextInv, NextIsPending, next_pending_alarm_clk < ClockMax
    PROVE  /\ DispatchSlot \in Slots(num_pending_alarms)
           /\ pending_alarms[DispatchSlot].alarm \in Alarm
           /\ IsPending(pending_alarms[DispatchSlot].alarm)
           /\ DeadlineOf(pending_alarms[DispatchSlot].alarm)
                  = next_pending_alarm_clk
BY MaxPendingAssumption
   DEF NextIsPending, ContextInv, IndexesAgree, ContextTypeOK, IsPending,
       DeadlineOf, Slots

----------------------------------------------------------------------------
(* Arithmetic of the guard.                                                 *)

LEMMA Quotient ==
    ASSUME NEW n \in Nat, NEW d \in Nat \ {0}
    PROVE  /\ (n \div d) * d \in Nat
           /\ (n \div d) * d <= n
           /\ n < (n \div d) * d + d
<1>1. n = d * (n \div d) + (n % d) /\ n % d \in 0 .. d - 1 /\ n \div d \in Nat
  OBVIOUS
<1>2. (n \div d) * d = d * (n \div d) /\ d * (n \div d) \in Nat
  BY <1>1
<1> QED BY <1>1, <1>2

\* The range of the clock is four times what the guard keeps in reserve.
LEMMA Sizes ==
    /\ SubMin \in Nat /\ ClkBase \in Nat /\ FrameCycles \in Nat
    /\ MaxTick \in Nat \ {0} /\ MaxDelta \in Nat /\ ClockMax \in Nat
    /\ clk_max_value = ClockMax - SubMin
    /\ clk_max_value >= 3 * SubMin
    /\ FrameCycles + 3 * MaxTick + MaxDelta <= SubMin + 1
    /\ ClkBase <= SubMin
    /\ ResetClk \in Nat \ {0} /\ ResetClk <= MaxTick
    /\ MaxTick <= FrameCycles /\ FrameCycles <= MaxDelta
BY GuardAssumption, FrameAssumption, BaseAssumption, CyclesAssumption,
   OrderAssumption, ClockMaxAssumption
   DEF clk_max_value, Deadline

LEMMA SubBounds ==
    /\ clk_guard_clock_sub \in 1 .. ClockMax
    /\ clk_guard_clock_sub <= clk_max_value - SubMin
    /\ clk_guard_clock_sub >= clk_max_value - 2 * SubMin
<1>1. clk_max_value - SubMin \in Nat
  BY Sizes
<1>2. CASE ClkBase = 0
  BY <1>2, Sizes DEF clk_guard_clock_sub
<1>3. CASE ClkBase # 0
  <2> DEFINE n == clk_max_value - SubMin
             q == (n \div ClkBase) * ClkBase
  <2>1. q \in Nat /\ q <= n /\ n < q + ClkBase
    BY <1>1, <1>3, Sizes, Quotient
  <2>2. clk_guard_clock_sub = q
    BY <1>3 DEF clk_guard_clock_sub
  <2> HIDE DEF q
  <2> QED BY <2>1, <2>2, Sizes
<1> QED BY <1>2, <1>3

----------------------------------------------------------------------------
(* What the invariant says of the clock and of the loop.                    *)

LEMMA LoopShape ==
    ASSUME loop \in LoopState
    PROVE  /\ loop.at \in {"cpu", "handler", "reset"}
           /\ loop.at = "cpu" <=> loop = Cpu
           /\ InHandler =>
                  /\ loop = Handler(loop.alarm, loop.offset, loop.stage)
                  /\ loop.alarm \in Alarm /\ loop.offset \in Clock
                  /\ loop.stage \in Stage
           /\ loop.at = "reset" =>
                  loop = Resetting(loop.todo) /\ loop.todo \subseteq ChipAlarm
BY DEF LoopState, Cpu, Handler, Resetting, InHandler

\* The guard is never behind by more than a frame and the frame's lateness.
LEMMA ClockInReach ==
    ASSUME ClockInv, MainCpu
    PROVE  /\ unguarded < FrameCycles + 2 * MaxTick
           /\ clk < clk_max_value + FrameCycles + 2 * MaxTick - 1
           /\ clk + MaxTick + MaxDelta < ClockMax
<1>1. clk \in Nat /\ unguarded \in Nat
  BY DEF ClockInv, LoopTypes, Clock
<1>2. unguarded < FrameCycles + 2 * MaxTick
  <2>1. CASE FrameIsReset
    BY <2>1, Sizes DEF ClockInv, Guarded, FrameIsReset
  <2>2. CASE ~ FrameIsReset
    <3>1. VsyncAlarm \in Alarm
      BY ChipAlarmAssumption, VsyncAlarmAssumption DEF MainCpu
    <3>2. IsPending(VsyncAlarm) /\ DeadlineOf(VsyncAlarm) \in Nat
      BY <2>2, <3>1, DeadlineTypes
         DEF ClockInv, FrameInReach, LoopTypes, Deadline
    <3> QED
      BY <1>1, <2>2, <3>1, <3>2, Sizes
         DEF ClockInv, FrameInReach, LatenessBounded, checked
  <2> QED BY <2>1, <2>2
<1> QED BY <1>1, <1>2, Sizes DEF ClockInv, Guarded, checked

\* No deadline, pending or cached, is below what the guard subtracts.
LEMMA SubInReach ==
    ASSUME ClockInv, MainCpu, clk >= clk_max_value
    PROVE  /\ \A a \in Alarm :
                  IsPending(a) => DeadlineOf(a) >= clk_guard_clock_sub
           /\ next_pending_alarm_clk >= clk_guard_clock_sub
<1>1. ASSUME NEW a \in Alarm, IsPending(a)
      PROVE  DeadlineOf(a) >= clk_guard_clock_sub
  <2>1. DeadlineOf(a) \in Nat /\ clk \in Nat
    BY <1>1, DeadlineTypes DEF ClockInv, LoopTypes, Deadline, Clock
  <2> QED
    BY <1>1, <2>1, Sizes, SubBounds DEF ClockInv, LatenessBounded
<1>2. NextIsPending /\ ContextInv /\ next_pending_alarm_clk \in Clock
  BY DEF ClockInv, LoopTypes, ContextInv, ContextTypeOK, MainCpu
<1>3. CASE next_pending_alarm_clk < ClockMax
  BY <1>1, <1>2, <1>3, NextIsDeadline
<1>4. CASE next_pending_alarm_clk = ClockMax
  BY <1>1, <1>4, SubBounds, Sizes
<1>5. next_pending_alarm_clk < ClockMax \/ next_pending_alarm_clk = ClockMax
  BY <1>2, Sizes DEF Clock
<1> QED BY <1>3, <1>4, <1>5

LEMMA JustChecked ==
    ASSUME clk' \in Nat, unguarded' = 0
    PROVE  checked' = clk'
<1>1. \A c \in Nat : c - 0 = c
  OBVIOUS
<1> QED BY <1>1 DEF checked

(* The guard's subtraction moves the clock and all deadlines alike, and     *)
(* leaves the clock below the guard's limit.                                *)
LEMMA GuardMovesAll ==
    ASSUME ClockInv, MainCpu, ~ FrameIsReset, clk_guard_prevent_overflow
    PROVE  /\ unguarded' = 0 /\ clk' \in Clock /\ clk' < clk_max_value
           /\ ContextInv' /\ alarms' = alarms
           /\ \A b \in Alarm :
                  /\ IsPending(b)' <=> IsPending(b)
                  /\ IsPending(b) =>
                         /\ DeadlineOf(b)' \in Nat
                         /\ DeadlineOf(b)' = DeadlineOf(b) - clk + clk'
<1>1. clk \in Clock /\ ContextInv /\ unguarded' = 0
  BY DEF ClockInv, LoopTypes, clk_guard_prevent_overflow
<1>2. CASE clk < clk_max_value /\ UNCHANGED <<contextVars, clk>>
  <2>1. /\ ContextInv' /\ alarms' = alarms /\ clk' = clk /\ clk \in Nat
        /\ \A b \in Alarm : /\ IsPending(b)' <=> IsPending(b)
                            /\ DeadlineOf(b)' = DeadlineOf(b)
    BY <1>1, <1>2, ContextStays DEF Clock
  <2>2. ASSUME NEW b \in Alarm, IsPending(b)
        PROVE  /\ DeadlineOf(b)' \in Nat
               /\ DeadlineOf(b)' = DeadlineOf(b) - clk + clk'
    <3>1. DeadlineOf(b) \in Nat /\ DeadlineOf(b)' = DeadlineOf(b)
      BY <1>1, <2>1, <2>2, DeadlineTypes DEF Deadline
    <3> QED BY <2>1, <3>1
  <2> QED BY <1>1, <1>2, <2>1, <2>2
<1>3. CASE /\ clk >= clk_max_value
           /\ clk' = Wrap(clk - clk_guard_clock_sub)
           /\ OverflowCallbacks(clk_guard_clock_sub)
  <2> DEFINE sub == clk_guard_clock_sub
  <2>1. clk - sub \in Clock /\ clk - sub < clk_max_value
    BY <1>1, <1>3, SubBounds, Sizes, ClockInReach DEF Clock
  <2>2. clk' = clk - sub
    BY <1>3, <2>1, WrapInRange
  <2>3. num_pending_alarms # 0
    <3>1. VsyncAlarm \in Alarm /\ IsPending(VsyncAlarm)
      BY ChipAlarmAssumption, VsyncAlarmAssumption
         DEF MainCpu, ClockInv, FrameInReach
    <3> QED BY <1>1, <3>1, DeadlineTypes DEF Slots
  <2>4. Warp(sub)
    BY <1>3, <2>3, SubInReach DEF Warp, OverflowCallbacks
  <2>5. /\ ContextInv' /\ alarms' = alarms
        /\ \A b \in Alarm :
               /\ IsPending(b)' <=> IsPending(b)
               /\ IsPending(b) => DeadlineOf(b)' = DeadlineOf(b) - sub
    BY <1>1, <2>4, SubBounds, WarpMovesAll
  <2>6. ASSUME NEW b \in Alarm, IsPending(b)
        PROVE  /\ DeadlineOf(b)' \in Nat
               /\ DeadlineOf(b)' = DeadlineOf(b) - clk + clk'
    <3>1. DeadlineOf(b) \in Nat /\ DeadlineOf(b) >= sub
      BY <1>1, <1>3, <2>6, DeadlineTypes, SubInReach DEF Deadline
    <3>2. DeadlineOf(b)' = DeadlineOf(b) - sub
      BY <2>5, <2>6
    <3> QED BY <1>1, <2>2, <3>1, <3>2, SubBounds DEF Clock
  <2> QED BY <1>1, <2>1, <2>2, <2>5, <2>6
<1> QED BY <1>2, <1>3 DEF clk_guard_prevent_overflow

LEMMA FrameIsAlarm ==
    ASSUME MainCpu
    PROVE  VsyncAlarm \in Alarm /\ VsyncAlarm # FetchAlarm
BY ChipAlarmAssumption, VsyncAlarmAssumption, FetchAlarmAssumption DEF MainCpu

\* The types an action's proof needs of the clock and of the deadlines.
LEMMA ClockTypes ==
    ASSUME ClockInv
    PROVE  /\ clk \in Nat /\ unguarded \in Nat /\ checked \in Int
           /\ ContextInv /\ alarms = Alarm /\ loop \in LoopState
           /\ \A a \in Alarm : IsPending(a) =>
                  DeadlineOf(a) \in Nat /\ DeadlineOf(a) < ClockMax
BY DeadlineTypes, ClockMaxAssumption
   DEF ClockInv, LoopTypes, Clock, checked, Deadline

\* The clock moves on without wrapping, and with it the time since the check.
LEMMA AdvanceMoves ==
    ASSUME ClockInv, MainCpu, NEW n \in 1 .. MaxTick, Advance(n)
    PROVE  /\ clk' = clk + n /\ unguarded' = unguarded + n
           /\ clk' \in Clock /\ unguarded' \in Nat /\ checked' = checked
<1>1. clk + n \in Clock
  BY ClockInReach, ClockTypes, Sizes DEF Clock
<1> QED BY <1>1, ClockTypes, WrapInRange DEF Advance, checked

\* With no alarm due, all deadlines are ahead.
LEMMA NoneDue ==
    ASSUME ClockInv, ~ AlarmDue
    PROVE  \A a \in Alarm : IsPending(a) => DeadlineOf(a) > clk
<1>1. next_pending_alarm_clk \in Nat
  BY DEF ClockInv, LoopTypes, ContextInv, ContextTypeOK, Clock
<1> QED BY <1>1, ClockTypes, DeadlineTypes DEF AlarmDue

----------------------------------------------------------------------------
(* The invariant holds at power-on and is kept by every action.             *)

LEMMA InitClockInv == MainCpu /\ Init => ClockInv
<1> SUFFICES ASSUME MainCpu, Init PROVE ClockInv
  OBVIOUS
<1>1. ContextInv /\ \A a \in Alarm : ~ IsPending(a)
  BY MaxPendingAssumption, ClockMaxAssumption
     DEF Init, ContextInv, ContextTypeOK, IndexesAgree, DeadlinesAreSet,
         NextIsLowerBound, NextIsPending, Slots, Slot, Clock, IsPending
<1>2. /\ loop \in LoopState /\ ~ InHandler /\ FrameIsReset
      /\ clk \in Clock /\ clk = ResetClk /\ unguarded = 0
  BY VsyncAlarmAssumption, Sizes
     DEF Init, LoopState, Resetting, InHandler, FrameIsReset, MainCpu, Clock
<1>3. alarms = Alarm
  BY DEF Init
<1> QED
  BY <1>1, <1>2, <1>3, Sizes
     DEF ClockInv, LoopTypes, ServedIsPending, LatenessBounded, FrameInReach,
         Guarded, checked

LEMMA InstructionKeepsInv ==
    ASSUME ClockInv, MainCpu, NEW n \in 1 .. MaxTick, Instruction(n)
    PROVE  ClockInv'
<1>1. /\ loop = Cpu /\ loop' = Cpu /\ ~ AlarmDue
      /\ UNCHANGED contextVars /\ Advance(n)
  BY DEF Instruction
<1>2. /\ ContextInv' /\ alarms' = Alarm
      /\ \A b \in Alarm : /\ IsPending(b)' <=> IsPending(b)
                          /\ DeadlineOf(b)' = DeadlineOf(b)
  BY <1>1, ContextStays, ClockTypes
<1>3. /\ clk' = clk + n /\ clk' \in Clock /\ unguarded' \in Nat
      /\ checked' = checked
  BY <1>1, AdvanceMoves
<1>4. LoopTypes'
  BY <1>1, <1>2, <1>3 DEF LoopTypes, LoopState, InHandler, Cpu
<1>5. ServedIsPending'
  BY <1>1 DEF ServedIsPending, InHandler, Cpu
<1>6. LatenessBounded'
  BY <1>1, <1>2, <1>3, NoneDue, ClockTypes, Sizes
     DEF LatenessBounded, InHandler, Cpu
<1>7. FrameInReach'
  BY <1>1, <1>2, <1>3, FrameIsAlarm
     DEF ClockInv, FrameInReach, FrameIsReset, FrameHasEnded, InHandler, Cpu
<1>8. Guarded'
  BY <1>1, <1>3, clk_max_value' = clk_max_value
     DEF ClockInv, Guarded, Cpu, clk_max_value
<1> QED BY <1>4, <1>5, <1>6, <1>7, <1>8 DEF ClockInv

LEMMA ChipSetsKeepsInv ==
    ASSUME ClockInv, MainCpu, NEW a \in alarms, NEW d \in 1 .. MaxDelta,
           ChipSets(a, d)
    PROVE  ClockInv'
<1>1. /\ a \in Alarm /\ a # VsyncAlarm /\ loop.at # "reset"
      /\ InHandler => loop.alarm # a
      /\ clk' = clk /\ loop' = loop /\ unguarded' = unguarded
      /\ checked' = checked
  BY ClockTypes, LoopShape
     DEF ChipSets, ChipsCalled, clockVars, InHandler, Cpu, checked
<1>2. clk + d \in Deadline /\ Wrap(clk + d) = clk + d
  BY ClockTypes, ClockInReach, Sizes, WrapInRange DEF Deadline, Clock
<1>3. /\ ContextInv' /\ alarms' = Alarm /\ IsPending(a)'
      /\ DeadlineOf(a)' = clk + d
      /\ \A b \in Alarm \ {a} :
             /\ IsPending(b)' <=> IsPending(b)
             /\ IsPending(b) => DeadlineOf(b)' = DeadlineOf(b)
  BY <1>1, <1>2, SetMovesOne, ClockTypes DEF ChipSets
<1>4. LoopTypes'
  BY <1>1, <1>3 DEF ClockInv, LoopTypes, InHandler
<1>5. ServedIsPending'
  BY <1>1, <1>3, ClockTypes, LoopShape DEF ClockInv, ServedIsPending, InHandler
<1>6. LatenessBounded'
  <2> SUFFICES ASSUME NEW b \in Alarm, IsPending(b)'
               PROVE  /\ DeadlineOf(b)' > clk - 2 * MaxTick
                      /\ b = FetchAlarm /\ ~ HasStolen =>
                             DeadlineOf(b)' > clk - MaxTick
                      /\ InHandler /\ loop.alarm = FetchAlarm
                         /\ loop.stage = "start" =>
                             DeadlineOf(b)' >= DeadlineOf(FetchAlarm)'
    BY <1>1 DEF LatenessBounded, HasStolen, InHandler
  <2>1. CASE b = a
    <3>1. clk + d > clk
      BY ClockTypes
    <3>2. ASSUME InHandler, loop.alarm = FetchAlarm
          PROVE  clk + d >= DeadlineOf(FetchAlarm)'
      <4>1. /\ FetchAlarm \in Alarm /\ FetchAlarm # a /\ loop.offset \in Nat
            /\ IsPending(FetchAlarm) /\ DeadlineOf(FetchAlarm) = clk - loop.offset
        BY <1>1, <3>2, ClockTypes, LoopShape
           DEF ClockInv, ServedIsPending, Clock
      <4> QED BY <4>1, <1>3, ClockTypes
    <3> QED BY <2>1, <3>1, <3>2, <1>3, ClockTypes, Sizes
  <2>2. CASE b # a
    <3>1. IsPending(b) /\ DeadlineOf(b)' = DeadlineOf(b)
      BY <2>2, <1>3
    <3>2. InHandler /\ loop.alarm = FetchAlarm =>
              DeadlineOf(FetchAlarm)' = DeadlineOf(FetchAlarm)
      BY <1>1, <1>3, ClockTypes, LoopShape DEF ClockInv, ServedIsPending
    <3> QED BY <3>1, <3>2 DEF ClockInv, LatenessBounded
  <2> QED BY <2>1, <2>2
<1>7. FrameInReach'
  BY <1>1, <1>3, FrameIsAlarm
     DEF ClockInv, FrameInReach, FrameIsReset, FrameHasEnded, InHandler
<1>8. Guarded'
  BY <1>1, clk_max_value' = clk_max_value DEF ClockInv, Guarded, clk_max_value
<1> QED BY <1>4, <1>5, <1>6, <1>7, <1>8 DEF ClockInv

LEMMA ChipUnsetsKeepsInv ==
    ASSUME ClockInv, MainCpu, NEW a \in alarms, ChipUnsets(a)
    PROVE  ClockInv'
<1>1. /\ a \in Alarm /\ a # VsyncAlarm /\ loop.at # "reset"
      /\ InHandler => loop.alarm # a
      /\ clk' = clk /\ loop' = loop /\ unguarded' = unguarded
      /\ checked' = checked
  BY ClockTypes, LoopShape
     DEF ChipUnsets, ChipsCalled, clockVars, InHandler, Cpu, checked
<1>2. /\ ContextInv' /\ alarms' = Alarm /\ ~ IsPending(a)'
      /\ \A b \in Alarm \ {a} :
             /\ IsPending(b)' <=> IsPending(b)
             /\ IsPending(b) => DeadlineOf(b)' = DeadlineOf(b)
  BY <1>1, UnsetTakesOne, ClockTypes DEF ChipUnsets
<1>3. LoopTypes'
  BY <1>1, <1>2 DEF ClockInv, LoopTypes, InHandler
<1>4. ServedIsPending'
  BY <1>1, <1>2, ClockTypes, LoopShape DEF ClockInv, ServedIsPending, InHandler
<1>5. LatenessBounded'
  <2>1. InHandler /\ loop.alarm = FetchAlarm =>
            DeadlineOf(FetchAlarm)' = DeadlineOf(FetchAlarm)
    BY <1>1, <1>2, ClockTypes, LoopShape DEF ClockInv, ServedIsPending
  <2> QED
    BY <1>1, <1>2, <2>1 DEF ClockInv, LatenessBounded, HasStolen, InHandler
<1>6. FrameInReach'
  BY <1>1, <1>2, FrameIsAlarm
     DEF ClockInv, FrameInReach, FrameIsReset, FrameHasEnded, InHandler
<1>7. Guarded'
  BY <1>1, clk_max_value' = clk_max_value DEF ClockInv, Guarded, clk_max_value
<1> QED BY <1>3, <1>4, <1>5, <1>6, <1>7 DEF ClockInv

\* The alarm that PROCESS_ALARMS dispatches is an earliest one, and due.
LEMMA DispatchFinds ==
    ASSUME ClockInv, MainCpu, AlarmDue
    PROVE  LET a == pending_alarms[DispatchSlot].alarm IN
           /\ NextIsPending /\ DispatchSlot \in Slots(num_pending_alarms)
           /\ a \in Alarm /\ IsPending(a)
           /\ DeadlineOf(a) = next_pending_alarm_clk
           /\ DeadlineOf(a) <= clk
           /\ \A b \in Alarm : IsPending(b) => DeadlineOf(a) <= DeadlineOf(b)
<1>1. ContextInv /\ NextIsPending /\ next_pending_alarm_clk \in Nat
  BY DEF ClockInv, LoopTypes, ContextInv, ContextTypeOK, Clock, MainCpu
<1>2. next_pending_alarm_clk <= clk /\ next_pending_alarm_clk < ClockMax
  BY <1>1, ClockTypes, ClockInReach, Sizes DEF AlarmDue
<1> QED BY <1>1, <1>2, NextIsDeadline, DeadlineTypes

LEMMA DispatchKeepsInv ==
    ASSUME ClockInv, MainCpu, Dispatch
    PROVE  ClockInv'
<1> DEFINE a == pending_alarms[DispatchSlot].alarm
           stage == IF a \in {VsyncAlarm, FetchAlarm} THEN "start" ELSE "end"
<1>1. /\ loop = Cpu /\ AlarmDue /\ UNCHANGED contextVars
      /\ loop' = Handler(a, DispatchOffset, stage)
      /\ clk' = clk /\ unguarded' = unguarded /\ checked' = checked
  BY DEF Dispatch, checked
<1>2. /\ a \in Alarm /\ IsPending(a)
      /\ DeadlineOf(a) = next_pending_alarm_clk /\ DeadlineOf(a) <= clk
      /\ \A b \in Alarm : IsPending(b) => DeadlineOf(a) <= DeadlineOf(b)
  BY <1>1, DispatchFinds
<1>3. /\ ContextInv' /\ alarms' = Alarm
      /\ \A b \in Alarm : /\ IsPending(b)' <=> IsPending(b)
                          /\ DeadlineOf(b)' = DeadlineOf(b)
  BY <1>1, ContextStays, ClockTypes
<1>4. clk \in Clock /\ clk - DeadlineOf(a) \in Clock
  <2>1. clk \in Clock
    BY DEF ClockInv, LoopTypes
  <2>2. DeadlineOf(a) \in Nat
    BY <1>2, ClockTypes
  <2> QED BY <2>1, <2>2, <1>2, Sizes DEF Clock
<1>5. DispatchOffset = clk - DeadlineOf(a)
  BY <1>2, <1>4, WrapInRange DEF DispatchOffset
<1> HIDE DEF a
<1>6. /\ InHandler' /\ loop'.alarm = a /\ loop'.offset = clk - DeadlineOf(a)
      /\ loop'.stage = stage /\ loop'.at = "handler" /\ loop' \in LoopState
  BY <1>1, <1>2, <1>4, <1>5 DEF Handler, InHandler, LoopState, Stage
<1>7. LoopTypes'
  BY <1>1, <1>3, <1>4, <1>6, ClockTypes DEF LoopTypes
<1>8. ServedIsPending'
  BY <1>1, <1>2, <1>3, <1>4, <1>6, ClockTypes DEF ServedIsPending
<1>9. LatenessBounded'
  BY <1>1, <1>2, <1>3, <1>6
     DEF ClockInv, LatenessBounded, HasStolen, InHandler, Cpu
<1>10. FrameInReach'
  BY <1>1, <1>3, <1>6, FrameIsAlarm
     DEF ClockInv, FrameInReach, FrameIsReset, FrameHasEnded, InHandler, Cpu
<1>11. Guarded'
  BY <1>1, <1>6, clk_max_value' = clk_max_value
     DEF ClockInv, Guarded, clk_max_value
<1> QED BY <1>7, <1>8, <1>9, <1>10, <1>11 DEF ClockInv

(* A callback re-arms its alarm; the fetch's by more than it may have       *)
(* stolen, the frame's by a frame after the hook has checked the clock.     *)
LEMMA HandlerSetsKeepsInv ==
    ASSUME ClockInv, MainCpu, NEW d \in 1 .. MaxDelta, HandlerSets(d)
    PROVE  ClockInv'
<1>1. PICK a : a = loop.alarm
  OBVIOUS
<1>2. /\ InHandler /\ loop' = Cpu
      /\ clk' = clk /\ unguarded' = unguarded /\ checked' = checked
  BY DEF HandlerSets, checked
<1>3. /\ a \in Alarm /\ IsPending(a) /\ DeadlineOf(a) = clk - loop.offset
      /\ loop.offset \in Nat /\ loop.stage \in Stage
  BY <1>1, <1>2, ClockTypes, LoopShape DEF ClockInv, ServedIsPending, Clock
<1>4. /\ clk - loop.offset + d = DeadlineOf(a) + d
      /\ DeadlineOf(a) + d \in Deadline
  BY <1>3, ClockTypes, ClockInReach, Sizes DEF Deadline
<1>5. NextDeadline(d) = DeadlineOf(a) + d
  BY <1>1, <1>4, WrapInRange, Sizes DEF NextDeadline, Deadline, Clock
<1>6. /\ ContextInv' /\ alarms' = Alarm /\ IsPending(a)'
      /\ DeadlineOf(a)' = DeadlineOf(a) + d
      /\ \A b \in Alarm \ {a} :
             /\ IsPending(b)' <=> IsPending(b)
             /\ IsPending(b) => DeadlineOf(b)' = DeadlineOf(b)
  BY <1>1, <1>2, <1>3, <1>4, <1>5, SetMovesOne, ClockTypes DEF HandlerSets
<1>7. ~ InHandler' /\ loop'.at = "cpu" /\ loop' \in LoopState
  BY <1>2 DEF Cpu, InHandler, LoopState
<1>8. LoopTypes'
  BY <1>2, <1>6, <1>7, ClockTypes DEF ClockInv, LoopTypes
<1>9. ServedIsPending'
  BY <1>7 DEF ServedIsPending
<1>10. LatenessBounded'
  <2> SUFFICES ASSUME NEW b \in Alarm, IsPending(b)'
               PROVE  /\ DeadlineOf(b)' > clk - 2 * MaxTick
                      /\ b = FetchAlarm => DeadlineOf(b)' > clk - MaxTick
    BY <1>2, <1>7 DEF LatenessBounded
  <2>1. CASE b = a
    <3>1. DeadlineOf(a) > clk - 2 * MaxTick
      BY <1>3 DEF ClockInv, LatenessBounded
    <3>2. a = FetchAlarm => d > MaxTick
      BY <1>1 DEF HandlerSets
    <3> QED BY <2>1, <3>1, <3>2, <1>3, <1>6, ClockTypes, Sizes
  <2>2. CASE b # a
    BY <2>2, <1>1, <1>6 DEF ClockInv, LatenessBounded, HasStolen
  <2> QED BY <2>1, <2>2
<1>11. FrameInReach'
  <2>1. ~ FrameIsReset /\ ~ FrameHasEnded'
    BY <1>2, <1>7 DEF FrameIsReset, FrameHasEnded, InHandler
  <2>2. IsPending(VsyncAlarm) /\ DeadlineOf(VsyncAlarm) <= checked + FrameCycles
    BY <2>1 DEF ClockInv, FrameInReach
  <2>3. CASE a = VsyncAlarm
    <3>1. d = FrameCycles /\ DeadlineOf(VsyncAlarm) <= checked
      BY <1>1, <1>2, <2>1, <2>3
         DEF HandlerSets, ClockInv, FrameInReach, FrameHasEnded
    <3> QED
      BY <3>1, <2>1, <2>3, <1>2, <1>3, <1>6, ClockTypes, Sizes DEF FrameInReach
  <2>4. CASE a # VsyncAlarm
    BY <2>1, <2>2, <2>4, <1>2, <1>6, FrameIsAlarm DEF FrameInReach
  <2> QED BY <2>3, <2>4
<1>12. Guarded'
  BY <1>2, <1>7, clk_max_value' = clk_max_value
     DEF ClockInv, Guarded, clk_max_value
<1> QED BY <1>8, <1>9, <1>10, <1>11, <1>12 DEF ClockInv

LEMMA HandlerUnsetsKeepsInv ==
    ASSUME ClockInv, MainCpu, HandlerUnsets
    PROVE  ClockInv'
<1>1. PICK a : a = loop.alarm
  OBVIOUS
<1>2. /\ InHandler /\ loop' = Cpu /\ a # VsyncAlarm /\ a # FetchAlarm
      /\ clk' = clk /\ unguarded' = unguarded /\ checked' = checked
  BY <1>1 DEF HandlerUnsets, checked
<1>3. a \in Alarm
  BY <1>1, <1>2, ClockTypes, LoopShape
<1>4. /\ ContextInv' /\ alarms' = Alarm /\ ~ IsPending(a)'
      /\ \A b \in Alarm \ {a} :
             /\ IsPending(b)' <=> IsPending(b)
             /\ IsPending(b) => DeadlineOf(b)' = DeadlineOf(b)
  BY <1>1, <1>3, UnsetTakesOne, ClockTypes DEF HandlerUnsets
<1>5. ~ InHandler' /\ loop'.at = "cpu" /\ loop' \in LoopState
  BY <1>2 DEF Cpu, InHandler, LoopState
<1>6. LoopTypes'
  BY <1>2, <1>4, <1>5, ClockTypes DEF ClockInv, LoopTypes
<1>7. ServedIsPending'
  BY <1>5 DEF ServedIsPending
<1>8. LatenessBounded'
  BY <1>1, <1>2, <1>4, <1>5 DEF ClockInv, LatenessBounded, HasStolen
<1>9. FrameInReach'
  BY <1>2, <1>4, <1>5, FrameIsAlarm
     DEF ClockInv, FrameInReach, FrameIsReset, FrameHasEnded, InHandler
<1>10. Guarded'
  BY <1>2, <1>5, clk_max_value' = clk_max_value
     DEF ClockInv, Guarded, clk_max_value
<1> QED BY <1>6, <1>7, <1>8, <1>9, <1>10 DEF ClockInv

(* The fetch steals while it is the earliest alarm, itself late by less     *)
(* than an instruction, so none is late by more than both afterwards.       *)
LEMMA HandlerStealsKeepsInv ==
    ASSUME ClockInv, MainCpu, NEW n \in 1 .. MaxTick, HandlerSteals(n)
    PROVE  ClockInv'
<1>1. /\ InHandler /\ loop.alarm = FetchAlarm /\ loop.stage = "start"
      /\ UNCHANGED contextVars /\ Advance(n)
      /\ loop' = [loop EXCEPT !.offset = @ + n, !.stage = "stolen"]
  BY DEF HandlerSteals
<1>2. /\ ContextInv' /\ alarms' = Alarm
      /\ \A b \in Alarm : /\ IsPending(b)' <=> IsPending(b)
                          /\ DeadlineOf(b)' = DeadlineOf(b)
  BY <1>1, ContextStays, ClockTypes
<1>3. /\ clk' = clk + n /\ clk' \in Clock /\ unguarded' \in Nat
      /\ checked' = checked
  BY <1>1, AdvanceMoves
<1>4. /\ FetchAlarm \in Alarm /\ IsPending(FetchAlarm) /\ loop.offset \in Nat
      /\ DeadlineOf(FetchAlarm) = clk - loop.offset
      /\ loop = Handler(FetchAlarm, loop.offset, "start")
  BY <1>1, ClockTypes, LoopShape DEF ClockInv, ServedIsPending, Clock
<1>5. loop.offset + n \in Clock
  <2>1. DeadlineOf(FetchAlarm) \in Nat
    BY <1>4, ClockTypes
  <2>2. clk \in Nat
    BY ClockTypes
  <2> QED BY <2>1, <2>2, <1>3, <1>4, Sizes DEF Clock
<1>6. loop' = Handler(FetchAlarm, loop.offset + n, "stolen")
  <2>1. PICK o : o = loop.offset
    OBVIOUS
  <2>2. loop = Handler(FetchAlarm, o, "start")
    BY <2>1, <1>4
  <2>3. loop' = Handler(FetchAlarm, o + n, "stolen")
    BY <2>2, <1>1 DEF Handler
  <2> QED BY <2>1, <2>3
<1>7. /\ InHandler' /\ loop'.alarm = FetchAlarm /\ loop'.stage = "stolen"
      /\ loop'.offset = loop.offset + n /\ loop'.at = "handler"
      /\ loop' \in LoopState
  BY <1>4, <1>5, <1>6 DEF Handler, InHandler, LoopState, Stage
<1>8. LoopTypes'
  BY <1>2, <1>3, <1>7, FrameIsAlarm DEF LoopTypes
<1>9. ServedIsPending'
  BY <1>2, <1>3, <1>4, <1>7, ClockTypes DEF ServedIsPending
<1>10. LatenessBounded'
  <2> SUFFICES ASSUME NEW b \in Alarm, IsPending(b)
               PROVE  DeadlineOf(b)' > clk' - 2 * MaxTick
    BY <1>2, <1>7 DEF LatenessBounded, HasStolen
  <2>1. DeadlineOf(FetchAlarm) > clk - MaxTick
    BY <1>1, <1>4 DEF ClockInv, LatenessBounded, HasStolen
  <2>2. DeadlineOf(b) >= DeadlineOf(FetchAlarm)
    BY <1>1, <1>4 DEF ClockInv, LatenessBounded
  <2> QED BY <2>1, <2>2, <1>2, <1>3, <1>4, ClockTypes, Sizes
<1>11. FrameInReach'
  BY <1>1, <1>2, <1>3, <1>7, FrameIsAlarm
     DEF ClockInv, FrameInReach, FrameIsReset, FrameHasEnded, InHandler
<1>12. Guarded'
  BY <1>3, <1>7, clk_max_value' = clk_max_value
     DEF ClockInv, Guarded, clk_max_value
<1> QED BY <1>8, <1>9, <1>10, <1>11, <1>12 DEF ClockInv

\* The frame's callback checks the clock, then has only to set its alarm.
LEMMA VsyncHookKeepsInv ==
    ASSUME ClockInv, MainCpu, VsyncHook
    PROVE  ClockInv'
<1>1. /\ InHandler /\ loop.alarm = VsyncAlarm /\ loop.stage = "start"
      /\ loop' = [loop EXCEPT !.stage = "end"]
      /\ clk_guard_prevent_overflow
  BY DEF VsyncHook
<1>2. /\ unguarded' = 0 /\ clk' \in Clock /\ clk' < clk_max_value
      /\ ContextInv' /\ alarms' = Alarm
      /\ \A b \in Alarm :
             /\ IsPending(b)' <=> IsPending(b)
             /\ IsPending(b) => /\ DeadlineOf(b)' \in Nat
                                /\ DeadlineOf(b)' = DeadlineOf(b) - clk + clk'
  BY <1>1, GuardMovesAll, ClockTypes DEF FrameIsReset, InHandler
<1>3. PICK o \in Clock : /\ loop = Handler(VsyncAlarm, o, "start")
                         /\ o = loop.offset
  BY <1>1, ClockTypes, LoopShape
<1>4. loop' = Handler(VsyncAlarm, o, "end")
  BY <1>1, <1>3 DEF Handler
<1>5. /\ InHandler' /\ loop'.alarm = VsyncAlarm /\ loop'.stage = "end"
      /\ loop'.offset = o /\ loop'.at = "handler" /\ loop' \in LoopState
  BY <1>3, <1>4, FrameIsAlarm DEF Handler, InHandler, LoopState, Stage
<1>6. /\ IsPending(VsyncAlarm) /\ DeadlineOf(VsyncAlarm) = clk - o
      /\ VsyncAlarm \in Alarm /\ o \in Nat /\ clk' \in Nat
  BY <1>1, <1>2, <1>3, FrameIsAlarm DEF ClockInv, ServedIsPending, Clock
<1>7. \A b \in Alarm : IsPending(b)' =>
          /\ IsPending(b)
          /\ DeadlineOf(b)' \in Nat /\ DeadlineOf(b) \in Nat
          /\ DeadlineOf(b)' = DeadlineOf(b) - clk + clk'
  BY <1>2, ClockTypes
<1>8. DeadlineOf(VsyncAlarm)' = clk' - o
  BY <1>2, <1>6, <1>7, ClockTypes
<1>9. LoopTypes'
  BY <1>2, <1>5, FrameIsAlarm DEF LoopTypes
<1>10. ServedIsPending'
  BY <1>2, <1>5, <1>6, <1>8 DEF ServedIsPending
<1>11. LatenessBounded'
  <2> SUFFICES ASSUME NEW b \in Alarm, IsPending(b)'
               PROVE  /\ DeadlineOf(b)' > clk' - 2 * MaxTick
                      /\ b = FetchAlarm => DeadlineOf(b)' > clk' - MaxTick
    BY <1>5, FrameIsAlarm DEF LatenessBounded
  <2>1. /\ DeadlineOf(b) > clk - 2 * MaxTick
        /\ b = FetchAlarm => DeadlineOf(b) > clk - MaxTick
    BY <1>1, <1>7, FrameIsAlarm DEF ClockInv, LatenessBounded, HasStolen
  <2> QED BY <2>1, <1>6, <1>7, ClockTypes, Sizes
<1>12. FrameInReach'
  <2>1. checked' = clk'
    BY <1>2, <1>6, JustChecked
  <2>2. clk' - o <= clk' /\ clk' - o <= clk' + FrameCycles
    <3>1. \A c \in Nat : c - o <= c /\ c - o <= c + FrameCycles
      BY <1>6, Sizes
    <3> QED BY <3>1, <1>6
  <2>3. IsPending(VsyncAlarm)'
    BY <1>2, <1>6
  <2> QED BY <2>1, <2>2, <2>3, <1>8 DEF FrameInReach
<1>13. Guarded'
  <2>1. checked' = clk'
    BY <1>2, <1>6, JustChecked
  <2> QED
    BY <2>1, <1>2, <1>5, clk_max_value' = clk_max_value
       DEF Guarded, clk_max_value
<1> QED BY <1>9, <1>10, <1>11, <1>12, <1>13 DEF ClockInv

\* The same when the fetch, having stolen cycles, ends the frame itself.
LEMMA NestedVsyncHookKeepsInv ==
    ASSUME ClockInv, MainCpu, NestedVsyncHook
    PROVE  ClockInv'
<1>1. /\ InHandler /\ loop.alarm = FetchAlarm /\ loop.stage = "stolen"
      /\ loop' = [loop EXCEPT !.stage = "drawn"]
      /\ IsPending(VsyncAlarm) /\ DeadlineOf(VsyncAlarm) <= clk
      /\ clk_guard_prevent_overflow
  BY DEF NestedVsyncHook, Overdue
<1>2. /\ unguarded' = 0 /\ clk' \in Clock /\ clk' < clk_max_value
      /\ ContextInv' /\ alarms' = Alarm
      /\ \A b \in Alarm :
             /\ IsPending(b)' <=> IsPending(b)
             /\ IsPending(b) => /\ DeadlineOf(b)' \in Nat
                                /\ DeadlineOf(b)' = DeadlineOf(b) - clk + clk'
  BY <1>1, GuardMovesAll, ClockTypes DEF FrameIsReset, InHandler
<1>3. PICK o \in Clock : /\ loop = Handler(FetchAlarm, o, "stolen")
                         /\ o = loop.offset
  BY <1>1, ClockTypes, LoopShape
<1>4. loop' = Handler(FetchAlarm, o, "drawn")
  BY <1>1, <1>3 DEF Handler
<1>5. /\ FetchAlarm \in Alarm /\ IsPending(FetchAlarm)
      /\ DeadlineOf(FetchAlarm) = clk - o
      /\ VsyncAlarm \in Alarm /\ o \in Nat /\ clk' \in Nat
  BY <1>1, <1>2, <1>3, FrameIsAlarm, LoopShape, ClockTypes
     DEF ClockInv, ServedIsPending, Clock
<1>6. /\ InHandler' /\ loop'.alarm = FetchAlarm /\ loop'.stage = "drawn"
      /\ loop'.offset = o /\ loop'.at = "handler" /\ loop' \in LoopState
  BY <1>3, <1>4, <1>5 DEF Handler, InHandler, LoopState, Stage
<1>7. \A b \in Alarm : IsPending(b)' =>
          /\ IsPending(b)
          /\ DeadlineOf(b)' \in Nat /\ DeadlineOf(b) \in Nat
          /\ DeadlineOf(b)' = DeadlineOf(b) - clk + clk'
  BY <1>2, ClockTypes
<1>8. /\ DeadlineOf(FetchAlarm)' = clk' - o
      /\ DeadlineOf(VsyncAlarm)' <= clk'
  BY <1>1, <1>2, <1>5, <1>7, ClockTypes
<1>9. LoopTypes'
  BY <1>2, <1>6, FrameIsAlarm DEF LoopTypes
<1>10. ServedIsPending'
  BY <1>2, <1>5, <1>6, <1>8 DEF ServedIsPending
<1>11. LatenessBounded'
  <2> SUFFICES ASSUME NEW b \in Alarm, IsPending(b)'
               PROVE  DeadlineOf(b)' > clk' - 2 * MaxTick
    BY <1>6 DEF LatenessBounded, HasStolen
  <2>1. DeadlineOf(b) > clk - 2 * MaxTick
    BY <1>7 DEF ClockInv, LatenessBounded
  <2> QED BY <2>1, <1>5, <1>7, ClockTypes, Sizes
<1>12. FrameInReach'
  <2>1. checked' = clk' /\ DeadlineOf(VsyncAlarm)' \in Nat
    BY <1>1, <1>2, <1>5, <1>7, JustChecked
  <2> QED BY <2>1, <1>1, <1>2, <1>5, <1>8, Sizes DEF FrameInReach
<1>13. Guarded'
  <2>1. checked' = clk'
    BY <1>2, <1>5, JustChecked
  <2> QED
    BY <2>1, <1>2, <1>6, clk_max_value' = clk_max_value
       DEF Guarded, clk_max_value
<1> QED BY <1>9, <1>10, <1>11, <1>12, <1>13 DEF ClockInv

LEMMA NestedFrameSetsKeepsInv ==
    ASSUME ClockInv, MainCpu, NestedFrameSets
    PROVE  ClockInv'
<1>1. /\ InHandler /\ loop.stage = "drawn" /\ loop.alarm = FetchAlarm
      /\ loop' = [loop EXCEPT !.stage = "end"]
      /\ clk' = clk /\ unguarded' = unguarded /\ checked' = checked
  BY DEF NestedFrameSets, checked, ClockInv, LoopTypes
<1>2. /\ VsyncAlarm \in Alarm /\ IsPending(VsyncAlarm)
      /\ DeadlineOf(VsyncAlarm) <= checked /\ DeadlineOf(VsyncAlarm) \in Nat
      /\ checked <= clk
  <2>1. ~ FrameIsReset /\ FrameHasEnded
    BY <1>1 DEF FrameIsReset, FrameHasEnded, InHandler
  <2>2. checked <= clk
    BY ClockTypes DEF checked
  <2> QED BY <2>1, <2>2, FrameIsAlarm, ClockTypes DEF ClockInv, FrameInReach
<1>3. DeadlineOf(VsyncAlarm) + FrameCycles \in Deadline
  BY <1>2, ClockTypes, ClockInReach, Sizes DEF Deadline
<1>4. PICK c \in Deadline : c = DeadlineOf(VsyncAlarm) + FrameCycles
  BY <1>3
<1>5. alarm_set(VsyncAlarm, c)
  <2>1. Wrap(c) = c
    BY <1>4, WrapInRange, Sizes DEF Deadline, Clock
  <2> QED BY <2>1, <1>4 DEF NestedFrameSets
<1>6. /\ ContextInv' /\ alarms' = Alarm /\ IsPending(VsyncAlarm)'
      /\ DeadlineOf(VsyncAlarm)' = c
      /\ \A b \in Alarm \ {VsyncAlarm} :
             /\ IsPending(b)' <=> IsPending(b)
             /\ IsPending(b) => DeadlineOf(b)' = DeadlineOf(b)
  BY <1>2, <1>5, SetMovesOne, ClockTypes
<1>7. PICK o \in Clock : /\ loop = Handler(FetchAlarm, o, "drawn")
                         /\ o = loop.offset
  BY <1>1, ClockTypes, LoopShape
<1>8. loop' = Handler(FetchAlarm, o, "end")
  BY <1>1, <1>7 DEF Handler
<1>9. /\ FetchAlarm \in Alarm /\ IsPending(FetchAlarm)
      /\ DeadlineOf(FetchAlarm) = clk - o
  BY <1>1, <1>7, LoopShape, ClockTypes DEF ClockInv, ServedIsPending
<1>10. /\ InHandler' /\ loop'.alarm = FetchAlarm /\ loop'.stage = "end"
       /\ loop'.offset = o /\ loop'.at = "handler" /\ loop' \in LoopState
  BY <1>7, <1>8, <1>9 DEF Handler, InHandler, LoopState, Stage
<1>11. LoopTypes'
  BY <1>1, <1>6, <1>10, FrameIsAlarm DEF ClockInv, LoopTypes
<1>12. ServedIsPending'
  BY <1>1, <1>6, <1>9, <1>10, FrameIsAlarm DEF ServedIsPending
<1>13. LatenessBounded'
  <2> SUFFICES ASSUME NEW b \in Alarm, IsPending(b)'
               PROVE  DeadlineOf(b)' > clk - 2 * MaxTick
    BY <1>1, <1>10 DEF LatenessBounded, HasStolen
  <2>1. CASE b = VsyncAlarm
    <3>1. DeadlineOf(VsyncAlarm) > clk - 2 * MaxTick
      BY <1>2 DEF ClockInv, LatenessBounded
    <3> QED BY <2>1, <3>1, <1>2, <1>4, <1>6, ClockTypes, Sizes
  <2>2. CASE b # VsyncAlarm
    BY <2>2, <1>6 DEF ClockInv, LatenessBounded
  <2> QED BY <2>1, <2>2
<1>14. FrameInReach'
  <2>1. c <= checked + FrameCycles
    BY <1>2, <1>4, ClockTypes, Sizes
  <2>2. ~ FrameHasEnded'
    BY <1>10, FrameIsAlarm DEF FrameHasEnded
  <2> QED BY <2>1, <2>2, <1>1, <1>6 DEF FrameInReach
<1>15. Guarded'
  BY <1>1, <1>10, clk_max_value' = clk_max_value
     DEF ClockInv, Guarded, clk_max_value
<1> QED BY <1>11, <1>12, <1>13, <1>14, <1>15 DEF ClockInv

(* A reset is taken with nothing due: what stays set waits longer by what   *)
(* the clock goes back.                                                     *)
LEMMA CpuResetKeepsInv ==
    ASSUME ClockInv, MainCpu, CpuReset
    PROVE  ClockInv'
<1>1. /\ loop = Cpu /\ ~ AlarmDue /\ UNCHANGED contextVars
      /\ clk > ResetClk /\ clk' = ResetClk /\ unguarded' = 0
      /\ loop' = Resetting(ChipAlarm)
  BY DEF CpuReset
<1>2. /\ ContextInv' /\ alarms' = Alarm
      /\ \A b \in Alarm : /\ IsPending(b)' <=> IsPending(b)
                          /\ DeadlineOf(b)' = DeadlineOf(b)
  BY <1>1, ContextStays, ClockTypes
<1>3. clk' \in Clock /\ clk' \in Nat /\ clk' < clk_max_value
  BY <1>1, Sizes DEF Clock
<1>4. checked' = clk'
  BY <1>1, <1>3, JustChecked
<1>5. /\ ~ InHandler' /\ loop'.at = "reset" /\ loop' \in LoopState
      /\ VsyncAlarm \in loop'.todo
  BY <1>1, VsyncAlarmAssumption DEF Resetting, InHandler, LoopState, MainCpu
<1>6. LoopTypes'
  BY <1>1, <1>2, <1>3, <1>5 DEF LoopTypes
<1>7. ServedIsPending'
  BY <1>5 DEF ServedIsPending
<1>8. LatenessBounded'
  BY <1>1, <1>2, <1>5, NoneDue, ClockTypes, Sizes DEF LatenessBounded
<1>9. FrameInReach'
  BY <1>5 DEF FrameInReach, FrameIsReset
<1>10. Guarded'
  BY <1>1, <1>3, <1>4, clk_max_value' = clk_max_value DEF Guarded, clk_max_value
<1> QED BY <1>6, <1>7, <1>8, <1>9, <1>10 DEF ClockInv

\* The frame's alarm is set by the reset of its chip: there is room for it.
LEMMA ChipResetKeepsInv ==
    ASSUME ClockInv, MainCpu, NEW a \in ChipAlarm, ChipReset(a)
    PROVE  ClockInv'
<1>1. /\ loop.at = "reset" /\ a \in loop.todo /\ a \in Alarm
      /\ loop' = Resetting(loop.todo \ {a})
      /\ clk' = clk /\ unguarded' = unguarded
      /\ clk = ResetClk /\ unguarded = 0
  BY ChipAlarmAssumption DEF ChipReset, ClockInv, Guarded
<1>2. loop.todo \subseteq ChipAlarm /\ ~ InHandler
  BY <1>1, ClockTypes, LoopShape DEF InHandler
<1>3. /\ ~ InHandler' /\ loop'.at = "reset" /\ loop' \in LoopState
      /\ loop'.todo = loop.todo \ {a}
  BY <1>1, <1>2 DEF Resetting, InHandler, LoopState
<1>4. checked' = ResetClk
  BY <1>1, Sizes DEF checked
<1>5. ClockInv' <=> /\ ContextInv' /\ alarms' = Alarm
                    /\ LatenessBounded' /\ FrameInReach'
  <2>1. ServedIsPending' /\ Guarded'
    BY <1>1, <1>3, <1>4, Sizes, clk_max_value' = clk_max_value
       DEF ServedIsPending, Guarded, clk_max_value
  <2>2. LoopTypes' <=> ContextInv' /\ alarms' = Alarm
    BY <1>1, <1>3 DEF ClockInv, LoopTypes
  <2> QED BY <2>1, <2>2 DEF ClockInv
<1>6. CASE \/ a = VsyncAlarm /\ alarm_set(a, Wrap(ResetClk + FrameCycles))
           \/ a # VsyncAlarm /\ \E c \in {1, ResetClk + 1} : alarm_set(a, c)
  <2>1. PICK c : /\ c = ResetClk + FrameCycles \/ c = 1 \/ c = ResetClk + 1
                 /\ a = VsyncAlarm => c = ResetClk + FrameCycles
                 /\ c \in Deadline
                 /\ alarm_set(a, c)
    <3>1. /\ ResetClk + FrameCycles \in Deadline /\ 1 \in Deadline
          /\ ResetClk + 1 \in Deadline
      BY Sizes DEF Deadline
    <3>2. Wrap(ResetClk + FrameCycles) = ResetClk + FrameCycles
      BY <3>1, WrapInRange, Sizes DEF Deadline, Clock
    <3> QED BY <3>1, <3>2, <1>6
  <2>2. /\ ContextInv' /\ alarms' = Alarm /\ IsPending(a)' /\ DeadlineOf(a)' = c
        /\ \A b \in Alarm \ {a} :
               /\ IsPending(b)' <=> IsPending(b)
               /\ IsPending(b) => DeadlineOf(b)' = DeadlineOf(b)
    BY <1>1, <2>1, SetMovesOne, ClockTypes
  <2>3. c > ResetClk - MaxTick /\ c > ResetClk - 2 * MaxTick
    BY <2>1, Sizes
  <2>4. LatenessBounded'
    <3> SUFFICES ASSUME NEW b \in Alarm, IsPending(b)'
                 PROVE  /\ DeadlineOf(b)' > ResetClk - 2 * MaxTick
                        /\ b = FetchAlarm => DeadlineOf(b)' > ResetClk - MaxTick
      BY <1>1, <1>3 DEF LatenessBounded
    <3>1. CASE b = a
      BY <3>1, <2>2, <2>3
    <3>2. CASE b # a
      BY <3>2, <2>2, <1>1, <1>2 DEF ClockInv, LatenessBounded, HasStolen
    <3> QED BY <3>1, <3>2
  <2>5. FrameInReach'
    <3>1. CASE a = VsyncAlarm
      BY <3>1, <2>1, <2>2, <1>3, <1>4, Sizes
         DEF FrameInReach, FrameHasEnded
    <3>2. CASE a # VsyncAlarm
      BY <3>2, <2>2, <1>1, <1>3, <1>4, FrameIsAlarm, Sizes
         DEF ClockInv, FrameInReach, FrameIsReset, FrameHasEnded, checked
    <3> QED BY <3>1, <3>2
  <2> QED BY <2>2, <2>4, <2>5, <1>5
<1>7. CASE a # VsyncAlarm /\ alarm_unset(a)
  <2>1. /\ ContextInv' /\ alarms' = Alarm /\ ~ IsPending(a)'
        /\ \A b \in Alarm \ {a} :
               /\ IsPending(b)' <=> IsPending(b)
               /\ IsPending(b) => DeadlineOf(b)' = DeadlineOf(b)
    BY <1>1, <1>7, UnsetTakesOne, ClockTypes
  <2>2. LatenessBounded'
    BY <2>1, <1>1, <1>2, <1>3 DEF ClockInv, LatenessBounded, HasStolen
  <2>3. FrameInReach'
    BY <1>7, <2>1, <1>1, <1>3, <1>4, FrameIsAlarm, Sizes
       DEF ClockInv, FrameInReach, FrameIsReset, FrameHasEnded, checked
  <2> QED BY <2>1, <2>2, <2>3, <1>5
<1> QED BY <1>6, <1>7 DEF ChipReset

LEMMA ResetDoneKeepsInv ==
    ASSUME ClockInv, MainCpu, ResetDone
    PROVE  ClockInv'
<1>1. /\ loop = Resetting({}) /\ loop' = Cpu /\ UNCHANGED contextVars
      /\ clk' = clk /\ unguarded' = unguarded /\ checked' = checked
  BY DEF ResetDone, checked
<1>2. /\ ContextInv' /\ alarms' = Alarm
      /\ \A b \in Alarm : /\ IsPending(b)' <=> IsPending(b)
                          /\ DeadlineOf(b)' = DeadlineOf(b)
  BY <1>1, ContextStays, ClockTypes
<1>3. /\ ~ InHandler' /\ loop'.at = "cpu" /\ loop' \in LoopState
      /\ ~ InHandler /\ loop.at = "reset" /\ loop.todo = {}
  BY <1>1 DEF Cpu, Resetting, InHandler, LoopState
<1>4. LoopTypes' /\ ServedIsPending'
  BY <1>1, <1>2, <1>3 DEF ClockInv, LoopTypes, ServedIsPending
<1>5. LatenessBounded'
  BY <1>1, <1>2, <1>3 DEF ClockInv, LatenessBounded, HasStolen
<1>6. FrameInReach'
  BY <1>1, <1>2, <1>3, FrameIsAlarm
     DEF ClockInv, FrameInReach, FrameIsReset, FrameHasEnded
<1>7. Guarded'
  BY <1>1, <1>3, clk_max_value' = clk_max_value
     DEF ClockInv, Guarded, clk_max_value
<1> QED BY <1>4, <1>5, <1>6, <1>7 DEF ClockInv

LEMMA ClockStutterKeepsInv ==
    ASSUME ClockInv, MainCpu, UNCHANGED vars
    PROVE  ClockInv'
<1>1. /\ loop' = loop /\ UNCHANGED contextVars
      /\ clk' = clk /\ unguarded' = unguarded /\ checked' = checked
  BY DEF vars, clockVars, checked
<1>2. /\ ContextInv' /\ alarms' = Alarm
      /\ \A b \in Alarm : /\ IsPending(b)' <=> IsPending(b)
                          /\ DeadlineOf(b)' = DeadlineOf(b)
  BY <1>1, ContextStays, ClockTypes
<1>3. LoopTypes' /\ Guarded'
  BY <1>1, <1>2, clk_max_value' = clk_max_value
     DEF ClockInv, LoopTypes, Guarded, InHandler, clk_max_value
<1>4. InHandler => loop.alarm \in Alarm
  BY ClockTypes, LoopShape
<1>5. ServedIsPending' /\ FrameInReach'
  BY <1>1, <1>2, <1>4, FrameIsAlarm
     DEF ClockInv, ServedIsPending, FrameInReach, FrameIsReset, FrameHasEnded,
         InHandler
<1>6. LatenessBounded'
  BY <1>1, <1>2, <1>4 DEF ClockInv, LatenessBounded, HasStolen, InHandler
<1> QED BY <1>3, <1>5, <1>6 DEF ClockInv

LEMMA NextKeepsClockInv == MainCpu /\ ClockInv /\ [Next]_vars => ClockInv'
<1> SUFFICES ASSUME MainCpu, ClockInv, [Next]_vars PROVE ClockInv'
  OBVIOUS
<1>1. CASE UNCHANGED vars
  BY <1>1, ClockStutterKeepsInv
<1>2. ASSUME NEW n \in 1 .. MaxTick, Instruction(n) PROVE ClockInv'
  BY <1>2, InstructionKeepsInv
<1>3. ASSUME NEW a \in alarms, NEW d \in 1 .. MaxDelta, ChipSets(a, d)
      PROVE  ClockInv'
  BY <1>3, ChipSetsKeepsInv
<1>4. ASSUME NEW a \in alarms, ChipUnsets(a) PROVE ClockInv'
  BY <1>4, ChipUnsetsKeepsInv
<1>5. CASE Dispatch
  BY <1>5, DispatchKeepsInv
<1>6. ASSUME NEW d \in 1 .. MaxDelta, HandlerSets(d) PROVE ClockInv'
  BY <1>6, HandlerSetsKeepsInv
<1>7. CASE HandlerUnsets
  BY <1>7, HandlerUnsetsKeepsInv
<1>8. ASSUME NEW n \in 1 .. MaxTick, HandlerSteals(n) PROVE ClockInv'
  BY <1>8, HandlerStealsKeepsInv
<1>9. CASE VsyncHook
  BY <1>9, VsyncHookKeepsInv
<1>10. CASE NestedVsyncHook
  BY <1>10, NestedVsyncHookKeepsInv
<1>11. CASE NestedFrameSets
  BY <1>11, NestedFrameSetsKeepsInv
<1>12. CASE CpuReset
  BY <1>12, CpuResetKeepsInv
<1>13. ASSUME NEW a \in ChipAlarm, ChipReset(a) PROVE ClockInv'
  BY <1>13, ChipResetKeepsInv
<1>14. CASE ResetDone
  BY <1>14, ResetDoneKeepsInv
<1> QED
  BY <1>1, <1>2, <1>3, <1>4, <1>5, <1>6, <1>7, <1>8, <1>9, <1>10, <1>11, <1>12,
     <1>13, <1>14
     DEF Next

LEMMA MainCpuForever == MainCpu => []MainCpu
<1>1. MainCpu => MainCpu'
  BY DEF MainCpu
<1> QED BY PTL, <1>1 DEF MainCpu

LEMMA ClockInvAlways == MainCpu /\ Spec => []ClockInv
<1> QED BY InitClockInv, NextKeepsClockInv, MainCpuForever, PTL DEF Spec

(* The types of the clock's and the context's variables.                    *)
THEOREM ClockTypesHold == MainCpu /\ Spec => []ClockTypeOK
<1>1. ClockInv => ClockTypeOK
  BY DEF ClockInv, LoopTypes, ContextInv, ClockTypeOK
<1> QED BY <1>1, ClockInvAlways, PTL

(* Between two checks of the guard neither an instruction nor a deadline    *)
(* that is set comes to the end of the clock's range, and no deadline is    *)
(* below what the guard subtracts: on a main CPU nothing ever wraps.        *)
THEOREM NothingEverWraps == MainCpu /\ Spec => []NothingWraps
<1>1. MainCpu /\ ClockInv => NothingWraps
  BY ClockInReach, SubInReach DEF NothingWraps
<1> QED BY <1>1, ClockInvAlways, MainCpuForever, PTL

(* Whatever chips set and unset, the alarm that ends the frame is pending   *)
(* in every state outside a reset; a reset always finds room to set it.     *)
THEOREM FrameEndAlwaysPending == MainCpu /\ Spec => []FrameEndIsPending
<1>1. MainCpu /\ ClockInv => FrameEndIsPending
  BY DEF ClockInv, FrameInReach, FrameIsReset, FrameEndIsPending
<1> QED BY <1>1, ClockInvAlways, MainCpuForever, PTL

(* PROCESS_ALARMS on a main CPU always dispatches a pending alarm at its    *)
(* own tick.                                                                *)
THEOREM MainDispatchesPending == MainCpu /\ Spec => []NextIsPending
<1>1. MainCpu /\ ClockInv => NextIsPending
  BY DEF MainCpu, ClockInv, LoopTypes, ContextInv
<1> QED BY <1>1, ClockInvAlways, MainCpuForever, PTL

(* Whenever a main CPU has an alarm due, the slot it dispatches is in use.  *)
THEOREM DispatchAlwaysFinds == MainCpu /\ Spec => []DispatchFindsAlarm
<1>1. MainCpu /\ ClockInv => DispatchFindsAlarm
  <2> SUFFICES ASSUME MainCpu, ClockInv, AlarmDue
               PROVE  /\ DispatchSlot \in Slots(num_pending_alarms)
                      /\ pending_alarms[DispatchSlot].clk
                             = next_pending_alarm_clk
    BY DEF DispatchFindsAlarm
  <2>1. next_pending_alarm_clk < ClockMax
    BY ClockTypes, ClockInReach, Sizes
       DEF AlarmDue, ContextInv, ContextTypeOK, Clock
  <2> QED BY <2>1, DispatchFinds DEF NextIsPending
<1> QED BY <1>1, ClockInvAlways, MainCpuForever, PTL

----------------------------------------------------------------------------
(* The main CPU implements AlarmQueue: every step is one of the queue's, or *)
(* changes neither the waiting times nor the alarm being served.            *)

LEMMA WaitingIs ==
    /\ DOMAIN waiting = {b \in Alarm : IsPending(b)}
    /\ \A b \in Alarm : IsPending(b) => waiting[b] = DeadlineOf(b) - clk
BY DEF waiting

LEMMA WaitingAfterSet ==
    ASSUME NEW a \in Alarm, NEW c, IsPending(a)', DeadlineOf(a)' = c, clk' = clk,
           \A b \in Alarm \ {a} :
               /\ IsPending(b)' <=> IsPending(b)
               /\ IsPending(b) => DeadlineOf(b)' = DeadlineOf(b)
    PROVE  waiting' = [b \in DOMAIN waiting \union {a} |->
                          IF b = a THEN c - clk ELSE waiting[b]]
<1>1. {b \in Alarm : IsPending(b)'} = {b \in Alarm : IsPending(b)} \union {a}
  OBVIOUS
<1>2. waiting' = [b \in {x \in Alarm : IsPending(x)'} |-> DeadlineOf(b)' - clk']
  BY DEF waiting
<1> QED BY <1>1, <1>2, WaitingIs

LEMMA WaitingAfterUnset ==
    ASSUME NEW a \in Alarm, ~ IsPending(a)', clk' = clk,
           \A b \in Alarm \ {a} :
               /\ IsPending(b)' <=> IsPending(b)
               /\ IsPending(b) => DeadlineOf(b)' = DeadlineOf(b)
    PROVE  waiting' = Queue!Without(a)
<1>1. {b \in Alarm : IsPending(b)'} = {b \in Alarm : IsPending(b)} \ {a}
  OBVIOUS
<1>2. waiting' = [b \in {x \in Alarm : IsPending(x)'} |-> DeadlineOf(b)' - clk']
  BY DEF waiting
<1> QED BY <1>1, <1>2, WaitingIs DEF Queue!Without, Queue!Armed

\* Waiting times change alike when only the clock moves, or the guard winds it
\* back.
LEMMA WaitingAfterMove ==
    ASSUME ContextInv, NEW k \in Int, clk \in Int, clk' \in Int,
           \A b \in Alarm :
               /\ IsPending(b)' <=> IsPending(b)
               /\ IsPending(b) => DeadlineOf(b)' = DeadlineOf(b) - clk + clk' + k
    PROVE  waiting' = [b \in DOMAIN waiting |-> waiting[b] + k]
<1>1. {b \in Alarm : IsPending(b)'} = {b \in Alarm : IsPending(b)}
  OBVIOUS
<1>2. waiting' = [b \in {x \in Alarm : IsPending(x)'} |-> DeadlineOf(b)' - clk']
  BY DEF waiting
<1>3. ASSUME NEW b \in Alarm, IsPending(b)
      PROVE  DeadlineOf(b)' - clk' = waiting[b] + k
  <2>1. PICK t \in Int, c \in Int, e \in Int :
            t = DeadlineOf(b) /\ c = clk /\ e = clk'
    BY <1>3, DeadlineTypes DEF Deadline
  <2>2. DeadlineOf(b)' = t - c + e + k /\ waiting[b] = t - c
    BY <1>3, <2>1, WaitingIs
  <2> QED BY <2>1, <2>2
<1> QED BY <1>1, <1>2, <1>3, WaitingIs

LEMMA ServedIs ==
    ASSUME ClockInv
    PROVE  /\ InHandler => served = loop.alarm /\ served \in Alarm
                           /\ served # NoAlarm /\ served \in DOMAIN waiting
           /\ ~ InHandler <=> served = NoAlarm
BY ClockTypes, LoopShape, WaitingIs, ChipAlarmAssumption
   DEF served, ClockInv, ServedIsPending

LEMMA InitIsEmpty == Init => Queue!Init
<1> SUFFICES ASSUME Init PROVE Queue!Init
  OBVIOUS
<1>1. {b \in Alarm : IsPending(b)} = {} /\ ~ InHandler
  BY DEF Init, IsPending, InHandler, Resetting
<1> QED BY <1>1 DEF Queue!Init, waiting, served

LEMMA InstructionTicks ==
    ASSUME ClockInv, MainCpu, NEW n \in 1 .. MaxTick, Instruction(n)
    PROVE  Queue!Tick(n)
<1>1. /\ ~ AlarmDue /\ UNCHANGED contextVars /\ Advance(n) /\ loop' = loop
  BY DEF Instruction
<1>2. \A a \in DOMAIN waiting : waiting[a] > 0
  BY <1>1, NoneDue, ClockTypes, WaitingIs
<1>3. waiting' = [a \in DOMAIN waiting |-> waiting[a] + (-n)]
  <2>1. clk' = clk + n /\ clk \in Int /\ clk' \in Int
    BY <1>1, AdvanceMoves, ClockTypes
  <2>2. \A b \in Alarm :
            /\ IsPending(b)' <=> IsPending(b)
            /\ IsPending(b) => DeadlineOf(b)' = DeadlineOf(b) - clk + clk' + (-n)
    <3>1. \A b \in Alarm : IsPending(b) =>
              DeadlineOf(b) = DeadlineOf(b) - clk + (clk + n) + (-n)
      BY ClockTypes
    <3> QED BY <3>1, <2>1, <1>1, ContextStays, ClockTypes
  <2> QED BY <2>1, <2>2, WaitingAfterMove, ClockTypes
<1>4. \A a \in DOMAIN waiting : waiting[a] + (-n) = waiting[a] - n
  BY ClockTypes, WaitingIs
<1>5. served' = served
  BY <1>1 DEF served, InHandler
<1> QED BY <1>2, <1>3, <1>4, <1>5 DEF Queue!Tick, Queue!Armed

LEMMA StealTicks ==
    ASSUME ClockInv, MainCpu, NEW n \in 1 .. MaxTick, HandlerSteals(n)
    PROVE  Queue!Tick(n)
<1>1. /\ InHandler /\ UNCHANGED contextVars /\ Advance(n)
      /\ loop' = [loop EXCEPT !.offset = @ + n, !.stage = "stolen"]
  BY DEF HandlerSteals
<1>2. served # NoAlarm
  BY <1>1, ServedIs
<1>3. waiting' = [a \in DOMAIN waiting |-> waiting[a] + (-n)]
  <2>1. clk' = clk + n /\ clk \in Int /\ clk' \in Int
    BY <1>1, AdvanceMoves, ClockTypes
  <2>2. \A b \in Alarm :
            /\ IsPending(b)' <=> IsPending(b)
            /\ IsPending(b) => DeadlineOf(b)' = DeadlineOf(b) - clk + clk' + (-n)
    <3>1. \A b \in Alarm : IsPending(b) =>
              DeadlineOf(b) = DeadlineOf(b) - clk + (clk + n) + (-n)
      BY ClockTypes
    <3> QED BY <3>1, <2>1, <1>1, ContextStays, ClockTypes
  <2> QED BY <2>1, <2>2, WaitingAfterMove, ClockTypes
<1>4. \A a \in DOMAIN waiting : waiting[a] + (-n) = waiting[a] - n
  BY ClockTypes, WaitingIs
<1>5. served' = served
  <2>1. PICK a, o, s : loop = Handler(a, o, s)
    BY <1>1, ClockTypes, LoopShape
  <2>2. InHandler' /\ loop'.alarm = loop.alarm
    BY <2>1, <1>1 DEF Handler, InHandler
  <2> QED BY <2>2, <1>1 DEF served
<1> QED BY <1>2, <1>3, <1>4, <1>5 DEF Queue!Tick, Queue!Armed

LEMMA ChipSetsArms ==
    ASSUME ClockInv, MainCpu, NEW a \in alarms, NEW d \in 1 .. MaxDelta,
           ChipSets(a, d)
    PROVE  Queue!Arm(a, d)
<1>1. /\ a \in Alarm /\ clk' = clk /\ loop' = loop
      /\ alarm_set(a, Wrap(clk + d))
  BY ClockTypes DEF ChipSets, clockVars
<1>2. clk + d \in Deadline /\ Wrap(clk + d) = clk + d
  BY ClockTypes, ClockInReach, Sizes, WrapInRange DEF Deadline, Clock
<1>3. /\ IsPending(a)' /\ DeadlineOf(a)' = clk + d
      /\ \A b \in Alarm \ {a} :
             /\ IsPending(b)' <=> IsPending(b)
             /\ IsPending(b) => DeadlineOf(b)' = DeadlineOf(b)
  BY <1>1, <1>2, SetMovesOne, ClockTypes
<1>4. waiting' = [b \in DOMAIN waiting \union {a} |->
                     IF b = a THEN d ELSE waiting[b]]
  <2>1. PICK c : c = clk + d
    OBVIOUS
  <2>2. waiting' = [b \in DOMAIN waiting \union {a} |->
                       IF b = a THEN c - clk ELSE waiting[b]]
    BY <2>1, <1>1, <1>3, WaitingAfterSet
  <2>3. c - clk = d
    BY <2>1, ClockTypes
  <2> QED BY <2>2, <2>3
<1>5. served' = served
  BY <1>1 DEF served, InHandler
<1> QED BY <1>2, <1>4, <1>5 DEF Queue!Arm, Queue!Armed

LEMMA ChipUnsetsCancels ==
    ASSUME ClockInv, MainCpu, NEW a \in alarms, ChipUnsets(a)
    PROVE  a \in DOMAIN waiting /\ Queue!Cancel(a)
<1>1. /\ a \in Alarm /\ clk' = clk /\ loop' = loop /\ IsPending(a)
      /\ alarm_unset(a)
  BY ClockTypes DEF ChipUnsets, clockVars
<1>2. waiting' = Queue!Without(a)
  BY <1>1, UnsetTakesOne, WaitingAfterUnset, ClockTypes
<1>3. served' = served
  BY <1>1 DEF served, InHandler
<1> QED BY <1>1, <1>2, <1>3, WaitingIs DEF Queue!Cancel

LEMMA DispatchServes ==
    ASSUME ClockInv, MainCpu, Dispatch
    PROVE  \E a \in DOMAIN waiting : Queue!Serve(a)
<1>1. PICK a : a = pending_alarms[DispatchSlot].alarm
  OBVIOUS
<1>2. /\ loop = Cpu /\ AlarmDue /\ UNCHANGED contextVars /\ clk' = clk
      /\ loop'.at = "handler" /\ loop'.alarm = a
  BY <1>1 DEF Dispatch, Handler
<1>3. /\ a \in Alarm /\ IsPending(a) /\ DeadlineOf(a) <= clk
      /\ \A b \in Alarm : IsPending(b) => DeadlineOf(a) <= DeadlineOf(b)
  BY <1>1, <1>2, DispatchFinds
<1>4. waiting' = waiting
  <2>1. /\ {b \in Alarm : IsPending(b)'} = {b \in Alarm : IsPending(b)}
        /\ \A b \in Alarm : DeadlineOf(b)' = DeadlineOf(b)
    BY <1>2, ContextStays, ClockTypes
  <2> QED BY <2>1, <1>2 DEF waiting
<1>5. served = NoAlarm /\ served' = a
  BY <1>2 DEF served, InHandler, Cpu
<1>6. a \in DOMAIN waiting /\ waiting[a] <= 0
      /\ \A b \in DOMAIN waiting : waiting[a] <= waiting[b]
  BY <1>3, WaitingIs, ClockTypes
<1> QED BY <1>4, <1>5, <1>6 DEF Queue!Serve, Queue!Armed

LEMMA HandlerSetsAgain ==
    ASSUME ClockInv, MainCpu, NEW d \in 1 .. MaxDelta, HandlerSets(d)
    PROVE  Queue!Again(d)
<1>1. PICK a : a = loop.alarm
  OBVIOUS
<1>2. /\ InHandler /\ loop' = Cpu /\ clk' = clk
      /\ alarm_set(a, NextDeadline(d))
  BY <1>1 DEF HandlerSets
<1>3. /\ a \in Alarm /\ IsPending(a) /\ DeadlineOf(a) = clk - loop.offset
      /\ loop.offset \in Nat /\ clk \in Nat
  BY <1>1, <1>2, ClockTypes, LoopShape DEF ClockInv, ServedIsPending, Clock
<1>4. /\ clk - loop.offset + d = DeadlineOf(a) + d
      /\ DeadlineOf(a) + d \in Deadline
  BY <1>3, ClockTypes, ClockInReach, Sizes DEF Deadline
<1>5. NextDeadline(d) = DeadlineOf(a) + d
  BY <1>1, <1>4, WrapInRange, Sizes DEF NextDeadline, Deadline, Clock
<1>6. /\ IsPending(a)' /\ DeadlineOf(a)' = DeadlineOf(a) + d
      /\ \A b \in Alarm \ {a} :
             /\ IsPending(b)' <=> IsPending(b)
             /\ IsPending(b) => DeadlineOf(b)' = DeadlineOf(b)
  BY <1>2, <1>3, <1>4, <1>5, SetMovesOne, ClockTypes
<1>7. PICK c : c = DeadlineOf(a) + d
  OBVIOUS
<1>8. waiting' = [b \in DOMAIN waiting \union {a} |->
                     IF b = a THEN c - clk ELSE waiting[b]]
  BY <1>2, <1>3, <1>6, <1>7, WaitingAfterSet, ZenonT(60)
<1>9. a \in DOMAIN waiting /\ c - clk = waiting[a] + d
  BY <1>3, <1>7, WaitingIs, ClockTypes
<1>10. waiting' = [waiting EXCEPT ![a] = @ + d]
  BY <1>8, <1>9
<1>11. served = a /\ a # NoAlarm /\ served' = NoAlarm
  BY <1>1, <1>2, ServedIs DEF served, InHandler, Cpu
<1> QED BY <1>10, <1>11 DEF Queue!Again

LEMMA HandlerUnsetsDone ==
    ASSUME ClockInv, MainCpu, HandlerUnsets
    PROVE  Queue!Done
<1>1. PICK a : a = loop.alarm
  OBVIOUS
<1>2. /\ InHandler /\ loop' = Cpu /\ clk' = clk /\ alarm_unset(a) /\ a \in Alarm
  BY <1>1, ClockTypes, LoopShape DEF HandlerUnsets
<1>3. waiting' = Queue!Without(a)
  BY <1>2, UnsetTakesOne, WaitingAfterUnset, ClockTypes
<1>4. served = a /\ a # NoAlarm /\ served' = NoAlarm
  BY <1>1, <1>2, ServedIs DEF served, InHandler, Cpu
<1> QED BY <1>3, <1>4 DEF Queue!Done

\* The guard winds the clock and the deadlines back: nobody waits longer.
LEMMA GuardIsUnseen ==
    ASSUME ClockInv, MainCpu, VsyncHook \/ NestedVsyncHook
    PROVE  UNCHANGED <<waiting, served>>
<1>1. /\ InHandler /\ clk_guard_prevent_overflow
      /\ \E s \in {"end", "drawn"} : loop' = [loop EXCEPT !.stage = s]
  BY DEF VsyncHook, NestedVsyncHook
<1>2. /\ clk' \in Clock
      /\ \A b \in Alarm :
             /\ IsPending(b)' <=> IsPending(b)
             /\ IsPending(b) => DeadlineOf(b)' = DeadlineOf(b) - clk + clk'
  BY <1>1, GuardMovesAll, ClockTypes DEF FrameIsReset, InHandler
<1>3. \A b \in Alarm :
          IsPending(b) => DeadlineOf(b)' = DeadlineOf(b) - clk + clk' + 0
  <2>1. clk \in Int /\ clk' \in Int
    BY <1>2, ClockTypes DEF Clock
  <2> QED BY <2>1, <1>2, ClockTypes
<1>4. waiting' = [b \in DOMAIN waiting |-> waiting[b] + 0]
  <2>1. clk \in Int /\ clk' \in Int /\ 0 \in Int
    BY <1>2, ClockTypes DEF Clock
  <2> QED BY <2>1, <1>2, <1>3, WaitingAfterMove, ClockTypes
<1>5. waiting' = waiting
  <2>1. \A b \in DOMAIN waiting : waiting[b] + 0 = waiting[b]
    <3>1. \A b \in DOMAIN waiting : waiting[b] \in Int
      <4>1. ASSUME NEW b \in Alarm, IsPending(b)
            PROVE  DeadlineOf(b) - clk \in Int
        BY <4>1, ClockTypes
      <4> QED BY <4>1, WaitingIs
    <3>2. \A i \in Int : i + 0 = i
      OBVIOUS
    <3> QED BY <3>1, <3>2
  <2>2. waiting = [b \in DOMAIN waiting |-> waiting[b]]
    BY DEF waiting
  <2> QED BY <2>1, <2>2, <1>4
<1>6. served' = served
  <2>1. PICK a, o, s : loop = Handler(a, o, s)
    BY <1>1, ClockTypes, LoopShape
  <2>2. InHandler' /\ loop'.alarm = loop.alarm
    BY <2>1, <1>1 DEF Handler, InHandler
  <2> QED BY <2>2, <1>1 DEF served
<1> QED BY <1>5, <1>6

LEMMA NestedFrameArms ==
    ASSUME ClockInv, MainCpu, NestedFrameSets
    PROVE  \E d \in -MaxTick .. MaxDelta : Queue!Arm(VsyncAlarm, d)
<1>1. /\ InHandler /\ loop.stage = "drawn" /\ clk' = clk
      /\ loop' = [loop EXCEPT !.stage = "end"]
  BY DEF NestedFrameSets
<1>2. /\ VsyncAlarm \in Alarm /\ IsPending(VsyncAlarm)
      /\ DeadlineOf(VsyncAlarm) \in Nat
      /\ DeadlineOf(VsyncAlarm) <= clk
      /\ DeadlineOf(VsyncAlarm) > clk - 2 * MaxTick
  <2>1. ~ FrameIsReset /\ FrameHasEnded
    BY <1>1 DEF FrameIsReset, FrameHasEnded, InHandler
  <2>2. checked <= clk
    BY ClockTypes DEF checked
  <2>3. /\ VsyncAlarm \in Alarm /\ IsPending(VsyncAlarm)
        /\ DeadlineOf(VsyncAlarm) <= checked
        /\ DeadlineOf(VsyncAlarm) > clk - 2 * MaxTick
    BY <2>1, FrameIsAlarm DEF ClockInv, FrameInReach, LatenessBounded
  <2> QED BY <2>2, <2>3, ClockTypes
<1>3. PICK c \in Deadline : c = DeadlineOf(VsyncAlarm) + FrameCycles
  BY <1>2, ClockTypes, ClockInReach, Sizes DEF Deadline
<1>4. PICK d \in -MaxTick .. MaxDelta : d = c - clk
  BY <1>2, <1>3, ClockTypes, Sizes
<1>5. alarm_set(VsyncAlarm, c)
  <2>1. Wrap(c) = c
    BY <1>3, WrapInRange, Sizes DEF Deadline, Clock
  <2> QED BY <2>1, <1>3 DEF NestedFrameSets
<1>6. waiting' = [b \in DOMAIN waiting \union {VsyncAlarm} |->
                     IF b = VsyncAlarm THEN c - clk ELSE waiting[b]]
  BY <1>1, <1>2, <1>5, SetMovesOne, WaitingAfterSet, ClockTypes
<1>7. served' = served
  <2>1. PICK a, o, s : loop = Handler(a, o, s)
    BY <1>1, ClockTypes, LoopShape
  <2>2. InHandler' /\ loop'.alarm = loop.alarm
    BY <2>1, <1>1 DEF Handler, InHandler
  <2> QED BY <2>2, <1>1 DEF served
<1> QED BY <1>4, <1>6, <1>7 DEF Queue!Arm, Queue!Armed

LEMMA CpuResetPostpones ==
    ASSUME ClockInv, MainCpu, CpuReset
    PROVE  Queue!Postpone
<1>1. /\ loop = Cpu /\ UNCHANGED contextVars /\ clk > ResetClk /\ clk' = ResetClk
      /\ loop' = Resetting(ChipAlarm)
  BY DEF CpuReset
<1>2. PICK k \in Nat : k = clk - ResetClk
  BY <1>1, ClockTypes, Sizes
<1>3. waiting' = [b \in DOMAIN waiting |-> waiting[b] + k]
  <2>1. clk \in Int /\ clk' \in Int /\ k \in Int
    BY <1>1, ClockTypes, Sizes
  <2>2. \A b \in Alarm :
            /\ IsPending(b)' <=> IsPending(b)
            /\ IsPending(b) => DeadlineOf(b)' = DeadlineOf(b) - clk + clk' + k
    <3>1. \A b \in Alarm : IsPending(b) =>
              DeadlineOf(b) = DeadlineOf(b) - clk + ResetClk + k
      BY <1>2, ClockTypes, Sizes
    <3> QED BY <3>1, <1>1, ContextStays, ClockTypes
  <2> QED BY <2>1, <2>2, WaitingAfterMove, ClockTypes
<1>4. served = NoAlarm /\ served' = NoAlarm
  BY <1>1 DEF served, InHandler, Cpu, Resetting
<1>5. ASSUME DOMAIN waiting = {} PROVE waiting' = waiting
  BY <1>3, <1>5 DEF waiting
<1>6. ASSUME NEW a \in DOMAIN waiting
      PROVE  /\ waiting'[a] >= waiting[a]
             /\ waiting' = [b \in DOMAIN waiting |->
                               waiting[b] + (waiting'[a] - waiting[a])]
  <2>1. waiting[a] \in Int /\ waiting'[a] = waiting[a] + k
    BY <1>3, WaitingIs, ClockTypes
  <2>2. waiting'[a] - waiting[a] = k /\ waiting'[a] >= waiting[a]
    BY <2>1
  <2> QED BY <2>2, <1>3
<1> QED BY <1>4, <1>5, <1>6 DEF Queue!Postpone, Queue!Armed

LEMMA ChipResetArmsOrCancels ==
    ASSUME ClockInv, MainCpu, NEW a \in ChipAlarm, ChipReset(a)
    PROVE  \/ \E d \in -MaxTick .. MaxDelta : Queue!Arm(a, d)
           \/ a \in DOMAIN waiting /\ Queue!Cancel(a)
           \/ UNCHANGED <<waiting, served>>
<1>1. /\ loop.at = "reset" /\ a \in Alarm /\ clk' = clk /\ clk = ResetClk
      /\ loop' = Resetting(loop.todo \ {a})
  BY ChipAlarmAssumption DEF ChipReset, ClockInv, Guarded
<1>2. served' = served
  BY <1>1 DEF served, InHandler, Resetting
<1>3. CASE \/ a = VsyncAlarm /\ alarm_set(a, Wrap(ResetClk + FrameCycles))
           \/ a # VsyncAlarm /\ \E c \in {1, ResetClk + 1} : alarm_set(a, c)
  <2>1. PICK c : /\ c = ResetClk + FrameCycles \/ c = 1 \/ c = ResetClk + 1
                 /\ c \in Deadline
                 /\ alarm_set(a, c)
    <3>1. /\ ResetClk + FrameCycles \in Deadline /\ 1 \in Deadline
          /\ ResetClk + 1 \in Deadline
      BY Sizes DEF Deadline
    <3>2. Wrap(ResetClk + FrameCycles) = ResetClk + FrameCycles
      BY <3>1, WrapInRange, Sizes DEF Deadline, Clock
    <3> QED BY <3>1, <3>2, <1>3
  <2>2. PICK d \in -MaxTick .. MaxDelta : d = c - clk
    BY <2>1, <1>1, Sizes
  <2>3. waiting' = [b \in DOMAIN waiting \union {a} |->
                       IF b = a THEN c - clk ELSE waiting[b]]
    BY <1>1, <2>1, SetMovesOne, WaitingAfterSet, ClockTypes
  <2> QED BY <2>2, <2>3, <1>2 DEF Queue!Arm, Queue!Armed
<1>4. CASE alarm_unset(a) /\ IsPending(a)
  <2>1. waiting' = Queue!Without(a)
    BY <1>1, <1>4, UnsetTakesOne, WaitingAfterUnset, ClockTypes
  <2> QED BY <2>1, <1>1, <1>2, <1>4, WaitingIs DEF Queue!Cancel
<1>5. CASE alarm_unset(a) /\ ~ IsPending(a)
  <2>1. UNCHANGED contextVars
    BY <1>5 DEF alarm_unset, Remove, RemoveOneOfMany, RemoveTheOnlyOne
  <2>2. waiting' = waiting
    BY <2>1, <1>1 DEF waiting, IsPending, DeadlineOf, contextVars
  <2> QED BY <2>2, <1>2
<1> QED BY <1>3, <1>4, <1>5 DEF ChipReset

LEMMA StepsOfQueue ==
    ASSUME ClockInv, MainCpu, [Next]_vars
    PROVE  [Queue!Next]_<<waiting, served>>
<1>1. CASE UNCHANGED vars
  <2>1. UNCHANGED <<waiting, served>>
    BY <1>1 DEF vars, clockVars, contextVars, waiting, served, IsPending,
           DeadlineOf, InHandler
  <2> QED BY <2>1
<1>2. ASSUME NEW n \in 1 .. MaxTick, Instruction(n) \/ HandlerSteals(n)
      PROVE  Queue!Next
  BY <1>2, InstructionTicks, StealTicks DEF Queue!Next
<1>3. ASSUME NEW a \in alarms, NEW d \in 1 .. MaxDelta, ChipSets(a, d)
      PROVE  Queue!Next
  <2>1. a \in Alarm /\ d \in -MaxTick .. MaxDelta
    BY ClockTypes, Sizes
  <2> QED BY <2>1, <1>3, ChipSetsArms DEF Queue!Next
<1>4. ASSUME NEW a \in alarms, ChipUnsets(a) PROVE Queue!Next
  BY <1>4, ChipUnsetsCancels DEF Queue!Next, Queue!Armed
<1>5. CASE Dispatch
  BY <1>5, DispatchServes DEF Queue!Next, Queue!Armed
<1>6. ASSUME NEW d \in 1 .. MaxDelta, HandlerSets(d) PROVE Queue!Next
  BY <1>6, HandlerSetsAgain DEF Queue!Next
<1>7. CASE HandlerUnsets
  BY <1>7, HandlerUnsetsDone DEF Queue!Next
<1>8. CASE VsyncHook \/ NestedVsyncHook
  BY <1>8, GuardIsUnseen
<1>9. CASE NestedFrameSets
  BY <1>9, NestedFrameArms, FrameIsAlarm DEF Queue!Next
<1>10. CASE CpuReset
  BY <1>10, CpuResetPostpones DEF Queue!Next
<1>11. ASSUME NEW a \in ChipAlarm, ChipReset(a)
       PROVE  [Queue!Next]_<<waiting, served>>
  BY <1>11, ChipResetArmsOrCancels, ChipAlarmAssumption
     DEF Queue!Next, Queue!Armed
<1>12. CASE ResetDone
  <2>1. UNCHANGED <<waiting, served>>
    BY <1>12 DEF ResetDone, contextVars, waiting, served, IsPending, DeadlineOf,
           InHandler, Cpu, Resetting
  <2> QED BY <2>1
<1> QED
  BY <1>1, <1>2, <1>3, <1>4, <1>5, <1>6, <1>7, <1>8, <1>9, <1>10, <1>11, <1>12
     DEF Next

(* A main CPU is a queue of alarms in which time passes for all alike:      *)
(* neither the array and its cache nor the clock's overflow can be seen.    *)
THEOREM MainCpuIsQueue == MainCpu /\ Spec => ImplementsQueue
<1>1. ClockInv /\ MainCpu /\ [Next]_vars => [Queue!Next]_<<waiting, served>>
  BY StepsOfQueue
<1>2. Queue!queueVars = <<waiting, served>>
  BY DEF Queue!queueVars
<1> QED
  BY <1>1, InitIsEmpty, ClockInvAlways, MainCpuForever, PTL
     DEF Spec, ImplementsQueue, Queue!Spec, Queue!queueVars

----------------------------------------------------------------------------
----------------------------------------------------------------------------
(* InterruptStatus. *)


LineInv == TypeOK /\ LinesCounted

(* What LinesCounted speaks about.                                          *)
lineVars == <<pending_int, nirq, nnmi, global_pending_int>>

----------------------------------------------------------------------------
(* Requesting kind on a line that did not adds one active line, and leaves  *)
(* the other kind's alone.                                                  *)
LEMMA Activate ==
    ASSUME NEW p \in [Line -> SUBSET {"IRQ", "NMI"}], NEW l \in Line,
           NEW kind \in {"IRQ", "NMI"}, kind \notin p[l],
           NEW q, q = [p EXCEPT ![l] = @ \union {kind}]
    PROVE  /\ q \in [Line -> SUBSET {"IRQ", "NMI"}]
           /\ Cardinality({m \in Line : kind \in q[m]})
                = Cardinality({m \in Line : kind \in p[m]}) + 1
           /\ {m \in Line : kind \in q[m]} # {}
           /\ \A other : other # kind =>
                  {m \in Line : other \in q[m]} = {m \in Line : other \in p[m]}
<1> DEFINE A == {m \in Line : kind \in p[m]}
<1>1. q \in [Line -> SUBSET {"IRQ", "NMI"}]
  OBVIOUS
<1>2. {m \in Line : kind \in q[m]} = A \union {l}
  OBVIOUS
<1>3. \A other : other # kind =>
          {m \in Line : other \in q[m]} = {m \in Line : other \in p[m]}
  OBVIOUS
<1>4. IsFiniteSet(A) /\ l \notin A
  BY LineAssumption, FS_Subset
<1>5. Cardinality(A \union {l}) = Cardinality(A) + 1
  BY <1>4, FS_AddElement
<1> QED BY <1>1, <1>2, <1>3, <1>5

(* Withdrawing it removes one.                                              *)
LEMMA Deactivate ==
    ASSUME NEW p \in [Line -> SUBSET {"IRQ", "NMI"}], NEW l \in Line,
           NEW kind \in {"IRQ", "NMI"}, kind \in p[l],
           NEW q, q = [p EXCEPT ![l] = @ \ {kind}]
    PROVE  /\ q \in [Line -> SUBSET {"IRQ", "NMI"}]
           /\ Cardinality({m \in Line : kind \in q[m]})
                = Cardinality({m \in Line : kind \in p[m]}) - 1
           /\ \A other : other # kind =>
                  {m \in Line : other \in q[m]} = {m \in Line : other \in p[m]}
<1> DEFINE A == {m \in Line : kind \in p[m]}
<1>1. q \in [Line -> SUBSET {"IRQ", "NMI"}]
  OBVIOUS
<1>2. {m \in Line : kind \in q[m]} = A \ {l}
  OBVIOUS
<1>3. \A other : other # kind =>
          {m \in Line : other \in q[m]} = {m \in Line : other \in p[m]}
  OBVIOUS
<1>4. IsFiniteSet(A) /\ l \in A
  BY LineAssumption, FS_Subset
<1>5. Cardinality(A \ {l}) = Cardinality(A) - 1
  BY <1>4, FS_RemoveElement
<1> QED BY <1>1, <1>2, <1>3, <1>5

(* A set of lines is empty exactly when it has no members to count.         *)
LEMMA NoneActive ==
    ASSUME NEW p \in [Line -> SUBSET {"IRQ", "NMI"}], NEW kind
    PROVE  /\ Cardinality({m \in Line : kind \in p[m]}) \in Nat
           /\ Cardinality({m \in Line : kind \in p[m]}) = 0
                <=> {m \in Line : kind \in p[m]} = {}
<1>1. IsFiniteSet({m \in Line : kind \in p[m]})
  BY LineAssumption, FS_Subset
<1> QED BY <1>1, FS_CardinalityType, FS_EmptySet

(* Steps that leave the lines, the counters and the IRQ flag alone.         *)
LEMMA LinesUntouched ==
    ASSUME LinesCounted, UNCHANGED <<pending_int, nirq, nnmi>>,
           Has("IRQ") <=> "IRQ" \in global_pending_int'
    PROVE  LinesCounted'
BY DEF LinesCounted, Active, Has

(* The types of what passing time changes.                                  *)
LEMMA AgesTyped ==
    ASSUME TypeOK, NEW n \in 0 .. MaxAge, NEW grace \in 0 .. Never,
           AgesFrom(grace, n)
    PROVE  /\ irqAge' \in 0 .. MaxAge /\ nmiAge' \in 0 .. MaxAge
           /\ irqGrace' \in 0 .. Never
BY DEF TypeOK, AgesFrom, AtMost, MaxAge, INTERRUPT_DELAY, Never, Grace

----------------------------------------------------------------------------
LEMMA InitLineInv == InterruptInit => LineInv
<1> SUFFICES ASSUME InterruptInit PROVE LineInv
  OBVIOUS
<1>1. TypeOK
  <2>1. pending_int \in [Line -> SUBSET {"IRQ", "NMI"}]
    BY DEF InterruptInit
  <2>2. global_pending_int \in SUBSET Flag /\ ik \in SUBSET Flag
    BY DEF InterruptInit, Flag
  <2>3. /\ irqAge \in 0 .. MaxAge /\ nmiAge \in 0 .. MaxAge
        /\ irqGrace \in 0 .. Never /\ nirq \in Nat /\ nnmi \in Nat
    BY DEF InterruptInit, MaxAge, INTERRUPT_DELAY, Never, Grace
  <2>4. /\ trap_func \in Trap \union {NoTrap} /\ requested \subseteq Trap
        /\ at \in Place /\ I \in BOOLEAN /\ last_opcode_info \in OpInfo
        /\ unserved \in BOOLEAN
    BY DEF InterruptInit, Place, OpInfo
  <2> QED BY <2>1, <2>2, <2>3, <2>4 DEF TypeOK
<1>2. Active("IRQ") = {} /\ Active("NMI") = {}
  BY DEF InterruptInit, Active
<1> QED BY <1>1, <1>2, FS_EmptySet DEF InterruptInit, LineInv, LinesCounted, Has

LEMMA DrivesLineKeepsInv == LineInv /\ ChipDrivesLine => LineInv'
<1> SUFFICES ASSUME LineInv, NEW l \in Line,
                    \/ \E age \in 0 .. MaxAge : TriggerIrq(l, age) \/ TriggerNmi(l, age)
                    \/ RemoveIrq(l) \/ RemoveNmi(l),
                    UNCHANGED <<trapVars, cpuVars>>, unserved' \in BOOLEAN
             PROVE  LineInv'
  BY DEF ChipDrivesLine
<1> USE DEF LineInv
<1>1. ASSUME NEW age \in 0 .. MaxAge, TriggerIrq(l, age) PROVE LineInv'
  <2>1. /\ pending_int' \in [Line -> SUBSET {"IRQ", "NMI"}]
        /\ Cardinality(Active("IRQ")') = Cardinality(Active("IRQ")) + 1
        /\ Active("IRQ")' # {}
        /\ Active("NMI")' = Active("NMI")
    BY <1>1, Activate DEF TriggerIrq, TypeOK, Active
  <2>2. TypeOK'
    BY <1>1, <2>1 DEF TriggerIrq, TypeOK, trapVars, cpuVars, Flag, MaxAge,
           INTERRUPT_DELAY, Never, Grace
  <2> QED BY <1>1, <2>1, <2>2 DEF TriggerIrq, LinesCounted, Has
<1>2. ASSUME NEW age \in 0 .. MaxAge, TriggerNmi(l, age) PROVE LineInv'
  <2>1. /\ pending_int' \in [Line -> SUBSET {"IRQ", "NMI"}]
        /\ Cardinality(Active("NMI")') = Cardinality(Active("NMI")) + 1
        /\ Active("IRQ")' = Active("IRQ")
    BY <1>2, Activate DEF TriggerNmi, TypeOK, Active
  <2>2. /\ global_pending_int' \in SUBSET Flag
        /\ "IRQ" \in global_pending_int' <=> Has("IRQ")
        /\ nmiAge' \in 0 .. MaxAge
    <3>1. "NMI" \in Flag /\ age \in 0 .. MaxAge
      BY DEF Flag, MaxAge, INTERRUPT_DELAY
    <3>2. CASE NmiLatches
      BY <1>2, <3>1, <3>2 DEF TriggerNmi, TypeOK, Has
    <3>3. CASE ~ NmiLatches
      BY <1>2, <3>3 DEF TriggerNmi, TypeOK, Has
    <3> QED BY <3>2, <3>3
  <2>3. TypeOK'
    BY <1>2, <2>1, <2>2 DEF TriggerNmi, TypeOK, trapVars, cpuVars
  <2> QED BY <1>2, <2>1, <2>2, <2>3 DEF TriggerNmi, LinesCounted, Has
<1>3. CASE RemoveIrq(l)
  <2>1. /\ pending_int' \in [Line -> SUBSET {"IRQ", "NMI"}]
        /\ Cardinality(Active("IRQ")') = Cardinality(Active("IRQ")) - 1
        /\ Active("NMI")' = Active("NMI")
    BY <1>3, Deactivate DEF RemoveIrq, TypeOK, Active
  <2>2. Cardinality(Active("IRQ")') = 0 <=> Active("IRQ")' = {}
    BY <2>1, NoneActive DEF Active
  <2>3. TypeOK'
    <3>1. global_pending_int' \in SUBSET Flag /\ irqGrace' \in 0 .. Never
      <4>1. Grace \in 0 .. Never
        BY DEF Never, Grace
      <4>2. CASE StillPending(nirq - 1)
        BY <1>3, <4>2 DEF RemoveIrq, TypeOK
      <4>3. CASE ~ StillPending(nirq - 1)
        BY <1>3, <4>1, <4>3 DEF RemoveIrq, TypeOK
      <4> QED BY <4>2, <4>3
    <3>2. nirq' \in Nat
      BY <1>3 DEF RemoveIrq, TypeOK
    <3> QED
      BY <1>3, <2>1, <3>1, <3>2 DEF RemoveIrq, TypeOK, trapVars, cpuVars
  <2>4. nirq' = Cardinality(Active("IRQ")') /\ nnmi' = Cardinality(Active("NMI")')
    BY <1>3, <2>1 DEF RemoveIrq, LinesCounted
  <2>5. Active("IRQ") # {}
    BY <1>3 DEF RemoveIrq, Active
  <2>6. CASE StillPending(nirq - 1)
    <3>1. nirq' > 0 /\ global_pending_int' = global_pending_int
      BY <1>3, <2>6 DEF RemoveIrq, StillPending
    <3>2. Active("IRQ")' # {}
      BY <3>1, <2>2, <2>4
    <3> QED BY <3>1, <3>2, <2>3, <2>4, <2>5 DEF LinesCounted, Has
  <2>7. CASE ~ StillPending(nirq - 1)
    <3>1. nirq' = 0 /\ global_pending_int' = global_pending_int \ {"IRQ"}
      BY <1>3, <2>7 DEF RemoveIrq, StillPending, TypeOK
    <3>2. Active("IRQ")' = {}
      BY <3>1, <2>2, <2>4
    <3> QED BY <3>1, <3>2, <2>3, <2>4 DEF LinesCounted, Has
  <2> QED BY <2>6, <2>7
<1>4. CASE RemoveNmi(l)
  <2>1. /\ pending_int' \in [Line -> SUBSET {"IRQ", "NMI"}]
        /\ Cardinality(Active("NMI")') = Cardinality(Active("NMI")) - 1
        /\ Active("IRQ")' = Active("IRQ")
    BY <1>4, Deactivate DEF RemoveNmi, TypeOK, Active
  <2>2. TypeOK'
    BY <1>4, <2>1 DEF RemoveNmi, TypeOK, trapVars, cpuVars
  <2> QED BY <1>4, <2>1, <2>2 DEF RemoveNmi, LinesCounted, Has
<1> QED BY <1>1, <1>2, <1>3, <1>4

LEMMA OtherChipsKeepInv == LineInv /\ ChipStep => LineInv'
<1> SUFFICES ASSUME LineInv, ChipStep PROVE LineInv'
  OBVIOUS
<1> USE DEF LineInv
<1>1. ASSUME NEW flag \in Request, ChipRaises(flag) PROVE LineInv'
  <2>1. flag \in Flag /\ flag # "IRQ"
    BY RequestAssumption DEF Flag
  <2>2. TypeOK' BY <1>1, <2>1 DEF ChipRaises, TypeOK, trapVars, cpuVars
  <2>3. LinesCounted' BY <1>1, <2>1, LinesUntouched DEF ChipRaises, Has
  <2> QED BY <2>2, <2>3
<1>2. CASE MonitorOff
  <2>1. TypeOK' BY <1>2 DEF MonitorOff, TypeOK, trapVars, cpuVars
  <2>2. LinesCounted' BY <1>2, LinesUntouched DEF MonitorOff, Has
  <2> QED BY <2>1, <2>2
<1>3. ASSUME NEW t \in Trap, interrupt_maincpu_trigger_trap(t) PROVE LineInv'
  <2>1. TypeOK'
    BY <1>3 DEF interrupt_maincpu_trigger_trap, TypeOK, cpuVars, Flag
  <2>2. LinesCounted'
    BY <1>3, LinesUntouched DEF interrupt_maincpu_trigger_trap, Has
  <2> QED BY <2>1, <2>2
<1> QED BY <1>1, <1>2, <1>3, DrivesLineKeepsInv DEF ChipStep

LEMMA CpuKeepsInv == LineInv /\ CpuStep => LineInv'
<1> SUFFICES ASSUME LineInv, CpuStep PROVE LineInv'
  OBVIOUS
<1> USE DEF LineInv
<1>1. /\ MaxAge \in 0 .. MaxAge /\ 0 \in 0 .. MaxAge
      /\ \A n \in 2 .. MaxAge : n \in 0 .. MaxAge
      /\ irqGrace \in 0 .. Never /\ Never \in 0 .. Never
  BY DEF MaxAge, INTERRUPT_DELAY, TypeOK, Never, Grace
<1>2. ASSUME NEW op \in OpInfo, NEW n \in 2 .. MaxAge, ExecuteOpcode(op, n)
      PROVE  LineInv'
  <2>1. /\ irqAge' \in 0 .. MaxAge /\ nmiAge' \in 0 .. MaxAge
        /\ irqGrace' \in 0 .. Never
    BY <1>1, <1>2, AgesTyped DEF ExecuteOpcode, Ages
  <2>2. I' \in BOOLEAN
    BY <1>2 DEF ExecuteOpcode, TypeOK, OpInfo
  <2>3. TypeOK'
    BY <1>2, <2>1, <2>2 DEF ExecuteOpcode, TypeOK, trapVars, Place
  <2>4. LinesCounted' BY <1>2, LinesUntouched DEF ExecuteOpcode, Has
  <2> QED BY <2>3, <2>4
<1>3. CASE BrkStarts
  <2>1. /\ irqAge' \in 0 .. MaxAge /\ nmiAge' \in 0 .. MaxAge
        /\ irqGrace' \in 0 .. Never
    BY <1>1, <1>3, AgesTyped DEF BrkStarts, Ages
  <2>2. TypeOK' BY <1>3, <2>1 DEF BrkStarts, TypeOK, trapVars, Place
  <2>3. LinesCounted' BY <1>3, LinesUntouched DEF BrkStarts, Has
  <2> QED BY <2>2, <2>3
<1>4. CASE BrkVectors
  <2>1. /\ global_pending_int' \in SUBSET Flag /\ irqGrace' \in 0 .. Never
        /\ "IRQ" \in global_pending_int' <=> Has("IRQ")
    BY <1>4 DEF BrkVectors, interrupt_ack_nmi, interrupt_ack_irq, TypeOK, Has,
           Never, Grace
  <2>2. TypeOK' BY <1>4, <2>1 DEF BrkVectors, TypeOK, trapVars, Place, OpInfo
  <2>3. LinesCounted' BY <1>4, <2>1, LinesUntouched DEF BrkVectors
  <2> QED BY <2>2, <2>3
<1>5. CASE Poll
  <2>1. Polled \in SUBSET Flag /\ ("IRQ" \in Polled <=> Has("IRQ"))
    BY DEF Polled, GraceOver, TypeOK, Has
  <2>2. /\ global_pending_int' \in SUBSET Flag /\ ik' \in SUBSET Flag
        /\ "IRQ" \in global_pending_int' <=> Has("IRQ")
    <3>1. /\ "IRQPEND" \in Flag
          /\ global_pending_int' \in {Polled, Polled \union {"IRQPEND"}}
          /\ ik' = Polled
      BY <1>5 DEF Poll, Flag
    <3> QED BY <2>1, <3>1
  <2>3. /\ irqAge' \in 0 .. MaxAge /\ nmiAge' \in 0 .. MaxAge
        /\ irqGrace' \in 0 .. Never /\ I' \in BOOLEAN
    <3>1. PICK grace \in 0 .. Never, n \in 0 .. MaxAge : AgesFrom(grace, n)
      BY <1>1, <1>5 DEF Poll
    <3>2. I' \in BOOLEAN
      BY <1>5 DEF Poll, TypeOK
    <3> QED BY <3>1, <3>2, AgesTyped
  <2>4. at' \in Place
    BY <1>5 DEF Poll, Place
  <2>5. TypeOK' BY <1>5, <2>2, <2>3, <2>4 DEF Poll, TypeOK, trapVars
  <2>6. LinesCounted' BY <1>5, <2>2, LinesUntouched DEF Poll
  <2> QED BY <2>5, <2>6
<1>6. CASE VectorFetched
  <2>1. /\ global_pending_int' \in SUBSET Flag /\ irqGrace' \in 0 .. Never
        /\ "IRQ" \in global_pending_int' <=> Has("IRQ")
    BY <1>6 DEF VectorFetched, interrupt_ack_nmi, interrupt_ack_irq, TypeOK,
           Has, Never, Grace
  <2>2. TypeOK'
    BY <1>6, <2>1 DEF VectorFetched, TypeOK, trapVars, Place, OpInfo
  <2>3. LinesCounted' BY <1>6, <2>1, LinesUntouched DEF VectorFetched
  <2> QED BY <2>2, <2>3
<1>7. CASE DoTrap
  <2>1. PICK raised \in SUBSET (Request \intersect {"RESET"}),
             again \in Trap \union {NoTrap} :
           /\ global_pending_int' =
                  AfterTrap(raised \union IF again = NoTrap THEN {} ELSE {"TRAP"})
           /\ trap_func' = IF again = NoTrap THEN trap_func ELSE again
           /\ requested' = (requested \ {trap_func}) \union ({again} \ {NoTrap})
           /\ at' = IF ("RESET" \in ik) \/ Has("RESET") \/ "RESET" \in raised
                    THEN "reset" ELSE "finish"
    BY <1>7 DEF DoTrap
  <2>2. /\ global_pending_int' \in SUBSET Flag
        /\ "IRQ" \in global_pending_int' <=> Has("IRQ")
    BY <2>1 DEF AfterTrap, TypeOK, Has, Flag
  <2>3. /\ trap_func' \in Trap \union {NoTrap} /\ requested' \subseteq Trap
        /\ at' \in Place
    BY <2>1 DEF TypeOK, Place
  <2>4. TypeOK' BY <1>7, <2>2, <2>3 DEF DoTrap, TypeOK
  <2>5. LinesCounted' BY <1>7, <2>2, LinesUntouched DEF DoTrap
  <2> QED BY <2>4, <2>5
<1>8. CASE NoTrapToDo
  <2>1. TypeOK' BY <1>8 DEF NoTrapToDo, TypeOK, statusVars, trapVars, Place
  <2>2. LinesCounted'
    BY <1>8, LinesUntouched DEF NoTrapToDo, statusVars, Has
  <2> QED BY <2>1, <2>2
<1>9. CASE interrupt_cpu_status_reset
  <2>1. TypeOK'
    <3>1. /\ pending_int' \in [Line -> SUBSET {"IRQ", "NMI"}]
          /\ nirq' \in Nat /\ nnmi' \in Nat
          /\ irqAge' \in 0 .. MaxAge /\ nmiAge' \in 0 .. MaxAge
          /\ irqGrace' \in 0 .. Never
      BY <1>9 DEF interrupt_cpu_status_reset, MaxAge, INTERRUPT_DELAY, Never,
             Grace
    <3>2. /\ global_pending_int' \in SUBSET Flag
          /\ trap_func' \in Trap \union {NoTrap} /\ requested' \subseteq Trap
          /\ at' \in Place /\ unserved' \in BOOLEAN
      BY <1>9 DEF interrupt_cpu_status_reset, TypeOK, Place
    <3> QED
      BY <1>9, <3>1, <3>2 DEF interrupt_cpu_status_reset, TypeOK
  <2>2. Active("IRQ")' = {} /\ Active("NMI")' = {}
    BY <1>9 DEF interrupt_cpu_status_reset, Active
  <2>3. ~ ("IRQ" \in global_pending_int')
    BY <1>9 DEF interrupt_cpu_status_reset
  <2> QED
    BY <1>9, <2>1, <2>2, <2>3, FS_EmptySet DEF interrupt_cpu_status_reset, LinesCounted, Has
<1>10. CASE Finish
  <2>1. /\ global_pending_int' \in SUBSET Flag
        /\ "IRQ" \in global_pending_int' <=> Has("IRQ")
    BY <1>10 DEF Finish, DropGrace, TypeOK, Has
  <2>2. TypeOK' BY <1>10, <2>1 DEF Finish, TypeOK, trapVars, Place
  <2>3. LinesCounted' BY <1>10, <2>1, LinesUntouched DEF Finish
  <2> QED BY <2>2, <2>3
<1> QED
  BY <1>2, <1>3, <1>4, <1>5, <1>6, <1>7, <1>8, <1>9, <1>10 DEF CpuStep

LEMMA StutterKeepsInv == LineInv /\ UNCHANGED interruptVars => LineInv'
BY DEF LineInv, TypeOK, LinesCounted, Active, Has, interruptVars, statusVars, trapVars,
       cpuVars

LEMMA NextKeepsLineInv == LineInv /\ [InterruptNext]_interruptVars => LineInv'
BY OtherChipsKeepInv, CpuKeepsInv, StutterKeepsInv DEF InterruptNext

----------------------------------------------------------------------------
(* The trap's flag, slot and history while a step leaves them alone.        *)
LEMMA SlotUntouched ==
    ASSUME SlotIsPending, UNCHANGED trapVars,
           Has("TRAP") <=> "TRAP" \in global_pending_int',
           at' \in {"entering", "special"} /\ "TRAP" \in ik'
               => Has("TRAP")
    PROVE  SlotIsPending'
BY DEF SlotIsPending, trapVars, Has

LEMMA ChipsKeepSlot == TypeOK /\ SlotIsPending /\ ChipStep => SlotIsPending'
<1> SUFFICES ASSUME TypeOK, SlotIsPending, ChipStep PROVE SlotIsPending'
  OBVIOUS
<1>1. CASE ChipDrivesLine
  <2>1. PICK l \in Line, age \in 0 .. MaxAge :
            TriggerIrq(l, age) \/ TriggerNmi(l, age)
            \/ RemoveIrq(l) \/ RemoveNmi(l)
    BY <1>1 DEF ChipDrivesLine, MaxAge, INTERRUPT_DELAY
  <2>2. Has("TRAP") <=> "TRAP" \in global_pending_int'
    BY <2>1 DEF TriggerIrq, TriggerNmi, RemoveIrq, RemoveNmi, Has
  <2> QED
    BY <1>1, <2>2, SlotUntouched DEF ChipDrivesLine, cpuVars, SlotIsPending
<1>2. ASSUME NEW flag \in Request, ChipRaises(flag) PROVE SlotIsPending'
  <2>1. Has("TRAP") <=> "TRAP" \in global_pending_int'
    BY <1>2, RequestAssumption DEF ChipRaises, Has
  <2> QED BY <1>2, <2>1, SlotUntouched DEF ChipRaises, cpuVars, SlotIsPending
<1>3. CASE MonitorOff
  <2>1. Has("TRAP") <=> "TRAP" \in global_pending_int'
    BY <1>3 DEF MonitorOff, Has
  <2> QED BY <1>3, <2>1, SlotUntouched DEF MonitorOff, cpuVars, SlotIsPending
<1>4. ASSUME NEW t \in Trap, interrupt_maincpu_trigger_trap(t)
      PROVE  SlotIsPending'
  BY <1>4 DEF interrupt_maincpu_trigger_trap, cpuVars, SlotIsPending, Has
<1> QED BY <1>1, <1>2, <1>3, <1>4 DEF ChipStep

LEMMA CpuKeepsSlot == TypeOK /\ SlotIsPending /\ CpuStep => SlotIsPending'
<1> SUFFICES ASSUME TypeOK, SlotIsPending, CpuStep PROVE SlotIsPending'
  OBVIOUS
<1>1. ASSUME NEW op \in OpInfo, NEW n \in 2 .. MaxAge, ExecuteOpcode(op, n)
      PROVE  SlotIsPending'
  BY <1>1, SlotUntouched DEF ExecuteOpcode, Has
<1>2. CASE BrkStarts
  BY <1>2, SlotUntouched DEF BrkStarts, Has
<1>3. CASE BrkVectors
  <2>1. Has("TRAP") <=> "TRAP" \in global_pending_int'
    BY <1>3 DEF BrkVectors, interrupt_ack_nmi, interrupt_ack_irq, Has
  <2> QED BY <1>3, <2>1, SlotUntouched DEF BrkVectors
<1>4. CASE Poll
  <2>1. "TRAP" \in Polled <=> Has("TRAP")
    BY DEF Polled, GraceOver, Has
  <2>2. /\ global_pending_int' \in {Polled, Polled \union {"IRQPEND"}}
        /\ ik' = Polled
    BY <1>4 DEF Poll
  <2> QED BY <1>4, <2>1, <2>2, SlotUntouched DEF Poll
<1>5. CASE VectorFetched
  <2>1. Has("TRAP") <=> "TRAP" \in global_pending_int'
    BY <1>5 DEF VectorFetched, interrupt_ack_nmi, interrupt_ack_irq, Has
  <2> QED BY <1>5, <2>1, SlotUntouched DEF VectorFetched, SlotIsPending
<1>6. CASE DoTrap
  <2>1. PICK raised \in SUBSET (Request \intersect {"RESET"}),
             again \in Trap \union {NoTrap} :
           /\ global_pending_int' =
                  AfterTrap(raised \union IF again = NoTrap THEN {} ELSE {"TRAP"})
           /\ trap_func' = IF again = NoTrap THEN trap_func ELSE again
           /\ requested' = (requested \ {trap_func}) \union ({again} \ {NoTrap})
           /\ at' \notin {"entering", "special"}
    BY <1>6 DEF DoTrap
  <2>2. CASE again = NoTrap
    <3>1. ~ ("TRAP" \in global_pending_int') /\ trap_func' \notin requested'
      BY <2>1, <2>2 DEF AfterTrap
    <3> QED BY <2>1, <3>1 DEF SlotIsPending, Has
  <2>3. CASE again # NoTrap
    <3>1. "TRAP" \in global_pending_int' /\ trap_func' \in requested'
      BY <2>1, <2>3 DEF AfterTrap
    <3> QED BY <2>1, <3>1 DEF SlotIsPending, Has
  <2> QED BY <2>2, <2>3
<1>7. CASE NoTrapToDo
  BY <1>7, SlotUntouched DEF NoTrapToDo, statusVars, Has
<1>8. CASE interrupt_cpu_status_reset
  BY <1>8 DEF interrupt_cpu_status_reset, SlotIsPending, Has
<1>9. CASE Finish
  <2>1. Has("TRAP") <=> "TRAP" \in global_pending_int'
    BY <1>9 DEF Finish, DropGrace, Has
  <2> QED BY <1>9, <2>1, SlotUntouched DEF Finish
<1> QED
  BY <1>1, <1>2, <1>3, <1>4, <1>5, <1>6, <1>7, <1>8, <1>9 DEF CpuStep

LEMMA NextKeepsSlot == TypeOK /\ SlotIsPending /\ [InterruptNext]_interruptVars => SlotIsPending'
<1>1. SlotIsPending /\ UNCHANGED interruptVars => SlotIsPending'
  BY DEF SlotIsPending, interruptVars, statusVars, trapVars, cpuVars, Has
<1> QED BY <1>1, ChipsKeepSlot, CpuKeepsSlot DEF InterruptNext

----------------------------------------------------------------------------
(* While an entry is on, nothing takes the NMI away, and no chip makes its  *)
(* age start again: it is latched already.                                  *)
LEMMA EntryUntouched ==
    ASSUME NmiEntryKeepsNmi, at' = at, ik' = ik,
           Has("NMI") => "NMI" \in global_pending_int' /\ nmiAge' = nmiAge
    PROVE  NmiEntryKeepsNmi'
BY DEF NmiEntryKeepsNmi, VectorIsNmi, Has

LEMMA ChipsKeepNmi == TypeOK /\ NmiEntryKeepsNmi /\ ChipStep => NmiEntryKeepsNmi'
<1> SUFFICES ASSUME TypeOK, NmiEntryKeepsNmi, ChipStep PROVE NmiEntryKeepsNmi'
  OBVIOUS
<1>1. CASE ChipDrivesLine
  <2>1. PICK l \in Line, age \in 0 .. MaxAge :
            TriggerIrq(l, age) \/ TriggerNmi(l, age)
            \/ RemoveIrq(l) \/ RemoveNmi(l)
    BY <1>1 DEF ChipDrivesLine, MaxAge, INTERRUPT_DELAY
  <2>2. Has("NMI") => "NMI" \in global_pending_int' /\ nmiAge' = nmiAge
    BY <2>1 DEF TriggerIrq, TriggerNmi, RemoveIrq, RemoveNmi, NmiLatches, Has
  <2> QED BY <1>1, <2>2, EntryUntouched DEF ChipDrivesLine, cpuVars
<1>2. ASSUME NEW flag \in Request, ChipRaises(flag) PROVE NmiEntryKeepsNmi'
  BY <1>2, EntryUntouched DEF ChipRaises, cpuVars, Has
<1>3. CASE MonitorOff
  BY <1>3, EntryUntouched DEF MonitorOff, cpuVars, Has
<1>4. ASSUME NEW t \in Trap, interrupt_maincpu_trigger_trap(t)
      PROVE  NmiEntryKeepsNmi'
  BY <1>4, EntryUntouched DEF interrupt_maincpu_trigger_trap, cpuVars, Has
<1> QED BY <1>1, <1>2, <1>3, <1>4 DEF ChipStep

(* The poll enters without an IRQ only for an NMI whose delay is over, and  *)
(* hands its flags over as it saw them; all other steps of the CPU leave    *)
(* the entry behind.                                                        *)
LEMMA CpuKeepsNmi == TypeOK /\ CpuStep => NmiEntryKeepsNmi'
<1> SUFFICES ASSUME TypeOK, CpuStep PROVE NmiEntryKeepsNmi'
  OBVIOUS
<1>1. CASE Poll
  <2> SUFFICES ASSUME at' = "entering", "NMI" \in ik',
                      ik' \intersect {"IRQ", "IRQPEND"} = {}
               PROVE  VectorIsNmi'
    BY DEF NmiEntryKeepsNmi
  <2>1. /\ ik' = Polled
        /\ global_pending_int' \in {Polled, Polled \union {"IRQPEND"}}
    BY <1>1 DEF Poll
  <2>2. /\ "NMI" \in Polled /\ NmiDelayOver
        /\ nmiAge' = AtMost(nmiAge + MaxAge, MaxAge)
    BY <1>1, <2>1 DEF Poll, AgesFrom
  <2>3. nmiAge' >= INTERRUPT_DELAY
    BY <2>2 DEF TypeOK, AtMost, MaxAge, INTERRUPT_DELAY
  <2> QED BY <2>1, <2>2, <2>3 DEF VectorIsNmi, Has
<1>2. CASE ~ Poll
  <2>1. at' # "entering"
    <3>1. at' \in {"opcode", "brk", "poll", "special", "reset", "finish"}
      BY <1>2 DEF CpuStep, ExecuteOpcode, BrkStarts, BrkVectors, VectorFetched,
             DoTrap, NoTrapToDo, interrupt_cpu_status_reset, Finish
    <3> QED BY <3>1
  <2> QED BY <2>1 DEF NmiEntryKeepsNmi
<1> QED BY <1>1, <1>2

LEMMA NextKeepsNmi == TypeOK /\ NmiEntryKeepsNmi /\ [InterruptNext]_interruptVars => NmiEntryKeepsNmi'
<1>1. NmiEntryKeepsNmi /\ UNCHANGED interruptVars => NmiEntryKeepsNmi'
  BY EntryUntouched DEF interruptVars, statusVars, cpuVars, Has
<1> QED BY <1>1, ChipsKeepNmi, CpuKeepsNmi DEF InterruptNext

(* Steps that leave the lines, the latch and the debt of the CPU alone.      *)
LEMMA EdgeUntouched ==
    ASSUME NmiIsEdge, unserved' = unserved,
           Has("NMI") <=> "NMI" \in global_pending_int'
    PROVE  NmiIsEdge'
BY DEF NmiIsEdge, Has

(* The counter and the latch see an edge where the lines make one: the      *)
(* counter is 0 exactly while no line is active.                            *)
LEMMA LinesKeepEdge == LineInv /\ NmiIsEdge /\ ChipDrivesLine => NmiIsEdge'
<1> SUFFICES ASSUME LineInv, NmiIsEdge, ChipDrivesLine PROVE NmiIsEdge'
  OBVIOUS
<1>1. PICK l \in Line, age \in 0 .. MaxAge :
          TriggerIrq(l, age) \/ TriggerNmi(l, age)
          \/ RemoveIrq(l) \/ RemoveNmi(l)
  BY DEF ChipDrivesLine, MaxAge, INTERRUPT_DELAY
<1>2. unserved' = (unserved \/ NmiEdge)
  BY DEF ChipDrivesLine
<1>3. nnmi = 0 <=> Active("NMI") = {}
  <2>1. pending_int \in [Line -> SUBSET {"IRQ", "NMI"}]
    BY DEF LineInv, TypeOK
  <2>2. nnmi = Cardinality(Active("NMI"))
    BY DEF LineInv, LinesCounted
  <2>3. Cardinality(Active("NMI")) = 0 <=> Active("NMI") = {}
    BY <2>1, NoneActive DEF Active
  <2> QED BY <2>2, <2>3
<1>4. unserved \in BOOLEAN
  BY DEF LineInv, TypeOK
<1>5. CASE TriggerNmi(l, age)
  <2>1. Active("NMI")' # {}
    <3>1. l \in Active("NMI")'
      BY <1>5 DEF TriggerNmi, LineInv, TypeOK, Active
    <3> QED BY <3>1
  <2>2. unserved' = (unserved \/ nnmi = 0)
    BY <1>2, <1>3, <2>1 DEF NmiEdge
  <2>3. "NMI" \in global_pending_int' <=> (Has("NMI") \/ nnmi = 0)
    BY <1>5 DEF TriggerNmi, NmiLatches, Has
  <2> QED BY <2>2, <2>3, <1>4 DEF NmiIsEdge, Has
<1>6. CASE TriggerIrq(l, age) \/ RemoveIrq(l)
  <2>1. Active("NMI")' = Active("NMI")
    BY <1>6 DEF TriggerIrq, RemoveIrq, LineInv, TypeOK, Active
  <2>2. unserved' = unserved
    BY <1>2, <1>4, <2>1 DEF NmiEdge
  <2>3. Has("NMI") <=> "NMI" \in global_pending_int'
    BY <1>6 DEF TriggerIrq, RemoveIrq, Has
  <2> QED BY <2>2, <2>3, EdgeUntouched
<1>7. CASE RemoveNmi(l)
  <2>1. Active("NMI") # {}
    BY <1>7 DEF RemoveNmi, Active
  <2>2. unserved' = unserved
    BY <1>2, <1>4, <2>1 DEF NmiEdge
  <2> QED BY <1>7, <2>2, EdgeUntouched DEF RemoveNmi, Has
<1> QED BY <1>1, <1>5, <1>6, <1>7

LEMMA ChipsKeepEdge == LineInv /\ NmiIsEdge /\ ChipStep => NmiIsEdge'
<1> SUFFICES ASSUME LineInv, NmiIsEdge, ChipStep PROVE NmiIsEdge'
  OBVIOUS
<1>1. ASSUME NEW flag \in Request, ChipRaises(flag) PROVE NmiIsEdge'
  <2>1. flag # "NMI"
    BY RequestAssumption
  <2> QED BY <1>1, <2>1, EdgeUntouched DEF ChipRaises, Has
<1>2. CASE MonitorOff
  BY <1>2, EdgeUntouched DEF MonitorOff, Has
<1>3. ASSUME NEW t \in Trap, interrupt_maincpu_trigger_trap(t)
      PROVE  NmiIsEdge'
  BY <1>3, EdgeUntouched DEF interrupt_maincpu_trigger_trap, Has
<1> QED BY <1>1, <1>2, <1>3, LinesKeepEdge DEF ChipStep

(* Only fetching the NMI's vector pays the debt, and it clears the latch.   *)
LEMMA CpuKeepsEdge == LineInv /\ NmiIsEdge /\ CpuStep => NmiIsEdge'
<1> SUFFICES ASSUME LineInv, NmiIsEdge, CpuStep PROVE NmiIsEdge'
  OBVIOUS
<1>1. CASE BrkVectors \/ VectorFetched
  <2>1. unserved' = (unserved /\ ~ VectorIsNmi)
    BY <1>1 DEF BrkVectors, VectorFetched
  <2>2. "NMI" \in global_pending_int' <=> (Has("NMI") /\ ~ VectorIsNmi)
    BY <1>1 DEF BrkVectors, VectorFetched, interrupt_ack_nmi,
           interrupt_ack_irq, VectorIsNmi, Has
  <2> QED BY <2>1, <2>2 DEF NmiIsEdge, Has
<1>2. CASE Poll
  <2>1. "NMI" \in Polled <=> Has("NMI")
    BY DEF Polled, GraceOver, Has
  <2>2. Has("NMI") <=> "NMI" \in global_pending_int'
    BY <1>2, <2>1 DEF Poll
  <2> QED BY <1>2, <2>2, EdgeUntouched DEF Poll
<1>3. CASE DoTrap
  <2>1. Has("NMI") <=> "NMI" \in global_pending_int'
    BY <1>3 DEF DoTrap, AfterTrap, Has
  <2> QED BY <1>3, <2>1, EdgeUntouched DEF DoTrap
<1>4. CASE interrupt_cpu_status_reset
  BY <1>4 DEF interrupt_cpu_status_reset, NmiIsEdge, Has
<1>5. CASE Finish
  <2>1. Has("NMI") <=> "NMI" \in global_pending_int'
    BY <1>5 DEF Finish, DropGrace, Has
  <2> QED BY <1>5, <2>1, EdgeUntouched DEF Finish
<1>6. CASE (\E op \in OpInfo, n \in 2 .. MaxAge : ExecuteOpcode(op, n))
           \/ BrkStarts \/ NoTrapToDo
  BY <1>6, EdgeUntouched DEF ExecuteOpcode, BrkStarts, NoTrapToDo, statusVars,
         Has
<1> QED BY <1>1, <1>2, <1>3, <1>4, <1>5, <1>6 DEF CpuStep

LEMMA NextKeepsEdge ==
    LineInv /\ NmiIsEdge /\ [InterruptNext]_interruptVars => NmiIsEdge'
<1>1. NmiIsEdge /\ UNCHANGED interruptVars => NmiIsEdge'
  BY EdgeUntouched DEF interruptVars, statusVars, Has
<1> QED BY <1>1, ChipsKeepEdge, CpuKeepsEdge DEF InterruptNext

----------------------------------------------------------------------------
(* The types, for any number of lines: the counters never go negative.      *)
THEOREM TypesHold == InterruptSpec => []TypeOK
<1>1. LineInv => TypeOK
  BY DEF LineInv
<1> QED BY <1>1, InitLineInv, NextKeepsLineInv, PTL DEF InterruptSpec

(* The counters count the lines and the IRQ flag follows them, for any      *)
(* number of lines and any order of requests, withdrawals and resets.       *)
THEOREM LinesAlwaysCounted == InterruptSpec => []LinesCounted
<1>1. LineInv => LinesCounted
  BY DEF LineInv
<1> QED BY <1>1, InitLineInv, NextKeepsLineInv, PTL DEF InterruptSpec

(* The trap in the slot is called exactly once for the last trigger and     *)
(* never after a reset, for any number of traps and requests in any order.  *)
THEOREM SlotAlwaysPending == InterruptSpec => []SlotIsPending
<1>1. InterruptInit => SlotIsPending
  BY DEF InterruptInit, SlotIsPending, Has
<1> QED BY <1>1, TypesHold, NextKeepsSlot, PTL DEF InterruptSpec

(* An entry made for an NMI alone fetches the NMI's vector at its end,       *)
(* whatever chips do while its cycles pass, for any number of lines.  An    *)
(* edge that comes in between is part of the one being served.              *)
THEOREM NmiEntryAlwaysKeepsNmi == InterruptSpec => []NmiEntryKeepsNmi
<1>1. InterruptInit => NmiEntryKeepsNmi
  BY DEF InterruptInit, NmiEntryKeepsNmi
<1> QED BY <1>1, TypesHold, NextKeepsNmi, PTL DEF InterruptSpec

(* The latch is that of one input sensitive to edges, for any number of     *)
(* lines that share it, with resets, BRKs and entries at any time.          *)
THEOREM NmiAlwaysEdge == InterruptSpec => []NmiIsEdge
<1>1. InterruptInit => NmiIsEdge
  BY DEF InterruptInit, NmiIsEdge, Has
<1> QED
  BY <1>1, InitLineInv, NextKeepsLineInv, NextKeepsEdge, PTL DEF InterruptSpec
=============================================================================
