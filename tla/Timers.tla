------------------------------- MODULE Timers -------------------------------
(***************************************************************************)
(* The timer table of zc_timer.c: ZC_TIMER_MAX_NUM slots, each idle or     *)
(* running for one timer type, and the handles that the protocol           *)
(* controller keeps, one per type (u8ReconnectTimer, u8AccessTimer, ...),  *)
(* which hold the slot of the type's last timer or PCT_TIMER_INVAILD.      *)
(*                                                                         *)
(* The table and the handles are one value                                 *)
(*     tm = [slot |-> ..., handle |-> ...],                                *)
(* and every operation maps a value to the next one, so that a handler     *)
(* that stops one timer and starts another is a composition of operators.  *)
(***************************************************************************)
EXTENDS Naturals

CONSTANT ZC_TIMER_MAX_NUM     \* number of slots; 10 in zc_timer.h

(* PCT_TIMER_RECONNECT, ... of zc_protocol_controller.h.                   *)
TimerTypes == {"RECONNECT", "REACCESS", "SENDMOUDLE", "SENDHEART", "REGISTER"}

PCT_TIMER_INVAILD == 255      \* a handle that owns no slot

(* One slot more than there are types: a callback starts the next timer of *)
(* its type before its own slot is freed.  Indices are a u8 and 255 is     *)
(* the invalid handle.                                                     *)
ASSUME TimerNumAssumption == ZC_TIMER_MAX_NUM \in 6 .. 255

Slots == 0 .. ZC_TIMER_MAX_NUM - 1

TimerTables == [slot   : [Slots -> TimerTypes \cup {"IDLE"}],
                handle : [TimerTypes -> Slots \cup {PCT_TIMER_INVAILD}]]

-----------------------------------------------------------------------------
IdleSlots(tm) == {i \in Slots : tm.slot[i] = "IDLE"}

Valid(tm, type) == tm.handle[type] # PCT_TIMER_INVAILD

(* The type's handle points to a slot that is running for that type.       *)
Armed(tm, type) == Valid(tm, type) /\ tm.slot[tm.handle[type]] = type

(* The types some slot is running for.                                     *)
Running(tm) == {t \in TimerTypes : \E i \in Slots : tm.slot[i] = t}

(* TIMER_StopTimer: frees the slot, whatever it runs for.  The caller's    *)
(* handle keeps its value.                                                 *)
StopSlot(tm, i) == [slot   |-> [tm.slot EXCEPT ![i] = "IDLE"],
                    handle |-> tm.handle]

Forget(tm, type) ==
  [slot   |-> tm.slot,
   handle |-> [tm.handle EXCEPT ![type] = PCT_TIMER_INVAILD]]

(* The slot of a handle; handle 255 is outside the table, and stopping it  *)
(* is left without a meaning: the callers are shown never to do it.        *)
StopHandle(tm, type) == StopSlot(tm, tm.handle[type])

(* "if (PCT_TIMER_INVAILD != handle) TIMER_StopTimer(handle)".             *)
StopIfValid(tm, type) == IF Valid(tm, type) THEN StopHandle(tm, type) ELSE tm

StopAndForget(tm, type) == Forget(StopIfValid(tm, type), type)

(* QC_SetTimer: the lowest idle slot is allocated and written to the       *)
(* handle.  With no idle slot nothing happens, and no caller looks at the  *)
(* result.                                                                 *)
SetTimer(tm, type) ==
  IF IdleSlots(tm) = {}
  THEN tm
  ELSE LET i == CHOOSE i \in IdleSlots(tm) : \A j \in IdleSlots(tm) : i <= j
       IN  [slot   |-> [tm.slot EXCEPT ![i] = type],
            handle |-> [tm.handle EXCEPT ![type] = i]]

(* A mutant of the next definition: only the handles are reset.             *)
StopAllHandlesOnly(tm, types) ==
  [slot   |-> tm.slot,
   handle |-> [t \in TimerTypes |-> IF t \in types THEN PCT_TIMER_INVAILD
                                                   ELSE tm.handle[t]]]

(* Every running timer stopped, the table re-initialised and the handles   *)
(* in types invalidated: PCT_ReconnectCloud and PCT_Sleep.                 *)
StopAll(tm, types) ==
  [slot   |-> [i \in Slots |-> "IDLE"],
   handle |-> [t \in TimerTypes |-> IF t \in types THEN PCT_TIMER_INVAILD
                                                   ELSE tm.handle[t]]]

(* Power on.  PCT_Init leaves u8AccessTimer at its static value, 0.        *)
InitTimers ==
  [slot   |-> [i \in Slots |-> "IDLE"],
   handle |-> [t \in TimerTypes |-> IF t = "REACCESS" THEN 0 ELSE PCT_TIMER_INVAILD]]

-----------------------------------------------------------------------------
(* Every running slot is the one its type's handle points to, and every    *)
(* valid handle but REACCESS's, which is never invalidated, points to a    *)
(* slot running for its type.                                              *)
Coherent(tm) ==
  /\ \A i \in Slots : tm.slot[i] # "IDLE" => tm.handle[tm.slot[i]] = i
  /\ \A t \in TimerTypes \ {"REACCESS"} : Valid(tm, t) => Armed(tm, t)

=============================================================================
