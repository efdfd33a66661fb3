---------------------- MODULE ProtocolController_proofs ----------------------
(***************************************************************************)
(* The safety invariants of the protocol controller, for every number of   *)
(* timer slots, send buffers, retransmissions and descriptors and every    *)
(* set of messages that the assumptions of the two modules allow.          *)
(*                                                                         *)
(* IndInv is the conjunction of the invariants that TLC checks, and is     *)
(* inductive.  Its parts are proved to be preserved one lemma each, with   *)
(* one step per action, after the lemmas about the timers, by which the    *)
(* set Running(timers) says everything the invariants need.                *)
(*                                                                         *)
(* At the end, the controller is shown to implement CloudSession with      *)
(* encryption switched on.  By the invariants the state of the session is  *)
(* determined by u8MainState and the send queue, so every action is a step *)
(* of the session by what it does to these two.                            *)
(***************************************************************************)
EXTENDS ProtocolControllerRefinement, TLAPS

-----------------------------------------------------------------------------
(* What the operations on the timer table do to a coherent table, for any  *)
(* number of slots above the number of timer types.  A table that is       *)
(* coherent is described completely, for the controller's purposes, by the *)
(* set Running(tm): each lemma says that an operation keeps the table      *)
(* coherent and what it does to that set.                                  *)
Sound(tm) == tm \in TimerTables /\ Coherent(tm)

(* In a coherent table a running type is armed, and a valid handle, but     *)
(* REACCESS's, is of a running type.                                        *)
LEMMA RunningIsArmed ==
  ASSUME NEW tm, Sound(tm), NEW t \in TimerTypes
  PROVE  /\ t \in Running(tm) => Armed(tm, t)
         /\ Armed(tm, t) => t \in Running(tm)
         /\ t # "REACCESS" => (Valid(tm, t) <=> t \in Running(tm))
<1>1. "IDLE" \notin TimerTypes
  BY DEF TimerTypes
<1>2. t \in Running(tm) => Armed(tm, t)
  BY <1>1, TimerNumAssumption
  DEF Sound, Coherent, Running, Armed, Valid, TimerTables, Slots, PCT_TIMER_INVAILD
<1>3. Armed(tm, t) => t \in Running(tm)
  BY DEF Armed, Valid, Running, Sound, TimerTables
<1>4. t # "REACCESS" /\ Valid(tm, t) => Armed(tm, t)
  BY DEF Sound, Coherent
<1>5. Armed(tm, t) => Valid(tm, t)
  BY DEF Armed
<1> QED
  BY <1>2, <1>3, <1>4, <1>5

(* Timer slots never run out: the running slots are owned by the handles of *)
(* distinct types, and there are more slots than types.  So QC_SetTimer,    *)
(* whose failure nobody checks, does not fail.                              *)
LEMMA IdleSlotExists ==
  ASSUME NEW tm, Sound(tm)
  PROVE  \E i \in IdleSlots(tm) : \A j \in IdleSlots(tm) : i <= j
<1>1. {0, 1, 2, 3, 4, 5} \subseteq Slots /\ Slots \subseteq Nat
  BY TimerNumAssumption DEF Slots
<1>2. \E i \in {0, 1, 2, 3, 4, 5} : tm.slot[i] = "IDLE"
  <2> SUFFICES ASSUME \A i \in {0, 1, 2, 3, 4, 5} : tm.slot[i] # "IDLE"
               PROVE  FALSE
    OBVIOUS
  <2>1. \A i \in {0, 1, 2, 3, 4, 5} :
          tm.slot[i] \in TimerTypes /\ tm.handle[tm.slot[i]] = i
    BY <1>1 DEF Sound, Coherent, TimerTables
  <2>2. \A i, j \in {0, 1, 2, 3, 4, 5} : i # j => tm.slot[i] # tm.slot[j]
    BY <2>1
  <2> QED
    BY <2>1, <2>2 DEF TimerTypes
<1>3. PICK n \in {0, 1, 2, 3, 4, 5} :
        /\ tm.slot[n] = "IDLE"
        /\ \A i \in {0, 1, 2, 3, 4, 5} : i < n => tm.slot[i] # "IDLE"
  BY <1>2
<1>4. n \in IdleSlots(tm)
  BY <1>1, <1>3 DEF IdleSlots
<1>5. ASSUME NEW j \in IdleSlots(tm) PROVE n <= j
  <2>1. j \in Nat /\ tm.slot[j] = "IDLE"
    BY <1>1 DEF IdleSlots
  <2> QED
    BY <2>1, <1>3
<1> QED
  BY <1>4, <1>5

(* So the slot that SetTimer picks is idle, and SetTimer starts the timer.  *)
LEMMA SetTimerAllocates ==
  ASSUME NEW tm, Sound(tm), NEW t \in TimerTypes
  PROVE  \E i \in Slots :
           /\ tm.slot[i] = "IDLE"
           /\ SetTimer(tm, t) = [slot   |-> [tm.slot EXCEPT ![i] = t],
                                 handle |-> [tm.handle EXCEPT ![t] = i]]
<1> DEFINE i == CHOOSE i \in IdleSlots(tm) : \A j \in IdleSlots(tm) : i <= j
<1>1. i \in IdleSlots(tm)
  BY IdleSlotExists
<1>2. i \in Slots /\ tm.slot[i] = "IDLE"
  BY <1>1 DEF IdleSlots
<1>3. SetTimer(tm, t) = [slot   |-> [tm.slot EXCEPT ![i] = t],
                         handle |-> [tm.handle EXCEPT ![t] = i]]
  BY <1>1 DEF SetTimer
<1> HIDE DEF i
<1> QED
  BY <1>2, <1>3

(* A timer that is not running is started.                                  *)
LEMMA SetTimerStarts ==
  ASSUME NEW tm, Sound(tm), NEW t \in TimerTypes, t \notin Running(tm)
  PROVE  Sound(SetTimer(tm, t)) /\ Running(SetTimer(tm, t)) = Running(tm) \cup {t}
<1> DEFINE new == SetTimer(tm, t)
<1>1. PICK i \in Slots : /\ tm.slot[i] = "IDLE"
                         /\ new = [slot   |-> [tm.slot EXCEPT ![i] = t],
                                   handle |-> [tm.handle EXCEPT ![t] = i]]
  BY SetTimerAllocates
<1> HIDE DEF new
<1>2. /\ tm.slot \in [Slots -> TimerTypes \cup {"IDLE"}]
      /\ tm.handle \in [TimerTypes -> Slots \cup {PCT_TIMER_INVAILD}]
      /\ "IDLE" \notin TimerTypes
      /\ PCT_TIMER_INVAILD \notin Slots
      /\ \A k \in Slots : tm.slot[k] # t
  BY TimerNumAssumption
  DEF Sound, TimerTables, TimerTypes, Running, Slots, PCT_TIMER_INVAILD
<1>3. /\ \A k \in Slots : new.slot[k] = IF k = i THEN t ELSE tm.slot[k]
      /\ \A u \in TimerTypes : new.handle[u] = IF u = t THEN i ELSE tm.handle[u]
      /\ new \in TimerTables
  BY <1>1, <1>2 DEF TimerTables
<1>4. Running(new) = Running(tm) \cup {t}
  BY <1>1, <1>2, <1>3 DEF Running
<1>5. \A k \in Slots : new.slot[k] # "IDLE" => new.handle[new.slot[k]] = k
  BY <1>1, <1>2, <1>3 DEF Sound, Coherent
<1>6. \A u \in TimerTypes \ {"REACCESS"} : Valid(new, u) => Armed(new, u)
  BY <1>1, <1>2, <1>3 DEF Sound, Coherent, Valid, Armed
<1> QED
  BY <1>3, <1>4, <1>5, <1>6 DEF Sound, Coherent, new

(* A callback that starts the next timer of its own type before its slot is *)
(* stopped: the type goes on running, now in another slot.                  *)
LEMMA CallbackRestarts ==
  ASSUME NEW tm, Sound(tm), NEW i \in Slots, NEW t \in TimerTypes, tm.slot[i] = t
  PROVE  LET new == StopSlot(SetTimer(tm, t), i)
         IN  /\ Sound(new) /\ Running(new) = Running(tm)
             /\ tm.handle[t] = i /\ Valid(tm, t)
             /\ Valid(new, t) /\ new.handle[t] # i
             /\ \A u \in TimerTypes \ {t} : new.handle[u] = tm.handle[u]
<1> DEFINE new == StopSlot(SetTimer(tm, t), i)
<1>1. PICK j \in Slots : /\ tm.slot[j] = "IDLE"
                         /\ SetTimer(tm, t) = [slot   |-> [tm.slot EXCEPT ![j] = t],
                                               handle |-> [tm.handle EXCEPT ![t] = j]]
  BY SetTimerAllocates
<1>2. /\ tm.slot \in [Slots -> TimerTypes \cup {"IDLE"}]
      /\ tm.handle \in [TimerTypes -> Slots \cup {PCT_TIMER_INVAILD}]
      /\ "IDLE" \notin TimerTypes
      /\ PCT_TIMER_INVAILD \notin Slots
      /\ \A k \in Slots : tm.slot[k] # "IDLE" => tm.handle[tm.slot[k]] = k
  BY TimerNumAssumption
  DEF Sound, Coherent, TimerTables, TimerTypes, Slots, PCT_TIMER_INVAILD
<1>3. /\ new.slot = [[tm.slot EXCEPT ![j] = t] EXCEPT ![i] = "IDLE"]
      /\ new.handle = [tm.handle EXCEPT ![t] = j]
      /\ new \in TimerTables
  BY <1>1, <1>2 DEF TimerTables, StopSlot
<1> HIDE DEF new
<1>4. /\ i # j
      /\ \A k \in Slots : new.slot[k] = IF k = i THEN "IDLE"
                                        ELSE IF k = j THEN t ELSE tm.slot[k]
      /\ \A u \in TimerTypes : new.handle[u] = IF u = t THEN j ELSE tm.handle[u]
  BY <1>1, <1>2, <1>3
<1>5. Running(new) = Running(tm)
  <2>1. ASSUME NEW u \in TimerTypes, u # t
        PROVE  u \in Running(new) <=> u \in Running(tm)
    BY <2>1, <1>1, <1>2, <1>4 DEF Running
  <2>2. t \in Running(new) /\ t \in Running(tm)
    BY <1>4 DEF Running
  <2> QED
    BY <2>1, <2>2 DEF Running
<1>6. \A k \in Slots : new.slot[k] # "IDLE" => new.handle[new.slot[k]] = k
  BY <1>1, <1>2, <1>4
<1>7. \A u \in TimerTypes \ {"REACCESS"} : Valid(new, u) => Armed(new, u)
  <2> SUFFICES ASSUME NEW u \in TimerTypes \ {"REACCESS"}, Valid(new, u)
               PROVE  Armed(new, u)
    OBVIOUS
  <2>1. CASE u = t
    BY <2>1, <1>1, <1>2, <1>4 DEF Valid, Armed
  <2>2. CASE u # t
    <3>1. Armed(tm, u)
      BY <2>2, <1>4 DEF Valid, Sound, Coherent
    <3> QED
      BY <3>1, <2>2, <1>1, <1>2, <1>4 DEF Valid, Armed
  <2> QED
    BY <2>1, <2>2
<1>8. /\ tm.handle[t] = i /\ Valid(tm, t) /\ Valid(new, t) /\ new.handle[t] # i
      /\ \A u \in TimerTypes \ {t} : new.handle[u] = tm.handle[u]
  BY <1>1, <1>2, <1>4 DEF Valid
<1> QED
  BY <1>3, <1>5, <1>6, <1>7, <1>8 DEF Sound, Coherent, new

(* A slot is stopped and its type's handle takes the value h: invalid, or,  *)
(* for REACCESS, whatever it was.                                           *)
LEMMA SlotStopped ==
  ASSUME NEW tm, Sound(tm), NEW i \in Slots, NEW t \in TimerTypes, tm.slot[i] = t,
         NEW h \in Slots \cup {PCT_TIMER_INVAILD}, h = PCT_TIMER_INVAILD \/ t = "REACCESS",
         NEW new, new = [slot   |-> [tm.slot EXCEPT ![i] = "IDLE"],
                         handle |-> [tm.handle EXCEPT ![t] = h]]
  PROVE  Sound(new) /\ Running(new) = Running(tm) \ {t}
<1>1. /\ tm.slot \in [Slots -> TimerTypes \cup {"IDLE"}]
      /\ tm.handle \in [TimerTypes -> Slots \cup {PCT_TIMER_INVAILD}]
      /\ "IDLE" \notin TimerTypes
      /\ \A k \in Slots : tm.slot[k] # "IDLE" => tm.handle[tm.slot[k]] = k
      /\ \A u \in TimerTypes \ {"REACCESS"} : Valid(tm, u) => Armed(tm, u)
  BY DEF Sound, Coherent, TimerTables, TimerTypes
<1>2. /\ \A k \in Slots : new.slot[k] = IF k = i THEN "IDLE" ELSE tm.slot[k]
      /\ \A u \in TimerTypes : new.handle[u] = IF u = t THEN h ELSE tm.handle[u]
      /\ new \in TimerTables
  BY <1>1 DEF TimerTables
<1>3. \A k \in Slots : k # i => tm.slot[k] # t
  BY <1>1
<1>4. Running(new) = Running(tm) \ {t}
  BY <1>1, <1>2, <1>3 DEF Running
<1>5. \A k \in Slots : new.slot[k] # "IDLE" => new.handle[new.slot[k]] = k
  BY <1>1, <1>2, <1>3
<1>6. \A u \in TimerTypes \ {"REACCESS"} : Valid(new, u) => Armed(new, u)
  BY <1>1, <1>2, <1>3 DEF Valid, Armed
<1> QED
  BY <1>2, <1>4, <1>5, <1>6 DEF Sound, Coherent

(* A callback that invalidates its handle.                                  *)
LEMMA CallbackForgets ==
  ASSUME NEW tm, Sound(tm), NEW i \in Slots, NEW t \in TimerTypes, tm.slot[i] = t
  PROVE  LET new == StopSlot(Forget(tm, t), i)
         IN  Sound(new) /\ Running(new) = Running(tm) \ {t}
<1> DEFINE new == StopSlot(Forget(tm, t), i)
<1>1. tm = [slot |-> tm.slot, handle |-> tm.handle]
  BY DEF Sound, TimerTables
<1>2. new = [slot   |-> [tm.slot EXCEPT ![i] = "IDLE"],
             handle |-> [tm.handle EXCEPT ![t] = PCT_TIMER_INVAILD]]
  BY <1>1 DEF StopSlot, Forget
<1> HIDE DEF new
<1>3. Sound(new) /\ Running(new) = Running(tm) \ {t}
  BY <1>2, SlotStopped
<1> QED
  BY <1>3 DEF new

(* The access timer's slot is stopped, and its handle keeps its value.      *)
LEMMA AccessStopped ==
  ASSUME NEW tm, Sound(tm), NEW i \in Slots, tm.slot[i] = "REACCESS"
  PROVE  Sound(StopSlot(tm, i)) /\ Running(StopSlot(tm, i)) = Running(tm) \ {"REACCESS"}
<1> DEFINE new == StopSlot(tm, i)
           h   == tm.handle["REACCESS"]
<1>1. /\ tm = [slot |-> tm.slot, handle |-> tm.handle]
      /\ tm.handle \in [TimerTypes -> Slots \cup {PCT_TIMER_INVAILD}]
      /\ "REACCESS" \in TimerTypes
  BY DEF Sound, TimerTables, TimerTypes
<1>2. /\ h \in Slots \cup {PCT_TIMER_INVAILD}
      /\ tm.handle = [tm.handle EXCEPT !["REACCESS"] = h]
  BY <1>1
<1>3. new = [slot   |-> [tm.slot EXCEPT ![i] = "IDLE"],
             handle |-> [tm.handle EXCEPT !["REACCESS"] = h]]
  BY <1>1, <1>2 DEF StopSlot
<1> HIDE DEF new, h
<1>4. Sound(new) /\ Running(new) = Running(tm) \ {"REACCESS"}
  BY <1>1, <1>2, <1>3, SlotStopped
<1> QED
  BY <1>4 DEF new

(* Stopping the access timer through its handle, while it runs.             *)
LEMMA AccessHandleStopped ==
  ASSUME NEW tm, Sound(tm), "REACCESS" \in Running(tm)
  PROVE  LET new == StopHandle(tm, "REACCESS")
         IN  Sound(new) /\ Running(new) = Running(tm) \ {"REACCESS"}
<1>1. Armed(tm, "REACCESS")
  BY RunningIsArmed DEF TimerTypes
<1>2. tm.handle["REACCESS"] \in Slots /\ tm.slot[tm.handle["REACCESS"]] = "REACCESS"
  BY <1>1 DEF Armed, Valid, Sound, TimerTables, TimerTypes
<1> QED
  BY <1>2, AccessStopped DEF StopHandle

(* Stopping the timer of a type through its handle, if there is one.        *)
LEMMA HandleStopped ==
  ASSUME NEW tm, Sound(tm), NEW t \in TimerTypes \ {"REACCESS"}
  PROVE  /\ Sound(StopAndForget(tm, t))
         /\ Running(StopAndForget(tm, t)) = Running(tm) \ {t}
<1> DEFINE new == StopAndForget(tm, t)
<1>1. /\ tm = [slot |-> tm.slot, handle |-> tm.handle]
      /\ tm.handle \in [TimerTypes -> Slots \cup {PCT_TIMER_INVAILD}]
  BY DEF Sound, TimerTables
<1>2. CASE Valid(tm, t)
  <2> DEFINE i == tm.handle[t]
  <2>1. i \in Slots /\ tm.slot[i] = t
    BY <1>1, <1>2 DEF Sound, Coherent, Armed, Valid
  <2>2. new = [slot   |-> [tm.slot EXCEPT ![i] = "IDLE"],
               handle |-> [tm.handle EXCEPT ![t] = PCT_TIMER_INVAILD]]
    BY <1>1, <1>2 DEF StopAndForget, StopIfValid, StopHandle, StopSlot, Forget
  <2> HIDE DEF new, i
  <2>3. Sound(new) /\ Running(new) = Running(tm) \ {t}
    BY <2>1, <2>2, SlotStopped
  <2> QED
    BY <2>3 DEF new
<1>3. CASE ~Valid(tm, t)
  <2>1. tm.handle = [tm.handle EXCEPT ![t] = PCT_TIMER_INVAILD]
    BY <1>1, <1>3 DEF Valid
  <2>2. new = tm
    BY <1>1, <1>3, <2>1 DEF StopAndForget, StopIfValid, Forget
  <2>3. t \notin Running(tm)
    BY <1>3, RunningIsArmed
  <2> HIDE DEF new
  <2>4. Sound(new) /\ Running(new) = Running(tm) \ {t}
    BY <2>2, <2>3
  <2> QED
    BY <2>4 DEF new
<1> QED
  BY <1>2, <1>3

(* A timer is started anew, whether it was running or not.  The slot it ran *)
(* in is free before its handle is overwritten.                             *)
LEMMA TimerRestarts ==
  ASSUME NEW tm, Sound(tm), NEW t \in TimerTypes \ {"REACCESS"}
  PROVE  LET new == SetTimer(StopIfValid(tm, t), t)
         IN  Sound(new) /\ Running(new) = Running(tm) \cup {t}
<1> DEFINE old     == StopIfValid(tm, t)
           stopped == StopAndForget(tm, t)
<1>1. Sound(stopped) /\ Running(stopped) = Running(tm) \ {t}
  BY HandleStopped
<1>2. old.slot = stopped.slot
  BY DEF StopAndForget, Forget
<1>3. stopped.handle = [old.handle EXCEPT ![t] = PCT_TIMER_INVAILD]
  BY DEF StopAndForget, Forget, StopIfValid, StopHandle, StopSlot, Sound, TimerTables
<1> HIDE DEF old, stopped
<1>4. IdleSlots(old) = IdleSlots(stopped)
  BY <1>2 DEF IdleSlots
<1>5. IdleSlots(stopped) # {}
  BY <1>1, IdleSlotExists
<1>6. \A i : [stopped.handle EXCEPT ![t] = i] = [old.handle EXCEPT ![t] = i]
  BY <1>3
<1>7. SetTimer(old, t) = SetTimer(stopped, t)
  BY <1>2, <1>4, <1>5, <1>6 DEF SetTimer
<1>8. /\ Sound(SetTimer(stopped, t))
      /\ Running(SetTimer(stopped, t)) = Running(stopped) \cup {t}
  BY <1>1, SetTimerStarts
<1>9. Sound(SetTimer(old, t)) /\ Running(SetTimer(old, t)) = Running(tm) \cup {t}
  BY <1>1, <1>7, <1>8
<1> QED
  BY <1>9 DEF old

(* Stopping everything, when no handle that survives it is valid.           *)
LEMMA AllStopped ==
  ASSUME NEW tm, Sound(tm), NEW types \in SUBSET TimerTypes,
         \A t \in TimerTypes \ {"REACCESS"} : t \in types \/ ~Valid(tm, t)
  PROVE  Sound(StopAll(tm, types)) /\ Running(StopAll(tm, types)) = {}
<1>1. StopAll(tm, types) \in TimerTables
  BY DEF StopAll, TimerTables, Sound
<1>2. Running(StopAll(tm, types)) = {}
  BY DEF Running, StopAll, TimerTypes
<1>3. \A t \in TimerTypes \ {"REACCESS"} : ~Valid(StopAll(tm, types), t)
  BY DEF Valid, StopAll
<1>4. \A i \in Slots : StopAll(tm, types).slot[i] = "IDLE"
  BY DEF StopAll
<1> QED
  BY <1>1, <1>2, <1>3, <1>4 DEF Sound, Coherent

(* Power on.                                                                *)
LEMMA InitTimersSound == Sound(InitTimers) /\ Running(InitTimers) = {}
<1>1. InitTimers \in TimerTables
  BY TimerNumAssumption DEF InitTimers, TimerTables, Slots
<1>2. Running(InitTimers) = {}
  BY DEF Running, InitTimers, TimerTypes
<1>3. \A t \in TimerTypes \ {"REACCESS"} : ~Valid(InitTimers, t)
  BY DEF Valid, InitTimers
<1>4. \A i \in Slots : InitTimers.slot[i] = "IDLE"
  BY DEF InitTimers
<1> QED
  BY <1>1, <1>2, <1>3, <1>4 DEF Sound, Coherent

-----------------------------------------------------------------------------
(* The controller.                                                          *)

(* What the invariants say of the timer table tm in state state, with the   *)
(* loop at place, in terms of the running timers.                           *)
TimersOK(tm, state, place) ==
  /\ Sound(tm)
  /\ Running(tm) \subseteq TimersOfState(state)
  /\ state \in {"WAIT_ACCESSRSP", "WAIT_MSG4"} => "REACCESS" \in Running(tm)
  /\ state = "CONNECT_CLOUD" => "SENDHEART" \in Running(tm)
  /\ state = "INIT" /\ place \notin {"setnet", "sniffer"} =>
       "RECONNECT" \in Running(tm) \/ "REGISTER" \in Running(tm)
  /\ place \in {"setnet", "sniffer"} => Running(tm) = {}
  /\ place = "connecting" => "RECONNECT" \notin Running(tm)
  /\ ~({"RECONNECT", "REGISTER"} \subseteq Running(tm))

TimerPart == TimersOK(timers, mainState, pc)

SessionPart == KeyFollowsState /\ SessionsAreSeparate /\ ReceivedIsHandled

(* The parts of LoopPosition that are not about timers.                     *)
PlacePart ==
  /\ pc \in {"setnet", "sniffer"} => mainState \in {"INIT", "ACCESS_NET"}
  /\ pc = "connecting" <=> connFd # PCT_INVAILD_SOCKET
  /\ pc = "connecting" => mainState = "ACCESS_NET"
  /\ pc \in {"run", "connecting"} => fd = u32Socket
  /\ pc = "tail" => fd = u32Socket \/ mainState = "WAIT_ACCESS"

SocketPart == SocketsAreOwned /\ PlacePart

IndInv == TypeOK /\ TimerPart /\ SessionPart /\ SocketPart /\ McuIsInformed

Invariants ==
  /\ TypeOK /\ TimersCoherent /\ TimersFitState /\ WaitsAreTimed
  /\ KeyFollowsState /\ SessionsAreSeparate /\ ReceivedIsHandled
  /\ SocketsAreOwned /\ McuIsInformed /\ LoopPosition

-----------------------------------------------------------------------------
(* Next as one list of actions.                                             *)
LEMMA NextCases ==
  ASSUME Next
  PROVE  \/ \E i \in Slots : \/ ReconnectTimeout(i) \/ AccessTimeout(i)
                             \/ ResendToMoudle(i) \/ GiveUpMoudle(i)
                             \/ HeartTimeout(i) \/ RegisterTimeout(i)
         \/ ModuleRegister \/ ModuleData \/ ConfigPara \/ PowerOn \/ SetNetwork
         \/ CloudRecvfunc \/ Run \/ Connected \/ ConnectFailed
         \/ LoopTail \/ WifiUp \/ WifiLost
BY DEF Next, TimerStep, SendMoudleTimeout, ModuleStep, CloudThreadStep, ResetChip

(* IndInv implies the invariants that TLC checks.                           *)
LEMMA IndInvImplies == IndInv => Invariants
<1> SUFFICES ASSUME IndInv PROVE Invariants
  OBVIOUS
<1>1. \A t \in TimerTypes : t \in Running(timers) => Armed(timers, t)
  BY RunningIsArmed DEF IndInv, TimerPart, TimersOK
<1>2. TimersCoherent /\ TimersFitState /\ WaitsAreTimed
  BY <1>1
  DEF IndInv, TimerPart, TimersOK, Sound, TimersCoherent, TimersFitState,
      WaitsAreTimed, TimerTypes
<1>3. LoopPosition
  BY DEF IndInv, TimerPart, TimersOK, SocketPart, PlacePart, LoopPosition
<1> QED
  BY <1>2, <1>3 DEF IndInv, Invariants, SessionPart, SocketPart

-----------------------------------------------------------------------------
(* The type invariant.                                                      *)

(* The send queue never holds more messages than there are send buffers.    *)
LEMMA SendType ==
  ASSUME NEW q \in Seq(SendKinds), Len(q) <= MSG_BUFFER_SEND_MAX_NUM,
         NEW kind \in SendKinds, NEW key, NEW switch
  PROVE  /\ Send(q, kind, key, switch) \in Seq(SendKinds)
         /\ Len(Send(q, kind, key, switch)) <= MSG_BUFFER_SEND_MAX_NUM
<1>1. MSG_BUFFER_SEND_MAX_NUM \in Nat
  BY ConstantsAssumption
<1> QED
  BY <1>1 DEF Send

LEMMA SendBothType ==
  ASSUME NEW q \in Seq(SendKinds), Len(q) <= MSG_BUFFER_SEND_MAX_NUM,
         NEW kind1 \in SendKinds, NEW kind2 \in SendKinds, NEW key, NEW switch
  PROVE  /\ SendBoth(q, kind1, kind2, key, switch) \in Seq(SendKinds)
         /\ Len(SendBoth(q, kind1, kind2, key, switch)) <= MSG_BUFFER_SEND_MAX_NUM
BY SendType DEF SendBoth

-----------------------------------------------------------------------------
(* The timers.                                                              *)

(* In a sound table the handle test of the code, PCT_TIMER_INVAILD # handle,*)
(* says whether the timer runs.                                             *)
LEMMA ValidIsRunning ==
  ASSUME IndInv, NEW t \in TimerTypes \ {"REACCESS"}
  PROVE  Valid(timers, t) <=> t \in Running(timers)
BY RunningIsArmed DEF IndInv, TimerPart, TimersOK

LEMMA PowerOnTimers ==
  ASSUME PowerOn PROVE TimerPart'
BY InitTimersSound DEF PowerOn, TimerPart, TimersOK, TimersOfState

(* Each timer callback leaves the running timers to be those of the state   *)
(* it leads to.                                                             *)
LEMMA CallbackTimers ==
  ASSUME IndInv, NEW i \in Slots,
         \/ ReconnectTimeout(i) \/ AccessTimeout(i) \/ ResendToMoudle(i)
         \/ GiveUpMoudle(i) \/ HeartTimeout(i) \/ RegisterTimeout(i)
  PROVE  TimerPart'
<1> USE DEF TimerPart
<1>1. /\ Sound(timers) /\ TimersOK(timers, mainState, pc) /\ mainState \in MainStates
      /\ timers.slot[i] \in TimerTypes => timers.slot[i] \in Running(timers)
  BY DEF IndInv, TimersOK, TypeOK, Running
<1>2. CASE ReconnectTimeout(i)
  <2>1. /\ timers.slot[i] = "RECONNECT" /\ mainState' = "ACCESS_NET" /\ pc' = pc
        /\ timers' = StopSlot(Forget(timers, "RECONNECT"), i)
    BY <1>2 DEF ReconnectTimeout, threadVars
  <2>2. Sound(timers') /\ Running(timers') = Running(timers) \ {"RECONNECT"}
    BY <1>1, <2>1, CallbackForgets DEF TimerTypes
  <2> QED
    BY <1>1, <2>1, <2>2 DEF TimersOK, TimersOfState, MainStates, TimerTypes
<1>3. CASE AccessTimeout(i)
  <2>1. /\ timers.slot[i] = "REACCESS" /\ mainState' = "DISCONNECT_CLOUD" /\ pc' = pc
        /\ timers' = StopSlot(timers, i)
    BY <1>3 DEF AccessTimeout, threadVars, DisConnectCloud, DisConnectThenSend
  <2>2. Sound(timers') /\ Running(timers') = Running(timers) \ {"REACCESS"}
    BY <1>1, <2>1, AccessStopped
  <2> QED
    BY <1>1, <2>1, <2>2 DEF TimersOK, TimersOfState, MainStates, TimerTypes
<1>4. CASE GiveUpMoudle(i)
  <2>1. /\ timers.slot[i] = "SENDMOUDLE" /\ mainState' = mainState /\ pc' = pc
        /\ timers' = StopSlot(Forget(timers, "SENDMOUDLE"), i)
    BY <1>4 DEF GiveUpMoudle, threadVars
  <2>2. Sound(timers') /\ Running(timers') = Running(timers) \ {"SENDMOUDLE"}
    BY <1>1, <2>1, CallbackForgets DEF TimerTypes
  <2> QED
    BY <1>1, <2>1, <2>2 DEF TimersOK
<1>5. ASSUME NEW t \in TimerTypes, timers.slot[i] = t,
             timers' = StopSlot(SetTimer(timers, t), i),
             mainState' = mainState, pc' = pc
      PROVE  TimersOK(timers, mainState, pc)'
  <2>1. Sound(timers') /\ Running(timers') = Running(timers)
    BY <1>1, <1>5, CallbackRestarts
  <2> QED
    BY <1>1, <1>5, <2>1 DEF TimersOK
<1>6. CASE ResendToMoudle(i)
  BY <1>5, <1>6 DEF ResendToMoudle, threadVars, TimerTypes
<1>7. CASE HeartTimeout(i)
  BY <1>5, <1>7 DEF HeartTimeout, threadVars, TimerTypes
<1>8. CASE RegisterTimeout(i)
  BY <1>5, <1>8 DEF RegisterTimeout, threadVars, TimerTypes
<1> QED
  BY <1>2, <1>3, <1>4, <1>6, <1>7, <1>8

(* The messages of the MCU and the WLAN's coming up.                        *)
LEMMA ModuleTimers ==
  ASSUME IndInv, ModuleRegister \/ ModuleData \/ ConfigPara \/ SetNetwork
  PROVE  TimerPart'
<1> USE DEF TimerPart
<1>1. Sound(timers) /\ TimersOK(timers, mainState, pc) /\ mainState \in MainStates
  BY DEF IndInv, TimersOK, TypeOK
<1>2. CASE ModuleRegister
  <2>1. CASE mainState = "INIT"
    <3>1. /\ mainState' = "ACCESS_NET" /\ pc' = pc
          /\ timers' = StopAndForget(timers, "REGISTER")
      BY <1>2, <2>1 DEF ModuleRegister, threadVars, Registered, Receiving
    <3>2. Sound(timers') /\ Running(timers') = Running(timers) \ {"REGISTER"}
      BY <1>1, <3>1, HandleStopped DEF TimerTypes
    <3>3. pc # "connecting"
      BY <2>1 DEF IndInv, SocketPart, PlacePart
    <3> QED
      BY <1>1, <2>1, <3>1, <3>2, <3>3 DEF TimersOK, TimersOfState
  <2>2. CASE mainState # "INIT"
    <3>1. UNCHANGED <<mainState, timers, pc>>
      BY <1>2, <2>2 DEF ModuleRegister, threadVars
    <3> QED
      BY <1>1, <3>1 DEF TimersOK
  <2> QED
    BY <2>1, <2>2
<1>3. CASE ModuleData
  <2>1. CASE mainState = "CONNECT_CLOUD"
    <3>1. /\ mainState' = mainState /\ pc' = pc
          /\ timers' = StopAndForget(timers, "SENDMOUDLE")
      BY <1>3, <2>1 DEF ModuleData, threadVars
    <3>2. Sound(timers') /\ Running(timers') = Running(timers) \ {"SENDMOUDLE"}
      BY <1>1, <3>1, HandleStopped DEF TimerTypes
    <3> QED
      BY <1>1, <3>1, <3>2 DEF TimersOK
  <2>2. CASE mainState # "CONNECT_CLOUD"
    <3>1. UNCHANGED <<mainState, timers, pc>>
      BY <1>3, <2>2 DEF ModuleData, threadVars
    <3> QED
      BY <1>1, <3>1 DEF TimersOK
  <2> QED
    BY <2>1, <2>2
<1>4. CASE ConfigPara
  BY <1>1, <1>4 DEF ConfigPara, threadVars, TimersOK
<1>5. CASE SetNetwork
  <2>1. pc = "setnet" /\ pc' = "recv" /\ mainState' = mainState
    BY <1>5 DEF SetNetwork
  <2>2. Running(timers) = {}
    BY <1>1, <2>1 DEF TimersOK
  <2>3. CASE mainState = "INIT"
    <3>1. timers' = SetTimer(timers, "REGISTER")
      BY <1>5, <2>3 DEF SetNetwork
    <3>2. Sound(timers') /\ Running(timers') = {"REGISTER"}
      BY <1>1, <2>2, <3>1, SetTimerStarts DEF TimerTypes
    <3> QED
      BY <2>1, <2>3, <3>2 DEF TimersOK, TimersOfState
  <2>4. CASE mainState # "INIT"
    BY <1>1, <1>5, <2>1, <2>2, <2>4 DEF SetNetwork, TimersOK
  <2> QED
    BY <2>3, <2>4
<1> QED
  BY <1>2, <1>3, <1>4, <1>5

(* PCT_Run.                                                                 *)
LEMMA RunTimers ==
  ASSUME IndInv, Run
  PROVE  TimerPart'
<1> USE DEF TimerPart
<1>1. Sound(timers) /\ TimersOK(timers, mainState, pc) /\ mainState \in MainStates
  BY DEF IndInv, TimersOK, TypeOK
<1>2. pc = "run" /\ (NothingToRun \/ ConnectCloud \/ SendCloudAccessMsg1
                     \/ RecvAccessMsg2 \/ RecvAccessMsg4
                     \/ HandleEvent \/ HandleOtaEndMsg \/ ResetNetWork)
  BY DEF Run
<1>3. CASE NothingToRun
  BY <1>1, <1>2, <1>3 DEF NothingToRun, TimersOK
<1>4. CASE ConnectCloud
  <2>1. /\ UNCHANGED <<mainState, timers>> /\ pc' \in {"connecting", "tail"}
        /\ ~Valid(timers, "RECONNECT")
    BY <1>4 DEF ConnectCloud
  <2>2. "RECONNECT" \notin Running(timers)
    BY <2>1, ValidIsRunning DEF TimerTypes
  <2> QED
    BY <1>1, <1>2, <2>1, <2>2 DEF TimersOK
<1>5. CASE SendCloudAccessMsg1
  <2> DEFINE stopped == StopAndForget(timers, "RECONNECT")
  <2>1. /\ pc' = "tail" /\ mainState = "WAIT_ACCESS"
        /\ \/ mainState' = "WAIT_ACCESSRSP" /\ timers' = SetTimer(stopped, "REACCESS")
           \/ mainState' = "DISCONNECT_CLOUD" /\ timers' = stopped
    BY <1>5 DEF SendCloudAccessMsg1, DisConnectCloud, DisConnectThenSend
  <2>2. Running(timers) = {}
    BY <1>1, <2>1 DEF TimersOK, TimersOfState
  <2>3. Sound(stopped) /\ Running(stopped) = {}
    BY <1>1, <2>2, HandleStopped DEF TimerTypes
  <2> HIDE DEF stopped
  <2>4. CASE mainState' = "WAIT_ACCESSRSP" /\ timers' = SetTimer(stopped, "REACCESS")
    <3>1. Sound(timers') /\ Running(timers') = {"REACCESS"}
      BY <2>3, <2>4, SetTimerStarts DEF TimerTypes
    <3> QED
      BY <2>1, <2>4, <3>1 DEF TimersOK, TimersOfState
  <2>5. CASE mainState' = "DISCONNECT_CLOUD" /\ timers' = stopped
    BY <2>1, <2>3, <2>5 DEF TimersOK, TimersOfState
  <2> QED
    BY <2>1, <2>4, <2>5
<1>6. CASE RecvAccessMsg2
  <2> DEFINE stopped == StopHandle(timers, "REACCESS")
  <2>1. /\ pc' = "tail" /\ mainState = "WAIT_ACCESSRSP"
        /\ \/ mainState' = "WAIT_MSG4" /\ timers' = SetTimer(stopped, "REACCESS")
           \/ mainState' = "DISCONNECT_CLOUD" /\ timers' \in {timers, stopped}
           \/ mainState' = mainState /\ timers' = timers
    BY <1>6 DEF RecvAccessMsg2, SendCloudAccessMsg3, DisConnectCloud, DisConnectThenSend
  <2>2. Running(timers) = {"REACCESS"}
    BY <1>1, <2>1 DEF TimersOK, TimersOfState
  <2>3. Sound(stopped) /\ Running(stopped) = {}
    BY <1>1, <2>2, AccessHandleStopped
  <2> HIDE DEF stopped
  <2>4. CASE mainState' = "WAIT_MSG4" /\ timers' = SetTimer(stopped, "REACCESS")
    <3>1. Sound(timers') /\ Running(timers') = {"REACCESS"}
      BY <2>3, <2>4, SetTimerStarts DEF TimerTypes
    <3> QED
      BY <2>1, <2>4, <3>1 DEF TimersOK, TimersOfState
  <2>5. CASE mainState' = "DISCONNECT_CLOUD" /\ timers' \in {timers, stopped}
    <3>1. Sound(timers') /\ Running(timers') \in {{"REACCESS"}, {}}
      BY <1>1, <2>2, <2>3, <2>5
    <3> QED
      BY <2>1, <2>5, <3>1 DEF TimersOK, TimersOfState
  <2>6. CASE mainState' = mainState /\ timers' = timers
    BY <1>1, <2>1, <2>6 DEF TimersOK
  <2> QED
    BY <2>1, <2>4, <2>5, <2>6
<1>7. CASE RecvAccessMsg4
  <2> DEFINE stopped == StopHandle(timers, "REACCESS")
  <2>1. /\ pc' = "tail" /\ mainState = "WAIT_MSG4"
        /\ \/ mainState' = "CONNECT_CLOUD" /\ timers' = RestartHeart(stopped)
           \/ /\ mainState' = "DISCONNECT_CLOUD"
              /\ timers' \in {RestartHeart(timers), RestartHeart(stopped)}
           \/ mainState' = mainState /\ timers' = RestartHeart(timers)
    BY <1>7 DEF RecvAccessMsg4, DisConnectCloud, DisConnectThenSend
  <2>2. "REACCESS" \in Running(timers) /\ Running(timers) \subseteq {"REACCESS", "SENDHEART"}
    BY <1>1, <2>1 DEF TimersOK, TimersOfState
  <2>3. Sound(stopped) /\ Running(stopped) = Running(timers) \ {"REACCESS"}
    BY <1>1, <2>2, AccessHandleStopped
  <2> HIDE DEF stopped
  <2>4. /\ Sound(RestartHeart(stopped))
        /\ Running(RestartHeart(stopped)) = {"SENDHEART"}
    BY <2>2, <2>3, TimerRestarts DEF RestartHeart, TimerTypes
  <2>5. /\ Sound(RestartHeart(timers))
        /\ Running(RestartHeart(timers)) = {"REACCESS", "SENDHEART"}
    BY <1>1, <2>2, TimerRestarts DEF RestartHeart, TimerTypes
  <2>6. CASE mainState' = "CONNECT_CLOUD" /\ timers' = RestartHeart(stopped)
    BY <2>1, <2>4, <2>6 DEF TimersOK, TimersOfState
  <2>7. CASE mainState' = mainState /\ timers' = RestartHeart(timers)
    BY <2>1, <2>5, <2>7 DEF TimersOK, TimersOfState
  <2>8. CASE /\ mainState' = "DISCONNECT_CLOUD"
             /\ timers' \in {RestartHeart(timers), RestartHeart(stopped)}
    <3>1. Sound(timers') /\ Running(timers') \subseteq {"REACCESS", "SENDHEART"}
      BY <2>4, <2>5, <2>8
    <3> QED
      BY <2>1, <2>8, <3>1 DEF TimersOK, TimersOfState
  <2> QED
    BY <2>1, <2>6, <2>7, <2>8
<1>8. CASE HandleEvent
  <2> DEFINE sent == SetTimer(timers, "SENDMOUDLE")
  <2>1. /\ pc' = "tail" /\ mainState = "CONNECT_CLOUD" /\ mainState' = mainState
        /\ \/ timers' = timers
           \/ ~Valid(timers, "SENDMOUDLE") /\ timers' = RestartHeart(sent)
    BY <1>8 DEF HandleEvent, RefuseEvent, AcceptEvent, HandleMoudleMsg
  <2>2. CASE timers' = timers
    BY <1>1, <2>1, <2>2 DEF TimersOK
  <2>3. CASE ~Valid(timers, "SENDMOUDLE") /\ timers' = RestartHeart(sent)
    <3>1. "SENDMOUDLE" \notin Running(timers)
      BY <2>3, ValidIsRunning DEF TimerTypes
    <3>2. Sound(sent) /\ Running(sent) = Running(timers) \cup {"SENDMOUDLE"}
      BY <1>1, <3>1, SetTimerStarts DEF TimerTypes
    <3> HIDE DEF sent
    <3>3. /\ Sound(timers')
          /\ Running(timers') = Running(timers) \cup {"SENDMOUDLE", "SENDHEART"}
      BY <2>3, <3>2, TimerRestarts DEF RestartHeart, TimerTypes
    <3> QED
      BY <1>1, <2>1, <3>3 DEF TimersOK, TimersOfState
  <2> QED
    BY <2>1, <2>2, <2>3
<1>9. ASSUME mainState = "CONNECT_CLOUD", mainState' = "DISCONNECT_CLOUD",
             timers' = timers, pc' \in {"tail", "reboot"}
      PROVE  TimersOK(timers, mainState, pc)'
  BY <1>1, <1>9 DEF TimersOK, TimersOfState
<1>10. CASE HandleOtaEndMsg
  BY <1>9, <1>10 DEF HandleOtaEndMsg, DisConnectCloud, DisConnectThenSend
<1>11. CASE ResetNetWork
  BY <1>9, <1>11 DEF ResetNetWork, DisConnectThenSend
<1> QED
  BY <1>2, <1>3, <1>4, <1>5, <1>6, <1>7, <1>8, <1>10, <1>11

(* The rest of the loop.                                                    *)
LEMMA LoopTimers ==
  ASSUME IndInv,
         CloudRecvfunc \/ Connected \/ ConnectFailed \/ LoopTail \/ WifiUp \/ WifiLost
  PROVE  TimerPart'
<1> USE DEF TimerPart
<1>1. Sound(timers) /\ TimersOK(timers, mainState, pc) /\ mainState \in MainStates
  BY DEF IndInv, TimersOK, TypeOK
<1>2. CASE CloudRecvfunc
  <2>1. /\ pc = "recv" /\ pc' = "run" /\ timers' = timers
        /\ \/ mainState' = mainState
           \/ mainState \in Receiving /\ mainState' = "DISCONNECT_CLOUD"
    BY <1>2 DEF CloudRecvfunc, RecvDataFromCloud, DisConnectCloud, DisConnectThenSend
  <2> QED
    BY <1>1, <2>1 DEF TimersOK, TimersOfState, Receiving
<1>3. CASE Connected
  <2>1. pc = "connecting" /\ pc' = "tail" /\ timers' = timers /\ mainState' = "WAIT_ACCESS"
    BY <1>3 DEF Connected
  <2>2. mainState = "ACCESS_NET"
    BY <2>1 DEF IndInv, SocketPart, PlacePart
  <2>3. Running(timers) = {}
    BY <1>1, <2>1, <2>2 DEF TimersOK, TimersOfState
  <2> QED
    BY <1>1, <2>1, <2>3 DEF TimersOK, TimersOfState
<1>4. CASE ConnectFailed
  BY <1>1, <1>4 DEF ConnectFailed, TimersOK
<1>5. CASE LoopTail
  <2>1. pc = "tail" /\ pc' = "wifi" /\ (CloseAndReconnect \/ SendDataToCloud)
    BY <1>5 DEF LoopTail
  <2>2. CASE CloseAndReconnect
    <3> DEFINE types   == {"RECONNECT", "SENDMOUDLE", "SENDHEART"}
               stopped == StopAll(timers, types)
    <3>1. mainState = "DISCONNECT_CLOUD"
      BY <2>2 DEF CloseAndReconnect
    <3>2. "REGISTER" \notin Running(timers) /\ "RECONNECT" \notin Running(timers)
      BY <1>1, <3>1 DEF TimersOK, TimersOfState
    <3>3. ~Valid(timers, "REGISTER") /\ ~Valid(timers, "RECONNECT")
      BY <3>2, ValidIsRunning DEF TimerTypes
    <3>4. timers' = SetTimer(stopped, "RECONNECT") /\ mainState' = "INIT"
      BY <2>2, <3>3 DEF CloseAndReconnect
    <3>5. Sound(stopped) /\ Running(stopped) = {}
      <4>1. types \in SUBSET TimerTypes
        BY DEF TimerTypes
      <4>2. \A t \in TimerTypes \ {"REACCESS"} : t \in types \/ ~Valid(timers, t)
        BY <3>3 DEF TimerTypes
      <4> QED
        BY <1>1, <4>1, <4>2, AllStopped
    <3> HIDE DEF stopped
    <3>6. Sound(timers') /\ Running(timers') = {"RECONNECT"}
      BY <3>4, <3>5, SetTimerStarts DEF TimerTypes
    <3> QED
      BY <2>1, <3>4, <3>6 DEF TimersOK, TimersOfState
  <2>3. CASE SendDataToCloud
    BY <1>1, <2>1, <2>3 DEF SendDataToCloud, TimersOK
  <2> QED
    BY <2>1, <2>2, <2>3
<1>6. CASE WifiUp
  BY <1>1, <1>6 DEF WifiUp, TimersOK
<1>7. CASE WifiLost
  <2> DEFINE types == {"RECONNECT", "SENDMOUDLE", "SENDHEART", "REGISTER"}
  <2>1. pc' = "setnet" /\ mainState' = "INIT" /\ timers' = StopAll(timers, types)
    BY <1>7 DEF WifiLost
  <2>2. types \in SUBSET TimerTypes /\ TimerTypes \ {"REACCESS"} \subseteq types
    BY DEF TimerTypes
  <2>3. Sound(timers') /\ Running(timers') = {}
    BY <1>1, <2>1, <2>2, AllStopped
  <2> QED
    BY <2>1, <2>3 DEF TimersOK, TimersOfState
<1> QED
  BY <1>2, <1>3, <1>4, <1>5, <1>6, <1>7

LEMMA TimerPartStep ==
  ASSUME IndInv, Next PROVE TimerPart'
BY NextCases, CallbackTimers, ModuleTimers, PowerOnTimers, RunTimers, LoopTimers

-----------------------------------------------------------------------------
(* What the actions have in common apart from the timers.                   *)

(* The receive and send queues after a disconnection.                       *)
LEMMA DisConnectEffect ==
  ASSUME DisConnectCloud
  PROVE  /\ mainState' = "DISCONNECT_CLOUD" /\ keyRecv' = "UNRECVED"
         /\ mcuView' = "CLOUD_DISCONNECTED"
         /\ recvBuf' = EmptyBuffer /\ recvQ' = 0 /\ sendQ' = <<>>
BY DEF DisConnectCloud, DisConnectThenSend

(* MSG_RecvData fills the one receive buffer at most once.                  *)
LEMMA RecvEffect ==
  ASSUME IndInv, pc = "recv", RecvDataFromCloud
  PROVE  /\ UNCHANGED <<mainState, keyRecv, sendQ, mcuView>>
         /\ recvBuf' \in [status : {"IDLE", "SEGMENT_NOHEAD", "SEGMENT_HEAD", "FULL"},
                          msg : CloudMsgs \cup {NoMsg}]
         /\ \/ recvQ' = 0
            \/ recvQ' = 1 /\ recvBuf'.status = "FULL" /\ recvBuf'.msg \in CloudMsgs
<1>1. recvQ = 0 /\ MSG_QUEUE_MAXLEN \in Nat \ {0}
  BY ConstantsAssumption
  DEF IndInv, SessionPart, ReceivedIsHandled, TypeOK
<1>2. UNCHANGED <<mainState, keyRecv, sendQ, mcuView>>
  BY DEF RecvDataFromCloud
<1>3. CASE RecvSegment
  BY <1>1, <1>2, <1>3 DEF RecvSegment
<1>4. CASE RecvTooLong
  BY <1>1, <1>2, <1>4 DEF RecvTooLong, EmptyBuffer
<1>5. ASSUME NEW m \in CloudMsgs, RecvMessage(m)
      PROVE  /\ recvBuf' \in [status : {"FULL"}, msg : CloudMsgs \cup {NoMsg}]
             /\ \/ recvQ' = 0
                \/ recvQ' = 1 /\ recvBuf'.status = "FULL" /\ recvBuf'.msg \in CloudMsgs
  <2>1. PICK ok \in DecryptResults(m.sec) :
          /\ recvBuf' = [status |-> "FULL", msg |-> IF ok THEN m ELSE NoMsg]
          /\ recvQ' = IF ok /\ recvQ < MSG_QUEUE_MAXLEN THEN recvQ + 1 ELSE recvQ
    BY <1>5 DEF RecvMessage
  <2> QED
    BY <1>1, <2>1
<1> QED
  BY <1>2, <1>3, <1>4, <1>5 DEF RecvDataFromCloud

(* The end of a handler of a received message.                              *)
LEMMA PopEffect ==
  ASSUME IndInv, PopRecvBuffer, recvQ > 0
  PROVE  recvQ' = 0 /\ recvBuf' = EmptyBuffer
BY DEF IndInv, SessionPart, ReceivedIsHandled, TypeOK, PopRecvBuffer

-----------------------------------------------------------------------------
(* The type invariant is preserved.                                         *)
LEMMA TypeOKStep ==
  ASSUME IndInv, Next PROVE TypeOK'
<1>1. /\ TypeOK /\ timers' \in TimerTables
      /\ EmptyBuffer \in [status : {"IDLE", "SEGMENT_NOHEAD", "SEGMENT_HEAD", "FULL"},
                          msg : CloudMsgs \cup {NoMsg}]
      /\ MSG_QUEUE_MAXLEN \in Nat \ {0} /\ MSG_BUFFER_SEND_MAX_NUM \in Nat \ {0}
      /\ PCT_SENDMOUDLE_NUM \in Nat /\ 1 \in SecSwitches
  BY TimerPartStep, ConstantsAssumption
  DEF IndInv, TimerPart, TimersOK, Sound, EmptyBuffer
<1> USE <1>1 DEF socketVars, threadVars, messageVars
<1>2. ASSUME NEW i \in Slots, \/ ReconnectTimeout(i) \/ AccessTimeout(i)
                              \/ ResendToMoudle(i) \/ RegisterTimeout(i)
      PROVE  TypeOK'
  <2>1. CASE ReconnectTimeout(i)
    BY <2>1 DEF ReconnectTimeout, TypeOK, MainStates
  <2>2. CASE AccessTimeout(i)
    BY <2>2, DisConnectEffect DEF AccessTimeout, TypeOK, MainStates
  <2>3. CASE ResendToMoudle(i)
    BY <2>3 DEF ResendToMoudle, TypeOK
  <2>4. CASE RegisterTimeout(i)
    BY <2>4 DEF RegisterTimeout, TypeOK
  <2> QED
    BY <1>2, <2>1, <2>2, <2>3, <2>4
<1>3. ASSUME NEW i \in Slots, GiveUpMoudle(i) \/ HeartTimeout(i)
      PROVE  TypeOK'
  <2>1. \E kind \in {"ERR", "HEART"} : sendQ' = Send(sendQ, kind, keyRecv, secSwitch)
    BY <1>3 DEF GiveUpMoudle, HeartTimeout
  <2>2. sendQ' \in Seq(SendKinds) /\ Len(sendQ') <= MSG_BUFFER_SEND_MAX_NUM
    BY <2>1, SendType DEF TypeOK, SendKinds
  <2> QED
    BY <1>3, <2>2 DEF GiveUpMoudle, HeartTimeout, TypeOK
<1>4. CASE ModuleRegister \/ ConfigPara \/ SetNetwork
  BY <1>4 DEF ModuleRegister, ConfigPara, SetNetwork, TypeOK, MainStates
<1>5. CASE ModuleData
  <2>1. sendQ' = sendQ \/ sendQ' = Send(sendQ, "DATA", keyRecv, secSwitch)
    BY <1>5 DEF ModuleData
  <2>2. sendQ' \in Seq(SendKinds) /\ Len(sendQ') <= MSG_BUFFER_SEND_MAX_NUM
    BY <2>1, SendType DEF TypeOK, SendKinds
  <2> QED
    BY <1>5, <2>2 DEF ModuleData, TypeOK
<1>6. CASE PowerOn
  BY <1>6 DEF PowerOn, MSG_Init, TypeOK, MainStates
<1>7. CASE CloudRecvfunc
  <2>1. CASE UNCHANGED <<mainState, keyRecv, messageVars, mcuView>>
    BY <1>7, <2>1 DEF CloudRecvfunc, TypeOK
  <2>2. CASE RecvDataFromCloud
    BY <1>7, <2>2, RecvEffect DEF CloudRecvfunc, TypeOK
  <2>3. CASE DisConnectCloud
    BY <1>7, <2>3 DEF CloudRecvfunc, TypeOK, MainStates, DisConnectCloud,
                      DisConnectThenSend
  <2> QED
    BY <1>7, <2>1, <2>2, <2>3 DEF CloudRecvfunc
<1>8. CASE Run
  <2>1. CASE NothingToRun
    BY <2>1 DEF NothingToRun, TypeOK
  <2>2. CASE ConnectCloud
    BY <2>2 DEF ConnectCloud, TypeOK
  <2>3. CASE SendCloudAccessMsg1
    <3>1. /\ UNCHANGED <<secSwitch, socketVars, fd, reSendNum>> /\ pc' = "tail"
          /\ \/ /\ mainState' = "WAIT_ACCESSRSP"
                /\ Len(sendQ) < MSG_BUFFER_SEND_MAX_NUM /\ sendQ' = Append(sendQ, "MSG1")
                /\ UNCHANGED <<keyRecv, recvBuf, recvQ, mcuView>>
             \/ DisConnectCloud
      BY <2>3 DEF SendCloudAccessMsg1
    <3>2. CASE Len(sendQ) < MSG_BUFFER_SEND_MAX_NUM /\ sendQ' = Append(sendQ, "MSG1")
      <4>1. sendQ' \in Seq(SendKinds) /\ Len(sendQ') <= MSG_BUFFER_SEND_MAX_NUM
        BY <3>2 DEF TypeOK, SendKinds
      <4>2. CASE UNCHANGED <<keyRecv, recvBuf, recvQ, mcuView>> /\ mainState' = "WAIT_ACCESSRSP"
        BY <3>1, <4>1, <4>2 DEF TypeOK, MainStates
      <4>3. CASE DisConnectCloud
        BY <3>1, <4>3, DisConnectEffect DEF TypeOK, MainStates
      <4> QED
        BY <3>1, <4>2, <4>3
    <3>3. CASE DisConnectCloud
      BY <3>1, <3>3, DisConnectEffect DEF TypeOK, MainStates
    <3> QED
      BY <3>1, <3>2, <3>3
  <2>4. CASE RecvAccessMsg2
    <3>1. /\ UNCHANGED <<secSwitch, socketVars, fd, reSendNum>> /\ pc' = "tail"
          /\ recvQ > 0
          /\ \/ SendCloudAccessMsg3
             \/ DisConnectCloud
             \/ PopRecvBuffer /\ UNCHANGED <<mainState, keyRecv, timers, sendQ, mcuView>>
      BY <2>4 DEF RecvAccessMsg2
    <3>2. CASE SendCloudAccessMsg3
      <4>1. /\ mainState' = "WAIT_MSG4" /\ keyRecv' = "RECVED" /\ PopRecvBuffer
            /\ UNCHANGED mcuView
            /\ sendQ' = Send(sendQ, "MSG3", "RECVED", secSwitch)
        BY <3>2 DEF SendCloudAccessMsg3
      <4>2. sendQ' \in Seq(SendKinds) /\ Len(sendQ') <= MSG_BUFFER_SEND_MAX_NUM
        BY <4>1, SendType DEF TypeOK, SendKinds
      <4> QED
        BY <3>1, <4>1, <4>2, PopEffect DEF TypeOK, MainStates
    <3>3. CASE DisConnectCloud
      BY <3>1, <3>3, DisConnectEffect DEF TypeOK, MainStates
    <3>4. CASE PopRecvBuffer /\ UNCHANGED <<mainState, keyRecv, timers, sendQ, mcuView>>
      BY <3>1, <3>4, PopEffect DEF TypeOK
    <3> QED
      BY <3>1, <3>2, <3>3, <3>4
  <2>5. CASE RecvAccessMsg4
    <3>1. /\ UNCHANGED <<secSwitch, socketVars, fd, reSendNum>> /\ pc' = "tail"
          /\ recvQ > 0
          /\ \/ /\ mainState' \in {"CONNECT_CLOUD", mainState}
                /\ mcuView' \in {"CLOUD_CONNECTED", mcuView}
                /\ PopRecvBuffer /\ UNCHANGED <<keyRecv, sendQ>>
             \/ DisConnectCloud
      BY <2>5 DEF RecvAccessMsg4
    <3>2. CASE /\ mainState' \in {"CONNECT_CLOUD", mainState}
               /\ mcuView' \in {"CLOUD_CONNECTED", mcuView}
               /\ PopRecvBuffer /\ UNCHANGED <<keyRecv, sendQ>>
      BY <3>1, <3>2, PopEffect DEF TypeOK, MainStates
    <3>3. CASE DisConnectCloud
      BY <3>1, <3>3, DisConnectEffect DEF TypeOK, MainStates
    <3> QED
      BY <3>1, <3>2, <3>3
  <2>6. CASE HandleEvent
    <3>1. \/ sendQ' = sendQ
          \/ \E kind \in {"ACK", "ERR", "EMPTY"} :
               sendQ' = Send(sendQ, kind, keyRecv, secSwitch)
          \/ \E kind \in {"ACK", "ERR"} :
               sendQ' = SendBoth(sendQ, "EMPTY", kind, keyRecv, secSwitch)
      BY <2>6 DEF HandleEvent, RefuseEvent, AcceptEvent, Reply, ReplyBoth
    <3>2. sendQ' \in Seq(SendKinds) /\ Len(sendQ') <= MSG_BUFFER_SEND_MAX_NUM
      <4>1. sendQ \in Seq(SendKinds) /\ Len(sendQ) <= MSG_BUFFER_SEND_MAX_NUM
        BY DEF TypeOK
      <4>2. {"ACK", "ERR", "EMPTY"} \subseteq SendKinds
        BY DEF SendKinds
      <4>3. CASE \E kind \in {"ACK", "ERR", "EMPTY"} :
                   sendQ' = Send(sendQ, kind, keyRecv, secSwitch)
        BY <4>1, <4>2, <4>3, SendType
      <4>4. CASE \E kind \in {"ACK", "ERR"} :
                   sendQ' = SendBoth(sendQ, "EMPTY", kind, keyRecv, secSwitch)
        BY <4>1, <4>2, <4>4, SendBothType
      <4> QED
        BY <3>1, <4>1, <4>3, <4>4
    <3>3. reSendNum' \in {reSendNum, 0}
      BY <2>6 DEF HandleEvent, RefuseEvent, AcceptEvent, HandleMoudleMsg
    <3>4. /\ recvQ > 0 /\ PopRecvBuffer /\ pc' = "tail"
          /\ UNCHANGED <<mainState, keyRecv, secSwitch, socketVars, fd, mcuView>>
      BY <2>6 DEF HandleEvent
    <3>5. reSendNum' \in 0 .. PCT_SENDMOUDLE_NUM
      BY <3>3 DEF TypeOK
    <3>6. recvQ' = 0 /\ recvBuf' = EmptyBuffer
      BY <3>4, PopEffect
    <3> QED
      BY <3>2, <3>4, <3>5, <3>6 DEF TypeOK
  <2>7. CASE HandleOtaEndMsg
    BY <2>7, DisConnectEffect DEF HandleOtaEndMsg, TypeOK, MainStates
  <2>8. CASE ResetNetWork
    <3>1. sendQ' = SendBoth(<<>>, "EMPTY", "ACK", "UNRECVED", 1)
      BY <2>8 DEF ResetNetWork, DisConnectThenSend
    <3>2. <<>> \in Seq(SendKinds) /\ Len(<<>>) <= MSG_BUFFER_SEND_MAX_NUM
      OBVIOUS
    <3>3. sendQ' \in Seq(SendKinds) /\ Len(sendQ') <= MSG_BUFFER_SEND_MAX_NUM
      BY <3>1, <3>2, SendBothType DEF SendKinds
    <3>4. /\ mainState' = "DISCONNECT_CLOUD" /\ keyRecv' = "UNRECVED"
          /\ mcuView' = "CLOUD_DISCONNECTED" /\ recvBuf' = EmptyBuffer /\ recvQ' = 0
          /\ pc' = "tail" /\ secSwitch' = 1 /\ UNCHANGED <<socketVars, fd, reSendNum>>
      BY <2>8 DEF ResetNetWork, DisConnectThenSend
    <3> QED
      BY <3>3, <3>4 DEF TypeOK, MainStates
  <2> QED
    BY <1>8, <2>1, <2>2, <2>3, <2>4, <2>5, <2>6, <2>7, <2>8 DEF Run
<1>9. CASE Connected \/ ConnectFailed
  BY <1>9 DEF Connected, ConnectFailed, TypeOK, MainStates
<1>10. CASE LoopTail
  <2>1. CASE CloseAndReconnect
    <3>1. /\ openFds' = openFds \ {fd} /\ pc' = "wifi"
          /\ UNCHANGED <<secSwitch, connFd, fd, reSendNum, mcuView>>
          /\ \/ UNCHANGED <<mainState, keyRecv, u32Socket, messageVars>>
             \/ /\ mainState' = "INIT" /\ keyRecv' = "UNRECVED"
                /\ u32Socket' = PCT_INVAILD_SOCKET /\ MSG_Init
      BY <1>10, <2>1 DEF LoopTail, CloseAndReconnect
    <3>2. CASE UNCHANGED <<mainState, keyRecv, u32Socket, messageVars>>
      BY <3>1, <3>2 DEF TypeOK
    <3>3. CASE /\ mainState' = "INIT" /\ keyRecv' = "UNRECVED"
               /\ u32Socket' = PCT_INVAILD_SOCKET /\ MSG_Init
      BY <3>1, <3>3 DEF TypeOK, MSG_Init, MainStates
    <3> QED
      BY <3>1, <3>2, <3>3
  <2>2. CASE SendDataToCloud
    <3>1. sendQ' \in Seq(SendKinds) /\ Len(sendQ') <= MSG_BUFFER_SEND_MAX_NUM
      BY <2>2 DEF SendDataToCloud, TypeOK
    <3> QED
      BY <1>10, <2>2, <3>1 DEF LoopTail, SendDataToCloud, TypeOK
  <2> QED
    BY <1>10, <2>1, <2>2 DEF LoopTail
<1>11. CASE WifiUp
  BY <1>11 DEF WifiUp, TypeOK
<1>12. CASE WifiLost
  BY <1>12 DEF WifiLost, MSG_Init, TypeOK, MainStates
<1> QED
  BY NextCases, <1>2, <1>3, <1>4, <1>5, <1>6, <1>7, <1>8, <1>9, <1>10, <1>11,
     <1>12

-----------------------------------------------------------------------------
(* Key, queues and receive buffer.                                          *)

(* A message sent in a state with a key leaves the session part alone: only *)
(* WAIT_ACCESSRSP and the states before it restrict the send queue.         *)
LEMMA SessionUnchanged ==
  ASSUME IndInv, UNCHANGED <<mainState, keyRecv, recvBuf, recvQ>>,
         recvQ > 0 => pc' = pc,
         sendQ' = sendQ \/ mainState \notin {"INIT", "ACCESS_NET", "WAIT_ACCESS",
                                             "WAIT_ACCESSRSP"}
  PROVE  SessionPart'
BY DEF IndInv, SessionPart, KeyFollowsState, SessionsAreSeparate, ReceivedIsHandled

(* A disconnection, and a return to INIT, end the session.                  *)
LEMMA SessionEnded ==
  ASSUME keyRecv' = "UNRECVED", recvBuf' = EmptyBuffer, recvQ' = 0,
         \/ mainState' = "DISCONNECT_CLOUD"
         \/ mainState' = "INIT" /\ sendQ' = <<>>
  PROVE  SessionPart'
BY DEF SessionPart, KeyFollowsState, SessionsAreSeparate, ReceivedIsHandled

LEMMA SessionPartStep ==
  ASSUME IndInv, Next PROVE SessionPart'
<1>1. /\ TimersOK(timers, mainState, pc) /\ mainState \in MainStates
      /\ SessionPart
      /\ \A i \in Slots : timers.slot[i] \in TimerTypes =>
                            timers.slot[i] \in Running(timers)
  BY DEF IndInv, TimerPart, TypeOK, Running
<1> USE DEF threadVars, messageVars
<1>2. ASSUME NEW i \in Slots, ReconnectTimeout(i)
      PROVE  SessionPart'
  <2>1. timers.slot[i] = "RECONNECT" /\ mainState' = "ACCESS_NET"
        /\ UNCHANGED <<keyRecv, recvBuf, recvQ, sendQ, pc>>
    BY <1>2 DEF ReconnectTimeout
  <2>2. mainState \in {"INIT", "ACCESS_NET"}
    BY <1>1, <2>1 DEF TimersOK, TimersOfState, MainStates, TimerTypes
  <2> QED
    BY <1>1, <2>1, <2>2
    DEF SessionPart, KeyFollowsState, SessionsAreSeparate, ReceivedIsHandled
<1>3. ASSUME NEW i \in Slots, AccessTimeout(i)
      PROVE  SessionPart'
  BY <1>3, DisConnectEffect, SessionEnded DEF AccessTimeout
<1>4. ASSUME NEW i \in Slots, ResendToMoudle(i) \/ RegisterTimeout(i)
      PROVE  SessionPart'
  BY <1>4, SessionUnchanged DEF ResendToMoudle, RegisterTimeout
<1>5. ASSUME NEW i \in Slots, GiveUpMoudle(i) \/ HeartTimeout(i)
      PROVE  SessionPart'
  <2>1. timers.slot[i] \in {"SENDMOUDLE", "SENDHEART"}
        /\ UNCHANGED <<mainState, keyRecv, recvBuf, recvQ, pc>>
    BY <1>5 DEF GiveUpMoudle, HeartTimeout
  <2>2. mainState \notin {"INIT", "ACCESS_NET", "WAIT_ACCESS", "WAIT_ACCESSRSP"}
    BY <1>1, <2>1 DEF TimersOK, TimersOfState, MainStates, TimerTypes
  <2> QED
    BY <2>1, <2>2, SessionUnchanged
<1>6. CASE ModuleRegister
  BY <1>1, <1>6
  DEF ModuleRegister, SessionPart, KeyFollowsState, SessionsAreSeparate,
      ReceivedIsHandled, Receiving
<1>7. CASE ModuleData
  BY <1>7, SessionUnchanged DEF ModuleData
<1>8. CASE ConfigPara
  BY <1>8, SessionUnchanged DEF ConfigPara
<1>9. CASE PowerOn
  BY <1>9, SessionEnded DEF PowerOn, MSG_Init
<1>10. CASE SetNetwork
  BY <1>1, <1>10, SessionUnchanged DEF SetNetwork, SessionPart, ReceivedIsHandled
<1>11. CASE CloudRecvfunc
  <2>1. pc = "recv" /\ pc' = "run"
    BY <1>11 DEF CloudRecvfunc
  <2>2. CASE UNCHANGED <<mainState, keyRecv, messageVars, mcuView>>
    BY <1>1, <2>1, <2>2, SessionUnchanged DEF SessionPart, ReceivedIsHandled
  <2>3. CASE mainState \in Receiving /\ RecvDataFromCloud
    BY <1>1, <2>1, <2>3, RecvEffect
    DEF SessionPart, KeyFollowsState, SessionsAreSeparate, ReceivedIsHandled, Receiving
  <2>4. CASE DisConnectCloud
    BY <2>4, DisConnectEffect, SessionEnded
  <2> QED
    BY <1>11, <2>2, <2>3, <2>4 DEF CloudRecvfunc
<1>12. CASE Run
  <2>1. CASE NothingToRun
    <3>1. recvQ = 0
      <4>1. ~(recvQ > 0) => recvQ = 0
        BY ConstantsAssumption DEF IndInv, TypeOK
      <4>2. recvQ = 0 \/ mainState \notin Receiving
        BY <2>1 DEF NothingToRun, Receiving
      <4> QED
        BY <1>1, <4>1, <4>2 DEF SessionPart, ReceivedIsHandled
    <3> QED
      BY <2>1, <3>1, SessionUnchanged DEF NothingToRun
  <2>2. CASE ConnectCloud
    <3>1. recvQ = 0 /\ UNCHANGED <<mainState, keyRecv, recvBuf, recvQ, sendQ>>
      BY <1>1, <2>2 DEF ConnectCloud, SessionPart, SessionsAreSeparate
    <3> QED
      BY <3>1, SessionUnchanged
  <2>3. CASE SendCloudAccessMsg1
    <3>1. /\ mainState = "WAIT_ACCESS"
          /\ \/ /\ mainState' = "WAIT_ACCESSRSP" /\ sendQ' = Append(sendQ, "MSG1")
                /\ UNCHANGED <<keyRecv, recvBuf, recvQ>>
             \/ DisConnectCloud
      BY <2>3 DEF SendCloudAccessMsg1
    <3>2. sendQ = <<>> /\ recvQ = 0 /\ keyRecv # "RECVED"
      BY <1>1, <3>1 DEF SessionPart, SessionsAreSeparate, KeyFollowsState
    <3>3. CASE /\ mainState' = "WAIT_ACCESSRSP" /\ sendQ' = Append(sendQ, "MSG1")
               /\ UNCHANGED <<keyRecv, recvBuf, recvQ>>
      <4>1. sendQ' = <<"MSG1">>
        BY <3>2, <3>3
      <4> QED
        BY <3>2, <3>3, <4>1
        DEF SessionPart, KeyFollowsState, SessionsAreSeparate, ReceivedIsHandled
    <3>4. CASE DisConnectCloud
      BY <3>4, DisConnectEffect, SessionEnded
    <3> QED
      BY <3>1, <3>3, <3>4
  <2>4. CASE RecvAccessMsg2
    <3>1. /\ mainState = "WAIT_ACCESSRSP" /\ recvQ > 0
          /\ \/ /\ mainState' = "WAIT_MSG4" /\ keyRecv' = "RECVED" /\ PopRecvBuffer
             \/ DisConnectCloud
             \/ PopRecvBuffer /\ UNCHANGED <<mainState, keyRecv, sendQ>>
      BY <2>4 DEF RecvAccessMsg2, SendCloudAccessMsg3
    <3>2. CASE DisConnectCloud
      BY <3>2, DisConnectEffect, SessionEnded
    <3>3. CASE mainState' = "WAIT_MSG4" /\ keyRecv' = "RECVED" /\ PopRecvBuffer
      BY <3>1, <3>3, PopEffect
      DEF SessionPart, KeyFollowsState, SessionsAreSeparate, ReceivedIsHandled
    <3>4. CASE PopRecvBuffer /\ UNCHANGED <<mainState, keyRecv, sendQ>>
      BY <1>1, <3>1, <3>4, PopEffect
      DEF SessionPart, KeyFollowsState, SessionsAreSeparate, ReceivedIsHandled
    <3> QED
      BY <3>1, <3>2, <3>3, <3>4
  <2>5. CASE RecvAccessMsg4
    <3>1. /\ mainState = "WAIT_MSG4" /\ recvQ > 0
          /\ \/ DisConnectCloud
             \/ /\ mainState' \in {"WAIT_MSG4", "CONNECT_CLOUD"}
                /\ PopRecvBuffer /\ UNCHANGED <<keyRecv, sendQ>>
      BY <2>5 DEF RecvAccessMsg4
    <3>2. CASE DisConnectCloud
      BY <3>2, DisConnectEffect, SessionEnded
    <3>3. CASE /\ mainState' \in {"WAIT_MSG4", "CONNECT_CLOUD"}
               /\ PopRecvBuffer /\ UNCHANGED <<keyRecv, sendQ>>
      BY <1>1, <3>1, <3>3, PopEffect
      DEF SessionPart, KeyFollowsState, SessionsAreSeparate, ReceivedIsHandled
    <3> QED
      BY <3>1, <3>2, <3>3
  <2>6. CASE HandleEvent
    <3>1. /\ mainState = "CONNECT_CLOUD" /\ recvQ > 0 /\ PopRecvBuffer
          /\ UNCHANGED <<mainState, keyRecv>>
      BY <2>6 DEF HandleEvent
    <3> QED
      BY <1>1, <3>1, PopEffect
      DEF SessionPart, KeyFollowsState, SessionsAreSeparate, ReceivedIsHandled
  <2>7. CASE HandleOtaEndMsg
    BY <2>7, DisConnectEffect, SessionEnded DEF HandleOtaEndMsg
  <2>8. CASE ResetNetWork
    BY <2>8, SessionEnded DEF ResetNetWork, DisConnectThenSend
  <2> QED
    BY <1>12, <2>1, <2>2, <2>3, <2>4, <2>5, <2>6, <2>7, <2>8 DEF Run
<1>13. CASE Connected
  <2>1. /\ pc = "connecting" /\ mainState' = "WAIT_ACCESS" /\ keyRecv' = "UNRECVED"
        /\ UNCHANGED <<recvBuf, recvQ, sendQ>>
    BY <1>13 DEF Connected
  <2>2. mainState = "ACCESS_NET"
    BY <2>1 DEF IndInv, SocketPart, PlacePart
  <2> QED
    BY <1>1, <2>1, <2>2
    DEF SessionPart, KeyFollowsState, SessionsAreSeparate, ReceivedIsHandled
<1>14. CASE ConnectFailed
  BY <1>1, <1>14, SessionUnchanged DEF ConnectFailed, SessionPart, ReceivedIsHandled
<1>15. CASE LoopTail
  <2>1. pc = "tail" /\ (CloseAndReconnect \/ SendDataToCloud)
    BY <1>15 DEF LoopTail
  <2>2. recvQ > 0 => pc' = pc
    BY <1>1, <2>1 DEF SessionPart, ReceivedIsHandled
  <2>3. CASE CloseAndReconnect
    BY <2>2, <2>3, SessionUnchanged, SessionEnded DEF CloseAndReconnect, MSG_Init
  <2>4. CASE SendDataToCloud
    <3>1. /\ sendQ' = sendQ \/ (sendQ # <<>> /\ sendQ' = Tail(sendQ))
          /\ UNCHANGED <<mainState, keyRecv, recvBuf, recvQ>>
      BY <2>4 DEF SendDataToCloud
    <3>2. CASE sendQ' = sendQ
      BY <2>2, <2>4, <3>2, SessionUnchanged DEF SendDataToCloud
    <3>3. CASE mainState = "WAIT_ACCESSRSP" /\ sendQ # <<>>
      <4>1. sendQ = <<"MSG1">>
        BY <1>1, <3>3 DEF SessionPart, SessionsAreSeparate
      <4>2. sendQ' = <<>>
        BY <2>4, <3>3, <4>1 DEF SendDataToCloud
      <4> QED
        BY <1>1, <2>1, <2>4, <3>3, <4>2
        DEF SendDataToCloud, SessionPart, KeyFollowsState, SessionsAreSeparate,
            ReceivedIsHandled
    <3>4. CASE mainState \in {"INIT", "ACCESS_NET", "WAIT_ACCESS"}
      <4>1. sendQ = <<>>
        BY <1>1, <3>4 DEF SessionPart, SessionsAreSeparate
      <4> QED
        BY <3>2, <2>4, <4>1 DEF SendDataToCloud
    <3>5. CASE mainState \notin {"INIT", "ACCESS_NET", "WAIT_ACCESS", "WAIT_ACCESSRSP"}
      BY <2>2, <2>4, <3>5, SessionUnchanged DEF SendDataToCloud
    <3> QED
      BY <2>4, <3>2, <3>3, <3>4, <3>5 DEF SendDataToCloud
  <2> QED
    BY <2>1, <2>3, <2>4
<1>16. CASE WifiUp
  BY <1>1, <1>16, SessionUnchanged DEF WifiUp, SessionPart, ReceivedIsHandled
<1>17. CASE WifiLost
  BY <1>17, SessionEnded DEF WifiLost, MSG_Init
<1> QED
  BY NextCases, <1>2, <1>3, <1>4, <1>5, <1>6, <1>7, <1>8, <1>9, <1>10, <1>11,
     <1>12, <1>13, <1>14, <1>15, <1>16, <1>17

-----------------------------------------------------------------------------
(* Sockets and the loop.                                                    *)

(* Steps that touch no socket and move between states on the same side of   *)
(* the connection.                                                          *)
LEMMA SocketsUnchanged ==
  ASSUME IndInv, UNCHANGED <<u32Socket, openFds, connFd, fd, pc>>,
         \/ mainState' = mainState
         \/ pc # "connecting" /\ mainState' \in {"INIT", "ACCESS_NET"}
            /\ mainState \in {"INIT", "ACCESS_NET"}
         \/ mainState' = "DISCONNECT_CLOUD"
            /\ mainState \notin {"INIT", "ACCESS_NET", "WAIT_ACCESS"}
  PROVE  SocketPart'
BY DEF IndInv, SocketPart, SocketsAreOwned, PlacePart

(* Steps of PCT_Run but those that connect: the remembered descriptor is    *)
(* the connection's.                                                        *)
LEMMA RunSockets ==
  ASSUME IndInv, pc = "run", pc' \in {"tail", "reboot"},
         UNCHANGED <<u32Socket, openFds, connFd, fd>>,
         mainState \in {"INIT", "ACCESS_NET"} <=> mainState' \in {"INIT", "ACCESS_NET"}
  PROVE  SocketPart'
<1>1. fd = u32Socket /\ connFd = PCT_INVAILD_SOCKET
  BY DEF IndInv, SocketPart, PlacePart
<1> QED
  BY <1>1 DEF IndInv, SocketPart, SocketsAreOwned, PlacePart

LEMMA SocketPartStep ==
  ASSUME IndInv, Next PROVE SocketPart'
<1>1. /\ TimersOK(timers, mainState, pc) /\ mainState \in MainStates
      /\ SocketPart /\ PCT_INVAILD_SOCKET \notin Fds
      /\ \A i \in Slots : timers.slot[i] \in TimerTypes =>
                            timers.slot[i] \in Running(timers)
  BY ConstantsAssumption DEF IndInv, TimerPart, TypeOK, Running
<1> USE DEF threadVars, socketVars
<1>2. ASSUME NEW i \in Slots, ReconnectTimeout(i)
      PROVE  SocketPart'
  <2>1. /\ timers.slot[i] = "RECONNECT" /\ mainState' = "ACCESS_NET"
        /\ UNCHANGED <<u32Socket, openFds, connFd, fd, pc>>
    BY <1>2 DEF ReconnectTimeout
  <2>2. mainState \in {"INIT", "ACCESS_NET"} /\ pc # "connecting"
    BY <1>1, <2>1 DEF TimersOK, TimersOfState, MainStates, TimerTypes
  <2> QED
    BY <2>1, <2>2, SocketsUnchanged
<1>3. ASSUME NEW i \in Slots, AccessTimeout(i)
      PROVE  SocketPart'
  <2>1. /\ timers.slot[i] = "REACCESS" /\ mainState' = "DISCONNECT_CLOUD"
        /\ UNCHANGED <<u32Socket, openFds, connFd, fd, pc>>
    BY <1>3, DisConnectEffect DEF AccessTimeout
  <2>2. mainState \notin {"INIT", "ACCESS_NET", "WAIT_ACCESS"}
    BY <1>1, <2>1 DEF TimersOK, TimersOfState, MainStates, TimerTypes
  <2> QED
    BY <2>1, <2>2, SocketsUnchanged
<1>4. ASSUME NEW i \in Slots, \/ ResendToMoudle(i) \/ GiveUpMoudle(i)
                              \/ HeartTimeout(i) \/ RegisterTimeout(i)
      PROVE  SocketPart'
  BY <1>4, SocketsUnchanged
  DEF ResendToMoudle, GiveUpMoudle, HeartTimeout, RegisterTimeout
<1>5. CASE ModuleRegister
  <2>1. /\ UNCHANGED <<u32Socket, openFds, connFd, fd, pc>>
        /\ mainState' = mainState \/ (mainState = "INIT" /\ mainState' = "ACCESS_NET")
    BY <1>5 DEF ModuleRegister
  <2>2. mainState = "INIT" => pc # "connecting"
    BY <1>1 DEF SocketPart, PlacePart
  <2> QED
    BY <2>1, <2>2, SocketsUnchanged
<1>6. CASE ModuleData \/ ConfigPara
  BY <1>6, SocketsUnchanged DEF ModuleData, ConfigPara
<1>7. CASE PowerOn
  BY <1>1, <1>7 DEF PowerOn, SocketPart, SocketsAreOwned, PlacePart
<1>8. CASE SetNetwork
  BY <1>1, <1>8 DEF SetNetwork, SocketPart, SocketsAreOwned, PlacePart
<1>9. CASE CloudRecvfunc
  <2>1. /\ pc = "recv" /\ pc' = "run" /\ fd' = u32Socket
        /\ UNCHANGED <<u32Socket, openFds, connFd>>
        /\ \/ mainState' = mainState
           \/ mainState \in Receiving /\ mainState' = "DISCONNECT_CLOUD"
    BY <1>9, DisConnectEffect DEF CloudRecvfunc, RecvDataFromCloud
  <2> QED
    BY <1>1, <2>1 DEF SocketPart, SocketsAreOwned, PlacePart, Receiving
<1>10. CASE Run
  <2>1. pc = "run"
    BY <1>10 DEF Run
  <2>2. CASE ConnectCloud
    <3>1. /\ mainState = "ACCESS_NET" /\ UNCHANGED <<mainState, u32Socket, fd>>
          /\ \/ \E s \in Fds \ openFds :
                  connFd' = s /\ openFds' = openFds \cup {s} /\ pc' = "connecting"
             \/ pc' = "tail" /\ UNCHANGED <<connFd, openFds>>
      BY <2>2 DEF ConnectCloud
    <3>2. CASE pc' = "tail" /\ UNCHANGED <<connFd, openFds>>
      BY <2>1, <3>1, <3>2, RunSockets
    <3>3. ASSUME NEW s \in Fds \ openFds, connFd' = s, openFds' = openFds \cup {s},
                 pc' = "connecting"
          PROVE  SocketPart'
      BY <1>1, <2>1, <3>1, <3>3 DEF SocketPart, SocketsAreOwned, PlacePart
    <3> QED
      BY <3>1, <3>2, <3>3
  <2>3. CASE NothingToRun \/ HandleEvent
    BY <2>1, <2>3, RunSockets DEF NothingToRun, HandleEvent
  <2>4. CASE SendCloudAccessMsg1
    <3>1. /\ mainState = "WAIT_ACCESS"
          /\ mainState' \in {"WAIT_ACCESSRSP", "DISCONNECT_CLOUD"}
          /\ pc' = "tail" /\ UNCHANGED <<u32Socket, openFds, connFd, fd>>
      BY <2>4, DisConnectEffect DEF SendCloudAccessMsg1
    <3> QED
      BY <2>1, <3>1, RunSockets
  <2>5. CASE RecvAccessMsg2
    <3>1. /\ mainState = "WAIT_ACCESSRSP"
          /\ mainState' \in {"WAIT_ACCESSRSP", "WAIT_MSG4", "DISCONNECT_CLOUD"}
          /\ pc' = "tail" /\ UNCHANGED <<u32Socket, openFds, connFd, fd>>
      BY <2>5, DisConnectEffect DEF RecvAccessMsg2, SendCloudAccessMsg3
    <3> QED
      BY <2>1, <3>1, RunSockets
  <2>6. CASE RecvAccessMsg4
    <3>1. /\ mainState = "WAIT_MSG4"
          /\ mainState' \in {"WAIT_MSG4", "CONNECT_CLOUD", "DISCONNECT_CLOUD"}
          /\ pc' = "tail" /\ UNCHANGED <<u32Socket, openFds, connFd, fd>>
      BY <2>6, DisConnectEffect DEF RecvAccessMsg4
    <3> QED
      BY <2>1, <3>1, RunSockets
  <2>7. CASE HandleOtaEndMsg \/ ResetNetWork
    <3>1. /\ mainState = "CONNECT_CLOUD" /\ mainState' = "DISCONNECT_CLOUD"
          /\ pc' \in {"tail", "reboot"} /\ UNCHANGED <<u32Socket, openFds, connFd, fd>>
      BY <2>7, DisConnectEffect DEF HandleOtaEndMsg, ResetNetWork, DisConnectThenSend
    <3> QED
      BY <2>1, <3>1, RunSockets
  <2> QED
    BY <1>10, <2>2, <2>3, <2>4, <2>5, <2>6, <2>7 DEF Run
<1>11. CASE Connected \/ ConnectFailed
  <2>1. /\ pc = "connecting" /\ pc' = "tail" /\ connFd' = PCT_INVAILD_SOCKET
        /\ fd' = fd
        /\ \/ /\ u32Socket' = connFd /\ openFds' = openFds
              /\ mainState' = "WAIT_ACCESS"
           \/ /\ u32Socket' = u32Socket /\ openFds' = openFds \ {connFd}
              /\ mainState' = mainState
    BY <1>11 DEF Connected, ConnectFailed
  <2>2. /\ mainState = "ACCESS_NET" /\ u32Socket = PCT_INVAILD_SOCKET
        /\ openFds = {connFd} /\ connFd # PCT_INVAILD_SOCKET
    BY <1>1, <2>1 DEF SocketPart, SocketsAreOwned, PlacePart
  <2> QED
    BY <1>1, <2>1, <2>2 DEF SocketPart, SocketsAreOwned, PlacePart
<1>12. CASE LoopTail
  <2>1. pc = "tail" /\ pc' = "wifi" /\ UNCHANGED <<connFd, fd>>
        /\ (CloseAndReconnect \/ SendDataToCloud)
    BY <1>12 DEF LoopTail
  <2>2. CASE SendDataToCloud
    BY <1>1, <2>1, <2>2 DEF SendDataToCloud, SocketPart, SocketsAreOwned, PlacePart
  <2>3. CASE CloseAndReconnect
    <3>1. mainState = "DISCONNECT_CLOUD" /\ openFds' = openFds \ {fd}
      BY <2>3 DEF CloseAndReconnect
    <3>2. "RECONNECT" \notin Running(timers)
      BY <1>1, <3>1 DEF TimersOK, TimersOfState
    <3>3. mainState' = "INIT" /\ u32Socket' = PCT_INVAILD_SOCKET
      BY <2>3, <3>2, ValidIsRunning DEF CloseAndReconnect, TimerTypes
    <3>4. fd = u32Socket /\ openFds = {u32Socket} /\ connFd = PCT_INVAILD_SOCKET
      BY <1>1, <2>1, <3>1 DEF SocketPart, SocketsAreOwned, PlacePart
    <3> QED
      BY <2>1, <3>1, <3>3, <3>4 DEF SocketPart, SocketsAreOwned, PlacePart
  <2> QED
    BY <2>1, <2>2, <2>3
<1>13. CASE WifiUp
  BY <1>1, <1>13 DEF WifiUp, SocketPart, SocketsAreOwned, PlacePart
<1>14. CASE WifiLost
  BY <1>1, <1>14 DEF WifiLost, SocketPart, SocketsAreOwned, PlacePart
<1> QED
  BY NextCases, <1>2, <1>3, <1>4, <1>5, <1>6, <1>7, <1>8, <1>9, <1>10, <1>11,
     <1>12, <1>13, <1>14

-----------------------------------------------------------------------------
(* What the MCU knows.                                                      *)
LEMMA McuIsInformedStep ==
  ASSUME IndInv, Next PROVE McuIsInformed'
<1>1. McuIsInformed
  BY DEF IndInv
<1> USE DEF McuIsInformed
<1>2. CASE mainState' = mainState /\ mcuView' = mcuView
  BY <1>1, <1>2
<1>3. CASE mainState' \notin {"CONNECT_CLOUD", "DISCONNECT_CLOUD"}
  BY <1>3
<1>4. CASE DisConnectCloud
  BY <1>4, DisConnectEffect
<1>5. ASSUME NEW i \in Slots,
             \/ ReconnectTimeout(i) \/ AccessTimeout(i) \/ ResendToMoudle(i)
             \/ GiveUpMoudle(i) \/ HeartTimeout(i) \/ RegisterTimeout(i)
      PROVE  McuIsInformed'
  BY <1>2, <1>3, <1>4, <1>5
  DEF ReconnectTimeout, AccessTimeout, ResendToMoudle, GiveUpMoudle, HeartTimeout,
      RegisterTimeout
<1>6. CASE ModuleRegister \/ ModuleData \/ ConfigPara
  BY <1>1, <1>6 DEF ModuleRegister, ModuleData, ConfigPara, Registered, Receiving
<1>7. CASE PowerOn \/ SetNetwork \/ Connected \/ ConnectFailed \/ WifiUp \/ WifiLost
  BY <1>2, <1>3, <1>7
  DEF PowerOn, SetNetwork, Connected, ConnectFailed, WifiUp, WifiLost
<1>8. CASE CloudRecvfunc
  BY <1>2, <1>4, <1>8 DEF CloudRecvfunc, RecvDataFromCloud
<1>9. CASE LoopTail
  BY <1>2, <1>3, <1>9 DEF LoopTail, CloseAndReconnect, SendDataToCloud
<1>10. CASE Run
  <2>1. CASE NothingToRun \/ ConnectCloud \/ HandleEvent
    BY <1>2, <2>1 DEF NothingToRun, ConnectCloud, HandleEvent
  <2>2. CASE SendCloudAccessMsg1 \/ RecvAccessMsg2 \/ HandleOtaEndMsg
    BY <1>2, <1>3, <1>4, <2>2
    DEF SendCloudAccessMsg1, RecvAccessMsg2, SendCloudAccessMsg3, HandleOtaEndMsg
  <2>3. CASE RecvAccessMsg4
    BY <1>2, <1>4, <2>3 DEF RecvAccessMsg4
  <2>4. CASE ResetNetWork
    BY <2>4 DEF ResetNetWork, DisConnectThenSend
  <2> QED
    BY <1>10, <2>1, <2>2, <2>3, <2>4 DEF Run
<1> QED
  BY NextCases, <1>5, <1>6, <1>7, <1>8, <1>9, <1>10

-----------------------------------------------------------------------------
(* The initial states, and the theorems.                                    *)
LEMMA InitIndInv ==
  ASSUME Init PROVE IndInv
<1>1. Sound(InitTimers) /\ Running(InitTimers) = {}
  BY InitTimersSound
<1>2. TimerPart
  BY <1>1 DEF Init, TimerPart, TimersOK, TimersOfState
<1>3. TypeOK
  <2>1. /\ PCT_SENDMOUDLE_NUM \in Nat /\ MSG_QUEUE_MAXLEN \in Nat
        /\ MSG_BUFFER_SEND_MAX_NUM \in Nat
    BY ConstantsAssumption
  <2>2. /\ recvQ \in 0 .. MSG_QUEUE_MAXLEN /\ reSendNum \in 0 .. PCT_SENDMOUDLE_NUM
        /\ sendQ \in Seq(SendKinds) /\ Len(sendQ) <= MSG_BUFFER_SEND_MAX_NUM
    BY <2>1 DEF Init
  <2>3. timers \in TimerTables
    BY <1>1 DEF Init, Sound
  <2> QED
    BY <2>2, <2>3 DEF Init, TypeOK, MainStates, EmptyBuffer
<1>4. SessionPart
  BY DEF Init, SessionPart, KeyFollowsState, SessionsAreSeparate, ReceivedIsHandled
<1>5. SocketPart /\ McuIsInformed
  BY ConstantsAssumption
  DEF Init, SocketPart, SocketsAreOwned, PlacePart, McuIsInformed
<1> QED
  BY <1>2, <1>3, <1>4, <1>5 DEF IndInv

LEMMA IndInvStep ==
  IndInv /\ [Next]_vars => IndInv'
<1>1. ASSUME IndInv, Next PROVE IndInv'
  BY <1>1, TypeOKStep, TimerPartStep, SessionPartStep, SocketPartStep,
     McuIsInformedStep DEF IndInv
<1>2. ASSUME IndInv, UNCHANGED vars PROVE IndInv'
  BY <1>2
  DEF IndInv, vars, socketVars, threadVars, messageVars, TypeOK, TimerPart,
      SessionPart, KeyFollowsState, SessionsAreSeparate, ReceivedIsHandled,
      SocketPart, SocketsAreOwned, PlacePart, McuIsInformed
<1> QED
  BY <1>1, <1>2

LEMMA Inductive == Spec => []IndInv
<1>1. Init => IndInv
  BY InitIndInv
<1>2. IndInv /\ [Next]_vars => IndInv'
  BY IndInvStep
<1> QED
  BY <1>1, <1>2, PTL DEF Spec

(* Every variable keeps its type: the send queue its bound, the counter of  *)
(* retransmissions its maximum, the receive queue its length.               *)
THEOREM TypeCorrect == Spec => []TypeOK
<1>1. IndInv => TypeOK
  BY DEF IndInv
<1> QED
  BY <1>1, Inductive, PTL

(* No timer is lost, dangling or left over from an earlier connection, and  *)
(* none that a state waits for is missing, however callbacks interleave     *)
(* with the handlers that stop and start timers.                            *)
THEOREM TimersSafe == Spec => [](TimersCoherent /\ TimersFitState /\ WaitsAreTimed)
<1>1. IndInv => TimersCoherent /\ TimersFitState /\ WaitsAreTimed
  BY IndInvImplies DEF Invariants
<1> QED
  BY <1>1, Inductive, PTL

(* Key, queues, receive buffer and the MCU's view of the cloud belong to    *)
(* one session only, whichever context ends it.                             *)
THEOREM SessionsSafe == Spec => []SessionsAreClean
<1>1. IndInv => KeyFollowsState /\ SessionsAreSeparate /\ ReceivedIsHandled
  BY IndInvImplies DEF Invariants
<1>2. IndInv => SessionsAreClean
  BY <1>1 DEF IndInv, SessionsAreClean
<1> QED
  BY <1>2, Inductive, PTL

(* No socket leaks, and the descriptor remembered at the top of the loop is *)
(* the one to close after PCT_Run.                                          *)
THEOREM SocketsSafe == Spec => [](SocketsAreOwned /\ LoopPosition)
<1>1. IndInv => SocketsAreOwned /\ LoopPosition
  BY IndInvImplies DEF Invariants
<1> QED
  BY <1>1, Inductive, PTL

-----------------------------------------------------------------------------
(* Retransmissions to the MCU.                                              *)

(* An action that keeps the retransmission handle or invalidates it starts  *)
(* no timer.                                                                *)
Retries ==
  /\ ~Valid(timers, "SENDMOUDLE") /\ Valid(timers', "SENDMOUDLE") => reSendNum' = 0
  /\ Valid(timers, "SENDMOUDLE") /\ Valid(timers', "SENDMOUDLE")
     /\ timers'.handle["SENDMOUDLE"] # timers.handle["SENDMOUDLE"] =>
       reSendNum' = reSendNum + 1

LEMMA HandleKept ==
  ASSUME \/ timers'.handle["SENDMOUDLE"] = timers.handle["SENDMOUDLE"]
         \/ timers'.handle["SENDMOUDLE"] = PCT_TIMER_INVAILD
  PROVE  Retries
BY DEF Retries, Valid

LEMMA OtherHandles ==
  ASSUME NEW tm, tm.handle \in [TimerTypes -> Slots \cup {PCT_TIMER_INVAILD}],
         NEW t \in TimerTypes, t # "SENDMOUDLE", NEW i
  PROVE  LET h == tm.handle["SENDMOUDLE"]
         IN  /\ SetTimer(tm, t).handle["SENDMOUDLE"] = h
             /\ StopSlot(tm, i).handle = tm.handle
             /\ StopHandle(tm, t).handle = tm.handle
             /\ StopIfValid(tm, t).handle = tm.handle
             /\ StopAndForget(tm, t).handle["SENDMOUDLE"] = h
             /\ StopSlot(Forget(tm, t), i).handle["SENDMOUDLE"] = h
<1>1. "SENDMOUDLE" \in TimerTypes
  BY DEF TimerTypes
<1>2. SetTimer(tm, t).handle["SENDMOUDLE"] = tm.handle["SENDMOUDLE"]
  <2>1. CASE IdleSlots(tm) = {}
    BY <2>1 DEF SetTimer
  <2>2. CASE IdleSlots(tm) # {}
    <3> DEFINE k == CHOOSE k \in IdleSlots(tm) : \A j \in IdleSlots(tm) : k <= j
    <3>1. SetTimer(tm, t).handle = [tm.handle EXCEPT ![t] = k]
      BY <2>2 DEF SetTimer
    <3> HIDE DEF k
    <3> QED
      BY <1>1, <3>1
  <2> QED
    BY <2>1, <2>2
<1> QED
  BY <1>1, <1>2 DEF StopSlot, StopHandle, StopIfValid, StopAndForget, Forget

LEMMA RetriesStep ==
  ASSUME IndInv, Next PROVE Retries
<1>1. /\ Sound(timers)
      /\ timers.handle \in [TimerTypes -> Slots \cup {PCT_TIMER_INVAILD}]
      /\ \A t \in {"RECONNECT", "REACCESS", "SENDHEART", "REGISTER"} :
           t \in TimerTypes /\ t # "SENDMOUDLE"
      /\ "SENDMOUDLE" \in TimerTypes
  BY DEF IndInv, TimerPart, TimersOK, Sound, TimerTables, TimerTypes
<1>2. CASE timers' = timers
  BY <1>2, HandleKept
<1>3. ASSUME NEW i \in Slots, ReconnectTimeout(i) PROVE Retries
  BY <1>1, <1>3, OtherHandles, HandleKept DEF ReconnectTimeout
<1>4. ASSUME NEW i \in Slots, AccessTimeout(i) PROVE Retries
  BY <1>1, <1>4, OtherHandles, HandleKept DEF AccessTimeout
<1>5. ASSUME NEW i \in Slots, NEW t \in {"SENDHEART", "REGISTER"}, timers.slot[i] = t,
             timers' = StopSlot(SetTimer(timers, t), i)
      PROVE  Retries
  <2>1. timers'.handle["SENDMOUDLE"] = timers.handle["SENDMOUDLE"]
    BY <1>1, <1>5, CallbackRestarts
  <2> QED
    BY <2>1, HandleKept
<1>6. ASSUME NEW i \in Slots, HeartTimeout(i) \/ RegisterTimeout(i) PROVE Retries
  BY <1>5, <1>6 DEF HeartTimeout, RegisterTimeout
<1>7. ASSUME NEW i \in Slots, ResendToMoudle(i) PROVE Retries
  <2>1. timers.slot[i] = "SENDMOUDLE" /\ reSendNum' = reSendNum + 1
        /\ timers' = StopSlot(SetTimer(timers, "SENDMOUDLE"), i)
    BY <1>7 DEF ResendToMoudle
  <2>2. Valid(timers, "SENDMOUDLE")
    BY <1>1, <2>1, CallbackRestarts
  <2> QED
    BY <2>1, <2>2 DEF Retries
<1>8. ASSUME NEW i \in Slots, GiveUpMoudle(i) PROVE Retries
  <2>1. timers'.handle["SENDMOUDLE"] = PCT_TIMER_INVAILD
    BY <1>1, <1>8 DEF GiveUpMoudle, StopSlot, Forget
  <2> QED
    BY <2>1, HandleKept
<1>9. CASE ModuleRegister
  BY <1>1, <1>9, OtherHandles, HandleKept DEF ModuleRegister
<1>10. CASE ModuleData
  <2>1. timers' = timers \/ timers' = StopAndForget(timers, "SENDMOUDLE")
    BY <1>10 DEF ModuleData
  <2>2. CASE timers' = StopAndForget(timers, "SENDMOUDLE")
    <3>1. StopIfValid(timers, "SENDMOUDLE").handle = timers.handle
      BY DEF StopIfValid, StopHandle, StopSlot
    <3>2. timers'.handle["SENDMOUDLE"] = PCT_TIMER_INVAILD
      BY <1>1, <2>2, <3>1 DEF StopAndForget, Forget
    <3> QED
      BY <3>2, HandleKept
  <2> QED
    BY <1>2, <2>1, <2>2
<1>11. CASE PowerOn
  <2>1. timers'.handle["SENDMOUDLE"] = PCT_TIMER_INVAILD
    BY <1>1, <1>11 DEF PowerOn, InitTimers
  <2> QED
    BY <2>1, HandleKept
<1>12. CASE SetNetwork
  BY <1>1, <1>12, OtherHandles, HandleKept DEF SetNetwork
<1>13. CASE ConfigPara \/ CloudRecvfunc \/ Connected \/ ConnectFailed \/ WifiUp
  BY <1>2, <1>13 DEF ConfigPara, CloudRecvfunc, Connected, ConnectFailed, WifiUp
<1>14. CASE LoopTail
  <2>1. \/ timers' = timers
        \/ timers' = SetTimer(StopAll(timers, {"RECONNECT", "SENDMOUDLE", "SENDHEART"}),
                              "RECONNECT")
    BY <1>14 DEF LoopTail, CloseAndReconnect, SendDataToCloud
  <2>2. ASSUME NEW tm, tm = StopAll(timers, {"RECONNECT", "SENDMOUDLE", "SENDHEART"}),
               timers' = SetTimer(tm, "RECONNECT")
        PROVE  Retries
    <3>1. /\ tm.handle \in [TimerTypes -> Slots \cup {PCT_TIMER_INVAILD}]
          /\ tm.handle["SENDMOUDLE"] = PCT_TIMER_INVAILD
      BY <1>1, <2>2 DEF StopAll
    <3> QED
      BY <1>1, <2>2, <3>1, OtherHandles, HandleKept
  <2> QED
    BY <1>2, <2>1, <2>2
<1>15. CASE WifiLost
  <2>1. timers'.handle["SENDMOUDLE"] = PCT_TIMER_INVAILD
    BY <1>1, <1>15 DEF WifiLost, StopAll
  <2> QED
    BY <2>1, HandleKept
<1>16. CASE Run
  <2>1. CASE NothingToRun \/ ConnectCloud \/ HandleOtaEndMsg \/ ResetNetWork
    BY <1>2, <2>1 DEF NothingToRun, ConnectCloud, HandleOtaEndMsg, ResetNetWork
  <2>2. CASE SendCloudAccessMsg1
    <3> DEFINE tm == StopAndForget(timers, "RECONNECT")
    <3>1. timers' = tm \/ timers' = SetTimer(tm, "REACCESS")
      BY <2>2 DEF SendCloudAccessMsg1
    <3>2. tm.handle["SENDMOUDLE"] = timers.handle["SENDMOUDLE"]
      BY <1>1, OtherHandles
    <3>3. tm.handle \in [TimerTypes -> Slots \cup {PCT_TIMER_INVAILD}]
      BY <1>1, HandleStopped DEF Sound, TimerTables
    <3> HIDE DEF tm
    <3>4. SetTimer(tm, "REACCESS").handle["SENDMOUDLE"] = tm.handle["SENDMOUDLE"]
      BY <1>1, <3>3, OtherHandles
    <3>5. timers'.handle["SENDMOUDLE"] = timers.handle["SENDMOUDLE"]
      BY <3>1, <3>2, <3>4
    <3> QED
      BY <3>5, HandleKept
  <2>3. CASE RecvAccessMsg2
    <3> DEFINE tm == StopHandle(timers, "REACCESS")
    <3>1. timers' = timers \/ timers' = tm \/ timers' = SetTimer(tm, "REACCESS")
      BY <2>3 DEF RecvAccessMsg2, SendCloudAccessMsg3
    <3>2. tm.handle = timers.handle
      BY DEF StopHandle, StopSlot
    <3> HIDE DEF tm
    <3>3. tm.handle \in [TimerTypes -> Slots \cup {PCT_TIMER_INVAILD}]
      BY <1>1, <3>2
    <3>4. SetTimer(tm, "REACCESS").handle["SENDMOUDLE"] = tm.handle["SENDMOUDLE"]
      BY <1>1, <3>3, OtherHandles
    <3>5. timers'.handle["SENDMOUDLE"] = timers.handle["SENDMOUDLE"]
      BY <3>1, <3>2, <3>4
    <3> QED
      BY <3>5, HandleKept
  <2>4. CASE RecvAccessMsg4
    <3> DEFINE tm == StopHandle(timers, "REACCESS")
    <3>1. \/ timers' = SetTimer(StopIfValid(timers, "SENDHEART"), "SENDHEART")
          \/ timers' = SetTimer(StopIfValid(tm, "SENDHEART"), "SENDHEART")
      BY <2>4 DEF RecvAccessMsg4, RestartHeart
    <3>2. /\ StopIfValid(timers, "SENDHEART").handle = timers.handle
          /\ StopIfValid(tm, "SENDHEART").handle = timers.handle
      BY DEF StopIfValid, StopHandle, StopSlot
    <3> HIDE DEF tm
    <3>3. ASSUME NEW other, other.handle = timers.handle
          PROVE  SetTimer(other, "SENDHEART").handle["SENDMOUDLE"]
                   = timers.handle["SENDMOUDLE"]
      <4>1. other.handle \in [TimerTypes -> Slots \cup {PCT_TIMER_INVAILD}]
        BY <1>1, <3>3
      <4> QED
        BY <1>1, <3>3, <4>1, OtherHandles
    <3>4. timers'.handle["SENDMOUDLE"] = timers.handle["SENDMOUDLE"]
      BY <3>1, <3>2, <3>3
    <3> QED
      BY <3>4, HandleKept
  <2>5. CASE HandleEvent
    <3>1. timers' = timers \/ (~Valid(timers, "SENDMOUDLE") /\ reSendNum' = 0)
      BY <2>5 DEF HandleEvent, RefuseEvent, AcceptEvent, HandleMoudleMsg
    <3> QED
      BY <1>2, <3>1 DEF Retries
  <2> QED
    BY <1>16, <2>1, <2>2, <2>3, <2>4, <2>5 DEF Run
<1> QED
  BY NextCases, <1>3, <1>4, <1>6, <1>7, <1>8, <1>9, <1>10, <1>11, <1>12, <1>13,
     <1>14, <1>15, <1>16

(* Every message forwarded to the MCU has its own count of retransmissions, *)
(* and its buffer is not taken over while it waits.                         *)
THEOREM RetriesCounted == Spec => RetriesPerMessage
<1>1. IndInv /\ [Next]_vars => [Retries]_vars
  BY RetriesStep
<1>2. Spec => [][Retries]_vars
  BY <1>1, Inductive, PTL DEF Spec
<1> QED
  BY <1>2 DEF RetriesPerMessage, Retries

-----------------------------------------------------------------------------
(* The sessions of CloudSession.                                            *)

(* What is in the outbox when the queue changes.                            *)
LEMMA KindsOfQueues ==
  ASSUME NEW q \in Seq(SendKinds)
  PROVE  /\ KindsIn(<<>>) = {}
         /\ KindsIn(<<"MSG1">>) = {"hello"}
         /\ \A kind \in SendKinds \ {"MSG1"} :
              KindsIn(Append(q, kind)) = KindsIn(q) \cup {"secured"}
         /\ q # <<>> => KindsIn(Tail(q)) \subseteq KindsIn(q)
<1>1. KindsIn(<<>>) = {}
  BY DEF KindsIn
<1>2. KindsIn(<<"MSG1">>) = {"hello"}
  BY DEF KindsIn
<1>3. ASSUME NEW kind \in SendKinds \ {"MSG1"}
      PROVE  KindsIn(Append(q, kind)) = KindsIn(q) \cup {"secured"}
  <2>1. /\ DOMAIN Append(q, kind) = DOMAIN q \cup {Len(q) + 1}
        /\ Len(q) + 1 \notin DOMAIN q
        /\ \A i \in DOMAIN q : Append(q, kind)[i] = q[i]
        /\ Append(q, kind)[Len(q) + 1] = kind
    OBVIOUS
  <2> QED
    BY <2>1, <1>3 DEF KindsIn
<1>4. ASSUME q # <<>> PROVE KindsIn(Tail(q)) \subseteq KindsIn(q)
  <2>1. \A i \in DOMAIN Tail(q) : i + 1 \in DOMAIN q /\ Tail(q)[i] = q[i + 1]
    BY <1>4
  <2> QED
    BY <2>1 DEF KindsIn
<1> QED
  BY <1>1, <1>2, <1>3, <1>4

(* PCT_SendMsgToCloud without a key, and with encryption, queues nothing;   *)
(* with a key it adds to the secured messages or queues nothing.            *)
LEMMA SendKindsIn ==
  ASSUME NEW q \in Seq(SendKinds), NEW kind \in SendKinds \ {"MSG1"},
         NEW key, NEW switch, switch # 0
  PROVE  /\ key # "RECVED" => Send(q, kind, key, switch) = q
         /\ KindsIn(Send(q, kind, key, switch)) \in {KindsIn(q), KindsIn(q) \cup {"secured"}}
BY KindsOfQueues DEF Send, AesEncrypts

LEMMA SendBothKindsIn ==
  ASSUME NEW q \in Seq(SendKinds), Len(q) <= MSG_BUFFER_SEND_MAX_NUM,
         NEW kind1 \in SendKinds \ {"MSG1"},
         NEW kind2 \in SendKinds \ {"MSG1"}, NEW key, NEW switch, switch # 0
  PROVE  /\ key # "RECVED" => SendBoth(q, kind1, kind2, key, switch) = q
         /\ KindsIn(SendBoth(q, kind1, kind2, key, switch))
              \in {KindsIn(q), KindsIn(q) \cup {"secured"}}
<1> DEFINE q1 == Send(q, kind1, key, switch)
<1>1. q1 \in Seq(SendKinds)
  BY SendType
<1>2. /\ key # "RECVED" => q1 = q
      /\ KindsIn(q1) \in {KindsIn(q), KindsIn(q) \cup {"secured"}}
  BY SendKindsIn
<1> HIDE DEF q1
<1>3. /\ key # "RECVED" => Send(q1, kind2, key, switch) = q1
      /\ KindsIn(Send(q1, kind2, key, switch))
           \in {KindsIn(q1), KindsIn(q1) \cup {"secured"}}
  BY <1>1, SendKindsIn
<1> QED
  BY <1>2, <1>3 DEF SendBoth, q1

-----------------------------------------------------------------------------
(* What the actions do to state, key and send queue, one disjunct per       *)
(* action of CloudSession.                                                  *)
Offline == {"INIT", "ACCESS_NET"}

TrafficStep ==
  /\ mainState' = mainState \/ (mainState \in Offline /\ mainState' \in Offline)
  /\ keyRecv' = keyRecv
  /\ \/ sendQ' = sendQ
     \/ sendQ' = <<>>
     \/ sendQ # <<>> /\ sendQ' = Tail(sendQ)
     \/ keyRecv = "RECVED" /\ Outbox' \in {Outbox, Outbox \cup {"secured"}}

OpenStep ==
  /\ mainState = "ACCESS_NET" /\ mainState' = "WAIT_ACCESS"
  /\ keyRecv' = "UNRECVED" /\ sendQ' = sendQ

HelloStep ==
  /\ mainState = "WAIT_ACCESS" /\ mainState' = "WAIT_ACCESSRSP"
  /\ keyRecv' = keyRecv /\ sendQ' = <<"MSG1">>

ExchangeStep ==
  /\ mainState = "WAIT_ACCESSRSP" /\ mainState' = "WAIT_MSG4"
  /\ keyRecv' = "RECVED" /\ Outbox' \in {Outbox, Outbox \cup {"secured"}}

EstablishStep ==
  /\ mainState = "WAIT_MSG4" /\ mainState' = "CONNECT_CLOUD"
  /\ keyRecv' = keyRecv /\ sendQ' = sendQ

DropStep ==
  /\ mainState \in {"WAIT_ACCESS", "WAIT_ACCESSRSP", "WAIT_MSG4", "CONNECT_CLOUD"}
  /\ mainState' = "DISCONNECT_CLOUD"
  /\ keyRecv' = "UNRECVED" /\ sendQ' = <<>>

CloseStep ==
  mainState' \in Offline /\ keyRecv' = "UNRECVED" /\ sendQ' = <<>>

SessionStep == \/ TrafficStep \/ OpenStep \/ HelloStep \/ ExchangeStep
               \/ EstablishStep \/ DropStep \/ CloseStep

LEMMA NothingSent ==
  ASSUME UNCHANGED <<mainState, keyRecv, sendQ>> PROVE SessionStep
BY DEF SessionStep, TrafficStep

(* A disconnection drops the session, or finds it dropped already.          *)
LEMMA DisConnectIsDrop ==
  ASSUME IndInv, DisConnectCloud, mainState \notin Offline
  PROVE  SessionStep
<1>1. mainState \in MainStates /\ (mainState = "DISCONNECT_CLOUD" => keyRecv = "UNRECVED")
  BY DEF IndInv, TypeOK, SessionPart, KeyFollowsState
<1> QED
  BY <1>1, DisConnectEffect
  DEF SessionStep, TrafficStep, DropStep, MainStates, Offline

(* A message sent without changing state.                                   *)
LEMMA SentIsTraffic ==
  ASSUME IndInv, 0 \notin SecSwitches, UNCHANGED <<mainState, keyRecv>>,
         NEW kind \in SendKinds \ {"MSG1"},
         sendQ' = Send(sendQ, kind, keyRecv, secSwitch)
  PROVE  SessionStep
<1>1. sendQ \in Seq(SendKinds) /\ secSwitch # 0
  BY DEF IndInv, TypeOK
<1>2. /\ keyRecv # "RECVED" => sendQ' = sendQ
      /\ KindsIn(sendQ') \in {KindsIn(sendQ), KindsIn(sendQ) \cup {"secured"}}
  BY <1>1, SendKindsIn
<1> QED
  BY <1>2 DEF SessionStep, TrafficStep, Outbox

LEMMA BothSentIsTraffic ==
  ASSUME IndInv, 0 \notin SecSwitches, UNCHANGED <<mainState, keyRecv>>,
         NEW kind1 \in SendKinds \ {"MSG1"}, NEW kind2 \in SendKinds \ {"MSG1"},
         sendQ' = SendBoth(sendQ, kind1, kind2, keyRecv, secSwitch)
  PROVE  SessionStep
<1>1. /\ sendQ \in Seq(SendKinds) /\ Len(sendQ) <= MSG_BUFFER_SEND_MAX_NUM
      /\ secSwitch # 0
  BY DEF IndInv, TypeOK
<1>2. /\ keyRecv # "RECVED" => sendQ' = sendQ
      /\ KindsIn(sendQ') \in {KindsIn(sendQ), KindsIn(sendQ) \cup {"secured"}}
  BY <1>1, SendBothKindsIn
<1> QED
  BY <1>2 DEF SessionStep, TrafficStep, Outbox

LEMMA NextIsSessionStep ==
  ASSUME IndInv, Next, 0 \notin SecSwitches
  PROVE  SessionStep
<1>1. /\ TimersOK(timers, mainState, pc) /\ mainState \in MainStates
      /\ SessionPart /\ sendQ \in Seq(SendKinds) /\ secSwitch # 0
      /\ \A i \in Slots : timers.slot[i] \in TimerTypes =>
                            timers.slot[i] \in Running(timers)
      /\ SendKinds = {"MSG1"} \cup {"MSG3", "HEART", "EMPTY", "ACK", "ERR", "DATA"}
  BY DEF IndInv, TimerPart, TypeOK, Running, SendKinds
<1> USE DEF messageVars
<1>2. ASSUME NEW i \in Slots, ReconnectTimeout(i)
      PROVE  SessionStep
  <2>1. /\ timers.slot[i] = "RECONNECT" /\ mainState' = "ACCESS_NET"
        /\ UNCHANGED <<keyRecv, sendQ>>
    BY <1>2 DEF ReconnectTimeout
  <2>2. mainState \in Offline
    BY <1>1, <2>1 DEF TimersOK, TimersOfState, MainStates, TimerTypes, Offline
  <2> QED
    BY <2>1, <2>2 DEF SessionStep, TrafficStep, Offline
<1>3. ASSUME NEW i \in Slots, AccessTimeout(i)
      PROVE  SessionStep
  <2>1. timers.slot[i] = "REACCESS" /\ DisConnectCloud
    BY <1>3 DEF AccessTimeout
  <2>2. mainState \notin Offline
    BY <1>1, <2>1 DEF TimersOK, TimersOfState, MainStates, TimerTypes, Offline
  <2> QED
    BY <2>1, <2>2, DisConnectIsDrop
<1>4. ASSUME NEW i \in Slots, GiveUpMoudle(i)
      PROVE  SessionStep
  BY <1>1, <1>4, SentIsTraffic DEF GiveUpMoudle
<1>5. ASSUME NEW i \in Slots, HeartTimeout(i)
      PROVE  SessionStep
  BY <1>1, <1>5, SentIsTraffic DEF HeartTimeout
<1>6. ASSUME NEW i \in Slots, ResendToMoudle(i) \/ RegisterTimeout(i)
      PROVE  SessionStep
  BY <1>6, NothingSent DEF ResendToMoudle, RegisterTimeout
<1>7. CASE ModuleRegister
  BY <1>7, NothingSent DEF ModuleRegister, SessionStep, TrafficStep, Offline
<1>8. CASE ModuleData
  BY <1>1, <1>8, SentIsTraffic, NothingSent DEF ModuleData
<1>9. CASE ConfigPara \/ SetNetwork \/ ConnectFailed \/ WifiUp
  BY <1>9, NothingSent DEF ConfigPara, SetNetwork, ConnectFailed, WifiUp
<1>10. CASE PowerOn \/ WifiLost
  BY <1>10 DEF PowerOn, WifiLost, MSG_Init, SessionStep, CloseStep, Offline
<1>11. CASE CloudRecvfunc
  <2>1. CASE mainState \in Receiving /\ RecvDataFromCloud
    BY <2>1, NothingSent DEF RecvDataFromCloud
  <2>2. CASE mainState \in Receiving /\ DisConnectCloud
    BY <2>2, DisConnectIsDrop DEF Receiving, Offline
  <2> QED
    BY <1>11, <2>1, <2>2, NothingSent DEF CloudRecvfunc
<1>12. CASE Run
  <2>1. CASE NothingToRun \/ ConnectCloud
    BY <2>1, NothingSent DEF NothingToRun, ConnectCloud
  <2>2. CASE SendCloudAccessMsg1
    <3>1. /\ mainState = "WAIT_ACCESS"
          /\ \/ /\ mainState' = "WAIT_ACCESSRSP" /\ sendQ' = Append(sendQ, "MSG1")
                /\ keyRecv' = keyRecv
             \/ DisConnectCloud
      BY <2>2 DEF SendCloudAccessMsg1
    <3>2. sendQ = <<>>
      BY <1>1, <3>1 DEF SessionPart, SessionsAreSeparate
    <3>3. CASE sendQ' = Append(sendQ, "MSG1") /\ mainState' = "WAIT_ACCESSRSP"
               /\ keyRecv' = keyRecv
      BY <3>1, <3>2, <3>3 DEF SessionStep, HelloStep
    <3>4. CASE DisConnectCloud
      BY <3>1, <3>4, DisConnectIsDrop DEF Offline
    <3> QED
      BY <3>1, <3>3, <3>4
  <2>3. CASE RecvAccessMsg2
    <3>1. /\ mainState = "WAIT_ACCESSRSP"
          /\ SendCloudAccessMsg3 \/ DisConnectCloud \/ UNCHANGED <<mainState, keyRecv, sendQ>>
      BY <2>3 DEF RecvAccessMsg2
    <3>2. CASE SendCloudAccessMsg3
      <4>1. /\ mainState' = "WAIT_MSG4" /\ keyRecv' = "RECVED"
            /\ sendQ' = Send(sendQ, "MSG3", "RECVED", secSwitch)
        BY <3>2 DEF SendCloudAccessMsg3
      <4>2. Outbox' \in {Outbox, Outbox \cup {"secured"}}
        BY <1>1, <4>1, SendKindsIn DEF Outbox
      <4> QED
        BY <3>1, <4>1, <4>2 DEF SessionStep, ExchangeStep
    <3>3. CASE DisConnectCloud
      BY <3>1, <3>3, DisConnectIsDrop DEF Offline
    <3> QED
      BY <3>1, <3>2, <3>3, NothingSent
  <2>4. CASE RecvAccessMsg4
    <3>1. /\ mainState = "WAIT_MSG4"
          /\ \/ DisConnectCloud
             \/ /\ mainState' \in {mainState, "CONNECT_CLOUD"}
                /\ UNCHANGED <<keyRecv, sendQ>>
      BY <2>4 DEF RecvAccessMsg4
    <3>2. CASE DisConnectCloud
      BY <3>1, <3>2, DisConnectIsDrop DEF Offline
    <3> QED
      BY <3>1, <3>2, NothingSent DEF SessionStep, EstablishStep
  <2>5. CASE HandleEvent
    <3>1. /\ UNCHANGED <<mainState, keyRecv>>
          /\ \/ sendQ' = sendQ
             \/ \E kind \in {"ACK", "ERR", "EMPTY"} :
                  sendQ' = Send(sendQ, kind, keyRecv, secSwitch)
             \/ \E kind \in {"ACK", "ERR"} :
                  sendQ' = SendBoth(sendQ, "EMPTY", kind, keyRecv, secSwitch)
      BY <2>5 DEF HandleEvent, RefuseEvent, AcceptEvent, Reply, ReplyBoth
    <3>2. {"ACK", "ERR", "EMPTY"} \subseteq SendKinds \ {"MSG1"}
      BY <1>1
    <3>3. CASE \E kind \in {"ACK", "ERR", "EMPTY"} :
                 sendQ' = Send(sendQ, kind, keyRecv, secSwitch)
      BY <3>1, <3>2, <3>3, SentIsTraffic
    <3>4. CASE \E kind \in {"ACK", "ERR"} :
                 sendQ' = SendBoth(sendQ, "EMPTY", kind, keyRecv, secSwitch)
      BY <3>1, <3>2, <3>4, BothSentIsTraffic
    <3> QED
      BY <3>1, <3>3, <3>4, NothingSent
  <2>6. CASE HandleOtaEndMsg
    BY <2>6, DisConnectIsDrop DEF HandleOtaEndMsg, Offline
  <2>7. CASE ResetNetWork
    <3>1. /\ mainState = "CONNECT_CLOUD" /\ mainState' = "DISCONNECT_CLOUD"
          /\ keyRecv' = "UNRECVED"
          /\ sendQ' = SendBoth(<<>>, "EMPTY", "ACK", "UNRECVED", 1)
      BY <2>7 DEF ResetNetWork, DisConnectThenSend
    <3>2. sendQ' = <<>>
      BY <3>1 DEF SendBoth, Send, AesEncrypts
    <3> QED
      BY <3>1, <3>2 DEF SessionStep, DropStep
  <2> QED
    BY <1>12, <2>1, <2>2, <2>3, <2>4, <2>5, <2>6, <2>7 DEF Run
<1>13. CASE Connected
  <2>1. /\ pc = "connecting" /\ mainState' = "WAIT_ACCESS" /\ keyRecv' = "UNRECVED"
        /\ sendQ' = sendQ
    BY <1>13 DEF Connected
  <2>2. mainState = "ACCESS_NET"
    BY <2>1 DEF IndInv, SocketPart, PlacePart
  <2> QED
    BY <2>1, <2>2 DEF SessionStep, OpenStep
<1>14. CASE LoopTail
  <2>1. CASE CloseAndReconnect
    BY <2>1, NothingSent
    DEF CloseAndReconnect, MSG_Init, SessionStep, CloseStep, Offline
  <2>2. CASE SendDataToCloud
    BY <2>2 DEF SendDataToCloud, SessionStep, TrafficStep
  <2> QED
    BY <1>14, <2>1, <2>2 DEF LoopTail
<1> QED
  BY NextCases, <1>2, <1>3, <1>4, <1>5, <1>6, <1>7, <1>8, <1>9, <1>10, <1>11,
     <1>12, <1>13, <1>14

-----------------------------------------------------------------------------
(* With encryption on, only MSG1 can be queued while there is no key.       *)
LEMMA NoKeyStep ==
  ASSUME IndInv, NothingQueuedWithoutKey, 0 \notin SecSwitches, Next
  PROVE  NothingQueuedWithoutKey'
<1>1. SessionStep
  BY NextIsSessionStep
<1>2. secSwitch # 0 /\ KeyFollowsState /\ SessionsAreSeparate
  BY DEF IndInv, TypeOK, SessionPart
<1>3. CASE TrafficStep
  <2>1. CASE keyRecv = "UNRECVED"
    <3>1. sendQ \in {<<>>, <<"MSG1">>}
      BY <1>2, <2>1 DEF NothingQueuedWithoutKey
    <3>2. sendQ # <<>> => Tail(sendQ) = <<>>
      <4>1. Tail(<<"MSG1">>) = <<>>
        OBVIOUS
      <4> QED
        BY <3>1, <4>1
    <3>3. sendQ' \in {sendQ, <<>>}
      BY <1>3, <2>1, <3>2 DEF TrafficStep
    <3> QED
      BY <3>1, <3>3 DEF NothingQueuedWithoutKey
  <2>2. CASE keyRecv # "UNRECVED"
    BY <1>3, <2>2 DEF TrafficStep, NothingQueuedWithoutKey
  <2> QED
    BY <2>1, <2>2
<1>4. CASE OpenStep \/ HelloStep \/ ExchangeStep
  BY <1>2, <1>4
  DEF OpenStep, HelloStep, ExchangeStep, NothingQueuedWithoutKey, SessionsAreSeparate
<1>5. CASE EstablishStep
  BY <1>2, <1>5 DEF EstablishStep, NothingQueuedWithoutKey, KeyFollowsState
<1>6. CASE DropStep \/ CloseStep
  BY <1>6 DEF DropStep, CloseStep, NothingQueuedWithoutKey
<1> QED
  BY <1>1, <1>3, <1>4, <1>5, <1>6 DEF SessionStep

(* With encryption on, no answer, heartbeat or acknowledgement waits to be  *)
(* sent when the key it needs is gone.                                      *)
THEOREM KeyGuardsQueue ==
  ASSUME 0 \notin SecSwitches
  PROVE  Spec => []NothingQueuedWithoutKey
<1>1. Init => NothingQueuedWithoutKey
  BY DEF Init, NothingQueuedWithoutKey
<1>2. IndInv /\ NothingQueuedWithoutKey /\ [Next]_vars => NothingQueuedWithoutKey'
  BY NoKeyStep DEF vars, messageVars, NothingQueuedWithoutKey
<1> QED
  BY <1>1, <1>2, Inductive, PTL DEF Spec

-----------------------------------------------------------------------------
(* The refinement.                                                          *)

(* The state of the session, in any state of the program that satisfies the *)
(* invariants.                                                              *)
SessionFacts ==
  /\ mainState \in MainStates
  /\ u32Socket \in openFds <=> mainState \notin Offline
  /\ keyRecv = "RECVED" <=> mainState \in {"WAIT_MSG4", "CONNECT_CLOUD"}
  /\ mainState \in Offline => Phase = "offline"
  /\ mainState = "WAIT_ACCESS" => Phase = "opened"
  /\ mainState = "WAIT_ACCESSRSP" => Phase = "hello"
  /\ mainState = "WAIT_MSG4" => Phase = "keyed"
  /\ mainState = "CONNECT_CLOUD" => Phase = "online"
  /\ mainState = "DISCONNECT_CLOUD" => Phase = "closing"

LEMMA SessionState == IndInv => SessionFacts
<1> SUFFICES ASSUME IndInv PROVE SessionFacts
  OBVIOUS
<1>1. mainState \in MainStates
  BY DEF IndInv, TypeOK
<1>2. /\ mainState \in Offline => Phase = "offline"
      /\ mainState = "WAIT_ACCESS" => Phase = "opened"
      /\ mainState = "WAIT_ACCESSRSP" => Phase = "hello"
      /\ mainState = "WAIT_MSG4" => Phase = "keyed"
      /\ mainState = "CONNECT_CLOUD" => Phase = "online"
      /\ mainState = "DISCONNECT_CLOUD" => Phase = "closing"
  BY DEF Phase, Offline
<1>3. u32Socket \in openFds <=> mainState \notin Offline
  BY ConstantsAssumption DEF IndInv, TypeOK, SocketPart, SocketsAreOwned, Offline
<1>4. keyRecv = "RECVED" <=> mainState \in {"WAIT_MSG4", "CONNECT_CLOUD"}
  BY DEF IndInv, SessionPart, KeyFollowsState
<1> QED
  BY <1>1, <1>2, <1>3, <1>4 DEF SessionFacts

(* An action that keeps the phase keeps link and key, so what it does to    *)
(* the queue is traffic; the others are the steps of their names.           *)
LEMMA RefinementStep ==
  ASSUME SessionFacts, SessionFacts', SessionStep, sendQ \in Seq(SendKinds)
  PROVE  [Session!Next]_(Session!vars)
<1> USE DEF SessionFacts, Offline
<1>1. CASE TrafficStep
  <2>1. /\ Phase' = Phase
        /\ (u32Socket \in openFds)' = (u32Socket \in openFds)
        /\ (keyRecv = "RECVED")' = (keyRecv = "RECVED")
    BY <1>1 DEF TrafficStep, MainStates
  <2>2. \/ Outbox' \in SUBSET Outbox
        \/ keyRecv = "RECVED" /\ Outbox' = Outbox \cup {"secured"}
    BY <1>1, KindsOfQueues DEF TrafficStep, Outbox
  <2>3. Session!Traffic
    BY <2>1, <2>2 DEF Session!Traffic
  <2> QED
    BY <2>3 DEF Session!Next
<1>2. CASE OpenStep
  <2>1. Session!Open
    BY <1>2 DEF OpenStep, Session!Open, Outbox
  <2> QED
    BY <2>1 DEF Session!Next
<1>3. CASE HelloStep
  <2>1. Outbox' = {"hello"}
    BY <1>3, KindsOfQueues DEF HelloStep, Outbox
  <2>2. Session!Hello
    BY <1>3, <2>1 DEF HelloStep, Session!Hello
  <2> QED
    BY <2>2 DEF Session!Next
<1>4. CASE ExchangeStep
  <2>1. Session!Exchange
    BY <1>4 DEF ExchangeStep, Session!Exchange
  <2> QED
    BY <2>1 DEF Session!Next
<1>5. CASE EstablishStep
  <2>1. Session!Establish
    BY <1>5 DEF EstablishStep, Session!Establish, Outbox
  <2> QED
    BY <2>1 DEF Session!Next
<1>6. CASE DropStep
  <2>1. Outbox' = {}
    BY <1>6, KindsOfQueues DEF DropStep, Outbox
  <2>2. Session!Drop
    BY <1>6, <2>1 DEF DropStep, Session!Drop
  <2> QED
    BY <2>2 DEF Session!Next
<1>7. CASE CloseStep
  <2>1. Outbox' = {}
    BY <1>7, KindsOfQueues DEF CloseStep, Outbox
  <2>2. Session!Close
    BY <1>7, <2>1 DEF CloseStep, Session!Close
  <2> QED
    BY <2>2 DEF Session!Next
<1> QED
  BY <1>1, <1>2, <1>3, <1>4, <1>5, <1>6, <1>7 DEF SessionStep

(* The controller's sessions with the cloud are those of CloudSession.      *)
THEOREM Refinement ==
  ASSUME 0 \notin SecSwitches
  PROVE  Spec => RefinesSession
<1>1. Init => Session!Init
  <2> SUFFICES ASSUME Init PROVE Session!Init
    OBVIOUS
  <2>1. SessionFacts
    BY InitIndInv, SessionState
  <2>2. Outbox = {}
    BY DEF Init, Outbox, KindsIn
  <2> QED
    BY <2>1, <2>2 DEF Init, Session!Init, SessionFacts, Offline
<1>2. IndInv /\ SessionFacts /\ SessionFacts' /\ [Next]_vars => [Session!Next]_(Session!vars)
  <2> SUFFICES ASSUME IndInv, SessionFacts, SessionFacts', [Next]_vars
               PROVE  [Session!Next]_(Session!vars)
    OBVIOUS
  <2>1. SessionStep
    BY NextIsSessionStep, NothingSent DEF vars, messageVars
  <2>2. sendQ \in Seq(SendKinds)
    BY DEF IndInv, TypeOK
  <2> QED
    BY <2>1, <2>2, RefinementStep
<1>3. IndInv => SessionFacts
  BY SessionState
<1> QED
  BY <1>1, <1>2, <1>3, Inductive, PTL DEF Spec, RefinesSession, Session!Spec
=============================================================================
