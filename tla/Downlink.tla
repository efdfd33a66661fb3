------------------------------- MODULE Downlink -------------------------------
(***************************************************************************)
(* The way of a message from the cloud to the MCU: the loop of QC_Cloudfunc*)
(* reads the socket, handles the complete message, which appends it to the *)
(* UART buffer, and flushes the buffer; notices to the MCU are appended by *)
(* every context, and the UART thread flushes too.                         *)
(***************************************************************************)
EXTENDS CloudAssembly, UartTx

CONSTANTS
  Cloud,        \* the cloud thread, one of the Flushers
  MaxNotices,   \* a bound on the frames that do not come from the cloud
  MaxLosses     \* a bound on the connections that are lost

ASSUME DownlinkAssumption ==
  Cloud \in Flushers /\ MaxNotices \in Nat /\ MaxLosses \in Nat

VARIABLES
  forwarded,    \* the frames that are messages of the cloud: <<frame, message>>
  forwarding,   \* the message the cloud thread is appending, 0 when none
  refused,      \* messages the full UART buffer or a busy module refused
  notices,      \* frames of other origin so far
  losses        \* connections lost so far

downVars == <<forwarded, forwarding, refused, notices, losses>>
vars == <<cloudVars, uartVars, downVars>>

Init == /\ CloudInit /\ UartInit
        /\ forwarded = {} /\ forwarding = 0 /\ refused = {} /\ notices = 0 /\ losses = 0

CloudIdle == pc[Cloud] = "idle"

Recv == /\ CloudIdle /\ RecvDataFromCloud
        /\ UNCHANGED <<uartVars, downVars>>

Send == CloudSend /\ UNCHANGED <<uartVars, downVars>>

(* PCT_HandleMoudleMsg forwards the message to the MCU; a module that still *)
(* waits for the MCU's answer, or a full buffer, refuses it.                *)
Handle ==
  /\ CloudIdle /\ HandleEvent
  /\ \/ /\ Genuine # {}
        /\ \E l \in FrameLens : CheckLen(Cloud, l)
        /\ forwarding' = Last(handled')
        /\ UNCHANGED refused
     \/ /\ refused' = refused \cup Genuine
        /\ UNCHANGED <<forwarding, uartVars>>
  /\ UNCHANGED <<forwarded, notices, losses>>

(* The statements of QC_SendDataToMoudle; a message of the cloud is         *)
(* forwarded with the last one.                                             *)
AppendFrame(c) ==
  /\ Append_(c)
  /\ IF c = Cloud /\ forwarding # 0 /\ pc'[c] = "idle"
     THEN /\ forwarded' = forwarded \cup {<<Len(frames'), forwarding>>}
          /\ forwarding' = 0
     ELSE UNCHANGED <<forwarded, forwarding>>
  /\ UNCHANGED <<cloudVars, refused, notices, losses>>

(* PCT_SendNotifyMsg, and the retries of PCT_SendMoudleTimeout.             *)
Notify(c) ==
  /\ notices < MaxNotices
  /\ c = Cloud => ~queued
  /\ \E l \in FrameLens : CheckLen(c, l)
  /\ notices' = notices + 1
  /\ UNCHANGED <<cloudVars, forwarded, forwarding, refused, losses>>

FlushBuffer(c) ==
  /\ c = Cloud => ~queued
  /\ Flush(c)
  /\ UNCHANGED <<cloudVars, downVars>>

(* The connection is lost and made again; the frames in the UART buffer and *)
(* on the wire stay, and are no longer counted as the cloud's.              *)
Lost ==
  /\ CloudIdle /\ Reconnect
  /\ losses < MaxLosses /\ losses' = losses + 1
  /\ forwarded' = {} /\ refused' = {}
  /\ UNCHANGED <<uartVars, forwarding, notices>>

(* A behaviour is followed up to the first collision in the UART buffer.    *)
Step ==
  \/ Send \/ Recv \/ Handle \/ Lost
  \/ \E c \in Contexts : AppendFrame(c) \/ Notify(c)
  \/ \E c \in Flushers : FlushBuffer(c)

Next == ~collided /\ Step

(* The loops of both threads go on and the UART takes bytes in the end; the *)
(* cloud sends when it likes.                                               *)
Fairness ==
  /\ WF_vars(Recv) /\ WF_vars(Handle)
  /\ \A c \in Contexts : WF_vars(AppendFrame(c))
  /\ \A c \in Flushers : /\ WF_vars(FlushBuffer(c))
                         /\ SF_vars(FlushBuffer(c) /\ wire' # wire)

Spec == Init /\ [][Next]_vars /\ Fairness

-----------------------------------------------------------------------------
TooLong(k) == LengthOf(k) > MSG_BUFFER_MAXLEN
Paced      == ~hurried /\ \A k \in 1..sent : ~TooLong(k)

(* A cloud that waits until its message was handled before it sends the     *)
(* next one, and sends none that is longer than the buffer, loses none of   *)
(* them but those refused: whatever the segments, the buffer starts at a    *)
(* message and is never left full (MSG_RecvData), every message is handled  *)
(* in its turn, and the MCU's frames carry them once and in order.          *)
PacedInOrder ==
  Paced =>
    /\ buffer.status # "IDLE" => buffer.from = BytesOf(Len(handled))
    /\ buffer.status = "FULL" => queued
    /\ handled = [k \in 1..Len(handled) |-> k]
    /\ {m[2] : m \in forwarded} \cup refused \cup ({forwarding} \ {0}) = ToSet(handled)
    /\ \A m, n \in forwarded : m[1] < n[1] => m[2] < n[2]

(* And what a paced cloud sent is handled in the end (PCT_HandleEvent).     *)
PacedMessagesArrive ==
  /\ []PacedInOrder
  /\ (Paced /\ sent > Len(handled)) ~> (~Paced \/ collided \/ sent = Len(handled))
=============================================================================
