--------------------------- MODULE OtaTftp_proofs ---------------------------
(***************************************************************************)
(* Proofs about OtaTftp, for images of any number of blocks, any number of *)
(* transfers and of packets in flight, and any limits of the retries.      *)
(*                                                                         *)
(* BootableIsImage rests on two facts.  Until a block was stored, only the *)
(* first one can be on its way (FirstIsFirst), although the server may     *)
(* have started many transfers; so the partition is erased before anything *)
(* is stored, and while _ota_tftp runs the partition has its old image or  *)
(* no magic word (FlashInWork).                                            *)
(*                                                                         *)
(* StoredInOrder rests on OneTransfer: while one transfer runs undisturbed *)
(* the server is at the block that was stored last or at the next one, and *)
(* the packets on their way are numbered in between and in order.  So the  *)
(* block that is not the last one is always the next one.                  *)
(***************************************************************************)
EXTENDS OtaTftp, SequenceTheorems, TLAPS

Channels(S) == [Ports -> Seq(S)]

FirstIsFirst ==
  pkt_seq_last = 0 =>
    /\ server \in [Ports -> {0, 1, Finished, Idle}]
    /\ toClient \in Channels({OACK, 1, Error})
    /\ toServer \in Channels({0, RRQ})

FlashInWork ==
  /\ partition_entries = Table
  /\ \A p \in 1 .. 2 : p # Target => flash[p].data = OldImage
  /\ Running /\ pkt_seq_last = 0 => flash[Target].data = OldImage
  /\ Running /\ pkt_seq_last # 0 => ~flash[Target].magic
  /\ ret = "ok" => flash[Target].magic /\ flash[Target].data = NewImage /\ file = "sound"
  /\ ret # "ok" => (flash[Target].magic => flash[Target].data = OldImage)

TimeoutsCounted == Running => retry_times <= MaxTimeouts

IndInv == TypeOK /\ FirstIsFirst /\ FlashInWork /\ TimeoutsCounted /\ ActiveStaysBootable

-----------------------------------------------------------------------------
(* The constants and the packets.                                           *)
LEMMA Numbers ==
  /\ Blocks \in Nat /\ Blocks > 0 /\ InFlight \in Nat /\ InFlight > 0
  /\ Transfers \in Nat /\ MaxResends \in Nat /\ MaxTimeouts \in Nat
  /\ QCA_OTA_MAX_TFTP_RETRY_TIMES \in Nat
  /\ OldImage # NewImage
<1>1. Blocks \in Nat /\ Blocks > 0
  BY TftpAssumption
<1>2. OldImage[1] # NewImage[1]
  BY <1>1 DEF OldImage, NewImage, Old
<1> QED
  BY <1>1, <1>2, TftpAssumption

LEMMA TargetIs ==
  ASSUME partition_entries = Table
  PROVE  /\ Target \in 1 .. 2 /\ Target = upgrade_partition
         /\ large /\ current_partition = 1 => Target = 2
BY DEF Target, Table, upgrade_partition

(* A packet put into a channel or taken out of it.                          *)
LEMMA PutType ==
  ASSUME NEW S, NEW c \in Seq(S), NEW p \in S
  PROVE  Put(c, p) \in Seq(S)
BY DEF Put

LEMMA RemoveType ==
  ASSUME NEW S, NEW c \in Seq(S), NEW i \in DOMAIN c
  PROVE  RemoveAt(c, i) \in Seq(S) /\ c[i] \in S
<1>1. i \in 1 .. Len(c) /\ Len(c) \in Nat /\ \A k \in 1 .. Len(c) : c[k] \in S
  OBVIOUS
<1>2. SubSeq(c, 1, i - 1) \in Seq(S)
  <2>1. 1 \in Int /\ i - 1 \in Int /\ \A k \in 1 .. i - 1 : c[k] \in S
    BY <1>1
  <2> QED
    BY <2>1, SubSeqProperties, Zenon
<1>3. SubSeq(c, i + 1, Len(c)) \in Seq(S)
  <2>1. i + 1 \in Int /\ Len(c) \in Int /\ \A k \in i + 1 .. Len(c) : c[k] \in S
    BY <1>1
  <2> QED
    BY <2>1, SubSeqProperties, Zenon
<1> QED
  BY <1>1, <1>2, <1>3, ConcatProperties DEF RemoveAt

LEMMA PutInto ==
  ASSUME NEW S, NEW f \in Channels(S), NEW t \in Ports, NEW p \in S
  PROVE  [f EXCEPT ![t] = Put(@, p)] \in Channels(S)
<1>1. Put(f[t], p) \in Seq(S)
  BY PutType DEF Channels
<1> QED
  BY <1>1 DEF Channels

LEMMA RemoveFrom ==
  ASSUME NEW S, NEW f \in Channels(S), NEW t \in Ports, NEW i \in DOMAIN f[t]
  PROVE  [f EXCEPT ![t] = RemoveAt(@, i)] \in Channels(S) /\ f[t][i] \in S
<1>1. RemoveAt(f[t], i) \in Seq(S) /\ f[t][i] \in S
  BY RemoveType DEF Channels
<1> QED
  BY <1>1 DEF Channels

Images == [1 .. Blocks -> 0 .. Blocks + 1]

LEMMA StoredType ==
  ASSUME TypeOK, partition_entries = Table, NEW p \in 1 .. Blocks
  PROVE  Stored(p) \in Images
<1>1. Before(p) \in Images
  BY Numbers, TargetIs DEF TypeOK, Before, Images, Erased
<1>2. p \in 0 .. Blocks + 1
  BY Numbers
<1> QED
  BY <1>1, <1>2 DEF Stored, Images

-----------------------------------------------------------------------------
(* Types.                                                                   *)
LEMMA InitTyped == Init => TypeOK
<1> SUFFICES ASSUME Init PROVE TypeOK
  OBVIOUS
<1> USE Numbers
<1>1. flash \in [1 .. 2 -> [magic : BOOLEAN, data : [1 .. Blocks -> 0 .. Blocks + 1]]]
  BY DEF Init, OldImage, Old
<1>2. /\ server \in [Ports -> 0 .. Blocks + 2] /\ resends \in [Ports -> 0 .. MaxResends]
      /\ toServer \in Channels(0 .. Blocks + 1) /\ toClient \in Channels(0 .. Blocks + 1)
  BY DEF Init, Idle, Channels
<1>3. partition_entries \in [1 .. 2 -> 1 .. 2]
  BY DEF Init, Table
<1>4. requests \in 0 .. InFlight
  BY DEF Init
<1>5. retry_times \in 0 .. MaxTimeouts + 1 /\ retry_count \in 0 .. QCA_OTA_MAX_TFTP_RETRY_TIMES
  BY DEF Init
<1>6. large \in BOOLEAN /\ reordered \in BOOLEAN
  BY Zenon DEF Init
<1>7. /\ file \in {"sound", "damaged", "foreign"} /\ current_partition \in {0, 1}
      /\ ret = "none" /\ tftp_state = "RRQ" /\ sin_port = TFTP_SERVER_PORT
      /\ pkt_seq_last \in 0 .. Blocks /\ total_rx_bytes \in Nat
  BY DEF Init
<1> QED
  BY <1>1, <1>2, <1>3, <1>4, <1>5, <1>6, <1>7 DEF TypeOK, Channels

(* What a block does to the types of what it changes.                       *)
LEMMA StoreBlockTyped ==
  ASSUME TypeOK, partition_entries = Table, NEW t \in Ports, NEW p \in 1 .. Blocks,
         StoreBlock(t, p)
  PROVE  /\ partition_entries' = Table
         /\ flash' \in [1 .. 2 -> [magic : BOOLEAN, data : Images]]
         /\ ret' \in {"none", "ok", "fail", "header", "timeout"} /\ tftp_state' \in {"RRQ", "DATA"}
         /\ pkt_seq_last' = p /\ total_rx_bytes' \in Nat
         /\ retry_count' \in 0 .. QCA_OTA_MAX_TFTP_RETRY_TIMES
         /\ toServer' \in Channels(0 .. Blocks + 1)
<1> USE Numbers
<1>t. Target \in 1 .. 2 /\ Stored(p) \in Images /\ Images = [1 .. Blocks -> 0 .. Blocks + 1]
  BY TargetIs, StoredType DEF Images
<1>a. /\ p \in 0 .. Blocks + 1 /\ 1 \in 0 .. Blocks + 1 /\ RRQ \in 0 .. Blocks + 1
      /\ toServer \in Channels(0 .. Blocks + 1)
  BY DEF RRQ, TypeOK, Channels
<1>b. \A q \in 0 .. Blocks + 1 :
        [toServer EXCEPT ![t] = Put(@, q)] \in Channels(0 .. Blocks + 1)
  BY <1>a, PutInto
<1>c. [toServer EXCEPT ![t] = Put(Put(@, p), RRQ)] \in Channels(0 .. Blocks + 1)
  <2>1. Put(Put(toServer[t], p), RRQ) \in Seq(0 .. Blocks + 1)
    <3>1. toServer[t] \in Seq(0 .. Blocks + 1)
      BY <1>a DEF Channels
    <3> QED
      BY <3>1, <1>a, PutType
  <2> QED
    BY <2>1, <1>a DEF Channels
<1>d. \A m \in BOOLEAN : [flash EXCEPT ![Target] = [magic |-> m, data |-> Stored(p)]]
                             \in [1 .. 2 -> [magic : BOOLEAN, data : Images]]
  BY <1>t DEF TypeOK
<1>e. ASSUME Store(p) PROVE flash' \in [1 .. 2 -> [magic : BOOLEAN, data : Images]]
  <2>1. (p # 1 /\ flash[Target].magic) \in BOOLEAN
    OBVIOUS
  <2> QED
    BY <1>e, <1>d, <2>1 DEF Store
<1>1. CASE p = 1 /\ RefuseHeader(t)
  BY <1>1, <1>b, <1>a, <1>t DEF RefuseHeader, Acknowledge, TypeOK, storage
<1>2. CASE Continue(t, p)
  <2>1. toServer' \in Channels(0 .. Blocks + 1)
    BY <1>2, <1>b, <1>a DEF Continue, Acknowledge
  <2>2. flash' \in [1 .. 2 -> [magic : BOOLEAN, data : Images]]
    BY <1>2, <1>e DEF Continue
  <2> QED
    BY <1>2, <2>1, <2>2 DEF Continue, TypeOK
<1>3. CASE Succeed(t, p)
  <2>1. partition_entries' = Table
    BY <1>3 DEF Succeed, SwapPartitionEntries, SetPartitionBase
  <2>2. flash' \in [1 .. 2 -> [magic : BOOLEAN, data : Images]]
    BY <1>3, <1>d DEF Succeed
  <2>3. toServer' \in Channels(0 .. Blocks + 1)
    BY <1>3, <1>b, <1>a DEF Succeed, Acknowledge
  <2>4. total_rx_bytes' \in Nat
    BY <1>3 DEF Succeed, TypeOK
  <2>5. /\ ret' = "ok" /\ tftp_state' = "DATA" /\ pkt_seq_last' = p
        /\ retry_count' = retry_count
    BY <1>3 DEF Succeed
  <2> QED
    BY <2>1, <2>2, <2>3, <2>4, <2>5 DEF TypeOK
<1>4. CASE AskAgain(t, p)
  BY <1>4, <1>c, <1>e DEF AskAgain, TypeOK
<1>5. CASE GiveUp(t, p)
  <2>1. toServer' \in Channels(0 .. Blocks + 1)
    BY <1>5, <1>b, <1>a DEF GiveUp, Acknowledge
  <2>2. flash' \in [1 .. 2 -> [magic : BOOLEAN, data : Images]]
    BY <1>5, <1>e DEF GiveUp
  <2>3. total_rx_bytes' \in Nat
    BY <1>5 DEF GiveUp, TypeOK
  <2>4. /\ ret' = "fail" /\ tftp_state' = "DATA" /\ pkt_seq_last' = p
        /\ retry_count' = retry_count /\ partition_entries' = Table
    BY <1>5 DEF GiveUp
  <2> QED
    BY <2>1, <2>2, <2>3, <2>4 DEF TypeOK
<1> QED
  BY <1>1, <1>2, <1>3, <1>4, <1>5 DEF StoreBlock

(* A step that leaves most variables alone keeps TypeOK if what it changes  *)
(* has its type.                                                            *)
LEMMA ServerTyped ==
  ASSUME TypeOK, UNCHANGED <<place, storage, client>>,
         requests' \in 0 .. InFlight,
         server' \in [Ports -> 0 .. Blocks + 2], resends' \in [Ports -> 0 .. MaxResends],
         toServer' \in Channels(0 .. Blocks + 1), toClient' \in Channels(0 .. Blocks + 1),
         reordered' \in BOOLEAN
  PROVE  TypeOK'
<1>1. large' \in BOOLEAN /\ flash' = flash /\ partition_entries' = partition_entries
  BY Zenon DEF TypeOK, place, storage
<1> QED
  BY <1>1 DEF TypeOK, Channels, place, storage, client

LEMMA LoseTyped == TypeOK /\ (\E t \in Ports : Lose(t)) => TypeOK'
<1> SUFFICES ASSUME TypeOK, NEW t \in Ports, Lose(t) PROVE TypeOK'
  OBVIOUS
<1>1. /\ toServer \in Channels(0 .. Blocks + 1) /\ toClient \in Channels(0 .. Blocks + 1)
      /\ requests \in 0 .. InFlight
  BY DEF TypeOK, Channels
<1>2. toServer' \in Channels(0 .. Blocks + 1) /\ toClient' \in Channels(0 .. Blocks + 1)
  BY <1>1, RemoveFrom DEF Lose
<1>3. requests' \in 0 .. InFlight
  BY <1>1, Numbers DEF Lose
<1>4. /\ server' \in [Ports -> 0 .. Blocks + 2] /\ resends' \in [Ports -> 0 .. MaxResends]
      /\ reordered' \in BOOLEAN /\ UNCHANGED <<place, storage, client>>
  BY Zenon DEF Lose, TypeOK, serving
<1> QED
  BY <1>2, <1>3, <1>4, ServerTyped

LEMMA StartTyped == TypeOK /\ (\E t \in Ports : Start(t)) => TypeOK'
<1> SUFFICES ASSUME TypeOK, NEW t \in Ports, Start(t) PROVE TypeOK'
  OBVIOUS
<1>1. /\ toServer \in Channels(0 .. Blocks + 1) /\ toClient \in Channels(0 .. Blocks + 1)
      /\ requests \in 0 .. InFlight /\ server \in [Ports -> 0 .. Blocks + 2]
  BY DEF TypeOK, Channels
<1>2. PICK p \in {OACK, 1, Error} : /\ server' = [server EXCEPT ![t] = p]
                                   /\ toClient' = [toClient EXCEPT ![t] = Put(@, p)]
  BY DEF Start
<1>3. p \in 0 .. Blocks + 1 /\ p \in 0 .. Blocks + 2
  BY Numbers DEF OACK, Error
<1>4. toClient' \in Channels(0 .. Blocks + 1) /\ server' \in [Ports -> 0 .. Blocks + 2]
  BY <1>1, <1>2, <1>3, PutInto
<1>5. requests' \in 0 .. InFlight
  BY <1>1, Numbers DEF Start
<1>6. /\ toServer' \in Channels(0 .. Blocks + 1) /\ resends' \in [Ports -> 0 .. MaxResends]
      /\ reordered' \in BOOLEAN /\ UNCHANGED <<place, storage, client>>
  BY <1>1, Zenon DEF Start, TypeOK
<1> QED
  BY <1>4, <1>5, <1>6, ServerTyped

LEMMA ServeTyped == TypeOK /\ (\E t \in Ports : Serve(t)) => TypeOK'
<1> SUFFICES ASSUME TypeOK, NEW t \in Ports, Serve(t) PROVE TypeOK'
  OBVIOUS
<1>1. /\ toServer \in Channels(0 .. Blocks + 1) /\ toClient \in Channels(0 .. Blocks + 1)
      /\ server \in [Ports -> 0 .. Blocks + 2]
  BY DEF TypeOK, Channels
<1>2. PICK i \in DOMAIN toServer[t] :
        /\ toServer' = [toServer EXCEPT ![t] = RemoveAt(@, i)]
        /\ reordered' = (reordered \/ i > 1)
        /\ \/ /\ toServer[t][i] < Blocks
              /\ server' = [server EXCEPT ![t] = toServer[t][i] + 1]
              /\ toClient' = [toClient EXCEPT ![t] = Put(@, toServer[t][i] + 1)]
           \/ server' = [server EXCEPT ![t] = Finished] /\ UNCHANGED toClient
           \/ /\ server' = [server EXCEPT ![t] = Finished]
              /\ toClient' = [toClient EXCEPT ![t] = Put(@, Error)]
           \/ UNCHANGED <<server, toClient>>
  BY DEF Serve
<1>3. toServer' \in Channels(0 .. Blocks + 1) /\ toServer[t][i] \in 0 .. Blocks + 1
  BY <1>1, <1>2, RemoveFrom
<1>4. \A p \in 0 .. Blocks + 1 :
        [toClient EXCEPT ![t] = Put(@, p)] \in Channels(0 .. Blocks + 1)
  BY <1>1, PutInto
<1>5. /\ Error \in 0 .. Blocks + 1 /\ Finished \in 0 .. Blocks + 2
      /\ toServer[t][i] < Blocks =>
           toServer[t][i] + 1 \in 0 .. Blocks + 1 /\ toServer[t][i] + 1 \in 0 .. Blocks + 2
  BY <1>3, Numbers DEF Error, Finished
<1>6. toClient' \in Channels(0 .. Blocks + 1)
  BY <1>1, <1>2, <1>4, <1>5
<1>7. server' \in [Ports -> 0 .. Blocks + 2]
  BY <1>1, <1>2, <1>5
<1>8. reordered' \in BOOLEAN
  BY <1>2
<1>9. /\ resends' \in [Ports -> 0 .. MaxResends] /\ UNCHANGED <<place, storage, client>>
      /\ requests' \in 0 .. InFlight
  BY Zenon DEF Serve, TypeOK
<1> QED
  BY <1>3, <1>6, <1>7, <1>8, <1>9, ServerTyped

LEMMA SendAgainTyped == TypeOK /\ (\E t \in Ports : SendAgain(t)) => TypeOK'
<1> SUFFICES ASSUME TypeOK, NEW t \in Ports, SendAgain(t) PROVE TypeOK'
  OBVIOUS
<1>1. /\ toServer \in Channels(0 .. Blocks + 1) /\ toClient \in Channels(0 .. Blocks + 1)
      /\ server \in [Ports -> 0 .. Blocks + 2] /\ resends \in [Ports -> 0 .. MaxResends]
  BY DEF TypeOK, Channels
<1>2. server[t] \in 0 .. Blocks + 1
  BY <1>1, Numbers DEF SendAgain
<1>3. toClient' \in Channels(0 .. Blocks + 1)
  BY <1>1, <1>2, PutInto DEF SendAgain
<1>4. resends' \in [Ports -> 0 .. MaxResends]
  BY <1>1, Numbers DEF SendAgain
<1>5. /\ toServer' \in Channels(0 .. Blocks + 1) /\ server' \in [Ports -> 0 .. Blocks + 2]
      /\ reordered' \in BOOLEAN /\ UNCHANGED <<place, storage, client>>
      /\ requests' \in 0 .. InFlight
  BY <1>1, Zenon DEF SendAgain, TypeOK
<1> QED
  BY <1>3, <1>4, <1>5, ServerTyped

(* What a step of the client changes.                                       *)
LEMMA ClientTyped ==
  ASSUME TypeOK, UNCHANGED <<place, serving>>,
         partition_entries' \in [1 .. 2 -> 1 .. 2],
         flash' \in [1 .. 2 -> [magic : BOOLEAN, data : Images]],
         ret' \in {"none", "ok", "fail", "header", "timeout"},
         tftp_state' \in {"RRQ", "OACK", "DATA"},
         pkt_seq_last' \in 0 .. Blocks, total_rx_bytes' \in Nat,
         retry_times' \in 0 .. MaxTimeouts + 1,
         retry_count' \in 0 .. QCA_OTA_MAX_TFTP_RETRY_TIMES,
         sin_port' \in {TFTP_SERVER_PORT} \cup Ports,
         requests' \in 0 .. InFlight,
         toServer' \in Channels(0 .. Blocks + 1), toClient' \in Channels(0 .. Blocks + 1),
         reordered' \in BOOLEAN
  PROVE  TypeOK'
<1>1. large' \in BOOLEAN
  BY Zenon DEF TypeOK, place
<1>2. /\ file' \in {"sound", "damaged", "foreign"} /\ current_partition' \in {0, 1}
      /\ server' \in [Ports -> 0 .. Blocks + 2] /\ resends' \in [Ports -> 0 .. MaxResends]
  BY DEF TypeOK, place, serving
<1> QED
  BY <1>1, <1>2 DEF TypeOK, Channels, Images

LEMMA ReceiveTyped ==
  ASSUME TypeOK, partition_entries = Table, NEW t \in Ports, NEW i \in DOMAIN toClient[t],
         Receive(t, i)
  PROVE  TypeOK' /\ partition_entries' = Table
<1> DEFINE p == toClient[t][i]
<1> USE Numbers
<1>1. toServer \in Channels(0 .. Blocks + 1) /\ toClient \in Channels(0 .. Blocks + 1)
  BY DEF TypeOK, Channels
<1>2. toClient' \in Channels(0 .. Blocks + 1)
  BY <1>1, RemoveFrom DEF Receive
<1>3. reordered' \in BOOLEAN
  BY DEF Receive
<1>4. /\ UNCHANGED <<place, serving>> /\ requests' \in 0 .. InFlight
      /\ retry_times' \in 0 .. MaxTimeouts + 1
  BY DEF Receive, TypeOK
<1>5. \A q \in 0 .. Blocks + 1 :
        [toServer EXCEPT ![t] = Put(@, q)] \in Channels(0 .. Blocks + 1)
  BY <1>1, PutInto
<1>6. pkt_seq_last \in 0 .. Blocks + 1
  BY DEF TypeOK
<1>7. flash \in [1 .. 2 -> [magic : BOOLEAN, data : Images]]
  BY DEF TypeOK, Images
<1>8. partition_entries \in [1 .. 2 -> 1 .. 2]
  BY DEF TypeOK
<1>a. CASE p = Error /\ ret' = "fail" /\ UNCHANGED <<storage, tftp_state, pkt_seq_last,
             total_rx_bytes, retry_count, sin_port, toServer>>
  <2>1. toServer' \in Channels(0 .. Blocks + 1) /\ flash' = flash
        /\ partition_entries' = partition_entries
    BY <1>1, <1>a DEF storage
  <2>2. /\ ret' \in {"none", "ok", "fail", "header", "timeout"}
        /\ tftp_state' \in {"RRQ", "OACK", "DATA"}
        /\ pkt_seq_last' \in 0 .. Blocks /\ total_rx_bytes' \in Nat
        /\ retry_count' \in 0 .. QCA_OTA_MAX_TFTP_RETRY_TIMES
        /\ sin_port' \in {TFTP_SERVER_PORT} \cup Ports
    BY <1>a DEF TypeOK
  <2> QED
    BY <2>1, <2>2, <1>2, <1>3, <1>4, <1>7, <1>8, ClientTyped
<1>b. CASE /\ sin_port' = t
           /\ UNCHANGED <<storage, ret, pkt_seq_last, total_rx_bytes, retry_count>>
           /\ \/ tftp_state' = "OACK" /\ Acknowledge(t, pkt_seq_last)
              \/ tftp_state' = "DATA" /\ p \in 1 .. Blocks /\ Acknowledge(t, p)
  <2>1. /\ toServer' \in Channels(0 .. Blocks + 1) /\ flash' = flash
        /\ partition_entries' = partition_entries
    BY <1>b, <1>5, <1>6 DEF storage, Acknowledge
  <2>2. /\ ret' \in {"none", "ok", "fail", "header", "timeout"}
        /\ tftp_state' \in {"RRQ", "OACK", "DATA"}
        /\ pkt_seq_last' \in 0 .. Blocks /\ total_rx_bytes' \in Nat
        /\ retry_count' \in 0 .. QCA_OTA_MAX_TFTP_RETRY_TIMES
        /\ sin_port' \in {TFTP_SERVER_PORT} \cup Ports
    BY <1>b DEF TypeOK
  <2> QED
    BY <2>1, <2>2, <1>2, <1>3, <1>4, <1>7, <1>8, ClientTyped
<1>c. CASE p \in 1 .. Blocks /\ sin_port' = t /\ StoreBlock(t, p)
  <2>1. /\ partition_entries' = Table
        /\ flash' \in [1 .. 2 -> [magic : BOOLEAN, data : Images]]
        /\ ret' \in {"none", "ok", "fail", "header", "timeout"}
        /\ tftp_state' \in {"RRQ", "DATA"}
        /\ pkt_seq_last' = p /\ total_rx_bytes' \in Nat
        /\ retry_count' \in 0 .. QCA_OTA_MAX_TFTP_RETRY_TIMES
        /\ toServer' \in Channels(0 .. Blocks + 1)
    BY <1>c, StoreBlockTyped
  <2>2. /\ tftp_state' \in {"RRQ", "OACK", "DATA"} /\ pkt_seq_last' \in 0 .. Blocks
        /\ sin_port' \in {TFTP_SERVER_PORT} \cup Ports
        /\ partition_entries' \in [1 .. 2 -> 1 .. 2]
    BY <1>c, <2>1 DEF Table
  <2> QED
    BY <2>1, <2>2, <1>2, <1>3, <1>4, ClientTyped
<1> QED
  BY <1>a, <1>b, <1>c DEF Receive, storage

LEMMA TimeoutTyped ==
  ASSUME TypeOK, TimeoutsCounted, Running, Timeout
  PROVE  TypeOK' /\ UNCHANGED storage /\ TimeoutsCounted'
<1> USE Numbers
<1>1. toServer \in Channels(0 .. Blocks + 1) /\ toClient' \in Channels(0 .. Blocks + 1)
  BY DEF TypeOK, Channels, Timeout
<1>2. retry_times \in 0 .. MaxTimeouts
  BY DEF TypeOK, TimeoutsCounted
<1>3. \A t \in Ports, q \in 0 .. Blocks + 1 :
        [toServer EXCEPT ![t] = Put(@, q)] \in Channels(0 .. Blocks + 1)
  BY <1>1, PutInto
<1>4. RRQ \in 0 .. Blocks + 1 /\ pkt_seq_last \in 0 .. Blocks + 1
  BY DEF RRQ, TypeOK
<1>5. toServer' \in Channels(0 .. Blocks + 1) /\ requests' \in 0 .. InFlight
  <2>1. CASE UNCHANGED <<requests, toServer>>
    BY <2>1, <1>1 DEF TypeOK
  <2>2. CASE SendLast
    <3>1. CASE sin_port = TFTP_SERVER_PORT
      <4>1. requests' \in 0 .. InFlight
        BY <2>2 DEF SendLast, TypeOK
      <4>2. [toServer EXCEPT ![sin_port] = Put(@, pkt_seq_last)] \in Channels(0 .. Blocks + 1)
        <5>1. sin_port \notin Ports
          BY <3>1 DEF TFTP_SERVER_PORT, Ports
        <5> QED
          BY <5>1, <1>1 DEF Channels
      <4> QED
        BY <2>2, <3>1, <4>1, <4>2, <1>1 DEF SendLast, Acknowledge
    <3>2. CASE sin_port \in Ports
      BY <2>2, <3>2, <1>1, <1>3, <1>4 DEF SendLast, Acknowledge, TypeOK
    <3> QED
      BY <3>1, <3>2 DEF TypeOK
  <2> QED
    BY <2>1, <2>2 DEF Timeout
<1>6. /\ flash' \in [1 .. 2 -> [magic : BOOLEAN, data : Images]]
      /\ partition_entries' \in [1 .. 2 -> 1 .. 2] /\ UNCHANGED storage
  BY DEF Timeout, TypeOK, storage, Images
<1>7. /\ ret' \in {"none", "ok", "fail", "header", "timeout"}
      /\ tftp_state' \in {"RRQ", "OACK", "DATA"}
      /\ pkt_seq_last' \in 0 .. Blocks /\ total_rx_bytes' \in Nat
      /\ retry_count' \in 0 .. QCA_OTA_MAX_TFTP_RETRY_TIMES
      /\ sin_port' \in {TFTP_SERVER_PORT} \cup Ports
  BY DEF Timeout, TypeOK
<1>8. retry_times' \in 0 .. MaxTimeouts + 1
  BY <1>2 DEF Timeout
<1>9. reordered' \in BOOLEAN /\ UNCHANGED <<place, serving>>
  BY Zenon DEF Timeout, TypeOK
<1>10. TimeoutsCounted'
  BY <1>2 DEF Timeout, TimeoutsCounted, Running
<1> QED
  BY <1>1, <1>5, <1>6, <1>7, <1>8, <1>9, <1>10, ClientTyped

-----------------------------------------------------------------------------
(* Only the first block is on its way until one was stored.                 *)
LEMMA ServerKeepsFirst ==
  ASSUME TypeOK, FirstIsFirst, NEW t \in Ports, Start(t) \/ Serve(t) \/ SendAgain(t) \/ Lose(t)
  PROVE  FirstIsFirst'
<1> DEFINE First == {OACK, 1, Error}
           Asked == {0, RRQ}
<1> SUFFICES ASSUME pkt_seq_last' = 0
             PROVE  /\ server' \in [Ports -> {0, 1, Finished, Idle}]
                    /\ toClient' \in Channels(First)
                    /\ toServer' \in Channels(Asked)
  BY DEF FirstIsFirst
<1>1. pkt_seq_last = 0
  BY DEF Start, Serve, SendAgain, Lose, client
<1>2. /\ server \in [Ports -> {0, 1, Finished, Idle}]
      /\ toClient \in Channels(First) /\ toServer \in Channels(Asked)
  BY <1>1 DEF FirstIsFirst
<1>3. \A p \in First : [toClient EXCEPT ![t] = Put(@, p)] \in Channels(First)
  BY <1>2, PutInto
<1>4. CASE Start(t)
  <2>1. PICK p \in First : /\ server' = [server EXCEPT ![t] = p]
                          /\ toClient' = [toClient EXCEPT ![t] = Put(@, p)]
    BY <1>4 DEF Start
  <2>2. p \in {0, 1, Finished, Idle}
    BY DEF OACK, Error, Finished
  <2> QED
    BY <2>1, <2>2, <1>2, <1>3, <1>4 DEF Start
<1>5. CASE Serve(t)
  <2>1. PICK i \in DOMAIN toServer[t] :
          /\ toServer' = [toServer EXCEPT ![t] = RemoveAt(@, i)]
          /\ \/ /\ toServer[t][i] = server[t] /\ toServer[t][i] < Blocks
                /\ server' = [server EXCEPT ![t] = toServer[t][i] + 1]
                /\ toClient' = [toClient EXCEPT ![t] = Put(@, toServer[t][i] + 1)]
             \/ server' = [server EXCEPT ![t] = Finished] /\ UNCHANGED toClient
             \/ /\ server' = [server EXCEPT ![t] = Finished]
                /\ toClient' = [toClient EXCEPT ![t] = Put(@, Error)]
             \/ UNCHANGED <<server, toClient>>
    BY <1>5 DEF Serve
  <2>2. toServer' \in Channels(Asked) /\ toServer[t][i] \in Asked
    BY <1>2, <2>1, RemoveFrom
  <2>3. toServer[t][i] < Blocks => toServer[t][i] + 1 = 1
    BY <2>2, Numbers DEF RRQ
  <2>4. [toClient EXCEPT ![t] = Put(@, 1)] \in Channels(First)
        /\ [toClient EXCEPT ![t] = Put(@, Error)] \in Channels(First)
    BY <1>3
  <2>5. toClient' \in Channels(First)
    BY <2>1, <2>3, <2>4, <1>2
  <2>6. server' \in [Ports -> {0, 1, Finished, Idle}]
    BY <2>1, <2>3, <1>2
  <2> QED
    BY <2>2, <2>5, <2>6
<1>6. CASE SendAgain(t)
  <2>1. server[t] \in First
    BY <1>6, <1>2, Numbers DEF SendAgain, Finished, Idle, OACK
  <2> QED
    BY <1>2, <1>3, <1>6, <2>1 DEF SendAgain
<1>7. CASE Lose(t)
  <2>1. toServer' \in Channels(Asked) /\ toClient' \in Channels(First)
    BY <1>7, <1>2, RemoveFrom DEF Lose
  <2> QED
    BY <1>7, <1>2, <2>1 DEF Lose, serving
<1> QED
  BY <1>4, <1>5, <1>6, <1>7

LEMMA ReceiveKeepsFirst ==
  ASSUME TypeOK, partition_entries = Table, FirstIsFirst,
         NEW t \in Ports, NEW i \in DOMAIN toClient[t], Receive(t, i)
  PROVE  FirstIsFirst'
<1> SUFFICES ASSUME pkt_seq_last' = 0 PROVE FirstIsFirst'
  BY DEF FirstIsFirst
<1> DEFINE p == toClient[t][i]
<1>1. ~(p \in 1 .. Blocks /\ StoreBlock(t, p))
  <2>1. p \in 1 .. Blocks /\ StoreBlock(t, p) => pkt_seq_last' = p
    BY StoreBlockTyped
  <2> QED
    BY <2>1
<1>2. pkt_seq_last = 0
  BY <1>1 DEF Receive
<1>3. /\ server \in [Ports -> {0, 1, Finished, Idle}]
      /\ toClient \in Channels({OACK, 1, Error}) /\ toServer \in Channels({0, RRQ})
  BY <1>2 DEF FirstIsFirst
<1>4. p \in {OACK, 1, Error} /\ toClient' \in Channels({OACK, 1, Error})
  BY <1>3, RemoveFrom DEF Receive
<1>5. ~(p \in 1 .. Blocks /\ ~IsNew(p))
  BY <1>2, Numbers DEF IsNew
<1>6. [toServer EXCEPT ![t] = Put(@, 0)] \in Channels({0, RRQ})
  BY <1>3, PutInto
<1>7. toServer' \in Channels({0, RRQ})
  BY <1>1, <1>2, <1>3, <1>5, <1>6 DEF Receive, Acknowledge
<1>8. server' = server
  BY DEF Receive, serving
<1> QED
  BY <1>3, <1>4, <1>7, <1>8 DEF FirstIsFirst

LEMMA TimeoutKeepsFirst ==
  ASSUME TypeOK, FirstIsFirst, Timeout
  PROVE  FirstIsFirst'
<1> SUFFICES ASSUME pkt_seq_last' = 0 PROVE FirstIsFirst'
  BY DEF FirstIsFirst
<1>1. pkt_seq_last = 0
  BY DEF Timeout
<1>2. /\ server \in [Ports -> {0, 1, Finished, Idle}]
      /\ toClient \in Channels({OACK, 1, Error}) /\ toServer \in Channels({0, RRQ})
  BY <1>1 DEF FirstIsFirst
<1>3. \A q \in {0, RRQ} : \A port :
        [toServer EXCEPT ![port] = Put(@, q)] \in Channels({0, RRQ})
  <2> SUFFICES ASSUME NEW q \in {0, RRQ}, NEW port
               PROVE  [toServer EXCEPT ![port] = Put(@, q)] \in Channels({0, RRQ})
    OBVIOUS
  <2>1. CASE port \in Ports
    BY <2>1, <1>2, PutInto
  <2>2. CASE port \notin Ports
    BY <2>2, <1>2 DEF Channels
  <2> QED
    BY <2>1, <2>2
<1>4. toServer' \in Channels({0, RRQ})
  BY <1>1, <1>2, <1>3 DEF Timeout, SendLast, Acknowledge
<1>5. server' = server /\ toClient' = toClient
  BY DEF Timeout, serving
<1> QED
  BY <1>2, <1>4, <1>5 DEF FirstIsFirst

-----------------------------------------------------------------------------
(* The flash.                                                               *)
LEMMA FlashUntouched ==
  ASSUME TypeOK, FlashInWork, ActiveStaysBootable, UNCHANGED <<place, storage>>,
         \/ ret' = ret /\ pkt_seq_last' = pkt_seq_last
         \/ Running /\ ret' \in {"fail", "header", "timeout"}
  PROVE  FlashInWork' /\ ActiveStaysBootable'
<1>1. /\ flash' = flash /\ partition_entries' = partition_entries /\ file' = file
      /\ large' = large /\ current_partition' = current_partition /\ Target' = Target
  BY Zenon DEF place, storage, Target, upgrade_partition
<1>2. ActiveStaysBootable'
  BY <1>1, Zenon DEF ActiveStaysBootable
<1>3. CASE ret' = ret /\ pkt_seq_last' = pkt_seq_last
  BY <1>1, <1>2, <1>3, Zenon DEF FlashInWork, Running
<1>4. CASE Running /\ ret' \in {"fail", "header", "timeout"}
  <2>1. flash[Target].magic => flash[Target].data = OldImage
    BY <1>4, Zenon DEF FlashInWork
  <2>2. ret' # "none" /\ ret' # "ok"
    BY <1>4
  <2> QED
    BY <1>1, <1>2, <2>1, <2>2 DEF FlashInWork, Running
<1> QED
  BY <1>2, <1>3, <1>4

(* The partition after a block was stored in it.                            *)
LEMMA StoreKeepsFlash ==
  ASSUME TypeOK, FlashInWork, ActiveStaysBootable, Running, UNCHANGED place,
         NEW p \in 1 .. Blocks, pkt_seq_last = 0 => p = 1, pkt_seq_last' = p,
         partition_entries' = Table, Store(p), ret' \in {"none", "fail"}
  PROVE  FlashInWork' /\ ActiveStaysBootable'
<1>1. /\ partition_entries = Table /\ Target \in 1 .. 2
      /\ large /\ current_partition = 1 => Target = 2
  BY TargetIs DEF FlashInWork
<1>2. Target' = Target
  BY <1>1 DEF Target, upgrade_partition, place
<1>3. /\ \A q \in 1 .. 2 : q # Target => flash'[q] = flash[q]
      /\ flash'[Target].magic = (p # 1 /\ flash[Target].magic)
  BY <1>1 DEF Store, TypeOK
<1>4. ~flash'[Target].magic
  <2>1. CASE p = 1
    BY <1>3, <2>1
  <2>2. CASE pkt_seq_last # 0
    BY <1>3, <2>2 DEF FlashInWork
  <2> QED
    BY <2>1, <2>2
<1>5. ActiveStaysBootable'
  BY <1>1, <1>3 DEF ActiveStaysBootable, place
<1>6. \A q \in 1 .. 2 : q # Target => flash'[q].data = OldImage
  BY <1>3 DEF FlashInWork
<1>7. ret' # "ok" /\ pkt_seq_last' # 0
  OBVIOUS
<1> QED
  BY <1>2, <1>4, <1>5, <1>6, <1>7 DEF FlashInWork

LEMMA SucceedKeepsFlash ==
  ASSUME TypeOK, FlashInWork, ActiveStaysBootable, UNCHANGED place,
         NEW t \in Ports, NEW p \in 1 .. Blocks, Succeed(t, p)
  PROVE  FlashInWork' /\ ActiveStaysBootable'
<1>1. /\ partition_entries = Table /\ Target \in 1 .. 2
      /\ large /\ current_partition = 1 => Target = 2
  BY TargetIs DEF FlashInWork
<1>2. partition_entries' = Table
  BY <1>1 DEF Succeed, SwapPartitionEntries, SetPartitionBase
<1>3. Target' = Target
  BY <1>1, <1>2 DEF Target, upgrade_partition, place
<1>4. /\ \A q \in 1 .. 2 : q # Target => flash'[q] = flash[q]
      /\ flash'[Target].magic /\ flash'[Target].data = Stored(p)
  BY <1>1 DEF Succeed, TypeOK
<1>5. Stored(p) = NewImage /\ file' = "sound" /\ ret' = "ok"
  BY DEF Succeed, ChecksumMatches, place
<1>6. ActiveStaysBootable'
  BY <1>1, <1>4 DEF ActiveStaysBootable, place
<1>7. \A q \in 1 .. 2 : q # Target => flash'[q].data = OldImage
  BY <1>4 DEF FlashInWork
<1>8. ~Running'
  BY <1>5 DEF Running
<1> QED
  BY <1>2, <1>3, <1>4, <1>5, <1>6, <1>7, <1>8 DEF FlashInWork

LEMMA ReceiveKeepsFlash ==
  ASSUME TypeOK, FirstIsFirst, FlashInWork, ActiveStaysBootable, Running,
         NEW t \in Ports, NEW i \in DOMAIN toClient[t], Receive(t, i)
  PROVE  FlashInWork' /\ ActiveStaysBootable'
<1> DEFINE p == toClient[t][i]
<1>1. UNCHANGED place /\ partition_entries = Table
  BY DEF Receive, FlashInWork
<1>2. CASE UNCHANGED storage /\ ret' = ret /\ pkt_seq_last' = pkt_seq_last
  BY <1>1, <1>2, FlashUntouched
<1>3. CASE UNCHANGED storage /\ ret' \in {"fail", "header"}
  BY <1>1, <1>3, FlashUntouched
<1>4. CASE p \in 1 .. Blocks /\ StoreBlock(t, p)
  <2>1. pkt_seq_last = 0 => p = 1
    <3> SUFFICES ASSUME pkt_seq_last = 0 PROVE p = 1
      OBVIOUS
    <3>1. toClient \in Channels({OACK, 1, Error})
      BY DEF FirstIsFirst
    <3>2. p \in {OACK, 1, Error}
      BY <3>1, RemoveFrom
    <3> QED
      BY <1>4, <3>2, Numbers DEF OACK, Error
  <2>2. partition_entries' = Table /\ pkt_seq_last' = p
    BY <1>1, <1>4, StoreBlockTyped
  <2>3. CASE RefuseHeader(t)
    BY <1>1, <2>3, FlashUntouched DEF RefuseHeader
  <2>4. CASE Continue(t, p) \/ AskAgain(t, p) \/ GiveUp(t, p)
    <3>1. Store(p) /\ ret' \in {"none", "fail"}
      BY <2>4 DEF Continue, AskAgain, GiveUp, Running
    <3> QED
      BY <1>1, <1>4, <2>1, <2>2, <3>1, StoreKeepsFlash
  <2>5. CASE Succeed(t, p)
    BY <1>1, <1>4, <2>5, SucceedKeepsFlash
  <2> QED
    BY <1>4, <2>3, <2>4, <2>5 DEF StoreBlock
<1> QED
  BY <1>2, <1>3, <1>4 DEF Receive

-----------------------------------------------------------------------------
LEMMA InitInv == Init => IndInv
<1> SUFFICES ASSUME Init PROVE IndInv
  OBVIOUS
<1>1. TypeOK
  BY InitTyped
<1>2. FirstIsFirst
  <2>1. <<>> \in Seq({OACK, 1, Error}) /\ <<>> \in Seq({0, RRQ})
    OBVIOUS
  <2> QED
    BY <2>1 DEF Init, FirstIsFirst, Channels
<1>3. partition_entries = Table /\ ret = "none" /\ pkt_seq_last = 0 /\ retry_times = 0
  BY DEF Init
<1>4. \A p \in 1 .. 2 : flash[p].data = OldImage
  BY DEF Init
<1>5. FlashInWork
  BY <1>3, <1>4, TargetIs DEF FlashInWork
<1>6. TimeoutsCounted
  BY <1>3, Numbers DEF TimeoutsCounted
<1>7. ActiveStaysBootable
  BY DEF Init, ActiveStaysBootable
<1> QED
  BY <1>1, <1>2, <1>5, <1>6, <1>7 DEF IndInv

LEMMA NextInv == IndInv /\ [Next]_vars => IndInv'
<1> SUFFICES ASSUME IndInv, [Next]_vars PROVE IndInv'
  OBVIOUS
<1>0. TypeOK /\ FirstIsFirst /\ FlashInWork /\ TimeoutsCounted /\ ActiveStaysBootable
      /\ partition_entries = Table
  BY DEF IndInv, FlashInWork
<1>1. CASE Running /\ Timeout
  <2>1. TypeOK' /\ UNCHANGED storage /\ TimeoutsCounted' /\ FirstIsFirst'
    BY <1>0, <1>1, TimeoutTyped, TimeoutKeepsFirst
  <2>2. /\ UNCHANGED place /\ pkt_seq_last' = pkt_seq_last
        /\ ret' = ret \/ ret' = "timeout"
    BY <1>1 DEF Timeout
  <2>3. FlashInWork' /\ ActiveStaysBootable'
    BY <1>0, <1>1, <2>1, <2>2, FlashUntouched
  <2> QED
    BY <2>1, <2>3 DEF IndInv
<1>2. ASSUME Running, NEW t \in Ports, NEW i \in DOMAIN toClient[t], Receive(t, i)
      PROVE  IndInv'
  <2>1. TypeOK'
    BY <1>0, <1>2, ReceiveTyped
  <2>2. FirstIsFirst'
    BY <1>0, <1>2, ReceiveKeepsFirst
  <2>3. FlashInWork' /\ ActiveStaysBootable'
    BY <1>0, <1>2, ReceiveKeepsFlash
  <2>4. TimeoutsCounted'
    BY <1>2, Numbers DEF Receive, TimeoutsCounted
  <2> QED
    BY <2>1, <2>2, <2>3, <2>4 DEF IndInv
<1>3. ASSUME NEW t \in Ports, Start(t) \/ Serve(t) \/ SendAgain(t) \/ Lose(t)
      PROVE  IndInv'
  <2>1. TypeOK'
    BY <1>0, <1>3, StartTyped, ServeTyped, SendAgainTyped, LoseTyped
  <2>2. FirstIsFirst'
    BY <1>0, <1>3, ServerKeepsFirst
  <2>3. UNCHANGED <<place, storage, client>>
    BY <1>3 DEF Start, Serve, SendAgain, Lose
  <2>4. FlashInWork' /\ ActiveStaysBootable'
    BY <1>0, <2>3, FlashUntouched DEF client
  <2>5. TimeoutsCounted'
    BY <1>0, <2>3 DEF client, TimeoutsCounted, Running
  <2> QED
    BY <2>1, <2>2, <2>4, <2>5 DEF IndInv
<1>4. CASE UNCHANGED vars
  <2>1. UNCHANGED <<place, storage, client, serving, net>>
    BY <1>4 DEF vars
  <2>2. FlashInWork' /\ ActiveStaysBootable'
    BY <1>0, <2>1, FlashUntouched DEF client
  <2>3. TimeoutsCounted' /\ FirstIsFirst'
    BY <1>0, <2>1 DEF client, serving, net, TimeoutsCounted, Running, FirstIsFirst
  <2>4. /\ requests' = requests /\ server' = server /\ resends' = resends
        /\ toServer' = toServer /\ toClient' = toClient /\ reordered' = reordered
    BY <2>1 DEF serving, net
  <2>5. TypeOK'
    BY <1>0, <2>1, <2>4, ServerTyped DEF TypeOK, Channels
  <2> QED
    BY <2>2, <2>3, <2>5 DEF IndInv
<1> QED
  BY <1>1, <1>2, <1>3, <1>4 DEF Next, Client

THEOREM TftpInductive == Spec => []IndInv
<1> QED
  BY InitInv, NextInv, PTL DEF Spec

(* Types: the packets are blocks of the image, and timeouts and attempts    *)
(* keep their limits.                                                       *)
THEOREM TftpTyped == Spec => []TypeOK
<1>1. IndInv => TypeOK
  BY DEF IndInv
<1> QED
  BY <1>1, TftpInductive, PTL

(* A partition with the magic word holds one whole image.                   *)
THEOREM BootsImage == Spec => []BootableIsImage
<1>1. IndInv => BootableIsImage
  <2> SUFFICES ASSUME IndInv, NEW p \in 1 .. 2, flash[p].magic
               PROVE  \/ flash[p].data = OldImage
                      \/ flash[p].data = NewImage /\ file = "sound"
    BY DEF BootableIsImage
  <2> QED
    BY DEF IndInv, FlashInWork
<1> QED
  BY <1>1, TftpInductive, PTL

(* Success is reported exactly when the new image can be booted.            *)
THEOREM ReportsBootable == Spec => []OkIsBootable
<1>1. IndInv => OkIsBootable
  <2> SUFFICES ASSUME IndInv PROVE OkIsBootable
    OBVIOUS
  <2>1. ret = "ok" => flash[Target].magic /\ flash[Target].data = NewImage
    BY DEF IndInv, FlashInWork
  <2>2. ret # "ok" => ~(flash[Target].magic /\ flash[Target].data = NewImage)
    BY Numbers DEF IndInv, FlashInWork
  <2> QED
    BY <2>1, <2>2 DEF OkIsBootable
<1> QED
  BY <1>1, TftpInductive, PTL

(* Both together: what boots is right and what is reported boots.           *)
THEOREM BootsReported == Spec => []BootableIsReported
<1>1. BootableIsImage /\ OkIsBootable => BootableIsReported
  BY DEF BootableIsReported
<1> QED
  BY <1>1, BootsImage, ReportsBootable, PTL

(* The active image of a large flash is never given up.                     *)
THEOREM KeepsActive == Spec => []ActiveStaysBootable
<1>1. IndInv => ActiveStaysBootable
  BY DEF IndInv
<1> QED
  BY <1>1, TftpInductive, PTL

-----------------------------------------------------------------------------
(* One transfer, undisturbed: the blocks are stored in their order.        *)

\* No second attempt, no packet overtaken, no second transfer.
Undisturbed == retry_count = 0 /\ ~reordered /\ \A t \in Ports : t > 1 => server[t] = Idle

Ascending(c) == \A i, j \in DOMAIN c : i <= j => c[i] <= c[j]

\* What the server at the block s sends to a client that has stored l blocks,
\* and what the client answers.
Passing(c, l, s) ==
  /\ Ascending(c)
  /\ \A i \in DOMAIN c : l <= c[i] /\ c[i] <= s /\ (c[i] <= l + 1 \/ c[i] = Error)

Acks(c, l) == \A j \in DOMAIN c : c[j] <= l

\* The server is at the block that was stored last, or at the next one.
OneTransfer ==
  /\ tftp_state = "RRQ" => sin_port = TFTP_SERVER_PORT
  /\ total_rx_bytes = pkt_seq_last
  /\ \A t \in Ports : t > 1 => toClient[t] = <<>>
  /\ server[1] = Idle => toClient[1] = <<>> /\ pkt_seq_last = 0
  /\ server[1] <= Blocks => pkt_seq_last <= server[1] /\ server[1] <= pkt_seq_last + 1
  /\ Acks(toServer[1], pkt_seq_last)
  /\ Passing(toClient[1], pkt_seq_last, server[1])

BeginsWithImage == \A i \in 1 .. Blocks : i <= total_rx_bytes => flash[Target].data[i] = i

InOneOrder == Undisturbed /\ Running => OneTransfer

OrderInv == InOneOrder /\ (Undisturbed => BeginsWithImage)

(* A channel after a packet was put into it, or taken out of it.           *)
LEMMA PutElements ==
  ASSUME NEW S, NEW c \in Seq(S), NEW p \in S
  PROVE  \A k \in DOMAIN Put(c, p) :
           \/ k \in DOMAIN c /\ Put(c, p)[k] = c[k]
           \/ k = Len(c) + 1 /\ Put(c, p)[k] = p
BY DEF Put

LEMMA RemoveElements ==
  ASSUME NEW S, NEW c \in Seq(S), NEW i \in DOMAIN c
  PROVE  /\ Len(RemoveAt(c, i)) = Len(c) - 1
         /\ \A k \in DOMAIN RemoveAt(c, i) :
              /\ k \in 1 .. Len(c) - 1
              /\ RemoveAt(c, i)[k] = IF k < i THEN c[k] ELSE c[k + 1]
<1> DEFINE a == SubSeq(c, 1, i - 1)
           b == SubSeq(c, i + 1, Len(c))
<1>1. i \in 1 .. Len(c) /\ Len(c) \in Nat /\ \A k \in 1 .. Len(c) : c[k] \in S
  OBVIOUS
<1>2. a \in Seq(S) /\ Len(a) = i - 1 /\ \A k \in 1 .. i - 1 : a[k] = c[k]
  BY <1>1
<1>3. b \in Seq(S) /\ Len(b) = Len(c) - i /\ \A k \in 1 .. Len(c) - i : b[k] = c[i + k]
  BY <1>1
<1> HIDE DEF a, b
<1>4. /\ Len(a \o b) = Len(c) - 1 /\ DOMAIN (a \o b) = 1 .. Len(c) - 1
      /\ \A k \in 1 .. Len(c) - 1 : (a \o b)[k] = IF k <= i - 1 THEN a[k] ELSE b[k - (i - 1)]
  <2>1. /\ a \o b \in Seq(S) /\ Len(a \o b) = Len(a) + Len(b)
        /\ \A k \in 1 .. Len(a) + Len(b) :
              (a \o b)[k] = IF k <= Len(a) THEN a[k] ELSE b[k - Len(a)]
    BY <1>2, <1>3, ConcatProperties
  <2>2. Len(a) = i - 1 /\ Len(a) + Len(b) = Len(c) - 1
    BY <1>1, <1>2, <1>3
  <2> QED
    BY <2>1, <2>2
<1>5. \A k \in 1 .. Len(c) - 1 : (a \o b)[k] = IF k < i THEN c[k] ELSE c[k + 1]
  <2> SUFFICES ASSUME NEW k \in 1 .. Len(c) - 1
               PROVE  (a \o b)[k] = IF k < i THEN c[k] ELSE c[k + 1]
    OBVIOUS
  <2>1. CASE k < i
    BY <1>1, <1>2, <1>4, <2>1
  <2>2. CASE ~(k < i)
    <3>1. k - (i - 1) \in 1 .. Len(c) - i /\ i + (k - (i - 1)) = k + 1
      BY <1>1, <2>2
    <3> QED
      BY <1>1, <1>3, <1>4, <2>2, <3>1
  <2> QED
    BY <2>1, <2>2
<1> QED
  BY <1>4, <1>5 DEF RemoveAt, a, b

LEMMA PassingMore ==
  ASSUME NEW c \in Seq(Nat), NEW l \in Nat, NEW s \in Nat, Passing(c, l, s),
         NEW r \in Nat, s <= r, l <= r
  PROVE  /\ Passing(c, l, r)
         /\ r <= l + 1 \/ r = Error => Passing(Put(c, r), l, r)
<1>1. \A i \in DOMAIN c : c[i] \in Nat
  OBVIOUS
<1>2. Passing(c, l, r)
  BY <1>1 DEF Passing
<1>3. ASSUME r <= l + 1 \/ r = Error PROVE Passing(Put(c, r), l, r)
  <2>1. \A k \in DOMAIN Put(c, r) : \/ k \in DOMAIN c /\ Put(c, r)[k] = c[k]
                                    \/ k = Len(c) + 1 /\ Put(c, r)[k] = r
    BY PutElements
  <2>2. Ascending(Put(c, r))
    <3> SUFFICES ASSUME NEW i \in DOMAIN Put(c, r), NEW j \in DOMAIN Put(c, r), i <= j
                 PROVE  Put(c, r)[i] <= Put(c, r)[j]
      BY DEF Ascending
    <3>1. DOMAIN c = 1 .. Len(c) /\ Len(c) \in Nat
      OBVIOUS
    <3>2. CASE j \in DOMAIN c /\ Put(c, r)[j] = c[j]
      <4>1. i # Len(c) + 1
        BY <3>1, <3>2
      <4>2. i \in DOMAIN c /\ Put(c, r)[i] = c[i]
        BY <2>1, <4>1
      <4> QED
        BY <3>2, <4>2 DEF Passing, Ascending
    <3>3. CASE j = Len(c) + 1 /\ Put(c, r)[j] = r
      BY <1>2, <2>1, <3>3 DEF Passing
    <3> QED
      BY <2>1, <3>2, <3>3
  <2>3. \A i \in DOMAIN Put(c, r) :
          l <= Put(c, r)[i] /\ Put(c, r)[i] <= r
          /\ (Put(c, r)[i] <= l + 1 \/ Put(c, r)[i] = Error)
    BY <1>2, <1>3, <2>1 DEF Passing
  <2> QED
    BY <2>2, <2>3 DEF Passing
<1> QED
  BY <1>2, <1>3

LEMMA PassingLess ==
  ASSUME NEW c \in Seq(Nat), NEW l \in Nat, NEW s \in Nat, Passing(c, l, s), NEW i \in DOMAIN c
  PROVE  /\ Passing(RemoveAt(c, i), l, s)
         /\ i = 1 => Passing(RemoveAt(c, i), c[1], s)
<1> DEFINE d == RemoveAt(c, i)
<1>1. DOMAIN c = 1 .. Len(c) /\ Len(c) \in Nat /\ i \in 1 .. Len(c) /\ \A k \in DOMAIN c : c[k] \in Nat
  OBVIOUS
<1>2. \A k \in DOMAIN d : k \in 1 .. Len(c) - 1 /\ d[k] = IF k < i THEN c[k] ELSE c[k + 1]
  BY RemoveElements
<1> HIDE DEF d
<1>3. \A k \in DOMAIN d : k \in DOMAIN c /\ k + 1 \in DOMAIN c /\ (d[k] = c[k] \/ d[k] = c[k + 1])
  BY <1>1, <1>2
<1>4. Ascending(d)
  <2> SUFFICES ASSUME NEW j \in DOMAIN d, NEW k \in DOMAIN d, j <= k PROVE d[j] <= d[k]
    BY DEF Ascending
  <2>1. j \in 1 .. Len(c) - 1 /\ k \in 1 .. Len(c) - 1
    BY <1>2
  <2>2. \A m, n \in 1 .. Len(c) : m <= n => c[m] <= c[n]
    BY <1>1 DEF Passing, Ascending
  <2>3. CASE j < i /\ ~(k < i)
    <3>1. d[j] = c[j] /\ d[k] = c[k + 1]
      BY <1>2, <2>3
    <3>2. j \in 1 .. Len(c) /\ k + 1 \in 1 .. Len(c) /\ j <= k + 1
      BY <1>1, <2>1, <2>3
    <3> QED
      BY <2>2, <3>1, <3>2
  <2>4. CASE j < i /\ k < i
    BY <1>1, <1>2, <2>1, <2>2, <2>4
  <2>5. CASE ~(j < i)
    <3>1. d[j] = c[j + 1] /\ d[k] = c[k + 1]
      BY <1>1, <1>2, <2>1, <2>5
    <3>2. j + 1 \in 1 .. Len(c) /\ k + 1 \in 1 .. Len(c) /\ j + 1 <= k + 1
      BY <1>1, <2>1
    <3> QED
      BY <2>2, <3>1, <3>2
  <2> QED
    BY <2>3, <2>4, <2>5
<1>5. Passing(d, l, s)
  BY <1>3, <1>4 DEF Passing
<1>6. ASSUME i = 1 PROVE Passing(d, c[1], s)
  <2>1. 1 \in DOMAIN c /\ l <= c[1]
    BY <1>1, <1>6 DEF Passing
  <2>2. \A k \in DOMAIN d : c[1] <= d[k]
    <3> SUFFICES ASSUME NEW k \in DOMAIN d PROVE c[1] <= d[k]
      OBVIOUS
    <3>1. PICK m \in DOMAIN c : d[k] = c[m]
      BY <1>3
    <3>2. 1 <= m
      BY <1>1
    <3> QED
      BY <2>1, <3>1, <3>2 DEF Passing, Ascending
  <2>3. \A k \in DOMAIN d : d[k] \in Nat /\ d[k] <= s /\ (d[k] <= c[1] + 1 \/ d[k] = Error)
    <3> SUFFICES ASSUME NEW k \in DOMAIN d
                 PROVE  d[k] \in Nat /\ d[k] <= s /\ (d[k] <= c[1] + 1 \/ d[k] = Error)
      OBVIOUS
    <3>1. PICK m \in DOMAIN c : d[k] = c[m]
      BY <1>3
    <3> QED
      BY <1>1, <2>1, <3>1 DEF Passing
  <2> QED
    BY <1>4, <2>2, <2>3 DEF Passing
<1> QED
  BY <1>5, <1>6 DEF d

LEMMA AcksKept ==
  ASSUME NEW c \in Seq(Nat), NEW l \in Nat, NEW m \in Nat, Acks(c, l), l <= m
  PROVE  /\ Acks(Put(c, m), m)
         /\ \A i \in DOMAIN c : Acks(RemoveAt(c, i), l)
<1>1. \A i \in DOMAIN c : c[i] \in Nat /\ c[i] <= l
  BY DEF Acks
<1>2. Acks(Put(c, m), m)
  <2>1. \A k \in DOMAIN Put(c, m) : \/ k \in DOMAIN c /\ Put(c, m)[k] = c[k]
                                    \/ k = Len(c) + 1 /\ Put(c, m)[k] = m
    BY PutElements
  <2> QED
    BY <1>1, <2>1 DEF Acks
<1>3. ASSUME NEW i \in DOMAIN c PROVE Acks(RemoveAt(c, i), l)
  <2>1. \A k \in DOMAIN RemoveAt(c, i) :
          k \in 1 .. Len(c) - 1 /\ RemoveAt(c, i)[k] = IF k < i THEN c[k] ELSE c[k + 1]
    BY RemoveElements
  <2>2. \A k \in 1 .. Len(c) - 1 : k \in DOMAIN c /\ k + 1 \in DOMAIN c
    OBVIOUS
  <2> QED
    BY <1>1, <2>1, <2>2 DEF Acks
<1> QED
  BY <1>2, <1>3

(* What disturbs a transfer is never undone.                               *)
LEMMA DisturbedForGood ==
  ASSUME TypeOK, [Next]_vars, Undisturbed'
  PROVE  Undisturbed
<1>1. retry_count = 0
  <2>1. retry_count \in Nat
    BY Numbers DEF TypeOK
  <2>2. \/ retry_count' = retry_count \/ retry_count' = retry_count + 1
    BY DEF Next, Client, Timeout, Receive, StoreBlock, RefuseHeader, Continue, Succeed, AskAgain, GiveUp,
       Start, Serve, SendAgain, Lose, vars, client
  <2> QED
    BY <2>1, <2>2 DEF Undisturbed
<1>2. ~reordered
  BY DEF Next, Client, Timeout, Receive, Start, Serve, SendAgain, Lose, vars, net, Undisturbed
<1>3. ASSUME NEW t \in Ports, t > 1 PROVE server[t] = Idle
  <2>1. server' = server \/ \E u \in Ports : Start(u) \/ Serve(u)
    BY DEF Next, Client, Timeout, Receive, SendAgain, Lose, vars, serving
  <2>2. server'[t] = Idle /\ server \in [Ports -> 0 .. Blocks + 2]
    BY <1>3 DEF Undisturbed, TypeOK
  <2>3. ASSUME NEW u \in Ports, Start(u) \/ Serve(u)
        PROVE  \/ server' = server
               \/ \E s \in 0 .. Blocks + 1 : server' = [server EXCEPT ![u] = s]
    <3>1. CASE Start(u)
      <4>1. PICK p \in {OACK, 1, Error} : server' = [server EXCEPT ![u] = p]
        BY <3>1 DEF Start
      <4>2. p \in 0 .. Blocks + 1
        BY Numbers DEF OACK, Error
      <4> QED
        BY <4>1, <4>2
    <3>2. CASE Serve(u)
      <4>1. PICK i \in DOMAIN toServer[u] :
              \/ toServer[u][i] < Blocks /\ server' = [server EXCEPT ![u] = toServer[u][i] + 1]
              \/ server' = [server EXCEPT ![u] = Finished]
              \/ server' = server
        BY <3>2 DEF Serve
      <4>2. toServer[u][i] \in 0 .. Blocks + 1
        BY RemoveFrom DEF TypeOK, Channels
      <4> QED
        BY <4>1, <4>2, Numbers DEF Finished
    <3> QED
      BY <2>3, <3>1, <3>2
  <2> QED
    BY <2>1, <2>2, <2>3, Numbers DEF Idle
<1> QED
  BY <1>1, <1>2, <1>3 DEF Undisturbed

(* Nothing happens to the blocks that are stored.                          *)
LEMMA ImageUntouched ==
  ASSUME BeginsWithImage, UNCHANGED <<file, large, current_partition, storage, total_rx_bytes>>
  PROVE  BeginsWithImage'
<1>1. Target' = Target /\ flash' = flash /\ total_rx_bytes' = total_rx_bytes
  BY Zenon DEF storage, Target, upgrade_partition
<1> QED
  BY <1>1 DEF BeginsWithImage

\* The channels and the server are numbers.
LEMMA Traffic ==
  ASSUME TypeOK
  PROVE  /\ 1 \in Ports /\ pkt_seq_last \in 0 .. Blocks /\ server[1] \in 0 .. Blocks + 2
         /\ \A t \in Ports : toClient[t] \in Seq(Nat) /\ toServer[t] \in Seq(Nat)
         /\ \A t \in Ports : \A i \in DOMAIN toClient[t] : toClient[t][i] \in 0 .. Blocks + 1
         /\ \A t \in Ports : \A i \in DOMAIN toServer[t] : toServer[t][i] \in 0 .. Blocks + 1
<1>1. 1 \in Ports
  BY TftpAssumption DEF Ports
<1>2. \A t \in Ports : toClient[t] \in Seq(0 .. Blocks + 1) /\ toServer[t] \in Seq(0 .. Blocks + 1)
  BY DEF TypeOK
<1>3. ASSUME NEW c \in Seq(0 .. Blocks + 1)
      PROVE  c \in Seq(Nat) /\ \A i \in DOMAIN c : c[i] \in 0 .. Blocks + 1
  BY Numbers
<1>4. pkt_seq_last \in 0 .. Blocks /\ server[1] \in 0 .. Blocks + 2
  BY <1>1 DEF TypeOK
<1> QED
  BY <1>1, <1>2, <1>3, <1>4

(* The server starts the one transfer, answers, sends again, or the network *)
(* loses a packet.                                                          *)
LEMMA ServerKeepsOrder ==
  ASSUME TypeOK, Undisturbed, Undisturbed', OneTransfer,
         NEW t \in Ports, Start(t) \/ Serve(t) \/ SendAgain(t) \/ Lose(t)
  PROVE  OneTransfer'
<1> DEFINE l == pkt_seq_last
<1>0. /\ 1 \in Ports /\ l \in 0 .. Blocks /\ l \in Nat /\ server[1] \in 0 .. Blocks + 2
      /\ toClient[1] \in Seq(Nat) /\ toServer[1] \in Seq(Nat) /\ Blocks \in Nat
      /\ server \in [Ports -> 0 .. Blocks + 2]
      /\ toClient \in [Ports -> Seq(0 .. Blocks + 1)] /\ toServer \in [Ports -> Seq(0 .. Blocks + 1)]
  <2>1. /\ server \in [Ports -> 0 .. Blocks + 2]
        /\ toClient \in [Ports -> Seq(0 .. Blocks + 1)] /\ toServer \in [Ports -> Seq(0 .. Blocks + 1)]
    BY DEF TypeOK
  <2>2. 1 \in Ports /\ l \in 0 .. Blocks /\ server[1] \in 0 .. Blocks + 2 /\ Blocks \in Nat
    BY Traffic, Numbers
  <2>3. toClient[1] \in Seq(Nat) /\ toServer[1] \in Seq(Nat)
    BY <2>2, Traffic
  <2> QED
    BY <2>1, <2>2, <2>3
<1>1. /\ UNCHANGED <<tftp_state, sin_port, total_rx_bytes, pkt_seq_last>>
  BY DEF Start, Serve, SendAgain, Lose, client
<1>2. /\ (tftp_state = "RRQ" => sin_port = TFTP_SERVER_PORT) /\ total_rx_bytes = l
      /\ \A u \in Ports : u > 1 => toClient[u] = <<>>
      /\ server[1] = Idle => toClient[1] = <<>> /\ l = 0
      /\ server[1] <= Blocks => l <= server[1] /\ server[1] <= l + 1
      /\ Acks(toServer[1], l) /\ Passing(toClient[1], l, server[1])
  BY DEF OneTransfer
<1>3. CASE t > 1
  <2>1. server'[t] = Idle /\ server[t] = Idle
    BY <1>3 DEF Undisturbed
  <2>2. ~Start(t) /\ ~SendAgain(t)
    BY <2>1, <1>0, Numbers DEF Start, SendAgain, OACK, Error, Idle
  <2>3. UNCHANGED <<server, toClient>> /\ toServer'[1] = toServer[1]
    <3>1. CASE Serve(t)
      <4>1. PICK i \in DOMAIN toServer[t] :
              /\ toServer' = [toServer EXCEPT ![t] = RemoveAt(@, i)]
              /\ \/ toServer[t][i] = server[t]
                 \/ server' = [server EXCEPT ![t] = Finished]
                 \/ UNCHANGED <<server, toClient>>
        BY <3>1 DEF Serve
      <4>2. toServer[t][i] \in 0 .. Blocks + 1
        BY Traffic
      <4> QED
        BY <1>0, <1>3, <2>1, <4>1, <4>2 DEF Idle, Finished
    <3>2. CASE Lose(t)
      <4>1. server' = server
        BY <3>2 DEF Lose, serving
      <4>2. toClient[t] = <<>>
        BY <1>2, <1>3
      <4> QED
        BY <1>0, <1>3, <3>2, <4>1, <4>2 DEF Lose
    <3> QED
      BY <2>2, <3>1, <3>2
  <2> QED
    BY <1>1, <1>2, <2>3 DEF OneTransfer
<1>4. CASE t = 1
  <2>0. \A u \in Ports : u > 1 => toClient'[u] = <<>>
    BY <1>2, <1>4, <1>0 DEF Start, Serve, SendAgain, Lose
  <2>1. CASE Start(1)
    <3>1. PICK p \in {OACK, 1, Error} :
            /\ server' = [server EXCEPT ![1] = p]
            /\ toClient' = [toClient EXCEPT ![1] = Put(@, p)]
      BY <2>1 DEF Start
    <3>2. server[1] = Idle /\ toClient[1] = <<>> /\ l = 0 /\ toServer' = toServer
      BY <1>2, <2>1 DEF Start
    <3>3. server'[1] = p /\ toClient'[1] = Put(<<>>, p) /\ p \in Nat /\ p # Idle
      BY <1>0, <3>1, <3>2 DEF OACK, Error, Idle
    <3>4. Passing(<<>>, l, 0)
      BY <3>2 DEF Passing, Ascending
    <3>5. Passing(Put(<<>>, p), l, p)
      <4>1. p <= l + 1 \/ p = Error
        BY <3>2 DEF OACK
      <4>2. <<>> \in Seq(Nat) /\ 0 \in Nat /\ 0 <= p /\ l <= p
        BY <3>2, <3>3
      <4> QED
        BY <1>0, <3>3, <3>4, <4>1, <4>2, PassingMore
    <3>6. p <= Blocks => l <= p /\ p <= l + 1
      BY <1>0, <3>2 DEF OACK, Error
    <3> QED
      BY <1>1, <1>2, <2>0, <3>2, <3>3, <3>5, <3>6 DEF OneTransfer
  <2>2. CASE Serve(1)
    <3>1. PICK i \in DOMAIN toServer[1] :
            /\ toServer' = [toServer EXCEPT ![1] = RemoveAt(@, i)]
            /\ \/ /\ toServer[1][i] = server[1] /\ toServer[1][i] < Blocks
                  /\ server' = [server EXCEPT ![1] = toServer[1][i] + 1]
                  /\ toClient' = [toClient EXCEPT ![1] = Put(@, toServer[1][i] + 1)]
               \/ /\ toServer[1][i] = server[1] /\ toServer[1][i] = Blocks
                  /\ server' = [server EXCEPT ![1] = Finished]
                  /\ UNCHANGED toClient
               \/ toServer[1][i] = RRQ
               \/ UNCHANGED <<server, toClient>>
      BY <2>2 DEF Serve
    <3> DEFINE p == toServer[1][i]
    <3>2. p \in 0 .. Blocks + 1 /\ p <= l /\ p # RRQ
      BY <1>0, <1>2, Traffic DEF Acks, RRQ
    <3>3. toServer'[1] = RemoveAt(toServer[1], i) /\ Acks(toServer'[1], l)
      BY <1>0, <1>2, <3>1, AcksKept
    <3>4. CASE /\ p = server[1] /\ p < Blocks /\ server' = [server EXCEPT ![1] = p + 1]
               /\ toClient' = [toClient EXCEPT ![1] = Put(@, p + 1)]
      <4>1. server[1] = l /\ server'[1] = l + 1 /\ toClient'[1] = Put(toClient[1], l + 1) /\ l + 1 <= Blocks
        BY <1>0, <1>2, <3>2, <3>4
      <4>2. l + 1 \in Nat /\ l <= l + 1 /\ l + 1 <= l + 1
        BY <1>0
      <4>3. Passing(toClient[1], l, l)
        BY <1>2, <4>1
      <4>4. Passing(Put(toClient[1], l + 1), l, l + 1)
        BY <1>0, <4>2, <4>3, PassingMore
      <4>5. l + 1 # Idle
        BY <1>0, <4>1 DEF Idle
      <4> QED
        BY <1>0, <1>1, <1>2, <2>0, <3>3, <4>1, <4>4, <4>5 DEF OneTransfer
    <3>5. CASE p = server[1] /\ p = Blocks /\ server' = [server EXCEPT ![1] = Finished] /\ UNCHANGED toClient
      <4>1. server[1] = Blocks /\ server'[1] = Blocks + 1 /\ Blocks + 1 # Idle
        BY <1>0, <3>5 DEF Finished, Idle
      <4>2. Blocks + 1 \in Nat /\ Blocks <= Blocks + 1 /\ l <= Blocks + 1 /\ Passing(toClient[1], l, Blocks)
        BY <1>0, <1>2, <4>1
      <4>3. Passing(toClient[1], l, Blocks + 1)
        BY <1>0, <4>2, PassingMore
      <4>4. ~(Blocks + 1 <= Blocks)
        BY <1>0
      <4> QED
        BY <1>1, <1>2, <2>0, <3>3, <3>5, <4>1, <4>3, <4>4 DEF OneTransfer
    <3>6. CASE UNCHANGED <<server, toClient>>
      BY <1>1, <1>2, <2>0, <3>3, <3>6 DEF OneTransfer
    <3> QED
      BY <3>1, <3>2, <3>4, <3>5, <3>6
  <2>3. CASE SendAgain(1)
    <3>1. /\ server[1] <= Blocks /\ toClient'[1] = Put(toClient[1], server[1])
          /\ server' = server /\ toServer' = toServer
      BY <1>0, <2>3 DEF SendAgain
    <3>2. server[1] \in Nat /\ server[1] <= server[1] /\ l <= server[1] /\ server[1] <= l + 1
      BY <1>0, <1>2, <3>1
    <3>3. Passing(Put(toClient[1], server[1]), l, server[1])
      BY <1>0, <1>2, <3>2, PassingMore
    <3>4. server[1] # Idle
      BY <1>0, <3>1 DEF Idle
    <3> QED
      BY <1>1, <1>2, <2>0, <3>1, <3>3, <3>4 DEF OneTransfer
  <2>4. CASE Lose(1)
    <3>1. server' = server
      BY <2>4 DEF Lose, serving
    <3>2. CASE \E i \in DOMAIN toServer[1] :
                  toServer' = [toServer EXCEPT ![1] = RemoveAt(@, i)] /\ UNCHANGED toClient
      <4>1. Acks(toServer'[1], l)
        BY <1>0, <1>2, <3>2, AcksKept
      <4> QED
        BY <1>1, <1>2, <3>1, <3>2, <4>1 DEF OneTransfer
    <3>3. CASE \E i \in DOMAIN toClient[1] :
                  toClient' = [toClient EXCEPT ![1] = RemoveAt(@, i)] /\ UNCHANGED toServer
      <4>1. server[1] # Idle /\ server[1] \in Nat
        BY <1>0, <1>2, <3>3
      <4>2. Passing(toClient'[1], l, server[1])
        BY <1>0, <1>2, <3>3, <4>1, PassingLess
      <4> QED
        BY <1>1, <1>2, <2>0, <3>1, <3>3, <4>1, <4>2 DEF OneTransfer
    <3>4. CASE UNCHANGED <<toServer, toClient>>
      BY <1>1, <1>2, <3>1, <3>4 DEF OneTransfer
    <3> QED
      BY <2>4, <3>2, <3>3, <3>4 DEF Lose
  <2> QED
    BY <1>4, <2>1, <2>2, <2>3, <2>4
<1> QED
  BY <1>3, <1>4 DEF Ports

(* A timeout sends the last request or acknowledgement again.               *)
LEMMA TimeoutKeepsOrder ==
  ASSUME TypeOK, OneTransfer, Timeout
  PROVE  OneTransfer'
<1> DEFINE l == pkt_seq_last
<1>0. /\ 1 \in Ports /\ l \in Nat /\ toServer[1] \in Seq(Nat)
      /\ toServer \in [Ports -> Seq(0 .. Blocks + 1)]
  BY Traffic DEF TypeOK
<1>1. UNCHANGED <<tftp_state, sin_port, total_rx_bytes, pkt_seq_last, toClient, server>>
  BY DEF Timeout, serving
<1>2. Acks(toServer'[1], l)
  <2>1. Acks(toServer[1], l) /\ (tftp_state = "RRQ" => sin_port = TFTP_SERVER_PORT)
    BY DEF OneTransfer
  <2>2. toServer' = toServer \/ toServer' = [toServer EXCEPT ![sin_port] = Put(@, l)]
    BY <2>1 DEF Timeout, SendLast, Acknowledge
  <2>3. toServer'[1] = toServer[1] \/ toServer'[1] = Put(toServer[1], l)
    BY <1>0, <2>2
  <2>4. Acks(Put(toServer[1], l), l)
    <3>1. l <= l
      BY <1>0
    <3> QED
      BY <1>0, <2>1, <3>1, AcksKept
  <2> QED
    BY <2>1, <2>3, <2>4
<1> QED
  BY <1>1, <1>2 DEF OneTransfer

(* The packet that arrives is the oldest one of the one transfer.           *)
LEMMA NextToArrive ==
  ASSUME TypeOK, Undisturbed', OneTransfer, NEW t \in Ports, NEW i \in DOMAIN toClient[t],
         Receive(t, i)
  PROVE  /\ t = 1 /\ i = 1 /\ server[1] # Idle
         /\ toClient' = [toClient EXCEPT ![1] = RemoveAt(@, 1)]
         /\ pkt_seq_last <= toClient[1][1] /\ toClient[1][1] <= server[1]
         /\ toClient[1][1] <= pkt_seq_last + 1 \/ toClient[1][1] = Error
         /\ Passing(toClient'[1], pkt_seq_last, server[1])
         /\ Passing(toClient'[1], toClient[1][1], server[1])
<1>0. /\ 1 \in Ports /\ pkt_seq_last \in Nat /\ server[1] \in Nat
      /\ toClient \in [Ports -> Seq(0 .. Blocks + 1)]
      /\ \A u \in Ports : toClient[u] \in Seq(Nat)
  <2>1. toClient \in [Ports -> Seq(0 .. Blocks + 1)]
    BY DEF TypeOK
  <2>2. 1 \in Ports /\ pkt_seq_last \in Nat /\ server[1] \in Nat
    BY Traffic
  <2> QED
    BY <2>1, <2>2, Traffic
<1>1. t = 1
  <2>1. t > 1 => toClient[t] = <<>>
    BY DEF OneTransfer
  <2> QED
    BY <2>1 DEF Ports
<1>2. i = 1
  <2>1. ~(i > 1)
    BY DEF Receive, Undisturbed
  <2> QED
    BY <1>0, <2>1
<1>3. toClient' = [toClient EXCEPT ![1] = RemoveAt(@, 1)] /\ 1 \in DOMAIN toClient[1]
  BY <1>1, <1>2 DEF Receive
<1>4. server[1] # Idle /\ Passing(toClient[1], pkt_seq_last, server[1])
  BY <1>3 DEF OneTransfer
<1>5. toClient'[1] = RemoveAt(toClient[1], 1)
  BY <1>0, <1>3
<1>6. /\ Passing(RemoveAt(toClient[1], 1), pkt_seq_last, server[1])
      /\ Passing(RemoveAt(toClient[1], 1), toClient[1][1], server[1])
  BY <1>0, <1>3, <1>4, PassingLess
<1> QED
  BY <1>1, <1>2, <1>3, <1>4, <1>5, <1>6 DEF Passing

(* A block is stored behind the blocks that are there.                      *)
LEMMA StoresBehind ==
  ASSUME TypeOK, partition_entries = Table, partition_entries' = Table,
         UNCHANGED <<large, current_partition>>, BeginsWithImage,
         NEW p \in 1 .. Blocks, p = total_rx_bytes + 1,
         NEW m \in BOOLEAN, flash' = [flash EXCEPT ![Target] = [magic |-> m, data |-> Stored(p)]],
         total_rx_bytes' = total_rx_bytes + 1
  PROVE  BeginsWithImage'
<1>1. Target \in 1 .. 2 /\ Target' = Target
  BY TargetIs DEF Target, upgrade_partition
<1>2. flash'[Target'].data = Stored(p)
  BY <1>1 DEF TypeOK
<1>3. ASSUME NEW k \in 1 .. Blocks, k <= total_rx_bytes + 1 PROVE Stored(p)[k] = k
  <2>1. Stored(p)[k] = IF k = total_rx_bytes + 1 THEN p ELSE Before(p)[k]
    BY DEF Stored
  <2>2. CASE k # total_rx_bytes + 1
    <3>1. k <= total_rx_bytes /\ p # 1
      BY <1>3, <2>2 DEF TypeOK
    <3> QED
      BY <2>1, <2>2, <3>1 DEF Before, BeginsWithImage
  <2> QED
    BY <2>1, <2>2
<1> QED
  BY <1>2, <1>3 DEF BeginsWithImage

(* A packet that arrives is a block again, or the next one.                 *)
LEMMA ReceiveKeepsOrder ==
  ASSUME TypeOK, partition_entries = Table, Undisturbed', OneTransfer, BeginsWithImage,
         NEW t \in Ports, NEW i \in DOMAIN toClient[t], Receive(t, i)
  PROVE  InOneOrder' /\ BeginsWithImage'
<1> DEFINE l == pkt_seq_last
           p == toClient[1][1]
           s == server[1]
<1>0. /\ t = 1 /\ i = 1 /\ s # Idle
      /\ toClient' = [toClient EXCEPT ![1] = RemoveAt(@, 1)]
      /\ l <= p /\ p <= s /\ (p <= l + 1 \/ p = Error)
      /\ Passing(toClient'[1], l, s) /\ Passing(toClient'[1], p, s)
  BY NextToArrive
<1>1. /\ 1 \in Ports /\ l \in Nat /\ l <= Blocks /\ p \in Nat /\ s \in Nat /\ Blocks \in Nat
      /\ toServer[1] \in Seq(Nat) /\ toClient \in [Ports -> Seq(0 .. Blocks + 1)]
      /\ toServer \in [Ports -> Seq(0 .. Blocks + 1)]
  <2>1. 1 \in Ports /\ l \in 0 .. Blocks /\ s \in 0 .. Blocks + 2 /\ Blocks \in Nat
    BY Traffic, Numbers
  <2>2. toServer[1] \in Seq(Nat)
    BY <2>1, Traffic
  <2>3. p \in 0 .. Blocks + 1
    BY <1>0, Traffic
  <2>4. toClient \in [Ports -> Seq(0 .. Blocks + 1)] /\ toServer \in [Ports -> Seq(0 .. Blocks + 1)]
    BY DEF TypeOK
  <2> QED
    BY <2>1, <2>2, <2>3, <2>4
<1>2. UNCHANGED <<file, large, current_partition>> /\ server' = server
  BY DEF Receive, place, serving
<1>3. total_rx_bytes = l /\ Acks(toServer[1], l)
      /\ (s <= Blocks => l <= s /\ s <= l + 1)
      /\ (tftp_state = "RRQ" => sin_port = TFTP_SERVER_PORT)
  BY DEF OneTransfer
<1>4. \A u \in Ports : u > 1 => toClient'[u] = <<>>
  <2>1. \A u \in Ports : u > 1 => toClient[u] = <<>>
    BY DEF OneTransfer
  <2> QED
    BY <1>0, <1>1, <2>1
<1>5. CASE p = Error /\ ret' = "fail" /\ UNCHANGED <<storage, total_rx_bytes>>
  <2>1. BeginsWithImage'
    BY <1>2, <1>5, ImageUntouched
  <2> QED
    BY <1>5, <2>1 DEF InOneOrder, Running
<1>6. CASE /\ UNCHANGED <<storage, pkt_seq_last, total_rx_bytes>>
           /\ Acknowledge(1, l) /\ tftp_state' \in {"OACK", "DATA"}
  <2>1. BeginsWithImage'
    BY <1>2, <1>6, ImageUntouched
  <2>2. toServer'[1] = Put(toServer[1], l) /\ l <= l
    BY <1>1, <1>6 DEF Acknowledge
  <2>3. Acks(toServer'[1], l)
    BY <1>1, <1>3, <2>2, AcksKept
  <2>4. OneTransfer'
    BY <1>0, <1>2, <1>3, <1>4, <1>6, <2>3 DEF OneTransfer
  <2> QED
    BY <2>1, <2>4 DEF InOneOrder
<1>7. CASE p \in 1 .. Blocks /\ IsNew(p) /\ StoreBlock(1, p)
  <2>1. p = l + 1 /\ p = total_rx_bytes + 1
    <3>1. p # l /\ p # Error
      BY <1>7, <1>1 DEF IsNew, Error
    <3> QED
      BY <1>0, <1>1, <1>3, <3>1
  <2>2. partition_entries' = Table /\ pkt_seq_last' = p
    BY <1>1, <1>7, StoreBlockTyped
  <2>3. CASE RefuseHeader(1)
    <3>1. BeginsWithImage' /\ ret' # "none"
      BY <1>2, <2>3, ImageUntouched DEF RefuseHeader
    <3> QED
      BY <3>1 DEF InOneOrder, Running
  <2>4. CASE Continue(1, p) \/ GiveUp(1, p)
    <3>1. Store(p) /\ total_rx_bytes' = total_rx_bytes + 1
      BY <2>4 DEF Continue, GiveUp
    <3> DEFINE m == p # 1 /\ flash[Target].magic
    <3>2. m \in BOOLEAN /\ flash' = [flash EXCEPT ![Target] = [magic |-> m, data |-> Stored(p)]]
      BY <3>1 DEF Store
    <3> HIDE DEF m
    <3>3. BeginsWithImage'
      BY <1>2, <1>7, <2>1, <2>2, <3>1, <3>2, StoresBehind
    <3>4. CASE GiveUp(1, p)
      BY <3>3, <3>4 DEF GiveUp, InOneOrder, Running
    <3>5. CASE Continue(1, p)
      <4>1. toServer'[1] = Put(toServer[1], p) /\ tftp_state' = "DATA"
        BY <1>1, <3>5 DEF Continue, Acknowledge
      <4>2. Acks(toServer'[1], p)
        BY <1>0, <1>1, <1>3, <4>1, AcksKept
      <4>3. s <= Blocks => p <= s /\ s <= p + 1
        BY <1>0, <1>1, <1>3, <2>1
      <4>4. total_rx_bytes' = p
        BY <2>1, <3>1
      <4> QED
        BY <1>0, <1>2, <1>4, <2>2, <3>3, <4>1, <4>2, <4>3, <4>4 DEF InOneOrder, OneTransfer
    <3> QED
      BY <2>4, <3>4, <3>5
  <2>5. CASE Succeed(1, p)
    <3>1. /\ flash' = [flash EXCEPT ![Target] = [magic |-> TRUE, data |-> Stored(p)]]
          /\ total_rx_bytes' = total_rx_bytes + 1 /\ ret' = "ok"
      BY <2>5 DEF Succeed
    <3>2. BeginsWithImage'
      BY <1>2, <1>7, <2>1, <2>2, <3>1, StoresBehind
    <3> QED
      BY <3>1, <3>2 DEF InOneOrder, Running
  <2>6. ~AskAgain(1, p)
    BY Numbers DEF AskAgain, Undisturbed, TypeOK
  <2> QED
    BY <1>7, <2>3, <2>4, <2>5, <2>6 DEF StoreBlock
<1>8. p = OACK => l = p
  BY <1>0, <1>1 DEF OACK
<1>9. ~IsNew(p) => l = p
  BY DEF IsNew
<1> QED
  BY <1>0, <1>5, <1>6, <1>7, <1>8, <1>9 DEF Receive, storage

LEMMA InitOrder == Init => OrderInv
<1> SUFFICES ASSUME Init PROVE OrderInv
  OBVIOUS
<1>1. 1 \in Ports /\ Blocks \in Nat
  BY TftpAssumption DEF Ports
<1>2. BeginsWithImage
  BY DEF Init, BeginsWithImage
<1>3. /\ tftp_state = "RRQ" /\ sin_port = TFTP_SERVER_PORT /\ total_rx_bytes = 0 /\ pkt_seq_last = 0
      /\ \A t \in Ports : toClient[t] = <<>> /\ toServer[t] = <<>> /\ server[t] = Idle
  BY DEF Init
<1>4. Acks(toServer[1], 0) /\ Passing(toClient[1], 0, server[1])
  BY <1>1, <1>3 DEF Acks, Passing, Ascending
<1>5. ~(server[1] <= Blocks)
  BY <1>1, <1>3 DEF Idle
<1>6. OneTransfer
  BY <1>1, <1>3, <1>4, <1>5 DEF OneTransfer
<1> QED
  BY <1>2, <1>6 DEF OrderInv, InOneOrder

LEMMA NextOrder == IndInv /\ OrderInv /\ [Next]_vars => OrderInv'
<1> SUFFICES ASSUME IndInv, OrderInv, [Next]_vars, Undisturbed' PROVE InOneOrder' /\ BeginsWithImage'
  BY DEF OrderInv, InOneOrder
<1>0. TypeOK /\ partition_entries = Table /\ Undisturbed /\ BeginsWithImage
      /\ (Running => OneTransfer)
  BY DisturbedForGood DEF IndInv, FlashInWork, OrderInv, InOneOrder
<1>1. CASE Running /\ Timeout
  <2>1. OneTransfer'
    BY <1>0, <1>1, TimeoutKeepsOrder
  <2>2. BeginsWithImage'
    BY <1>0, <1>1, ImageUntouched DEF Timeout, place
  <2> QED
    BY <2>1, <2>2 DEF InOneOrder
<1>2. ASSUME Running, NEW t \in Ports, NEW i \in DOMAIN toClient[t], Receive(t, i)
      PROVE  InOneOrder' /\ BeginsWithImage'
  BY <1>0, <1>2, ReceiveKeepsOrder
<1>3. ASSUME NEW t \in Ports, Start(t) \/ Serve(t) \/ SendAgain(t) \/ Lose(t)
      PROVE  InOneOrder' /\ BeginsWithImage'
  <2>1. Running /\ UNCHANGED <<place, storage, client>>
    BY <1>3 DEF Start, Serve, SendAgain, Lose
  <2>2. OneTransfer'
    BY <1>0, <1>3, <2>1, ServerKeepsOrder
  <2>3. BeginsWithImage'
    BY <1>0, <2>1, ImageUntouched DEF place, client
  <2> QED
    BY <2>2, <2>3 DEF InOneOrder
<1>4. CASE UNCHANGED vars
  <2>1. UNCHANGED <<place, storage, client, server, toServer, toClient>>
    BY <1>4 DEF vars, serving, net
  <2>2. BeginsWithImage'
    BY <1>0, <2>1, ImageUntouched DEF place, client
  <2>3. OneTransfer => OneTransfer'
    BY <2>1 DEF client, OneTransfer
  <2>4. Running' <=> Running
    BY <2>1 DEF client, Running
  <2> QED
    BY <1>0, <2>2, <2>3, <2>4 DEF InOneOrder
<1> QED
  BY <1>1, <1>2, <1>3, <1>4 DEF Next, Client

(* With one transfer, one attempt and no packet overtaken, the partition    *)
(* holds the image from its beginning, whatever was lost or sent again.     *)
THEOREM StoresInOrder == Spec => []StoredInOrder
<1>1. Init => OrderInv
  BY InitOrder
<1>2. IndInv /\ OrderInv /\ [Next]_vars => OrderInv'
  BY NextOrder
<1>3. OrderInv => StoredInOrder
  BY DEF OrderInv, Undisturbed, BeginsWithImage, StoredInOrder
<1> QED
  BY <1>1, <1>2, <1>3, TftpInductive, PTL DEF Spec
=============================================================================
