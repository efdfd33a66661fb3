------------------------------ MODULE OtaTftp ------------------------------
(***************************************************************************)
(* The firmware update of ota.c: a TFTP client that stores an image in a   *)
(* partition of the flash, compares its checksum, and makes the partition  *)
(* bootable.  One call of qca_ota_upgrade, in flashes of 512 and 1024 KB.  *)
(*                                                                         *)
(* The server is not part of the program.  It is a TFTP server: it opens a *)
(* port for each request that arrives at TFTP_SERVER_PORT, sends a block   *)
(* when the one before it was acknowledged, sends it again when it is not, *)
(* and may answer with an error.  UDP loses, delays and reorders what      *)
(* either side sends.                                                      *)
(*                                                                         *)
(* A block of the image is its number; the header in the first one is the  *)
(* variable file.  MD5 is taken to tell different contents apart.          *)
(***************************************************************************)
EXTENDS Naturals, Sequences, SequencesExt

CONSTANTS
  Blocks,                       \* of the image
  Transfers,                    \* bound: transfers the server can start
  InFlight,                     \* bound: packets in a channel; others are lost
  MaxResends,                   \* bound: how often a server sends a block again
  MaxTimeouts,                  \* 3
  QCA_OTA_MAX_TFTP_RETRY_TIMES  \* 2

ASSUME TftpAssumption ==
  /\ Blocks \in Nat \ {0} /\ Transfers \in Nat \ {0} /\ InFlight \in Nat \ {0}
  /\ MaxResends \in Nat /\ MaxTimeouts \in Nat
  /\ QCA_OTA_MAX_TFTP_RETRY_TIMES \in Nat

TFTP_SERVER_PORT == 0
Ports == 1 .. Transfers        \* of the server, one for each transfer

(* Packets of the server are the numbers of blocks and two more.            *)
OACK  == 0
Error == Blocks + 1
(* Packets of the client are acknowledgements of blocks, and a request.     *)
RRQ   == Blocks + 1

(* What a block of a partition holds.                                       *)
Erased == 0
Old    == Blocks + 1
OldImage == [i \in 1 .. Blocks |-> Old]
NewImage == [i \in 1 .. Blocks |-> i]

VARIABLES
  file,              \* "sound", "damaged" (its header is wrong), "foreign" (no image)
  large,             \* is partition 2 valid: a flash of 1024 KB
  current_partition,
  partition_entries, \* qca_partition_entries: where partitions 1 and 2 begin
  flash,             \* the two partitions, by where they begin
  ret,               \* "none" while _ota_tftp runs
  tftp_state, pkt_seq_last, total_rx_bytes, retry_times, retry_count,
  sin_port,          \* of serv_addr
  requests,          \* requests on their way to TFTP_SERVER_PORT
  server,            \* the block each transfer is at; Idle and Finished
  resends,           \* how often it sent again
  toServer, toClient,
  reordered          \* was a packet overtaken by another

place   == <<file, large, current_partition>>
storage == <<partition_entries, flash>>
client  == <<ret, tftp_state, pkt_seq_last, total_rx_bytes, retry_times, retry_count,
             sin_port>>
serving == <<server, resends>>
net     == <<requests, toServer, toClient, reordered>>
vars    == <<place, storage, client, serving, net>>

Idle     == Blocks + 2
Finished == Blocks + 1

-----------------------------------------------------------------------------
(* The partitions.                                                          *)

(* The table in the flash, which _ota_nvram_load_partition_table reads.     *)
Table == <<1, 2>>

(* The entry is changed, and then the table is read again.                  *)
SetPartitionBase(entries, partition, base) == Table

SwapPartitionEntries(entries) ==
  LET base1 == entries[1]
      base2 == entries[1]
  IN  SetPartitionBase(SetPartitionBase(entries, 1, base2), 2, base1)

(* Mutant of the next definition: the active image is overwritten.          *)
FirstPartition == 1

upgrade_partition == IF large /\ current_partition # 0 THEN 2 ELSE 1

ota_need_swap_partition == large /\ current_partition # 0

Target == partition_entries[upgrade_partition]

Init ==
  /\ file \in {"sound", "damaged", "foreign"} /\ large \in BOOLEAN
  /\ current_partition \in {0, 1}
  /\ partition_entries = Table
  /\ flash \in [1 .. 2 -> [magic : BOOLEAN, data : {OldImage}]]
  /\ (flash[1].magic <=> current_partition = 1) /\ (flash[2].magic => large)
  /\ ret = "none" /\ tftp_state = "RRQ"
  /\ pkt_seq_last = 0 /\ total_rx_bytes = 0
  /\ retry_times = 0 /\ retry_count = 0 /\ sin_port = TFTP_SERVER_PORT
  /\ requests = 1
  /\ server = [t \in Ports |-> Idle] /\ resends = [t \in Ports |-> 0]
  /\ toServer = [t \in Ports |-> <<>>] /\ toClient = [t \in Ports |-> <<>>]
  /\ reordered = FALSE

-----------------------------------------------------------------------------
(* The network.                                                             *)
Put(channel, p) ==
  IF Len(channel) < InFlight THEN Append(channel, p) ELSE channel

Running == ret = "none"

(* Any packet may be the next to arrive, or be lost.                        *)
Lose(t) ==
  /\ Running
  /\ \/ /\ \E i \in DOMAIN toServer[t] :
             toServer' = [toServer EXCEPT ![t] = RemoveAt(@, i)]
        /\ UNCHANGED <<toClient, requests>>
     \/ /\ \E i \in DOMAIN toClient[t] :
             toClient' = [toClient EXCEPT ![t] = RemoveAt(@, i)]
        /\ UNCHANGED <<toServer, requests>>
     \/ /\ requests > 0 /\ requests' = requests - 1
        /\ UNCHANGED <<toServer, toClient>>
  /\ UNCHANGED <<place, storage, client, serving, reordered>>

(* The server.                                                              *)
Start(t) ==
  /\ Running
  /\ requests > 0 /\ server[t] = Idle
  /\ t > 1 => server[t - 1] # Idle
  /\ requests' = requests - 1
  /\ \E p \in {OACK, 1, Error} :
       /\ server' = [server EXCEPT ![t] = p]
       /\ toClient' = [toClient EXCEPT ![t] = Put(@, p)]
  /\ UNCHANGED <<place, storage, client, resends, toServer, reordered>>

Serve(t) ==
  /\ Running
  /\ \E i \in DOMAIN toServer[t] :
       LET p == toServer[t][i] IN
       /\ toServer' = [toServer EXCEPT ![t] = RemoveAt(@, i)]
       /\ reordered' = (reordered \/ i > 1)
       /\ \/ /\ p = server[t] /\ p < Blocks
             /\ server' = [server EXCEPT ![t] = p + 1]
             /\ toClient' = [toClient EXCEPT ![t] = Put(@, p + 1)]
          \/ /\ p = server[t] /\ p = Blocks
             /\ server' = [server EXCEPT ![t] = Finished]
             /\ UNCHANGED toClient
          \/ /\ p = RRQ
             /\ server' = [server EXCEPT ![t] = Finished]
             /\ toClient' = [toClient EXCEPT ![t] = Put(@, Error)]
          \/ p # server[t] /\ UNCHANGED <<server, toClient>>
  /\ UNCHANGED <<place, storage, client, requests, resends>>

SendAgain(t) ==
  /\ Running
  /\ server[t] <= Blocks /\ resends[t] < MaxResends
  /\ resends' = [resends EXCEPT ![t] = @ + 1]
  /\ toClient' = [toClient EXCEPT ![t] = Put(@, server[t])]
  /\ UNCHANGED <<place, storage, client, server, requests, toServer, reordered>>

-----------------------------------------------------------------------------
(* The client, one turn of the loop of _ota_tftp at a time.                 *)

(* Mutants of the next definition: the blocks are counted, not compared;    *)
(* the blocks are compared with a header that is wrong.                     *)
AnyImage(data) == file = "sound"
AnyHeader(data) == data = NewImage

ChecksumMatches(data) == file = "sound" /\ data = NewImage

Acknowledge(t, p) == toServer' = [toServer EXCEPT ![t] = Put(@, p)]

(* With the first block the partition is erased.                            *)
Before(p) == IF p = 1 THEN [i \in 1 .. Blocks |-> Erased] ELSE flash[Target].data

Stored(p) ==
  [i \in 1 .. Blocks |-> IF i = total_rx_bytes + 1 THEN p ELSE Before(p)[i]]

(* total_rx_bytes equals ota_image_len after the last block if every block  *)
(* lies at its place.  The first block and the last are shorter than the    *)
(* others, so that when one was stored twice the lengths may be equal       *)
(* earlier, later or never; so it is when the length in the header is wrong.*)
InPlace(p) ==
  /\ file = "sound"
  /\ total_rx_bytes < Blocks /\ \A i \in 1 .. total_rx_bytes + 1 : Stored(p)[i] = i

MayComplete(p)  == InPlace(p) => total_rx_bytes + 1 = Blocks
MayBePartial(p) == InPlace(p) => total_rx_bytes + 1 # Blocks

Store(p) ==
  flash' = [flash EXCEPT ![Target] = [magic |-> p # 1 /\ @.magic, data |-> Stored(p)]]

RefuseHeader(t) ==
  /\ file = "foreign"
  /\ ret' = "header" /\ pkt_seq_last' = 1 /\ tftp_state' = "DATA"
  /\ Acknowledge(t, 1)
  /\ UNCHANGED <<storage, total_rx_bytes, retry_count>>

Continue(t, p) ==
  /\ MayBePartial(p)
  /\ Store(p)
  /\ pkt_seq_last' = p /\ tftp_state' = "DATA"
  /\ total_rx_bytes' = total_rx_bytes + 1
  /\ Acknowledge(t, p)
  /\ UNCHANGED <<ret, retry_count, partition_entries>>

Succeed(t, p) ==
  /\ MayComplete(p) /\ ChecksumMatches(Stored(p))
  /\ flash' = [flash EXCEPT ![Target] = [magic |-> TRUE, data |-> Stored(p)]]
  /\ partition_entries' = IF ota_need_swap_partition
                          THEN SwapPartitionEntries(partition_entries)
                          ELSE partition_entries
  /\ ret' = "ok"
  /\ pkt_seq_last' = p /\ tftp_state' = "DATA"
  /\ total_rx_bytes' = total_rx_bytes + 1
  /\ Acknowledge(t, p)
  /\ UNCHANGED retry_count

AskAgain(t, p) ==
  /\ MayComplete(p) /\ ~ChecksumMatches(Stored(p))
  /\ retry_count < QCA_OTA_MAX_TFTP_RETRY_TIMES
  /\ Store(p)
  /\ retry_count' = retry_count + 1
  /\ pkt_seq_last' = p /\ tftp_state' = "RRQ" /\ total_rx_bytes' = 0
  /\ toServer' = [toServer EXCEPT ![t] = Put(Put(@, p), RRQ)]
  /\ UNCHANGED <<ret, partition_entries>>

(* A second checksum that is the same and one that is not give two          *)
(* different errors, which are not told apart here.                         *)
GiveUp(t, p) ==
  /\ MayComplete(p) /\ ~ChecksumMatches(Stored(p))
  /\ retry_count >= QCA_OTA_MAX_TFTP_RETRY_TIMES
  /\ Store(p)
  /\ ret' = "fail"
  /\ pkt_seq_last' = p /\ tftp_state' = "DATA"
  /\ total_rx_bytes' = total_rx_bytes + 1
  /\ Acknowledge(t, p)
  /\ UNCHANGED <<retry_count, partition_entries>>

StoreBlock(t, p) ==
  \/ p = 1 /\ RefuseHeader(t)
  \/ /\ p = 1 => file # "foreign"
     /\ Continue(t, p) \/ Succeed(t, p) \/ AskAgain(t, p) \/ GiveUp(t, p)

(* A mutant of the next definition: a block that is sent again is stored    *)
(* again.                                                                   *)
EveryBlock(p) == TRUE

IsNew(p) == p # pkt_seq_last

Receive(t, i) ==
  LET p == toClient[t][i] IN
  /\ toClient' = [toClient EXCEPT ![t] = RemoveAt(@, i)]
  /\ reordered' = (reordered \/ i > 1)
  /\ retry_times' = 0
  /\ \/ /\ p = Error
        /\ ret' = "fail"
        /\ UNCHANGED <<storage, tftp_state, pkt_seq_last, total_rx_bytes,
                       retry_count, sin_port, toServer>>
     \/ /\ p = OACK
        /\ tftp_state' = "OACK" /\ sin_port' = t
        /\ Acknowledge(t, pkt_seq_last)
        /\ UNCHANGED <<storage, ret, pkt_seq_last, total_rx_bytes,
                       retry_count>>
     \/ /\ p \in 1 .. Blocks /\ sin_port' = t
        /\ \/ IsNew(p) /\ StoreBlock(t, p)
           \/ /\ ~IsNew(p)
              /\ tftp_state' = "DATA"
              /\ Acknowledge(t, p)
              /\ UNCHANGED <<storage, ret, pkt_seq_last, total_rx_bytes,
                             retry_count>>
  /\ UNCHANGED <<place, serving, requests>>

(* What was sent last is sent again.                                        *)
SendLast ==
  \/ /\ tftp_state = "RRQ" /\ sin_port = TFTP_SERVER_PORT
     /\ requests' = IF requests < InFlight THEN requests + 1 ELSE requests
     /\ UNCHANGED toServer
  \/ /\ tftp_state = "RRQ" /\ sin_port # TFTP_SERVER_PORT
     /\ Acknowledge(sin_port, RRQ)
     /\ UNCHANGED requests
  \/ /\ tftp_state # "RRQ"
     /\ Acknowledge(sin_port, pkt_seq_last)
     /\ UNCHANGED requests

(* A mutant of the next definition: timeouts are not counted.               *)
TimeoutUncounted ==
  /\ SendLast
  /\ UNCHANGED <<place, storage, client, serving, toClient, reordered>>

Timeout ==
  /\ retry_times' = retry_times + 1
  /\ \/ /\ retry_times >= MaxTimeouts
        /\ ret' = "timeout"
        /\ UNCHANGED <<requests, toServer>>
     \/ retry_times < MaxTimeouts /\ SendLast /\ UNCHANGED ret
  /\ UNCHANGED <<place, storage, tftp_state, pkt_seq_last, total_rx_bytes,
                 retry_count, sin_port, serving, toClient, reordered>>

Client ==
  /\ Running
  /\ \/ Timeout
     \/ \E t \in Ports : \E i \in DOMAIN toClient[t] : Receive(t, i)

Next ==
  \/ Client
  \/ \E t \in Ports : Start(t) \/ Serve(t) \/ SendAgain(t) \/ Lose(t)

Spec == Init /\ [][Next]_vars

(* The caller of _ota_tftp goes on with its loop: qcom_select returns.      *)
FairSpec == Spec /\ WF_vars(Client)

-----------------------------------------------------------------------------
(* The type invariant.                                                      *)
TypeOK ==
  /\ file \in {"sound", "damaged", "foreign"} /\ large \in BOOLEAN
  /\ current_partition \in {0, 1}
  /\ partition_entries \in [1 .. 2 -> 1 .. 2]
  /\ flash \in [1 .. 2 -> [magic : BOOLEAN,
                           data : [1 .. Blocks -> 0 .. Blocks + 1]]]
  /\ ret \in {"none", "ok", "fail", "header", "timeout"}
  /\ tftp_state \in {"RRQ", "OACK", "DATA"}
  /\ pkt_seq_last \in 0 .. Blocks /\ total_rx_bytes \in Nat
  /\ retry_times \in 0 .. MaxTimeouts + 1
  /\ retry_count \in 0 .. QCA_OTA_MAX_TFTP_RETRY_TIMES
  /\ sin_port \in {TFTP_SERVER_PORT} \cup Ports
  /\ requests \in 0 .. InFlight
  /\ server \in [Ports -> 0 .. Blocks + 2] /\ resends \in [Ports -> 0 .. MaxResends]
  /\ toServer \in [Ports -> Seq(0 .. Blocks + 1)]
  /\ toClient \in [Ports -> Seq(0 .. Blocks + 1)]
  /\ reordered \in BOOLEAN

(* Whatever blocks arrive, how often and in which order, a partition with   *)
(* the magic word holds one whole image whose checksum is right, the old    *)
(* one or the new one: also when the first block comes again in the middle  *)
(* of the image, or an old one is stored a second time.                     *)
BootableIsImage ==
  \A p \in 1 .. 2 : flash[p].magic =>
    \/ flash[p].data = OldImage
    \/ flash[p].data = NewImage /\ file = "sound"

(* The update reports success exactly when the partition it was for has     *)
(* become bootable with the new image; otherwise, the old image is          *)
(* untouched or the partition is not bootable.                              *)
OkIsBootable == ret = "ok" <=> flash[Target].magic /\ flash[Target].data = NewImage

(* Whatever the network does, only whole and right images become bootable,  *)
(* and success is reported for them alone.                                  *)
BootableIsReported == BootableIsImage /\ OkIsBootable

(* In a flash with two partitions for images the active one stays bootable  *)
(* whatever becomes of the update, so that the module still runs its image  *)
(* when the power is lost in the middle of it.                              *)
ActiveStaysBootable == large /\ current_partition = 1 => flash[1].magic

(* As long as the server has started one transfer, the client has made no   *)
(* second attempt and no packet overtook another, the partition holds the   *)
(* image from its beginning, whatever was lost or sent again: pkt_seq_last  *)
(* is enough to tell the blocks apart.  (A second transfer, started because *)
(* a request was sent again, a network that reorders, or an attempt after   *)
(* a wrong length in the header lets an old block be stored as a new one.)  *)
StoredInOrder ==
  (retry_count = 0 /\ ~reordered /\ \A t \in Ports : t > 1 => server[t] = Idle)
  => \A i \in 1 .. Blocks : i <= total_rx_bytes => flash[Target].data[i] = i

(* The update ends: the server can send only so much, and the timeouts are  *)
(* counted, although every packet that arrives sets the count back.         *)
UpgradeEnds == <>(~Running)

(* When the module asks for the file, at first or after a wrong checksum,   *)
(* it asks where a request is served, and takes the first block for a new   *)
(* one.  ("reset TFTP client and retry")                                    *)
RequestsAreServed ==
  Running /\ tftp_state = "RRQ" => sin_port = TFTP_SERVER_PORT /\ pkt_seq_last = 0

(* An update that needs the entries of the partition table swapped leaves   *)
(* them swapped.  ("do partition table entry swap if needed")               *)
OkIsActive == ret = "ok" /\ ota_need_swap_partition => partition_entries = <<2, 1>>
=============================================================================
