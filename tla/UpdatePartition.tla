--------------------------- MODULE UpdatePartition ---------------------------
(***************************************************************************)
(* The partition of the flash that the module boots from, which also holds *)
(* its settings, and the two ways in which a new firmware gets into it:    *)
(* from the cloud (PCT_HandleOta...), on the cloud thread, and from the    *)
(* MCU (PCT_ModuleOta...), on the UART thread.                             *)
(*                                                                         *)
(* Who sends the firmware is not part of the program.  It is assumed to    *)
(* send a file from its beginning, to go on when a message was answered    *)
(* with ACK, to repeat it when the answer is lost, and to begin again with *)
(* this or another file whenever it likes; one sender at a time.  The      *)
(* power may be lost between any two operations of the flash.              *)
(*                                                                         *)
(* Lengths are counted in cells of the flash, one as long as a magic word. *)
(***************************************************************************)
EXTENDS Naturals

CONSTANTS
  Files,                  \* the firmware files there are
  Length,                 \* of each of them, with its header: u32FileTotalLen
  HeadLen,                \* u32HeadLen: the header, which is not stored
  ZC_OTA_MAX_CHUNK_LEN,   \* the longest chunk
  PartitionLen,           \* 0x40000
  EraseLen,               \* u32EraseOffset: where the last sector begins
  ConfigAt,               \* u32Offset: where the settings begin
  Settings,               \* the values a setting may have
  Default                 \* the one of ZC_ConfigInitPara

ASSUME PartitionAssumption ==
  /\ HeadLen \in Nat \ {0} /\ ZC_OTA_MAX_CHUNK_LEN \in Nat \ {0}
  /\ EraseLen \in Nat \ {0} /\ ConfigAt \in Nat /\ PartitionLen \in Nat
  /\ EraseLen <= ConfigAt /\ ConfigAt < PartitionLen
  /\ Length \in [Files -> {n \in Nat : n > HeadLen}]
  /\ Default \in Settings

Threads == {"cloud", "uart"}
Cells   == 0 .. PartitionLen - 1
Record  == ConfigAt .. PartitionLen - 1

(* What a cell may hold.                                                    *)
Erased     == [kind |-> "erased"]
Magic      == [kind |-> "NVRM"]
Flag       == [kind |-> "ZC_MAGIC_FLAG"]
Code(f, i) == [kind |-> "code", of |-> f, at |-> i]
Config(s)  == [kind |-> "config", of |-> s]

VARIABLES
  flash,           \* the cells of the partition
  u32RecvOffset,   \* of struOtaInfo
  u32TotalLen,
  sender,          \* what is being sent, by whom, and how much was answered
  chunk,           \* what QC_FirmwareUpdate is storing; of length 0: nothing
  settings,        \* g_struZcConfigDb
  toWrite,         \* the next cell QC_WriteDataToFlash writes on each thread
  broken,          \* is there no complete record in the flash
  unsaved          \* were the settings reset without being stored

ota    == <<u32RecvOffset, u32TotalLen>>
config == <<settings, toWrite, broken, unsaved>>
vars   == <<flash, ota, sender, chunk, config>>

NoChunk == [from |-> 0, len |-> 0]

DefaultSettings == [c \in Record |-> IF c = ConfigAt THEN Flag ELSE Config(Default)]

(* A module that never stored anything and runs the golden image.           *)
Init ==
  /\ flash = [c \in Cells |-> Erased]
  /\ u32RecvOffset = 0 /\ u32TotalLen = 0
  /\ \E f \in Files : sender = [step |-> "none", by |-> "cloud", file |-> f, next |-> 0]
  /\ chunk = NoChunk
  /\ settings = DefaultSettings
  /\ toWrite = [t \in Threads |-> PartitionLen]
  /\ broken = TRUE /\ unsaved = FALSE

(* A thread does one thing at a time; it waits 500 ms before it reboots.    *)
Ready(t) ==
  /\ toWrite[t] = PartitionLen
  /\ sender.by = t => chunk = NoChunk /\ sender.step # "reboot"

-----------------------------------------------------------------------------
(* The messages of a firmware update.  Every answer may be lost: the send   *)
(* buffers are full, or the connection ends.                                *)
FileBegin ==
  /\ chunk = NoChunk /\ sender.step # "reboot"
  /\ \E f \in Files, t \in Threads, answer \in {"begin", "chunks"} :
       /\ Ready(t)
       /\ sender' = [step |-> answer, by |-> t, file |-> f, next |-> 0]
       /\ u32RecvOffset' = 0
       /\ u32TotalLen' = Length[f]
  /\ UNCHANGED <<flash, chunk, config>>

GivesUp == sender' = [sender EXCEPT !.step = "none", !.next = 0]

Sends(len) ==
  /\ Ready(sender.by)
  /\ sender.step = "chunks"
  /\ sender.next + len <= Length[sender.file]

Expected(from, len) ==
  from = u32RecvOffset /\ from + len <= u32TotalLen /\ len <= ZC_OTA_MAX_CHUNK_LEN

(* Mutants of the next definition: nothing is erased; the last sector is,   *)
(* too.                                                                     *)
EraseNothing(from) == UNCHANGED flash
EraseEverything(from) == flash' = [c \in Cells |-> IF from = 0 THEN Erased ELSE flash[c]]

(* The partition but for its last sector is erased for the first chunk.     *)
Erase(from) ==
  flash' = [c \in Cells |-> IF from = 0 /\ c < EraseLen THEN Erased ELSE flash[c]]

FileChunk ==
  /\ \E len \in 1 .. ZC_OTA_MAX_CHUNK_LEN :
       /\ Sends(len) /\ Expected(sender.next, len)
       /\ chunk' = [from |-> sender.next, len |-> len]
       /\ Erase(sender.next)
  /\ UNCHANGED <<ota, sender, config>>

(* The answer is an error, and the sender gives up or begins again.         *)
RefuseChunk ==
  /\ \E len \in 1 .. ZC_OTA_MAX_CHUNK_LEN : Sends(len) /\ ~Expected(sender.next, len)
  /\ GivesUp
  /\ UNCHANGED <<flash, ota, chunk, config>>

(* The unit of a file that is stored in the cell c: the header is not, and  *)
(* the first cell is left for the magic word.                               *)
UnitAt(c) == c - 1 + HeadLen

(* A mutant of the next definition: the header is taken for longer.         *)
StoredWithoutFirst(c) == /\ c > 1 /\ chunk.from <= UnitAt(c)
                         /\ UnitAt(c) < chunk.from + chunk.len

Stored(c) == c > 0 /\ chunk.from <= UnitAt(c) /\ UnitAt(c) < chunk.from + chunk.len

WriteChunk ==
  /\ chunk # NoChunk
  /\ flash' = [c \in Cells |-> IF Stored(c) THEN Code(sender.file, UnitAt(c)) ELSE flash[c]]
  /\ u32RecvOffset' = u32RecvOffset + chunk.len
  /\ \/ sender' = [sender EXCEPT !.next = chunk.from + chunk.len]
     \/ UNCHANGED sender
  /\ chunk' = NoChunk
  /\ UNCHANGED <<u32TotalLen, config>>

(* ZC_CODE_ZOTA_FILE_END of the MCU or ZC_CODE_ZOTA_END of the cloud.       *)
(* QC_FirmwareUpdateFinish returns no value, so that the answer is an error *)
(* or not; without one the update from the cloud ends with a reboot.        *)
Finish ==
  /\ Ready(sender.by)
  /\ sender.step = "chunks" /\ sender.next = Length[sender.file]
  /\ flash' = [flash EXCEPT ![0] = Magic]
  /\ \/ GivesUp
     \/ UNCHANGED sender
     \/ sender.by = "cloud" /\ sender' = [sender EXCEPT !.step = "reboot"]
  /\ UNCHANGED <<ota, chunk, config>>

-----------------------------------------------------------------------------
(* The settings: ZC_ConfigPara and QC_Rest on the UART thread,              *)
(* ZC_StoreTokenKey, ZC_StoreAccessInfo and ZC_StoreConnectionInfo on the   *)
(* cloud thread.  Each changes some of them and writes all of them.         *)
Store(t) ==
  /\ Ready(t)
  /\ \E changed \in SUBSET (Record \ {ConfigAt}), s \in Settings :
       settings' = [c \in Record |-> IF c \in changed THEN Config(s) ELSE settings[c]]
  /\ flash' = [c \in Cells |-> IF c >= EraseLen THEN Erased ELSE flash[c]]
  /\ toWrite' = [toWrite EXCEPT ![t] = ConfigAt]
  /\ broken' = FALSE /\ unsaved' = FALSE
  /\ UNCHANGED <<ota, sender, chunk>>

(* The record is written from g_struZcConfigDb itself.                      *)
Write(t) ==
  /\ toWrite[t] < PartitionLen
  /\ flash' = [flash EXCEPT ![toWrite[t]] = settings[toWrite[t]]]
  /\ toWrite' = [toWrite EXCEPT ![t] = @ + 1]
  /\ UNCHANGED <<ota, sender, chunk, settings, broken, unsaved>>

(* PCT_ResetNetWork: the settings are reset, but only in memory.            *)
ResetNetWork ==
  /\ Ready("cloud")
  /\ settings' = DefaultSettings
  /\ unsaved' = TRUE
  /\ UNCHANGED <<flash, ota, sender, chunk, toWrite, broken>>

(* The power is lost or the module resets itself, and QC_Init reads the     *)
(* settings if the magic flag is there.  Whoever sends a firmware may go on *)
(* where it was.                                                            *)
Boot ==
  /\ settings' = IF flash[ConfigAt] = Flag THEN [c \in Record |-> flash[c]]
                                           ELSE DefaultSettings
  /\ u32RecvOffset' = 0 /\ u32TotalLen' = 0 /\ chunk' = NoChunk
  /\ IF sender.step = "reboot" THEN GivesUp ELSE UNCHANGED sender
  /\ toWrite' = [t \in Threads |-> PartitionLen]
  /\ broken' = (broken \/ \E t \in Threads : toWrite[t] < PartitionLen)
  /\ unsaved' = FALSE
  /\ UNCHANGED flash

Next ==
  \/ FileBegin \/ FileChunk \/ RefuseChunk \/ WriteChunk \/ Finish
  \/ \E t \in Threads : Store(t) \/ Write(t)
  \/ ResetNetWork \/ Boot

Spec == Init /\ [][Next]_vars

-----------------------------------------------------------------------------
(* The type invariant.                                                      *)
CellValues ==
  {Erased, Magic, Flag} \cup [kind : {"code"}, of : Files, at : Nat]
  \cup [kind : {"config"}, of : Settings]

TypeOK ==
  /\ flash \in [Cells -> CellValues]
  /\ u32RecvOffset \in Nat /\ u32TotalLen \in Nat
  /\ sender \in [step : {"none", "begin", "chunks", "reboot"}, by : Threads,
                 file : Files, next : Nat]
  /\ sender.next <= Length[sender.file]
  /\ chunk \in [from : Nat, len : 0 .. ZC_OTA_MAX_CHUNK_LEN]
  /\ settings \in [Record -> CellValues]
  /\ toWrite \in [Threads -> ConfigAt .. PartitionLen]
  /\ broken \in BOOLEAN /\ unsaved \in BOOLEAN

(* The units of f up to n are where they belong.                            *)
IsStored(f, n) == \A c \in Cells : c > 0 /\ UnitAt(c) < n => flash[c] = Code(f, UnitAt(c))

(* The module never boots a part of a firmware, or a mixture of two, after  *)
(* whatever losses of messages and of the power, restarts of the update and *)
(* changes of the settings.  The magic word is written without a look at    *)
(* what was received.                                                       *)
BootableIsComplete == flash[0] = Magic => \E f \in Files : IsStored(f, Length[f])

(* What was answered with ACK is in the flash, although the module forgets  *)
(* all of an update when it boots and the sender does not.                  *)
AnsweredIsStored == sender.step = "chunks" => IsStored(sender.file, sender.next)

(* What an update has stored stays stored, and only the whole of it boots.  *)
FirmwareIsStored == AnsweredIsStored /\ BootableIsComplete

(* The settings the module runs with are those that it will find when it    *)
(* boots the next time, unless the power was lost while they were written   *)
(* or the cloud has reset them: the two threads that write them, and the    *)
(* update that erases the partition they are in, do not spoil them.         *)
SettingsAreKept ==
  (/\ ~broken /\ ~unsaved
   /\ \A t \in Threads : toWrite[t] = PartitionLen)
  => \A c \in Record : flash[c] = settings[c]
=============================================================================
