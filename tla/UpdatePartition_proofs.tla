----------------------- MODULE UpdatePartition_proofs ------------------------
(***************************************************************************)
(* Proofs about UpdatePartition, for any files that fit into the partition *)
(* below its last sector, any lengths of chunks, and settings of any size. *)
(*                                                                         *)
(* What has to be known beyond the invariants: a chunk that is being       *)
(* stored is the next one of the sender, the magic word is gone from the   *)
(* first chunk of a file to the last one (NoMagicMeanwhile), and each cell *)
(* of the settings is right or about to be written (RecordInWork).         *)
(***************************************************************************)
EXTENDS UpdatePartition, TLAPS

(* QC_FirmwareUpdate does not check this.                                   *)
FilesFit == \A f \in Files : Length[f] < EraseLen + HeadLen

ChunkIsNext ==
  chunk # NoChunk =>
    /\ sender.step = "chunks"
    /\ chunk.from = sender.next /\ chunk.len > 0
    /\ chunk.from + chunk.len <= Length[sender.file]
    /\ flash[0] # Magic

NoMagicMeanwhile ==
  sender.step = "chunks" /\ 0 < sender.next /\ sender.next < Length[sender.file]
  => flash[0] # Magic

RecordInWork ==
  /\ settings[ConfigAt] = Flag
  /\ ~broken => flash[ConfigAt] = Flag \/ \E t \in Threads : toWrite[t] <= ConfigAt
  /\ ~broken /\ ~unsaved =>
       \A c \in Record : flash[c] = settings[c] \/ \E t \in Threads : toWrite[t] <= c

IndInv ==
  /\ TypeOK
  /\ BootableIsComplete
  /\ AnsweredIsStored
  /\ ChunkIsNext
  /\ NoMagicMeanwhile
  /\ RecordInWork

LEMMA Lengths ==
  /\ HeadLen \in Nat \ {0} /\ EraseLen \in Nat \ {0} /\ ConfigAt \in Nat /\ PartitionLen \in Nat
  /\ EraseLen <= ConfigAt /\ ConfigAt < PartitionLen
  /\ \A f \in Files : Length[f] \in Nat /\ Length[f] > HeadLen
  /\ 0 \in Cells /\ ConfigAt \in Record /\ ConfigAt \in Cells
  /\ \A c \in Record : c \in Cells /\ c \in Nat /\ c >= ConfigAt /\ c # 0
  /\ \A c \in Cells : c \in Nat
BY PartitionAssumption DEF Cells, Record

(* A cell that a file uses is below the last sector.                        *)
LEMMA CodeIsBelow ==
  ASSUME FilesFit, NEW f \in Files, NEW c \in Cells, UnitAt(c) < Length[f]
  PROVE  c < EraseLen
BY Lengths DEF FilesFit, UnitAt

LEMMA KindsDiffer ==
  /\ Magic # Erased /\ Magic # Flag
  /\ \A f, i : Code(f, i) # Magic
  /\ \A s : Config(s) # Magic
<1>1. /\ Magic.kind = "NVRM" /\ Erased.kind = "erased" /\ Flag.kind = "ZC_MAGIC_FLAG"
      /\ \A f, i : Code(f, i).kind = "code"
      /\ \A s : Config(s).kind = "config"
  BY DEF Magic, Erased, Flag, Code, Config
<1> QED BY <1>1

LEMMA InitIndInv == Init => IndInv
<1> SUFFICES ASSUME Init PROVE IndInv
  OBVIOUS
<1>1. Default \in Settings /\ NoChunk \in [from : Nat, len : 0 .. ZC_OTA_MAX_CHUNK_LEN]
  BY PartitionAssumption DEF NoChunk
<1>2. TypeOK
  <2>1. PICK f \in Files : sender = [step |-> "none", by |-> "cloud", file |-> f, next |-> 0]
    BY DEF Init
  <2>2. settings \in [Record -> CellValues]
    BY <1>1 DEF Init, DefaultSettings, CellValues, Config
  <2>3. flash \in [Cells -> CellValues]
    BY DEF Init, CellValues
  <2>4. toWrite \in [Threads -> ConfigAt .. PartitionLen]
    BY Lengths DEF Init
  <2>5. sender \in [step : {"none", "begin", "chunks", "reboot"}, by : Threads,
                    file : Files, next : Nat]
    BY <2>1 DEF Threads
  <2>6. sender.next <= Length[sender.file]
    BY <2>1, Lengths
  <2>7. broken \in BOOLEAN /\ unsaved \in BOOLEAN
    BY DEF Init
  <2> QED BY <1>1, <2>2, <2>3, <2>4, <2>5, <2>6, <2>7 DEF Init, TypeOK
<1>3. flash[0] # Magic
  BY Lengths, KindsDiffer DEF Init
<1>4. sender.step # "chunks" /\ chunk = NoChunk
  BY DEF Init
<1>5. RecordInWork
  BY Lengths DEF Init, DefaultSettings, RecordInWork
<1> QED BY <1>2, <1>3, <1>4, <1>5
        DEF IndInv, BootableIsComplete, AnsweredIsStored, ChunkIsNext, NoMagicMeanwhile

(* The steps that leave the flash and the settings alone.                   *)
LEMMA BeginStep == ASSUME IndInv, FileBegin PROVE IndInv'
<1>1. PICK f \in Files, t \in Threads, answer \in {"begin", "chunks"} :
        /\ sender' = [step |-> answer, by |-> t, file |-> f, next |-> 0]
        /\ u32RecvOffset' = 0 /\ u32TotalLen' = Length[f]
  BY DEF FileBegin
<1>2. UNCHANGED <<flash, chunk, config>> /\ chunk = NoChunk
  BY DEF FileBegin
<1>3. TypeOK'
  <2>1. broken' \in BOOLEAN /\ unsaved' \in BOOLEAN
    BY <1>2 DEF IndInv, TypeOK, config
  <2>2. 0 <= Length[f] /\ Length[f] \in Nat
    BY Lengths
  <2> QED BY <1>1, <1>2, <2>1, <2>2 DEF IndInv, TypeOK, config, CellValues
<1>4. AnsweredIsStored'
  BY <1>1, Lengths DEF AnsweredIsStored, IsStored, UnitAt
<1>5. BootableIsComplete' /\ RecordInWork'
  BY <1>2 DEF IndInv, BootableIsComplete, IsStored, RecordInWork, config
<1>6. ChunkIsNext' /\ NoMagicMeanwhile'
  BY <1>1, <1>2 DEF ChunkIsNext, NoMagicMeanwhile
<1> QED BY <1>3, <1>4, <1>5, <1>6 DEF IndInv

LEMMA GivesUpStep ==
  ASSUME IndInv, UNCHANGED <<flash, ota, chunk, config>>, GivesUp, chunk = NoChunk
  PROVE  IndInv'
<1>1. sender'.step = "none" /\ sender'.next = 0 /\ sender'.file = sender.file
  BY DEF IndInv, TypeOK, GivesUp
<1>2. TypeOK'
  <2>1. broken' \in BOOLEAN /\ unsaved' \in BOOLEAN
    BY DEF IndInv, TypeOK, config
  <2>2. sender' \in [step : {"none", "begin", "chunks", "reboot"}, by : Threads,
                     file : Files, next : Nat]
    BY DEF IndInv, TypeOK, GivesUp
  <2>3. sender'.next <= Length[sender'.file]
    BY <1>1, Lengths DEF IndInv, TypeOK
  <2> QED BY <2>1, <2>2, <2>3 DEF IndInv, TypeOK, ota, config, CellValues
<1>3. BootableIsComplete' /\ RecordInWork'
  BY DEF IndInv, BootableIsComplete, IsStored, RecordInWork, config
<1>4. AnsweredIsStored' /\ ChunkIsNext' /\ NoMagicMeanwhile'
  BY <1>1 DEF AnsweredIsStored, ChunkIsNext, NoMagicMeanwhile
<1> QED BY <1>2, <1>3, <1>4 DEF IndInv

LEMMA RefuseStep == ASSUME IndInv, RefuseChunk PROVE IndInv'
<1>1. chunk = NoChunk /\ sender.step = "chunks"
  BY DEF RefuseChunk, Sends, Ready
<1> QED BY <1>1, GivesUpStep DEF RefuseChunk

(* Erasing the partition takes the magic word away.                         *)
LEMMA ChunkStep == ASSUME FilesFit, IndInv, FileChunk PROVE IndInv'
<1>1. PICK len \in 1 .. ZC_OTA_MAX_CHUNK_LEN :
        /\ Sends(len) /\ Expected(sender.next, len)
        /\ chunk' = [from |-> sender.next, len |-> len]
        /\ Erase(sender.next)
  BY DEF FileChunk
<1>2. UNCHANGED <<ota, sender, config>>
  BY DEF FileChunk
<1>3. sender.step = "chunks" /\ sender.next + len <= Length[sender.file]
  BY <1>1 DEF Sends
<1>4. len \in Nat /\ len > 0 /\ sender.next \in Nat /\ sender.file \in Files
      /\ Length[sender.file] \in Nat
  BY PartitionAssumption, Lengths DEF IndInv, TypeOK
<1>5. ASSUME NEW c \in Cells
      PROVE  flash'[c] = IF sender.next = 0 /\ c < EraseLen THEN Erased ELSE flash[c]
  BY <1>1 DEF Erase
<1>6. TypeOK'
  <2>1. broken' \in BOOLEAN /\ unsaved' \in BOOLEAN
    BY <1>2 DEF IndInv, TypeOK, config
  <2>2. flash' \in [Cells -> CellValues]
    BY <1>1 DEF IndInv, TypeOK, Erase, CellValues
  <2>3. chunk' \in [from : Nat, len : 0 .. ZC_OTA_MAX_CHUNK_LEN]
    BY <1>1, <1>4, PartitionAssumption
  <2> QED BY <1>2, <2>1, <2>2, <2>3 DEF IndInv, TypeOK, ota, config, CellValues
<1>7. flash'[0] # Magic
  <2>1. CASE sender.next = 0
    BY <2>1, <1>5, Lengths, KindsDiffer
  <2>2. CASE sender.next # 0
    <3>1. flash[0] # Magic
      BY <2>2, <1>3, <1>4 DEF IndInv, NoMagicMeanwhile
    <3> QED BY <3>1, <2>2, <1>5, Lengths
  <2> QED BY <2>1, <2>2
<1>8. AnsweredIsStored'
  <2> SUFFICES ASSUME NEW c \in Cells, c > 0, UnitAt(c) < sender.next
               PROVE  flash'[c] = Code(sender.file, UnitAt(c))
    BY <1>2 DEF AnsweredIsStored, IsStored
  <2>1. sender.next # 0
    BY Lengths DEF UnitAt
  <2> QED BY <2>1, <1>3, <1>5 DEF IndInv, AnsweredIsStored, IsStored
<1>9. RecordInWork'
  <2>1. ASSUME NEW c \in Record PROVE flash'[c] = flash[c]
    <3>1. ~(c < EraseLen) /\ c \in Cells
      BY Lengths
    <3> QED BY <3>1, <1>5
  <2> QED BY <2>1, <1>2, Lengths DEF IndInv, RecordInWork, config
<1>10. ChunkIsNext'
  BY <1>1, <1>2, <1>3, <1>4, <1>7 DEF ChunkIsNext
<1> QED BY <1>6, <1>7, <1>8, <1>9, <1>10 DEF IndInv, BootableIsComplete, NoMagicMeanwhile

(* The next cells of the file are stored, and none of the settings.         *)
LEMMA WriteChunkStep == ASSUME FilesFit, IndInv, WriteChunk PROVE IndInv'
<1>1. /\ sender.step = "chunks" /\ chunk.from = sender.next /\ chunk.len > 0
      /\ chunk.from + chunk.len <= Length[sender.file] /\ flash[0] # Magic
  BY DEF IndInv, ChunkIsNext, WriteChunk
<1>2. /\ sender.next \in Nat /\ sender.file \in Files /\ Length[sender.file] \in Nat
      /\ chunk.from \in Nat /\ chunk.len \in Nat
  BY Lengths, PartitionAssumption DEF IndInv, TypeOK
<1>3. ASSUME NEW c \in Cells
      PROVE  flash'[c] = IF Stored(c) THEN Code(sender.file, UnitAt(c)) ELSE flash[c]
  BY DEF WriteChunk
<1>4. /\ chunk' = NoChunk /\ UNCHANGED <<u32TotalLen, config>>
      /\ \/ sender' = [sender EXCEPT !.next = chunk.from + chunk.len]
         \/ UNCHANGED sender
  BY DEF WriteChunk
<1>5. /\ sender'.step = sender.step /\ sender'.file = sender.file
      /\ sender'.next = sender.next \/ sender'.next = chunk.from + chunk.len
      /\ sender' \in [step : {"none", "begin", "chunks", "reboot"}, by : Threads,
                      file : Files, next : Nat]
  BY <1>2, <1>4 DEF IndInv, TypeOK
<1>6. TypeOK'
  <2>1. broken' \in BOOLEAN /\ unsaved' \in BOOLEAN
    BY <1>4 DEF IndInv, TypeOK, config
  <2>2. ASSUME NEW c \in Cells PROVE flash'[c] \in CellValues
    <3>1. CASE Stored(c)
      <4>1. UnitAt(c) \in Nat
        BY <3>1, Lengths DEF Stored, UnitAt
      <4>2. Code(sender.file, UnitAt(c)) \in [kind : {"code"}, of : Files, at : Nat]
        BY <4>1, <1>2 DEF Code
      <4> QED BY <3>1, <4>2, <1>3 DEF CellValues
    <3>2. CASE ~Stored(c)
      BY <3>2, <1>3 DEF IndInv, TypeOK
    <3> QED BY <3>1, <3>2
  <2>3. flash' \in [Cells -> CellValues]
    BY <2>2 DEF WriteChunk
  <2>4. chunk' \in [from : Nat, len : 0 .. ZC_OTA_MAX_CHUNK_LEN]
    BY <1>4, PartitionAssumption DEF NoChunk
  <2>5. u32RecvOffset' \in Nat
    BY <1>2 DEF IndInv, TypeOK, WriteChunk
  <2>6. sender'.next <= Length[sender'.file]
    BY <1>1, <1>5 DEF IndInv, TypeOK
  <2> QED BY <1>4, <1>5, <2>1, <2>3, <2>4, <2>5, <2>6 DEF IndInv, TypeOK, config, CellValues
<1>7. flash'[0] # Magic
  BY <1>1, <1>3, Lengths DEF Stored
<1>8. AnsweredIsStored'
  <2> SUFFICES ASSUME NEW c \in Cells, c > 0, UnitAt(c) < chunk.from + chunk.len
               PROVE  flash'[c] = Code(sender.file, UnitAt(c))
    <3>1. sender'.next <= chunk.from + chunk.len /\ sender'.next \in Nat
      BY <1>1, <1>2, <1>5
    <3>2. \A c \in Cells : UnitAt(c) \in Nat
      BY Lengths DEF UnitAt
    <3> QED BY <3>1, <3>2, <1>2, <1>5 DEF AnsweredIsStored, IsStored
  <2>1. CASE chunk.from <= UnitAt(c)
    BY <2>1, <1>3 DEF Stored
  <2>2. CASE UnitAt(c) < chunk.from
    <3>1. flash[c] = Code(sender.file, UnitAt(c))
      BY <2>2, <1>1 DEF IndInv, AnsweredIsStored, IsStored
    <3> QED BY <3>1, <1>3
  <2>3. UnitAt(c) \in Nat
    BY Lengths DEF UnitAt
  <2> QED BY <2>1, <2>2, <2>3, <1>2
<1>9. RecordInWork'
  <2>1. ASSUME NEW c \in Record PROVE flash'[c] = flash[c]
    <3>1. ASSUME Stored(c) PROVE FALSE
      <4>1. UnitAt(c) < Length[sender.file]
        <5>1. UnitAt(c) \in Nat
          BY Lengths DEF UnitAt
        <5> QED BY <3>1, <5>1, <1>1, <1>2 DEF Stored
      <4>2. c < EraseLen
        BY <4>1, <1>2, CodeIsBelow, Lengths
      <4> QED BY <4>2, Lengths
    <3> QED BY <3>1, <1>3, Lengths
  <2> QED BY <2>1, <1>4, Lengths DEF IndInv, RecordInWork, config
<1>10. ChunkIsNext' /\ NoMagicMeanwhile' /\ BootableIsComplete'
  BY <1>4, <1>7 DEF ChunkIsNext, NoMagicMeanwhile, BootableIsComplete
<1> QED BY <1>6, <1>8, <1>9, <1>10 DEF IndInv

LEMMA SenderFacts ==
  ASSUME TypeOK
  PROVE  /\ sender = [step |-> sender.step, by |-> sender.by, file |-> sender.file,
                      next |-> sender.next]
         /\ sender.step \in {"none", "begin", "chunks", "reboot"} /\ sender.by \in Threads
         /\ sender.file \in Files /\ sender.next \in Nat
         /\ sender.next <= Length[sender.file]
BY DEF TypeOK

LEMMA GivesUpFacts ==
  ASSUME TypeOK, GivesUp
  PROVE  /\ sender' \in [step : {"none", "begin", "chunks", "reboot"}, by : Threads,
                         file : Files, next : Nat]
         /\ sender'.next <= Length[sender'.file]
         /\ sender'.step = "none"
<1>1. sender' = [step |-> "none", by |-> sender.by, file |-> sender.file, next |-> 0]
  BY SenderFacts DEF GivesUp
<1>2. 0 <= Length[sender.file]
  BY SenderFacts, Lengths
<1> QED BY <1>1, <1>2, SenderFacts

(* Everything was answered, and therefore stored.                           *)
LEMMA FinishStep == ASSUME IndInv, Finish PROVE IndInv'
<1>1. chunk = NoChunk /\ UNCHANGED <<ota, chunk, config>>
  BY DEF Finish, Ready
<1>2. sender.step = "chunks" /\ sender.next = Length[sender.file] /\ sender.file \in Files
  BY DEF Finish, IndInv, TypeOK
<1>3. ASSUME NEW c \in Cells PROVE flash'[c] = IF c = 0 THEN Magic ELSE flash[c]
  BY DEF Finish, IndInv, TypeOK
<1>4. /\ sender' \in [step : {"none", "begin", "chunks", "reboot"}, by : Threads,
                      file : Files, next : Nat]
      /\ sender'.next <= Length[sender'.file]
      /\ sender'.step = "chunks" =>
           sender'.file = sender.file /\ sender'.next = Length[sender.file]
  <2>1. CASE GivesUp
    BY <2>1, GivesUpFacts DEF IndInv
  <2>2. CASE UNCHANGED sender
    BY <2>2, <1>2 DEF IndInv, TypeOK
  <2>3. CASE sender' = [sender EXCEPT !.step = "reboot"]
    BY <2>3, SenderFacts DEF IndInv, TypeOK
  <2> QED BY <2>1, <2>2, <2>3 DEF Finish
<1>5. TypeOK'
  <2>1. broken' \in BOOLEAN /\ unsaved' \in BOOLEAN
    BY <1>1 DEF IndInv, TypeOK, config
  <2>2. flash' \in [Cells -> CellValues]
    BY DEF IndInv, TypeOK, Finish, CellValues
  <2> QED BY <1>1, <1>4, <2>1, <2>2 DEF IndInv, TypeOK, ota, config, CellValues
<1>6. BootableIsComplete' /\ AnsweredIsStored'
  <2>1. \A c \in Cells : c > 0 /\ UnitAt(c) < Length[sender.file]
                         => flash'[c] = Code(sender.file, UnitAt(c))
    BY <1>2, <1>3 DEF IndInv, AnsweredIsStored, IsStored
  <2> QED BY <2>1, <1>2, <1>4 DEF BootableIsComplete, AnsweredIsStored, IsStored
<1>7. ChunkIsNext' /\ NoMagicMeanwhile'
  BY <1>1, <1>2, <1>4, Lengths DEF ChunkIsNext, NoMagicMeanwhile
<1>8. RecordInWork'
  BY <1>1, <1>3, Lengths DEF IndInv, RecordInWork, config
<1> QED BY <1>5, <1>6, <1>7, <1>8 DEF IndInv

(* The settings are written without touching the firmware.                  *)
LEMMA FirmwareUntouched ==
  ASSUME FilesFit, IndInv, UNCHANGED <<ota, sender, chunk>>,
         \A c \in Cells : c < EraseLen => flash'[c] = flash[c]
  PROVE  BootableIsComplete' /\ AnsweredIsStored' /\ ChunkIsNext' /\ NoMagicMeanwhile'
<1>1. flash'[0] = flash[0]
  BY Lengths
<1>2. ASSUME NEW f \in Files, NEW n \in Nat, n <= Length[f], IsStored(f, n)
      PROVE  \A c \in Cells : c > 0 /\ UnitAt(c) < n => flash'[c] = Code(f, UnitAt(c))
  <2> SUFFICES ASSUME NEW c \in Cells, c > 0, UnitAt(c) < n
               PROVE  flash'[c] = Code(f, UnitAt(c))
    OBVIOUS
  <2>1. UnitAt(c) < Length[f]
    BY <1>2, Lengths DEF UnitAt
  <2>2. c < EraseLen
    BY <2>1, CodeIsBelow
  <2> QED BY <1>2, <2>2 DEF IsStored
<1>3. sender.file \in Files /\ sender.next \in Nat /\ sender.next <= Length[sender.file]
  BY DEF IndInv, TypeOK
<1>4. AnsweredIsStored'
  BY <1>2, <1>3 DEF IndInv, AnsweredIsStored, IsStored
<1>5. BootableIsComplete'
  BY <1>1, <1>2, Lengths DEF IndInv, BootableIsComplete, IsStored
<1> QED BY <1>1, <1>4, <1>5 DEF IndInv, ChunkIsNext, NoMagicMeanwhile

LEMMA StoreStep == ASSUME FilesFit, IndInv, NEW t \in Threads, Store(t) PROVE IndInv'
<1>1. UNCHANGED <<ota, sender, chunk>> /\ broken' = FALSE /\ unsaved' = FALSE
  BY DEF Store
<1>2. PICK changed \in SUBSET (Record \ {ConfigAt}), s \in Settings :
        settings' = [c \in Record |-> IF c \in changed THEN Config(s) ELSE settings[c]]
  BY DEF Store
<1>3. \A c \in Cells : c < EraseLen => flash'[c] = flash[c]
  BY Lengths DEF Store
<1>4. toWrite' = [toWrite EXCEPT ![t] = ConfigAt]
  BY DEF Store
<1>5. TypeOK'
  <2>1. flash' \in [Cells -> CellValues]
    BY DEF IndInv, TypeOK, Store, CellValues
  <2>2. ASSUME NEW c \in Record PROVE settings'[c] \in CellValues
    BY <1>2 DEF IndInv, TypeOK, CellValues, Config
  <2>3. settings' \in [Record -> CellValues]
    BY <1>2, <2>2
  <2>4. toWrite' \in [Threads -> ConfigAt .. PartitionLen]
    BY <1>4, Lengths DEF IndInv, TypeOK
  <2> QED BY <1>1, <2>1, <2>3, <2>4 DEF IndInv, TypeOK, ota, CellValues
<1>6. RecordInWork'
  <2>1. toWrite'[t] = ConfigAt
    BY <1>4 DEF IndInv, TypeOK
  <2>2. \A c \in Record : toWrite'[t] <= c
    BY <2>1, Lengths
  <2>3. settings'[ConfigAt] = Flag
    BY <1>2, Lengths DEF IndInv, RecordInWork
  <2> QED BY <2>2, <2>3, Lengths DEF RecordInWork
<1> QED BY <1>1, <1>3, <1>5, <1>6, FirmwareUntouched DEF IndInv

LEMMA WriteStep == ASSUME FilesFit, IndInv, NEW t \in Threads, Write(t) PROVE IndInv'
<1>1. UNCHANGED <<ota, sender, chunk, settings, broken, unsaved>>
  BY DEF Write
<1>2. toWrite[t] \in Record
  BY Lengths DEF IndInv, TypeOK, Write, Record
<1>3. ASSUME NEW c \in Cells
      PROVE  flash'[c] = IF c = toWrite[t] THEN settings[c] ELSE flash[c]
  BY DEF IndInv, TypeOK, Write
<1>4. \A c \in Cells : c < EraseLen => flash'[c] = flash[c]
  <2>1. ASSUME NEW c \in Cells, c < EraseLen PROVE c # toWrite[t]
    BY <2>1, <1>2, Lengths
  <2> QED BY <2>1, <1>3
<1>5. toWrite' = [toWrite EXCEPT ![t] = toWrite[t] + 1]
  BY DEF Write
<1>6. TypeOK'
  <2>1. broken' \in BOOLEAN /\ unsaved' \in BOOLEAN
    BY <1>1 DEF IndInv, TypeOK
  <2>2. flash' \in [Cells -> CellValues]
    <3>1. settings[toWrite[t]] \in CellValues
      BY <1>2 DEF IndInv, TypeOK
    <3> QED BY <3>1 DEF IndInv, TypeOK, Write
  <2>3. toWrite' \in [Threads -> ConfigAt .. PartitionLen]
    BY <1>2, <1>5, Lengths DEF IndInv, TypeOK, Record
  <2> QED BY <1>1, <2>1, <2>2, <2>3 DEF IndInv, TypeOK, ota, CellValues
<1>7. ASSUME NEW c \in Record, NEW u \in Threads, toWrite[u] <= c
      PROVE  flash'[c] = settings[c] \/ \E v \in Threads : toWrite'[v] <= c
  <2>1. CASE u = t /\ c = toWrite[t]
    BY <2>1, <1>3, Lengths
  <2>2. CASE u = t /\ c # toWrite[t]
    <3>1. toWrite'[t] <= c
      BY <2>2, <1>2, <1>5, <1>7, Lengths DEF IndInv, TypeOK
    <3> QED BY <3>1
  <2>3. CASE u # t
    BY <2>3, <1>5, <1>7 DEF IndInv, TypeOK
  <2> QED BY <2>1, <2>2, <2>3
<1>8. ASSUME NEW c \in Record, flash[c] = settings[c] PROVE flash'[c] = settings[c]
  BY <1>3, <1>8, Lengths
<1>9. RecordInWork'
  <2>1. settings'[ConfigAt] = Flag
    BY <1>1 DEF IndInv, RecordInWork
  <2>2. ASSUME ~broken
        PROVE  flash'[ConfigAt] = Flag \/ \E v \in Threads : toWrite'[v] <= ConfigAt
    <3>1. settings[ConfigAt] = Flag
      BY DEF IndInv, RecordInWork
    <3>2. flash[ConfigAt] = Flag \/ \E u \in Threads : toWrite[u] <= ConfigAt
      BY <2>2 DEF IndInv, RecordInWork
    <3> QED BY <3>1, <3>2, <1>7, <1>8, Lengths
  <2>3. ASSUME ~broken, ~unsaved, NEW c \in Record
        PROVE  flash'[c] = settings[c] \/ \E v \in Threads : toWrite'[v] <= c
    <3>1. flash[c] = settings[c] \/ \E u \in Threads : toWrite[u] <= c
      BY <2>3 DEF IndInv, RecordInWork
    <3> QED BY <3>1, <1>7, <1>8
  <2> QED BY <1>1, <2>1, <2>2, <2>3 DEF RecordInWork
<1> QED BY <1>1, <1>4, <1>6, <1>9, FirmwareUntouched DEF IndInv

LEMMA ResetNetWorkStep == ASSUME FilesFit, IndInv, ResetNetWork PROVE IndInv'
<1>1. UNCHANGED <<flash, ota, sender, chunk, toWrite, broken>>
      /\ settings' = DefaultSettings /\ unsaved' = TRUE
  BY DEF ResetNetWork
<1>2. TypeOK'
  <2>1. broken' \in BOOLEAN
    BY <1>1 DEF IndInv, TypeOK
  <2>2. settings' \in [Record -> CellValues]
    BY <1>1, PartitionAssumption DEF DefaultSettings, CellValues, Config
  <2> QED BY <1>1, <2>1, <2>2 DEF IndInv, TypeOK, ota, CellValues
<1>3. RecordInWork'
  BY <1>1, Lengths DEF IndInv, RecordInWork, DefaultSettings
<1> QED BY <1>1, <1>2, <1>3, FirmwareUntouched DEF IndInv

(* The settings are read as they were if no write was cut off.              *)
LEMMA BootStep == ASSUME FilesFit, IndInv, Boot PROVE IndInv'
<1>1. /\ flash' = flash /\ u32RecvOffset' = 0 /\ u32TotalLen' = 0 /\ chunk' = NoChunk
      /\ unsaved' = FALSE /\ toWrite' = [t \in Threads |-> PartitionLen]
      /\ broken' = (broken \/ \E t \in Threads : toWrite[t] < PartitionLen)
  BY DEF Boot
<1>2. /\ sender' \in [step : {"none", "begin", "chunks", "reboot"}, by : Threads,
                      file : Files, next : Nat]
      /\ sender'.next <= Length[sender'.file]
      /\ sender'.step = "chunks" => sender' = sender
  <2>1. CASE GivesUp
    BY <2>1, GivesUpFacts DEF IndInv
  <2>2. CASE UNCHANGED sender
    BY <2>2 DEF IndInv, TypeOK
  <2> QED BY <2>1, <2>2 DEF Boot
<1>3. settings' = IF flash[ConfigAt] = Flag THEN [c \in Record |-> flash[c]]
                                           ELSE DefaultSettings
  BY DEF Boot
<1>4. TypeOK'
  <2>1. broken' \in BOOLEAN
    BY <1>1 DEF IndInv, TypeOK
  <2>2. settings' \in [Record -> CellValues]
    <3>1. DefaultSettings \in [Record -> CellValues]
      BY PartitionAssumption DEF DefaultSettings, CellValues, Config
    <3>2. [c \in Record |-> flash[c]] \in [Record -> CellValues]
      BY Lengths DEF IndInv, TypeOK
    <3> QED BY <3>1, <3>2, <1>3
  <2>3. chunk' \in [from : Nat, len : 0 .. ZC_OTA_MAX_CHUNK_LEN]
    BY <1>1, PartitionAssumption DEF NoChunk
  <2>4. toWrite' \in [Threads -> ConfigAt .. PartitionLen]
    BY <1>1, Lengths
  <2>5. unsaved' \in BOOLEAN
    BY <1>1
  <2> QED BY <1>1, <1>2, <2>1, <2>2, <2>3, <2>4, <2>5 DEF IndInv, TypeOK, CellValues
<1>5. BootableIsComplete' /\ AnsweredIsStored'
  BY <1>1, <1>2 DEF IndInv, BootableIsComplete, AnsweredIsStored, IsStored
<1>6. ChunkIsNext' /\ NoMagicMeanwhile'
  BY <1>1, <1>2 DEF IndInv, ChunkIsNext, NoMagicMeanwhile
<1>7. RecordInWork'
  <2>1. settings'[ConfigAt] = Flag
    BY <1>3, Lengths DEF DefaultSettings
  <2>2. ASSUME ~broken' PROVE flash[ConfigAt] = Flag
    <3>1. ~broken /\ \A t \in Threads : ~(toWrite[t] < PartitionLen)
      BY <1>1, <2>2
    <3>2. \A t \in Threads : ~(toWrite[t] <= ConfigAt)
      BY <3>1, Lengths DEF IndInv, TypeOK
    <3> QED BY <3>1, <3>2 DEF IndInv, RecordInWork
  <2>3. ASSUME ~broken' PROVE \A c \in Record : flash'[c] = settings'[c]
    BY <2>2, <2>3, <1>1, <1>3
  <2> QED BY <1>1, <2>1, <2>2, <2>3 DEF RecordInWork
<1> QED BY <1>4, <1>5, <1>6, <1>7 DEF IndInv

LEMMA NextIndInv == FilesFit /\ IndInv /\ [Next]_vars => IndInv'
<1> SUFFICES ASSUME FilesFit, IndInv, [Next]_vars PROVE IndInv'
  OBVIOUS
<1>1. CASE Next
  BY <1>1, BeginStep, ChunkStep, RefuseStep, WriteChunkStep, FinishStep, StoreStep, WriteStep,
     ResetNetWorkStep, BootStep DEF Next
<1>2. CASE UNCHANGED vars
  <2>1. TypeOK'
    <3>1. broken' \in BOOLEAN /\ unsaved' \in BOOLEAN
      BY <1>2 DEF IndInv, TypeOK, vars, config
    <3> QED BY <1>2, <3>1 DEF IndInv, TypeOK, vars, ota, config, CellValues
  <2>2. BootableIsComplete' /\ AnsweredIsStored' /\ ChunkIsNext' /\ NoMagicMeanwhile'
    BY <1>2, FirmwareUntouched DEF vars
  <2>3. RecordInWork'
    BY <1>2 DEF IndInv, RecordInWork, vars, config
  <2> QED BY <2>1, <2>2, <2>3 DEF IndInv
<1> QED BY <1>1, <1>2

(* The inductive invariant, for all files that fit below the last sector.   *)
THEOREM UpdateInductive == FilesFit => (Spec => []IndInv)
<1> SUFFICES ASSUME FilesFit PROVE Spec => []IndInv
  OBVIOUS
<1>1. IndInv /\ [Next]_vars => IndInv'
  BY NextIndInv
<1> QED BY InitIndInv, <1>1, PTL DEF Spec

(* The types, with an update that never gets past the end of its file.      *)
THEOREM UpdateTyped == FilesFit => (Spec => []TypeOK)
<1> SUFFICES ASSUME FilesFit PROVE Spec => []TypeOK
  OBVIOUS
<1>1. IndInv => TypeOK
  BY DEF IndInv
<1> QED BY <1>1, UpdateInductive, PTL

(* QC_FirmwareUpdateFinish makes only complete firmwares bootable.          *)
THEOREM BootsComplete == FilesFit => (Spec => []BootableIsComplete)
<1> SUFFICES ASSUME FilesFit PROVE Spec => []BootableIsComplete
  OBVIOUS
<1>1. IndInv => BootableIsComplete
  BY DEF IndInv
<1> QED BY <1>1, UpdateInductive, PTL

(* What PCT_HandleOtaFileChunkMsg answered with ACK is in the flash.        *)
THEOREM StoresAnswered == FilesFit => (Spec => []AnsweredIsStored)
<1> SUFFICES ASSUME FilesFit PROVE Spec => []AnsweredIsStored
  OBVIOUS
<1>1. IndInv => AnsweredIsStored
  BY DEF IndInv
<1> QED BY <1>1, UpdateInductive, PTL

(* Both together: an update loses nothing and only the whole of it boots.   *)
THEOREM StoresFirmware == FilesFit => (Spec => []FirmwareIsStored)
<1> SUFFICES ASSUME FilesFit PROVE Spec => []FirmwareIsStored
  OBVIOUS
<1>1. AnsweredIsStored /\ BootableIsComplete => FirmwareIsStored
  BY DEF FirmwareIsStored
<1> QED BY <1>1, BootsComplete, StoresAnswered, PTL

(* The settings in the flash are those of g_struZcConfigDb.                 *)
THEOREM KeepsSettings == FilesFit => (Spec => []SettingsAreKept)
<1> SUFFICES ASSUME FilesFit PROVE Spec => []SettingsAreKept
  OBVIOUS
<1>1. IndInv => SettingsAreKept
  <2> SUFFICES ASSUME IndInv, ~broken, ~unsaved, \A t \in Threads : toWrite[t] = PartitionLen,
                      NEW c \in Record
               PROVE  flash[c] = settings[c]
    BY DEF SettingsAreKept
  <2>1. \A t \in Threads : ~(toWrite[t] <= c)
    BY Lengths DEF Record
  <2> QED BY <2>1 DEF IndInv, RecordInWork
<1> QED BY <1>1, UpdateInductive, PTL
=============================================================================
