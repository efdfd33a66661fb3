SPECIFICATION Spec
CONSTANTS
  old = old
  new = new
  Files = {old, new}
  Length <- MCLength
  HeadLen = 2
  ZC_OTA_MAX_CHUNK_LEN = 3
  PartitionLen = 10
  EraseLen = 6
  ConfigAt = 7
  Settings = {s0, s1}
  Default = s0
INVARIANTS
  FirmwareIsStored
  SettingsAreKept
