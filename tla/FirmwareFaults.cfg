SPECIFICATION Spec
CONSTANTS
  NPages = 3
  SdPages = 3
  small = small
  large = large
  unsigned = unsigned
  oversize = oversize
  NoFile = NoFile
  Images <- MCImages
  Signed <- MCSigned
  Factory = large
  SizeOf <- MCSizeOf
  Candidates <- AnyCandidate
  Faults = {"power", "sd", "hash", "flash", "sd_damage", "flash_damage", "nvm"}
  MaxFaults = 2
INVARIANTS
  TypeOK
  BackupPreservesPrior
  ClearOnlyWhenSettled
  FlashPhaseFits
  JumpsToCompleteCopy
PROPERTY BootTerminates
