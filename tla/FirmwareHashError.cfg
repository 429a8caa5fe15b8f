SPECIFICATION Spec
CONSTANTS
  NPages = 3
  SdPages = 3
  small = small
  large = large
  unsigned = unsigned
  oversize = oversize
  NoFile = NoFile
  Images <- MCImages
  Signed <- MCSigned
  Factory = large
  SizeOf <- MCSizeOf
  Candidates <- FittingCandidates
  Faults = {"hash"}
  MaxFaults = 1
INVARIANT OnlyValidatedFlashed
