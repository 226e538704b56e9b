\* The same disks; no command fails.
SPECIFICATION Spec
CONSTANTS
  Channels <- MCChannels
  Lbas <- MCLbas
  Data <- MCData
  Fresh = "old"
  Indices <- MCIndices
  MaxCalls = 1
  MaxFaults = 0
INVARIANTS
  WriteIsOnDisk
CHECK_DEADLOCK FALSE
