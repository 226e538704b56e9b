\* Two channels with every mix of disks, packet devices and empty places.
SPECIFICATION Spec
CONSTANTS
  Channels <- MCChannels
  Lbas <- MCLbas
  Data <- MCData
  Fresh = "old"
  Indices <- MCIndices
  MaxCalls = 2
  MaxFaults = 1
INVARIANTS
  TypeOK
  IndexIsScanOrder
  SectorReached
  DrivesQuiet
PROPERTIES
  OnlyThatSector
  CallsReturn
CHECK_DEADLOCK FALSE
