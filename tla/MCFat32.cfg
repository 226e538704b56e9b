\* Five clusters, the last one beyond mkdir's scan; three entries a directory.
SPECIFICATION Spec
CONSTANTS
  LastCluster = 6
  ScanLimit = 6
  RootCluster = 2
  NSlots = 3
  Typed <- MCTyped
  Base <- MCBase
  BaseOf <- MCBaseOf
  Paths <- MCPaths
  Preloaded <- MCPreloaded
INVARIANTS
  TypeOK
  LinkedIsAllocated
  ParentLinks
  NoSharedCluster
  ListingComplete
  MkdirInFlight
  PathResolves
PROPERTIES
  EntriesSurvive
  KeepsPromise
