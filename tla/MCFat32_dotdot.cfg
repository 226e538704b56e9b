\* The same volume; cd ".." from a directory of the root.
SPECIFICATION Spec
CONSTANTS
  LastCluster = 6
  ScanLimit = 6
  RootCluster = 2
  NSlots = 3
  Typed <- MCTyped
  Base <- MCBase
  BaseOf <- MCBaseOf
  Paths <- MCPaths
  Preloaded <- MCPreloaded
PROPERTY DotDotGoesUp
