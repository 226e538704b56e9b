\* Four tasks and four stacks, as many of one as of the other.
SPECIFICATION Spec
CONSTANTS
  PoolSize = 4
  StackCount = 4
INVARIANTS
  TypeOK
  RunListIsRing
  StacksAccounted
PROPERTIES
  SwitchToFrame
  EditWaits
CHECK_DEADLOCK FALSE
