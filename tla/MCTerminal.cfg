\* Three rows of two columns; a line fills two rows after its prompt.
SPECIFICATION Spec
CONSTANTS
  W = 2
  R = 3
  Chars = {"a", "b"}
  MaxLine = 3
  MaxNoise = 1
INVARIANTS
  TypeOK
  WritesInVideo
  CursorOnScreen
  EchoIsLine
