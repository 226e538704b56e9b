\* Four glyphs by four and a bit: three columns and three rows are used.
SPECIFICATION Spec
CONSTANTS
  Width = 32
  Height = 60
  Chars = {"a", "b"}
  Strings <- MCStrings
  MaxText = 9
INVARIANTS
  TypeOK
  OneCursor
  ScreenIsTail
