\* A history of three entries of four bytes.
SPECIFICATION Spec
CONSTANTS
  HISTORY_SIZE = 3
  Width = 4
  Slack = 2
  Lines <- MCLines
  Names <- MCNames
  MaxLines = 5
INVARIANTS
  TypeOK
  HistoryIsLog
PROPERTIES
  DigitRepeats
CHECK_DEADLOCK FALSE
