\* A history with its ten entries, each of four bytes.
SPECIFICATION Spec
CONSTANTS
  HISTORY_SIZE = 10
  Width = 4
  Slack = 2
  Lines <- MCTen
  Names <- MCNames
  MaxLines = 11
PROPERTIES
  NumberRepeats
CHECK_DEADLOCK FALSE
