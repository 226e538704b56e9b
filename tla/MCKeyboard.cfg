\* A ring of three; ticks come where AL holds nothing of main's.
SPECIFICATION FairSpec
CONSTANTS
  N = 3
  Plain <- MCPlain
  kbd_us <- MCkbd_us
  kbd_us_shift <- MCkbd_us_shift
  MaxKeys = 4
  TickAnywhere = FALSE
INVARIANTS
  TypeOK
  InService
  PortAnnounced
  ReaderSlotStable
PROPERTIES
  IsQueue
  KeysConsumed
  PortDrained
