\* A ring of three; ticks come anywhere.
SPECIFICATION FairSpec
CONSTANTS
  N = 3
  Plain <- MCPlain
  kbd_us <- MCkbd_us
  kbd_us_shift <- MCkbd_us_shift
  MaxKeys = 4
  TickAnywhere = TRUE
PROPERTY ReadReturnsPopped
