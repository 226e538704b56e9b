\* One byte of the bitmap that pmm_init writes and one bit that it does not.
SPECIFICATION Spec
CONSTANTS
  max_pages = 9
  PAGE_SIZE = 4096
INVARIANTS
  TypeOK
  NoDoubleGrant
PROPERTIES
  Accounting
