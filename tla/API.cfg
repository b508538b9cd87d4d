SPECIFICATION APISpec
CONSTANTS
  SPM_PAGESIZE = 4
  BOOT_START_ADDR = 8
  FLASHEND = 11
  CallAddresses <- MCCallAddresses
  CallBytes <- MCCallBytes
INVARIANT
  BootSectionIntact
