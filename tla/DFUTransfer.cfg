SPECIFICATION FairSpec
CONSTANTS
  SPM_PAGESIZE = 8
  BOOT_START_ADDR = 16
  FLASHEND = 23
  SECURE_MODE = FALSE
  FIXED_CONTROL_ENDPOINT_SIZE = 8
  DFU_FILLER_BYTES_SIZE = 2
  DFU_FILE_SUFFIX_SIZE = 4
  E2END = 11
  Requests <- TransferHost
INVARIANTS
  EepromPlaced
  UploadExact
  NoStandstill
PROPERTY
  RequestsEnd
