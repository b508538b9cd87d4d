SPECIFICATION LifeSpec
CONSTANTS
  BOOT_START_ADDR = 28672
  FlashBytes = 32768
  BootloaderEntry = 28672
  Images <- SomeImages
PROPERTY
  JumpEntersBootloader
