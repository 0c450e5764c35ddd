CONSTANTS
  BYTE_MOD = 16
  MAX_LENGTH = 8
  VALUE_BYTES = 2
  SYNC0 = 5
  SYNC1 = 10
  SetCommands = {8}
  MCU_FLASH_ERASE = 9
  MCU_FLASH_PROG = 10
  FPGA_FLASH_ERASE = 11
  FPGA_FLASH_PROG = 12
  GET_DEV_STATUS = 13
  GET_COMMAND_STATUS = 14
  GET_TYPE = 15
  R_SUCCESS = 8
  CHECKDATA_ERROR = 2
  LEN_ERROR = 3
  CMD_NOT_SUPPORT = 4
  Results = {0}
  Statuses <- OneStatus
  MaxPieces = 4
SPECIFICATION MCSpec
INVARIANTS TypeOK ExecutedAreFrames NoFrameAcrossTransfer
