CONSTANTS
  b1 = b1
  b2 = b2
  b3 = b3
  Block <- MCBlock
  File <- MCFile
  SEQ_MOD = 8
  MAX_ERRORS = 5
  FlashSize = 4
  IMAGE_BLOCKS = 5
  RETRIES = 10
  Budgets <- NoFaults
  MaxReplies = 4
  MaxSessions = 2
SPECIFICATION Spec
PROPERTY SuccessMeansWritten
