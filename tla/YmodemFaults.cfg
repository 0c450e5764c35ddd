CONSTANTS
  b1 = b1
  b2 = b2
  b3 = b3
  Block <- MCBlock
  File <- MCFile
  SEQ_MOD = 8
  MAX_ERRORS = 5
  FlashSize = 4
  IMAGE_BLOCKS = 5
  RETRIES = 10
  Budgets <- OneOfEach
  MaxReplies = 3
  MaxSessions = 2
SPECIFICATION FairSpec
INVARIANT TypeOK
PROPERTIES ProgramsErased AbandonedSessionEnds
