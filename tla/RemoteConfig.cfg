CONSTANTS
  Inputs <- MCInputs
  MaxRequests = 3
  RECVMBOX_SIZE = 1
SPECIFICATION FairSpec
INVARIANTS TypeOK WholeRequests AppliedAsMeant
PROPERTIES LatestRequestSpec LastRequestHandled
CHECK_DEADLOCK FALSE
