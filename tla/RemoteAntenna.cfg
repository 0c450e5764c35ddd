CONSTANTS
  Inputs <- Antennas
  MaxRequests = 2
  RECVMBOX_SIZE = 1
SPECIFICATION Spec
INVARIANTS AntennaAsMeant
CHECK_DEADLOCK FALSE
