CONSTANTS
  antenna = antenna
  uart_ctl = uart_ctl
  uart_upgrade = uart_upgrade
  recv_cgi = recv_cgi
  baseband = baseband
  flash = flash
  NoThread = NoThread
  NoDevice = NoDevice
  Thread <- AirThreads
  Setters <- AirSetters
  Device <- AirDevices
  Priority <- AirPriority
  PAGE_SIZE = 2
  SECTOR_SIZE <- OnePage
  ERASE_STEP <- OnePage
  FLASH_SIZE = 4
  PacketLengths = {1, 3}
  TIMEOUT = 1
  MaxSwitches = 0
  MaxJobs = 2
SPECIFICATION Spec
INVARIANTS TypeOK MutexExcludes BusConfigured PriorityReturned OneDeviceTalks BytesInPlace
PROPERTIES PacketsAreWhole ErasedAsReported
