CONSTANTS
  Zero = Zero
  d = d
  UP_MCU1 = UP_MCU1
  UP_FPGA = UP_FPGA
  DataByte <- TwoDataBytes
  UART_INT_RX_BUFFER_SIZE = 3
  QUEUE_SIZE = 2
  SEM_MOD = 4
  MaxArrivals = 4
SPECIFICATION FairSpec
INVARIANTS TypeOK TokensMatchBytes NoLostWakeup NoCommandDuringTransfer
PROPERTIES LossyFifoSpec RingDrains QueueDrains
