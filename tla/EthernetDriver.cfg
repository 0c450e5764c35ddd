CONSTANTS
  Frame = {f1, f2, f3}
  Bad = {f3}
  NoFrame = NoFrame
  Caller = {t1}
  RXBUFNB = 2
  TXBUFNB = 2
  MboxSize = 1
  TCPIP_MBOX_SIZE = 2
  Budgets <- MCBudgets
SPECIFICATION Spec
PROPERTIES FramePathSpec HandedOn
CHECK_DEADLOCK FALSE
