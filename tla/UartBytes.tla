------------------------------ MODULE UartBytes ------------------------------
(***************************************************************************)
(* The bytes that travel on the control UART, abstracted to what the       *)
(* pipeline tells apart: the byte that completes a valid "program flash"   *)
(* frame, one per device that can be programmed, and every other byte.     *)
(***************************************************************************)
CONSTANTS
  DataByte,    \* bytes that complete no "program flash" frame
  Zero,        \* the one static arrays hold at start-up
  UP_MCU1,     \* completes a MCU_FLASH_PROG frame; names the device (public.h)
  UP_FPGA      \* completes a FPGA_FLASH_PROG frame

ASSUME UartBytesAssumption ==
  /\ Zero \in DataByte
  /\ UP_MCU1 # UP_FPGA
  /\ {UP_MCU1, UP_FPGA} \cap DataByte = {}

DevType == {UP_MCU1, UP_FPGA}

Byte == DataByte \cup DevType
=============================================================================
