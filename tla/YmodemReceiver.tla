--------------------------- MODULE YmodemReceiver ---------------------------
(***************************************************************************)
(* The receiving end of a firmware transfer: Ymodem_Receive and            *)
(* Receive_Packet (App/ymodem.c), the upgrade thread that runs them        *)
(* (App/upgrade.c), the two routines that program a received packet        *)
(* (if_mcu_upgrade in App/interface.c, if_fpga_upgrade in                  *)
(* App/fpga_upgrade.c) and the commands that erase a flash and switch to   *)
(* UPGRADE mode (App/uart_protocol.c).                                     *)
(*                                                                         *)
(* A step of the receiver is one round of its loop: one outcome of         *)
(* Receive_Packet and everything done about it.  A packet is its number    *)
(* and one block of the file; a flash is the block programmed at each      *)
(* address, addresses counted in packets.                                  *)
(***************************************************************************)
EXTENDS Integers, Sequences

CONSTANTS
  Block,        \* contents of a packet
  SEQ_MOD,      \* packet numbers are one byte: 256
  MAX_ERRORS,   \* 5 in ymodem.h
  FlashSize     \* packets a flash has room for

ASSUME YmodemAssumption ==
  /\ SEQ_MOD \in Nat \ {0}
  /\ MAX_ERRORS \in Nat
  /\ FlashSize \in Nat

UP_MCU1 == "UP_MCU1"
UP_FPGA == "UP_FPGA"
DevType == {UP_MCU1, UP_FPGA}

NORMAL_MODE  == "NORMAL_MODE"
UPGRADE_MODE == "UPGRADE_MODE"

ACK == "ACK"
NAK == "NAK"
CA  == "CA"
CRC16 == "C"
Reply == {ACK, NAK, CA, CRC16}

Erased == "erased"       \* what erasing leaves at an address
Unknown == "unknown"     \* what a failed programming leaves there
Header == "header"       \* a filename packet taken for a block

Address == 0 .. FlashSize - 1

VARIABLES
  flag,               \* upgrade_table.flag
  type,               \* upgrade_table.type
  receiving,          \* Ymodem_Receive is running
  packets_received,   \* its locals of these names
  session_begin,
  errors,
  size,
  offset,             \* the static offset of if_mcu_upgrade, if_fpga_upgrade
  flash,              \* what is programmed at each address
  sent                \* the bytes this step sends to the host

receiverVars == <<flag, type, receiving, packets_received, session_begin,
                  errors, size, offset, flash, sent>>

locals == <<packets_received, session_begin, errors, size>>

RInit ==
  /\ flag = NORMAL_MODE
  /\ type = UP_MCU1
  /\ receiving = FALSE
  /\ packets_received = 0 /\ session_begin = 0 /\ errors = 0 /\ size = 0
  /\ offset = [t \in DevType |-> 0]
  /\ flash = [t \in DevType |-> [a \in Address |-> Erased]]
  /\ sent = <<>>
-----------------------------------------------------------------------------
(* Commands of the control thread, parsed in NORMAL mode. *)

(* MCU_FLASH_ERASE, FPGA_FLASH_ERASE: the whole flash; offset stays. *)
FlashErase(t) ==
  /\ flag = NORMAL_MODE
  /\ flash' = [flash EXCEPT ![t] = [a \in Address |-> Erased]]
  /\ sent' = <<>>
  /\ UNCHANGED <<flag, type, receiving, locals, offset>>

(* MCU_FLASH_PROG, FPGA_FLASH_PROG *)
FlashProg(t) ==
  /\ flag = NORMAL_MODE
  /\ flag' = UPGRADE_MODE
  /\ type' = t
  /\ sent' = <<>>
  /\ UNCHANGED <<receiving, locals, offset, flash>>
-----------------------------------------------------------------------------
StartKeepsSession ==
  /\ ~receiving /\ flag = UPGRADE_MODE
  /\ receiving' = TRUE
  /\ packets_received' = 0 /\ errors' = 0 /\ size' = 0
  /\ sent' = <<>>
  /\ UNCHANGED <<flag, type, offset, flash, session_begin>>

StartRewinds ==
  /\ ~receiving /\ flag = UPGRADE_MODE
  /\ receiving' = TRUE
  /\ packets_received' = 0 /\ session_begin' = 0 /\ errors' = 0 /\ size' = 0
  /\ offset' = [t \in DevType |-> 0]
  /\ sent' = <<>>
  /\ UNCHANGED <<flag, type, flash>>

(* The upgrade thread sees UPGRADE_MODE and calls Ymodem_Receive. *)
Start ==
  /\ ~receiving /\ flag = UPGRADE_MODE
  /\ receiving' = TRUE
  /\ packets_received' = 0 /\ session_begin' = 0 /\ errors' = 0 /\ size' = 0
  /\ sent' = <<>>
  /\ UNCHANGED <<flag, type, offset, flash>>

(* Ymodem_Receive returns ret; 0 and -1 leave the mode as it is. *)
Return(ret) ==
  /\ receiving' = FALSE
  /\ flag' = IF ret \in {0, -1} THEN flag ELSE NORMAL_MODE

(* Ymodem_Receive goes on. *)
GoOn == UNCHANGED <<receiving, flag>>

(* Abort by sender: CA CA. *)
Cancel ==
  /\ receiving
  /\ errors' = 0
  /\ sent' = <<ACK>>
  /\ Return(0)
  /\ UNCHANGED <<type, packets_received, session_begin, size, offset, flash>>

(* End of transmission: the file is done, the next packet is a filename.   *)
EndOfFile ==
  /\ receiving
  /\ errors' = 0
  /\ sent' = <<ACK>>
  /\ packets_received' = 0
  /\ GoOn
  /\ UNCHANGED <<type, session_begin, size, offset, flash>>

WrongNumberAcked(seq) ==
  /\ receiving
  /\ seq # packets_received % SEQ_MOD
  /\ errors' = 0
  /\ sent' = <<ACK>>
  /\ GoOn
  /\ UNCHANGED <<type, packets_received, session_begin, size, offset, flash>>

(* A packet whose number is not the expected one. *)
WrongNumber(seq) ==
  /\ receiving
  /\ seq # packets_received % SEQ_MOD
  /\ errors' = 0
  /\ sent' = <<NAK>>
  /\ GoOn
  /\ UNCHANGED <<type, packets_received, session_begin, size, offset, flash>>

FileNameNoSize(seq, filesize) ==
  /\ receiving
  /\ packets_received = 0 /\ seq = 0
  /\ errors' = 0
  /\ sent' = <<ACK, CRC16>>
  /\ packets_received' = 1
  /\ session_begin' = 1
  /\ GoOn
  /\ UNCHANGED <<type, size, offset, flash>>

(* A filename packet; filesize is what str_to_u32 reads in it. *)
FileName(seq, filesize) ==
  /\ receiving
  /\ packets_received = 0 /\ seq = 0
  /\ errors' = 0
  /\ size' = filesize
  /\ sent' = <<ACK, CRC16>>
  /\ packets_received' = 1
  /\ session_begin' = 1
  /\ GoOn
  /\ UNCHANGED <<type, offset, flash>>

(* An empty filename packet ends the session. *)
EmptyFileName(seq) ==
  /\ receiving
  /\ packets_received = 0 /\ seq = 0
  /\ errors' = 0
  /\ sent' = <<ACK>>
  /\ Return(size)
  /\ UNCHANGED <<type, packets_received, session_begin, size, offset, flash>>

(* if_mcu_upgrade, if_fpga_upgrade: program at the offset, move the offset *)
(* on, and return 0 whether the flash took the block or not.               *)
Upgrade(t, block, ok) ==
  /\ flash' = IF offset[t] \in Address
              THEN [flash EXCEPT ![t][offset[t]] = IF ok THEN block ELSE Unknown]
              ELSE flash
  /\ offset' = [offset EXCEPT ![t] = @ + 1]

(* A data packet with the expected number.  Its CRC is not looked at.      *)
Data(seq, block, ok) ==
  /\ receiving
  /\ packets_received # 0 /\ seq = packets_received % SEQ_MOD
  /\ errors' = 0
  /\ Upgrade(type, block, ok)
  /\ sent' = <<ACK>>
  /\ packets_received' = packets_received + 1
  /\ session_begin' = 1
  /\ GoOn
  /\ UNCHANGED <<type, size>>

(* Abort by user: 'A' or 'a' where a packet should start. *)
Abort ==
  /\ receiving
  /\ sent' = <<CA, CA>>
  /\ Return(-3)
  /\ UNCHANGED <<type, locals, offset, flash>>

BadForever ==
  /\ receiving
  /\ errors' = IF session_begin > 0 THEN errors + 1 ELSE errors
  /\ sent' = <<CRC16>>
  /\ GoOn
  /\ UNCHANGED <<type, packets_received, session_begin, size, offset, flash>>

(* No byte in time, a byte that starts no packet, a packet cut short or    *)
(* with a number that does not match its complement.                       *)
Bad ==
  /\ receiving
  /\ errors' = IF session_begin > 0 THEN errors + 1 ELSE errors
  /\ \/ /\ errors' > MAX_ERRORS
        /\ sent' = <<CA, CA>>
        /\ Return(0)
     \/ /\ errors' <= MAX_ERRORS
        /\ sent' = <<CRC16>>
        /\ GoOn
  /\ UNCHANGED <<type, packets_received, session_begin, size, offset, flash>>
-----------------------------------------------------------------------------
ReceiverTypeOK ==
  /\ flag \in {NORMAL_MODE, UPGRADE_MODE}
  /\ type \in DevType
  /\ receiving \in BOOLEAN
  /\ packets_received \in Nat
  /\ session_begin \in {0, 1}
  /\ errors \in 0 .. MAX_ERRORS + 1
  /\ size \in Nat
  /\ offset \in [DevType -> Nat]
  /\ flash \in [DevType -> [Address -> Block \cup {Erased, Unknown, Header}]]
  /\ sent \in Seq(Reply)
=============================================================================
