----------------------------- MODULE UartFrame -----------------------------
(***************************************************************************)
(* The frame parser of the control thread and the commands it carries out  *)
(* (uart_ctl_thread_task in App/uart_protocol.c).  A frame is              *)
(*                                                                         *)
(*     SYNC0 SYNC1 length command data[length] checksum                    *)
(*                                                                         *)
(* and its bytes, checksum included, add up to zero.  A step reads one     *)
(* byte and does all the code does about it: the parser has no state that  *)
(* another thread sees, so the step is one even where it writes a reply.   *)
(* What the commands do to the other chips is not part of this module: a   *)
(* command is carried out when it joins executed.                          *)
(***************************************************************************)
EXTENDS Integers, SequencesExt

CONSTANTS
  BYTE_MOD,            \* 256
  MAX_LENGTH,          \* 100
  VALUE_BYTES,         \* 4, the longest data of a command that sets a value
  SYNC0, SYNC1,        \* 0x55, 0xaa
  SetCommands,         \* SET_TX_FREQ, SET_RX_FREQ, SET_RF_POWER,
                       \* SET_BB_DOWNLINK, SET_ANTENNA_SW
  MCU_FLASH_ERASE, FPGA_FLASH_ERASE, MCU_FLASH_PROG, FPGA_FLASH_PROG,
  GET_DEV_STATUS, GET_COMMAND_STATUS, GET_TYPE,
  R_SUCCESS, CHECKDATA_ERROR, LEN_ERROR, CMD_NOT_SUPPORT,
  Results,             \* what a command that sets a value may return
  Statuses             \* what dev_status_t may hold, as bytes

Byte == 0 .. BYTE_MOD - 1

FlashErase == {MCU_FLASH_ERASE, FPGA_FLASH_ERASE}
FlashProg == {MCU_FLASH_PROG, FPGA_FLASH_PROG}
Others == FlashErase \cup FlashProg \cup {GET_DEV_STATUS, GET_COMMAND_STATUS, GET_TYPE}
Known == SetCommands \cup Others

ASSUME FrameAssumption ==
  /\ BYTE_MOD \in Nat \ {0, 1}
  /\ MAX_LENGTH \in Nat /\ MAX_LENGTH > 4
  /\ VALUE_BYTES \in 0 .. 4
  /\ SYNC0 \in Byte /\ SYNC1 \in Byte /\ SYNC0 # SYNC1
  /\ {R_SUCCESS, CHECKDATA_ERROR, LEN_ERROR, CMD_NOT_SUPPORT} \subseteq Byte
  /\ SetCommands \cap Others = {}     \* labels of one switch
  /\ Results \subseteq Byte
  /\ Statuses \subseteq Seq(Byte)

NORMAL_MODE  == "NORMAL_MODE"
UPGRADE_MODE == "UPGRADE_MODE"

VARIABLES
  flag,       \* upgrade_table.flag
  rd_index,
  rd_data,    \* index MAX_LENGTH is the byte behind the array
  tx_data,    \* its first four bytes, which outlive a reply
  cmd_rd,
  sent,       \* the reply written in this step
  input,      \* every byte read in NORMAL mode so far
  executed    \* every command carried out so far, with its value

vars == <<flag, rd_index, rd_data, tx_data, cmd_rd, sent, input, executed>>

Buffer == [0 .. MAX_LENGTH -> Byte]

(* cmd_rd is a local that nothing initialises; 0 and 1 are told apart. *)
Init ==
  /\ flag = NORMAL_MODE
  /\ rd_index = 0
  /\ rd_data = [i \in 0 .. MAX_LENGTH |-> 0]
  /\ tx_data = <<0, 0, 0, 0>>
  /\ cmd_rd \in {0, 1}
  /\ sent = <<>> /\ input = <<>> /\ executed = <<>>
-----------------------------------------------------------------------------
(* The sum of bytes in one, and what makes it zero. *)
SumOf(s) ==
  LET sum[n \in 0 .. Len(s)] == IF n = 0 THEN 0 ELSE (sum[n - 1] + s[n]) % BYTE_MOD
  IN sum[Len(s)]

check_sum(s) == (0 - SumOf(s)) % BYTE_MOD

(* The first n bytes of the buffer. *)
First(d, n) == [i \in 1 .. n |-> d[i - 1]]

(* The value in the data of a frame of length n. *)
Value(d, n) ==
  CASE n = 1 -> d[4]
    [] n = 2 -> d[4] * BYTE_MOD + d[5]
    [] n = 3 -> (d[4] * BYTE_MOD + d[5]) * BYTE_MOD + d[6]
    [] n = 4 -> ((d[4] * BYTE_MOD + d[5]) * BYTE_MOD + d[6]) * BYTE_MOD + d[7]
    [] OTHER -> 0

KeptUnbounded(d, n) ==
  IF d[0] = SYNC0 /\ (n > 1 => d[1] = SYNC1) THEN n ELSE 0

KeptLoose(d, n) == IF n <= MAX_LENGTH /\ d[0] = SYNC0 THEN n ELSE 0

(* rd_index once the byte is in the buffer: out of range, or not the start *)
(* of a frame, starts over.                                                *)
Kept(d, n) ==
  IF n <= MAX_LENGTH /\ d[0] = SYNC0 /\ (n > 1 => d[1] = SYNC1) THEN n ELSE 0

Complete(d, n) == n > d[2] + 4

(* A reply through tx_data: its checksum covers what goes before it. *)
SendReply(bytes) ==
  LET reply == Append(bytes, check_sum(bytes))
  IN sent' = reply /\ tx_data' = SubSeq(reply, 1, 4)

Ack(code) == SendReply(<<SYNC0, SYNC1, 0, code>>)

(* A reply of its own, whose checksum is computed over tx_data. *)
len_error ==
  /\ sent' = <<SYNC0, SYNC1, 0, LEN_ERROR, check_sum(tx_data)>>
  /\ UNCHANGED tx_data

NoReply == sent' = <<>> /\ UNCHANGED tx_data

Execute(cmd, value) ==
  executed' = Append(executed, [cmd |-> cmd, value |-> value])
-----------------------------------------------------------------------------
(* The commands, for a frame in the buffer d. *)

ChecksumFails(d) == d[d[2] + 4] # check_sum(First(d, d[2] + 4))

ChecksumError(d) ==
  /\ ChecksumFails(d)
  /\ Ack(CHECKDATA_ERROR)
  /\ UNCHANGED <<flag, cmd_rd, executed>>

SetValue(d) ==
  /\ d[3] \in SetCommands
  /\ \/ /\ d[2] > VALUE_BYTES
        /\ len_error
        /\ UNCHANGED executed
     \/ /\ d[2] <= VALUE_BYTES
        /\ \E result \in Results : SendReply(<<SYNC0, SYNC1, result>>)
        /\ Execute(d[3], Value(d, d[2]))
  /\ UNCHANGED <<flag, cmd_rd>>

GetDevStatus(d) ==
  /\ d[3] = GET_DEV_STATUS
  /\ \E s \in Statuses :
        SendReply(<<SYNC0, SYNC1, (Len(s) + 5) % BYTE_MOD, R_SUCCESS>> \o s)
  /\ Execute(d[3], 0)
  /\ UNCHANGED <<flag, cmd_rd>>

GetCommandStatus(d) ==
  /\ d[3] = GET_COMMAND_STATUS
  /\ SendReply(<<SYNC0, SYNC1, 1, R_SUCCESS, cmd_rd>>)
  /\ Execute(d[3], 0)
  /\ UNCHANGED <<flag, cmd_rd>>

(* 0 for an air unit, 1 for a ground unit *)
GetType(d) ==
  /\ d[3] = GET_TYPE
  /\ \E unit \in {0, 1} : SendReply(<<SYNC0, SYNC1, 1, R_SUCCESS, unit>>)
  /\ Execute(d[3], 0)
  /\ UNCHANGED <<flag, cmd_rd>>

(* The thread erases before it goes on, so nobody sees cmd_rd = 0. *)
Erase(d) ==
  /\ \/ d[3] = MCU_FLASH_ERASE /\ Ack(R_SUCCESS)
     \/ d[3] = FPGA_FLASH_ERASE /\ NoReply
  /\ cmd_rd' = 1
  /\ Execute(d[3], 0)
  /\ UNCHANGED flag

Prog(d) ==
  /\ \/ d[3] = MCU_FLASH_PROG /\ Ack(R_SUCCESS)
     \/ d[3] = FPGA_FLASH_PROG /\ NoReply
  /\ cmd_rd' = 1
  /\ flag' = UPGRADE_MODE
  /\ Execute(d[3], 0)

NotSupported(d) ==
  /\ d[3] \notin Known
  /\ Ack(CMD_NOT_SUPPORT)
  /\ UNCHANGED <<flag, cmd_rd, executed>>

Command(d) ==
  \/ SetValue(d) \/ GetDevStatus(d) \/ GetCommandStatus(d) \/ GetType(d)
  \/ Erase(d) \/ Prog(d) \/ NotSupported(d)
-----------------------------------------------------------------------------
Stored(b) == [rd_data EXCEPT ![rd_index] = b]

Read(b) ==
  /\ flag = NORMAL_MODE
  /\ input' = Append(input, b)
  /\ rd_data' = Stored(b)

(* A byte that completes no frame. *)
Collect(b) ==
  LET d == Stored(b)
      n == Kept(d, rd_index + 1)
  IN /\ ~Complete(d, n)
     /\ Read(b)
     /\ rd_index' = n
     /\ NoReply
     /\ UNCHANGED <<flag, cmd_rd, executed>>

DispatchKeepsIndex(b) ==
  LET d == Stored(b)
      n == Kept(d, rd_index + 1)
  IN /\ Complete(d, n)
     /\ Read(b)
     /\ rd_index' = n
     /\ \/ ChecksumError(d)
        \/ ~ChecksumFails(d) /\ Command(d)

(* The last byte of a frame. *)
Dispatch(b) ==
  LET d == Stored(b)
      n == Kept(d, rd_index + 1)
  IN /\ Complete(d, n)
     /\ Read(b)
     /\ rd_index' = 0
     /\ \/ ChecksumError(d)
        \/ ~ChecksumFails(d) /\ Command(d)

(* The upgrade thread ends a transfer.  Until then the bytes go to the     *)
(* byte queue.                                                             *)
TransferEnds ==
  /\ flag = UPGRADE_MODE
  /\ flag' = NORMAL_MODE
  /\ NoReply
  /\ UNCHANGED <<rd_index, rd_data, cmd_rd, input, executed>>

Next ==
  \/ \E b \in Byte : Collect(b) \/ Dispatch(b)
  \/ TransferEnds

Spec == Init /\ [][Next]_vars
-----------------------------------------------------------------------------
TypeOK ==
  /\ flag \in {NORMAL_MODE, UPGRADE_MODE}
  /\ rd_index \in 0 .. MAX_LENGTH
  /\ rd_data \in Buffer
  /\ tx_data \in Seq(Byte) /\ Len(tx_data) = 4
  /\ cmd_rd \in {0, 1}
  /\ sent \in Seq(Byte)
  /\ input \in Seq(Byte)
  /\ executed \in Seq([cmd : Known, value : Nat])

(* The framing read off the line as a whole.  From position p, where no    *)
(* frame is open, so many bytes are taken together: a frame, a frame too   *)
(* long for the buffer, a false start, noise.                              *)
Taken(s, p) ==
  CASE s[p] # SYNC0                           -> 1
    [] s[p] = SYNC0 /\ p + 1 > Len(s)         -> 2
    [] OTHER ->
       IF s[p + 1] # SYNC1 \/ p + 2 > Len(s) THEN 2
       ELSE IF s[p + 2] + 5 > MAX_LENGTH THEN MAX_LENGTH + 1
       ELSE s[p + 2] + 5

(* The bytes from p to q are a frame whose command is carried out. *)
IsCommand(s, p, q) ==
  /\ q - p >= 4 /\ q <= Len(s)
  /\ s[p] = SYNC0 /\ s[p + 1] = SYNC1 /\ s[p + 2] = q - p - 4
  /\ q - p < MAX_LENGTH
  /\ SumOf(SubSeq(s, p, q)) = 0
  /\ s[p + 3] \in Known
  /\ s[p + 3] \in SetCommands => s[p + 2] <= VALUE_BYTES

BigEndian(s) ==
  LET value[n \in 0 .. Len(s)] == IF n = 0 THEN 0 ELSE value[n - 1] * BYTE_MOD + s[n]
  IN value[Len(s)]

CommandOf(s, p, q) ==
  [cmd |-> s[p + 3],
   value |-> IF s[p + 3] \in SetCommands
             THEN BigEndian(SubSeq(s, p + 4, q - 1)) ELSE 0]

CommandsAt(s, p) ==
  LET q == p + Taken(s, p) - 1
  IN IF IsCommand(s, p, q) THEN <<CommandOf(s, p, q)>> ELSE <<>>

CommandsIn(s) ==
  LET from[p \in 1 .. Len(s) + MAX_LENGTH + 1] ==
        IF p > Len(s) THEN <<>> ELSE CommandsAt(s, p) \o from[p + Taken(s, p)]
  IN from[1]

(* The commands carried out are those of the frames on the line, each once *)
(* and in order, however frames, noise, false starts and frames too long   *)
(* for the buffer follow one another.  What a frame is does not depend on  *)
(* what the buffer held before.                                            *)
ExecutedAreFrames == executed = CommandsIn(input)

(* From p on the sequence is one frame whose checksum is right. *)
WholeFrame(s, p) ==
  /\ p + 4 <= Len(s)
  /\ s[p] = SYNC0 /\ s[p + 1] = SYNC1
  /\ s[p + 2] = Len(s) - p - 4
  /\ s[Len(s)] = check_sum(SubSeq(s, p, Len(s) - 1))

(* A command is carried out only when the byte just read ends a frame with *)
(* that command, all of whose bytes were read one after the other: a byte  *)
(* that an earlier frame left in rd_data is never part of a command.       *)
CommandsAreFrames ==
  [][executed' # executed =>
       \E p \in 1 .. Len(input') :
         /\ WholeFrame(input', p)
         /\ Last(executed').cmd = input'[p + 3]]_vars

(* No frame is open while a transfer runs: the bytes before and after it   *)
(* are never joined to one command (upgrade_table.flag, rd_index).         *)
NoFrameAcrossTransfer == flag = UPGRADE_MODE => rd_index = 0
=============================================================================
