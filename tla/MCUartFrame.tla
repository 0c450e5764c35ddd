---------------------------- MODULE MCUartFrame ----------------------------
(***************************************************************************)
(* A line for UartFrame, made of MaxPieces pieces that follow one another  *)
(* in any order: frames of every command, frames with a wrong checksum,    *)
(* cut short or too long for the buffer, and single bytes.                 *)
(***************************************************************************)
EXTENDS UartFrame

CONSTANT MaxPieces    \* bound

VARIABLES
  line,     \* the rest of the piece on the line
  pieces    \* pieces so far

(* The value against its definition, for all data of up to four bytes. *)
ASSUME \A n \in 0 .. 4 : \A data \in [1 .. n -> {0, 1, BYTE_MOD - 1}] :
         Value([i \in 4 .. 3 + n |-> data[i - 3]], n) = BigEndian(data)

Unknown == 7
OneStatus == {<<1, 2>>}

Framed(cmd, data) ==
  LET body == <<SYNC0, SYNC1, Len(data), cmd>> \o data
  IN Append(body, check_sum(body))

Piece ==
  {Framed(cmd, <<>>) : cmd \in Known \cup {Unknown}}
    \cup {Framed(cmd, data) : cmd \in SetCommands,
                              data \in {<<3>>, <<2, 1>>, <<SYNC0, SYNC1, 0>>}}
    \cup {<<SYNC0, SYNC1, 0, GET_TYPE, 0>>,
          <<SYNC0, SYNC1, 1, MCU_FLASH_PROG>>,
          <<SYNC0, SYNC1, MAX_LENGTH - 4>>}
    \cup {<<b>> : b \in {SYNC0, SYNC1, 0}}

MCInit == Init /\ line = <<>> /\ pieces = 0

Arrive ==
  /\ line = <<>> /\ pieces < MaxPieces
  /\ line' \in Piece
  /\ pieces' = pieces + 1
  /\ UNCHANGED vars

Parse ==
  /\ line # <<>>
  /\ Collect(Head(line)) \/ Dispatch(Head(line))
  /\ line' = Tail(line)
  /\ UNCHANGED pieces

(* In UPGRADE mode the byte goes to the byte queue. *)
Queue ==
  /\ line # <<>> /\ flag = UPGRADE_MODE
  /\ line' = Tail(line)
  /\ UNCHANGED <<vars, pieces>>

EndOfTransfer == TransferEnds /\ UNCHANGED <<line, pieces>>

Silence ==
  /\ line = <<>> /\ pieces = MaxPieces /\ flag = NORMAL_MODE
  /\ UNCHANGED <<vars, line, pieces>>

MCNext == Arrive \/ Parse \/ Queue \/ EndOfTransfer \/ Silence

MCSpec == MCInit /\ [][MCNext]_<<vars, line, pieces>>
=============================================================================
