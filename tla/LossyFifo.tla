------------------------------ MODULE LossyFifo ------------------------------
(***************************************************************************)
(* What the path from the control UART to the firmware receiver promises,  *)
(* without rings, queues, threads or semaphores.  Bytes wait in one line.  *)
(* In NORMAL mode they are consumed as commands, in UPGRADE mode they are  *)
(* handed to the receiver, first come first served.  The line may lose a   *)
(* byte, but only when it holds as many as its smaller stage can.          *)
(***************************************************************************)
EXTENDS Naturals, Sequences, SequencesExt

CONSTANTS
  Byte,           \* the bytes
  Command,        \* those of them that switch to UPGRADE mode
  RingCapacity,   \* a full first stage gives up a byte for a new one
  QueueCapacity,  \* a full second stage refuses a byte
  NORMAL_MODE, UPGRADE_MODE

VARIABLES
  line,     \* the bytes that wait
  mode,     \* who consumes them
  got       \* the last byte handed to the receiver

lvars == <<line, mode, got>>

LInit == line = <<>> /\ mode = NORMAL_MODE /\ got \in Byte

(* A byte arrives. *)
Arrive(b) ==
  /\ line' = Append(line, b)
  /\ UNCHANGED <<mode, got>>

(* A byte arrives and pushes out the oldest of the last RingCapacity.       *)
ArriveFull(b) ==
  /\ Len(line) >= RingCapacity
  /\ line' = Append(RemoveAt(line, Len(line) - RingCapacity + 1), b)
  /\ UNCHANGED <<mode, got>>

(* A byte finds QueueCapacity bytes before it and is refused. *)
Refuse ==
  /\ Len(line) > QueueCapacity
  /\ line' = RemoveAt(line, QueueCapacity + 1)
  /\ UNCHANGED <<mode, got>>

(* A byte is consumed as part of a command, which may switch the mode.     *)
(* Bytes a former transfer left behind stay in front of it.                *)
Consume ==
  /\ mode = NORMAL_MODE
  /\ \E i \in 1 .. Len(line) :
       /\ line' = RemoveAt(line, i)
       /\ mode' = IF line[i] \in Command THEN UPGRADE_MODE ELSE NORMAL_MODE
  /\ got' = got

(* The receiver gets the oldest byte. *)
Deliver ==
  /\ mode = UPGRADE_MODE
  /\ line # <<>>
  /\ got' = Head(line)
  /\ line' = Tail(line)
  /\ mode' = mode

(* The receiver is done. *)
Finish ==
  /\ mode = UPGRADE_MODE
  /\ mode' = NORMAL_MODE
  /\ UNCHANGED <<line, got>>

LNext ==
  \/ \E b \in Byte : Arrive(b) \/ ArriveFull(b)
  \/ Refuse
  \/ Consume
  \/ Deliver
  \/ Finish

LSpec == LInit /\ [][LNext]_lvars
=============================================================================
