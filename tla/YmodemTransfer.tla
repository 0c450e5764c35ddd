--------------------------- MODULE YmodemTransfer ---------------------------
(***************************************************************************)
(* Ymodem_Transmit sending a file to Ymodem_Receive (both App/ymodem.c)    *)
(* over a serial line.  Ymodem_Transmit is the only sender in the          *)
(* repository; the host that flashes a unit plays its part.  It reads one  *)
(* reply byte after each thing it sends, and nothing in a reply says what  *)
(* it answers.                                                             *)
(*                                                                         *)
(* A step is one round of the sender's current loop or one round of the    *)
(* receiver's.  Each kind of fault has a budget, chosen from Budgets when  *)
(* the system starts.                                                      *)
(***************************************************************************)
EXTENDS YmodemReceiver, SequencesExt

CONSTANTS
  File,          \* the blocks of the file
  IMAGE_BLOCKS,  \* FLASH_IMAGE_SIZE / 1024
  RETRIES,       \* 0x0A
  Budgets,       \* bound: how often each kind of fault may happen
  MaxReplies,    \* bound: a receiver that hears nothing fills the line to this
  MaxSessions    \* bound: how often the host starts a transmission

Lose    == "lose"       \* a message or a reply byte disappears
Garble  == "garble"     \* a message is no longer a packet
Corrupt == "corrupt"    \* the contents of a data packet change
Program == "program"    \* the flash does not take a block
Stall   == "stall"      \* the sender reads replies late, as often as it likes
FaultKind == {Lose, Garble, Corrupt, Program, Stall}

ASSUME TransferAssumption ==
  /\ File \in Seq(Block) /\ File # <<>>
  /\ IMAGE_BLOCKS \in Nat
  /\ RETRIES \in Nat \ {0}
  /\ Budgets \subseteq [FaultKind -> Nat]
  /\ MaxReplies \in Nat \ {0} /\ MaxSessions \in Nat

VARIABLES
  phase,        \* the loop of Ymodem_Transmit that runs, "idle" when none
  blkNumber,    \* number of the block being sent
  sendErrors,   \* errors in Ymodem_Transmit
  result,       \* what the last Ymodem_Transmit returned
  toDev,        \* messages on the way to the receiver
  toHost,       \* reply bytes on the way to the sender
  faults,       \* what is left of each budget
  sessions      \* transmissions started

senderVars == <<phase, blkNumber, sendErrors, result>>
lineVars == <<toDev, toHost, faults>>
vars == <<receiverVars, senderVars, lineVars, sessions>>

Phase == {"idle", "name", "data", "eot", "last", "eot2"}

NameMsg  == [kind |-> "name", seq |-> 0]
EmptyMsg == [kind |-> "empty", seq |-> 0]
EOTMsg   == [kind |-> "eot"]
JunkMsg  == [kind |-> "junk"]
DataMsg(seq, block) == [kind |-> "data", seq |-> seq, block |-> block]

Message ==
  {NameMsg, EmptyMsg, EOTMsg, JunkMsg}
    \cup {DataMsg(s, b) : s \in 0 .. SEQ_MOD - 1, b \in Block}

Init ==
  /\ RInit
  /\ phase = "idle" /\ blkNumber = 0 /\ sendErrors = 0 /\ result = "none"
  /\ toDev = <<>> /\ toHost = <<>> /\ faults \in Budgets
  /\ sessions = 0

(* A fault of kind f happens in this step. *)
Fault(f) == faults[f] > 0 /\ faults' = [faults EXCEPT ![f] = @ - 1]
-----------------------------------------------------------------------------
(* The sender. *)

(* What each loop sends: PrepareIntialPacket, PreparePacket, EOT, the      *)
(* packet of zeros, EOT.                                                   *)
Request(ph, blk) ==
  CASE ph = "name" -> NameMsg
    [] ph = "data" -> DataMsg(blk % SEQ_MOD, File[blk])
    [] ph = "last" -> EmptyMsg
    [] OTHER       -> EOTMsg

Enter(ph, blk, errs) ==
  /\ phase' = ph /\ blkNumber' = blk /\ sendErrors' = errs
  /\ toDev' = Append(toDev, Request(ph, blk))
  /\ UNCHANGED result

Stop(ret) ==
  /\ phase' = "idle" /\ result' = ret
  /\ UNCHANGED <<blkNumber, sendErrors, toDev>>

(* The host calls Ymodem_Transmit for a unit in UPGRADE mode. *)
Transmit ==
  /\ phase = "idle" /\ flag = UPGRADE_MODE
  /\ sessions < MaxSessions
  /\ sessions' = sessions + 1
  /\ phase' = "name" /\ blkNumber' = 1 /\ sendErrors' = 0 /\ result' = "none"
  /\ toDev' = Append(toDev, NameMsg)
  /\ UNCHANGED <<receiverVars, toHost, faults>>

(* The reply is ACK: on to the next block, or to the next loop.  The last  *)
(* loop inherits the errors of the one before it.                          *)
Acked ==
  \/ /\ phase = "name"
     /\ Enter("data", 1, 0)
  \/ /\ phase = "data" /\ blkNumber < Len(File)
     /\ IF blkNumber = IMAGE_BLOCKS
        THEN Stop("too long")
        ELSE Enter("data", blkNumber + 1, 0)
  \/ /\ phase = "data" /\ blkNumber = Len(File)
     /\ Enter("eot", blkNumber, 0)
  \/ /\ phase = "eot"
     /\ Enter("last", blkNumber, 0)
  \/ /\ phase = "last"
     /\ Enter("eot2", blkNumber, sendErrors)
  \/ /\ phase = "eot2"
     /\ Stop("ok")

NotAckedUncounted(timeout) ==
  LET errs == IF timeout THEN sendErrors + 1 ELSE sendErrors
  IN IF errs >= RETRIES THEN Stop("errors")
     ELSE IF phase = "eot2" THEN Stop("ok")
     ELSE Enter(phase, blkNumber, errs)

(* Another byte, or none in time.  The loops that send the two filename    *)
(* packets count only the latter; the last loop runs once, because         *)
(* ackReceived is still set.                                               *)
NotAcked(timeout) ==
  LET counts == timeout \/ phase \in {"data", "eot", "eot2"}
      errs == IF counts THEN sendErrors + 1 ELSE sendErrors
  IN IF errs >= RETRIES THEN Stop("errors")
     ELSE IF phase = "eot2" THEN Stop("ok")
     ELSE Enter(phase, blkNumber, errs)

SenderReadsAny ==
  /\ phase # "idle" /\ toHost # <<>>
  /\ toHost' = Tail(toHost)
  /\ \/ Head(toHost) \in {ACK, NAK} /\ Acked
     \/ Head(toHost) \notin {ACK, NAK} /\ NotAcked(FALSE)
  /\ UNCHANGED <<receiverVars, faults, sessions>>

(* One byte of the line, read after the last thing sent. *)
SenderReads ==
  /\ phase # "idle" /\ toHost # <<>>
  /\ toHost' = Tail(toHost)
  /\ \/ Head(toHost) = ACK /\ Acked
     \/ Head(toHost) # ACK /\ NotAcked(FALSE)
  /\ UNCHANGED <<receiverVars, faults, sessions>>

(* The sender waits a hundred times longer than the receiver, which        *)
(* asks again in every round: silence means that the receiver has ended.   *)
SenderTimeout ==
  /\ phase # "idle" /\ toHost = <<>>
  /\ flag = NORMAL_MODE /\ ~receiving
  /\ NotAcked(TRUE)
  /\ UNCHANGED <<receiverVars, toHost, faults, sessions>>
-----------------------------------------------------------------------------
(* The unit. *)

(* No sender reads the line beyond the bound. *)
Answer ==
  toHost' = IF phase = "idle" /\ Len(toHost) >= MaxReplies
            THEN toHost
            ELSE toHost \o sent'

(* One message of the line makes Receive_Packet return.  What it is taken  *)
(* for depends on packets_received, not on what it was sent as: a data     *)
(* packet numbered 0 is a filename to a receiver that expects one.         *)
Receive ==
  /\ receiving /\ toDev # <<>>
  /\ toDev' = Tail(toDev)
  /\ LET msg == Head(toDev)
     IN \/ /\ msg.kind \in {"name", "data", "empty"}
           /\ WrongNumber(msg.seq)
           /\ UNCHANGED faults
        \/ /\ msg.kind = "name"
           /\ FileName(msg.seq, Len(File))
           /\ UNCHANGED faults
        \/ /\ msg.kind = "empty"
           /\ EmptyFileName(msg.seq)
           /\ UNCHANGED faults
        \/ /\ msg.kind = "data"
           /\ EmptyFileName(msg.seq) \/ \E n \in 0 .. 1 : FileName(msg.seq, n)
           /\ UNCHANGED faults
        \/ /\ msg.kind = "data"
           /\ Data(msg.seq, msg.block, TRUE)
           /\ UNCHANGED faults
        \/ /\ msg.kind = "data"
           /\ Fault(Program)
           /\ Data(msg.seq, msg.block, FALSE)
        \/ /\ msg.kind \in {"name", "empty"}
           /\ Data(msg.seq, Header, TRUE)
           /\ UNCHANGED faults
        \/ /\ msg.kind = "eot"
           /\ EndOfFile
           /\ UNCHANGED faults
  /\ Answer
  /\ UNCHANGED <<senderVars, sessions>>

(* Bytes that are no packet: each of them starts a round, and among the    *)
(* contents of a packet may be EOT, CA CA or 'A'.  A round after the first *)
(* counts as a fault, to bound them.                                       *)
ReceiveJunk ==
  /\ receiving /\ toDev # <<>> /\ Head(toDev) = JunkMsg
  /\ \/ Fault(Garble) /\ UNCHANGED toDev
     \/ toDev' = Tail(toDev) /\ UNCHANGED faults
  /\ Bad \/ EndOfFile \/ Cancel \/ Abort
  /\ Answer
  /\ UNCHANGED <<senderVars, sessions>>

(* No byte in a hundred ticks: the sender is not running, or waits for a   *)
(* byte as well; a sender that stalls may have replies left to read.       *)
ReceiveTimeout ==
  /\ toDev = <<>>
  /\ \/ phase = "idle"
     \/ toHost = <<>>
     \/ faults[Stall] > 0 /\ Len(toHost) < MaxReplies
  /\ Bad
  /\ Answer
  /\ UNCHANGED <<senderVars, toDev, faults, sessions>>

ReceiverStart == Start /\ UNCHANGED <<senderVars, lineVars, sessions>>

(* Back in NORMAL mode: what reaches the unit goes to the command parser,  *)
(* what was in the byte queue stays for the next transfer.                 *)
NormalMode ==
  /\ flag = NORMAL_MODE /\ toDev # <<>>
  /\ toDev' = Front(toDev)
  /\ UNCHANGED <<receiverVars, senderVars, toHost, faults, sessions>>

(* The host sends commands while it transmits nothing. *)
Command ==
  /\ phase = "idle" /\ sessions < MaxSessions
  /\ \E t \in DevType : FlashErase(t) \/ FlashProg(t)
  /\ UNCHANGED <<senderVars, lineVars, sessions>>
-----------------------------------------------------------------------------
(* The line. *)

LineFault ==
  /\ \/ /\ Fault(Lose) /\ toDev # <<>>
        /\ toDev' = Tail(toDev) /\ UNCHANGED toHost
     \/ /\ Fault(Lose) /\ toHost # <<>>
        /\ toHost' = Tail(toHost) /\ UNCHANGED toDev
     \/ /\ Fault(Garble) /\ toDev # <<>>
        /\ toDev' = <<JunkMsg>> \o Tail(toDev) /\ UNCHANGED toHost
     \/ /\ Fault(Corrupt) /\ toDev # <<>> /\ Head(toDev).kind = "data"
        /\ \E b \in Block \ {Head(toDev).block} :
              toDev' = <<DataMsg(Head(toDev).seq, b)>> \o Tail(toDev)
        /\ UNCHANGED toHost
  /\ UNCHANGED <<receiverVars, senderVars, sessions>>

Sender == SenderReads \/ SenderTimeout
Receiver == ReceiverStart \/ Receive \/ ReceiveJunk \/ ReceiveTimeout

(* The host is finished; what the unit still sends is not read. *)
Done ==
  /\ phase = "idle" /\ sessions = MaxSessions
  /\ UNCHANGED vars

Next ==
  \/ Command \/ Transmit
  \/ Sender \/ Receiver
  \/ NormalMode \/ LineFault \/ Done

Spec == Init /\ [][Next]_vars

(* Sender and receiver each take their next round if they can. *)
FairSpec == Spec /\ WF_vars(Sender) /\ WF_vars(Receiver)
-----------------------------------------------------------------------------
TypeOK ==
  /\ ReceiverTypeOK
  /\ phase \in Phase
  /\ blkNumber \in 0 .. Len(File)
  /\ sendErrors \in 0 .. RETRIES
  /\ result \in {"none", "ok", "errors", "too long"}
  /\ toDev \in Seq(Message)
  /\ toHost \in Seq(Reply)
  /\ faults \in [FaultKind -> Nat]
  /\ sessions \in 0 .. MaxSessions

(* The blocks programmed since the unit started, in order of address. *)
Programmed == [i \in 1 .. offset[type] |-> flash[type][i - 1]]

FT == INSTANCE FileTransfer WITH written <- Programmed, report <- result

(* The file is in the flash, from address 0 on. *)
FileInFlash == \A i \in 1 .. Len(File) : flash[type][i - 1] = File[i]

(* "file trasmitted successfully" (ymodem.c:575): when Ymodem_Transmit     *)
(* returns 0, every block is in flash where it belongs.                    *)
SuccessMeansWritten ==
  [][phase # "idle" /\ phase' = "idle" /\ result' = "ok" => FileInFlash]_vars

(* The transfer is a FileTransfer of what if_mcu_upgrade or if_fpga_upgrade *)
(* programmed: blocks in order, none skipped and none twice, and success    *)
(* reported only for the whole file.                                        *)
FileTransferSpec == FT!Spec

(* Every loop that waits for an answer ends: Ymodem_Transmit returns       *)
(* ("Resend packet if NAK  for a count of 10 else end of commuincation",   *)
(* ymodem.c:418, 481, 550).                                                *)
TransmitReturns == (phase # "idle") ~> (phase = "idle")

Never(kinds) == \A f \in kinds : faults[f] = 0

(* The same where no message or reply is lost, however late the sender     *)
(* reads and however often the receiver asks again meanwhile.              *)
TransmitReturnsUnlessLost ==
  Never(FaultKind \ {Stall}) => TransmitReturns

(* A transmission that succeeds takes the unit out of UPGRADE mode where   *)
(* nothing goes wrong, however many requests wait for the sender when it   *)
(* starts: the empty filename packet reaches a receiver that has seen the  *)
(* file and knows its size (upgrade.c:34-39).                              *)
SuccessEndsUpgrade ==
  Never(FaultKind) => ((result = "ok") ~> (flag = NORMAL_MODE))

(* A receiver whose sender is gone does not stay in the middle of a file:  *)
(* after MAX_ERRORS rounds it gives up (ymodem.c:211-221), whatever went   *)
(* wrong before, and from then on expects a filename.                      *)
AbandonedSessionEnds ==
  <>[](phase = "idle" /\ sessions = MaxSessions)
    => <>[](~receiving \/ session_begin = 0)

(* A flash address is programmed only once between two erasures: the       *)
(* static offset of if_mcu_upgrade and if_fpga_upgrade never goes back,    *)
(* however often a transfer fails and is started again.                    *)
ProgramsErased ==
  [][\A t \in DevType, a \in Address :
       flash'[t][a] \in {flash[t][a], Erased} \/ flash[t][a] = Erased]_vars
=============================================================================
