------------------------ MODULE YmodemTransferProof ------------------------
(***************************************************************************)
(* The type invariant of YmodemTransfer and ProgramsErased, for every      *)
(* file, every limit, all budgets of faults and any number of sessions.    *)
(***************************************************************************)
EXTENDS YmodemTransfer, TLAPS

(* The error counter has not passed its limit while the receiver runs. *)
ErrorsBelowLimit == receiving => errors <= MAX_ERRORS

(* What is not erased lies below the offset, where nothing is written any  *)
(* more.                                                                   *)
ProgrammedBelowOffset ==
  \A t \in DevType, a \in Address : flash[t][a] # Erased => a < offset[t]

ReceiverInv == ReceiverTypeOK /\ ErrorsBelowLimit /\ ProgrammedBelowOffset

Operation ==
  \/ \E t \in DevType : FlashErase(t) \/ FlashProg(t)
  \/ Start \/ Cancel \/ EndOfFile \/ Abort \/ Bad
  \/ \E seq \in Nat : WrongNumber(seq) \/ EmptyFileName(seq)
  \/ \E seq, n \in Nat : FileName(seq, n)
  \/ \E seq \in Nat, b \in Block \cup {Header}, ok \in BOOLEAN : Data(seq, b, ok)

USE YmodemAssumption, TransferAssumption
-----------------------------------------------------------------------------
(* The receiver. *)

(* Programming a block touches only the address at the offset. *)
LEMMA UpgradeKeeps ==
  ASSUME ReceiverInv,
         NEW t \in DevType, NEW b \in Block \cup {Header}, NEW ok \in BOOLEAN,
         Upgrade(t, b, ok)
  PROVE  /\ offset' \in [DevType -> Nat]
         /\ flash' \in [DevType -> [Address -> Block \cup {Erased, Unknown, Header}]]
         /\ ProgrammedBelowOffset'
         /\ \A u \in DevType, a \in Address :
              flash'[u][a] # flash[u][a] => flash[u][a] = Erased
  <1> DEFINE Content == Block \cup {Erased, Unknown, Header}
             c == IF ok THEN b ELSE Unknown
  <1> c \in Content
    OBVIOUS
  <1>0. /\ offset \in [DevType -> Nat]
        /\ flash \in [DevType -> [Address -> Content]]
        /\ ProgrammedBelowOffset
    BY DEF ReceiverInv, ReceiverTypeOK
  <1> HIDE DEF Content, c
  <1>1. /\ offset' \in [DevType -> Nat]
        /\ offset'[t] = offset[t] + 1
        /\ \A u \in DevType \ {t} : offset'[u] = offset[u]
    BY <1>0 DEF Upgrade
  <1>a. \A u \in DevType, a \in Address : a < offset[u] => a < offset'[u]
    <2>1. \A u \in DevType : offset[u] \in Nat /\ offset'[u] \in {offset[u], offset[u] + 1}
      BY <1>0, <1>1
    <2>2. QED  BY <2>1 DEF Address
  <1>2. CASE offset[t] \in Address
    <2> DEFINE f == [flash[t] EXCEPT ![offset[t]] = c]
    <2>0. f \in [Address -> Content]
      BY <1>0, <1>2
    <2>1. flash' = [flash EXCEPT ![t] = f]
      BY <1>0, <1>2 DEF Upgrade, c
    <2>a. \A a \in Address : f[a] = IF a = offset[t] THEN c ELSE flash[t][a]
      BY <1>0, <1>2
    <2> HIDE DEF f
    <2>2. flash' \in [DevType -> [Address -> Content]]
      BY <1>0, <2>0, <2>1
    <2>3. \A u \in DevType, a \in Address :
            flash'[u][a] = IF u = t /\ a = offset[t] THEN c ELSE flash[u][a]
      BY <1>0, <2>a, <2>1
    <2>4. flash[t][offset[t]] = Erased
      BY <1>0, <1>2 DEF ProgrammedBelowOffset
    <2>b. offset[t] < offset'[t]
      BY <1>0, <1>1
    <2>5. ProgrammedBelowOffset'
      BY <1>0, <1>1, <1>a, <2>b, <2>3 DEF ProgrammedBelowOffset
    <2>6. QED  BY <1>1, <2>2, <2>3, <2>4, <2>5 DEF Content
  <1>3. CASE offset[t] \notin Address
    <2>1. flash' = flash
      BY <1>3 DEF Upgrade
    <2>2. ProgrammedBelowOffset'
      BY <1>0, <1>a, <2>1 DEF ProgrammedBelowOffset
    <2>3. QED  BY <1>0, <1>1, <2>1, <2>2 DEF Content
  <1>4. QED  BY <1>2, <1>3

(* The receiver stops and leaves the flash alone. *)
LEMMA StopKeeps ==
  ASSUME ReceiverInv,
         receiving' = FALSE,
         flag' \in {NORMAL_MODE, UPGRADE_MODE},
         errors' \in 0 .. MAX_ERRORS + 1,
         sent' \in Seq(Reply),
         UNCHANGED <<type, packets_received, session_begin, size, offset, flash>>
  PROVE  ReceiverInv'
  <1>1. receiving' \in BOOLEAN
    OBVIOUS
  <1>2. ErrorsBelowLimit'
    BY DEF ErrorsBelowLimit
  <1>3. ProgrammedBelowOffset'
    BY DEF ReceiverInv, ProgrammedBelowOffset
  <1>4. ReceiverTypeOK'
    BY <1>1 DEF ReceiverInv, ReceiverTypeOK
  <1>5. QED  BY <1>2, <1>3, <1>4 DEF ReceiverInv

(* Every operation keeps the receiver's invariant and programs erased      *)
(* addresses only.                                                         *)
LEMMA OperationKeeps ==
  ASSUME ReceiverInv, Operation
  PROVE  /\ ReceiverInv'
         /\ \A t \in DevType, a \in Address :
              flash'[t][a] \in {flash[t][a], Erased} \/ flash[t][a] = Erased
  <1> USE DEF ReceiverInv, ReceiverTypeOK, ErrorsBelowLimit, Reply,
              locals, GoOn
  <1>1. ASSUME NEW t \in DevType, FlashErase(t)
        PROVE  /\ ReceiverInv'
               /\ \A u \in DevType, a \in Address :
                    flash'[u][a] \in {flash[u][a], Erased}
    <2>1. /\ flash' = [flash EXCEPT ![t] = [a \in Address |-> Erased]]
          /\ sent' = <<>>
          /\ UNCHANGED <<flag, type, receiving, packets_received,
                         session_begin, errors, size, offset>>
      BY <1>1 DEF FlashErase
    <2>2. /\ flash' \in [DevType -> [Address -> Block \cup {Erased, Unknown, Header}]]
          /\ \A u \in DevType, a \in Address :
               flash'[u][a] \in {flash[u][a], Erased}
      BY <2>1
    <2>3. ProgrammedBelowOffset'
      BY <2>1, <2>2 DEF ProgrammedBelowOffset
    <2>4. QED  BY <2>1, <2>2, <2>3
  <1>2. ASSUME NEW t \in DevType, FlashProg(t)
        PROVE  ReceiverInv' /\ flash' = flash
    BY <1>2 DEF FlashProg, ProgrammedBelowOffset
  <1>3. ASSUME Start  PROVE ReceiverInv' /\ flash' = flash
    BY <1>3 DEF Start, ProgrammedBelowOffset
  <1>4. ASSUME Cancel  PROVE ReceiverInv' /\ flash' = flash
    <2>1. receiving' = FALSE
      BY <1>4 DEF Cancel, Return
    <2>2. flag' \in {NORMAL_MODE, UPGRADE_MODE}
      BY <1>4 DEF Cancel, Return
    <2>3. /\ errors' \in 0 .. MAX_ERRORS + 1 /\ sent' = <<ACK>>
          /\ UNCHANGED <<type, packets_received, session_begin, size, offset,
                         flash>>
      BY <1>4 DEF Cancel
    <2>4. sent' \in Seq(Reply)
      BY <2>3
    <2> HIDE DEF ReceiverInv
    <2>5. QED  BY <2>1, <2>2, <2>3, <2>4, StopKeeps
  <1>5. ASSUME EndOfFile  PROVE ReceiverInv' /\ flash' = flash
    BY <1>5 DEF EndOfFile, ProgrammedBelowOffset
  <1>6. ASSUME Abort  PROVE ReceiverInv' /\ flash' = flash
    <2>1. receiving' = FALSE
      BY <1>6 DEF Abort, Return
    <2>2. flag' \in {NORMAL_MODE, UPGRADE_MODE}
      BY <1>6 DEF Abort, Return
    <2>3. /\ errors' \in 0 .. MAX_ERRORS + 1 /\ sent' = <<CA, CA>>
          /\ UNCHANGED <<type, packets_received, session_begin, size, offset,
                         flash>>
      BY <1>6 DEF Abort
    <2>4. sent' \in Seq(Reply)
      BY <2>3
    <2> HIDE DEF ReceiverInv
    <2>5. QED  BY <2>1, <2>2, <2>3, <2>4, StopKeeps
  <1>7. ASSUME Bad  PROVE ReceiverInv' /\ flash' = flash
    <2>1. /\ errors' \in 0 .. MAX_ERRORS + 1
          /\ UNCHANGED <<type, packets_received, session_begin, size, offset,
                         flash>>
      BY <1>7 DEF Bad
    <2>2. CASE errors' > MAX_ERRORS
      <3>0. ~(errors' <= MAX_ERRORS)
        BY <2>1, <2>2
      <3>1. Return(0) /\ sent' = <<CA, CA>>
        BY <1>7, <3>0, Zenon DEF Bad
      <3>2. receiving' = FALSE
        BY <3>1 DEF Return
      <3>3. flag' \in {NORMAL_MODE, UPGRADE_MODE}
        BY <3>1 DEF Return
      <3>4. sent' \in Seq(Reply)
        BY <3>1
      <3> HIDE DEF ReceiverInv
      <3>5. QED  BY <2>1, <3>2, <3>3, <3>4, StopKeeps
    <2>3. CASE errors' <= MAX_ERRORS
      <3>0. ~(errors' > MAX_ERRORS)
        BY <2>1, <2>3
      <3>1. sent' = <<CRC16>> /\ UNCHANGED <<receiving, flag>>
        BY <1>7, <3>0, Zenon DEF Bad
      <3>2. QED  BY <2>1, <2>3, <3>1 DEF ProgrammedBelowOffset
    <2>4. QED  BY <2>1, <2>2, <2>3
  <1>8. ASSUME NEW seq \in Nat, WrongNumber(seq)
        PROVE  ReceiverInv' /\ flash' = flash
    BY <1>8 DEF WrongNumber, ProgrammedBelowOffset
  <1>9. ASSUME NEW seq \in Nat, EmptyFileName(seq)
        PROVE  ReceiverInv' /\ flash' = flash
    <2>1. receiving' = FALSE
      BY <1>9 DEF EmptyFileName, Return
    <2>2. flag' \in {NORMAL_MODE, UPGRADE_MODE}
      BY <1>9 DEF EmptyFileName, Return
    <2>3. /\ errors' \in 0 .. MAX_ERRORS + 1 /\ sent' = <<ACK>>
          /\ UNCHANGED <<type, packets_received, session_begin, size, offset,
                         flash>>
      BY <1>9 DEF EmptyFileName
    <2>4. sent' \in Seq(Reply)
      BY <2>3
    <2> HIDE DEF ReceiverInv
    <2>5. QED  BY <2>1, <2>2, <2>3, <2>4, StopKeeps
  <1>10. ASSUME NEW seq \in Nat, NEW n \in Nat, FileName(seq, n)
         PROVE  ReceiverInv' /\ flash' = flash
    BY <1>10 DEF FileName, ProgrammedBelowOffset
  <1>11. ASSUME NEW seq \in Nat, NEW b \in Block \cup {Header},
                NEW ok \in BOOLEAN, Data(seq, b, ok)
         PROVE  /\ ReceiverInv'
                /\ \A t \in DevType, a \in Address :
                     flash'[t][a] # flash[t][a] => flash[t][a] = Erased
    <2>1. Upgrade(type, b, ok)
      BY <1>11 DEF Data
    <2>2. /\ offset' \in [DevType -> Nat]
          /\ flash' \in [DevType -> [Address -> Block \cup {Erased, Unknown, Header}]]
          /\ ProgrammedBelowOffset'
          /\ \A u \in DevType, a \in Address :
               flash'[u][a] # flash[u][a] => flash[u][a] = Erased
      BY <2>1, UpgradeKeeps
    <2>3. QED  BY <1>11, <2>2 DEF Data
  <1>12. QED
    <2> HIDE DEF ReceiverInv
    <2>1. QED
      BY <1>1, <1>2, <1>3, <1>4, <1>5, <1>6, <1>7, <1>8, <1>9, <1>10, <1>11,
         Zenon DEF Operation
-----------------------------------------------------------------------------
(* The sender and the line. *)

SenderTypeOK ==
  /\ phase \in Phase
  /\ blkNumber \in 0 .. Len(File)
  /\ sendErrors \in 0 .. RETRIES
  /\ result \in {"none", "ok", "errors", "too long"}

LineTypeOK ==
  /\ toDev \in Seq(Message)
  /\ toHost \in Seq(Reply)
  /\ faults \in [FaultKind -> Nat]
  /\ sessions \in 0 .. MaxSessions

(* While a transmission runs, blkNumber is the number of a block. *)
SendingABlock == phase # "idle" => blkNumber \in 1 .. Len(File)

IInv == ReceiverInv /\ SenderTypeOK /\ LineTypeOK /\ SendingABlock

(* A packet's number is a number and its contents are a block. *)
LEMMA MessageFields ==
  ASSUME NEW msg \in Message
  PROVE  /\ msg.kind \in {"name", "empty", "data"} => msg.seq \in Nat
         /\ msg.kind = "data" => msg.block \in Block
  <1>1. CASE msg \in {NameMsg, EmptyMsg, EOTMsg, JunkMsg}
    BY <1>1 DEF NameMsg, EmptyMsg, EOTMsg, JunkMsg
  <1>2. CASE \E s \in 0 .. SEQ_MOD - 1, b \in Block : msg = DataMsg(s, b)
    BY <1>2 DEF DataMsg
  <1>3. QED  BY <1>1, <1>2 DEF Message

(* What a loop of Ymodem_Transmit sends is a message. *)
LEMMA RequestIsMessage ==
  ASSUME NEW ph, NEW blk \in 1 .. Len(File)
  PROVE  Request(ph, blk) \in Message
  <1>1. File[blk] \in Block
    OBVIOUS
  <1>2. blk % SEQ_MOD \in 0 .. SEQ_MOD - 1
    OBVIOUS
  <1>3. DataMsg(blk % SEQ_MOD, File[blk]) \in Message
    BY <1>1, <1>2 DEF Message
  <1>4. {NameMsg, EmptyMsg, EOTMsg} \subseteq Message
    BY DEF Message
  <1>5. Request(ph, blk) \in
          {NameMsg, EmptyMsg, EOTMsg, DataMsg(blk % SEQ_MOD, File[blk])}
    BY DEF Request
  <1>6. QED  BY <1>3, <1>4, <1>5

(* A round of the sender keeps the types of its variables. *)
LEMMA EnterKeeps ==
  ASSUME IInv, NEW ph \in Phase, NEW blk \in 1 .. Len(File),
         NEW errs \in 0 .. RETRIES, Enter(ph, blk, errs)
  PROVE  SenderTypeOK' /\ SendingABlock' /\ toDev' \in Seq(Message)
  <1>1. Request(ph, blk) \in Message
    BY RequestIsMessage
  <1>2. toDev \in Seq(Message) /\ toDev' = Append(toDev, Request(ph, blk))
    BY DEF IInv, LineTypeOK, Enter
  <1>3. toDev' \in Seq(Message)
    BY <1>1, <1>2
  <1>4. phase' = ph /\ blkNumber' = blk /\ sendErrors' = errs /\ result' = result
    BY DEF Enter
  <1>0. blk \in 0 .. Len(File)
    OBVIOUS
  <1>a. result' \in {"none", "ok", "errors", "too long"}
    BY <1>4 DEF IInv, SenderTypeOK
  <1>5. SenderTypeOK'
    BY <1>0, <1>4, <1>a DEF SenderTypeOK
  <1>6. SendingABlock'
    BY <1>4 DEF SendingABlock
  <1>7. QED  BY <1>3, <1>5, <1>6

(* A sender that stops keeps the invariant. *)
LEMMA StopKeepsSender ==
  ASSUME IInv, NEW ret \in {"ok", "errors", "too long"}, Stop(ret)
  PROVE  SenderTypeOK' /\ SendingABlock' /\ toDev' \in Seq(Message)
  BY DEF Stop, IInv, SenderTypeOK, LineTypeOK, SendingABlock, Phase

(* So does one that is acknowledged, *)
LEMMA AckedKeeps ==
  ASSUME IInv, phase # "idle", Acked
  PROVE  SenderTypeOK' /\ SendingABlock' /\ toDev' \in Seq(Message)
  <1> USE DEF Phase
  <1>0. Len(File) \in Nat \ {0}
    OBVIOUS
  <1>a. blkNumber \in 1 .. Len(File)
    BY DEF IInv, SendingABlock
  <1>b. sendErrors \in 0 .. RETRIES /\ 0 \in 0 .. RETRIES
    <2>1. sendErrors \in 0 .. RETRIES
      BY Zenon DEF IInv, SenderTypeOK
    <2>2. QED  BY <2>1
  <1>c. 1 \in 1 .. Len(File)
    BY <1>0
  <1>d. blkNumber < Len(File) => blkNumber + 1 \in 1 .. Len(File)
    BY <1>0, <1>a
  <1>1. /\ blkNumber \in 1 .. Len(File)
        /\ sendErrors \in 0 .. RETRIES /\ 0 \in 0 .. RETRIES
        /\ 1 \in 1 .. Len(File)
        /\ blkNumber < Len(File) => blkNumber + 1 \in 1 .. Len(File)
    BY <1>a, <1>b, <1>c, <1>d
  <1>2. CASE Enter("data", 1, 0)
    BY <1>1, <1>2, EnterKeeps
  <1>3. CASE Stop("too long") \/ Stop("ok")
    BY <1>3, StopKeepsSender
  <1>4. CASE blkNumber < Len(File) /\ Enter("data", blkNumber + 1, 0)
    BY <1>1, <1>4, EnterKeeps
  <1>5. CASE \/ Enter("eot", blkNumber, 0) \/ Enter("last", blkNumber, 0)
             \/ Enter("eot2", blkNumber, sendErrors)
    BY <1>1, <1>5, EnterKeeps
  <1>6. QED  BY <1>2, <1>3, <1>4, <1>5 DEF Acked

(* and one that is not. *)
LEMMA NotAckedKeeps ==
  ASSUME IInv, phase # "idle", NEW timeout \in BOOLEAN, NotAcked(timeout)
  PROVE  SenderTypeOK' /\ SendingABlock' /\ toDev' \in Seq(Message)
  <1> DEFINE counts == timeout \/ phase \in {"data", "eot", "eot2"}
             errs == IF counts THEN sendErrors + 1 ELSE sendErrors
  <1>1. blkNumber \in 1 .. Len(File) /\ phase \in Phase
    BY DEF IInv, SenderTypeOK, SendingABlock
  <1>2. /\ errs = sendErrors \/ errs = sendErrors + 1
        /\ sendErrors \in Nat
    <2>1. errs = sendErrors \/ errs = sendErrors + 1
      BY Zenon
    <2>2. sendErrors \in Nat
      <3>1. sendErrors \in 0 .. RETRIES
        BY Zenon DEF IInv, SenderTypeOK
      <3>2. QED  BY <3>1
    <2>3. QED  BY <2>1, <2>2
  <1>3. CASE errs >= RETRIES
    <2>1. Stop("errors")
      BY <1>3 DEF NotAcked
    <2>2. QED  BY <2>1, StopKeepsSender
  <1>4. CASE ~(errs >= RETRIES) /\ phase = "eot2"
    <2>1. Stop("ok")
      BY <1>4 DEF NotAcked
    <2>2. QED  BY <2>1, StopKeepsSender
  <1>5. CASE ~(errs >= RETRIES) /\ phase # "eot2"
    <2>1. Enter(phase, blkNumber, errs)
      BY <1>5 DEF NotAcked
    <2>2. errs \in 0 .. RETRIES
      BY <1>2, <1>5
    <2> HIDE DEF errs
    <2>3. QED  BY <1>1, <2>1, <2>2, EnterKeeps
  <1>6. QED  BY <1>3, <1>4, <1>5
-----------------------------------------------------------------------------
(* The whole. *)

(* What a step of the unit does beyond an operation of the receiver. *)
LEMMA UnitStep ==
  ASSUME IInv, Operation, UNCHANGED <<senderVars, sessions>>,
         toDev' \in Seq(Message), toHost' \in Seq(Reply),
         faults' \in [FaultKind -> Nat]
  PROVE  /\ IInv'
         /\ \A t \in DevType, a \in Address :
              flash'[t][a] \in {flash[t][a], Erased} \/ flash[t][a] = Erased
  <1>1. /\ ReceiverInv'
        /\ \A t \in DevType, a \in Address :
              flash'[t][a] \in {flash[t][a], Erased} \/ flash[t][a] = Erased
    BY OperationKeeps, Zenon DEF IInv
  <1>2. SenderTypeOK' /\ SendingABlock'
    BY DEF IInv, SenderTypeOK, SendingABlock, senderVars
  <1>3. LineTypeOK'
    BY DEF IInv, LineTypeOK
  <1>4. QED  BY <1>1, <1>2, <1>3 DEF IInv

(* What a step does that leaves the receiver alone. *)
LEMMA HostStep ==
  ASSUME IInv, UNCHANGED receiverVars,
         SenderTypeOK', SendingABlock', LineTypeOK'
  PROVE  /\ IInv'
         /\ \A t \in DevType, a \in Address :
              flash'[t][a] \in {flash[t][a], Erased} \/ flash[t][a] = Erased
  <1>1. ReceiverInv'
    BY DEF IInv, ReceiverInv, ReceiverTypeOK, ErrorsBelowLimit,
           ProgrammedBelowOffset, receiverVars
  <1>2. flash' = flash
    BY DEF receiverVars
  <1>3. QED  BY <1>1, <1>2 DEF IInv

(* A fault takes from a budget that is not spent. *)
LEMMA FaultKeeps ==
  ASSUME IInv, NEW f \in FaultKind, Fault(f)
  PROVE  faults' \in [FaultKind -> Nat]
  <1>1. faults \in [FaultKind -> Nat] /\ faults[f] > 0
    BY DEF IInv, LineTypeOK, Fault
  <1>2. faults[f] \in Nat /\ faults[f] - 1 \in Nat
    BY <1>1
  <1>3. faults' = [faults EXCEPT ![f] = faults[f] - 1]
    BY DEF Fault
  <1>4. QED  BY <1>1, <1>2, <1>3

(* The replies of a step join the line. *)
LEMMA AnswerKeeps ==
  ASSUME IInv, Operation, Answer
  PROVE  toHost' \in Seq(Reply)
  <1>1. sent' \in Seq(Reply)
    BY OperationKeeps DEF IInv, ReceiverInv, ReceiverTypeOK
  <1>2. toHost \in Seq(Reply)
    BY DEF IInv, LineTypeOK
  <1>3. QED  BY <1>1, <1>2 DEF Answer

(* A message to the receiver gives one of its operations. *)
LEMMA ReceiveKeeps ==
  ASSUME IInv, Receive
  PROVE  Operation /\ faults' \in [FaultKind -> Nat]
  <1> DEFINE msg == Head(toDev)
  <1>1. msg \in Message
    BY DEF Receive, IInv, LineTypeOK
  <1>2. /\ msg.kind \in {"name", "empty", "data"} => msg.seq \in Nat
        /\ msg.kind = "data" => msg.block \in Block
    BY <1>1, MessageFields
  <1>3. faults \in [FaultKind -> Nat] /\ Len(File) \in Nat
    BY DEF IInv, LineTypeOK
  <1>4. \/ msg.kind \in {"name", "data", "empty"} /\ WrongNumber(msg.seq)
        \/ msg.kind = "name" /\ FileName(msg.seq, Len(File))
        \/ msg.kind = "empty" /\ EmptyFileName(msg.seq)
        \/ msg.kind = "data" /\ EmptyFileName(msg.seq)
        \/ msg.kind = "data" /\ \E n \in 0 .. 1 : FileName(msg.seq, n)
        \/ msg.kind = "data" /\ Data(msg.seq, msg.block, TRUE)
        \/ msg.kind = "data" /\ Data(msg.seq, msg.block, FALSE)
        \/ msg.kind \in {"name", "empty"} /\ Data(msg.seq, Header, TRUE)
        \/ EndOfFile
    BY Zenon DEF Receive
  <1>5. Operation
    <2> HIDE DEF msg
    <2>1. CASE msg.kind \in {"name", "data", "empty"} /\ WrongNumber(msg.seq)
      <3>1. msg.seq \in Nat
        BY <1>2, <2>1
      <3>2. QED  BY <2>1, <3>1, Zenon DEF Operation
    <2>2. CASE msg.kind = "name" /\ FileName(msg.seq, Len(File))
      <3>1. msg.seq \in Nat
        BY <1>2, <2>2
      <3>2. QED  BY <1>3, <2>2, <3>1, Zenon DEF Operation
    <2>3. CASE msg.kind \in {"empty", "data"} /\ EmptyFileName(msg.seq)
      <3>1. msg.seq \in Nat
        BY <1>2, <2>3
      <3>2. QED  BY <2>3, <3>1, Zenon DEF Operation
    <2>4. CASE msg.kind = "data" /\ \E n \in 0 .. 1 : FileName(msg.seq, n)
      <3>1. msg.seq \in Nat
        BY <1>2, <2>4
      <3>2. PICK n \in 0 .. 1 : FileName(msg.seq, n)
        BY <2>4
      <3>3. n \in Nat
        OBVIOUS
      <3>4. QED  BY <3>1, <3>2, <3>3, Zenon DEF Operation
    <2>5. CASE msg.kind = "data" /\ \E ok \in BOOLEAN : Data(msg.seq, msg.block, ok)
      <3>1. msg.seq \in Nat /\ msg.block \in Block \cup {Header}
        BY <1>2, <2>5
      <3>2. QED  BY <2>5, <3>1, Zenon DEF Operation
    <2>6. CASE msg.kind \in {"name", "empty"} /\ Data(msg.seq, Header, TRUE)
      <3>1. /\ msg.seq \in Nat /\ Header \in Block \cup {Header}
            /\ TRUE \in BOOLEAN
        BY <1>2, <2>6
      <3>2. QED  BY <2>6, <3>1, Zenon DEF Operation
    <2>7. CASE EndOfFile
      BY <2>7, Zenon DEF Operation
    <2>8. TRUE \in BOOLEAN /\ FALSE \in BOOLEAN
      OBVIOUS
    <2>9. /\ msg.kind = "empty" => msg.kind \in {"empty", "data"}
          /\ msg.kind = "data" => msg.kind \in {"empty", "data"}
      OBVIOUS
    <2>10. QED
      BY <1>4, <2>1, <2>2, <2>3, <2>4, <2>5, <2>6, <2>7, <2>8, <2>9, Zenon
  <1>6. UNCHANGED faults \/ Fault(Program)
    BY Zenon DEF Receive
  <1>7. QED  BY <1>3, <1>5, <1>6, FaultKeeps DEF FaultKind

(* Every step keeps the invariant and programs erased addresses only. *)
LEMMA StepKeeps ==
  ASSUME IInv, [Next]_vars
  PROVE  /\ IInv'
         /\ \A t \in DevType, a \in Address :
              flash'[t][a] \in {flash[t][a], Erased} \/ flash[t][a] = Erased
  <1> DEFINE Goal ==
        /\ IInv'
        /\ \A t \in DevType, a \in Address :
              flash'[t][a] \in {flash[t][a], Erased} \/ flash[t][a] = Erased
  <1> SUFFICES Goal
    OBVIOUS
  <1>0. /\ toDev \in Seq(Message) /\ toHost \in Seq(Reply)
        /\ faults \in [FaultKind -> Nat] /\ sessions \in 0 .. MaxSessions
    BY DEF IInv, LineTypeOK
  <1>S. SenderTypeOK /\ SendingABlock
    BY DEF IInv
  <1> HIDE DEF Goal
  <1>1. CASE Command
    <2>1. Operation
      BY <1>1 DEF Command, Operation
    <2>2. QED  BY <1>0, <1>1, <2>1, UnitStep DEF Goal, Command, lineVars
  <1>2. CASE Transmit
    <2>1. Len(File) \in Nat \ {0}
      OBVIOUS
    <2>2. toDev' \in Seq(Message)
      BY <1>0, <1>2 DEF Transmit, Message
    <2>3. SenderTypeOK' /\ SendingABlock'
      BY <1>2, <2>1 DEF Transmit, SenderTypeOK, SendingABlock, Phase
    <2>4. LineTypeOK'
      BY <1>0, <1>2, <2>2 DEF Transmit, LineTypeOK
    <2>5. QED  BY <1>2, <2>3, <2>4, HostStep DEF Goal, Transmit
  <1>3. CASE SenderReads
    <2>1. SenderTypeOK' /\ SendingABlock' /\ toDev' \in Seq(Message)
      BY <1>3, AckedKeeps, NotAckedKeeps DEF SenderReads
    <2>2. LineTypeOK'
      BY <1>0, <1>3, <2>1 DEF SenderReads, LineTypeOK
    <2>3. QED  BY <1>3, <2>1, <2>2, HostStep DEF Goal, SenderReads
  <1>4. CASE SenderTimeout
    <2>1. SenderTypeOK' /\ SendingABlock' /\ toDev' \in Seq(Message)
      BY <1>4, NotAckedKeeps DEF SenderTimeout
    <2>2. LineTypeOK'
      BY <1>0, <1>4, <2>1 DEF SenderTimeout, LineTypeOK
    <2>3. QED  BY <1>4, <2>1, <2>2, HostStep DEF Goal, SenderTimeout
  <1>5. CASE ReceiverStart
    <2>1. Operation
      BY <1>5 DEF ReceiverStart, Operation
    <2>2. QED  BY <1>0, <1>5, <2>1, UnitStep DEF Goal, ReceiverStart, lineVars
  <1>6. CASE Receive
    <2>1. Operation /\ faults' \in [FaultKind -> Nat]
      BY <1>6, ReceiveKeeps
    <2>2. toDev' \in Seq(Message)
      BY <1>0, <1>6 DEF Receive
    <2>3. toHost' \in Seq(Reply)
      BY <1>6, <2>1, AnswerKeeps DEF Receive
    <2>4. QED  BY <1>6, <2>1, <2>2, <2>3, UnitStep DEF Goal, Receive
  <1>7. CASE ReceiveJunk
    <2>1. Operation
      BY <1>7 DEF ReceiveJunk, Operation
    <2>2. toDev' \in Seq(Message) /\ faults' \in [FaultKind -> Nat]
      <3>1. /\ toDev # <<>>
            /\ toDev' = toDev \/ toDev' = Tail(toDev)
        BY <1>7, Zenon DEF ReceiveJunk
      <3>2. Fault(Garble) \/ UNCHANGED faults
        BY <1>7, Zenon DEF ReceiveJunk
      <3>3. toDev' \in Seq(Message)
        <4>1. Tail(toDev) \in Seq(Message)
          BY <1>0, <3>1
        <4>2. QED  BY <1>0, <3>1, <4>1, Zenon
      <3>4. Garble \in FaultKind
        BY DEF FaultKind
      <3>5. faults' \in [FaultKind -> Nat]
        BY <1>0, <3>2, <3>4, FaultKeeps, Zenon
      <3>6. QED  BY <3>3, <3>5
    <2>3. toHost' \in Seq(Reply)
      BY <1>7, <2>1, AnswerKeeps DEF ReceiveJunk
    <2>4. QED  BY <1>7, <2>1, <2>2, <2>3, UnitStep DEF Goal, ReceiveJunk
  <1>8. CASE ReceiveTimeout
    <2>1. Operation
      BY <1>8 DEF ReceiveTimeout, Operation
    <2>2. toHost' \in Seq(Reply)
      BY <1>8, <2>1, AnswerKeeps DEF ReceiveTimeout
    <2>3. QED  BY <1>0, <1>8, <2>1, <2>2, UnitStep DEF Goal, ReceiveTimeout
  <1>9. CASE NormalMode
    <2>1. toDev' \in Seq(Message)
      BY <1>0, <1>9 DEF NormalMode, Front
    <2>2. LineTypeOK'
      BY <1>0, <1>9, <2>1 DEF NormalMode, LineTypeOK
    <2>3. SenderTypeOK' /\ SendingABlock'
      BY <1>S, <1>9 DEF NormalMode, SenderTypeOK, SendingABlock, senderVars
    <2>4. QED  BY <1>9, <2>2, <2>3, HostStep DEF Goal, NormalMode
  <1>10. CASE LineFault
    <2>1. faults' \in [FaultKind -> Nat]
      BY <1>10, FaultKeeps DEF LineFault, FaultKind
    <2>2. toDev' \in Seq(Message) /\ toHost' \in Seq(Reply)
      <3>1. CASE toDev # <<>> /\ toDev' = Tail(toDev) /\ UNCHANGED toHost
        BY <1>0, <3>1
      <3>2. CASE toHost # <<>> /\ toHost' = Tail(toHost) /\ UNCHANGED toDev
        BY <1>0, <3>2
      <3>3. CASE /\ toDev # <<>> /\ UNCHANGED toHost
                 /\ \E m \in Message : toDev' = <<m>> \o Tail(toDev)
        BY <1>0, <3>3
      <3>4. JunkMsg \in Message
        BY DEF Message
      <3>5. CASE /\ toDev # <<>> /\ Head(toDev).kind = "data" /\ UNCHANGED toHost
                 /\ \E b \in Block \ {Head(toDev).block} :
                       toDev' = <<DataMsg(Head(toDev).seq, b)>> \o Tail(toDev)
        <4>1. Head(toDev) \in Message
          BY <1>0, <3>5
        <4>2. \A b \in Block : DataMsg(Head(toDev).seq, b) \in Message
          BY <3>5, <4>1 DEF Message, DataMsg, NameMsg, EmptyMsg, EOTMsg, JunkMsg
        <4>3. QED  BY <3>3, <3>5, <4>2
      <3>6. QED
        BY <1>10, <3>1, <3>2, <3>3, <3>4, <3>5, Zenon DEF LineFault
    <2>3. LineTypeOK'
      BY <1>0, <1>10, <2>1, <2>2 DEF LineFault, LineTypeOK
    <2>4. SenderTypeOK' /\ SendingABlock'
      BY <1>S, <1>10 DEF LineFault, SenderTypeOK, SendingABlock, senderVars
    <2>5. QED  BY <1>10, <2>3, <2>4, HostStep DEF Goal, LineFault
  <1>11. CASE UNCHANGED vars
    <2>1. SenderTypeOK' /\ SendingABlock' /\ LineTypeOK'
      BY <1>0, <1>S, <1>11
         DEF SenderTypeOK, SendingABlock, LineTypeOK, vars, senderVars, lineVars
    <2>2. QED  BY <1>11, <2>1, HostStep DEF Goal, vars
  <1>12. QED
    BY <1>1, <1>2, <1>3, <1>4, <1>5, <1>6, <1>7, <1>8, <1>9, <1>10, <1>11,
       Zenon DEF Next, Sender, Receiver, Done

(* The invariant holds at the start. *)
LEMMA InitEstablishes == Init => IInv
  <1> SUFFICES ASSUME Init PROVE IInv
    OBVIOUS
  <1>1. /\ offset = [t \in DevType |-> 0]
        /\ flash = [t \in DevType |-> [a \in Address |-> Erased]]
    BY DEF Init, RInit
  <1>2. ProgrammedBelowOffset
    BY <1>1 DEF ProgrammedBelowOffset
  <1>3. ReceiverTypeOK /\ ErrorsBelowLimit
    <2>1. /\ offset \in [DevType -> Nat]
          /\ flash \in [DevType -> [Address -> Block \cup {Erased, Unknown, Header}]]
      BY <1>1
    <2>2. /\ flag \in {NORMAL_MODE, UPGRADE_MODE}
          /\ type \in DevType
          /\ packets_received \in Nat /\ session_begin \in {0, 1}
          /\ errors \in 0 .. MAX_ERRORS + 1 /\ size \in Nat
      <3>1. /\ flag = NORMAL_MODE /\ type = UP_MCU1
            /\ packets_received = 0 /\ session_begin = 0
            /\ errors = 0 /\ size = 0
        BY Zenon DEF Init, RInit
      <3>2. QED  BY <3>1 DEF DevType
    <2>3. receiving = FALSE /\ sent = <<>>
      BY Zenon DEF Init, RInit
    <2>4. receiving \in BOOLEAN /\ sent \in Seq(Reply)
      <3>1. receiving \in BOOLEAN
        BY <2>3, Zenon
      <3>2. sent = <<>>
        BY <2>3, Zenon
      <3>3. sent \in Seq(Reply)
        BY <3>2
      <3>4. QED  BY <3>1, <3>3
    <2>5. ErrorsBelowLimit
      BY <2>3 DEF ErrorsBelowLimit
    <2>6. QED  BY <2>1, <2>2, <2>4, <2>5, Zenon DEF ReceiverTypeOK
  <1>4. SenderTypeOK /\ LineTypeOK /\ SendingABlock
    BY DEF Init, SenderTypeOK, LineTypeOK, SendingABlock, Phase
  <1>5. QED  BY <1>2, <1>3, <1>4 DEF IInv, ReceiverInv

(* Every variable of the transfer keeps its type, for every file, limit,   *)
(* budget of faults and number of sessions; the error counters stay        *)
(* within their limits.                                                    *)
THEOREM TypeCorrect == Spec => []TypeOK
  <1>1. IInv => TypeOK
    BY DEF IInv, ReceiverInv, SenderTypeOK, LineTypeOK, TypeOK
  <1>2. IInv /\ [Next]_vars => IInv'
    BY StepKeeps
  <1>3. QED  BY <1>1, <1>2, InitEstablishes, PTL DEF Spec

(* No address is programmed twice between two erasures, whatever is lost,  *)
(* garbled or repeated and however often a transfer is started again.      *)
THEOREM NoSecondProgramming == Spec => ProgramsErased
  <1>1. IInv /\ [Next]_vars => IInv'
    BY StepKeeps
  <1>2. IInv /\ [Next]_vars
          => [\A t \in DevType, a \in Address :
                flash'[t][a] \in {flash[t][a], Erased} \/ flash[t][a] = Erased]_vars
    BY StepKeeps
  <1>3. QED  BY <1>1, <1>2, InitEstablishes, PTL DEF Spec, ProgramsErased
=============================================================================
