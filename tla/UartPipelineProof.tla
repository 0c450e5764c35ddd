-------------------------- MODULE UartPipelineProof --------------------------
(***************************************************************************)
(* The invariants of UartPipeline and that it implements LossyFifo, for    *)
(* rings and queues of every size, semaphores of every width that can      *)
(* count the queue, any set of bytes and any number of arrivals.           *)
(***************************************************************************)
EXTENDS UartPipeline, SequenceTheorems, TLAPS

IInv ==
  /\ TypeOK
  /\ TokensMatchBytes
  /\ SuspendedOnZero
  /\ NoLostWakeup
  /\ TransferOwnsMode

USE UartBytesAssumption, RxRingAssumption, ByteQueueAssumption,
    UartPipelineAssumption
-----------------------------------------------------------------------------
(* The ring and the queue. *)

(* An index moves on within its array. *)
LEMMA ModStep ==
  ASSUME NEW n \in Nat \ {0}, NEW i \in 0 .. n - 1
  PROVE  (i + 1) % n = IF i + 1 = n THEN 0 ELSE i + 1
  OBVIOUS

(* A character saved is a character waiting. *)
LEMMA SaveCharKeeps ==
  ASSUME NEW r \in RxRingType, NEW b \in Byte
  PROVE  SaveChar(r, b) \in RxRingType /\ HasChar(SaveChar(r, b))
  <1>1. /\ r.rx_buffer \in [Slots -> Byte]
        /\ r.save_index \in Slots
        /\ r.read_index \in Slots
    BY DEF RxRingType
  <1>2. Advance(r.save_index) \in Slots /\ Advance(r.read_index) \in Slots
    BY <1>1 DEF Advance, Slots
  <1>3. Advance(r.read_index) # r.read_index
    BY <1>1 DEF Advance, Slots
  <1>4. SaveChar(r, b) \in RxRingType
    BY <1>1, <1>2 DEF SaveChar, RxRingType
  <1>5. HasChar(SaveChar(r, b))
    BY <1>3 DEF SaveChar, HasChar
  <1>6. QED  BY <1>4, <1>5

(* serial_getchar keeps the ring's indices in range. *)
LEMMA ReadCharKeeps ==
  ASSUME NEW r \in RxRingType
  PROVE  ReadChar(r) \in RxRingType /\ NextChar(r) \in Byte
  <1>1. Advance(r.read_index) \in Slots
    BY DEF RxRingType, Advance, Slots
  <1>2. ReadChar(r) \in RxRingType
    BY <1>1 DEF RxRingType, ReadChar
  <1>3. NextChar(r) \in Byte
    BY DEF RxRingType, NextChar
  <1>4. QED  BY <1>2, <1>3

(* A byte queued makes the queue one longer, and it stays below its size. *)
LEMMA EnQueueKeeps ==
  ASSUME NEW q \in QueueType, NEW b \in Byte, ~IsQueueFull(q)
  PROVE  /\ EnQueue(q, b) \in QueueType
         /\ QueueLength(EnQueue(q, b)) = QueueLength(q) + 1
  <1> DEFINE next == (q.tail + 1) % QUEUE_SIZE
  <1>1. /\ q.val \in [0 .. QUEUE_SIZE -> Byte]
        /\ q.head \in Positions /\ q.tail \in Positions
    BY DEF QueueType
  <1>2. next = IF q.tail + 1 = QUEUE_SIZE THEN 0 ELSE q.tail + 1
    BY <1>1, ModStep DEF Positions
  <1>3. next \in Positions
    BY <1>1, <1>2 DEF Positions
  <1>4. next # q.head
    BY DEF IsQueueFull
  <1>5. EnQueue(q, b) = [val |-> [q.val EXCEPT ![q.tail] = b],
                         head |-> q.head, tail |-> next]
    BY DEF EnQueue
  <1> HIDE DEF next
  <1>6. EnQueue(q, b) \in QueueType
    <2>1. [q.val EXCEPT ![q.tail] = b] \in [0 .. QUEUE_SIZE -> Byte]
      BY <1>1
    <2>2. QED  BY <1>1, <1>3, <1>5, <2>1 DEF QueueType
  <1>7. QueueLength(EnQueue(q, b)) = QueueLength(q) + 1
    <2>1. EnQueue(q, b).head = q.head /\ EnQueue(q, b).tail = next
      BY <1>5
    <2>2. QED  BY <1>1, <1>2, <1>4, <2>1 DEF Positions, QueueLength
  <1>8. QED  BY <1>6, <1>7

(* A byte taken out of a queue that has one makes it one shorter. *)
LEMMA DeQueueKeeps ==
  ASSUME NEW q \in QueueType, ~IsQueueEmpty(q)
  PROVE  /\ DeQueue(q) \in QueueType
         /\ QueueHead(q) \in Byte
         /\ QueueLength(DeQueue(q)) = QueueLength(q) - 1
  <1> DEFINE next == (q.head + 1) % QUEUE_SIZE
  <1>1. /\ q.val \in [0 .. QUEUE_SIZE -> Byte]
        /\ q.head \in Positions /\ q.tail \in Positions
        /\ q.head # q.tail
    BY DEF QueueType, IsQueueEmpty
  <1>2. next = IF q.head + 1 = QUEUE_SIZE THEN 0 ELSE q.head + 1
    BY <1>1, ModStep DEF Positions
  <1>3. next \in Positions
    BY <1>1, <1>2 DEF Positions
  <1>4. DeQueue(q) = [val |-> q.val, head |-> next, tail |-> q.tail]
    BY DEF DeQueue
  <1> HIDE DEF next
  <1>5. DeQueue(q) \in QueueType
    BY <1>1, <1>3, <1>4 DEF QueueType
  <1>6. QueueLength(DeQueue(q)) = QueueLength(q) - 1
    BY <1>1, <1>2, <1>4 DEF Positions, QueueLength
  <1>7. QueueHead(q) \in Byte
    BY <1>1 DEF QueueHead, Positions
  <1>8. QED  BY <1>5, <1>6, <1>7

(* The length of a queue, and when it is zero. *)
LEMMA QueueLengthRange ==
  ASSUME NEW q \in QueueType
  PROVE  /\ QueueLength(q) \in 0 .. QUEUE_SIZE - 1
         /\ QueueLength(q) = 0 <=> IsQueueEmpty(q)
  BY DEF QueueType, Positions, QueueLength, IsQueueEmpty

(* A semaphore below its width grows by one; at its width it falls to 0. *)
LEMMA IncrementedRange ==
  ASSUME NEW v \in 0 .. SEM_MOD - 1
  PROVE  /\ Incremented(v) \in 0 .. SEM_MOD - 1
         /\ v + 1 < SEM_MOD => Incremented(v) = v + 1
  BY ModStep DEF Incremented
-----------------------------------------------------------------------------
(* The invariant holds at the start. *)
LEMMA InitIInv == Init => IInv
  <1> SUFFICES ASSUME Init PROVE IInv
    OBVIOUS
  <1>1. EmptyRing \in RxRingType /\ ~HasChar(EmptyRing)
    BY DEF RxRingType, EmptyRing, Slots, Byte, HasChar
  <1>2. InitQueue \in QueueType /\ QueueLength(InitQueue) = 0
    BY DEF QueueType, InitQueue, Positions, Byte, QueueLength
  <1>3. TypeOK
    <2>1. /\ sem_rx \in 0 .. SEM_MOD - 1 /\ sem_queue \in 0 .. SEM_MOD - 1
          /\ arrivals \in 0 .. MaxArrivals
      BY DEF Init
    <2>2. type \in DevType /\ ch \in Byte /\ got \in Byte
      BY DEF Init, DevType, Byte
    <2>3. in_isr \in BOOLEAN /\ wrapped \in BOOLEAN
      BY DEF Init
    <2>4. QED  BY <1>1, <1>2, <2>1, <2>2, <2>3 DEF Init, TypeOK
  <1>4. TokensMatchBytes
    BY <1>2 DEF Init, TokensMatchBytes
  <1>5. SuspendedOnZero /\ NoLostWakeup /\ TransferOwnsMode
    BY <1>1 DEF Init, SuspendedOnZero, NoLostWakeup, TransferOwnsMode
  <1>6. QED  BY <1>3, <1>4, <1>5 DEF IInv

(* The interrupt handler touches the ring and sem_rx only. *)
LEMMA IsrStep == IInv /\ Isr => IInv'
  <1> SUFFICES ASSUME IInv, Isr PROVE IInv'
    OBVIOUS
  <1> USE DEF IInv, TypeOK, rxVars, ctlVars, queueVars, upgVars, modeVars
  <1>1. CASE IsrSave
    <2>1. TypeOK'
      BY <1>1, SaveCharKeeps DEF IsrSave
    <2>2. TokensMatchBytes' /\ SuspendedOnZero' /\ TransferOwnsMode'
      BY <1>1 DEF IsrSave, TokensMatchBytes, SuspendedOnZero, TransferOwnsMode
    <2>3. NoLostWakeup'
      BY <1>1 DEF IsrSave, NoLostWakeup
    <2>4. QED  BY <2>1, <2>2, <2>3
  <1>2. CASE IsrReturn
    <2> arrivals' \in 0 .. MaxArrivals
      BY <1>2 DEF IsrReturn
    <2> /\ in_isr' = FALSE
        /\ UNCHANGED <<ring, ch, queue, sem_queue, upg, got, flag, type>>
      BY <1>2 DEF IsrReturn
    <2>1. CASE ctl = "suspended"
      <3>1. ctl' = "read" /\ UNCHANGED <<sem_rx, wrapped>>
        BY <1>2, <2>1 DEF IsrReturn, ReleaseRx
      <3>2. TypeOK'
        BY <3>1
      <3>3. TokensMatchBytes' /\ SuspendedOnZero' /\ TransferOwnsMode'
        BY <2>1, <3>1
        DEF TokensMatchBytes, SuspendedOnZero, TransferOwnsMode
      <3>4. NoLostWakeup'
        BY <3>1 DEF NoLostWakeup
      <3>5. QED  BY <3>2, <3>3, <3>4
    <2>2. CASE ctl # "suspended"
      <3>1. /\ ctl' = ctl
            /\ sem_rx' = Incremented(sem_rx)
            /\ wrapped' = (sem_rx + 1 = SEM_MOD)
        BY <1>2, <2>2 DEF IsrReturn, ReleaseRx
      <3>2. sem_rx' \in 0 .. SEM_MOD - 1
        BY <3>1, IncrementedRange
      <3>3. sem_rx' > 0 \/ wrapped'
        <4>1. CASE sem_rx + 1 = SEM_MOD
          BY <3>1, <4>1, Zenon
        <4>2. CASE sem_rx + 1 # SEM_MOD
          <5>1. sem_rx + 1 < SEM_MOD
            BY <4>2
          <5>2. QED  BY <3>1, <5>1, IncrementedRange
        <4>3. QED  BY <4>1, <4>2
      <3>4. wrapped' \in BOOLEAN
        BY <3>1, Zenon
      <3>5. TypeOK'
        BY <3>1, <3>2, <3>4
      <3>6. TokensMatchBytes' /\ SuspendedOnZero' /\ TransferOwnsMode'
        BY <2>2, <3>1
        DEF TokensMatchBytes, SuspendedOnZero, TransferOwnsMode
      <3>7. NoLostWakeup'
        BY <3>3 DEF NoLostWakeup
      <3>8. QED  BY <3>5, <3>6, <3>7
    <2>3. QED  BY <2>1, <2>2
  <1>3. QED  BY <1>1, <1>2 DEF Isr

(* The control thread's own steps leave the queue and sem_queue alone,     *)
(* except for CtlEnQueue and CtlRelease.                                   *)
LEMMA CtlStep == IInv /\ Ctl => IInv'
  <1> SUFFICES ASSUME IInv, Ctl PROVE IInv'
    OBVIOUS
  <1> USE DEF IInv, isrVars, rxVars, queueVars, upgVars, modeVars, CtlGoto
  <1>1. CASE CtlTake
    <2>1. sem_rx' \in 0 .. SEM_MOD - 1
      BY <1>1 DEF CtlTake, TypeOK
    <2>2. TypeOK'
      BY <1>1, <2>1 DEF CtlTake, TypeOK
    <2>3. QED
      BY <1>1, <2>2 DEF CtlTake, TokensMatchBytes, SuspendedOnZero,
                        NoLostWakeup, TransferOwnsMode
  <1>2. CASE CtlSuspend
    BY <1>2 DEF CtlSuspend, TypeOK, TokensMatchBytes, SuspendedOnZero,
                  NoLostWakeup, TransferOwnsMode
  <1>3. CASE CtlTimeout
    BY <1>3 DEF CtlTimeout, TypeOK, TokensMatchBytes, SuspendedOnZero,
                  NoLostWakeup, TransferOwnsMode
  <1>4. CASE CtlRead
    <2>1. TypeOK'
      BY <1>4, ReadCharKeeps DEF CtlRead, TypeOK
    <2>2. QED
      BY <1>4, <2>1 DEF CtlRead, TokensMatchBytes, SuspendedOnZero,
                        NoLostWakeup, TransferOwnsMode
  <1>5. CASE CtlNothingToRead
    BY <1>5 DEF CtlNothingToRead, TypeOK, TokensMatchBytes, SuspendedOnZero,
                  NoLostWakeup, TransferOwnsMode
  <1>6. CASE CtlTest
    BY <1>6 DEF CtlTest, TypeOK, TokensMatchBytes, SuspendedOnZero,
                  NoLostWakeup, TransferOwnsMode
  <1>7. CASE CtlEnQueue
    <2>1. queue' \in QueueType /\ QueueLength(queue') = QueueLength(queue) + 1
      BY <1>7, EnQueueKeeps DEF CtlEnQueue, TypeOK
    <2>2. TypeOK'
      BY <1>7, <2>1 DEF CtlEnQueue, TypeOK
    <2>3. TokensMatchBytes'
      <3>1. QueueLength(queue) \in 0 .. QUEUE_SIZE - 1
        BY QueueLengthRange DEF TypeOK
      <3>2. QED
        BY <1>7, <2>1, <3>1 DEF CtlEnQueue, TypeOK, TokensMatchBytes
    <2>4. QED
      BY <1>7, <2>2, <2>3 DEF CtlEnQueue, SuspendedOnZero, NoLostWakeup,
                              TransferOwnsMode
  <1>8. CASE CtlQueueFull
    BY <1>8 DEF CtlQueueFull, TypeOK, TokensMatchBytes, SuspendedOnZero,
                  NoLostWakeup, TransferOwnsMode
  <1>9. CASE CtlRelease
    <2>1. QueueLength(queue) \in 0 .. QUEUE_SIZE - 1
      BY QueueLengthRange DEF TypeOK
    <2>2. CASE upg = "suspended"
      <3>1. upg' = "dequeue" /\ sem_queue' = sem_queue
        BY <1>9, <2>2 DEF CtlRelease
      <3>2. TypeOK'
        BY <1>9, <3>1 DEF CtlRelease, TypeOK
      <3>3. TokensMatchBytes'
        BY <1>9, <2>1, <2>2, <3>1 DEF CtlRelease, TypeOK, TokensMatchBytes
      <3>4. QED
        BY <1>9, <2>2, <3>1, <3>2, <3>3
        DEF CtlRelease, SuspendedOnZero, NoLostWakeup, TransferOwnsMode
    <2>3. CASE upg # "suspended"
      <3>1. upg' = upg /\ sem_queue' = Incremented(sem_queue)
        BY <1>9, <2>3 DEF CtlRelease
      <3>2. sem_queue + 1 < SEM_MOD
        BY <1>9, <2>1 DEF CtlRelease, TypeOK, TokensMatchBytes
      <3>3. sem_queue' = sem_queue + 1 /\ sem_queue' \in 0 .. SEM_MOD - 1
        BY <3>1, <3>2, IncrementedRange DEF TypeOK
      <3>4. TypeOK'
        BY <1>9, <3>1, <3>3 DEF CtlRelease, TypeOK
      <3>5. TokensMatchBytes'
        BY <1>9, <2>1, <3>1, <3>3 DEF CtlRelease, TypeOK, TokensMatchBytes
      <3>6. QED
        BY <1>9, <2>3, <3>1, <3>4, <3>5
        DEF CtlRelease, SuspendedOnZero, NoLostWakeup, TransferOwnsMode
    <2>4. QED  BY <2>2, <2>3
  <1>10. CASE CtlParse
    <2>1. TypeOK'
      BY <1>10 DEF CtlParse, TypeOK
    <2>2. TransferOwnsMode'
      BY <1>10 DEF CtlParse, TransferOwnsMode, TypeOK
    <2>3. QED
      BY <1>10, <2>1, <2>2
      DEF CtlParse, TokensMatchBytes, SuspendedOnZero, NoLostWakeup
  <1>11. CASE CtlSetType
    <2>1. TypeOK'
      BY <1>11 DEF CtlSetType, TypeOK, TransferOwnsMode
    <2>2. QED
      BY <1>11, <2>1 DEF CtlSetType, TokensMatchBytes, SuspendedOnZero,
                         NoLostWakeup, TransferOwnsMode
  <1>12. CASE CtlDelay
    BY <1>12 DEF CtlDelay, TypeOK, TokensMatchBytes, SuspendedOnZero,
                  NoLostWakeup, TransferOwnsMode
  <1>13. QED
    BY <1>1, <1>2, <1>3, <1>4, <1>5, <1>6, <1>7, <1>8, <1>9, <1>10, <1>11,
       <1>12 DEF Ctl

(* The upgrade thread leaves the ring and sem_rx alone. *)
LEMMA UpgStep == IInv /\ Upg => IInv'
  <1> SUFFICES ASSUME IInv, Upg PROVE IInv'
    OBVIOUS
  <1> USE DEF IInv, isrVars, rxVars, ctlVars, queueVars, modeVars, UpgGoto
  <1>1. CASE UpgStart
    BY <1>1 DEF UpgStart, TypeOK, TokensMatchBytes, SuspendedOnZero,
                  NoLostWakeup, TransferOwnsMode
  <1>2. CASE UpgTake
    <2>1. sem_queue' \in 0 .. SEM_MOD - 1
      BY <1>2 DEF UpgTake, TypeOK
    <2>2. TypeOK'
      BY <1>2, <2>1 DEF UpgTake, TypeOK
    <2>3. TokensMatchBytes'
      <3>1. QueueLength(queue) \in 0 .. QUEUE_SIZE - 1
        BY QueueLengthRange DEF TypeOK
      <3>2. QED
        BY <1>2, <3>1 DEF UpgTake, TypeOK, TokensMatchBytes
    <2>4. QED
      BY <1>2, <2>2, <2>3
      DEF UpgTake, SuspendedOnZero, NoLostWakeup, TransferOwnsMode
  <1>3. CASE UpgSuspend
    BY <1>3 DEF UpgSuspend, TypeOK, TokensMatchBytes, SuspendedOnZero,
                  NoLostWakeup, TransferOwnsMode
  <1>4. CASE UpgTimeout
    BY <1>4 DEF UpgTimeout, TypeOK, TokensMatchBytes, SuspendedOnZero,
                  NoLostWakeup, TransferOwnsMode
  <1>5. CASE UpgDeQueue
    <2>1. QueueLength(queue) \in 0 .. QUEUE_SIZE - 1
      BY QueueLengthRange DEF TypeOK
    <2>2. ~IsQueueEmpty(queue)
      <3>1. QueueLength(queue) # 0
        BY <1>5, <2>1 DEF UpgDeQueue, TypeOK, TokensMatchBytes
      <3>2. QED  BY <3>1, QueueLengthRange DEF TypeOK
    <2>3. queue' = DeQueue(queue) /\ got' = QueueHead(queue)
      BY <1>5, <2>2 DEF UpgDeQueue
    <2>4. /\ queue' \in QueueType /\ got' \in Byte
          /\ QueueLength(queue') = QueueLength(queue) - 1
      BY <2>2, <2>3, DeQueueKeeps DEF TypeOK
    <2>5. TypeOK'
      BY <1>5, <2>4 DEF UpgDeQueue, TypeOK
    <2>6. TokensMatchBytes'
      BY <1>5, <2>1, <2>4 DEF UpgDeQueue, TypeOK, TokensMatchBytes
    <2>7. QED
      BY <1>5, <2>5, <2>6
      DEF UpgDeQueue, SuspendedOnZero, NoLostWakeup, TransferOwnsMode
  <1>6. CASE UpgContinue
    BY <1>6 DEF UpgContinue, TypeOK, TokensMatchBytes, SuspendedOnZero,
                  NoLostWakeup, TransferOwnsMode
  <1>7. CASE UpgKeep
    BY <1>7 DEF UpgKeep, TypeOK, TokensMatchBytes, SuspendedOnZero,
                  NoLostWakeup, TransferOwnsMode
  <1>8. CASE UpgFinish
    BY <1>8 DEF UpgFinish, TypeOK, TokensMatchBytes, SuspendedOnZero,
                  NoLostWakeup, TransferOwnsMode
  <1>9. QED
    BY <1>1, <1>2, <1>3, <1>4, <1>5, <1>6, <1>7, <1>8 DEF Upg

(* Every step keeps it, *)
LEMMA Inductive == IInv /\ [Next]_vars => IInv'
  <1> SUFFICES ASSUME IInv, [Next]_vars PROVE IInv'
    OBVIOUS
  <1>1. CASE Next
    BY <1>1, IsrStep, CtlStep, UpgStep DEF Next
  <1>2. CASE UNCHANGED vars
    BY <1>2 DEF vars, IInv, TypeOK, TokensMatchBytes, SuspendedOnZero,
                NoLostWakeup, TransferOwnsMode
  <1>3. QED  BY <1>1, <1>2

(* and so it always holds. *)
LEMMA AlwaysIInv == Spec => []IInv
  BY InitIInv, Inductive, PTL DEF Spec
-----------------------------------------------------------------------------
(* Every variable keeps its type: the indices stay within their arrays     *)
(* (the queue never uses the last slot of its array), and the semaphore of *)
(* the queue never wraps.                                                  *)
THEOREM TypeCorrect == Spec => []TypeOK
  <1>1. IInv => TypeOK
    BY DEF IInv
  <1>2. QED  BY <1>1, AlwaysIInv, PTL

(* Every queued byte has its token, whatever the two threads interleave.   *)
THEOREM TokensMatch == Spec => []TokensMatchBytes
  <1>1. IInv => TokensMatchBytes
    BY DEF IInv
  <1>2. QED  BY <1>1, AlwaysIInv, PTL

(* The "Queue empty !!" branch of Receive_Byte is dead code.               *)
THEOREM DeQueueFindsByte == Spec => [](upg = "dequeue" => ~IsQueueEmpty(queue))
  <1>1. IInv => (upg = "dequeue" => ~IsQueueEmpty(queue))
    BY QueueLengthRange DEF IInv, TypeOK, TokensMatchBytes
  <1>2. QED  BY <1>1, AlwaysIInv, PTL

(* A character never waits in the ring with the control thread asleep and  *)
(* no release pending, short of a wrap of the 16-bit semaphore value.      *)
THEOREM WakeupsNotLost == Spec => []NoLostWakeup
  <1>1. IInv => NoLostWakeup
    BY DEF IInv
  <1>2. QED  BY <1>1, AlwaysIInv, PTL

(* No command is executed while a firmware transfer runs.                  *)
THEOREM CommandsWaitForTransfer == Spec => []NoCommandDuringTransfer
  <1>1. IInv => NoCommandDuringTransfer
    BY DEF IInv, TypeOK, TransferOwnsMode, NoCommandDuringTransfer,
           NORMAL_MODE, UPGRADE_MODE
  <1>2. QED  BY <1>1, AlwaysIInv, PTL
-----------------------------------------------------------------------------
(* The path is a lossy FIFO: sequences first. *)

(* Of bytes s, e and t in a row, s and t are left when e goes. *)
LEMMA RemoveBetween ==
  ASSUME NEW s \in Seq(Byte), NEW t \in Seq(Byte), NEW e \in Byte
  PROVE  /\ s \o <<e>> \o t \in Seq(Byte)
         /\ Len(s \o <<e>> \o t) = Len(s) + Len(t) + 1
         /\ (s \o <<e>> \o t)[Len(s) + 1] = e
         /\ Fifo!RemoveAt(s \o <<e>> \o t, Len(s) + 1) = s \o t
  <1> DEFINE u == s \o <<e>> \o t
             m == Len(s)
             n == Len(t)
             before == SubSeq(u, 1, m)
             after == SubSeq(u, m + 2, m + n + 1)
  <1>1. <<e>> \in Seq(Byte) /\ Len(<<e>>) = 1 /\ <<e>>[1] = e
    OBVIOUS
  <1>2. m \in Nat /\ n \in Nat
    BY LenProperties
  <1>3. /\ s \o <<e>> \in Seq(Byte) /\ Len(s \o <<e>>) = m + 1
        /\ \A i \in 1 .. m + 1 : (s \o <<e>>)[i] = IF i =< m THEN s[i] ELSE e
    <2>1. /\ s \o <<e>> \in Seq(Byte) /\ Len(s \o <<e>>) = m + 1
          /\ \A i \in 1 .. m + 1 :
                (s \o <<e>>)[i] = IF i =< m THEN s[i] ELSE <<e>>[i - m]
      BY <1>1, ConcatProperties
    <2>2. \A i \in 1 .. m + 1 : ~(i =< m) => i - m = 1
      BY <1>2
    <2>3. QED  BY <1>1, <2>1, <2>2
  <1>4. /\ u \in Seq(Byte) /\ Len(u) = m + 1 + n
        /\ \A i \in 1 .. m + 1 + n :
              u[i] = IF i =< m + 1 THEN (s \o <<e>>)[i] ELSE t[i - (m + 1)]
    BY <1>3, ConcatProperties
  <1> HIDE DEF u
  <1>5. /\ \A i \in 1 .. m : u[i] = s[i]
        /\ u[m + 1] = e
        /\ \A i \in 1 .. n : u[m + 1 + i] = t[i]
    <2>1. \A i \in 1 .. m : u[i] = s[i]
      BY <1>2, <1>3, <1>4
    <2>2. u[m + 1] = e
      BY <1>2, <1>3, <1>4
    <2>3. ASSUME NEW i \in 1 .. n PROVE u[m + 1 + i] = t[i]
      <3>1. /\ m + 1 + i \in 1 .. m + 1 + n
            /\ ~(m + 1 + i =< m + 1)
            /\ (m + 1 + i) - (m + 1) = i
        BY <1>2
      <3>2. QED  BY <1>4, <3>1
    <2>4. QED  BY <2>1, <2>2, <2>3
  <1>6. before = s
    <2>1. \A i \in 1 .. m : u[i] \in Byte
      BY <1>2, <1>4, ElementOfSeq
    <2>2. /\ before \in Seq(Byte)
          /\ Len(before) = IF 1 =< m THEN m - 1 + 1 ELSE 0
          /\ \A i \in 1 .. m - 1 + 1 : before[i] = u[1 + i - 1]
      BY <1>2, <2>1, SubSeqProperties
    <2>3. Len(before) = m /\ \A i \in 1 .. m : before[i] = s[i]
      <3>1. /\ m - 1 + 1 = m
            /\ \A i \in 1 .. m : 1 + i - 1 = i
        BY <1>2
      <3>2. QED  BY <1>2, <1>5, <2>2, <3>1
    <2> HIDE DEF before
    <2>4. QED  BY <2>2, <2>3, SeqEqual
  <1>7. after = t
    <2>1. \A i \in m + 2 .. m + n + 1 : u[i] \in Byte
      BY <1>2, <1>4, ElementOfSeq
    <2>2. /\ after \in Seq(Byte)
          /\ Len(after) = IF m + 2 =< m + n + 1 THEN (m + n + 1) - (m + 2) + 1 ELSE 0
          /\ \A i \in 1 .. (m + n + 1) - (m + 2) + 1 : after[i] = u[(m + 2) + i - 1]
      BY <1>2, <2>1, SubSeqProperties
    <2>3. Len(after) = n /\ \A i \in 1 .. n : after[i] = t[i]
      <3>1. /\ (m + n + 1) - (m + 2) + 1 = n
            /\ \A i \in 1 .. n : (m + 2) + i - 1 = m + 1 + i
        BY <1>2
      <3>2. QED  BY <1>2, <1>5, <2>2, <3>1
    <2> HIDE DEF after
    <2>4. QED  BY <2>2, <2>3, SeqEqual
  <1>8. Fifo!RemoveAt(u, m + 1) = s \o t
    <2>1. Fifo!RemoveAt(u, m + 1) = SubSeq(u, 1, (m + 1) - 1) \o SubSeq(u, (m + 1) + 1, Len(u))
      BY DEF Fifo!RemoveAt
    <2>2. (m + 1) - 1 = m /\ (m + 1) + 1 = m + 2 /\ Len(u) = m + n + 1
      BY <1>2, <1>4
    <2>3. QED  BY <1>6, <1>7, <2>1, <2>2
  <1>9. Len(u) = m + n + 1
    BY <1>2, <1>4
  <1>10. QED  BY <1>4, <1>5, <1>8, <1>9 DEF u

(* A sequence that starts with e, without its first element. *)
LEMMA HeadTailOfConcat ==
  ASSUME NEW S, NEW t \in Seq(S), NEW e \in S
  PROVE  /\ <<e>> \o t # <<>>
         /\ Head(<<e>> \o t) = e
         /\ Tail(<<e>> \o t) = t
  <1> DEFINE u == <<e>> \o t
  <1>1. <<e>> \in Seq(S) /\ Len(<<e>>) = 1 /\ <<e>>[1] = e /\ Len(t) \in Nat
    BY LenProperties
  <1>2. /\ u \in Seq(S) /\ Len(u) = 1 + Len(t)
        /\ \A i \in 1 .. 1 + Len(t) : u[i] = IF i =< 1 THEN <<e>>[i] ELSE t[i - 1]
    BY <1>1, ConcatProperties
  <1> HIDE DEF u
  <1>3. u # <<>>
    BY <1>1, <1>2
  <1>4. u[1] = e /\ \A i \in 1 .. Len(t) : u[i + 1] = t[i]
    <2>1. u[1] = e
      BY <1>1, <1>2
    <2>2. ASSUME NEW i \in 1 .. Len(t) PROVE u[i + 1] = t[i]
      <3>1. i + 1 \in 1 .. 1 + Len(t) /\ ~(i + 1 =< 1) /\ (i + 1) - 1 = i
        BY <1>1
      <3>2. QED  BY <1>2, <3>1
    <2>3. QED  BY <2>1, <2>2
  <1>5. Head(u) = e
    BY <1>2, <1>3, <1>4
  <1>6. Tail(u) = t
    <2>1. /\ Tail(u) \in Seq(S) /\ Len(Tail(u)) = Len(u) - 1
          /\ \A i \in 1 .. Len(Tail(u)) : Tail(u)[i] = u[i + 1]
      BY <1>2, <1>3, HeadTailProperties
    <2>2. Len(Tail(u)) = Len(t) /\ \A i \in 1 .. Len(t) : Tail(u)[i] = t[i]
      BY <1>1, <1>2, <1>4, <2>1
    <2>3. QED  BY <2>1, <2>2, SeqEqual
  <1>7. QED  BY <1>3, <1>5, <1>6 DEF u

(* The characters in the ring, one by one. *)
LEMMA RingContentsType ==
  ASSUME NEW r \in RxRingType
  PROVE  /\ RxLength(r) \in 0 .. UART_INT_RX_BUFFER_SIZE - 1
         /\ RingContents(r) \in Seq(Byte)
         /\ Len(RingContents(r)) = RxLength(r)
         /\ \A k \in 1 .. RxLength(r) :
              /\ SlotAfter(r.read_index, k - 1) \in Slots
              /\ RingContents(r)[k] = r.rx_buffer[SlotAfter(r.read_index, k - 1)]
  <1>1. /\ r.rx_buffer \in [Slots -> Byte]
        /\ r.save_index \in Slots /\ r.read_index \in Slots
    BY DEF RxRingType
  <1>2. RxLength(r) \in 0 .. UART_INT_RX_BUFFER_SIZE - 1
    BY <1>1 DEF RxLength, Slots
  <1>3. \A k \in 1 .. RxLength(r) : SlotAfter(r.read_index, k - 1) \in Slots
    BY <1>1, <1>2 DEF SlotAfter, Slots
  <1> DEFINE e(k) == r.rx_buffer[SlotAfter(r.read_index, k - 1)]
  <1>4. \A k \in 1 .. RxLength(r) : e(k) \in Byte
    BY <1>1, <1>3
  <1>5. RxLength(r) \in Nat
    BY <1>2
  <1>6. RingContents(r) = [k \in 1 .. RxLength(r) |-> e(k)]
    BY DEF RingContents
  <1> HIDE DEF e
  <1>7. RingContents(r) \in Seq(Byte) /\ Len(RingContents(r)) = RxLength(r)
    BY <1>4, <1>5, <1>6
  <1>8. \A k \in 1 .. RxLength(r) : RingContents(r)[k] = e(k)
    BY <1>6
  <1>9. QED  BY <1>2, <1>3, <1>7, <1>8 DEF e

(* A character read is the oldest of those that waited. *)
LEMMA ReadCharContents ==
  ASSUME NEW r \in RxRingType, HasChar(r)
  PROVE  RingContents(r) = <<NextChar(r)>> \o RingContents(ReadChar(r))
  <1> DEFINE q == ReadChar(r)
             n == RxLength(q)
             c == NextChar(r)
             u == <<c>> \o RingContents(q)
  <1>1. /\ r.rx_buffer \in [Slots -> Byte]
        /\ r.save_index \in Slots /\ r.read_index \in Slots
    BY DEF RxRingType
  <1>2. q \in RxRingType /\ c \in Byte
    BY ReadCharKeeps
  <1>3. /\ q.rx_buffer = r.rx_buffer
        /\ q.save_index = r.save_index
        /\ q.read_index = Advance(r.read_index)
    BY <1>1 DEF ReadChar, RxRingType
  <1> HIDE DEF q
  <1>4. n \in Nat /\ RxLength(r) = n + 1
    BY <1>1, <1>3 DEF RxLength, Advance, Slots, HasChar
  <1>5. ASSUME NEW k \in 1 .. n
        PROVE  SlotAfter(r.read_index, k) = SlotAfter(q.read_index, k - 1)
    <2> DEFINE i == r.read_index
               j == q.read_index
    <2>1. i \in Slots /\ j = IF i + 1 = UART_INT_RX_BUFFER_SIZE THEN 0 ELSE i + 1
      BY <1>1, <1>3 DEF Advance, Slots
    <2>2. n + 1 =< UART_INT_RX_BUFFER_SIZE - 1
      BY <1>4, RingContentsType
    <2> HIDE DEF i, j, n
    <2>3. k \in Nat /\ k =< UART_INT_RX_BUFFER_SIZE - 2 /\ 1 =< k
      BY <1>4, <2>2
    <2>4. SlotAfter(i, k) = SlotAfter(j, k - 1)
      BY <2>1, <2>3 DEF SlotAfter, Slots
    <2>5. QED  BY <2>4 DEF i, j
  <1>6. SlotAfter(r.read_index, 0) = r.read_index
    BY <1>1 DEF SlotAfter, Slots
  <1>7. /\ RingContents(q) \in Seq(Byte) /\ Len(RingContents(q)) = n
        /\ \A k \in 1 .. n : RingContents(q)[k] = q.rx_buffer[SlotAfter(q.read_index, k - 1)]
    BY <1>2, RingContentsType
  <1>8. /\ RingContents(r) \in Seq(Byte) /\ Len(RingContents(r)) = n + 1
        /\ \A k \in 1 .. n + 1 : RingContents(r)[k] = r.rx_buffer[SlotAfter(r.read_index, k - 1)]
    BY <1>4, RingContentsType
  <1> HIDE DEF n
  <1>9. /\ u \in Seq(Byte) /\ Len(u) = 1 + n
        /\ \A k \in 1 .. 1 + n : u[k] = IF k =< 1 THEN <<c>>[k] ELSE RingContents(q)[k - 1]
    <2>1. <<c>> \in Seq(Byte) /\ Len(<<c>>) = 1
      BY <1>2
    <2>2. QED  BY <1>7, <2>1, ConcatProperties
  <1>10. ASSUME NEW k \in 1 .. n + 1 PROVE RingContents(r)[k] = u[k]
    <2>1. CASE k = 1
      BY <1>4, <1>6, <1>8, <1>9, <2>1 DEF NextChar
    <2>2. CASE k # 1
      <3>1. k - 1 \in 1 .. n /\ ~(k =< 1) /\ k \in 1 .. 1 + n
        BY <1>4, <2>2
      <3>2. u[k] = r.rx_buffer[SlotAfter(q.read_index, (k - 1) - 1)]
        BY <1>3, <1>7, <1>9, <3>1
      <3>3. QED  BY <1>5, <1>8, <3>1, <3>2
    <2>3. QED  BY <2>1, <2>2
  <1> HIDE DEF u
  <1>11. RingContents(r) = u
    BY <1>4, <1>8, <1>9, <1>10, SeqEqual
  <1>12. QED  BY <1>11 DEF u, q

(* A character saved comes after those that wait, of which a full ring     *)
(* gives up the oldest.                                                    *)
LEMMA SaveCharContents ==
  ASSUME NEW r \in RxRingType, NEW b \in Byte
  PROVE  RingContents(SaveChar(r, b)) =
           Append(RingContents(IF Advance(r.save_index) = r.read_index
                               THEN ReadChar(r) ELSE r), b)
  <1> DEFINE full == Advance(r.save_index) = r.read_index
             q == IF full THEN ReadChar(r) ELSE r
             w == SaveChar(r, b)
             n == RxLength(q)
             u == Append(RingContents(q), b)
  <1>1. /\ r.rx_buffer \in [Slots -> Byte]
        /\ r.save_index \in Slots /\ r.read_index \in Slots
    BY DEF RxRingType
  <1>2. q \in RxRingType /\ w \in RxRingType
    BY ReadCharKeeps, SaveCharKeeps
  <1>3. /\ q.rx_buffer = r.rx_buffer
        /\ q.save_index = r.save_index
        /\ q.read_index = IF full THEN Advance(r.read_index) ELSE r.read_index
    BY <1>1 DEF ReadChar, RxRingType
  <1>4. /\ w.rx_buffer = [r.rx_buffer EXCEPT ![r.save_index] = b]
        /\ w.save_index = Advance(r.save_index)
        /\ w.read_index = q.read_index
    BY <1>3 DEF SaveChar
  <1>5. q.read_index \in Slots /\ Advance(r.save_index) # q.read_index
    BY <1>1, <1>3 DEF Advance, Slots
  <1> HIDE DEF q, w
  <1>6. n \in Nat /\ RxLength(w) = n + 1
    <2> DEFINE save == r.save_index
               read == q.read_index
               next == Advance(save)
    <2>1. save \in Slots /\ read \in Slots /\ next # read
      BY <1>1, <1>5
    <2>2. next = IF save + 1 = UART_INT_RX_BUFFER_SIZE THEN 0 ELSE save + 1
      BY <2>1 DEF Advance, Slots
    <2>3. n = IF read > save THEN UART_INT_RX_BUFFER_SIZE - read + save ELSE save - read
      BY <1>3 DEF RxLength
    <2>4. RxLength(w) = IF read > next THEN UART_INT_RX_BUFFER_SIZE - read + next ELSE next - read
      BY <1>4 DEF RxLength
    <2> HIDE DEF n, save, read, next
    <2>5. QED  BY <2>1, <2>2, <2>3, <2>4 DEF Slots
  <1>7. SlotAfter(q.read_index, n) = r.save_index
    BY <1>1, <1>3, <1>5 DEF RxLength, SlotAfter, Slots
  <1>8. \A k \in 1 .. n : SlotAfter(q.read_index, k - 1) # r.save_index
    BY <1>1, <1>3, <1>5 DEF RxLength, SlotAfter, Slots
  <1>9. /\ RingContents(q) \in Seq(Byte) /\ Len(RingContents(q)) = n
        /\ \A k \in 1 .. n : /\ SlotAfter(q.read_index, k - 1) \in Slots
                             /\ RingContents(q)[k] = q.rx_buffer[SlotAfter(q.read_index, k - 1)]
    BY <1>2, RingContentsType
  <1>10. /\ RingContents(w) \in Seq(Byte) /\ Len(RingContents(w)) = n + 1
        /\ \A k \in 1 .. n + 1 : RingContents(w)[k] = w.rx_buffer[SlotAfter(w.read_index, k - 1)]
    BY <1>2, <1>6, RingContentsType
  <1> HIDE DEF n
  <1>11. /\ u \in Seq(Byte) /\ Len(u) = n + 1
         /\ \A k \in 1 .. n : u[k] = RingContents(q)[k]
         /\ u[n + 1] = b
    BY <1>9, AppendProperties
  <1>12. ASSUME NEW k \in 1 .. n + 1 PROVE RingContents(w)[k] = u[k]
    <2>1. CASE k = n + 1
      <3>1. RingContents(w)[k] = w.rx_buffer[r.save_index]
        <4>1. (n + 1) - 1 = n
          BY <1>6
        <4>2. QED  BY <1>4, <1>7, <1>10, <2>1, <4>1
      <3>2. QED  BY <1>1, <1>4, <1>11, <2>1, <3>1
    <2>2. CASE k # n + 1
      <3>1. k \in 1 .. n
        BY <1>6, <2>2
      <3>2. w.rx_buffer[SlotAfter(q.read_index, k - 1)] = q.rx_buffer[SlotAfter(q.read_index, k - 1)]
        BY <1>1, <1>3, <1>4, <1>8, <1>9, <3>1
      <3>3. QED  BY <1>4, <1>9, <1>10, <1>11, <3>1, <3>2
    <2>3. QED  BY <2>1, <2>2
  <1> HIDE DEF u
  <1>13. RingContents(w) = u
    BY <1>6, <1>10, <1>11, <1>12, SeqEqual
  <1>14. QED  BY <1>13 DEF u, w, q

(* A step of k places round the end of the queue's array. *)
LEMMA ModAfter ==
  ASSUME NEW i \in Positions, NEW k \in Positions
  PROVE  (i + k) % QUEUE_SIZE = IF i + k >= QUEUE_SIZE THEN i + k - QUEUE_SIZE ELSE i + k
  <1>1. CASE i + k >= QUEUE_SIZE
    <2>1. i + k = QUEUE_SIZE + (i + k - QUEUE_SIZE) /\ i + k - QUEUE_SIZE \in 0 .. QUEUE_SIZE - 1
      BY <1>1 DEF Positions
    <2>2. QED  BY <1>1, <2>1 DEF Positions
  <1>2. CASE i + k < QUEUE_SIZE
    BY <1>2 DEF Positions
  <1>3. QED  BY <1>1, <1>2 DEF Positions

(* The bytes in the queue, one by one. *)
LEMMA QueueContentsType ==
  ASSUME NEW q \in QueueType
  PROVE  /\ QueueContents(q) \in Seq(Byte)
         /\ Len(QueueContents(q)) = QueueLength(q)
         /\ \A k \in 1 .. QueueLength(q) :
              /\ (q.head + k - 1) % QUEUE_SIZE \in Positions
              /\ QueueContents(q)[k] = q.val[(q.head + k - 1) % QUEUE_SIZE]
  <1> DEFINE n == QueueLength(q)
             e(k) == q.val[(q.head + k - 1) % QUEUE_SIZE]
  <1>1. /\ q.val \in [0 .. QUEUE_SIZE -> Byte]
        /\ q.head \in Positions /\ q.tail \in Positions
    BY DEF QueueType
  <1>2. n \in Nat
    BY QueueLengthRange
  <1>3. QueueContents(q) = [k \in 1 .. n |-> e(k)]
    BY DEF QueueContents
  <1> HIDE DEF n
  <1>4. \A k \in 1 .. n : (q.head + k - 1) % QUEUE_SIZE \in Positions
    BY <1>1, <1>2 DEF Positions
  <1>5. \A k \in 1 .. n : e(k) \in Byte
    BY <1>1, <1>4 DEF Positions
  <1> HIDE DEF e
  <1>6. QueueContents(q) \in Seq(Byte) /\ Len(QueueContents(q)) = n
    BY <1>2, <1>3, <1>5
  <1>7. \A k \in 1 .. n : QueueContents(q)[k] = e(k)
    BY <1>3
  <1>8. QED  BY <1>4, <1>6, <1>7 DEF e, n

(* The place of the byte k places behind the head. *)
LEMMA PlaceInQueue ==
  ASSUME NEW q \in QueueType, NEW k \in 1 .. QueueLength(q) + 1
  PROVE  (q.head + k - 1) % QUEUE_SIZE =
            IF q.head + k - 1 >= QUEUE_SIZE THEN q.head + k - 1 - QUEUE_SIZE
            ELSE q.head + k - 1
  <1>1. q.head \in Positions /\ k - 1 \in Positions
    BY QueueLengthRange DEF QueueType, Positions
  <1>2. q.head + k - 1 = q.head + (k - 1)
    BY <1>1 DEF Positions
  <1>3. QED  BY <1>1, <1>2, ModAfter

(* A full queue holds all it can. *)
LEMMA FullLength ==
  ASSUME NEW q \in QueueType, IsQueueFull(q)
  PROVE  QueueLength(q) = QUEUE_SIZE - 1
  <1>1. q.head \in Positions /\ q.tail \in Positions
    BY DEF QueueType
  <1>2. q.head = IF q.tail + 1 = QUEUE_SIZE THEN 0 ELSE q.tail + 1
    BY <1>1, ModStep DEF Positions, IsQueueFull
  <1>3. QED  BY <1>1, <1>2 DEF Positions, QueueLength

(* A byte queued comes after those that wait. *)
LEMMA EnQueueContents ==
  ASSUME NEW q \in QueueType, NEW b \in Byte, ~IsQueueFull(q)
  PROVE  QueueContents(EnQueue(q, b)) = Append(QueueContents(q), b)
  <1> DEFINE n == QueueLength(q)
             w == EnQueue(q, b)
             u == Append(QueueContents(q), b)
             at(k) == (q.head + k - 1) % QUEUE_SIZE
  <1>1. /\ q.val \in [0 .. QUEUE_SIZE -> Byte]
        /\ q.head \in Positions /\ q.tail \in Positions
    BY DEF QueueType
  <1>2. w \in QueueType /\ QueueLength(w) = n + 1
    BY EnQueueKeeps
  <1>3. w.val = [q.val EXCEPT ![q.tail] = b] /\ w.head = q.head
    BY DEF EnQueue
  <1>4. n \in Nat /\ n =< QUEUE_SIZE - 1
    BY QueueLengthRange
  <1>5. at(n + 1) = q.tail
    <2>1. at(n + 1) = IF q.head + (n + 1) - 1 >= QUEUE_SIZE
                      THEN q.head + (n + 1) - 1 - QUEUE_SIZE ELSE q.head + (n + 1) - 1
      BY <1>4, PlaceInQueue
    <2>2. QED  BY <1>1, <2>1 DEF QueueLength, Positions
  <1>6. ASSUME NEW k \in 1 .. n PROVE at(k) # q.tail
    <2>1. at(k) = IF q.head + k - 1 >= QUEUE_SIZE
                  THEN q.head + k - 1 - QUEUE_SIZE ELSE q.head + k - 1
      BY <1>4, PlaceInQueue
    <2>2. QED  BY <1>1, <2>1 DEF QueueLength, Positions
  <1>7. /\ QueueContents(q) \in Seq(Byte) /\ Len(QueueContents(q)) = n
        /\ \A k \in 1 .. n : at(k) \in Positions /\ QueueContents(q)[k] = q.val[at(k)]
    BY QueueContentsType
  <1>8. /\ QueueContents(w) \in Seq(Byte) /\ Len(QueueContents(w)) = n + 1
        /\ \A k \in 1 .. n + 1 : QueueContents(w)[k] = w.val[at(k)]
    <2>1. /\ QueueContents(w) \in Seq(Byte) /\ Len(QueueContents(w)) = QueueLength(w)
          /\ \A k \in 1 .. QueueLength(w) :
                QueueContents(w)[k] = w.val[(w.head + k - 1) % QUEUE_SIZE]
      BY <1>2, QueueContentsType
    <2>2. QED  BY <1>2, <1>3, <2>1
  <1> HIDE DEF n, w, at
  <1>9. /\ u \in Seq(Byte) /\ Len(u) = n + 1
        /\ \A k \in 1 .. n : u[k] = QueueContents(q)[k]
        /\ u[n + 1] = b
    BY <1>7, AppendProperties
  <1> HIDE DEF u
  <1>10. ASSUME NEW k \in 1 .. n + 1 PROVE QueueContents(w)[k] = u[k]
    <2>1. CASE k = n + 1
      <3>1. QueueContents(w)[k] = w.val[q.tail]
        BY <1>5, <1>8, <2>1
      <3>2. w.val[q.tail] = b
        BY <1>1, <1>3 DEF Positions
      <3>3. QED  BY <1>9, <2>1, <3>1, <3>2
    <2>2. CASE k # n + 1
      <3>1. k \in 1 .. n
        BY <1>4, <2>2
      <3>2. w.val[at(k)] = q.val[at(k)]
        BY <1>1, <1>3, <1>6, <1>7, <3>1 DEF Positions
      <3>3. QED  BY <1>7, <1>8, <1>9, <3>1, <3>2
    <2>3. QED  BY <2>1, <2>2
  <1>11. QueueContents(w) = u
    BY <1>4, <1>8, <1>9, <1>10, SeqEqual
  <1>12. QED  BY <1>11 DEF u, w

(* A byte taken out of the queue is the oldest of those that wait. *)
LEMMA DeQueueContents ==
  ASSUME NEW q \in QueueType, ~IsQueueEmpty(q)
  PROVE  QueueContents(q) = <<QueueHead(q)>> \o QueueContents(DeQueue(q))
  <1> DEFINE w == DeQueue(q)
             n == QueueLength(w)
             c == QueueHead(q)
             u == <<c>> \o QueueContents(w)
             at(k) == (q.head + k - 1) % QUEUE_SIZE
             atw(k) == (w.head + k - 1) % QUEUE_SIZE
  <1>1. /\ q.val \in [0 .. QUEUE_SIZE -> Byte]
        /\ q.head \in Positions /\ q.tail \in Positions /\ q.head # q.tail
    BY DEF QueueType, IsQueueEmpty
  <1>2. w \in QueueType /\ c \in Byte /\ n = QueueLength(q) - 1
    BY DeQueueKeeps
  <1>3. /\ w.val = q.val /\ w.tail = q.tail
        /\ w.head = IF q.head + 1 = QUEUE_SIZE THEN 0 ELSE q.head + 1
    BY <1>1, ModStep DEF DeQueue, Positions
  <1>4. /\ n \in Nat /\ n =< QUEUE_SIZE - 1 /\ QueueLength(q) \in Nat
        /\ QueueLength(q) = n + 1
    BY <1>2, QueueLengthRange
  <1>5. at(1) = q.head
    <2>1. at(1) = IF q.head + 1 - 1 >= QUEUE_SIZE
                  THEN q.head + 1 - 1 - QUEUE_SIZE ELSE q.head + 1 - 1
      BY <1>4, PlaceInQueue
    <2>2. QED  BY <1>1, <2>1 DEF Positions
  <1>6. ASSUME NEW k \in 1 .. n PROVE at(k + 1) = atw(k)
    <2>1. at(k + 1) = IF q.head + (k + 1) - 1 >= QUEUE_SIZE
                      THEN q.head + (k + 1) - 1 - QUEUE_SIZE ELSE q.head + (k + 1) - 1
      <3>1. k + 1 \in 1 .. QueueLength(q) + 1
        BY <1>4
      <3> HIDE DEF n, w
      <3>2. QED  BY <3>1, PlaceInQueue
    <2>2. atw(k) = IF w.head + k - 1 >= QUEUE_SIZE
                   THEN w.head + k - 1 - QUEUE_SIZE ELSE w.head + k - 1
      BY <1>2, <1>4, PlaceInQueue
    <2> HIDE DEF w, at, atw, n
    <2>3. QED  BY <1>1, <1>3, <1>4, <2>1, <2>2 DEF Positions
  <1>7. /\ QueueContents(w) \in Seq(Byte) /\ Len(QueueContents(w)) = n
        /\ \A k \in 1 .. n : QueueContents(w)[k] = w.val[atw(k)]
    BY <1>2, QueueContentsType
  <1>8. /\ QueueContents(q) \in Seq(Byte) /\ Len(QueueContents(q)) = n + 1
        /\ \A k \in 1 .. n + 1 : QueueContents(q)[k] = q.val[at(k)]
    BY <1>4, QueueContentsType
  <1> HIDE DEF n, w, at, atw
  <1>9. /\ u \in Seq(Byte) /\ Len(u) = 1 + n
        /\ \A k \in 1 .. 1 + n : u[k] = IF k =< 1 THEN <<c>>[k] ELSE QueueContents(w)[k - 1]
    <2>1. <<c>> \in Seq(Byte) /\ Len(<<c>>) = 1
      BY <1>2
    <2>2. QED  BY <1>7, <2>1, ConcatProperties
  <1>10. ASSUME NEW k \in 1 .. n + 1 PROVE QueueContents(q)[k] = u[k]
    <2>1. CASE k = 1
      <3>1. QueueContents(q)[k] = c
        BY <1>4, <1>5, <1>8, <2>1 DEF QueueHead
      <3>2. u[k] = c
        BY <1>4, <1>9, <2>1
      <3>3. QED  BY <3>1, <3>2
    <2>2. CASE k # 1
      <3>1. k - 1 \in 1 .. n /\ ~(k =< 1) /\ k \in 1 .. 1 + n /\ (k - 1) + 1 = k
        BY <1>4, <2>2
      <3>2. u[k] = w.val[atw(k - 1)]
        BY <1>7, <1>9, <3>1
      <3>3. at(k) = atw(k - 1)
        BY <1>6, <3>1
      <3>4. QED  BY <1>3, <1>8, <3>2, <3>3
    <2>3. QED  BY <2>1, <2>2
  <1> HIDE DEF u
  <1>11. QueueContents(q) = u
    BY <1>4, <1>8, <1>9, <1>10, SeqEqual
  <1>12. QED  BY <1>11 DEF u, w, c

-----------------------------------------------------------------------------

(* What the line is made of, in every state of the invariant. *)
LEMMA PartsOfLine ==
  ASSUME TypeOK
  PROVE  /\ QueueContents(queue) \in Seq(Byte)
         /\ InHand \in Seq(Byte)
         /\ RingContents(ring) \in Seq(Byte)
         /\ Len(RingContents(ring)) = RxLength(ring)
         /\ Len(QueueContents(queue)) = QueueLength(queue)
  <1>1. queue \in QueueType /\ ring \in RxRingType /\ ch \in Byte
    BY DEF TypeOK
  <1>2. InHand \in Seq(Byte)
    BY <1>1 DEF InHand
  <1>3. QED  BY <1>1, <1>2, QueueContentsType, RingContentsType

(* The line is empty at the start. *)
LEMMA InitImplements == Init => Fifo!LInit
  <1> SUFFICES ASSUME Init PROVE Fifo!LInit
    OBVIOUS
  <1>1. TypeOK
    BY InitIInv DEF IInv
  <1>2. QueueLength(queue) = 0 /\ RxLength(ring) = 0
    BY DEF Init, InitQueue, EmptyRing, QueueLength, RxLength
  <1>3. QueueContents(queue) = <<>> /\ RingContents(ring) = <<>> /\ InHand = <<>>
    <2>1. QueueContents(queue) = <<>> /\ RingContents(ring) = <<>>
      BY <1>1, <1>2, PartsOfLine, EmptySeq
    <2>2. QED  BY <2>1 DEF Init, InHand
  <1>4. QueueContents(queue) \o InHand \o RingContents(ring) = <<>>
    BY <1>3, ConcatEmptySeq, EmptySeq
  <1>5. flag = NORMAL_MODE /\ got \in Byte
    BY <1>1 DEF Init, TypeOK
  <1>6. QED  BY <1>4, <1>5 DEF Fifo!LInit

(* The interrupt handler makes a byte arrive. *)
LEMMA IsrImplements == IInv /\ Isr => [Fifo!LNext]_(Fifo!lvars)
  <1> SUFFICES ASSUME IInv, Isr PROVE [Fifo!LNext]_(Fifo!lvars)
    OBVIOUS
  <1> DEFINE line == QueueContents(queue) \o InHand \o RingContents(ring)
             left == QueueContents(queue) \o InHand
  <1>1. TypeOK
    BY DEF IInv
  <1>2. /\ left \in Seq(Byte) /\ RingContents(ring) \in Seq(Byte)
        /\ Len(RingContents(ring)) = RxLength(ring)
    BY <1>1, PartsOfLine, ConcatProperties
  <1>3. CASE IsrSave
    <2>1. PICK b \in Byte : ring' = SaveChar(ring, b)
      BY <1>3 DEF IsrSave
    <2>2. left' = left /\ flag' = flag /\ got' = got
      BY <1>3 DEF IsrSave, queueVars, ctlVars, upgVars, modeVars, InHand
    <2> DEFINE r == IF Advance(ring.save_index) = ring.read_index THEN ReadChar(ring) ELSE ring
    <2>3. r \in RxRingType /\ RingContents(r) \in Seq(Byte)
      BY <1>1, ReadCharKeeps, RingContentsType DEF TypeOK
    <2>4. RingContents(ring') = Append(RingContents(r), b)
      BY <1>1, <2>1, SaveCharContents DEF TypeOK
    <2>5. line' = Append(left \o RingContents(r), b)
      <3>1. line' = left' \o RingContents(ring')
        OBVIOUS
      <3> HIDE DEF r, line, left
      <3>2. RingContents(ring') = RingContents(r) \o <<b>> /\ <<b>> \in Seq(Byte)
        BY <2>3, <2>4, AppendIsConcat
      <3>3. left \o (RingContents(r) \o <<b>>) = (left \o RingContents(r)) \o <<b>>
        BY <1>2, <2>3, <3>2, ConcatAssociative
      <3>4. Append(left \o RingContents(r), b) = (left \o RingContents(r)) \o <<b>>
        BY <1>2, <2>3, ConcatProperties, AppendIsConcat
      <3>5. QED  BY <2>2, <3>1, <3>2, <3>3, <3>4
    <2>6. CASE Advance(ring.save_index) = ring.read_index
      <3>1. r = ReadChar(ring) /\ HasChar(ring)
        BY <1>1, <2>6 DEF TypeOK, RxRingType, HasChar, Advance, Slots
      <3>2. NextChar(ring) \in Byte
        BY <1>1, ReadCharKeeps DEF TypeOK
      <3>3. RingContents(ring) = <<NextChar(ring)>> \o RingContents(r)
        BY <1>1, <3>1, ReadCharContents DEF TypeOK
      <3>4. Len(RingContents(ring)) = UART_INT_RX_BUFFER_SIZE - 1
        BY <1>1, <1>2, <2>6 DEF TypeOK, RxRingType, RxLength, Advance, Slots
      <3> HIDE DEF r, left
      <3>5. line = left \o <<NextChar(ring)>> \o RingContents(r)
        <4> DEFINE s == <<NextChar(ring)>>
                   t == RingContents(r)
        <4>1. s \in Seq(Byte) /\ t \in Seq(Byte)
          BY <2>3, <3>2
        <4>2. line = left \o (s \o t)
          BY <3>3 DEF left
        <4> HIDE DEF s, t, line
        <4>3. left \o (s \o t) = (left \o s) \o t
          BY <1>2, <4>1, ConcatAssociative
        <4>4. QED  BY <4>2, <4>3 DEF s, t
      <3>6. /\ Len(line) = Len(left) + Len(RingContents(r)) + 1
            /\ Fifo!RemoveAt(line, Len(left) + 1) = left \o RingContents(r)
        <4> HIDE DEF line
        <4> DEFINE t == RingContents(r)
                   e == NextChar(ring)
        <4>1. left \in Seq(Byte) /\ t \in Seq(Byte) /\ e \in Byte /\ line = left \o <<e>> \o t
          BY <1>2, <2>3, <3>2, <3>5
        <4> HIDE DEF t, e
        <4>2. /\ Len(line) = Len(left) + Len(t) + 1
              /\ Fifo!RemoveAt(line, Len(left) + 1) = left \o t
          BY <4>1, RemoveBetween, Zenon
        <4>3. QED  BY <4>2 DEF t
      <3>7. Len(line) = Len(left) + Len(RingContents(ring))
        BY <1>2, ConcatProperties DEF left
      <3>8. /\ Len(line) >= UART_INT_RX_BUFFER_SIZE - 1
            /\ Len(line) - (UART_INT_RX_BUFFER_SIZE - 1) + 1 = Len(left) + 1
        <4>1. Len(left) \in Nat
          BY <1>2, LenProperties
        <4>2. QED  BY <3>4, <3>7, <4>1
      <3>9. line' = Append(Fifo!RemoveAt(line, Len(line) - (UART_INT_RX_BUFFER_SIZE - 1) + 1), b)
        BY <2>5, <3>6, <3>8
      <3>10. Fifo!ArriveFull(b)
        BY <2>2, <3>8, <3>9 DEF Fifo!ArriveFull
      <3>11. QED  BY <3>10 DEF Fifo!LNext
    <2>7. CASE Advance(ring.save_index) # ring.read_index
      <3>1. line' = Append(line, b)
        BY <2>5, <2>7
      <3>2. Fifo!Arrive(b)
        BY <2>2, <3>1 DEF Fifo!Arrive
      <3>3. QED  BY <3>2 DEF Fifo!LNext
    <2>8. QED  BY <2>6, <2>7
  <1>4. CASE IsrReturn
    <2>1. UNCHANGED <<queue, ring, ch, flag, got>>
      BY <1>4 DEF IsrReturn, queueVars, upgVars, modeVars
    <2>2. InHand' = InHand
      BY <1>4, <2>1 DEF IsrReturn, ReleaseRx, InHand
    <2>3. QED  BY <2>1, <2>2 DEF Fifo!lvars
  <1>5. QED  BY <1>3, <1>4 DEF Isr

(* The control thread moves a byte along the line, takes one out as part   *)
(* of a command, or finds the queue full.                                  *)
LEMMA CtlImplements == IInv /\ Ctl => [Fifo!LNext]_(Fifo!lvars)
  <1> SUFFICES ASSUME IInv, Ctl PROVE [Fifo!LNext]_(Fifo!lvars)
    OBVIOUS
  <1> DEFINE Q == QueueContents(queue)
             R == RingContents(ring)
             line == Q \o InHand \o R
  <1> USE DEF isrVars, rxVars, queueVars, upgVars, modeVars, CtlGoto
  <1>1. TypeOK /\ ch \in Byte
    BY DEF IInv, TypeOK
  <1>2. /\ Q \in Seq(Byte) /\ R \in Seq(Byte)
        /\ Len(Q) = QueueLength(queue) /\ Len(Q) \in Nat
    BY <1>1, PartsOfLine, LenProperties
  <1>3. <<ch>> \in Seq(Byte)
    BY <1>1
  <1>4. /\ Q \o <<ch>> \o R \in Seq(Byte)
        /\ Len(Q \o <<ch>> \o R) = Len(Q) + Len(R) + 1
        /\ (Q \o <<ch>> \o R)[Len(Q) + 1] = ch
        /\ Fifo!RemoveAt(Q \o <<ch>> \o R, Len(Q) + 1) = Q \o R
    <2> HIDE DEF Q, R
    <2>1. Q \in Seq(Byte) /\ R \in Seq(Byte) /\ ch \in Byte
      BY <1>1, <1>2
    <2>2. QED  BY <2>1, RemoveBetween, Zenon
  <1>5. Q \o <<>> \o R = Q \o R
    <2> HIDE DEF Q, R
    <2>1. QED  BY <1>2, ConcatEmptySeq
  <1>6. CASE CtlRead
    <2>1. UNCHANGED <<queue, flag, got>>
      BY <1>6 DEF CtlRead
    <2>2. InHand = <<>> /\ InHand' = <<NextChar(ring)>>
      BY <1>6 DEF CtlRead, InHand
    <2>3. R = <<NextChar(ring)>> \o R'
      BY <1>1, <1>6, ReadCharContents DEF CtlRead, TypeOK
    <2>4. R' \in Seq(Byte) /\ <<NextChar(ring)>> \in Seq(Byte)
      <3>1. ring' \in RxRingType /\ NextChar(ring) \in Byte
        BY <1>1, <1>6, ReadCharKeeps DEF CtlRead, TypeOK
      <3>2. QED  BY <3>1, RingContentsType
    <2>5. line' = Q \o <<NextChar(ring)>> \o R'
      BY <2>1, <2>2
    <2>6. line = Q \o R
      BY <1>5, <2>2
    <2> HIDE DEF Q, R, line
    <2>7. line' = line
      BY <1>2, <2>3, <2>4, <2>5, <2>6, ConcatAssociative
    <2>8. QED  BY <2>1, <2>7 DEF Fifo!lvars, line, Q, R
  <1>7. CASE CtlEnQueue
    <2>1. UNCHANGED <<ring, ch, flag, got>>
      BY <1>7 DEF CtlEnQueue
    <2>2. InHand = <<ch>> /\ InHand' = <<>>
      BY <1>7 DEF CtlEnQueue, InHand
    <2>3. Q' = Append(Q, ch)
      BY <1>1, <1>7, EnQueueContents DEF CtlEnQueue, TypeOK
    <2>4. line = Q \o <<ch>> \o R /\ line' = Q' \o <<>> \o R
      BY <2>1, <2>2
    <2> HIDE DEF Q, R, line
    <2>5. Q' = Q \o <<ch>>
      BY <1>1, <1>2, <2>3, AppendIsConcat
    <2>6. Q' \in Seq(Byte)
      BY <1>2, <1>3, <2>5, ConcatProperties
    <2>7. line' = line
      BY <2>4, <2>5, <2>6, ConcatEmptySeq
    <2>8. QED  BY <2>1, <2>7 DEF Fifo!lvars, line, Q, R
  <1>8. CASE CtlQueueFull
    <2>1. UNCHANGED <<queue, ring, ch, flag, got>>
      BY <1>8 DEF CtlQueueFull
    <2>2. InHand = <<ch>> /\ InHand' = <<>>
      BY <1>8 DEF CtlQueueFull, InHand
    <2>3. line = Q \o <<ch>> \o R /\ line' = Q \o <<>> \o R
      BY <2>1, <2>2
    <2>4. Len(Q) = QUEUE_SIZE - 1
      BY <1>1, <1>2, <1>8, FullLength DEF CtlQueueFull, TypeOK
    <2> HIDE DEF Q, R, line
    <2>5. Len(line) > QUEUE_SIZE - 1
      BY <1>2, <1>4, <2>3, <2>4, LenProperties
    <2>6. line' = Fifo!RemoveAt(line, (QUEUE_SIZE - 1) + 1)
      BY <1>4, <1>5, <2>3, <2>4
    <2>7. Fifo!Refuse
      BY <2>1, <2>5, <2>6 DEF Fifo!Refuse, line, Q, R
    <2>8. QED  BY <2>7 DEF Fifo!LNext
  <1>9. CASE CtlParse
    <2>1. UNCHANGED <<queue, ring, ch, got>>
      BY <1>9 DEF CtlParse
    <2>2. InHand = <<ch>> /\ InHand' = <<>>
      BY <1>9 DEF CtlParse, InHand
    <2>3. line = Q \o <<ch>> \o R /\ line' = Q \o <<>> \o R
      BY <2>1, <2>2
    <2>4. flag = NORMAL_MODE
      BY <1>9 DEF CtlParse, IInv, TransferOwnsMode
    <2>5. flag' = IF ch \in DevType THEN UPGRADE_MODE ELSE NORMAL_MODE
      BY <1>9, <2>4 DEF CtlParse, DevType
    <2> HIDE DEF Q, R, line
    <2>6. Len(Q) + 1 \in 1 .. Len(line) /\ line[Len(Q) + 1] = ch
      BY <1>2, <1>4, <2>3, LenProperties
    <2>7. line' = Fifo!RemoveAt(line, Len(Q) + 1)
      BY <1>4, <1>5, <2>3
    <2>8. /\ flag = NORMAL_MODE
          /\ \E i \in 1 .. Len(line) :
               /\ line' = Fifo!RemoveAt(line, i)
               /\ flag' = IF line[i] \in DevType THEN UPGRADE_MODE ELSE NORMAL_MODE
          /\ got' = got
      <3> DEFINE i == Len(Q) + 1
      <3>1. i \in 1 .. Len(line) /\ line[i] = ch /\ line' = Fifo!RemoveAt(line, i)
        BY <2>6, <2>7
      <3>2. flag' = IF line[i] \in DevType THEN UPGRADE_MODE ELSE NORMAL_MODE
        BY <2>5, <3>1
      <3> HIDE DEF i
      <3>3. \E j \in 1 .. Len(line) :
               /\ line' = Fifo!RemoveAt(line, j)
               /\ flag' = IF line[j] \in DevType THEN UPGRADE_MODE ELSE NORMAL_MODE
        BY <3>1, <3>2, Zenon
      <3>4. QED  BY <2>1, <2>4, <3>3
    <2>9. Fifo!Consume
      BY <2>8 DEF Fifo!Consume, line, Q, R
    <2>10. QED  BY <2>9 DEF Fifo!LNext
  <1>10. CASE CtlTake \/ CtlSuspend \/ CtlTimeout \/ CtlNothingToRead
              \/ CtlRelease \/ CtlSetType \/ CtlDelay \/ CtlTest
    <2>1. UNCHANGED <<queue, ring, ch, flag, got>>
      BY <1>10 DEF CtlTake, CtlSuspend, CtlTimeout, CtlNothingToRead,
                   CtlRelease, CtlSetType, CtlDelay, CtlTest
    <2>2. InHand' = InHand
      BY <1>10, <2>1 DEF CtlTake, CtlSuspend, CtlTimeout, CtlNothingToRead,
                   CtlRelease, CtlSetType, CtlDelay, CtlTest, InHand
    <2>3. QED  BY <2>1, <2>2 DEF Fifo!lvars
  <1>11. QED
    BY <1>6, <1>7, <1>8, <1>9, <1>10 DEF Ctl

(* The upgrade thread hands over the oldest byte, or ends the transfer.    *)
LEMMA UpgImplements == IInv /\ Upg => [Fifo!LNext]_(Fifo!lvars)
  <1> SUFFICES ASSUME IInv, Upg PROVE [Fifo!LNext]_(Fifo!lvars)
    OBVIOUS
  <1> DEFINE Q == QueueContents(queue)
             R == RingContents(ring)
             line == Q \o InHand \o R
  <1> USE DEF isrVars, rxVars, ctlVars, queueVars, modeVars, UpgGoto
  <1>1. TypeOK
    BY DEF IInv
  <1>2. CASE UpgDeQueue
    <2>1. UNCHANGED <<ring, ch, ctl, flag>>
      BY <1>2 DEF UpgDeQueue
    <2>2. InHand' = InHand /\ InHand \in Seq(Byte) /\ R \in Seq(Byte)
      BY <1>1, <2>1, PartsOfLine DEF InHand
    <2>3. ~IsQueueEmpty(queue)
      BY <1>2, QueueLengthRange DEF IInv, TypeOK, TokensMatchBytes, UpgDeQueue
    <2>4. queue' = DeQueue(queue) /\ got' = QueueHead(queue)
      BY <1>2, <2>3 DEF UpgDeQueue
    <2>5. got' \in Byte /\ Q' \in Seq(Byte)
      <3>1. got' \in Byte /\ queue' \in QueueType
        BY <1>1, <2>3, <2>4, DeQueueKeeps DEF TypeOK
      <3>2. QED  BY <3>1, QueueContentsType
    <2>6. Q = <<got'>> \o Q'
      BY <1>1, <2>3, <2>4, DeQueueContents DEF TypeOK
    <2>7. line' = Q' \o InHand \o R
      BY <2>1, <2>2
    <2> DEFINE rest == Q' \o InHand \o R
               e == got'
    <2>8. line = <<e>> \o rest
      <3>1. <<e>> \in Seq(Byte) /\ Q' \o InHand \in Seq(Byte)
        BY <2>2, <2>5, ConcatProperties
      <3>2. line = (<<e>> \o Q') \o InHand \o R
        BY <2>6
      <3> DEFINE s == Q'
      <3>3. s \in Seq(Byte) /\ s \o InHand \in Seq(Byte)
        BY <2>5, <3>1
      <3>4. line = (<<e>> \o s) \o InHand \o R /\ rest = s \o InHand \o R
        BY <3>2
      <3> HIDE DEF e, R, s, line, rest
      <3>5. (<<e>> \o s) \o InHand = <<e>> \o (s \o InHand)
        BY <2>2, <3>1, <3>3, ConcatAssociative
      <3>6. (<<e>> \o (s \o InHand)) \o R = <<e>> \o ((s \o InHand) \o R)
        BY <2>2, <3>1, <3>3, ConcatAssociative
      <3>7. QED  BY <3>4, <3>5, <3>6
    <2>9. rest \in Seq(Byte)
      <3> DEFINE s == Q'
      <3>1. s \in Seq(Byte)
        BY <2>5
      <3> HIDE DEF s, R
      <3>2. s \o InHand \o R \in Seq(Byte)
        BY <2>2, <3>1, ConcatProperties
      <3>3. QED  BY <3>2 DEF s, R
    <2>10. line # <<>> /\ Head(line) = e /\ Tail(line) = rest
      <3>1. e \in Byte
        BY <2>5
      <3> HIDE DEF e, rest, line
      <3>2. QED  BY <2>8, <2>9, <3>1, HeadTailOfConcat
    <2>11. flag = UPGRADE_MODE
      BY <1>2 DEF IInv, TransferOwnsMode, UpgDeQueue
    <2>12. Fifo!Deliver
      BY <2>1, <2>7, <2>10, <2>11 DEF Fifo!Deliver
    <2>13. QED  BY <2>12 DEF Fifo!LNext
  <1>3. CASE UpgFinish
    <2>1. UNCHANGED <<queue, ring, ch, ctl, got>> /\ flag' = NORMAL_MODE
      BY <1>3 DEF UpgFinish
    <2>2. flag = UPGRADE_MODE
      BY <1>3 DEF IInv, TransferOwnsMode, UpgFinish
    <2>3. line' = line
      BY <2>1 DEF InHand
    <2>4. Fifo!Finish
      BY <2>1, <2>2, <2>3 DEF Fifo!Finish
    <2>5. QED  BY <2>4 DEF Fifo!LNext
  <1>4. CASE UpgStart \/ UpgTake \/ UpgSuspend \/ UpgTimeout \/ UpgContinue \/ UpgKeep
    <2>1. UNCHANGED <<queue, ring, ch, ctl, got, flag>>
      BY <1>4 DEF UpgStart, UpgTake, UpgSuspend, UpgTimeout, UpgContinue, UpgKeep
    <2>2. QED  BY <2>1 DEF Fifo!lvars, InHand
  <1>5. QED  BY <1>2, <1>3, <1>4 DEF Upg

(* From interrupt to receiver the path is a lossy FIFO: bytes come out in  *)
(* the order they came in, each once, and one is lost only to a full ring  *)
(* or a full queue, whatever their sizes are.                              *)
THEOREM ImplementsLossyFifo == Spec => LossyFifoSpec
  <1>1. IInv /\ [Next]_vars => [Fifo!LNext]_(Fifo!lvars)
    <2>1. IInv /\ Next => [Fifo!LNext]_(Fifo!lvars)
      BY IsrImplements, CtlImplements, UpgImplements DEF Next
    <2>2. UNCHANGED vars => UNCHANGED Fifo!lvars
      BY DEF vars, Fifo!lvars, InHand
    <2>3. QED  BY <2>1, <2>2
  <1>2. QED
    BY <1>1, InitImplements, AlwaysIInv, PTL DEF Spec, LossyFifoSpec, Fifo!LSpec
=============================================================================
