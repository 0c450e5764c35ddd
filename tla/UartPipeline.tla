---------------------------- MODULE UartPipeline ----------------------------
(***************************************************************************)
(* The path of a byte from the control UART to the firmware receiver:      *)
(*                                                                         *)
(*   UART interrupt --ring, sem_rx--> control thread                       *)
(*                       --uart_queue, sem_queue--> upgrade thread         *)
(*                                                                         *)
(* (Drive/serial.c, App/uart_protocol.c, App/queue.c, App/upgrade.c).      *)
(* There is one processor: the interrupt handler runs between any two      *)
(* steps of the threads and they do not run inside it; the two threads     *)
(* have one priority and a time slice, so either may be preempted wherever *)
(* interrupts and the scheduler are not locked.  A step of a thread is     *)
(* therefore one access to what it shares with the others.                 *)
(*                                                                         *)
(* The frame parser and the Ymodem receiver are abstracted to what they do *)
(* to this path: see CtlParse, UpgContinue, UpgKeep and UpgFinish.         *)
(***************************************************************************)
EXTENDS RxRing, ByteQueue

CONSTANTS
  SEM_MOD,       \* rt_semaphore.value is a rt_uint16_t: 2^16
  MaxArrivals    \* bound on the characters the UART receives

ASSUME UartPipelineAssumption ==
  /\ SEM_MOD \in Nat \ {0, 1}
  /\ QUEUE_SIZE =< SEM_MOD
  /\ MaxArrivals \in Nat

VARIABLES
  ring,        \* uart->rx_mode.int_rx
  sem_rx,      \* sem_rx.value
  in_isr,      \* the UART interrupt handler is running
  ctl,         \* where the control thread is
  ch,          \* its local of that name
  queue,       \* uart_queue
  sem_queue,   \* sem_queue.value
  upg,         \* where the upgrade thread is
  got,         \* the last byte Receive_Byte handed out
  flag,        \* upgrade_table.flag
  type,        \* upgrade_table.type
  arrivals,    \* characters received so far
  wrapped      \* history: the last operation on sem_rx took it past 2^16 - 1

vars == <<ring, sem_rx, in_isr, ctl, ch, queue, sem_queue, upg, got, flag,
          type, arrivals, wrapped>>

isrVars == <<ring, in_isr, arrivals>>
rxVars  == <<sem_rx, wrapped>>
ctlVars == <<ctl, ch>>
upgVars == <<upg, got>>
modeVars == <<flag, type>>
queueVars == <<queue, sem_queue>>

NORMAL_MODE  == "NORMAL_MODE"
UPGRADE_MODE == "UPGRADE_MODE"

Init ==
  /\ ring = EmptyRing /\ in_isr = FALSE /\ arrivals = 0
  /\ sem_rx = 0 /\ wrapped = FALSE
  /\ ctl = "take" /\ ch = Zero
  /\ queue = InitQueue /\ sem_queue = 0
  /\ upg = "delay" /\ got = Zero
  /\ flag = NORMAL_MODE /\ type = UP_MCU1

(* sem->value ++ on a rt_uint16_t. *)
Incremented(v) == (v + 1) % SEM_MOD
-----------------------------------------------------------------------------
(* The UART interrupt. *)

(* One round of the loop over RXNE; the first enters the handler. *)
IsrSave ==
  /\ arrivals < MaxArrivals
  /\ arrivals' = arrivals + 1
  /\ in_isr' = TRUE
  /\ \E b \in Byte : ring' = SaveChar(ring, b)
  /\ UNCHANGED <<rxVars, ctlVars, queueVars, upgVars, modeVars>>

(* rt_sem_release(&sem_rx): a suspended control thread is resumed and the  *)
(* value stays; otherwise the value grows.                                 *)
ReleaseRx ==
  \/ /\ ctl = "suspended"
     /\ ctl' = "read"
     /\ UNCHANGED rxVars
  \/ /\ ctl # "suspended"
     /\ sem_rx' = Incremented(sem_rx)
     /\ wrapped' = (sem_rx + 1 = SEM_MOD)
     /\ ctl' = ctl

(* The end of the handler: rx_indicate, which is uart_input, once for all  *)
(* the characters saved; on an overrun one more character is read and      *)
(* thrown away.                                                            *)
IsrReturn ==
  /\ in_isr
  /\ in_isr' = FALSE
  /\ ReleaseRx
  /\ \E overrun \in {0, 1} :
       /\ arrivals + overrun =< MaxArrivals
       /\ arrivals' = arrivals + overrun
  /\ UNCHANGED <<ring, ch, queueVars, upgVars, modeVars>>
-----------------------------------------------------------------------------
(* The control thread. *)

CtlGoto(from, to) == ~in_isr /\ ctl = from /\ ctl' = to

(* rt_sem_take(&sem_rx, 10) *)
CtlTake ==
  /\ CtlGoto("take", "read")
  /\ sem_rx > 0
  /\ sem_rx' = sem_rx - 1
  /\ wrapped' = FALSE
  /\ UNCHANGED <<isrVars, ch, queueVars, upgVars, modeVars>>

CtlSuspend ==
  /\ CtlGoto("take", "suspended")
  /\ sem_rx = 0
  /\ UNCHANGED <<isrVars, rxVars, ch, queueVars, upgVars, modeVars>>

CtlTimeout ==
  /\ CtlGoto("suspended", "delay")
  /\ UNCHANGED <<isrVars, rxVars, ch, queueVars, upgVars, modeVars>>

(* rt_device_read(uart2_dev, 0, &ch, 1) *)
CtlRead ==
  /\ CtlGoto("read", "test")
  /\ HasChar(ring)
  /\ ch' = NextChar(ring)
  /\ ring' = ReadChar(ring)
  /\ UNCHANGED <<in_isr, arrivals, rxVars, queueVars, upgVars, modeVars>>

CtlNothingToRead ==
  /\ CtlGoto("read", "delay")
  /\ ~HasChar(ring)
  /\ UNCHANGED <<isrVars, rxVars, ch, queueVars, upgVars, modeVars>>

(* The branch on upgrade_table.flag. *)
CtlTest ==
  /\ CtlGoto("test", IF flag = UPGRADE_MODE THEN "enqueue" ELSE "parse")
  /\ UNCHANGED <<isrVars, rxVars, ch, queueVars, upgVars, modeVars>>

(* write_data_opt, under the scheduler lock. *)
CtlEnQueue ==
  /\ CtlGoto("enqueue", "release")
  /\ ~IsQueueFull(queue)
  /\ queue' = EnQueue(queue, ch)
  /\ UNCHANGED <<isrVars, rxVars, ch, sem_queue, upgVars, modeVars>>

(* Mutant: the token is released for a refused byte as well. *)
CtlQueueFullReleases ==
  /\ CtlGoto("enqueue", "release")
  /\ IsQueueFull(queue)
  /\ UNCHANGED <<isrVars, rxVars, ch, queueVars, upgVars, modeVars>>

CtlQueueFull ==
  /\ CtlGoto("enqueue", "read")
  /\ IsQueueFull(queue)
  /\ UNCHANGED <<isrVars, rxVars, ch, queueVars, upgVars, modeVars>>

(* Mutant: a release nobody waits for is forgotten. *)
CtlReleaseForgets ==
  /\ CtlGoto("release", "read")
  /\ upg' = IF upg = "suspended" THEN "dequeue" ELSE upg
  /\ UNCHANGED <<isrVars, rxVars, ch, queueVars, got, modeVars>>

(* rt_sem_release(&sem_queue) *)
CtlRelease ==
  /\ CtlGoto("release", "read")
  /\ \/ /\ upg = "suspended"
        /\ upg' = "dequeue"
        /\ sem_queue' = sem_queue
     \/ /\ upg # "suspended"
        /\ sem_queue' = Incremented(sem_queue)
        /\ upg' = upg
  /\ UNCHANGED <<isrVars, rxVars, ch, queue, got, modeVars>>

(* A byte for the frame parser.  Completing a "program flash" frame sets   *)
(* the flag, then the type; nothing else the parser does touches the path. *)
CtlParse ==
  /\ ~in_isr /\ ctl = "parse"
  /\ \/ /\ ch \in DataByte
        /\ ctl' = "read"
        /\ flag' = flag
     \/ /\ ch \in DevType
        /\ flag' = UPGRADE_MODE
        /\ ctl' = "settype"
  /\ UNCHANGED <<isrVars, rxVars, ch, queueVars, upgVars, type>>

CtlSetType ==
  /\ CtlGoto("settype", "read")
  /\ type' = ch
  /\ UNCHANGED <<isrVars, rxVars, ch, queueVars, upgVars, flag>>

(* Mutant: the tokens that piled up are thrown away before the next take.  *)
CtlDelayResets ==
  /\ CtlGoto("delay", "take")
  /\ sem_rx' = 0
  /\ wrapped' = FALSE
  /\ UNCHANGED <<isrVars, ch, queueVars, upgVars, modeVars>>

(* rt_thread_delay(20) *)
CtlDelay ==
  /\ CtlGoto("delay", "take")
  /\ UNCHANGED <<isrVars, rxVars, ch, queueVars, upgVars, modeVars>>
-----------------------------------------------------------------------------
(* The upgrade thread. *)

UpgGoto(from, to) == ~in_isr /\ upg = from /\ upg' = to

(* Mutant: the thread takes the request off the flag as it starts. *)
UpgStartClears ==
  /\ UpgGoto("delay", "take")
  /\ flag = UPGRADE_MODE
  /\ flag' = NORMAL_MODE
  /\ UNCHANGED <<isrVars, rxVars, ctlVars, queueVars, got, type>>

(* After rt_thread_delay(200), if (upgrade_table.flag == UPGRADE_MODE). *)
UpgStart ==
  /\ UpgGoto("delay", "take")
  /\ flag = UPGRADE_MODE
  /\ UNCHANGED <<isrVars, rxVars, ctlVars, queueVars, got, modeVars>>

(* Receive_Byte: rt_sem_take(&sem_queue, timeout) *)
UpgTake ==
  /\ UpgGoto("take", "dequeue")
  /\ sem_queue > 0
  /\ sem_queue' = sem_queue - 1
  /\ UNCHANGED <<isrVars, rxVars, ctlVars, queue, got, modeVars>>

UpgSuspend ==
  /\ UpgGoto("take", "suspended")
  /\ sem_queue = 0
  /\ UNCHANGED <<isrVars, rxVars, ctlVars, queueVars, got, modeVars>>

UpgTimeout ==
  /\ UpgGoto("suspended", "received")
  /\ UNCHANGED <<isrVars, rxVars, ctlVars, queueVars, got, modeVars>>

(* Receive_Byte: the dequeue under the scheduler lock, or "Queue empty !!" *)
UpgDeQueue ==
  /\ UpgGoto("dequeue", "received")
  /\ IF IsQueueEmpty(queue)
     THEN UNCHANGED <<queue, got>>
     ELSE queue' = DeQueue(queue) /\ got' = QueueHead(queue)
  /\ UNCHANGED <<isrVars, rxVars, ctlVars, sem_queue, modeVars>>

(* Ymodem_Receive wants another byte, *)
UpgContinue ==
  /\ UpgGoto("received", "take")
  /\ UNCHANGED <<isrVars, rxVars, ctlVars, queueVars, got, modeVars>>

(* or returns 0 or -1, and the mode stays, *)
UpgKeep ==
  /\ UpgGoto("received", "delay")
  /\ UNCHANGED <<isrVars, rxVars, ctlVars, queueVars, got, modeVars>>

(* or returns anything else. *)
UpgFinish ==
  /\ UpgGoto("received", "delay")
  /\ flag' = NORMAL_MODE
  /\ UNCHANGED <<isrVars, rxVars, ctlVars, queueVars, got, type>>
-----------------------------------------------------------------------------
Isr == IsrSave \/ IsrReturn

Ctl ==
  \/ CtlTake \/ CtlSuspend \/ CtlTimeout
  \/ CtlRead \/ CtlNothingToRead \/ CtlTest
  \/ CtlEnQueue \/ CtlQueueFull \/ CtlRelease
  \/ CtlParse \/ CtlSetType \/ CtlDelay

Upg ==
  \/ UpgStart \/ UpgTake \/ UpgSuspend \/ UpgTimeout \/ UpgDeQueue
  \/ UpgContinue \/ UpgKeep \/ UpgFinish

Next == Isr \/ Ctl \/ Upg

Spec == Init /\ [][Next]_vars

(* The handler ends, the scheduler serves both threads of the priority in  *)
(* turn, and threads of higher priorities wait most of the time.           *)
FairSpec == Spec /\ WF_vars(IsrReturn) /\ WF_vars(Ctl) /\ WF_vars(Upg)
-----------------------------------------------------------------------------
TypeOK ==
  /\ ring \in RxRingType
  /\ sem_rx \in 0 .. SEM_MOD - 1
  /\ in_isr \in BOOLEAN
  /\ ctl \in {"take", "suspended", "read", "test", "enqueue", "release",
              "parse", "settype", "delay"}
  /\ ch \in Byte
  /\ queue \in QueueType
  /\ sem_queue \in 0 .. SEM_MOD - 1
  /\ upg \in {"take", "suspended", "dequeue", "received", "delay"}
  /\ got \in Byte
  /\ flag \in {NORMAL_MODE, UPGRADE_MODE}
  /\ type \in DevType
  /\ arrivals \in 0 .. MaxArrivals
  /\ wrapped \in BOOLEAN

(* Control thread and upgrade thread share a queue of bytes and a          *)
(* semaphore, and neither updates both in one critical section.  Still     *)
(* every byte in the queue has its token: in the semaphore, about to be    *)
(* released by the control thread, or taken by the upgrade thread that is  *)
(* about to dequeue.  So the "Queue empty !!" branch of Receive_Byte never *)
(* runs and no byte is left in the queue without a token to fetch it.      *)
TokensMatchBytes ==
  sem_queue + (IF ctl = "release" THEN 1 ELSE 0)
    = QueueLength(queue) + (IF upg = "dequeue" THEN -1 ELSE 0)

(* A thread suspended on a semaphore finds it at zero, which is what makes *)
(* the hand-over in rt_sem_release safe.                                   *)
SuspendedOnZero ==
  /\ ctl = "suspended" => sem_rx = 0
  /\ upg = "suspended" => sem_queue = 0

(* One release per interrupt, one take per round of the control thread,    *)
(* however many characters either handles: no character waits in the ring  *)
(* with the control thread outside its read loop and sem_rx at zero,       *)
(* unless the 16-bit value has just wrapped.                               *)
NoLostWakeup ==
  ~in_isr /\ HasChar(ring) /\ ctl \in {"take", "suspended", "delay"}
    => sem_rx > 0 \/ wrapped

(* What makes NoCommandDuringTransfer inductive: only the upgrade thread   *)
(* leaves UPGRADE mode, and it does so as it ends the transfer.            *)
TransferOwnsMode ==
  /\ upg # "delay" => flag = UPGRADE_MODE
  /\ ctl = "parse" => flag = NORMAL_MODE
  /\ ctl = "settype" => ch \in DevType

(* Commands are parsed in NORMAL mode and a transfer runs in UPGRADE mode; *)
(* the flag is tested before it is used, unlocked.  Still no command is    *)
(* executed while a transfer runs: both drive the same flash and bus.      *)
NoCommandDuringTransfer ==
  ctl = "parse" => upg = "delay" /\ flag = NORMAL_MODE

(* The path is a lossy FIFO: see LossyFifo for what it may lose and when.  *)
InHand == IF ctl \in {"test", "enqueue", "parse"} THEN <<ch>> ELSE <<>>

Fifo == INSTANCE LossyFifo WITH
  Command <- DevType,
  RingCapacity <- UART_INT_RX_BUFFER_SIZE - 1,
  QueueCapacity <- QUEUE_SIZE - 1,
  line <- QueueContents(queue) \o InHand \o RingContents(ring),
  mode <- flag

LossyFifoSpec == Fifo!LSpec

(* A character that waits in the ring is read in the end, also when no     *)
(* further character comes to interrupt -- unless the semaphore wrapped.   *)
RingDrains == HasChar(ring) ~> (~HasChar(ring) \/ wrapped)

(* A byte in the queue reaches the receiver in the end, or the transfer    *)
(* ends before it.                                                         *)
QueueDrains ==
  (~IsQueueEmpty(queue) /\ flag = UPGRADE_MODE)
    ~> (IsQueueEmpty(queue) \/ flag = NORMAL_MODE)
=============================================================================
