# Verification of the TaiSync air/ground MCU2 firmware

The firmware of "MCU2", the STM32F407 in the two units (air, ground) of a drone
radio link.  It runs RT-Thread and lwIP beside a baseband processor (MCU1 and
an FPGA) that it configures over SPI.  The repository holds three trees of it:
`src/AFMCU2air/AF MCU2 air` (air unit, the newest), `src/AFMCU2ground/AF_MCU2
ground` (ground unit) and `src/AF mcu2  udp http air code` (an older air unit).
Files of `App/`, `Bsp/` and `Drive/` that the trees share do not differ in what
is modelled here; lines are those of the air tree unless a path says otherwise.

## 1. Inventory

| component | state | operations | talks to |
|---|---|---|---|
| UART receive path: `Drive/serial.c`, `App/queue.c`, `App/uart_protocol.c`, `App/upgrade.c` | ring of 512, `sem_rx`, byte queue of 1040, `sem_queue`, `upgrade_table` | interrupt, read, `write_data_opt`, `Receive_Byte`, mode switches | frame parser, Ymodem |
| Frame parser and commands: `App/uart_protocol.c` | `rd_data`, `rd_index`, `cmd_rd` | one byte; twelve commands | SPI devices, UART |
| Firmware transfer: `App/ymodem.c`, `App/upgrade.c`, `App/interface.c`, `App/fpga_upgrade.c` | packet and error counters, write offsets, mode | receive, transmit, program, erase | UART, flash |
| SPI bus and its two devices: `Drive/spi_bus.c`, `Bsp/stm32f4_spi.c`, `App/mcu_api.c`, `App/spansion.c`, `App/spi_flash.c` | bus mutex, owner, chip selects | transfer, send-then-receive, status, program, erase | baseband, flash |
| Antenna switching and telemetry: `App/antenna_sw.c`, `App/udp_connect.c` | shared status buffer, mailbox, attitude, position buffer, two semaphores | poll, choose antenna, post, receive and handle a message, forward, send | SPI, MAVLink, UDP |
| Remote configuration: ground `Lwip/web_server/httpd_cgi_ssi.c`, `App/udp_connect.c` of both units | `AirTxBuf`, `sem_cgi_set` | CGI handlers, send, receive and decode | HTTP, UDP, SPI |
| Start-up: `App/application.c`, `udp_connect_init` | which objects are initialised, which threads run | init sequence | all of the above |
| RT-Thread kernel: `RTOS/` (vendored) | semaphores, mutexes, mailboxes, timers, ready queue | take, release, send, receive, timeout | all threads |
| DMA modes of the serial driver: `Drive/serial.c` | transmit list and pool of 4, receive blocks | write, both interrupts | not switched on in this build |
| Ethernet driver and lwIP port: `Bsp/stm32f4_eth.c`, `STM32F4x7_ETH_Driver`, `Lwip/src/netif`, `tcpip.c` | two descriptor rings, two mailboxes, the heap | interrupt, receive, copy, prepare, send | lwIP's thread, DMA |
| lwIP, CMSIS, vendor libraries, MAVLink headers, build output | - | - | third-party or generated |

### What is hard here

* One processor, interrupts, and threads of several priorities.  The control
  thread and the upgrade thread share priority 15 and take turns by time slice,
  so either is preempted between any two accesses to the queue, its semaphore
  and `upgrade_table.flag`; the UART interrupt preempts both.
* A UART line and a UDP link that lose, cut or delay what they carry, a
  protocol whose acknowledgements carry no number, retries on both sides.
* State that outlives the call that made it: static write offsets, bytes left
  in the queue, a frame buffer that is not cleared, local variables that are not
  initialised.
* Buffers without a lock that two threads use (`AirTxBuf`, `dev_status_buf`,
  `upgrade_table`), and a chip select that is also a boot strap.
* Threads that are started before the objects they use are initialised, and kept
  from using them only by their priorities.
* Limits: ring, queue, 16-bit semaphores, a packet number of one byte, a frame
  buffer of 100 bytes, a socket that holds one datagram, rings of descriptors,
  a heap that all threads share, the 32 mails of lwIP's thread.

What makes each component correct:

| component | properties |
|---|---|
| UART receive path | bytes stay in order and are lost only where a stage is full; queue and semaphore agree; no wake-up is lost; no command runs during a firmware transfer |
| Frame parser | exactly the well-formed frames on the line are carried out; every byte is stored inside the buffer |
| Firmware transfer | blocks are programmed in order and once; success means the whole file; both ends return; no address is programmed twice without an erasure; a failed program is not acknowledged |
| Remote configuration | what the air unit does is what the user typed, whole, and in order; the last request is handled |
| SPI bus and flash drivers | one transaction at a time under the right configuration; write-enable precedes each program; no program crosses a page; a program failure is reported |
| Antenna switching, telemetry | the unit ends on the better of the measured antennas; the status sent is one the device reported; the last position is forwarded |
| Start-up | no thread uses a kernel object before it is initialised, or does no more to it than it recovers from |
| Ethernet driver | frames are neither lost, doubled, reordered nor mixed up but at a full ring, a full mailbox or a heap without room; nothing stays in the driver |

`PROJECT.json` lists every hazard at its line, with the properties that cover it.

## 2. Modules

```
 RxRing  ByteQueue            ConfigPacket ----> RemoteConfig --refines--> LatestRequest
     \    /                                            |
   UartPipeline --refines--> LossyFifo          RemoteConfigProof
     |      \
     |   UartPipelineProof    YmodemReceiver --> YmodemTransfer --refines--> FileTransfer
     |                                              |
 (bytes of NORMAL mode)                     YmodemTransferProof
     v
  UartFrame --> UartFrameProof          SpiBus --> FlashDriver --> SpiBusProof
                                                                        |
                                                                 FlashDriverProof

  Ipc --> AirUnit --> AirUnitProof      EthernetDriver --refines--> FramePath
                                              |
                                       EthernetDriverProof
```

The three UART modules meet at two interfaces.  `UartPipeline` abstracts the
frame parser to "a byte that completes a program command switches the mode"
(`CtlParse`, `CtlSetType`) and the Ymodem receiver to "asks for another byte,
or returns a value that keeps or ends UPGRADE mode" (`UpgContinue`, `UpgKeep`,
`UpgFinish`).  `UartFrame` shows which bytes complete a command, `YmodemReceiver`
what the receiver does with its bytes.  `UartPipeline` shows what the other two
assume: bytes reach them in order (`LossyFifo`) and never both at once
(`NoCommandDuringTransfer`).  A byte lost in a full stage is a lost or garbled
message of `YmodemTransfer`.

### UartPipeline (`RxRing`, `ByteQueue`, `UartBytes`)

The driver's ring with its two indices (`rt_hw_serial_isr`, `rt_serial_read`),
the queue with its unused slot (`queue.c`), both semaphores as 16-bit counters
with direct hand-over to a suspended thread (`ipc.c`), and two threads as
program counters.

| thread | location | code |
|---|---|---|
| interrupt | `IsrSave`, `IsrReturn` | the loop over RXNE; overrun; one `rx_indicate` for all characters, `uart_input` |
| control | `take`, `suspended` | `rt_sem_take(&sem_rx, 10)` |
| | `read`, `test` | `rt_device_read` of one byte; the test of `upgrade_table.flag` |
| | `enqueue`, `release` | `write_data_opt` under the scheduler lock, then `rt_sem_release(&sem_queue)` outside it |
| | `parse`, `settype` | the parser; `flag`, then `type`, two assignments |
| | `delay` | `rt_thread_delay(20)` |
| upgrade | `delay` | `rt_thread_delay(200)`, test of the flag |
| | `take`, `suspended`, `dequeue` | `Receive_Byte` |
| | `received` | the caller of `Receive_Byte` |

A step of a thread is one access to shared state and needs `~in_isr`; the
handler is not nested.  `arrivals` bounds the input; `wrapped` is a history
variable that records whether the last release took `sem_rx` past 2^16-1.

`LossyFifo` is the promise: one line of bytes, a mode, the last byte handed
out.  The refinement mapping joins queue, byte in hand and ring to one line.

### UartFrame

One step per byte read in NORMAL mode: `Collect` while the frame is not
complete, `Dispatch` on its last byte, with one operator per command.  The
buffer has one index more than the code's array, to see a write behind it.
`tx_data` keeps its first four bytes because `len_error` computes its checksum
over what an earlier reply left there.  `cmd_rd` is an uninitialised local and
starts as anything.  `input` and `executed` are history: every byte parsed, every
command carried out.  `TransferEnds` is the upgrade thread.  What commands do to
the other chips is outside; the four setters return any code of `Results`.

`ExecutedAreFrames` compares the byte-at-a-time parser with a reading of the
whole line (`CommandsIn`): a frame, a frame too long for the buffer, a false
start and noise each take a number of bytes that depends on the line alone.
That reading makes explicit what the code does with a stray 0x55: it swallows
the start of the frame behind it.

### YmodemReceiver, YmodemTransfer

A step of the receiver is one outcome of `Receive_Packet` and everything
`Ymodem_Receive` does about it, with the branches as operators: `Cancel`,
`EndOfFile`, `WrongNumber`, `FileName`, `EmptyFileName`, `Data`, `Abort`, `Bad`.
A flash is the block programmed at each address, in packets; programming goes
through the static `offset`.  `FlashErase` and `FlashProg` are the commands of
the control thread.

`YmodemTransfer` adds `Ymodem_Transmit`, which nothing in the firmware calls but
which is the only sender in the repository, and the line.  The sender's five
loops are the phases `name`, `data`, `eot`, `last`, `eot2`; `Acked` and
`NotAcked` are what each does with ACK and with anything else, including that
the filename loops count only timeouts and that the last loop runs once.
`Receive` interprets a message by what the receiver expects, so a data packet
numbered 0 can be taken for a filename.

Faults have budgets, chosen at the start: a message or reply is lost; a message
is garbled (its bytes are no packet, but among them may be EOT, CA or 'A');
contents are corrupted with the number intact; the flash does not take a block;
the sender stalls, that is, reads replies so late that the receiver times out
and asks again.

### RemoteConfig (`ConfigPacket`)

`ConfigPacket` is the codec: `Encode` of a request as the ground unit's five
CGI handlers write it into the 16 bytes of `AirTxBuf`, `Decode` as the air
unit's switch reads it by the first byte that is not zero.

`RemoteConfig` is both units and the link.  `Submit` is a CGI handler (lwIP's
thread, priority 12): it clears and fills the buffer and releases `sem_cgi_set`.
`GroundTake` and `GroundSend` are the sending thread (priority 13): it takes the
semaphore, and `sendto` sends what the buffer holds then, because lwIP refers to
the buffer and does not copy it (`netbuf_ref`), which is also why handler and
sender never see half of each other's work: lwIP's thread runs both the handler
and the send.  `Deliver` and `LinkLoses` are the network and the mailbox of the
socket, `Receive` and `Execute` the air unit.  `no` in a datagram is history: the
request it was filled for.

`LatestRequest` is the promise: requests are carried out whole and in order;
one may be skipped or carried out again, but the unit never goes back.

### SpiBus, FlashDriver

`SpiBus` is the bus for any set of threads and devices: the kernel's mutex with
its list of waiting threads, the priority it lends its owner, `bus->owner`, the
device the registers are set up for, and the chip selects.  A transaction is

| step | code |
|---|---|
| `TakeFree`, `TakeBusy` | `rt_mutex_take`: owner and original priority; or the end of the list, and the owner's priority raised |
| `Select` | `configure` for a new owner, first message, `cs_take` |
| `Deselect` | end of the last message, `cs_release` |
| `Release` | `rt_mutex_release`: priority given back, mutex free or handed to the head of the list |

Transfers are polled (`RT_SPI3_DMA` is off), so between these steps a thread is
only ever preempted: a step needs that no thread of a higher current priority
is ready (`Runs`).  `Drive` moves a chip select without the mutex, as
`MCU1_upgrade_enable` does.

`FlashDriver` is who uses it.  The antenna thread (priority 11) makes a round of a status
request, two transactions, and the changes of antenna after it; threads that
change a setting make one transaction; the control thread makes calls, erases a flash (for
the baseband after moving the strap) or starts a transfer; the upgrade thread programs
packets until the transfer ends (all priority 15).  `job` holds the locals of the erase and write
routines: `JobTakes`, `Selects`, `JobEnds` are a transaction of theirs, and
`JobSends`, `JobReady`, `JobWaits`, `JobGivesUp` what follows its return.  The devices
(`ProgramOrErase`, `WriteEnable`, `DeviceReady`) are external: the FPGA's flash wants a
write-enable before each command, both ignore commands while they are busy
and wrap addresses inside a page.

Byte number `i` of all that was programmed to a device belongs at address `i`,
since the offset is static; so the contents tell a byte that is missing (`Erased`), in the wrong
place or written over (`Spoilt`).  `late` is history: a wait timed out, after
which nothing is claimed about completeness.  `jobs` counts erasures and packets for the bound.

### AirUnit (`Ipc`)

The air unit from power-up to service, five threads as places in their code:

| thread (priority) | places | code |
|---|---|---|
| init (8) | `fc`, `ground`, `linkhub`, `sem_linkhub_tx` | `udp_connect_init`: three threads, then the semaphore of one of them |
| | `delay`, `poll`, `poll delay`, `devices` | three seconds; the polls for the FPGA; bus, flash and ports, any of which may fail |
| | `mb_spi_dev`, `sem_attitude_change`, `antenna` | the two objects, then the antenna thread |
| antenna (11) | `request`, `ldpc_pass`, `rest` | the status is requested and fills the buffer while the bus is polled |
| | `attitude`, `no imu`, `weak`, `mail` | three rules, each of which may order an antenna; the mail |
| ground (13) | `receive`, `waiting`, `send` | `rt_mb_recv` into the status, `sendto` of the status |
| fc (14) | `receive`, `delay` | a datagram and what the message that it completes last does |
| linkhub (15) | `take`, `waiting`, `load`, `send` | `sendto` is given a length, then refers to the buffer |

A thread takes a step only while no thread of a higher priority is ready
(`Runs`); timers end delays and waits at any moment.  That order is all that
keeps the threads apart, so the mutants change it.

`dev_status_buf` has two parts, the first field and the rest, because
`rt_mb_recv` writes its mail, a pointer, over the first field, and because the
antenna thread fills it byte by byte; a part holds the reading it comes from.
`round` is history: whether a rule applied in this round, and whether another
thread selected an antenna in it.  Those threads (`SelectsElsewhere`) and the
signal (`Fades`) come between two requests, or, for the first, while the antenna
thread waits for the bus.

`Ipc` is what a semaphore or mailbox makes of a thread that waits on it before
it is initialised: the kernel's list head is then null, the thread is on a list
that does not know it, and when its timer unlinks it after the initialisation,
the head's pointer for insertions goes with it.  The ground thread does wait on
its mailbox like that (`application.c:124` initialises it three seconds later).  From
then on no mail wakes that thread, and it lives on its timeouts:
`StatusReceived`.  The flight controller's thread also runs in those three seconds and may release
`sem_attitude_change` before `application.c:125`: on a null list the release does nothing
(`Released`).  `UsedWhenReady` says what may be done to each object before it is
initialised.

### EthernetDriver (`FramePath`)

Both descriptor rings with DMA and CPU walking through them, and the steps
between them: the interrupt that clears its flag and mails; the receiving thread
that takes a frame (`RxGets`), gives the descriptor back (`RxReleases`), resumes a
suspended DMA (`RxResumes`), posts the frame to lwIP's thread (`RxInput`), and ends its
loop on an empty ring or without a pbuf; the calls that other threads make of lwIP through
the same mailbox (`Calls`); lwIP's thread, which handles one mail at a time; its sends, which wait for the sending thread (`TcpipSends`, `TxAcks`); and
that thread's copy to the next buffer (`TxCopies`) before it is seen whether the
DMA still owns the descriptor (`TxPrepares`).  Here no priorities are assumed:
every interleaving of threads, interrupt and DMA is allowed, which includes those of
the code.

This build has no pools: `RT_LWIP_USING_RT_MEM` (`rtconfig.h:93`) makes `memp_malloc` a plain
`rt_malloc` (`lwipopts.h:93`, `memp.h:87`).  Whether there is a block for a pbuf
or for the small message is up to what the whole unit has allocated, so `heap` changes at any moment
(`HeapChanges`).  The limit that counts is that of lwIP's mailbox: `tcpip_input` posts without
waiting and fails when it is full (`tcpip.c:215`), while a thread's call waits for
room (`tcpip.c:343`) and takes up a place.  lwIP's thread sleeps 50 ms after each mail.

`FramePath` is the promise: two lines of frames.  On the way in the calls of other
threads join the line; a bad frame may be dropped, a good one only while the heap is short or
behind as many frames and calls as lwIP's mailbox holds, and a call never.  On
the way out a frame that finds the line full spoils the contents of the frame
in front, under that one's length.  The mapping reads the lines off the rings, the
pbuf in hand and the mailbox.

## 3. Runs

All runs take their sizes from the `.cfg`; `MC*` modules hold the sets a `.cfg`
cannot spell.

| run | what it shows |
|---|---|
| `uart` | With interrupts, control and upgrade thread interleaved at every shared access: indices in range, a token for every byte (the "Queue empty !!" branch never runs), no lost wake-up, no command during a transfer, the refinement of `LossyFifo`, and under fairness that what is in the ring is read and what is in the queue reaches the receiver. |
| `frame` | Four pieces in any order on the line, and transfers in between: the parser carries out exactly the commands that a reading of the whole line finds; a byte of an earlier frame never becomes part of a command; no frame is open across a transfer. |
| `ymodem` | No fault, up to six losses, or a sender that stalls at will: blocks are programmed in order, none twice, success means the whole file (`FileTransfer`).  The sender returns unless something is lost, and an undisturbed success ends UPGRADE mode. |
| `ymodem_faults` | Two sessions, any commands between, one fault of any kind but a stall: no address is programmed twice without an erasure, and a receiver whose sender is gone ends its session. |
| `remote_config` | Up to three requests of twelve kinds, faster than they are sent, on a link that may lose them: datagrams are whole, calls are what the user meant, the refinement of `LatestRequest`, and the last request is handled when nothing is lost. |
| `spi_bus` | Four threads, settings and status requests without end, two erasures or packets: the mutex excludes, the configuration fits, lent priorities are given back, only one device listens although the strap ignores the lock, bytes land at their addresses across pages, a packet that did not time out is complete, an erasure is as reported. |
| `spi_bus_live` | The same threads under fairness: a thread that waits for the bus gets it, and a flash routine returns also when its device never gets ready. |
| `air_unit` | From power-up on: to an object that is not initialised nothing is done but what `UsedWhenReady` lists (a stray wait on the mailbox, a lost release of the attitude's semaphore); what is sent to the ground is one reading; a round in which a rule applied does not end on the weaker antenna, and with a steady signal the unit comes to the better one and stays; the last position goes out with its own length; every status in the mailbox is received. |
| `ethernet` | Frames in both directions through rings, interrupt, threads and mailboxes, another thread's calls between them, a heap that may be short at any moment: the refinement of `FramePath`, and nothing stays in the driver, although interrupts are merged and mails are lost. |
| `remote_antenna`, `ymodem_name_lost`, `ymodem_again` | One property each that the repository states and the code does not keep; see Findings. |

### Bounds, and why they are enough

* `uart`: ring of 3, queue of 2, semaphores modulo 4, 4 arrivals, two data bytes
  and both program commands.  Both stages fill, both indices wrap, a full ring
  discards, a full queue refuses, and `sem_rx` wraps.  The theorems hold for
  every size.
* `frame`: a byte modulo 16, a buffer of 8, values of at most 2 bytes, four
  pieces out of 18.  A frame fits the buffer or does not, each command comes
  with and without data, data contain the two start bytes, and any piece may follow
  the remains of any other.  The value of up to four bytes is compared with its
  definition by an `ASSUME` in `MCUartFrame`.
* `ymodem`, `ymodem_faults`: a file of three blocks, the limits 5 and 10 of the
  code, packet numbers modulo 8, which stands for 256 and does not wrap here.
  Six losses use up either side's patience.
  The image may have 900 blocks, so real numbers do wrap.  With `SEQ_MOD = 2` TLC finds that a
  transfer in which the receiver gave up can be reported a success: after the wrap
  a block numbered 0 is taken for a filename.  The same happens with losses and
  stalls together (four or more), and with a garbled message: an ACK does not
  say what it acknowledges.  A corrupted packet is programmed, because the CRC
  is read and never compared.  `FileTransferSpec` is therefore claimed for
  one kind of disturbance at a time.  `RETRIES` much above the
  receiver's limit breaks it too: the sender would outlast a receiver that gave up
  and count its requests as answers.
* `ymodem_faults` budgets one fault; after the first round of a garbled message
  each further round of it counts as another.  `MaxReplies` bounds how many
  requests an idle line collects.
* `remote_config`: three requests let one be overwritten before it is sent and
  one be in the mailbox while another is on the link; texts have every length
  and leading digit that some handler treats in its own way.

* `spi_bus`: pages of 2 bytes, two pages, packets of half a page and of one and a
  half, so a packet may start in the middle of a page and end in another; one
  poll after the first, so a wait can succeed at once, later or not at all; two
  erasures or packets (`MaxJobs`), so one may find a device still busy from
  the other; a round of the antenna thread without changes of antenna (`MaxSwitches`), which
  would be more transactions of the same kind.  Sectors are as far apart as the
  erase commands, as for the two chips of 64 KB sectors; with a sector of two
  pages, like the third chip of `spansion.c`'s table, `ErasedAsReported` is refuted.  `spi_bus_live` has one
  erasure or packet.

* `air_unit`: a mailbox of 2 (6 in the code), so it fills when the ground thread sleeps; 
  semaphores modulo 3, which no behaviour here wraps, since two datagrams release at most twice (the
  theorems hold for every width); one poll, so the start succeeds at
  once, later or never; attitudes of each sign and none; two signals, each with
  another better antenna and one of them weak at both; behaviours with two datagrams, or with one
  datagram, one selection by another thread and one change of the signal.
* `ethernet`: two descriptors on each side, one mail for the receiving thread and two for
  lwIP's, one calling thread, so each limit is met: three frames in, or two in and one out,
  or four out; calls and changes of the heap are not bounded.  The code has 20 and 5
  descriptors and 32 mails in each mailbox.

### Fairness

* UART: the interrupt handler ends; each of the two threads, whenever it can
  take a step, takes one in the end (`WF(Ctl)`, `WF(Upg)`): they have one priority
  and a time slice, and the threads above them spend their time in delays and
  blocking calls.  No fairness of arrivals: `RingDrains` holds with a line that
  falls silent.
* Ymodem: each end takes its next round if it can; both wait with timeouts, so
  each round ends.  No fairness of faults or of the host's commands.
* Remote configuration: the sender, the air unit and the delivery of a datagram that is
  not lost.  Nothing makes a user ask.
* SPI: each thread, if it can go on with what it has begun again and again, does
  (`SF`): the antenna thread sleeps 100 ms after a round of about 10 ms, so a
  lower thread is ready to run infinitely often, and threads of one priority share the time.  No fairness of the
  devices: `JobsReturn` holds with one that stays busy.

* Air unit: each timer runs out, and again and again no thread is ready
  (`[]<>Idle`): the threads do a few bus transactions between delays of 100 ms, and waits of
  50 and 70 ticks.  `Idle` gives every thread its turn whatever its priority.  (`delay_ms`
  is a busy loop: a thread in it is ready.)  No fairness of datagrams, of selections, of the signal.
* Ethernet: the interrupt comes, the DMA sends what it was given, each thread gets
  to run (`WF`); lwIP's thread, which can be kept from its mailbox by its own sends,
  takes a mail if it can again and again (`SF`): it reads one mailbox for both.  No
  fairness of arrivals, of calls or of the heap: `HandedOn` holds when it stays short, since a
  frame dropped for want of a pbuf counts as `stranded`, and after any other drop the loop goes on.

## 4. Proofs

TLAPS proves these for every value of the constants that the named assumptions
of the modules allow.

* **UART** (`UartPipelineProof`).  The inductive invariant is `TypeOK`,
  `TokensMatchBytes`, `SuspendedOnZero`, `NoLostWakeup` and `TransferOwnsMode`.
  `TokensMatchBytes` counts the tokens on their way: one that the control
  thread is about to release, one that the upgrade thread has taken.  It needs
  `SuspendedOnZero`, since a release hands over to a suspended thread without
  touching the value.  The queue's capacity being less than 2^16
  (`QUEUE_SIZE <= SEM_MOD`) is what keeps `sem_queue` from wrapping;
  `sem_rx` has no such bound (one release per interrupt, while reads take many
  characters at once), hence `wrapped`.  `TransferOwnsMode` says that only the
  upgrade thread leaves UPGRADE mode, which makes the unlocked test of the flag safe.
  `ImplementsLossyFifo` proves `Spec => LossyFifoSpec`: the initial state, and for
  every step what it does to the line, which is the contents of queue, hand and
  ring joined.  Lemmas say what `ReadChar`, `SaveChar`, `EnQueue` and `DeQueue` do to
  the contents, index by index and modulo the sizes (`ModAfter`); two more
  (`RemoveBetween`, `HeadTailOfConcat`) say what dropping a byte does to a line in
  three parts.
* **Frames** (`UartFrameProof`).  `FrameInv` relates the buffer to the line: the
  `rd_index` bytes in the buffer are the last ones read (`BufferIsLine`), they
  start like a frame and do not complete one (`OpenFrame`).  So a completed frame
  was read in one piece.
  `LineIsExecuted` proves `ExecutedAreFrames`.  Its invariant, `LineInv`, says of every
  continuation of the line that its commands are those carried out and those from
  the open frame on; one step of the parser is then one step of the
  reading, or none.  `DroppedIsTaken` and `CompleteIsTaken` show that both
  take the same bytes, `DispatchExecutes` that they agree on which frames are
  commands and on their values.  The recursive functions behind this (`SumOf`,
  `BigEndian`, `CommandsIn`) are given sense by induction over the natural numbers,
  which here is an induction over sets (`Induction`, from the library's theorem on
  minimal elements, which has no operator parameter): such functions exist
  (`RecursionExists`, `RecursionForward`) and are determined (`RecursionUnique`).
  That makes the range of checksums, and with it `TypeOK`, a theorem as well.
* **Firmware transfer** (`YmodemTransferProof`).  `ProgrammedBelowOffset`: what
  is programmed lies below the static offset, which never goes back.  With it
  no step, under any fault and any number of sessions, programs an address
  twice between erasures.  The counters stay below their limits
  (`ErrorsBelowLimit`).
* **Remote configuration** (`RemoteConfigProof`).  `CodecAgrees` is about the two
  programs' code for one packet, by cases of the setting; it covers every request that
  the packet can carry (`Carried`).  `RemoteInv` adds that the buffer holds the last
  request (`BufferIsLast`), that what was executed is decoded from a request, and
  that requests are ordered along the way (`Ordered`).  `Refinement` proves
  `Spec => LatestRequestSpec` in full: the initial state, and every step.

* **SPI bus** (`SpiBusProof`).  `BusInv` is `BusTypeOK`, `MutexExcludes`,
  `BusConfigured` and `PriorityReturned`, kept by every step of `BusNext`
  (`BusCorrect`); the hand-over step needs that no thread is in the list twice.
  `DriversRefineBus` shows that a step of `FlashDriver` is a step of `BusNext` or
  leaves the bus alone, with a small invariant on the drivers' records, so
  what holds of `BusSpec` holds of the drivers.
  `OneTalks` needs the modes: the strap is moved in NORMAL mode by the control
  thread while it has no transaction of its own (`ModeInv`, `Users`), the upgrade
  thread uses the flash in UPGRADE mode only, and a chip select is low for a
  transaction or for the strap (`LowMeansTalking`).

* **Flash drivers** (`FlashDriverProof`).  Every byte at its own address, for every page
  size and all packet lengths.  `PlaceInv`: the static offset plus what the routine
  has sent is the address that its page and byte counters name; a chunk that does not
  end the packet ends its page (`ChunkFits`), so the next one starts at a page, and the
  device, which wraps inside a page, puts the n-th byte of a chunk where it belongs
  (`NthByte`).  `ContentInv`: what is not erased holds its own number and lies below
  `Reach`, which counts a chunk from the end of its program command on (`Given`), so a
  chunk always meets erased bytes; the offset moves past the whole packet when the
  routine returns, also when it gave up.  Erasing needs nothing of the sector sizes
  here.  `TypeOK` needs `CallsInv`: a thread in a transaction that is not a routine's has a
  call left, so the count never goes below zero.

* **What is in the flashes** (second half of `FlashDriverProof`).  Both action properties of the run,
  `PacketsAreWhole` for every value of the constants and `ErasedAsReported` under
  `SectorsMatch`: erase commands a sector apart, sectors that fill the device.  The
  third flash of the table breaks that assumption, as the hazard at `spansion.c:220` says.
  A command is carried out (`CarriedOut`) because the device is busy only with what a
  routine still waits for (`BusyInv`; `Answered` is the moment between a poll that saw it
  ready and the next command, in which other threads have the bus) and because the write-enable of
  a routine stays until its own command (`EnableInv`).  Both rest on `Alone`: the modes
  let one of the two drivers have a routine at a time.  `ProgramInv` and
  `EraseInv` then say how far the contents are right, up to `Reach` and `Passed`.
  A device that a routine gave up waiting for (`late`) is left out: the code goes on
  with the next packet and says so in its result only.

* **Air unit** (`AirUnitProof`).  `AirInv` is `TypeInv` and three parts.
  `PhaseInv`: while the starting thread is on its way nothing else runs (`InitAway`), so
  `sem_linkhub_tx` is as it was until it is initialised, and whoever waits on it
  later finds it sound.  The other two objects are initialised after a delay in which threads do run:
  of these the invariant says what the code does to a null object, a stray wait on the mailbox and a
  release of the attitude's semaphore that leaves it `Zeroed` (`ObjectsReady`).  `StatusInv`: the first field is a pointer or of the same
  reading as the rest, except between the antenna thread's two halves of a fill, when
  it is what the baseband would still answer; it needs that the ground thread runs only while the
  antenna thread is away (`AntennaAway`).  `RoundInv`: until a rule applies the unit is on
  the antenna of the status, and from then on not on the weaker one, unless another
  thread selected one; it rests on what each rule orders for all signals
  (`ByAttitudeIsBetter`, `WhenWeakIsBetter`).  The order of the priorities is used
  in one lemma, `Order`.

* **Ethernet** (`EthernetDriverProof`).  `ImplementsFramePath` proves
  `Spec => FramePathSpec`.  The invariant says of each ring that it is a line: n
  descriptors from one side's index to the other's hold frames, the others belong to
  the other side, except the one that the receiving thread has read and not yet given back, which is
  nobody's (`RxLined`, `TxLined`).  So one number, n, says what DMA and CPU each may
  touch, and counting owner bits, which is how the model reads the frames off a
  ring, gives it (`RingIsLine`, `WaitingIsLine`).  One lemma per operation says what it
  makes of the line (`RingReceives`, `RingGets`, `RingReleases`, `WaitingCopies`,
  `WaitingPrepares`, `WaitingSends`), and the steps follow with the lemmas on sequences in three parts.
  `Mails` says that lwIP's mailbox holds good frames and calls.  It is the front of the line, so a post that
  fails for want of room drops a frame behind that many others, and a call joins the line
  at the mailbox's end (`InsertBetween`, `CallsStep`).  The heap needs no invariant: when an allocation
  fails it is short.  `Sending` says that lwIP's thread waits while
  the sending thread holds its frame, so the frame prepared is the one copied; and that the DMA still owns the
  descriptor it has read, so a copy to a full ring spoils the frame before it is read, or not at all.

Only model-checked: everything under fairness (`RingDrains`, `QueueDrains`,
`TransmitReturnsUnlessLost`, `SuccessEndsUpgrade`, `AbandonedSessionEnds`,
`LastRequestHandled`, `BusServed`, `JobsReturn`, `AntennaSettles`, `LatestPositionSent`,
`StatusReceived`, `HandedOn`), since liveness is outside what the prover does here; the
refinement of `FileTransfer` (true for the bounds
above, not for every value of the constants).

## 5. Findings

1. `remote_antenna`: the ground unit sends the antenna in byte 15, the air
   unit selects the one in byte 14, which is 0.
2. `ymodem_name_lost`: after one lost ACK of the filename the receiver answers
   NAK to every repetition, the loop counts only timeouts, and the sender does
   not return.
3. `ymodem_again`: the static offset survives the erasure, so a second update
   is programmed behind the first and reported a success.

Smaller remarks from the modelling, without a run:

* Frames: `rd_data[MAX_LENGTH]` is tested after the write, and the test lets `rd_index`
  reach `MAX_LENGTH`, so a frame with a length of 96 or more has its 101st byte
  written behind the array; `len_error` sends a checksum of another message.
* Firmware transfer: the branch of `ymodem.c:180` that ends the session when a
  block could not be programmed is dead, because `if_mcu_upgrade` and
  `if_fpga_upgrade` return 0; a transfer aborted by the user (-3) is reported as
  "transfer done!".
* Remote configuration: a frequency that starts with 0 is ignored at the air unit,
  and a text of zeros or a power of neither four nor five digits arrives as "set the
  downlink to 0"; the two-digit branch of the ground unit's downlink handler
  cannot be reached; a setting entered before the last one was sent is replaced by it,
  and the later one is sent twice.
* Bus and flash: `spansion_erase` reports success after a time-out too, and
  erases a quarter of a chip with 256 KB sectors; a thread that is handed the bus
  does not inherit the priority of those that still wait; a status request is
  two transactions that another thread's command can separate.
* Air unit: every status to the ground carries a pointer in its first field; the antenna
  thread polls the attitude's semaphore and never waits for it; a datagram that completes no
  message has the message before it handled again, and messages with a wrong
  checksum are handled; a round of the antenna thread that finds the mailbox full drops its
  status; an attitude that changes before `application.c:125` leaves no token, so the antenna
  thread sees it only after the next change.
* Ethernet: a frame that finds the send ring full is not queued, its error is
  printed and lwIP is told of a success.

## 6. Not modelled

Of the tree's 704,876 lines most are three copies of vendored code: lwIP, CMSIS, the
STM32 peripheral library, MAVLink's generated headers, RT-Thread, and build
output.  The firmware's own `App/`, `Bsp/` and `Drive/` are about 8,000
lines per unit, and the units share most of them.  The modules map the parts of these that
keep state across calls or threads, and the parts of the vendored code whose
behaviour the firmware depends on (`ipc.c`, the Ethernet driver, `ethernetif.c`, `tcpip.c`).
A share of the whole tree that is not small could only come from modelling
third-party protocol code.

* The quaternion message of the flight controller (its handler writes through
  pointers it never sets), the byte-wise MAVLink parser, the checks of checksums.
* Probing and reading the FPGA's flash, failing SPI transfers (`xfer` cannot fail
  for 8-bit devices), what a setting or a status holds besides signals and antenna, the other users
  of the bus in lwIP's thread (the air unit's own page), which are transactions like those of `Setters`.
* lwIP itself.  One consequence stays outside: the checksum of a datagram is computed in
  software before the frame is copied, from a payload that lwIP only refers to
  (`netbuf_ref`), so a status that is filled again in between leaves with a
  checksum that does not fit and is dropped by the receiver.  What lwIP and its sockets keep of the heap is
  part of `HeapChanges`.
* Ethernet: the registers' set-up, changes of the link (nothing calls
  `eth_device_linkchange`), frames of several descriptors (a buffer holds a whole frame).
* Serial DMA modes (not switched on), the kernel beyond semaphores, mailboxes, the mutex,
  their lists and the choice of the ready thread.
* The contents of replies and pages, `printf` texts, hardware registers.
* The status page and the local settings of the ground unit: one setter or one formatted number
  per request, no state between requests.
* The older air unit: what is modelled does not differ there.
* Real time: delays appear as order (`delay` locations) and timeouts as steps that
  may happen, except where the code's times make an order certain
  (`SenderTimeout`: the sender waits a hundred times as long as the receiver).

## 7. Plan

1. The boot strap: that it is low for its time, once it is known what the boot
   loader needs; the antenna thread's next status request raises it.
2. Theorems: the order in `YmodemReceiver` without a sender.
3. A run of `AirUnit` with the mailbox of 6 and with more datagrams, once its state space allows it.
