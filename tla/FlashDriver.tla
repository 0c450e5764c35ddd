----------------------------- MODULE FlashDriver -----------------------------
(***************************************************************************)
(* The threads that use the SPI bus and what they do on it: the antenna    *)
(* thread (App/antenna_sw.c), the threads that change a setting (CGI       *)
(* handlers, UDP_recvcgi_task), the control thread with its commands       *)
(* (App/uart_protocol.c) and the upgrade thread, which programs what a     *)
(* firmware transfer brings (App/interface.c, App/fpga_upgrade.c,          *)
(* App/mcu_api.c, App/spansion.c).                                         *)
(*                                                                         *)
(* Two devices are on the bus: the baseband processor MCU1, whose boot     *)
(* loader takes flash commands, and the configuration flash of the FPGA,   *)
(* which takes them after a write-enable only.  Both program within a page *)
(* and are busy afterwards.  Settings and status requests are transactions *)
(* with the baseband whose contents are left out.                          *)
(*                                                                         *)
(* The byte number i of all that was ever programmed to a device is i, so  *)
(* it belongs at address i: the write offset is static and starts at 0.    *)
(***************************************************************************)
EXTENDS SpiBus

CONSTANTS
  antenna, uart_ctl, uart_upgrade,
  Setters,         \* the threads that change one setting at a time
  baseband, flash,
  PAGE_SIZE,       \* 256
  SECTOR_SIZE,     \* of each device, in bytes
  ERASE_STEP,      \* how far the erase commands of each driver are apart
  FLASH_SIZE,      \* bytes of each device
  PacketLengths,   \* 128 and 1024
  TIMEOUT,         \* polls after the first: 5000 and 2000
  MaxSwitches,     \* antenna changes in one round: up to three
  MaxJobs          \* bound: erase commands and packets of a behaviour

ASSUME FlashDriverAssumption ==
  /\ Thread = {antenna, uart_ctl, uart_upgrade} \cup Setters
  /\ antenna # uart_ctl /\ antenna # uart_upgrade /\ uart_ctl # uart_upgrade
  /\ {antenna, uart_ctl, uart_upgrade} \cap Setters = {}
  /\ Device = {baseband, flash} /\ baseband # flash
  /\ PAGE_SIZE \in Nat \ {0} /\ FLASH_SIZE \in Nat
  /\ SECTOR_SIZE \in [Device -> Nat \ {0}] /\ ERASE_STEP \in [Device -> Nat \ {0}]
  /\ PacketLengths \subseteq Nat \ {0}
  /\ TIMEOUT \in Nat /\ MaxSwitches \in Nat /\ MaxJobs \in Nat

Driver == {uart_ctl, uart_upgrade}
Address == 0 .. FLASH_SIZE - 1
Erased == -1
Spoilt == -2     \* programmed twice

NORMAL_MODE  == "NORMAL_MODE"
UPGRADE_MODE == "UPGRADE_MODE"

VARIABLES
  flag,      \* upgrade_table.flag
  type,      \* upgrade_table.type, as the device
  offset,    \* the static offset of if_mcu_upgrade and if_fpga_upgrade
  calls,     \* transactions with the baseband a thread still has to make
  job,       \* locals of the erase and write routines
  content,   \* of the devices
  busy, wel, \* their status: write in progress, write enable latch
  late,      \* history: a driver gave up waiting for the device
  jobs       \* history: erase commands and packets so far, for the bound

driverVars == <<flag, type, offset, calls, job>>
chipVars == <<content, busy, wel>>
history == <<late, jobs>>
vars == <<busVars, driverVars, chipVars, history>>

FirstStep(d) == IF d = flash THEN "wren" ELSE "cmd"

NoJob == [op |-> "none", dev |-> flash, len |-> 0, actual |-> 0,
          page_addr |-> 0, byte_addr |-> 0, step |-> "cmd",
          timeout |-> 0, wip |-> FALSE]

(* spansion_write, mcu_flash_write; len counts bytes. *)
Write(d, from, len) ==
  [op |-> "write", dev |-> d, len |-> len, actual |-> 0,
   page_addr |-> from \div PAGE_SIZE, byte_addr |-> from % PAGE_SIZE,
   step |-> FirstStep(d), timeout |-> TIMEOUT, wip |-> FALSE]

(* Mutant: the last sector is left out. *)
EraseShort(d) ==
  [op |-> "erase", dev |-> d, len |-> (FLASH_SIZE \div SECTOR_SIZE[d]) - 1,
   actual |-> 0, page_addr |-> 0, byte_addr |-> 0,
   step |-> FirstStep(d), timeout |-> TIMEOUT, wip |-> FALSE]

(* spansion_erase, mcu_flash_erase of the whole device; len counts sectors. *)
Erase(d) ==
  [op |-> "erase", dev |-> d, len |-> FLASH_SIZE \div SECTOR_SIZE[d],
   actual |-> 0, page_addr |-> 0, byte_addr |-> 0,
   step |-> FirstStep(d), timeout |-> TIMEOUT, wip |-> FALSE]

Init ==
  /\ BusInit
  /\ flag = NORMAL_MODE /\ type = baseband
  /\ offset = [d \in Device |-> 0]
  /\ calls = [t \in Thread |-> 0]
  /\ job = [t \in Driver |-> NoJob]
  /\ content = [d \in Device |-> [a \in Address |-> Erased]]
  /\ busy = [d \in Device |-> FALSE] /\ wel = [d \in Device |-> FALSE]
  /\ late = [d \in Device |-> FALSE] /\ jobs = 0

Working(t) == t \in Driver /\ job[t].op # "none"
Idle(t) == at[t] = "away" /\ calls[t] = 0 /\ ~Working(t)
-----------------------------------------------------------------------------
(* What makes a thread use the bus. *)

(* A status request is two transactions; the antenna thread may switch     *)
(* antennas after it.                                                      *)
StartCalls(t, n) ==
  /\ Idle(t)
  /\ Wake(t)
  /\ calls' = [calls EXCEPT ![t] = n]
  /\ UNCHANGED <<flag, type, offset, job, chipVars, history>>

AntennaRound == \E n \in 2 .. 2 + MaxSwitches : StartCalls(antenna, n)

ChangeSetting == \E t \in Setters : StartCalls(t, 1)

(* The control thread executes a setter or GET_DEV_STATUS, *)
CtlCalls == flag = NORMAL_MODE /\ \E n \in {1, 2} : StartCalls(uart_ctl, n)

StartJob(t, j) ==
  /\ Idle(t) /\ jobs < MaxJobs
  /\ Wake(t)
  /\ job' = [job EXCEPT ![t] = j]
  /\ jobs' = jobs + 1
  /\ UNCHANGED <<flag, type, offset, calls, chipVars, late>>

(* FPGA_FLASH_ERASE, *)
CtlEraseFpga == flag = NORMAL_MODE /\ StartJob(uart_ctl, Erase(flash))

(* MCU_FLASH_ERASE: first the strap that makes MCU1 start its boot loader, *)
(* which is the chip select of the baseband.                               *)
CtlEraseMcu ==
  flag = NORMAL_MODE /\ StartJob(uart_ctl, [Erase(baseband) EXCEPT !.op = "strap"])

StrapLow ==
  /\ job[uart_ctl].op = "strap"
  /\ Drive(uart_ctl, baseband, "low")
  /\ job' = [job EXCEPT ![uart_ctl].op = "boot"]
  /\ UNCHANGED <<flag, type, offset, calls, chipVars, history>>

StrapHigh ==
  /\ job[uart_ctl].op = "boot"
  /\ Drive(uart_ctl, baseband, "high")
  /\ job' = [job EXCEPT ![uart_ctl] = Erase(baseband)]
  /\ UNCHANGED <<flag, type, offset, calls, chipVars, history>>

(* MCU_FLASH_PROG, FPGA_FLASH_PROG. *)
CtlProg ==
  /\ flag = NORMAL_MODE
  /\ Idle(uart_ctl) /\ MayRun(uart_ctl)
  /\ flag' = UPGRADE_MODE
  /\ type' \in Device
  /\ UNCHANGED <<busVars, offset, calls, job, chipVars, history>>

(* The upgrade thread has a packet: if_mcu_upgrade, if_fpga_upgrade. *)
UpgPacket ==
  /\ flag = UPGRADE_MODE
  /\ \E len \in PacketLengths :
       /\ offset[type] + len <= FLASH_SIZE
       /\ StartJob(uart_upgrade, Write(type, offset[type], len))

(* Mutant: the mode ends while the last packet is being programmed. *)
UpgEndsEarly ==
  /\ flag = UPGRADE_MODE
  /\ at[uart_upgrade] = "away" /\ MayRun(uart_upgrade)
  /\ flag' = NORMAL_MODE
  /\ UNCHANGED <<busVars, type, offset, calls, job, chipVars, history>>

UpgEnds ==
  /\ flag = UPGRADE_MODE
  /\ Idle(uart_upgrade) /\ MayRun(uart_upgrade)
  /\ flag' = NORMAL_MODE
  /\ UNCHANGED <<busVars, type, offset, calls, job, chipVars, history>>

(* A delay inside a routine ends. *)
DelayEnds(t) ==
  /\ Working(t)
  /\ Wake(t)
  /\ UNCHANGED <<driverVars, chipVars, history>>
-----------------------------------------------------------------------------
(* A transaction of a thread that only calls the baseband. *)

CallTakes(t) ==
  /\ ~Working(t) /\ calls[t] > 0 /\ Take(t, baseband)
  /\ UNCHANGED <<driverVars, chipVars, history>>

Selects(t) == Select(t) /\ UNCHANGED <<driverVars, chipVars, history>>

CallEnds(t) == ~Working(t) /\ Deselect(t) /\ UNCHANGED <<driverVars, chipVars, history>>

CallReturns(t) ==
  /\ ~Working(t)
  /\ Release(t, IF calls[t] = 1 THEN "away" ELSE "running")
  /\ calls' = [calls EXCEPT ![t] = @ - 1]
  /\ UNCHANGED <<flag, type, offset, job, chipVars, history>>
-----------------------------------------------------------------------------
(* A transaction of an erase or write routine.  The device carries out a   *)
(* command when its chip select rises.                                     *)

JobTakes(t) ==
  /\ Working(t) /\ job[t].op \in {"erase", "write"}
  /\ Take(t, job[t].dev)
  /\ UNCHANGED <<driverVars, chipVars, history>>

ChunkToPage(j) == IF j.len - j.actual < PAGE_SIZE THEN j.len - j.actual ELSE PAGE_SIZE

(* chunk_len of the write routines *)
Chunk(j) ==
  LET rest == PAGE_SIZE - j.byte_addr
  IN IF j.len - j.actual < rest THEN j.len - j.actual ELSE rest

(* What a page program puts at address a: the byte of the chunk that falls *)
(* there when addresses wrap at the end of the page.                       *)
Programmed(d, j, a) ==
  LET nth == (a - j.byte_addr) % PAGE_SIZE
  IN IF a \div PAGE_SIZE # j.page_addr \/ nth >= Chunk(j) THEN content[d][a]
     ELSE IF content[d][a] = Erased THEN offset[d] + j.actual + nth
     ELSE Spoilt

(* What a sector erase leaves there: the sector that the address of the    *)
(* command is in is erased.                                                *)
AfterErase(d, j, a) ==
  IF a \div SECTOR_SIZE[d] = (j.actual * ERASE_STEP[d]) \div SECTOR_SIZE[d]
  THEN Erased ELSE content[d][a]

(* WREN *)
WriteEnable(d) ==
  /\ wel' = [wel EXCEPT ![d] = wel[d] \/ ~busy[d]]
  /\ UNCHANGED <<content, busy>>

(* PP, SE *)
Accepts(d) == ~busy[d] /\ (d = flash => wel[d])

ProgramOrErase(d, j) ==
  \/ /\ Accepts(d)
     /\ content' = [content EXCEPT ![d] = [a \in Address |->
          IF j.op = "write" THEN Programmed(d, j, a) ELSE AfterErase(d, j, a)]]
     /\ busy' = [busy EXCEPT ![d] = TRUE]
     /\ wel' = [wel EXCEPT ![d] = FALSE]
  \/ ~Accepts(d) /\ UNCHANGED chipVars

JobEnds(t) ==
  /\ Working(t)
  /\ Deselect(t)
  /\ LET j == job[t] d == j.dev
     IN \/ j.step = "wren" /\ WriteEnable(d) /\ UNCHANGED job
        \/ j.step = "cmd" /\ ProgramOrErase(d, j) /\ UNCHANGED job
        \/ /\ j.step = "ready"
           /\ job' = [job EXCEPT ![t].wip = busy[d]]
           /\ UNCHANGED chipVars
  /\ UNCHANGED <<flag, type, offset, calls, history>>

(* The device gets ready. *)
DeviceReady(d) ==
  /\ busy[d]
  /\ busy' = [busy EXCEPT ![d] = FALSE]
  /\ UNCHANGED <<busVars, driverVars, content, wel, history>>

Piece(j) == IF j.op = "write" THEN Chunk(j) ELSE 1

(* Mutant: one write-enable for all pages. *)
NextPieceEnabled(j) ==
  [op |-> j.op, dev |-> j.dev, len |-> j.len,
   actual |-> j.actual + Piece(j), page_addr |-> j.page_addr + 1, byte_addr |-> 0,
   step |-> "cmd", timeout |-> TIMEOUT, wip |-> j.wip]

NextPiece(j) ==
  [op |-> j.op, dev |-> j.dev, len |-> j.len,
   actual |-> j.actual + Piece(j), page_addr |-> j.page_addr + 1, byte_addr |-> 0,
   step |-> FirstStep(j.dev), timeout |-> TIMEOUT, wip |-> j.wip]

(* The routine returns; the offset moves on whatever it returns. *)
JobReturns(t) ==
  /\ Release(t, "away")
  /\ job' = [job EXCEPT ![t] = NoJob]
  /\ offset' = IF job[t].op = "write"
               THEN [offset EXCEPT ![job[t].dev] = @ + job[t].len] ELSE offset

(* A transaction returns inside the routine, to its next command, *)
JobSends(t) ==
  /\ Working(t) /\ job[t].step \in {"wren", "cmd"}
  /\ Release(t, "running")
  /\ job' = [job EXCEPT ![t].step = IF @ = "wren" THEN "cmd" ELSE "ready"]
  /\ UNCHANGED <<flag, type, offset, calls, chipVars, history>>

(* to the next page or sector, or to the end, *)
JobReady(t) ==
  /\ Working(t) /\ job[t].step = "ready" /\ ~job[t].wip
  /\ \/ /\ job[t].actual + Piece(job[t]) >= job[t].len
        /\ JobReturns(t)
     \/ /\ job[t].actual + Piece(job[t]) < job[t].len
        /\ Release(t, "running")
        /\ job' = [job EXCEPT ![t] = NextPiece(job[t])]
        /\ UNCHANGED offset
  /\ UNCHANGED <<flag, type, calls, chipVars, history>>

(* Mutants: polls are not counted; one is made too many. *)
JobWaitsUncounted(t) ==
  /\ Working(t) /\ job[t].step = "ready" /\ job[t].wip /\ job[t].timeout > 0
  /\ Release(t, IF job[t].dev = flash THEN "away" ELSE "running")
  /\ UNCHANGED <<driverVars, chipVars, history>>

JobWaitsPastZero(t) ==
  /\ Working(t) /\ job[t].step = "ready" /\ job[t].wip /\ job[t].timeout >= 0
  /\ Release(t, IF job[t].dev = flash THEN "away" ELSE "running")
  /\ job' = [job EXCEPT ![t].timeout = @ - 1]
  /\ UNCHANGED <<flag, type, offset, calls, chipVars, history>>

(* or to the next poll: spansion_wait_ready sleeps two ticks before it,    *)
(* mcu_flash_wait_ready counts a millisecond away.                         *)
JobWaits(t) ==
  /\ Working(t) /\ job[t].step = "ready" /\ job[t].wip /\ job[t].timeout > 0
  /\ Release(t, IF job[t].dev = flash THEN "away" ELSE "running")
  /\ job' = [job EXCEPT ![t].timeout = @ - 1]
  /\ UNCHANGED <<flag, type, offset, calls, chipVars, history>>

(* "timed out" *)
JobGivesUp(t) ==
  /\ Working(t) /\ job[t].step = "ready" /\ job[t].wip /\ job[t].timeout = 0
  /\ JobReturns(t)
  /\ late' = [late EXCEPT ![job[t].dev] = TRUE]
  /\ UNCHANGED <<flag, type, calls, chipVars, jobs>>
-----------------------------------------------------------------------------
Command ==
  \/ AntennaRound \/ ChangeSetting
  \/ CtlCalls \/ CtlEraseFpga \/ CtlEraseMcu \/ CtlProg
  \/ UpgPacket \/ UpgEnds

Transaction(t) ==
  \/ CallTakes(t) \/ CallEnds(t) \/ CallReturns(t)
  \/ Selects(t)
  \/ JobTakes(t) \/ JobEnds(t) \/ JobSends(t)
  \/ JobReady(t) \/ JobWaits(t) \/ JobGivesUp(t)
  \/ DelayEnds(t)
  \/ t = uart_ctl /\ (StrapLow \/ StrapHigh)

Next ==
  \/ Command
  \/ \E t \in Thread : Transaction(t)
  \/ \E d \in Device : DeviceReady(d)

Spec == Init /\ [][Next]_vars

(* A thread goes on with what it has begun: those above it in priority     *)
(* sleep again after a few transactions (antenna_sw.c:118), and those of   *)
(* its own priority share the time.                                        *)
FairSpec == Spec /\ \A t \in Thread : SF_vars(Transaction(t))
-----------------------------------------------------------------------------
JobType ==
  [op : {"none", "strap", "boot", "erase", "write"}, dev : Device,
   len : Nat, actual : Nat, page_addr : Nat, byte_addr : Nat,
   step : {"wren", "cmd", "ready"}, timeout : 0 .. TIMEOUT, wip : BOOLEAN]

TypeOK ==
  /\ BusTypeOK
  /\ flag \in {NORMAL_MODE, UPGRADE_MODE} /\ type \in Device
  /\ offset \in [Device -> Nat]
  /\ calls \in [Thread -> 0 .. 2 + MaxSwitches]
  /\ job \in [Driver -> JobType]
  /\ content \in [Device -> [Address -> Nat \cup {Erased, Spoilt}]]
  /\ busy \in [Device -> BOOLEAN] /\ wel \in [Device -> BOOLEAN]
  /\ late \in [Device -> BOOLEAN] /\ jobs \in 0 .. MaxJobs

(* While a device is talked to, the bus is locked and configured for it    *)
(* and the other device does not listen.  The last part depends on the     *)
(* modes: the strap of the erase command selects the baseband without the  *)
(* lock.                                                                   *)
OneDeviceTalks ==
  \A t \in Thread : at[t] = "selected" =>
    /\ lock = t /\ config = dev[t]
    /\ \A d \in Device \ {dev[t]} : cs[d] = "high"

(* Every byte is programmed at its own address, once, however the packet   *)
(* lengths mix: no chunk crosses the end of a page, where the device would *)
(* wrap.                                                                   *)
BytesInPlace ==
  \A d \in Device, a \in Address : content[d][a] \in {a, Erased}

(* A packet has been programmed in full when if_mcu_upgrade or             *)
(* if_fpga_upgrade returns, unless a wait timed out: each page is enabled, *)
(* the device is ready for it, and other threads' transactions in between  *)
(* do no harm.                                                             *)
PacketsAreWhole ==
  [][\A d \in Device :
       /\ job[uart_upgrade].op = "write" /\ job[uart_upgrade].dev = d
       /\ job'[uart_upgrade].op = "none" /\ ~late'[d]
       => \A a \in offset[d] .. offset'[d] - 1 : content'[d][a] = a]_vars

(* "Successfully erased %u bytes" (spansion.c:242): all of the flash is    *)
(* erased when the erase routine comes to that line, unless it timed out.  *)
ErasedAsReported ==
  [][job[uart_ctl].op = "erase" /\ job'[uart_ctl].op = "none"
       /\ ~late'[job[uart_ctl].dev]
       => \A a \in Address : content'[job[uart_ctl].dev][a] = Erased]_vars

(* Every thread that waits for the bus gets it, the antenna thread's       *)
(* priority and an upgrade of any length notwithstanding.                  *)
BusServed == \A t \in Thread : at[t] = "suspended" ~> at[t] = "locked"

(* An erase or a write returns, also when the device never gets ready.     *)
JobsReturn == \A t \in Driver : Working(t) ~> ~Working(t)
=============================================================================
