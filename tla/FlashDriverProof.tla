-------------------------- MODULE FlashDriverProof --------------------------
(***************************************************************************)
(* For any threads, page size, packet lengths and bounds: the types of the *)
(* drivers' state; that every byte is programmed at its own address, once; *)
(* that a packet has been programmed in full when its routine returns, and *)
(* a device is erased when the erase routine says so, unless a wait timed  *)
(* out.                                                                    *)
(***************************************************************************)
EXTENDS SpiBusProof

(* Page arithmetic: an address is where its page and its place in the page *)
(* say,                                                                    *)
LEMMA DivMod ==
  ASSUME NEW a \in Int, NEW n \in Nat \ {0}
  PROVE  /\ a = (a \div n) * n + (a % n)
         /\ a \div n \in Int /\ a % n \in 0 .. n - 1
OBVIOUS

(* a page number that is off by a page or more is off by that much, *)
LEMMA OnePageOff ==
  ASSUME NEW k \in Int, NEW n \in Nat \ {0}, k * n < n, k * n > -2 * n
  PROVE  k = 0 \/ k = -1
<1>1. CASE k >= 1
  <2>1. k * n >= n
    BY <1>1
  <2>2. QED  BY <2>1
<1>2. CASE k <= -2
  <2>1. (k + 2) * n <= 0
    BY <1>2
  <2>2. (k + 2) * n = k * n + 2 * n
    OBVIOUS
  <2>3. QED  BY <2>1, <2>2
<1>3. QED  BY <1>1, <1>2

(* and the n-th byte of a chunk that starts at byte b of page p and stays  *)
(* in it falls at the address that it belongs to.                          *)
LEMMA NthByte ==
  ASSUME NEW n \in Nat \ {0}, NEW a \in Int, NEW p \in Int, NEW b \in 0 .. n - 1,
         a \div n = p, (a - b) % n < n - b
  PROVE  p * n + b + ((a - b) % n) = a
<1> DEFINE q == (a - b) \div n
           m == (a - b) % n
           r == a % n
<1>1. a = p * n + r /\ r \in 0 .. n - 1
  BY DivMod
<1>2. a - b = (q * n) + m /\ q \in Int /\ m \in 0 .. n - 1
  <2>1. a - b \in Int
    OBVIOUS
  <2> DEFINE c == a - b
  <2>2. c = (c \div n) * n + (c % n) /\ c \div n \in Int /\ c % n \in 0 .. n - 1
    <3> HIDE DEF c
    <3> QED  BY <2>1, DivMod DEF c
  <2>3. QED  BY <2>2
<1>3. m < n - b /\ m = (a - b) % n
  OBVIOUS
<1> HIDE DEF q, m, r
<1>4. (q - p) * n = q * n - p * n
  BY <1>2
<1>5. q * n - p * n = r - b - m
  BY <1>1, <1>2
<1>6. r - b - m < n /\ r - b - m > -2 * n
  BY <1>1, <1>2
<1>7. q - p = 0 \/ q - p = -1
  <2>1. q - p \in Int
    BY <1>2
  <2>2. QED  BY <2>1, <1>4, <1>5, <1>6, OnePageOff
<1>8. CASE q - p = 0
  <2>1. q * n - p * n = 0
    BY <1>4, <1>8
  <2>2. p * n + b + m = a
    BY <1>1, <1>2, <1>5, <2>1
  <2>3. QED  BY <1>3, <2>2
<1>9. CASE q - p = -1
  <2>1. q * n - p * n = -n
    BY <1>4, <1>9
  <2>2. m = r - b + n
    BY <1>1, <1>2, <1>5, <2>1
  <2>3. QED  BY <1>1, <1>3, <2>2
<1>10. QED  BY <1>7, <1>8, <1>9
-----------------------------------------------------------------------------
(* Types of what DriverInv leaves out. *)
ChipInv ==
  /\ flag \in {NORMAL_MODE, UPGRADE_MODE}
  /\ content \in [Device -> [Address -> Nat \cup {Erased, Spoilt}]]
  /\ wel \in [Device -> BOOLEAN]
  /\ late \in [Device -> BOOLEAN] /\ jobs \in 0 .. MaxJobs

JobOK(j) ==
  /\ j.len \in Nat /\ j.actual \in Nat /\ j.page_addr \in Nat
  /\ j.byte_addr \in 0 .. PAGE_SIZE - 1 /\ j.timeout \in 0 .. TIMEOUT
  /\ j.op = "write" => j.actual <= j.len

CountInv == offset \in [Device -> Nat] /\ \A t \in Driver : JobOK(job[t])

(* Who uses the bus outside the routines still has a call to make. *)
CallsInv ==
  /\ calls \in [Thread -> 0 .. 2 + MaxSwitches]
  /\ \A t \in Thread : Wants(t) /\ ~Working(t) => calls[t] > 0

(* The routine is where the bytes it sends belong. *)
PlaceInv ==
  job[uart_upgrade].op = "write" =>
    offset[job[uart_upgrade].dev] + job[uart_upgrade].actual
      = job[uart_upgrade].page_addr * PAGE_SIZE + job[uart_upgrade].byte_addr

(* The device has been given the chunk. *)
Given(j, place) == j.step = "ready" \/ (j.step = "cmd" /\ place = "deselected")

(* How far a device d may have been programmed, if off is where the packet *)
(* goes that the routine of j programs.                                    *)
ReachOf(d, off, j, place) ==
  off + (IF j.op = "write" /\ j.dev = d
         THEN j.actual + (IF Given(j, place) THEN Chunk(j) ELSE 0)
         ELSE 0)

Reach(d) == ReachOf(d, offset[d], job[uart_upgrade], at[uart_upgrade])

ContentInv ==
  \A d \in Device, a \in Address :
    content[d][a] # Erased => content[d][a] = a /\ a < Reach(d)

FlashInv ==
  TalkInv /\ ChipInv /\ CountInv /\ CallsInv /\ PlaceInv /\ ContentInv

(* The two drivers are two threads. *)
LEMMA Drivers ==
  /\ uart_ctl \in Driver /\ uart_upgrade \in Driver /\ uart_ctl # uart_upgrade
  /\ \A t \in Driver : t \in Thread /\ (t = uart_ctl \/ t = uart_upgrade)
  /\ antenna \in Thread /\ antenna \notin Driver
  /\ \A t \in Setters : t \in Thread /\ t \notin Driver
BY FlashDriverAssumption DEF Driver

(* Where a step leaves the thread that makes it. *)
LEMMA ItselfAt ==
  ASSUME BusInv, NEW t \in Thread
  PROVE  /\ \A d \in Device : Take(t, d) => at[t] = "running" /\ at'[t] # "deselected"
         /\ Select(t) => at[t] = "locked" /\ at'[t] = "selected"
         /\ Deselect(t) => at[t] = "selected" /\ at'[t] = "deselected"
<1>1. at \in [Thread -> Place]
  BY DEF BusInv, BusTypeOK
<1>2. QED  BY <1>1 DEF Take, TakeFree, TakeBusy, Select, Deselect, Goto

(* The others stay at the end of a transaction if they are there. *)
LEMMA OthersAt ==
  ASSUME BusInv, NEW t \in Thread, BusStep(t)
  PROVE  \A u \in Thread \ {t} : at'[u] = "deselected" <=> at[u] = "deselected"
<1>1. at \in [Thread -> Place] /\ suspended \in Seq(Thread)
  BY DEF BusInv, BusTypeOK
<1>2. CASE Wake(t)
  BY <1>1, <1>2 DEF Wake, Goto
<1>3. CASE \E d \in Device : Take(t, d)
  BY <1>1, <1>3 DEF Take, TakeFree, TakeBusy, Goto
<1>4. CASE Select(t) \/ Deselect(t)
  BY <1>1, <1>4 DEF Select, Deselect, Goto
<1>5. CASE \E place \in {"away", "running"} : Release(t, place)
  <2>1. PICK place \in {"away", "running"} : Release(t, place)
    BY <1>5
  <2>2. CASE suspended = <<>>
    BY <1>1, <2>1, <2>2 DEF Release, Goto
  <2>3. CASE suspended # <<>>
    <3>1. /\ Head(suspended) \in Thread /\ at[Head(suspended)] = "suspended"
      <4>1. /\ Len(suspended) \in Nat \ {0} /\ Head(suspended) = suspended[1]
            /\ suspended[1] \in Thread
        BY <1>1, <2>3, QueueTail
      <4>2. 1 \in 1 .. Len(suspended)
        BY <4>1
      <4>3. QED  BY <4>1, <4>2 DEF BusInv, MutexExcludes
    <3>2. at' = [at EXCEPT ![t] = place, ![Head(suspended)] = "locked"]
      BY <2>1, <2>3 DEF Release
    <3>3. QED  BY <1>1, <3>1, <3>2
  <2>4. QED  BY <2>2, <2>3
<1>6. CASE \E d \in Device, level \in {"low", "high"} : Drive(t, d, level)
  BY <1>1, <1>6 DEF Drive, Goto
<1>7. QED  BY <1>2, <1>3, <1>4, <1>5, <1>6 DEF BusStep

(* The chunk a routine sends next stays in its page and in its packet; if  *)
(* it does not end the packet it ends the page.                            *)
LEMMA ChunkFits ==
  ASSUME NEW j \in JobRecord, JobOK(j), j.op = "write"
  PROVE  /\ Chunk(j) \in Nat /\ Chunk(j) <= PAGE_SIZE - j.byte_addr
         /\ j.actual + Chunk(j) <= j.len
         /\ j.actual + Chunk(j) < j.len => Chunk(j) = PAGE_SIZE - j.byte_addr
BY FlashDriverAssumption DEF Chunk, JobOK, JobRecord

(* The jobs that the routines start with, *)
LEMMA StartsOK ==
  /\ JobOK(NoJob)
  /\ \A d \in Device, from, len \in Nat : JobOK(Write(d, from, len))
  /\ \A d \in Device : JobOK(Erase(d)) /\ JobOK([Erase(d) EXCEPT !.op = "strap"])
<1> USE FlashDriverAssumption DEF JobOK
<1>1. JobOK(NoJob)
  BY DEF NoJob
<1>2. ASSUME NEW d \in Device, NEW from \in Nat, NEW len \in Nat
      PROVE  JobOK(Write(d, from, len))
  <2>1. from \div PAGE_SIZE \in Nat /\ from % PAGE_SIZE \in 0 .. PAGE_SIZE - 1
    OBVIOUS
  <2>2. QED  BY <2>1 DEF Write
<1>3. ASSUME NEW d \in Device
      PROVE  JobOK(Erase(d)) /\ JobOK([Erase(d) EXCEPT !.op = "strap"])
  <2>1. FLASH_SIZE \div SECTOR_SIZE[d] \in Nat
    OBVIOUS
  <2>2. QED  BY <2>1 DEF Erase
<1>4. QED  BY <1>1, <1>2, <1>3

(* and those they go on with. *)
LEMMA PieceOK ==
  ASSUME NEW j \in JobRecord, JobOK(j), j.actual + Piece(j) < j.len
  PROVE  JobOK(NextPiece(j))
<1>1. Piece(j) \in Nat /\ j.actual + Piece(j) <= j.len
  BY ChunkFits DEF Piece, JobOK
<1>2. j.actual + Piece(j) \in Nat /\ j.page_addr + 1 \in Nat
  BY <1>1 DEF JobOK
<1>3. QED  BY <1>1, <1>2, FlashDriverAssumption DEF NextPiece, JobOK
-----------------------------------------------------------------------------
(* A routine starts. *)
LEMMA StartCount ==
  ASSUME CountInv, DriverInv, NEW t \in Driver, NEW j, JobOK(j), StartJob(t, j)
  PROVE  CountInv'
BY DEF StartJob, CountInv, DriverInv, JobOK

(* It ends. *)
LEMMA ReturnCount ==
  ASSUME CountInv, DriverInv, NEW t \in Driver, JobReturns(t)
  PROVE  CountInv'
<1>1. job[t] \in JobRecord /\ JobOK(job[t])
  BY DEF DriverInv, CountInv
<1>2. offset' \in [Device -> Nat]
  <2>1. offset \in [Device -> Nat] /\ job[t].dev \in Device /\ job[t].len \in Nat
    BY <1>1 DEF CountInv, JobRecord, JobOK
  <2>2. [offset EXCEPT ![job[t].dev] = @ + job[t].len] \in [Device -> Nat]
    BY <2>1
  <2>3. QED  BY <2>1, <2>2, Zenon DEF JobReturns
<1>3. \A u \in Driver : JobOK(job[u])'
  BY StartsOK DEF JobReturns, CountInv, DriverInv, JobOK
<1>4. QED  BY <1>2, <1>3 DEF CountInv

(* Offsets and counters are never negative, and a page has its bytes. *)
LEMMA CountStep == ASSUME TalkInv, CountInv, [Next]_vars PROVE CountInv'
<1>a. DriverInv
  BY DEF TalkInv
<1>1. CASE UNCHANGED vars
  BY <1>1 DEF vars, driverVars, CountInv, JobOK
<1>2. CASE Command
  <2>1. CASE AntennaRound \/ ChangeSetting \/ CtlCalls \/ UpgEnds \/ CtlProg
    BY <2>1 DEF AntennaRound, ChangeSetting, CtlCalls, UpgEnds, CtlProg, StartCalls,
                CountInv, JobOK
  <2>2. CASE CtlEraseFpga
    BY <1>a, <2>2, Drivers, StartsOK, StartCount, FlashDriverAssumption DEF CtlEraseFpga
  <2>3. CASE CtlEraseMcu
    BY <1>a, <2>3, Drivers, StartsOK, StartCount, FlashDriverAssumption DEF CtlEraseMcu
  <2>4. CASE UpgPacket
    <3>1. PICK len \in PacketLengths :
            StartJob(uart_upgrade, Write(type, offset[type], len))
      BY <2>4 DEF UpgPacket
    <3>2. len \in Nat /\ type \in Device /\ offset[type] \in Nat
      BY <1>a, FlashDriverAssumption DEF DriverInv, CountInv
    <3>3. JobOK(Write(type, offset[type], len))
      BY <3>2, StartsOK
    <3>4. QED  BY <1>a, <3>1, <3>3, Drivers, StartCount
  <2>5. QED  BY <1>2, <2>1, <2>2, <2>3, <2>4 DEF Command
<1>3. CASE \E t \in Thread : Transaction(t)
  <2>1. PICK t \in Thread : Transaction(t)
    BY <1>3
  <2>2. CASE CallTakes(t) \/ CallEnds(t) \/ CallReturns(t) \/ Selects(t)
             \/ JobTakes(t) \/ DelayEnds(t)
    BY <2>2 DEF CallTakes, CallEnds, CallReturns, Selects, JobTakes, DelayEnds,
                CountInv, JobOK, driverVars
  <2>3. CASE JobEnds(t)
    <3>1. t \in Driver /\ offset' = offset
          /\ (job' = job \/ job' = [job EXCEPT ![t].wip = busy[job[t].dev]])
      BY <2>3 DEF JobEnds, Working
    <3>2. \A u \in Driver : JobOK(job'[u])
      BY <1>a, <3>1 DEF CountInv, JobOK, DriverInv, JobRecord
    <3>3. QED  BY <3>1, <3>2 DEF CountInv, JobOK
  <2>4. CASE JobSends(t)
    <3>1. /\ t \in Driver /\ offset' = offset
          /\ \E st \in Step : job' = [job EXCEPT ![t].step = st]
      BY <1>a, <2>4 DEF JobSends, Working, Step
    <3>2. \A u \in Driver : JobOK(job'[u])
      BY <1>a, <3>1 DEF CountInv, JobOK, DriverInv, JobRecord
    <3>3. QED  BY <3>1, <3>2 DEF CountInv, JobOK
  <2>5. CASE JobReady(t)
    <3>1. t \in Driver
      BY <2>5 DEF JobReady, Working
    <3>2. CASE JobReturns(t)
      BY <1>a, <3>1, <3>2, ReturnCount
    <3>3. CASE ~JobReturns(t)
      <4>1. /\ job[t].actual + Piece(job[t]) < job[t].len
            /\ job' = [job EXCEPT ![t] = NextPiece(job[t])] /\ offset' = offset
        BY <2>5, <3>3 DEF JobReady
      <4>2. job[t] \in JobRecord /\ JobOK(job[t])
        BY <1>a, <3>1 DEF DriverInv, CountInv
      <4>3. JobOK(NextPiece(job[t]))
        BY <4>1, <4>2, PieceOK
      <4>4. QED  BY <1>a, <3>1, <4>1, <4>3 DEF CountInv, JobOK, DriverInv
    <3>4. QED  BY <3>2, <3>3
  <2>6. CASE JobWaits(t)
    <3>1. /\ t \in Driver /\ offset' = offset /\ job[t].timeout > 0
          /\ job' = [job EXCEPT ![t].timeout = @ - 1]
      BY <2>6 DEF JobWaits, Working
    <3>2. \A u \in Driver : JobOK(job'[u])
      BY <1>a, <3>1, FlashDriverAssumption DEF CountInv, JobOK, DriverInv, JobRecord
    <3>3. QED  BY <3>1, <3>2 DEF CountInv, JobOK
  <2>7. CASE JobGivesUp(t)
    BY <1>a, <2>7, ReturnCount DEF JobGivesUp, Working
  <2>8. CASE t = uart_ctl /\ StrapLow
    <3>1. offset' = offset /\ job' = [job EXCEPT ![uart_ctl].op = "boot"]
      BY <2>8 DEF StrapLow
    <3>2. \A u \in Driver : JobOK(job'[u])
      BY <1>a, <3>1, Drivers DEF CountInv, JobOK, DriverInv, JobRecord
    <3>3. QED  BY <3>1, <3>2 DEF CountInv, JobOK
  <2>9. CASE t = uart_ctl /\ StrapHigh
    <3>1. offset' = offset /\ job' = [job EXCEPT ![uart_ctl] = Erase(baseband)]
      BY <2>9 DEF StrapHigh
    <3>2. QED
      BY <1>a, <3>1, Drivers, StartsOK, FlashDriverAssumption DEF CountInv, JobOK, DriverInv
  <2>10. QED
    BY <2>1, <2>2, <2>3, <2>4, <2>5, <2>6, <2>7, <2>8, <2>9 DEF Transaction
<1>4. CASE \E d \in Device : DeviceReady(d)
  BY <1>4 DEF DeviceReady, driverVars, CountInv, JobOK
<1>5. QED  BY <1>1, <1>2, <1>3, <1>4 DEF Next

(* Who changes the contents of a device, *)
LEMMA ContentFrame ==
  ASSUME [Next]_vars
  PROVE  content' = content \/ \E t \in Driver : JobEnds(t)
<1>1. CASE UNCHANGED vars
  BY <1>1 DEF vars, chipVars
<1>2. CASE Command
  BY <1>2 DEF Command, AntennaRound, ChangeSetting, CtlCalls, CtlEraseFpga, CtlEraseMcu,
              CtlProg, UpgPacket, UpgEnds, StartCalls, StartJob, chipVars
<1>3. CASE \E t \in Thread : Transaction(t)
  BY <1>3 DEF Transaction, CallTakes, CallEnds, CallReturns, Selects, JobTakes, DelayEnds,
              JobEnds, Working, JobSends, JobReady, JobWaits, JobGivesUp, StrapLow,
              StrapHigh, chipVars
<1>4. CASE \E d \in Device : DeviceReady(d)
  BY <1>4 DEF DeviceReady
<1>5. QED  BY <1>1, <1>2, <1>3, <1>4 DEF Next

(* and how. *)
LEMMA ContentChange ==
  ASSUME NEW t \in Driver, JobEnds(t), content' # content
  PROVE  /\ job' = job /\ job[t].step = "cmd"
         /\ content' = [content EXCEPT ![job[t].dev] = [a \in Address |->
                          IF job[t].op = "write" THEN Programmed(job[t].dev, job[t], a)
                          ELSE AfterErase(job[t].dev, job[t], a)]]
BY DEF JobEnds, WriteEnable, ProgramOrErase, chipVars

(* The devices' state has its type. *)
LEMMA ChipStep == ASSUME TalkInv, CountInv, ChipInv, [Next]_vars PROVE ChipInv'
<1>a. DriverInv
  BY DEF TalkInv
<1>1. content' \in [Device -> [Address -> Nat \cup {Erased, Spoilt}]]
  <2>1. CASE content' = content
    BY <2>1 DEF ChipInv
  <2>2. ASSUME NEW t \in Driver, JobEnds(t), content' # content
        PROVE  content' \in [Device -> [Address -> Nat \cup {Erased, Spoilt}]]
    <3> DEFINE j == job[t]
    <3>1. j \in JobRecord /\ JobOK(j) /\ j.dev \in Device /\ offset[j.dev] \in Nat
      BY <1>a DEF DriverInv, CountInv, JobRecord
    <3> HIDE DEF j
    <3>2. \A a \in Address : content[j.dev][a] \in Nat \cup {Erased, Spoilt}
      BY <3>1 DEF ChipInv
    <3>3. ASSUME NEW a \in Address
          PROVE  /\ Programmed(j.dev, j, a) \in Nat \cup {Erased, Spoilt}
                 /\ AfterErase(j.dev, j, a) \in Nat \cup {Erased, Spoilt}
      <4>1. (a - j.byte_addr) % PAGE_SIZE \in Nat
        BY <3>1, FlashDriverAssumption DEF JobOK, Address
      <4>2. offset[j.dev] + j.actual + ((a - j.byte_addr) % PAGE_SIZE) \in Nat
        BY <3>1, <4>1 DEF JobOK
      <4>3. QED  BY <3>2, <4>2 DEF Programmed, AfterErase
    <3>4. content' = [content EXCEPT ![j.dev] = [a \in Address |->
                        IF j.op = "write" THEN Programmed(j.dev, j, a)
                        ELSE AfterErase(j.dev, j, a)]]
      BY <2>2, ContentChange DEF j
    <3>5. [a \in Address |-> IF j.op = "write" THEN Programmed(j.dev, j, a)
                             ELSE AfterErase(j.dev, j, a)]
            \in [Address -> Nat \cup {Erased, Spoilt}]
      BY <3>3
    <3>6. QED  BY <3>1, <3>4, <3>5 DEF ChipInv
  <2>3. QED  BY <2>1, <2>2, ContentFrame
<1>2. flag' \in {NORMAL_MODE, UPGRADE_MODE} /\ jobs' \in 0 .. MaxJobs
  <2>1. CASE Command
    BY <2>1, FlashDriverAssumption
    DEF Command, AntennaRound, ChangeSetting, CtlCalls, CtlEraseFpga, CtlEraseMcu,
        CtlProg, UpgPacket, UpgEnds, StartCalls, StartJob, history, ChipInv
  <2>2. CASE ~Command
    <3>1. flag' = flag /\ jobs' = jobs
      BY <2>2 DEF Next, Transaction, CallTakes, CallEnds, CallReturns, Selects, JobTakes,
                  DelayEnds, JobEnds, JobSends, JobReady, JobWaits, JobGivesUp, StrapLow,
                  StrapHigh, DeviceReady, driverVars, history, vars
    <3>2. QED  BY <3>1 DEF ChipInv
  <2>3. QED  BY <2>1, <2>2
<1>3. wel' \in [Device -> BOOLEAN]
  <2>1. CASE \E t \in Driver : JobEnds(t)
    <3>1. PICK t \in Driver : JobEnds(t)
      BY <2>1
    <3>2. \/ \E d \in Device : WriteEnable(d)
          \/ \E d \in Device : ProgramOrErase(d, job[t])
          \/ UNCHANGED chipVars
      BY <1>a, <3>1 DEF JobEnds, DriverInv, JobRecord
    <3>3. CASE \E d \in Device : WriteEnable(d)
      <4>1. PICK d \in Device : wel' = [wel EXCEPT ![d] = wel[d] \/ ~busy[d]]
        BY <3>3 DEF WriteEnable
      <4>2. (wel[d] \/ ~busy[d]) \in BOOLEAN
        OBVIOUS
      <4>3. QED  BY <4>1, <4>2, Zenon DEF ChipInv
    <3>4. CASE \E d \in Device : ProgramOrErase(d, job[t])
      BY <3>4 DEF ProgramOrErase, ChipInv, chipVars
    <3>5. CASE UNCHANGED chipVars
      BY <3>5 DEF ChipInv, chipVars
    <3>6. QED  BY <3>2, <3>3, <3>4, <3>5
  <2>2. CASE ~\E t \in Driver : JobEnds(t)
    <3>1. wel' = wel
      BY <2>2 DEF Next, Command, AntennaRound, ChangeSetting, CtlCalls, CtlEraseFpga,
                  CtlEraseMcu, CtlProg, UpgPacket, UpgEnds, StartCalls, StartJob,
                  Transaction, CallTakes, CallEnds, CallReturns, Selects, JobTakes,
                  DelayEnds, JobEnds, Working, JobSends, JobReady, JobWaits, JobGivesUp,
                  StrapLow, StrapHigh, DeviceReady, chipVars, vars
    <3>2. QED  BY <3>1 DEF ChipInv
  <2>3. QED  BY <2>1, <2>2
<1>4. late' \in [Device -> BOOLEAN]
  <2>1. CASE \E t \in Thread : JobGivesUp(t)
    <3>1. PICK t \in Driver : late' = [late EXCEPT ![job[t].dev] = TRUE]
      BY <2>1 DEF JobGivesUp, Working
    <3>2. QED  BY <3>1 DEF ChipInv
  <2>2. CASE ~\E t \in Thread : JobGivesUp(t)
    <3>1. late' = late
      BY <2>2 DEF Next, Command, AntennaRound, ChangeSetting, CtlCalls, CtlEraseFpga,
                  CtlEraseMcu, CtlProg, UpgPacket, UpgEnds, StartCalls, StartJob,
                  Transaction, CallTakes, CallEnds, CallReturns, Selects, JobTakes,
                  DelayEnds, JobEnds, JobSends, JobReady, JobWaits, StrapLow, StrapHigh,
                  DeviceReady, history, vars
    <3>2. QED  BY <3>1 DEF ChipInv
  <2>3. QED  BY <2>1, <2>2
<1>5. QED  BY <1>1, <1>2, <1>3, <1>4 DEF ChipInv
-----------------------------------------------------------------------------
(* A transaction is a step on the bus that leaves the other driver's       *)
(* routine alone.                                                          *)
LEMMA OneSteps ==
  ASSUME DriverInv, NEW t \in Thread, Transaction(t)
  PROVE  BusStep(t) /\ \A u \in Driver \ {t} : job'[u] = job[u]
<1> USE FlashDriverAssumption
<1>a. job \in [Driver -> JobRecord]
  BY DEF DriverInv
<1>1. CASE CallTakes(t) \/ CallEnds(t) \/ CallReturns(t) \/ Selects(t) \/ DelayEnds(t)
  BY <1>1 DEF CallTakes, CallEnds, CallReturns, Selects, DelayEnds, driverVars, BusStep
<1>2. CASE JobTakes(t)
  <2>1. job[t].dev \in Device
    BY <1>a, <1>2 DEF JobTakes, Working, JobRecord
  <2>2. QED  BY <1>2, <2>1 DEF JobTakes, driverVars, BusStep
<1>3. CASE JobEnds(t)
  BY <1>a, <1>3 DEF JobEnds, BusStep
<1>4. CASE JobSends(t) \/ JobReady(t) \/ JobWaits(t) \/ JobGivesUp(t)
  <2>1. BusStep(t)
    BY <1>4 DEF JobSends, JobReady, JobWaits, JobGivesUp, JobReturns, BusStep
  <2>2. \A u \in Driver \ {t} : job'[u] = job[u]
    BY <1>a, <1>4 DEF JobSends, JobReady, JobWaits, JobGivesUp, JobReturns
  <2>3. QED  BY <2>1, <2>2
<1>5. CASE t = uart_ctl /\ (StrapLow \/ StrapHigh)
  BY <1>a, <1>5 DEF StrapLow, StrapHigh, BusStep
<1>6. QED  BY <1>1, <1>2, <1>3, <1>4, <1>5 DEF Transaction

(* Calls are not miscounted by a step of one thread, if not for itself.    *)
LEMMA CallsKept ==
  ASSUME TalkInv, CallsInv, NEW t \in Thread, BusStep(t),
         \A u \in Driver \ {t} : job'[u] = job[u],
         calls' \in [Thread -> 0 .. 2 + MaxSwitches],
         \A u \in Thread \ {t} : calls'[u] = calls[u],
         Wants(t)' /\ ~Working(t)' => calls'[t] > 0
  PROVE  CallsInv'
<1>1. ASSUME NEW u \in Thread \ {t}, Wants(u)', ~Working(u)' PROVE calls'[u] > 0
  <2>1. Wants(u)
    BY <1>1, Others DEF TalkInv
  <2>2. ~Working(u)
    BY <1>1 DEF Working
  <2>3. QED  BY <2>1, <2>2 DEF CallsInv
<1>2. \A u \in Thread : (Wants(u) /\ ~Working(u))' => calls'[u] > 0
  BY <1>1
<1>3. QED  BY <1>2 DEF CallsInv

(* Each step counts the calls. *)
LEMMA CallsStep == ASSUME TalkInv, CallsInv, [Next]_vars PROVE CallsInv'
<1>a. BusInv /\ DriverInv /\ job \in [Driver -> JobRecord]
  BY DEF TalkInv, DriverInv
<1>b. calls \in [Thread -> 0 .. 2 + MaxSwitches] /\ MaxSwitches \in Nat
  BY FlashDriverAssumption DEF CallsInv
<1>1. CASE UNCHANGED vars
  BY <1>1 DEF vars, busVars, driverVars, CallsInv, Wants, Working
<1>2. CASE Command
  <2>1. ASSUME NEW t \in Thread, NEW n \in 0 .. 2 + MaxSwitches, StartCalls(t, n)
        PROVE  CallsInv'
    <3>1. Wake(t) /\ job' = job /\ calls' = [calls EXCEPT ![t] = n]
      BY <2>1 DEF StartCalls
    <3>2. BusStep(t) /\ ~Wants(t)'
      BY <1>a, <3>1, Itself DEF BusStep
    <3>3. /\ calls' \in [Thread -> 0 .. 2 + MaxSwitches]
          /\ \A u \in Thread \ {t} : calls'[u] = calls[u]
      BY <1>b, <3>1
    <3>4. QED  BY <3>1, <3>2, <3>3, CallsKept
  <2>2. ASSUME NEW t \in Driver, NEW j, StartJob(t, j) PROVE CallsInv'
    <3>1. /\ Wake(t) /\ calls' = calls /\ t \in Thread
          /\ job' = [job EXCEPT ![t] = j]
      BY <2>2, Drivers DEF StartJob
    <3>2. BusStep(t) /\ ~Wants(t)'
      BY <1>a, <3>1, Itself DEF BusStep
    <3>3. \A u \in Driver \ {t} : job'[u] = job[u]
      BY <1>a, <3>1
    <3>4. QED  BY <1>b, <3>1, <3>2, <3>3, CallsKept
  <2>3. CASE AntennaRound \/ ChangeSetting \/ CtlCalls
    <3>1. /\ \A n \in 2 .. 2 + MaxSwitches : n \in 0 .. 2 + MaxSwitches
          /\ 1 \in 0 .. 2 + MaxSwitches /\ 2 \in 0 .. 2 + MaxSwitches
      BY <1>b
    <3>2. QED  BY <2>1, <2>3, <3>1, Drivers DEF AntennaRound, ChangeSetting, CtlCalls
  <2>4. CASE CtlEraseFpga \/ CtlEraseMcu \/ UpgPacket
    BY <2>2, <2>4, Drivers DEF CtlEraseFpga, CtlEraseMcu, UpgPacket
  <2>5. CASE CtlProg \/ UpgEnds
    BY <2>5 DEF CtlProg, UpgEnds, busVars, CallsInv, Wants, Working
  <2>6. QED  BY <1>2, <2>3, <2>4, <2>5 DEF Command
<1>3. CASE \E t \in Thread : Transaction(t)
  <2>1. PICK t \in Thread : Transaction(t)
    BY <1>3
  <2>2. BusStep(t) /\ \A u \in Driver \ {t} : job'[u] = job[u]
    BY <1>a, <2>1, OneSteps
  <2>3. CASE CallReturns(t)
    <3>1. /\ ~Working(t) /\ calls' = [calls EXCEPT ![t] = @ - 1]
          /\ \E place \in {"away", "running"} : Release(t, place)
      BY <2>3 DEF CallReturns
    <3>2. ~Wants(t)' /\ at[t] = "deselected"
      BY <1>a, <3>1, Itself
    <3>3. calls[t] > 0
      BY <3>1, <3>2 DEF CallsInv, Wants, Inside
    <3>4. /\ calls' \in [Thread -> 0 .. 2 + MaxSwitches]
          /\ \A u \in Thread \ {t} : calls'[u] = calls[u]
      BY <1>b, <3>1, <3>3
    <3>5. QED  BY <2>2, <3>2, <3>4, CallsKept
  <2>4. ASSUME calls' = calls, Wants(t)' /\ ~Working(t)' => calls[t] > 0
        PROVE  CallsInv'
    BY <1>b, <2>2, <2>4, CallsKept
  <2>5. CASE CallTakes(t)
    BY <2>4, <2>5 DEF CallTakes, driverVars
  <2>6. CASE Selects(t) \/ CallEnds(t) \/ JobEnds(t)
    <3>1. Wants(t) /\ calls' = calls
      BY <1>a, <2>6, Itself DEF Selects, CallEnds, JobEnds, driverVars
    <3>2. Working(t) <=> Working(t)'
      <4>1. job' = job \/ (t \in Driver /\ job' = [job EXCEPT ![t].wip = busy[job[t].dev]])
        BY <2>6 DEF Selects, CallEnds, JobEnds, Working, driverVars
      <4>2. t \in Driver => job'[t].op = job[t].op
        BY <1>a, <4>1 DEF JobRecord
      <4>3. QED  BY <4>2 DEF Working
    <3>3. QED  BY <2>4, <3>1, <3>2 DEF CallsInv
  <2>7. CASE JobTakes(t)
    BY <2>4, <2>7 DEF JobTakes, Working, driverVars
  <2>8. CASE JobSends(t) \/ JobReady(t) \/ JobWaits(t) \/ JobGivesUp(t)
    <3>1. calls' = calls /\ \E place \in {"away", "running"} : Release(t, place)
      BY <2>8 DEF JobSends, JobReady, JobWaits, JobGivesUp, JobReturns
    <3>2. QED  BY <1>a, <2>4, <3>1, Itself
  <2>9. CASE DelayEnds(t)
    BY <1>a, <2>4, <2>9, Itself DEF DelayEnds, driverVars
  <2>10. CASE t = uart_ctl /\ (StrapLow \/ StrapHigh)
    <3>1. /\ calls' = calls
          /\ \E d \in Device, level \in {"low", "high"} : Drive(t, d, level)
      BY <2>10, FlashDriverAssumption DEF StrapLow, StrapHigh
    <3>2. QED  BY <1>a, <2>4, <3>1, Itself
  <2>11. QED
    BY <2>1, <2>3, <2>5, <2>6, <2>7, <2>8, <2>9, <2>10 DEF Transaction
<1>4. CASE \E d \in Device : DeviceReady(d)
  BY <1>4 DEF DeviceReady, busVars, driverVars, CallsInv, Wants, Working
<1>5. QED  BY <1>1, <1>2, <1>3, <1>4 DEF Next
-----------------------------------------------------------------------------
(* The place of the next page, when the chunk ends its page. *)
LEMMA NextPlace ==
  ASSUME NEW n \in Int, NEW o \in Int, NEW a \in Int, NEW p \in Int, NEW b \in Int,
         NEW c \in Int, o + a = p * n + b, c = n - b
  PROVE  o + (a + c) = (p + 1) * n + 0
<1>1. (p + 1) * n = p * n + n
  OBVIOUS
<1>2. p * n \in Int
  OBVIOUS
<1>3. QED  BY <1>1, <1>2

(* Reaches are numbers. *)
LEMMA ReachType ==
  ASSUME NEW d, NEW off \in Int, NEW j \in JobRecord, NEW place
  PROVE  ReachOf(d, off, j, place) \in Int
<1>1. Chunk(j) \in Int
  BY FlashDriverAssumption DEF Chunk, JobRecord
<1>2. QED  BY <1>1 DEF ReachOf, JobRecord

(* What has been programmed stays right if no reach shrinks and nothing is *)
(* programmed.                                                             *)
LEMMA ContentKept ==
  ASSUME DriverInv, DriverInv', ContentInv,
         \A d \in Device : Reach(d)' >= Reach(d),
         \A d \in Device, a \in Address : content'[d][a] \in {content[d][a], Erased}
  PROVE  ContentInv'
<1>1. \A d \in Device : Reach(d) \in Int /\ Reach(d)' \in Int
  BY ReachType, Drivers DEF Reach, DriverInv
<1>2. ASSUME NEW d \in Device, NEW a \in Address, content'[d][a] # Erased
      PROVE  content'[d][a] = a /\ a < Reach(d)'
  <2>1. content'[d][a] = content[d][a]
    BY <1>2
  <2>2. content[d][a] = a /\ a < Reach(d)
    BY <1>2, <2>1 DEF ContentInv
  <2>3. a \in Int /\ Reach(d) \in Int /\ Reach(d)' \in Int /\ Reach(d)' >= Reach(d)
    BY <1>1 DEF Address
  <2>4. QED  BY <2>1, <2>2, <2>3
<1>3. QED  BY <1>2 DEF ContentInv

(* The routine of the upgrade thread stays where it is. *)
LEMMA StaysPut ==
  ASSUME DriverInv, DriverInv', PlaceInv, ContentInv, offset' = offset,
         job'[uart_upgrade].op = job[uart_upgrade].op,
         job'[uart_upgrade].dev = job[uart_upgrade].dev,
         job'[uart_upgrade].len = job[uart_upgrade].len,
         job'[uart_upgrade].actual = job[uart_upgrade].actual,
         job'[uart_upgrade].page_addr = job[uart_upgrade].page_addr,
         job'[uart_upgrade].byte_addr = job[uart_upgrade].byte_addr,
         job[uart_upgrade].op = "write" =>
           (Given(job'[uart_upgrade], at'[uart_upgrade])
              <=> Given(job[uart_upgrade], at[uart_upgrade])),
         \A d \in Device, a \in Address : content'[d][a] \in {content[d][a], Erased}
  PROVE  PlaceInv' /\ ContentInv'
<1>1. PlaceInv'
  BY DEF PlaceInv
<1>2. Chunk(job'[uart_upgrade]) = Chunk(job[uart_upgrade])
  BY DEF Chunk
<1>3. \A d \in Device : Reach(d)' = Reach(d)
  BY <1>2 DEF Reach, ReachOf
<1>4. \A d \in Device : Reach(d) \in Int
  BY ReachType, Drivers DEF Reach, DriverInv
<1>5. \A d \in Device : Reach(d)' >= Reach(d)
  BY <1>3, <1>4
<1>6. QED  BY <1>1, <1>5, ContentKept

(* It starts with a packet. *)
LEMMA Begins ==
  ASSUME TalkInv, DriverInv', CountInv, ContentInv, UpgPacket
  PROVE  PlaceInv' /\ ContentInv'
<1>a. DriverInv /\ BusInv
  BY DEF TalkInv
<1>1. PICK len \in PacketLengths :
        StartJob(uart_upgrade, Write(type, offset[type], len))
  BY DEF UpgPacket
<1>2. /\ len \in Nat /\ type \in Device /\ offset[type] \in Nat
      /\ job \in [Driver -> JobRecord]
  BY <1>a, FlashDriverAssumption DEF DriverInv, CountInv
<1>3. /\ job'[uart_upgrade] = Write(type, offset[type], len)
      /\ offset' = offset /\ content' = content
      /\ job[uart_upgrade].op = "none"
      /\ at'[uart_upgrade] # "deselected"
  <2>1. /\ job' = [job EXCEPT ![uart_upgrade] = Write(type, offset[type], len)]
        /\ offset' = offset /\ content' = content /\ ~Working(uart_upgrade)
        /\ Wake(uart_upgrade)
    BY <1>1 DEF StartJob, Idle, chipVars
  <2>2. ~Wants(uart_upgrade)'
    BY <1>a, <2>1, Itself, Drivers
  <2>3. QED  BY <1>2, <2>1, <2>2, Drivers DEF Working, Wants, Inside
<1>4. PlaceInv'
  <2>1. offset[type] = (offset[type] \div PAGE_SIZE) * PAGE_SIZE + (offset[type] % PAGE_SIZE)
    <3>1. \A x \in Int, n \in Nat \ {0} : x = (x \div n) * n + (x % n)
      BY DivMod
    <3>2. offset[type] \in Int /\ PAGE_SIZE \in Nat \ {0}
      BY <1>2, FlashDriverAssumption
    <3>3. QED  BY <3>1, <3>2, Zenon
  <2>2. /\ job'[uart_upgrade].dev = type /\ job'[uart_upgrade].actual = 0
        /\ job'[uart_upgrade].page_addr = offset[type] \div PAGE_SIZE
        /\ job'[uart_upgrade].byte_addr = offset[type] % PAGE_SIZE
    BY <1>3 DEF Write
  <2>3. offset'[type] + 0 = offset[type]
    BY <1>2, <1>3
  <2>4. QED  BY <2>1, <2>2, <2>3 DEF PlaceInv
<1>5. \A d \in Device : Reach(d) = offset[d]
  BY <1>a, <1>3 DEF Reach, ReachOf, DriverInv
<1>6. ~Given(job'[uart_upgrade], at'[uart_upgrade])
  BY <1>3 DEF Given, Write, FirstStep
<1>7. \A d \in Device : Reach(d)' = offset[d]
  <2>1. job'[uart_upgrade].actual = 0 /\ \A d \in Device : offset[d] \in Int
    BY <1>a, <1>3 DEF Write, DriverInv
  <2>2. QED  BY <1>3, <1>6, <2>1 DEF Reach, ReachOf
<1>8. \A d \in Device : Reach(d)' >= Reach(d)
  BY <1>a, <1>5, <1>7 DEF DriverInv
<1>9. QED  BY <1>a, <1>3, <1>4, <1>8, ContentKept

(* It goes on to the next page. *)
LEMMA GoesOn ==
  ASSUME TalkInv, DriverInv', CountInv, PlaceInv, ContentInv,
         job[uart_upgrade].op = "write", job[uart_upgrade].step = "ready",
         job[uart_upgrade].actual + Piece(job[uart_upgrade]) < job[uart_upgrade].len,
         Release(uart_upgrade, "running"), offset' = offset, content' = content,
         job' = [job EXCEPT ![uart_upgrade] = NextPiece(job[uart_upgrade])]
  PROVE  PlaceInv' /\ ContentInv' /\ \A d \in Device : Reach(d)' = Reach(d)
<1> DEFINE j == job[uart_upgrade]
           k == job'[uart_upgrade]
<1>a. DriverInv /\ BusInv
  BY DEF TalkInv
<1>1. j \in JobRecord /\ JobOK(j) /\ k = NextPiece(j)
  BY <1>a, Drivers DEF DriverInv, CountInv
<1>2. j.op = "write" /\ j.step = "ready" /\ Piece(j) = Chunk(j)
  BY DEF Piece
<1>3. Chunk(j) = PAGE_SIZE - j.byte_addr
  BY <1>1, <1>2, ChunkFits
<1>4. /\ k.op = "write" /\ k.dev = j.dev /\ k.actual = j.actual + Chunk(j)
      /\ k.page_addr = j.page_addr + 1 /\ k.byte_addr = 0
      /\ k.step \in {"wren", "cmd"}
  BY <1>1, <1>2 DEF NextPiece, FirstStep
<1>5. at'[uart_upgrade] # "deselected"
  <2>1. ~Wants(uart_upgrade)'
    BY <1>a, Itself, Drivers
  <2>2. QED  BY <2>1 DEF Wants, Inside
<1>6. offset[j.dev] + j.actual = j.page_addr * PAGE_SIZE + j.byte_addr
  BY <1>2 DEF PlaceInv
<1>7. /\ j.dev \in Device /\ offset[j.dev] \in Int /\ j.actual \in Int
      /\ j.page_addr \in Int /\ j.byte_addr \in Int /\ PAGE_SIZE \in Int
  BY <1>a, <1>1, FlashDriverAssumption DEF DriverInv, JobRecord
<1>8. ASSUME NEW d \in Device, j.dev = d
      PROVE  /\ Reach(d) = offset[d] + (j.actual + Chunk(j))
             /\ Reach(d)' = offset[d] + (k.actual + 0)
  BY <1>2, <1>4, <1>5, <1>8 DEF Reach, ReachOf, Given
<1>9. ASSUME NEW d \in Device, j.dev = d PROVE Reach(d)' = Reach(d)
  <2>1. j.actual + Chunk(j) = k.actual + 0
    <3>1. Chunk(j) \in Int
      BY <1>3, <1>7
    <3> HIDE DEF j, k
    <3>2. QED  BY <1>4, <1>7, <3>1
  <2>2. QED  BY <1>8, <1>9, <2>1
<1>10. ASSUME NEW d \in Device, j.dev # d PROVE Reach(d)' = Reach(d)
  BY <1>4, <1>10 DEF Reach, ReachOf
<1>11. PlaceInv'
  <2>1. offset[k.dev] + k.actual = k.page_addr * PAGE_SIZE + k.byte_addr
    <3>1. Chunk(j) \in Int
      BY <1>3, <1>7
    <3> HIDE DEF j, k
    <3>2. offset[j.dev] + (j.actual + Chunk(j)) = (j.page_addr + 1) * PAGE_SIZE + 0
      BY <1>3, <1>6, <1>7, <3>1, NextPlace
    <3>3. QED  BY <1>4, <3>2
  <2>2. QED  BY <2>1 DEF PlaceInv
<1>12. \A d \in Device : Reach(d) \in Int
  BY <1>a, ReachType, Drivers DEF Reach, DriverInv
<1>13. \A d \in Device : Reach(d)' >= Reach(d)
  BY <1>9, <1>10, <1>12
<1>14. QED  BY <1>a, <1>9, <1>10, <1>11, <1>13, ContentKept

(* It returns: the offset moves past all that the device may have got. *)
LEMMA Returns ==
  ASSUME TalkInv, DriverInv', CountInv, PlaceInv, ContentInv,
         job[uart_upgrade].step = "ready", JobReturns(uart_upgrade), content' = content
  PROVE  PlaceInv' /\ ContentInv'
<1> DEFINE j == job[uart_upgrade]
<1>a. DriverInv
  BY DEF TalkInv
<1>1. /\ j \in JobRecord /\ JobOK(j) /\ j.dev \in Device
      /\ job'[uart_upgrade].op = "none"
  <2>1. job \in [Driver -> JobRecord] /\ job' = [job EXCEPT ![uart_upgrade] = NoJob]
    BY <1>a DEF DriverInv, JobReturns
  <2>2. QED  BY <2>1, Drivers DEF CountInv, JobRecord, NoJob
<1>2. PlaceInv'
  BY <1>1 DEF PlaceInv
<1>3. ASSUME NEW d \in Device PROVE Reach(d)' >= Reach(d)
  <2>1. Reach(d)' = offset'[d] + 0
    BY <1>1 DEF Reach, ReachOf
  <2>2. CASE j.op = "write" /\ j.dev = d
    <3>1. Reach(d) = offset[d] + (j.actual + Chunk(j))
      BY <2>2 DEF Reach, ReachOf, Given
    <3>2. offset \in [Device -> Int] /\ j.len \in Int /\ offset[d] \in Int
      BY <1>a, <1>1 DEF DriverInv, JobRecord
    <3>3. offset'[d] = offset[d] + j.len
      BY <2>2, <3>2 DEF JobReturns
    <3>4. Chunk(j) \in Int /\ j.actual \in Int /\ j.actual + Chunk(j) <= j.len
      BY <1>1, <2>2, ChunkFits DEF JobOK
    <3> HIDE DEF j
    <3>5. QED  BY <2>1, <3>1, <3>2, <3>3, <3>4
  <2>3. CASE ~(j.op = "write" /\ j.dev = d)
    <3>1. Reach(d) = offset[d] + 0
      BY <2>3 DEF Reach, ReachOf
    <3>2. offset \in [Device -> Int] /\ offset[d] \in Int
      BY <1>a DEF DriverInv
    <3>3. offset'[d] = offset[d]
      BY <1>1, <2>3, <3>2 DEF JobReturns
    <3>4. QED  BY <2>1, <3>1, <3>2, <3>3
  <2>4. QED  BY <2>2, <2>3
<1>4. QED  BY <1>a, <1>2, <1>3, ContentKept

(* A chunk is programmed: into erased bytes, each with its own number. *)
LEMMA ByteInPlace ==
  ASSUME DriverInv, CountInv, PlaceInv, ContentInv, NEW a \in Address,
         job[uart_upgrade].op = "write", job[uart_upgrade].step = "cmd",
         at[uart_upgrade] = "selected"
  PROVE  LET j == job[uart_upgrade]
             byte == Programmed(j.dev, j, a)
         IN  \/ byte = content[j.dev][a]
             \/ byte = a /\ a < offset[j.dev] + j.actual + Chunk(j)
<1> DEFINE j == job[uart_upgrade]
           nth == (a - j.byte_addr) % PAGE_SIZE
<1>1. j \in JobRecord /\ JobOK(j) /\ j.dev \in Device /\ j.op = "write"
  BY Drivers DEF DriverInv, CountInv, JobRecord
<1>2. Chunk(j) \in Nat /\ Chunk(j) <= PAGE_SIZE - j.byte_addr
  BY <1>1, ChunkFits
<1>3. CASE a \div PAGE_SIZE # j.page_addr \/ nth >= Chunk(j)
  BY <1>3 DEF Programmed
<1>4. CASE a \div PAGE_SIZE = j.page_addr /\ nth < Chunk(j)
  <2>1. /\ offset[j.dev] \in Int /\ j.actual \in Int /\ j.page_addr \in Int
        /\ j.byte_addr \in 0 .. PAGE_SIZE - 1 /\ PAGE_SIZE \in Nat \ {0} /\ a \in Int
    BY <1>1, FlashDriverAssumption DEF JobRecord, JobOK, DriverInv, Address
  <2>2. nth \in Nat
    <3>1. a - j.byte_addr \in Int
      BY <2>1
    <3>2. \A x \in Int, n \in Nat \ {0} : x % n \in Nat
      OBVIOUS
    <3>3. QED  BY <2>1, <3>1, <3>2
  <2>3. j.page_addr * PAGE_SIZE + j.byte_addr + nth = a
    <3>1. nth < PAGE_SIZE - j.byte_addr
      <4> HIDE DEF j, nth
      <4>1. QED  BY <1>2, <1>4, <2>1, <2>2
    <3>2. \A n \in Nat \ {0}, x \in Int, q \in Int : \A b \in 0 .. n - 1 :
            x \div n = q /\ (x - b) % n < n - b => q * n + b + ((x - b) % n) = x
      BY NthByte
    <3>3. QED  BY <1>4, <2>1, <3>1, <3>2, Zenon
  <2>4. offset[j.dev] + j.actual = j.page_addr * PAGE_SIZE + j.byte_addr
    BY <1>1 DEF PlaceInv
  <2>5. offset[j.dev] + j.actual + nth = a
    <3> HIDE DEF j, nth
    <3>1. QED  BY <2>1, <2>2, <2>3, <2>4
  <2>6. Reach(j.dev) = offset[j.dev] + (j.actual + 0)
    BY <1>1 DEF Reach, ReachOf, Given
  <2>7. a >= Reach(j.dev) /\ a < offset[j.dev] + j.actual + Chunk(j)
    <3> HIDE DEF j, nth
    <3>1. QED  BY <1>2, <1>4, <2>1, <2>2, <2>5, <2>6
  <2>8. content[j.dev][a] = Erased
    <3>1. ~(a < Reach(j.dev))
      <4> HIDE DEF j
      <4>1. QED  BY <2>1, <2>6, <2>7
    <3>2. QED  BY <1>1, <3>1 DEF ContentInv
  <2>9. Programmed(j.dev, j, a) = offset[j.dev] + j.actual + nth
    <3>1. ~(nth >= Chunk(j))
      <4> HIDE DEF j, nth
      <4>1. QED  BY <1>2, <1>4, <2>2
    <3>2. QED  BY <1>4, <2>8, <3>1 DEF Programmed
  <2>10. QED  BY <2>5, <2>7, <2>9
<1>5. nth \in Int /\ Chunk(j) \in Int
  BY <1>1, <1>2, FlashDriverAssumption DEF JobOK, Address
<1>6. nth >= Chunk(j) \/ nth < Chunk(j)
  <2> HIDE DEF nth, j
  <2>1. QED  BY <1>5
<1>7. QED  BY <1>3, <1>4, <1>6

(* The device takes a chunk: its transaction ends. *)
LEMMA Programs ==
  ASSUME TalkInv, DriverInv', CountInv, PlaceInv, ContentInv,
         JobEnds(uart_upgrade), content' # content
  PROVE  PlaceInv' /\ ContentInv'
<1> DEFINE j == job[uart_upgrade]
<1>a. DriverInv /\ BusInv /\ content' # content
  BY DEF TalkInv
<1>1. /\ j \in JobRecord /\ JobOK(j) /\ j.dev \in Device
      /\ j.op = "write" /\ j.step = "cmd"
      /\ job' = job /\ offset' = offset
      /\ content' = [content EXCEPT ![j.dev] = [a \in Address |-> Programmed(j.dev, j, a)]]
      /\ at[uart_upgrade] = "selected" /\ at'[uart_upgrade] = "deselected"
  <2>1. /\ job' = job /\ j.step = "cmd"
        /\ content' = [content EXCEPT ![j.dev] = [a \in Address |->
                         IF j.op = "write" THEN Programmed(j.dev, j, a)
                         ELSE AfterErase(j.dev, j, a)]]
    BY <1>a, Drivers, ContentChange
  <2>2. j \in JobRecord /\ JobOK(j) /\ j.dev \in Device
    BY <1>a, Drivers DEF DriverInv, CountInv, JobRecord
  <2>3. j.op = "write" /\ offset' = offset /\ Deselect(uart_upgrade)
    BY DEF JobEnds, Working, TalkInv, ModeInv
  <2>4. at[uart_upgrade] = "selected" /\ at'[uart_upgrade] = "deselected"
    BY <1>a, <2>3, Drivers, ItselfAt
  <2>5. QED  BY <2>1, <2>2, <2>3, <2>4
<1>2. PlaceInv'
  BY <1>1 DEF PlaceInv
<1>3. Chunk(j) \in Nat /\ \A d \in Device : offset[d] \in Int
  BY <1>a, <1>1, ChunkFits DEF DriverInv
<1>4. ASSUME NEW d \in Device, NEW a \in Address, content'[d][a] # Erased
      PROVE  content'[d][a] = a /\ a < Reach(d)'
  <2>1. CASE d = j.dev
    <3>1. content'[d][a] = content[d][a]
      \/ content'[d][a] = Programmed(d, j, a)
      BY <1>1, <2>1
    <3>2. Programmed(d, j, a) = content[d][a]
          \/ (Programmed(d, j, a) = a /\ a < offset[d] + j.actual + Chunk(j))
      BY <1>a, <1>1, <2>1, ByteInPlace
    <3>3. Reach(d) = offset[d] + (j.actual + 0)
      BY <1>1, <2>1 DEF Reach, ReachOf, Given
    <3>4. Reach(d)' = offset[d] + (j.actual + Chunk(j))
      BY <1>1, <2>1 DEF Reach, ReachOf, Given
    <3>5. content[d][a] # Erased => content[d][a] = a /\ a < Reach(d)
      BY DEF ContentInv
    <3>6. a \in Int /\ j.actual \in Int /\ offset[d] \in Int
      BY <1>1, <1>3 DEF Address, JobRecord
    <3> HIDE DEF j
    <3>7. a < offset[d] + j.actual + Chunk(j) => a < Reach(d)'
      BY <1>3, <3>4, <3>6
    <3>8. a < Reach(d) => a < Reach(d)'
      BY <1>3, <3>3, <3>4, <3>6
    <3>9. QED  BY <1>4, <3>1, <3>2, <3>5, <3>7, <3>8
  <2>2. CASE d # j.dev
    <3>1. content'[d][a] = content[d][a]
      BY <1>1, <2>2
    <3>2. Reach(d)' = Reach(d)
      BY <1>1, <2>2 DEF Reach, ReachOf
    <3>3. QED  BY <1>4, <3>1, <3>2 DEF ContentInv
  <2>3. QED  BY <2>1, <2>2
<1>5. QED  BY <1>2, <1>4 DEF ContentInv
-----------------------------------------------------------------------------
(* The control thread programs nothing, *)
LEMMA OnlyErases ==
  ASSUME TalkInv, CountInv, ChipInv, [Next]_vars,
         ~(JobEnds(uart_upgrade) /\ content' # content)
  PROVE  \A d \in Device, a \in Address : content'[d][a] \in {content[d][a], Erased}
<1> SUFFICES ASSUME content' # content
             PROVE  \A d \in Device, a \in Address : content'[d][a] \in {content[d][a], Erased}
  OBVIOUS
<1> DEFINE j == job[uart_ctl]
<1>1. JobEnds(uart_ctl)
  BY ContentFrame, Drivers
<1>2. j.op # "write" /\ j.dev \in Device
  BY Drivers DEF TalkInv, ModeInv, DriverInv, JobRecord
<1>3. content' = [content EXCEPT ![j.dev] = [a \in Address |-> AfterErase(j.dev, j, a)]]
  BY <1>1, <1>2, Drivers, ContentChange
<1>4. \A a \in Address : AfterErase(j.dev, j, a) \in {content[j.dev][a], Erased}
  BY DEF AfterErase
<1>5. content \in [Device -> [Address -> Nat \cup {Erased, Spoilt}]]
  BY DEF ChipInv
<1> HIDE DEF j
<1>6. ASSUME NEW d \in Device, NEW a \in Address
      PROVE  content'[d][a] \in {content[d][a], Erased}
  <2>1. CASE d = j.dev
    BY <1>2, <1>3, <1>4, <1>5, <2>1
  <2>2. CASE d # j.dev
    BY <1>2, <1>3, <1>5, <2>2
  <2>3. QED  BY <2>1, <2>2
<1>7. QED  BY <1>6

(* and moves no offset. *)
LEMMA OffsetStays ==
  ASSUME TalkInv, NEW t \in Thread \ {uart_upgrade}, Transaction(t)
  PROVE  offset' = offset
<1>1. Working(t) => job[t].op # "write"
  BY Drivers DEF Working, TalkInv, ModeInv
<1>2. CASE JobReady(t) \/ JobGivesUp(t)
  BY <1>1, <1>2 DEF JobReady, JobGivesUp, JobReturns
<1>3. CASE ~(JobReady(t) \/ JobGivesUp(t))
  BY <1>3 DEF Transaction, CallTakes, CallEnds, CallReturns, Selects, JobTakes, DelayEnds,
              JobEnds, JobSends, JobWaits, StrapLow, StrapHigh, driverVars
<1>4. QED  BY <1>2, <1>3

(* A step of another thread leaves the routine where it is. *)
LEMMA OthersLeave ==
  ASSUME TalkInv, DriverInv', PlaceInv, ContentInv,
         NEW t \in Thread \ {uart_upgrade}, BusStep(t),
         job'[uart_upgrade] = job[uart_upgrade], offset' = offset,
         \A d \in Device, a \in Address : content'[d][a] \in {content[d][a], Erased}
  PROVE  PlaceInv' /\ ContentInv'
<1>1. at'[uart_upgrade] = "deselected" <=> at[uart_upgrade] = "deselected"
  BY Drivers, OthersAt DEF TalkInv
<1>2. Given(job'[uart_upgrade], at'[uart_upgrade])
        <=> Given(job[uart_upgrade], at[uart_upgrade])
  BY <1>1 DEF Given
<1>3. QED  BY <1>2, StaysPut DEF TalkInv

(* A step of its own. *)
LEMMA UpgradeStep ==
  ASSUME TalkInv, DriverInv', CountInv, PlaceInv, ContentInv, Transaction(uart_upgrade),
         ~(JobEnds(uart_upgrade) /\ content' # content) =>
           \A d \in Device, a \in Address : content'[d][a] \in {content[d][a], Erased}
  PROVE  PlaceInv' /\ ContentInv'
<1> DEFINE j == job[uart_upgrade]
           k == job'[uart_upgrade]
<1>a. /\ DriverInv /\ BusInv /\ uart_upgrade \in Driver /\ uart_upgrade \in Thread
      /\ uart_upgrade # uart_ctl
      /\ job \in [Driver -> JobRecord] /\ j \in JobRecord
  BY Drivers DEF TalkInv, DriverInv
<1>b. ASSUME ~(JobEnds(uart_upgrade) /\ content' # content), offset' = offset,
             k.op = j.op, k.dev = j.dev, k.len = j.len, k.actual = j.actual,
             k.page_addr = j.page_addr, k.byte_addr = j.byte_addr,
             j.op = "write" => (Given(k, at'[uart_upgrade]) <=> Given(j, at[uart_upgrade]))
      PROVE  PlaceInv' /\ ContentInv'
  BY <1>a, <1>b, StaysPut
<1>c. ASSUME ~JobEnds(uart_upgrade), offset' = offset, job' = job,
             j.op = "write" =>
               (at'[uart_upgrade] = "deselected" <=> at[uart_upgrade] = "deselected")
      PROVE  PlaceInv' /\ ContentInv'
  BY <1>b, <1>c DEF Given
<1>1. CASE JobEnds(uart_upgrade)
  <2>1. CASE content' # content
    BY <1>a, <1>1, <2>1, Programs
  <2>2. CASE content' = content /\ j.step = "cmd"
    <3>1. /\ j.op # "none" /\ job' = job /\ offset' = offset /\ Deselect(uart_upgrade)
      BY <1>1, <2>2 DEF JobEnds, Working
    <3>2. at[uart_upgrade] = "selected" /\ at'[uart_upgrade] = "deselected"
      BY <1>a, <3>1, ItselfAt
    <3>3. PlaceInv'
      BY <3>1 DEF PlaceInv
    <3>4. ASSUME NEW d \in Device PROVE Reach(d)' >= Reach(d)
      <4>1. CASE j.op = "write" /\ j.dev = d
        <5>1. Reach(d) = offset[d] + (j.actual + 0)
          BY <2>2, <3>2, <4>1 DEF Reach, ReachOf, Given
        <5>2. Reach(d)' = offset[d] + (j.actual + Chunk(j))
          BY <2>2, <3>1, <3>2, <4>1 DEF Reach, ReachOf, Given
        <5>3. Chunk(j) \in Nat
          BY <1>a, <4>1, ChunkFits DEF CountInv
        <5>4. offset[d] \in Int /\ j.actual \in Int
          BY <1>a DEF DriverInv, JobRecord
        <5> HIDE DEF j
        <5>5. QED  BY <5>1, <5>2, <5>3, <5>4
      <4>2. CASE ~(j.op = "write" /\ j.dev = d)
        <5>1. Reach(d)' = Reach(d)
          BY <3>1, <4>2 DEF Reach, ReachOf
        <5>2. Reach(d) \in Int
          BY <1>a, ReachType DEF Reach, DriverInv
        <5>3. QED  BY <5>1, <5>2
      <4>3. QED  BY <4>1, <4>2
    <3>5. QED  BY <1>a, <2>2, <3>3, <3>4, ContentKept
  <2>3. CASE content' = content /\ j.step # "cmd"
    <3>1. /\ offset' = offset
          /\ job' = job \/ job' = [job EXCEPT ![uart_upgrade].wip = busy[j.dev]]
      BY <1>1, <2>3 DEF JobEnds
    <3>2. /\ k.op = j.op /\ k.dev = j.dev /\ k.len = j.len /\ k.actual = j.actual
          /\ k.page_addr = j.page_addr /\ k.byte_addr = j.byte_addr /\ k.step = j.step
      BY <1>a, <3>1 DEF JobRecord
    <3>3. Given(k, at'[uart_upgrade]) <=> Given(j, at[uart_upgrade])
      BY <2>3, <3>2 DEF Given
    <3>4. QED  BY <1>b, <2>3, <3>1, <3>2, <3>3
  <2>4. QED  BY <2>1, <2>2, <2>3
<1>2. CASE ~JobEnds(uart_upgrade)
  <2>1. CASE CallTakes(uart_upgrade) \/ CallEnds(uart_upgrade) \/ CallReturns(uart_upgrade)
    <3>1. j.op # "write" /\ job' = job /\ offset' = offset
      BY <1>a, <2>1 DEF CallTakes, CallEnds, CallReturns, Working, driverVars
    <3>2. QED  BY <1>2, <1>c, <3>1
  <2>2. CASE Selects(uart_upgrade) \/ JobTakes(uart_upgrade) \/ DelayEnds(uart_upgrade)
    <3>1. job' = job /\ offset' = offset
      BY <2>2 DEF Selects, JobTakes, DelayEnds, driverVars
    <3>2. CASE DelayEnds(uart_upgrade)
      BY <1>2, <1>a, <1>c, <3>1, <3>2, Itself DEF DelayEnds, Wants, Inside
    <3>3. CASE Selects(uart_upgrade)
      BY <1>2, <1>a, <1>c, <3>1, <3>3, ItselfAt DEF Selects
    <3>4. CASE JobTakes(uart_upgrade)
      <4>1. j.dev \in Device /\ Take(uart_upgrade, j.dev)
        BY <1>a, <3>4 DEF JobTakes, JobRecord
      <4>2. at[uart_upgrade] # "deselected" /\ at'[uart_upgrade] # "deselected"
        BY <1>a, <4>1, ItselfAt
      <4>3. QED  BY <1>2, <1>c, <3>1, <4>2
    <3>5. QED  BY <2>2, <3>2, <3>3, <3>4
  <2>3. CASE JobSends(uart_upgrade)
    <3>1. /\ j.step \in {"wren", "cmd"} /\ offset' = offset
          /\ job' = [job EXCEPT ![uart_upgrade].step = IF @ = "wren" THEN "cmd" ELSE "ready"]
          /\ Release(uart_upgrade, "running")
      BY <2>3 DEF JobSends
    <3>2. at[uart_upgrade] = "deselected" /\ at'[uart_upgrade] # "deselected"
      BY <1>a, <3>1, Itself DEF Wants, Inside
    <3>3. /\ k.op = j.op /\ k.dev = j.dev /\ k.len = j.len /\ k.actual = j.actual
          /\ k.page_addr = j.page_addr /\ k.byte_addr = j.byte_addr
          /\ k.step = IF j.step = "wren" THEN "cmd" ELSE "ready"
      BY <1>a, <3>1 DEF JobRecord
    <3>4. Given(k, at'[uart_upgrade]) <=> Given(j, at[uart_upgrade])
      BY <3>1, <3>2, <3>3 DEF Given
    <3>5. QED  BY <1>2, <1>b, <3>1, <3>3, <3>4
  <2>4. CASE JobWaits(uart_upgrade)
    <3>1. /\ j.step = "ready" /\ offset' = offset
          /\ job' = [job EXCEPT ![uart_upgrade].timeout = @ - 1]
      BY <2>4 DEF JobWaits
    <3>2. /\ k.op = j.op /\ k.dev = j.dev /\ k.len = j.len /\ k.actual = j.actual
          /\ k.page_addr = j.page_addr /\ k.byte_addr = j.byte_addr /\ k.step = "ready"
      BY <1>a, <3>1 DEF JobRecord
    <3>3. QED  BY <1>2, <1>b, <3>1, <3>2 DEF Given
  <2>5. CASE JobGivesUp(uart_upgrade)
    BY <2>5, Returns DEF JobGivesUp, chipVars
  <2>6. CASE JobReady(uart_upgrade)
    <3>1. j.step = "ready" /\ content' = content
      BY <2>6 DEF JobReady, chipVars
    <3>2. CASE JobReturns(uart_upgrade)
      BY <3>1, <3>2, Returns
    <3>3. CASE ~JobReturns(uart_upgrade)
      <4>1. /\ j.actual + Piece(j) < j.len /\ Release(uart_upgrade, "running")
            /\ job' = [job EXCEPT ![uart_upgrade] = NextPiece(j)] /\ offset' = offset
            /\ j.op # "none"
        BY <2>6, <3>3 DEF JobReady, Working
      <4>2. j.op = "write"
        BY <4>1 DEF TalkInv, ModeInv
      <4>3. QED  BY <3>1, <4>1, <4>2, GoesOn
    <3>4. QED  BY <3>2, <3>3
  <2>7. QED
    BY <1>2, <1>a, <2>1, <2>2, <2>3, <2>4, <2>5, <2>6 DEF Transaction
<1>3. QED  BY <1>1, <1>2

(* Every step keeps the routine and the contents in place. *)
LEMMA WriteStep ==
  ASSUME TalkInv, ChipInv, CountInv, PlaceInv, ContentInv, [Next]_vars
  PROVE  PlaceInv' /\ ContentInv'
<1>a. DriverInv /\ DriverInv' /\ BusInv /\ job \in [Driver -> JobRecord]
  BY DriverNextInv DEF TalkInv, DriverInv
<1>b. ~(JobEnds(uart_upgrade) /\ content' # content) =>
        \A d \in Device, a \in Address : content'[d][a] \in {content[d][a], Erased}
  BY OnlyErases
<1>c. ASSUME ~JobEnds(uart_upgrade), busVars' = busVars, job' = job, offset' = offset
      PROVE  PlaceInv' /\ ContentInv'
  <2>1. at' = at
    BY <1>c DEF busVars
  <2>2. QED  BY <1>a, <1>b, <1>c, <2>1, StaysPut
<1>1. CASE UNCHANGED vars
  <2>1. ~JobEnds(uart_upgrade)
    BY <1>1, <1>a, Drivers, ItselfAt DEF JobEnds, vars, busVars
  <2>2. QED  BY <1>1, <1>c, <2>1 DEF vars, driverVars
<1>2. CASE Command
  <2>1. CASE UpgPacket
    BY <1>a, <2>1, Begins
  <2>2. CASE CtlProg \/ UpgEnds
    <3>1. busVars' = busVars /\ job' = job /\ offset' = offset
      BY <2>2 DEF CtlProg, UpgEnds
    <3>2. ~JobEnds(uart_upgrade)
      BY <1>a, <3>1, Drivers, ItselfAt DEF JobEnds, busVars
    <3>3. QED  BY <1>c, <3>1, <3>2
  <2>3. ASSUME NEW t \in Thread \ {uart_upgrade}, Wake(t), content' = content,
               job'[uart_upgrade] = job[uart_upgrade], offset' = offset
        PROVE  PlaceInv' /\ ContentInv'
    BY <1>a, <2>3, OthersLeave DEF BusStep
  <2>4. CASE AntennaRound \/ ChangeSetting \/ CtlCalls
    <3>1. PICK t \in Thread \ {uart_upgrade}, n \in Nat : StartCalls(t, n)
      <4>1. \A n \in 2 .. 2 + MaxSwitches : n \in Nat
        BY FlashDriverAssumption
      <4>2. QED
        BY <2>4, <4>1, Drivers DEF AntennaRound, ChangeSetting, CtlCalls
    <3>2. QED  BY <2>3, <3>1 DEF StartCalls, chipVars
  <2>5. CASE CtlEraseFpga \/ CtlEraseMcu
    <3>1. PICK j : StartJob(uart_ctl, j)
      BY <2>5 DEF CtlEraseFpga, CtlEraseMcu
    <3>2. job'[uart_upgrade] = job[uart_upgrade]
      BY <1>a, <3>1, Drivers DEF StartJob
    <3>3. QED  BY <2>3, <3>1, <3>2, Drivers DEF StartJob, chipVars
  <2>6. QED  BY <1>2, <2>1, <2>2, <2>4, <2>5 DEF Command
<1>3. CASE \E t \in Thread : Transaction(t)
  <2>1. PICK t \in Thread : Transaction(t)
    BY <1>3
  <2>2. CASE t = uart_upgrade
    BY <1>a, <1>b, <2>1, <2>2, UpgradeStep
  <2>3. CASE t # uart_upgrade
    <3>1. BusStep(t) /\ job'[uart_upgrade] = job[uart_upgrade]
      BY <1>a, <2>1, <2>3, OneSteps, Drivers
    <3>2. offset' = offset
      BY <2>1, <2>3, OffsetStays
    <3>3. ~JobEnds(uart_upgrade)
      <4>1. at'[uart_upgrade] = "deselected" <=> at[uart_upgrade] = "deselected"
        BY <1>a, <2>3, <3>1, Drivers, OthersAt
      <4>2. QED  BY <1>a, <4>1, Drivers, ItselfAt DEF JobEnds
    <3>4. QED  BY <1>a, <1>b, <2>3, <3>1, <3>2, <3>3, OthersLeave
  <2>4. QED  BY <2>2, <2>3
<1>4. CASE \E d \in Device : DeviceReady(d)
  <2>1. busVars' = busVars /\ job' = job /\ offset' = offset
    BY <1>4 DEF DeviceReady, driverVars
  <2>2. ~JobEnds(uart_upgrade)
    BY <1>a, <2>1, Drivers, ItselfAt DEF JobEnds, busVars
  <2>3. QED  BY <1>c, <2>1, <2>2
<1>5. QED  BY <1>1, <1>2, <1>3, <1>4 DEF Next
-----------------------------------------------------------------------------
(* The invariant holds at the start, *)
LEMMA FlashInit == Init => FlashInv
<1> SUFFICES ASSUME Init PROVE FlashInv
  OBVIOUS
<1> USE FlashDriverAssumption
<1>1. TalkInv
  <2>1. BusInv /\ DriverInv
    BY BusInitInv, DriverInit DEF Init
  <2>2. ModeInv
    BY DEF Init, ModeInv, Driver, NoJob
  <2>3. Users /\ LowMeansTalking
    BY DEF Init, BusInit, Users, MayWant, LowMeansTalking, Wants, Inside
  <2>4. QED  BY <2>1, <2>2, <2>3 DEF TalkInv
<1>2. ChipInv
  <2>1. content \in [Device -> [Address -> Nat \cup {Erased, Spoilt}]]
    BY DEF Init
  <2>2. wel \in [Device -> BOOLEAN] /\ late \in [Device -> BOOLEAN]
    BY DEF Init
  <2>3. QED  BY <2>1, <2>2 DEF Init, ChipInv
<1>3. CountInv
  BY StartsOK DEF Init, CountInv, JobOK
<1>4. CallsInv
  BY DEF Init, BusInit, CallsInv, Wants, Inside
<1>5. PlaceInv
  BY Drivers DEF Init, PlaceInv, NoJob
<1>6. ContentInv
  BY DEF Init, ContentInv
<1>7. QED  BY <1>1, <1>2, <1>3, <1>4, <1>5, <1>6 DEF FlashInv

(* and after every step. *)
LEMMA FlashNext == FlashInv /\ [Next]_vars => FlashInv'
<1> SUFFICES ASSUME FlashInv, [Next]_vars PROVE FlashInv'
  OBVIOUS
<1>1. TalkInv' /\ CountInv' /\ ChipInv' /\ CallsInv'
  BY TalkNextInv, CountStep, ChipStep, CallsStep DEF FlashInv
<1>2. PlaceInv' /\ ContentInv'
  BY WriteStep DEF FlashInv
<1>3. QED  BY <1>1, <1>2 DEF FlashInv

(* The types of all variables are among it. *)
LEMMA FlashType == FlashInv => TypeOK
<1> SUFFICES ASSUME FlashInv PROVE TypeOK
  OBVIOUS
<1>1. BusTypeOK /\ type \in Device /\ busy \in [Device -> BOOLEAN]
  BY DEF FlashInv, TalkInv, BusInv, DriverInv
<1>2. job \in [Driver -> JobType]
  <2>1. ASSUME NEW j \in JobRecord, JobOK(j) PROVE j \in JobType
    <3>1. j.byte_addr \in Nat
      BY <2>1, FlashDriverAssumption DEF JobOK
    <3>2. QED  BY <2>1, <3>1 DEF JobRecord, JobOK, JobType, Op, Step
  <2>2. job \in [Driver -> JobRecord] /\ \A t \in Driver : JobOK(job[t])
    BY DEF FlashInv, TalkInv, DriverInv, CountInv
  <2>3. QED  BY <2>1, <2>2
<1>3. QED  BY <1>1, <1>2 DEF FlashInv, ChipInv, CountInv, CallsInv, TypeOK

(* Every variable of the drivers and the devices has its type: the poll    *)
(* counter of a routine never passes zero (spansion_wait_ready,            *)
(* mcu_flash_wait_ready), no thread makes more calls than it was asked     *)
(* for, offsets and counters are never negative.                           *)
THEOREM DriverTypes == Spec => []TypeOK
BY FlashInit, FlashNext, FlashType, PTL DEF Spec

(* Every byte is programmed at its own address, once, however the packets  *)
(* cut the image and the pages cut the packets (spansion_write,            *)
(* mcu_flash_write), also when a page is programmed late or a wait for the *)
(* device timed out.                                                       *)
THEOREM BytesAtTheirAddresses == Spec => []BytesInPlace
<1>1. FlashInv => BytesInPlace
  BY DEF FlashInv, ContentInv, BytesInPlace
<1>2. QED  BY <1>1, FlashInit, FlashNext, PTL DEF Spec
-----------------------------------------------------------------------------
(* Quotient and remainder are the only ones. *)
LEMMA DivUnique ==
  ASSUME NEW n \in Nat \ {0}, NEW q \in Int, NEW r \in 0 .. n - 1,
         NEW a \in Int, a = q * n + r
  PROVE  a \div n = q /\ a % n = r
<1> DEFINE k == a \div n
           m == a % n
<1>1. a = k * n + m /\ k \in Int /\ m \in 0 .. n - 1
  BY DivMod
<1> HIDE DEF k, m
<1>2. (q - k) * n = q * n - k * n
  BY <1>1
<1>3. q * n - k * n = m - r
  BY <1>1
<1>4. q - k \in Int /\ (q - k) * n < n /\ (q - k) * n > -2 * n
  BY <1>1, <1>2, <1>3
<1>5. q - k = 0 \/ q - k = -1
  BY <1>4, OnePageOff
<1>6. q - k # -1
  <2>1. SUFFICES ASSUME q - k = -1 PROVE FALSE
    OBVIOUS
  <2>2. m - r = -n
    BY <1>2, <1>3, <2>1
  <2>3. QED  BY <1>1, <2>2
<1>7. k = q
  BY <1>1, <1>5, <1>6
<1>8. m = r
  BY <1>1, <1>7
<1>9. QED  BY <1>7, <1>8 DEF k, m

(* Where the k-th byte of a chunk belongs, the device puts it. *)
LEMMA ByteHit ==
  ASSUME NEW n \in Nat \ {0}, NEW p \in Int, NEW w \in Int, w = p * n,
         NEW b \in 0 .. n - 1, NEW k \in Nat, k < n - b, NEW x \in Int, x = w + b + k
  PROVE  x \div n = p /\ (x - b) % n = k
<1>1. x = p * n + (b + k) /\ b + k \in 0 .. n - 1
  OBVIOUS
<1>2. x \div n = p
  BY <1>1, DivUnique
<1>3. x - b = p * n + k /\ k \in 0 .. n - 1 /\ x - b \in Int
  OBVIOUS
<1>4. (x - b) % n = k
  BY <1>3, DivUnique
<1>5. QED  BY <1>2, <1>4
-----------------------------------------------------------------------------
InUse(j) == j.op \in {"erase", "write"}

(* The last poll said that the device is ready. *)
Answered(j, place) == j.step = "ready" /\ place = "deselected" /\ ~j.wip

(* A routine has given the device something to do and waits for it. *)
Awaits(t, d) ==
  /\ InUse(job[t]) /\ job[t].dev = d
  /\ Given(job[t], at[t]) /\ ~Answered(job[t], at[t])

(* A device is busy only with what a routine waits for. *)
BusyInv == \A d \in Device : busy[d] => late[d] \/ \E t \in Driver : Awaits(t, d)

(* Between write-enable and command. *)
Armed(j, place) ==
  \/ j.step = "wren" /\ place = "deselected"
  \/ j.step = "cmd" /\ place # "deselected"

EnableInv ==
  \A t \in Driver :
    InUse(job[t]) /\ job[t].dev = flash /\ Armed(job[t], at[t]) => wel[flash] \/ late[flash]

(* What has been sent of a packet is in the device. *)
ProgramInv ==
  LET j == job[uart_upgrade]
  IN j.op = "write" =>
       /\ offset[j.dev] + j.len <= FLASH_SIZE
       /\ \/ late[j.dev]
          \/ \A a \in Address : offset[j.dev] <= a /\ a < Reach(j.dev)
                                  => content[j.dev][a] = a

(* Sectors that the routine has been through. *)
Passed(j, place) == j.actual + (IF Given(j, place) THEN 1 ELSE 0)

EraseInv ==
  LET j == job[uart_ctl]
  IN j.op = "erase" =>
       /\ j.len = FLASH_SIZE \div SECTOR_SIZE[j.dev]
       /\ \/ late[j.dev]
          \/ \A a \in Address : a \div SECTOR_SIZE[j.dev] < Passed(j, at[uart_ctl])
                                  => content[j.dev][a] = Erased

(* Only one of the two drivers has a routine at a time. *)
LEMMA Alone ==
  ASSUME FlashInv, NEW t \in Driver, NEW u \in Driver,
         job[t].op # "none", job[u].op # "none"
  PROVE  t = u
<1>1. ModeInv
  BY DEF FlashInv, TalkInv
<1>2. QED  BY <1>1, Drivers DEF ModeInv, NORMAL_MODE, UPGRADE_MODE

(* A device is ready for a routine that waits for nothing. *)
LEMMA NotBusy ==
  ASSUME FlashInv, BusyInv, NEW t \in Driver, InUse(job[t]), ~Awaits(t, job[t].dev),
         ~late[job[t].dev]
  PROVE  busy[job[t].dev] = FALSE
<1>1. job[t].dev \in Device /\ busy[job[t].dev] \in BOOLEAN
  BY DEF FlashInv, TalkInv, DriverInv, JobRecord
<1>2. SUFFICES ASSUME busy[job[t].dev] PROVE FALSE
  BY <1>1
<1>3. PICK u \in Driver : Awaits(u, job[t].dev)
  BY <1>1, <1>2 DEF BusyInv
<1>4. job[u].op # "none" /\ job[t].op # "none"
  BY <1>3 DEF Awaits, InUse
<1>5. u = t
  BY <1>4, Alone
<1>6. QED  BY <1>3, <1>5
-----------------------------------------------------------------------------
(* What a step does with the routine of one driver: nothing, *)
Same(t) ==
  /\ job'[t] = job[t]
  /\ InUse(job[t]) => (at'[t] = "deselected" <=> at[t] = "deselected")

(* or it begins one, *)
Fresh(t) ==
  /\ ~InUse(job[t]) /\ at'[t] # "deselected"
  /\ InUse(job'[t]) => \/ t = uart_ctl /\ \E d \in Device : job'[t] = Erase(d)
                       \/ t = uart_upgrade /\ UpgPacket

(* or goes on with it. *)
Goes(t) == JobEnds(t) \/ JobSends(t) \/ JobReady(t) \/ JobWaits(t) \/ JobGivesUp(t)

(* First for a step of the driver's own thread, *)
LEMMA OwnStep ==
  ASSUME FlashInv, NEW t \in Driver, Transaction(t)
  PROVE  Same(t) \/ Fresh(t) \/ Goes(t)
<1>a. /\ BusInv /\ t \in Thread /\ job \in [Driver -> JobRecord] /\ job[t] \in JobRecord
  BY Drivers DEF FlashInv, TalkInv, DriverInv
<1>1. CASE CallTakes(t) \/ CallEnds(t) \/ CallReturns(t)
  BY <1>1 DEF CallTakes, CallEnds, CallReturns, Working, driverVars, Same, InUse
<1>2. CASE Selects(t)
  <2>1. Select(t) /\ job' = job
    BY <1>2 DEF Selects, driverVars
  <2>2. QED  BY <1>a, <2>1, ItselfAt DEF Same
<1>3. CASE JobTakes(t)
  <2>1. job[t].dev \in Device /\ Take(t, job[t].dev) /\ job' = job
    BY <1>a, <1>3 DEF JobTakes, JobRecord, driverVars
  <2>2. at[t] # "deselected" /\ at'[t] # "deselected"
    BY <1>a, <2>1, ItselfAt
  <2>3. QED  BY <2>1, <2>2 DEF Same
<1>4. CASE DelayEnds(t)
  <2>1. Wake(t) /\ job' = job
    BY <1>4 DEF DelayEnds, driverVars
  <2>2. at[t] # "deselected" /\ at'[t] # "deselected"
    BY <1>a, <2>1, Itself DEF Wants, Inside
  <2>3. QED  BY <2>1, <2>2 DEF Same
<1>5. CASE t = uart_ctl /\ (StrapLow \/ StrapHigh)
  <2>1. /\ job[t].op \in {"strap", "boot"}
        /\ \E level \in {"low", "high"} : Drive(t, baseband, level)
        /\ job'[t].op = "boot" \/ job'[t] = Erase(baseband)
    BY <1>a, <1>5 DEF StrapLow, StrapHigh, JobRecord
  <2>2. at'[t] # "deselected"
    BY <1>a, <2>1, Itself, FlashDriverAssumption DEF Wants, Inside
  <2>3. QED  BY <1>5, <2>1, <2>2, FlashDriverAssumption DEF Fresh, InUse
<1>6. QED  BY <1>1, <1>2, <1>3, <1>4, <1>5 DEF Transaction, Goes

(* then for every step. *)
LEMMA RoutineStep ==
  ASSUME FlashInv, [Next]_vars, NEW t \in Driver
  PROVE  Same(t) \/ Fresh(t) \/ Goes(t)
<1>a. BusInv /\ DriverInv /\ t \in Thread /\ job \in [Driver -> JobRecord]
  BY Drivers DEF FlashInv, TalkInv, DriverInv
<1>b. ASSUME busVars' = busVars, job' = job PROVE Same(t)
  BY <1>b DEF Same, busVars
<1>c. ASSUME NEW u \in Thread \ {t}, BusStep(u), job'[t] = job[t] PROVE Same(t)
  BY <1>a, <1>c, OthersAt DEF Same
<1>1. CASE UNCHANGED vars
  BY <1>1, <1>b DEF vars, driverVars
<1>2. CASE Command
  <2>1. ASSUME NEW u \in Thread, NEW n, StartCalls(u, n) PROVE Same(t)
    <3>1. job' = job /\ BusStep(u) /\ ~Working(u)
      BY <2>1 DEF StartCalls, Idle, BusStep
    <3>2. CASE u = t
      BY <3>1, <3>2 DEF Same, Working, InUse
    <3>3. CASE u # t
      BY <1>c, <3>1, <3>3
    <3>4. QED  BY <3>2, <3>3
  <2>2. ASSUME NEW u \in Driver, NEW j, StartJob(u, j),
               InUse(j) => \/ u = uart_ctl /\ \E d \in Device : j = Erase(d)
                           \/ u = uart_upgrade /\ UpgPacket
        PROVE  Same(t) \/ Fresh(t)
    <3>1. /\ job' = [job EXCEPT ![u] = j] /\ Wake(u) /\ ~Working(u) /\ u \in Thread
      BY <2>2, Drivers DEF StartJob, Idle
    <3>2. CASE u = t
      <4>1. at'[t] # "deselected"
        BY <1>a, <3>1, <3>2, Itself DEF Wants, Inside
      <4>2. job'[t] = j /\ ~InUse(job[t])
        BY <1>a, <3>1, <3>2 DEF Working, InUse
      <4>3. QED  BY <2>2, <3>2, <4>1, <4>2 DEF Fresh
    <3>3. CASE u # t
      <4>1. job'[t] = job[t] /\ BusStep(u)
        BY <1>a, <3>1, <3>3 DEF BusStep
      <4>2. QED  BY <1>c, <3>1, <3>3, <4>1
    <3>4. QED  BY <3>2, <3>3
  <2>3. CASE AntennaRound \/ ChangeSetting \/ CtlCalls
    BY <2>1, <2>3, Drivers DEF AntennaRound, ChangeSetting, CtlCalls
  <2>4. CASE CtlEraseFpga
    BY <2>2, <2>4, Drivers, FlashDriverAssumption DEF CtlEraseFpga
  <2>5. CASE CtlEraseMcu
    <3>1. ~InUse([Erase(baseband) EXCEPT !.op = "strap"])
      BY DEF InUse, Erase
    <3>2. QED  BY <2>2, <2>5, <3>1, Drivers DEF CtlEraseMcu
  <2>6. CASE UpgPacket
    <3>1. \E j : StartJob(uart_upgrade, j)
      BY <2>6 DEF UpgPacket
    <3>2. QED  BY <2>2, <2>6, <3>1, Drivers
  <2>7. CASE CtlProg \/ UpgEnds
    BY <1>b, <2>7 DEF CtlProg, UpgEnds
  <2>8. QED  BY <1>2, <2>3, <2>4, <2>5, <2>6, <2>7 DEF Command
<1>3. CASE \E u \in Thread : Transaction(u)
  <2>1. PICK u \in Thread : Transaction(u)
    BY <1>3
  <2>2. CASE u = t
    BY <2>1, <2>2, OwnStep
  <2>3. CASE u # t
    BY <1>a, <1>c, <2>1, <2>3, OneSteps
  <2>4. QED  BY <2>2, <2>3
<1>4. CASE \E d \in Device : DeviceReady(d)
  BY <1>4, <1>b DEF DeviceReady, driverVars
<1>5. QED  BY <1>1, <1>2, <1>3, <1>4 DEF Next

(* Only the end of a routine's transaction makes a device busy, disables   *)
(* writing or changes contents;                                            *)
LEMMA ChipFrame ==
  ASSUME FlashInv, [Next]_vars, ~\E t \in Driver : JobEnds(t)
  PROVE  /\ wel' = wel /\ content' = content
         /\ \A d \in Device : busy'[d] => busy[d]
<1>1. CASE \E d \in Device : DeviceReady(d)
  BY <1>1 DEF DeviceReady, FlashInv, TalkInv, DriverInv
<1>2. CASE ~\E d \in Device : DeviceReady(d)
  <2>1. UNCHANGED chipVars
    BY <1>2 DEF Next, Command, AntennaRound, ChangeSetting, CtlCalls, CtlEraseFpga,
                CtlEraseMcu, CtlProg, UpgPacket, UpgEnds, StartCalls, StartJob,
                Transaction, CallTakes, CallEnds, CallReturns, Selects, JobTakes,
                DelayEnds, JobEnds, Working, JobSends, JobReady, JobWaits, JobGivesUp,
                StrapLow, StrapHigh, chipVars, vars
  <2>2. QED  BY <2>1 DEF chipVars
<1>3. QED  BY <1>1, <1>2

(* a wait that timed out is not forgotten. *)
LEMMA LateStays ==
  ASSUME FlashInv, [Next]_vars
  PROVE  \A d \in Device : late[d] => late'[d]
<1>1. CASE \E t \in Thread : JobGivesUp(t)
  BY <1>1 DEF JobGivesUp, FlashInv, ChipInv
<1>2. CASE ~\E t \in Thread : JobGivesUp(t)
  <2>1. late' = late
    BY <1>2 DEF Next, Command, AntennaRound, ChangeSetting, CtlCalls, CtlEraseFpga,
                CtlEraseMcu, CtlProg, UpgPacket, UpgEnds, StartCalls, StartJob,
                Transaction, CallTakes, CallEnds, CallReturns, Selects, JobTakes,
                DelayEnds, JobEnds, JobSends, JobReady, JobWaits, StrapLow, StrapHigh,
                DeviceReady, history, vars
  <2>2. QED  BY <2>1
<1>3. QED  BY <1>1, <1>2
-----------------------------------------------------------------------------
(* A transaction of a routine ends. *)
LEMMA EndsAt ==
  ASSUME FlashInv, NEW t \in Driver, JobEnds(t)
  PROVE  /\ InUse(job[t]) /\ job[t].dev \in Device
         /\ at[t] = "selected" /\ at'[t] = "deselected" /\ offset' = offset
         /\ \A u \in Driver \ {t} : job'[u] = job[u]
         /\ job'[t] = [job[t] EXCEPT !.wip = job'[t].wip]
<1>a. /\ BusInv /\ t \in Thread /\ job \in [Driver -> JobRecord]
      /\ job[t] \in JobRecord /\ Deselect(t) /\ job[t].op # "none"
  BY Drivers DEF FlashInv, TalkInv, DriverInv, JobEnds, Working
<1>1. at[t] = "selected" /\ at'[t] = "deselected"
  BY <1>a, ItselfAt
<1>2. InUse(job[t])
  <2>1. Wants(t)
    BY <1>1 DEF Wants, Inside
  <2>2. MayWant(t)
    BY <1>a, <2>1 DEF FlashInv, TalkInv, Users
  <2>3. QED  BY <1>a, <2>2 DEF MayWant, InUse, JobRecord, Op
<1>3. offset' = offset
  BY DEF JobEnds
<1>4. job' = job \/ job' = [job EXCEPT ![t].wip = busy[job[t].dev]]
  BY DEF JobEnds
<1>5. /\ \A u \in Driver \ {t} : job'[u] = job[u]
      /\ job'[t] = [job[t] EXCEPT !.wip = job'[t].wip]
  BY <1>a, <1>4 DEF JobRecord
<1>6. QED  BY <1>a, <1>1, <1>2, <1>3, <1>5 DEF JobRecord

(* A routine that waits goes on waiting until the device is ready, or      *)
(* gives up.                                                               *)
LEMMA AwaitsOn ==
  ASSUME FlashInv, [Next]_vars, NEW t \in Driver, NEW d \in Device, Awaits(t, d),
         JobEnds(t) => busy[d]
  PROVE  Awaits(t, d)' \/ late'[d]
<1>a. /\ BusInv /\ t \in Thread /\ job \in [Driver -> JobRecord]
      /\ job[t] \in JobRecord /\ late \in [Device -> BOOLEAN]
  BY Drivers DEF FlashInv, TalkInv, DriverInv, ChipInv
<1>1. CASE Same(t)
  BY <1>1 DEF Same, Awaits, Given, Answered
<1>2. CASE Fresh(t)
  BY <1>2 DEF Fresh, Awaits
<1>3. CASE JobEnds(t)
  <2>1. at[t] = "selected" /\ at'[t] = "deselected" /\ job[t].step = "ready" /\ busy[d]
    BY <1>3, EndsAt DEF Awaits, Given
  <2>2. job' = [job EXCEPT ![t].wip = busy[job[t].dev]]
    BY <1>3, <2>1 DEF JobEnds
  <2>3. /\ job'[t].op = job[t].op /\ job'[t].dev = job[t].dev
        /\ job'[t].step = "ready" /\ job'[t].wip = busy[d]
    BY <1>a, <2>1, <2>2 DEF JobRecord, Awaits
  <2>4. QED  BY <2>1, <2>3 DEF Awaits, InUse, Given, Answered
<1>4. CASE JobSends(t)
  <2>1. /\ job' = [job EXCEPT ![t].step = IF @ = "wren" THEN "cmd" ELSE "ready"]
        /\ Release(t, "running") /\ job[t].step \in {"wren", "cmd"}
    BY <1>4 DEF JobSends
  <2>2. at'[t] # "deselected"
    BY <1>a, <2>1, Itself DEF Wants, Inside
  <2>3. job[t].step = "cmd"
    BY <2>1 DEF Awaits, Given
  <2>4. job'[t].op = job[t].op /\ job'[t].dev = job[t].dev /\ job'[t].step = "ready"
    BY <1>a, <2>1, <2>3 DEF JobRecord
  <2>5. QED  BY <2>2, <2>4 DEF Awaits, InUse, Given, Answered
<1>5. CASE JobReady(t)
  <2>1. at[t] = "deselected"
    BY <1>5 DEF JobReady, JobReturns, Release
  <2>2. QED  BY <1>5, <2>1 DEF JobReady, Awaits, Answered
<1>6. CASE JobWaits(t)
  <2>1. /\ job' = [job EXCEPT ![t].timeout = @ - 1] /\ job[t].step = "ready"
        /\ \E place \in {"away", "running"} : Release(t, place)
    BY <1>6 DEF JobWaits
  <2>2. at'[t] # "deselected"
    BY <1>a, <2>1, Itself DEF Wants, Inside
  <2>3. job'[t].op = job[t].op /\ job'[t].dev = job[t].dev /\ job'[t].step = "ready"
    BY <1>a, <2>1 DEF JobRecord
  <2>4. QED  BY <2>2, <2>3 DEF Awaits, InUse, Given, Answered
<1>7. CASE JobGivesUp(t)
  BY <1>a, <1>7 DEF JobGivesUp, Awaits
<1>8. QED  BY <1>1, <1>2, <1>3, <1>4, <1>5, <1>6, <1>7, RoutineStep DEF Goes

(* No step leaves a device busy that nobody waits for. *)
LEMMA BusyStep == ASSUME FlashInv, BusyInv, [Next]_vars PROVE BusyInv'
<1>1. SUFFICES ASSUME NEW d \in Device, busy'[d], ~late'[d]
               PROVE  \E t \in Driver : Awaits(t, d)'
  BY DEF BusyInv
<1>2. ~late[d]
  BY <1>1, LateStays
<1>3. ASSUME busy[d] PROVE \E t \in Driver : Awaits(t, d)'
  <2>1. PICK t \in Driver : Awaits(t, d)
    BY <1>2, <1>3 DEF BusyInv
  <2>2. QED  BY <1>1, <1>3, <2>1, AwaitsOn
<1>4. ASSUME ~busy[d] PROVE \E t \in Driver : Awaits(t, d)'
  <2>1. PICK t \in Driver : JobEnds(t)
    BY <1>1, <1>4, ChipFrame
  <2>2. /\ InUse(job[t]) /\ job[t].dev \in Device /\ at'[t] = "deselected"
    BY <2>1, EndsAt
  <2>3. job[t].step = "cmd" /\ job' = job /\ job[t].dev = d
    <3>1. busy' # busy
      BY <1>1, <1>4
    <3>2. /\ job[t].step = "cmd" /\ job' = job
          /\ busy' = [busy EXCEPT ![job[t].dev] = TRUE]
      BY <2>1, <3>1 DEF JobEnds, WriteEnable, ProgramOrErase, chipVars
    <3>3. QED  BY <1>1, <1>4, <3>2 DEF FlashInv, TalkInv, DriverInv
  <2>4. QED  BY <2>2, <2>3 DEF Awaits, Given, Answered
<1>5. QED  BY <1>3, <1>4

(* No step takes the write-enable from a routine before its command. *)
LEMMA EnableStep == ASSUME FlashInv, BusyInv, EnableInv, [Next]_vars PROVE EnableInv'
<1>1. SUFFICES ASSUME NEW t \in Driver, InUse(job'[t]), job'[t].dev = flash,
                      Armed(job'[t], at'[t]), ~late'[flash]
               PROVE  wel'[flash]
  BY DEF EnableInv
<1>a. /\ BusInv /\ t \in Thread /\ job \in [Driver -> JobRecord]
      /\ job[t] \in JobRecord /\ ~late[flash] /\ flash \in Device
      /\ wel \in [Device -> BOOLEAN] /\ busy \in [Device -> BOOLEAN]
  BY <1>1, Drivers, LateStays, FlashDriverAssumption
  DEF FlashInv, TalkInv, DriverInv, ChipInv
<1>b. ASSUME InUse(job[t]), job[t].dev = flash, Armed(job[t], at[t]), ~JobEnds(t)
      PROVE  wel'[flash]
  <2>1. wel[flash]
    BY <1>a, <1>b DEF EnableInv
  <2>2. ASSUME NEW u \in Driver, JobEnds(u) PROVE FALSE
    <3>1. InUse(job[u]) /\ InUse(job[t])
      BY <1>b, <2>2, EndsAt
    <3>2. u = t
      BY <3>1, Alone DEF InUse
    <3>3. QED  BY <1>b, <2>2, <3>2
  <2>3. wel' = wel
    BY <2>2, ChipFrame
  <2>4. QED  BY <2>1, <2>3
<1>2. CASE JobEnds(t)
  <2>1. /\ at[t] = "selected" /\ at'[t] = "deselected"
        /\ job'[t] = [job[t] EXCEPT !.wip = job'[t].wip]
        /\ InUse(job[t])
    BY <1>2, EndsAt
  <2>2. job'[t].step = job[t].step /\ job'[t].dev = job[t].dev
    BY <1>a, <2>1 DEF JobRecord
  <2>3. job[t].step = "wren" /\ job[t].dev = flash
    BY <1>1, <2>1, <2>2 DEF Armed
  <2>4. ~busy[flash]
    <3>1. ~Awaits(t, job[t].dev)
      BY <2>3 DEF Awaits, Given
    <3>2. QED  BY <1>a, <2>1, <2>3, <3>1, NotBusy
  <2>5. wel' = [wel EXCEPT ![flash] = wel[flash] \/ ~busy[flash]]
    BY <1>2, <2>3 DEF JobEnds, WriteEnable
  <2>6. wel'[flash] = (wel[flash] \/ ~busy[flash])
    BY <1>a, <2>5, Zenon
  <2>7. QED  BY <2>4, <2>6
<1>3. CASE ~JobEnds(t)
  <2>1. CASE Same(t)
    BY <1>1, <1>3, <1>b, <2>1 DEF Same, Armed
  <2>2. CASE Fresh(t)
    <3>1. at'[t] # "deselected"
      BY <2>2 DEF Fresh
    <3>2. job'[t].step = "wren"
      <4>1. CASE \E d \in Device : job'[t] = Erase(d)
        BY <1>1, <4>1 DEF Erase, FirstStep
      <4>2. CASE t = uart_upgrade /\ UpgPacket
        <5>1. PICK len \in PacketLengths :
                job' = [job EXCEPT ![t] = Write(type, offset[type], len)]
          BY <4>2 DEF UpgPacket, StartJob
        <5>2. job'[t] = Write(type, offset[type], len)
          BY <1>a, <5>1
        <5>3. QED  BY <1>1, <5>2 DEF Write, FirstStep
      <4>3. QED  BY <1>1, <2>2, <4>1, <4>2 DEF Fresh
    <3>3. QED  BY <1>1, <3>1, <3>2 DEF Armed
  <2>3. CASE JobSends(t)
    <3>1. /\ job' = [job EXCEPT ![t].step = IF @ = "wren" THEN "cmd" ELSE "ready"]
          /\ at[t] = "deselected"
      BY <2>3 DEF JobSends, Release
    <3>2. /\ job'[t].op = job[t].op /\ job'[t].dev = job[t].dev
          /\ job'[t].step = IF job[t].step = "wren" THEN "cmd" ELSE "ready"
      BY <1>a, <3>1 DEF JobRecord
    <3>3. InUse(job[t]) /\ job[t].dev = flash /\ Armed(job[t], at[t])
      BY <1>1, <3>1, <3>2 DEF InUse, Armed
    <3>4. QED  BY <1>3, <1>b, <3>3
  <2>4. CASE JobWaits(t)
    <3>1. job' = [job EXCEPT ![t].timeout = @ - 1] /\ job[t].step = "ready"
      BY <2>4 DEF JobWaits
    <3>2. job'[t].step = "ready"
      BY <1>a, <3>1 DEF JobRecord
    <3>3. QED  BY <1>1, <3>2 DEF Armed
  <2>5. CASE JobReady(t) \/ JobGivesUp(t)
    <3>1. CASE JobReturns(t)
      <4>1. job'[t] = NoJob
        BY <1>a, <3>1 DEF JobReturns
      <4>2. QED  BY <1>1, <4>1 DEF InUse, NoJob
    <3>2. CASE ~JobReturns(t)
      <4>1. job' = [job EXCEPT ![t] = NextPiece(job[t])] /\ Release(t, "running")
        BY <2>5, <3>2 DEF JobReady, JobGivesUp
      <4>2. job'[t] = NextPiece(job[t]) /\ at'[t] # "deselected"
        BY <1>a, <4>1, Itself DEF Wants, Inside
      <4>3. job'[t].step = "wren"
        BY <1>1, <4>2 DEF NextPiece, FirstStep
      <4>4. QED  BY <1>1, <4>2, <4>3 DEF Armed
    <3>3. QED  BY <3>1, <3>2
  <2>6. QED  BY <1>3, <2>1, <2>2, <2>3, <2>4, <2>5, RoutineStep DEF Goes
<1>4. QED  BY <1>2, <1>3

(* So a device carries out the command of a routine. *)
LEMMA CarriedOut ==
  ASSUME FlashInv, BusyInv, EnableInv, NEW t \in Driver, JobEnds(t),
         job[t].step = "cmd", ~late[job[t].dev]
  PROVE  /\ job' = job
         /\ content' = [content EXCEPT ![job[t].dev] = [a \in Address |->
                          IF job[t].op = "write" THEN Programmed(job[t].dev, job[t], a)
                          ELSE AfterErase(job[t].dev, job[t], a)]]
<1>1. InUse(job[t]) /\ at[t] = "selected" /\ job[t].dev \in Device
  BY EndsAt
<1>2. ~Awaits(t, job[t].dev)
  BY <1>1 DEF Awaits, Given
<1>3. ~busy[job[t].dev]
  BY <1>1, <1>2, NotBusy
<1>4. job[t].dev = flash => wel[job[t].dev]
  BY <1>1 DEF EnableInv, Armed
<1>5. Accepts(job[t].dev)
  BY <1>3, <1>4 DEF Accepts
<1>6. QED  BY <1>5 DEF JobEnds, ProgramOrErase
-----------------------------------------------------------------------------
(* While a routine runs, its own transactions alone change contents and    *)
(* its own end alone moves an offset.                                      *)
LEMMA ContentMine ==
  ASSUME FlashInv, [Next]_vars, NEW t \in Driver, job[t].op # "none", ~JobEnds(t)
  PROVE  content' = content
<1>1. ASSUME NEW u \in Driver, JobEnds(u) PROVE FALSE
  <2>1. job[u].op # "none"
    BY <1>1 DEF JobEnds, Working
  <2>2. u = t
    BY <2>1, Alone
  <2>3. QED  BY <1>1, <2>2
<1>2. QED  BY <1>1, ChipFrame

(* (JobReady and JobGivesUp move it, when they return.) *)
LEMMA OffsetMine ==
  ASSUME FlashInv, [Next]_vars, NEW t \in Driver, job[t].op # "none", job'[t].op # "none"
  PROVE  offset' = offset
<1>1. ASSUME NEW u \in Thread, JobReady(u) \/ JobGivesUp(u), JobReturns(u) PROVE FALSE
  <2>1. u \in Driver /\ job[u].op # "none"
    BY <1>1 DEF JobReady, JobGivesUp, Working
  <2>2. u = t
    BY <2>1, Alone
  <2>3. job'[t].op = "none"
    BY <1>1, <2>2 DEF JobReturns, NoJob, FlashInv, TalkInv, DriverInv
  <2>4. QED  BY <2>3
<1>2. ASSUME NEW u \in Thread, JobReady(u) \/ JobGivesUp(u) PROVE offset' = offset
  BY <1>1, <1>2 DEF JobReady, JobGivesUp
<1>3. CASE ~\E u \in Thread : JobReady(u) \/ JobGivesUp(u)
  BY <1>3 DEF Next, Command, AntennaRound, ChangeSetting, CtlCalls, CtlEraseFpga,
              CtlEraseMcu, CtlProg, UpgPacket, UpgEnds, StartCalls, StartJob, Transaction,
              CallTakes, CallEnds, CallReturns, Selects, JobTakes, DelayEnds, JobEnds,
              JobSends, JobWaits, StrapLow, StrapHigh, DeviceReady, driverVars, vars
<1>4. QED  BY <1>2, <1>3

(* What is sent of a packet stays in the device if no more is sent. *)
LEMMA ProgramKept ==
  ASSUME FlashInv, [Next]_vars, ProgramInv, NEW d \in Device,
         job[uart_upgrade].op = "write", job[uart_upgrade].dev = d,
         job'[uart_upgrade].dev = d, job'[uart_upgrade].len = job[uart_upgrade].len,
         offset' = offset, content' = content, Reach(d)' = Reach(d)
  PROVE  ProgramInv'
<1>1. offset'[d] + job'[uart_upgrade].len <= FLASH_SIZE
  BY DEF ProgramInv
<1>2. late'[d] \/ \A a \in Address : offset'[d] <= a /\ a < Reach(d)' => content'[d][a] = a
  BY LateStays DEF ProgramInv
<1>3. QED  BY <1>1, <1>2 DEF ProgramInv

(* A reach changes with the routine only. *)
LEMMA ReachSame ==
  ASSUME job'[uart_upgrade].op = job[uart_upgrade].op,
         job'[uart_upgrade].dev = job[uart_upgrade].dev,
         job'[uart_upgrade].len = job[uart_upgrade].len,
         job'[uart_upgrade].actual = job[uart_upgrade].actual,
         job'[uart_upgrade].byte_addr = job[uart_upgrade].byte_addr,
         Given(job'[uart_upgrade], at'[uart_upgrade])
           <=> Given(job[uart_upgrade], at[uart_upgrade]),
         offset' = offset
  PROVE  \A d \in Device : Reach(d)' = Reach(d)
<1>1. Chunk(job'[uart_upgrade]) = Chunk(job[uart_upgrade])
  BY DEF Chunk
<1>2. QED  BY <1>1 DEF Reach, ReachOf

(* Every byte of a chunk that is carried out gets there. *)
LEMMA ChunkProgrammed ==
  ASSUME FlashInv, NEW d \in Device, NEW a \in Address,
         job[uart_upgrade].op = "write", job[uart_upgrade].step = "cmd",
         job[uart_upgrade].dev = d, at[uart_upgrade] = "selected",
         offset[d] + job[uart_upgrade].actual <= a,
         a < offset[d] + (job[uart_upgrade].actual + Chunk(job[uart_upgrade]))
  PROVE  Programmed(d, job[uart_upgrade], a) = a
<1> DEFINE j == job[uart_upgrade]
           k == a - (offset[d] + j.actual)
<1>1. j \in JobRecord /\ JobOK(j) /\ j.op = "write" /\ j.dev = d
  BY Drivers DEF FlashInv, TalkInv, DriverInv, CountInv
<1>2. /\ offset[d] \in Nat /\ j.actual \in Nat /\ j.page_addr \in Nat
      /\ j.byte_addr \in 0 .. PAGE_SIZE - 1 /\ PAGE_SIZE \in Nat \ {0} /\ a \in Int
  BY <1>1, FlashDriverAssumption DEF JobOK, FlashInv, CountInv, Address
<1>3. Chunk(j) \in Nat /\ Chunk(j) <= PAGE_SIZE - j.byte_addr
  BY <1>1, ChunkFits
<1>4. offset[d] + j.actual = j.page_addr * PAGE_SIZE + j.byte_addr
  BY <1>1 DEF FlashInv, PlaceInv
<1>5. offset[d] + j.actual <= a /\ a < offset[d] + (j.actual + Chunk(j))
  OBVIOUS
<1>6. Reach(d) = offset[d] + (j.actual + 0)
  BY <1>1 DEF Reach, ReachOf, Given
<1>7. content[d][a] = Erased
  <2>1. ~(a < Reach(d))
    <3> HIDE DEF j
    <3>1. QED  BY <1>2, <1>5, <1>6
  <2>2. QED  BY <2>1 DEF FlashInv, ContentInv
<1>8. /\ k \in Nat /\ k < Chunk(j) /\ k < PAGE_SIZE - j.byte_addr
      /\ a = j.page_addr * PAGE_SIZE + j.byte_addr + k
      /\ offset[d] + j.actual + k = a
  <2> HIDE DEF j
  <2>1. QED  BY <1>2, <1>3, <1>4, <1>5
<1> HIDE DEF k
<1>9. a \div PAGE_SIZE = j.page_addr /\ (a - j.byte_addr) % PAGE_SIZE = k
  <2>1. PAGE_SIZE \in Nat \ {0} /\ a \in Int /\ k \in Nat /\ j.page_addr \in Int
    BY <1>2, <1>8
  <2>2. /\ j.byte_addr \in 0 .. PAGE_SIZE - 1 /\ k < PAGE_SIZE - j.byte_addr
        /\ a = j.page_addr * PAGE_SIZE + j.byte_addr + k
    BY <1>2, <1>8, Zenon
  <2>3. \A p \in Int : \A b \in 0 .. PAGE_SIZE - 1 :
          k < PAGE_SIZE - b /\ a = p * PAGE_SIZE + b + k =>
            a \div PAGE_SIZE = p /\ (a - b) % PAGE_SIZE = k
    <3>1. SUFFICES ASSUME NEW p \in Int, NEW b \in 0 .. PAGE_SIZE - 1,
                          k < PAGE_SIZE - b, a = p * PAGE_SIZE + b + k
                   PROVE  a \div PAGE_SIZE = p /\ (a - b) % PAGE_SIZE = k
      OBVIOUS
    <3> DEFINE w == p * PAGE_SIZE
               n == PAGE_SIZE
    <3>2. n \in Nat \ {0} /\ w \in Int /\ w = p * n /\ b \in 0 .. n - 1 /\ k < n - b
      BY <2>1, <3>1
    <3>3. a \in Int /\ k \in Nat /\ a = w + b + k
      BY <2>1, <3>1
    <3> HIDE DEF j, w, n
    <3>4. a \div n = p /\ (a - b) % n = k
      BY <3>2, <3>3, ByteHit
    <3>5. QED  BY <3>4 DEF n
  <2>4. QED  BY <2>1, <2>2, <2>3, Zenon
<1>10. ~(k >= Chunk(j))
  <2> HIDE DEF j
  <2>1. QED  BY <1>3, <1>8
<1>11. Programmed(d, j, a) = offset[d] + j.actual + k
  BY <1>7, <1>9, <1>10 DEF Programmed
<1>12. QED  BY <1>8, <1>11

(* The device takes a chunk: all that was sent is still there. *)
LEMMA ProgramEnds ==
  ASSUME FlashInv, BusyInv, EnableInv, ProgramInv, [Next]_vars,
         JobEnds(uart_upgrade), job[uart_upgrade].op = "write"
  PROVE  ProgramInv'
<1> DEFINE j == job[uart_upgrade]
<1>a. /\ uart_upgrade \in Driver /\ uart_upgrade \in Thread
      /\ job \in [Driver -> JobRecord] /\ j \in JobRecord /\ j.op = "write"
      /\ JobOK(j) /\ offset \in [Device -> Nat]
  BY Drivers DEF FlashInv, TalkInv, DriverInv, CountInv
<1>b. PICK d \in Device : d = j.dev
  BY <1>a DEF JobRecord
<1>1. /\ at[uart_upgrade] = "selected" /\ at'[uart_upgrade] = "deselected"
      /\ offset' = offset
      /\ job'[uart_upgrade] = [j EXCEPT !.wip = job'[uart_upgrade].wip]
  BY <1>a, EndsAt
<1>2. /\ job'[uart_upgrade].op = j.op /\ job'[uart_upgrade].dev = j.dev
      /\ job'[uart_upgrade].len = j.len /\ job'[uart_upgrade].actual = j.actual
      /\ job'[uart_upgrade].byte_addr = j.byte_addr
      /\ job'[uart_upgrade].step = j.step
  BY <1>a, <1>1 DEF JobRecord
<1>3. CASE j.step = "cmd"
  <2>1. Reach(d) = offset[d] + (j.actual + 0)
    BY <1>a, <1>b, <1>1, <1>3 DEF Reach, ReachOf, Given
  <2>2. Reach(d)' = offset[d] + (j.actual + Chunk(j))
    <3>1. Chunk(job'[uart_upgrade]) = Chunk(j)
      BY <1>2 DEF Chunk
    <3>2. QED  BY <1>a, <1>b, <1>1, <1>2, <1>3, <3>1 DEF Reach, ReachOf, Given
  <2>3. ASSUME ~late'[d], NEW a \in Address, offset[d] <= a, a < Reach(d)'
        PROVE  content'[d][a] = a
    <3>1. ~late[d]
      BY <2>3, LateStays
    <3>2. content' = [content EXCEPT ![d] = [b \in Address |-> Programmed(d, j, b)]]
      BY <1>a, <1>b, <1>3, <3>1, CarriedOut
    <3>3. content'[d][a] = Programmed(d, j, a)
      BY <3>2 DEF FlashInv, ChipInv
    <3>4. CASE a < Reach(d)
      <4>1. content[d][a] = a
        BY <1>a, <1>b, <2>3, <3>1, <3>4 DEF ProgramInv
      <4>2. Programmed(d, j, a) = content[d][a] \/ Programmed(d, j, a) = a
        BY <1>a, <1>b, <1>1, <1>3, ByteInPlace DEF FlashInv, TalkInv
      <4>3. QED  BY <3>3, <4>1, <4>2
    <3>5. CASE ~(a < Reach(d))
      <4>1. offset[d] + j.actual <= a
        <5>1. offset[d] \in Int /\ j.actual \in Int /\ a \in Int
          BY <1>a DEF JobRecord, Address
        <5> HIDE DEF j
        <5>2. QED  BY <2>1, <3>5, <5>1
      <4>2. Programmed(d, j, a) = a
        BY <1>a, <1>b, <1>1, <1>3, <2>2, <2>3, <4>1, ChunkProgrammed
      <4>3. QED  BY <3>3, <4>2
    <3>6. QED  BY <3>4, <3>5
  <2>4. offset[d] + j.len <= FLASH_SIZE
    BY <1>a, <1>b DEF ProgramInv
  <2>5. QED  BY <1>b, <1>1, <1>2, <2>3, <2>4 DEF ProgramInv
<1>4. CASE j.step # "cmd"
  <2>1. content' = content
    BY <1>4 DEF JobEnds, WriteEnable, chipVars
  <2>2. Given(job'[uart_upgrade], at'[uart_upgrade]) <=> Given(j, at[uart_upgrade])
    BY <1>2, <1>4 DEF Given
  <2>3. Reach(d)' = Reach(d)
    BY <1>1, <1>2, <2>2, ReachSame
  <2>4. QED  BY <1>a, <1>b, <1>1, <1>2, <2>1, <2>3, ProgramKept
<1>5. QED  BY <1>3, <1>4

(* Every step. *)
LEMMA ProgramStep ==
  ASSUME FlashInv, BusyInv, EnableInv, ProgramInv, [Next]_vars
  PROVE  ProgramInv'
<1> DEFINE j == job[uart_upgrade]
           k == job'[uart_upgrade]
<1>1. SUFFICES ASSUME k.op = "write" PROVE ProgramInv'
  BY DEF ProgramInv
<1>a. /\ uart_upgrade \in Driver /\ uart_upgrade \in Thread /\ uart_upgrade # uart_ctl
      /\ BusInv /\ DriverInv /\ DriverInv' /\ job \in [Driver -> JobRecord]
      /\ j \in JobRecord
  BY Drivers, DriverNextInv DEF FlashInv, TalkInv, DriverInv
<1>2. CASE j.op = "write"
  <2>1. offset' = offset
    BY <1>a, <1>1, <1>2, OffsetMine
  <2>2. ASSUME k.dev = j.dev, k.len = j.len, content' = content,
               \A d \in Device : Reach(d)' = Reach(d)
        PROVE  ProgramInv'
    <3>1. j.dev \in Device
      BY <1>a DEF JobRecord
    <3>2. \A d \in Device : j.dev = d => ProgramInv'
      BY <1>2, <2>1, <2>2, ProgramKept
    <3>3. QED  BY <3>1, <3>2
  <2>3. CASE JobEnds(uart_upgrade)
    BY <1>2, <2>3, ProgramEnds
  <2>4. CASE ~JobEnds(uart_upgrade)
    <3>1. content' = content
      BY <1>a, <1>2, <2>4, ContentMine
    <3>2. ASSUME k.dev = j.dev, k.len = j.len, k.actual = j.actual, k.byte_addr = j.byte_addr,
                 Given(k, at'[uart_upgrade]) <=> Given(j, at[uart_upgrade])
          PROVE  ProgramInv'
      BY <1>1, <1>2, <2>1, <2>2, <3>1, <3>2, ReachSame
    <3>3. CASE Same(uart_upgrade)
      BY <1>2, <3>2, <3>3 DEF Same, InUse, Given
    <3>4. CASE Fresh(uart_upgrade)
      BY <1>2, <3>4 DEF Fresh, InUse
    <3>5. CASE JobSends(uart_upgrade)
      <4>1. /\ job' = [job EXCEPT ![uart_upgrade].step = IF @ = "wren" THEN "cmd" ELSE "ready"]
            /\ Release(uart_upgrade, "running") /\ j.step \in {"wren", "cmd"}
        BY <3>5 DEF JobSends
      <4>2. at[uart_upgrade] = "deselected" /\ at'[uart_upgrade] # "deselected"
        BY <1>a, <4>1, Itself DEF Wants, Inside
      <4>3. /\ k.dev = j.dev /\ k.len = j.len /\ k.actual = j.actual
            /\ k.byte_addr = j.byte_addr
            /\ k.step = IF j.step = "wren" THEN "cmd" ELSE "ready"
        BY <1>a, <4>1 DEF JobRecord
      <4>4. Given(k, at'[uart_upgrade]) <=> Given(j, at[uart_upgrade])
        BY <4>1, <4>2, <4>3 DEF Given
      <4>5. QED  BY <3>2, <4>3, <4>4
    <3>6. CASE JobWaits(uart_upgrade)
      <4>1. job' = [job EXCEPT ![uart_upgrade].timeout = @ - 1] /\ j.step = "ready"
        BY <3>6 DEF JobWaits
      <4>2. /\ k.dev = j.dev /\ k.len = j.len /\ k.actual = j.actual
            /\ k.byte_addr = j.byte_addr /\ k.step = "ready"
        BY <1>a, <4>1 DEF JobRecord
      <4>3. QED  BY <3>2, <4>1, <4>2 DEF Given
    <3>7. CASE JobReady(uart_upgrade) \/ JobGivesUp(uart_upgrade)
      <4>1. ~JobReturns(uart_upgrade)
        BY <1>a, <1>1 DEF JobReturns, NoJob
      <4>2. /\ j.step = "ready" /\ j.actual + Piece(j) < j.len
            /\ Release(uart_upgrade, "running")
            /\ job' = [job EXCEPT ![uart_upgrade] = NextPiece(j)]
        BY <3>7, <4>1 DEF JobReady, JobGivesUp
      <4>3. \A d \in Device : Reach(d)' = Reach(d)
        BY <1>a, <1>2, <2>1, <3>1, <4>2, GoesOn DEF FlashInv
      <4>4. k.dev = j.dev /\ k.len = j.len
        BY <1>a, <4>2 DEF NextPiece
      <4>5. QED  BY <2>2, <3>1, <4>3, <4>4
    <3>8. QED
      BY <1>a, <2>4, <3>3, <3>4, <3>5, <3>6, <3>7, RoutineStep DEF Goes
  <2>5. QED  BY <2>3, <2>4
<1>3. CASE j.op # "write"
  <2>1. ~Same(uart_upgrade) /\ ~Goes(uart_upgrade)
    <3>1. ~Same(uart_upgrade)
      BY <1>1, <1>3 DEF Same
    <3>2. ASSUME Goes(uart_upgrade) PROVE FALSE
      <4>1. j.op # "none"
        BY <3>2 DEF Goes, JobEnds, JobSends, JobReady, JobWaits, JobGivesUp, Working
      <4>2. QED  BY <1>3, <4>1 DEF FlashInv, TalkInv, ModeInv
    <3>3. QED  BY <3>1, <3>2
  <2>2. UpgPacket /\ at'[uart_upgrade] # "deselected"
    BY <1>a, <1>1, <2>1, RoutineStep DEF Fresh, InUse
  <2>3. PICK len \in PacketLengths :
          /\ offset[type] + len <= FLASH_SIZE
          /\ StartJob(uart_upgrade, Write(type, offset[type], len))
    BY <2>2 DEF UpgPacket
  <2>4. k = Write(type, offset[type], len) /\ offset' = offset /\ type \in Device
    BY <1>a, <2>3 DEF StartJob, DriverInv
  <2>5. /\ k.dev = type /\ k.len = len /\ k.actual = 0
        /\ ~Given(k, at'[uart_upgrade])
    BY <2>2, <2>4 DEF Write, FirstStep, Given
  <2>6. Reach(type)' = offset[type] + (0 + 0)
    <3>1. type' = type
      BY <2>3 DEF StartJob
    <3>2. QED  BY <1>1, <2>4, <2>5, <3>1 DEF Reach, ReachOf
  <2>7. type' = type /\ offset[type] \in Int
    BY <1>a, <2>3, <2>4 DEF StartJob, DriverInv
  <2>8. ~\E a \in Address : offset'[type] <= a /\ a < Reach(type)'
    BY <2>4, <2>6, <2>7 DEF Address
  <2>9. QED  BY <2>3, <2>4, <2>5, <2>7, <2>8 DEF ProgramInv
<1>4. QED  BY <1>2, <1>3
-----------------------------------------------------------------------------
(* The erase commands of a driver are a sector apart and the sectors fill  *)
(* the device: so it is for the baseband and for two of the three flashes. *)
SectorsMatch ==
  \A d \in Device : ERASE_STEP[d] = SECTOR_SIZE[d] /\ FLASH_SIZE % SECTOR_SIZE[d] = 0

(* Sectors that have been erased stay so if the routine stays there.       *)
LEMMA EraseKept ==
  ASSUME FlashInv, [Next]_vars, EraseInv, NEW d \in Device,
         job[uart_ctl].op = "erase", job[uart_ctl].dev = d,
         job'[uart_ctl].dev = d, job'[uart_ctl].len = job[uart_ctl].len,
         Passed(job'[uart_ctl], at'[uart_ctl]) = Passed(job[uart_ctl], at[uart_ctl]),
         content' = content
  PROVE  EraseInv'
<1>1. job'[uart_ctl].len = FLASH_SIZE \div SECTOR_SIZE[d]
  BY DEF EraseInv
<1>2. late'[d] \/ \A a \in Address :
        a \div SECTOR_SIZE[d] < Passed(job'[uart_ctl], at'[uart_ctl]) => content'[d][a] = Erased
  BY LateStays DEF EraseInv
<1>3. QED  BY <1>1, <1>2 DEF EraseInv

(* A sector is carried out. *)
LEMMA EraseEnds ==
  ASSUME SectorsMatch, FlashInv, BusyInv, EnableInv, EraseInv, [Next]_vars,
         JobEnds(uart_ctl), job[uart_ctl].op = "erase"
  PROVE  EraseInv'
<1> DEFINE j == job[uart_ctl]
           k == job'[uart_ctl]
<1>a. /\ uart_ctl \in Driver /\ job \in [Driver -> JobRecord] /\ j \in JobRecord
      /\ JobOK(j) /\ j.op = "erase"
  BY Drivers DEF FlashInv, TalkInv, DriverInv, CountInv
<1>b. PICK d \in Device : d = j.dev
  BY <1>a DEF JobRecord
<1>1. /\ at[uart_ctl] = "selected" /\ at'[uart_ctl] = "deselected"
      /\ k = [j EXCEPT !.wip = k.wip]
  BY <1>a, EndsAt
<1>2. /\ k.dev = j.dev /\ k.len = j.len /\ k.actual = j.actual /\ k.step = j.step
  BY <1>a, <1>1 DEF JobRecord
<1>3. CASE j.step = "cmd"
  <2>1. Passed(j, at[uart_ctl]) = j.actual + 0 /\ Passed(k, at'[uart_ctl]) = j.actual + 1
    BY <1>1, <1>2, <1>3 DEF Passed, Given
  <2>2. ASSUME ~late'[d], NEW a \in Address, a \div SECTOR_SIZE[d] < j.actual + 1
        PROVE  content'[d][a] = Erased
    <3>1. ~late[d]
      BY <2>2, LateStays
    <3>2. content' = [content EXCEPT ![d] = [b \in Address |-> AfterErase(d, j, b)]]
      BY <1>a, <1>b, <1>3, <3>1, CarriedOut
    <3>3. content'[d][a] = AfterErase(d, j, a)
      BY <3>2 DEF FlashInv, ChipInv
    <3>4. /\ SECTOR_SIZE[d] \in Nat \ {0} /\ ERASE_STEP[d] = SECTOR_SIZE[d]
          /\ a \in Int /\ j.actual \in Nat
      BY <1>a, FlashDriverAssumption DEF SectorsMatch, Address, JobOK
    <3>5. (j.actual * ERASE_STEP[d]) \div SECTOR_SIZE[d] = j.actual
      <4>1. \A n \in Nat \ {0}, q \in Int : (q * n) \div n = q
        <5>1. SUFFICES ASSUME NEW n \in Nat \ {0}, NEW q \in Int PROVE (q * n) \div n = q
          OBVIOUS
        <5>2. q * n \in Int /\ q * n = q * n + 0 /\ 0 \in 0 .. n - 1
          OBVIOUS
        <5>3. QED  BY <5>2, DivUnique
      <4>2. j.actual \in Int
        BY <3>4
      <4>3. QED  BY <3>4, <4>1, <4>2, Zenon
    <3>6. a \div SECTOR_SIZE[d] \in Int
      BY <3>4
    <3>7. CASE a \div SECTOR_SIZE[d] = j.actual
      BY <3>3, <3>5, <3>7 DEF AfterErase
    <3>8. CASE a \div SECTOR_SIZE[d] # j.actual
      <4>1. a \div SECTOR_SIZE[d] < Passed(j, at[uart_ctl])
        <5>1. j.actual \in Int
          BY <3>4
        <5> DEFINE s == a \div SECTOR_SIZE[d]
                   n == j.actual
        <5>2. s < n + 1 /\ s # n /\ s \in Int /\ n \in Int
          BY <2>2, <3>6, <3>8, <5>1
        <5>3. Passed(j, at[uart_ctl]) = n + 0
          BY <2>1
        <5> HIDE DEF s, n, j
        <5>4. s < Passed(j, at[uart_ctl])
          BY <5>2, <5>3
        <5>5. QED  BY <5>4 DEF s
      <4>2. content[d][a] = Erased
        BY <1>a, <1>b, <3>1, <4>1 DEF EraseInv
      <4>3. QED  BY <3>3, <4>2 DEF AfterErase
    <3>9. QED  BY <3>7, <3>8
  <2>3. k.len = FLASH_SIZE \div SECTOR_SIZE[d]
    BY <1>a, <1>b, <1>2 DEF EraseInv
  <2>4. QED  BY <1>b, <1>2, <2>1, <2>2, <2>3 DEF EraseInv
<1>4. CASE j.step # "cmd"
  <2>1. content' = content
    BY <1>4 DEF JobEnds, WriteEnable, chipVars
  <2>2. Passed(k, at'[uart_ctl]) = Passed(j, at[uart_ctl])
    BY <1>2, <1>4 DEF Passed, Given
  <2>3. QED  BY <1>a, <1>b, <1>2, <2>1, <2>2, EraseKept
<1>5. QED  BY <1>3, <1>4

(* Every step, while a routine erases. *)
LEMMA EraseStep ==
  ASSUME SectorsMatch, FlashInv, BusyInv, EnableInv, EraseInv, [Next]_vars
  PROVE  EraseInv'
<1> DEFINE j == job[uart_ctl]
           k == job'[uart_ctl]
<1>1. SUFFICES ASSUME k.op = "erase" PROVE EraseInv'
  BY DEF EraseInv
<1>a. /\ uart_ctl \in Driver /\ uart_ctl \in Thread /\ uart_upgrade # uart_ctl
      /\ BusInv /\ job \in [Driver -> JobRecord] /\ j \in JobRecord /\ JobOK(j)
  BY Drivers DEF FlashInv, TalkInv, DriverInv, CountInv
<1>2. CASE Fresh(uart_ctl)
  <2>1. PICK d \in Device : k = Erase(d)
    BY <1>a, <1>1, <1>2 DEF Fresh, InUse
  <2>2. /\ k.dev = d /\ k.len = FLASH_SIZE \div SECTOR_SIZE[d] /\ k.actual = 0
        /\ k.step \in {"wren", "cmd"}
    BY <2>1 DEF Erase, FirstStep
  <2>3. Passed(k, at'[uart_ctl]) = 0 + 0
    BY <1>2, <2>2 DEF Fresh, Passed, Given
  <2>4. \A a \in Address : ~(a \div SECTOR_SIZE[d] < Passed(k, at'[uart_ctl]))
    <3>1. \A a \in Nat, n \in Nat \ {0} : a \div n >= 0 /\ a \div n \in Int
      OBVIOUS
    <3>2. \A a \in Address : a \in Nat
      BY FlashDriverAssumption DEF Address
    <3>3. SECTOR_SIZE[d] \in Nat \ {0}
      BY FlashDriverAssumption
    <3>4. QED  BY <2>3, <3>1, <3>2, <3>3
  <2>5. QED  BY <2>2, <2>4 DEF EraseInv
<1>3. CASE ~Fresh(uart_ctl)
  <2>1. Same(uart_ctl) \/ Goes(uart_ctl)
    BY <1>a, <1>3, RoutineStep
  <2>2. j.op = "erase"
    <3>1. CASE Same(uart_ctl)
      BY <1>1, <3>1 DEF Same
    <3>2. CASE JobEnds(uart_ctl)
      <4>1. InUse(j)
        BY <1>a, <3>2, EndsAt
      <4>2. QED  BY <4>1 DEF InUse, FlashInv, TalkInv, ModeInv
    <3>3. CASE JobSends(uart_ctl) \/ JobReady(uart_ctl) \/ JobWaits(uart_ctl)
               \/ JobGivesUp(uart_ctl)
      <4>1. k.op = j.op \/ k.op = "none"
        BY <1>a, <3>3 DEF JobSends, JobReady, JobWaits, JobGivesUp, JobReturns, NextPiece,
                          NoJob, JobRecord
      <4>2. QED  BY <1>1, <4>1
    <3>4. QED  BY <2>1, <3>1, <3>2, <3>3 DEF Goes
  <2>3. ASSUME ~JobEnds(uart_ctl), k.dev = j.dev, k.len = j.len,
               Passed(k, at'[uart_ctl]) = Passed(j, at[uart_ctl])
        PROVE  EraseInv'
    <3>1. content' = content
      BY <1>a, <2>2, <2>3, ContentMine
    <3>2. j.dev \in Device
      BY <1>a DEF JobRecord
    <3>3. \A d \in Device : j.dev = d => EraseInv'
      BY <2>2, <2>3, <3>1, EraseKept
    <3>4. QED  BY <3>2, <3>3
  <2>4. CASE JobEnds(uart_ctl)
    BY <2>2, <2>4, EraseEnds
  <2>5. CASE ~JobEnds(uart_ctl)
    <3>1. CASE Same(uart_ctl)
      BY <2>2, <2>3, <2>5, <3>1 DEF Same, InUse, Passed, Given
    <3>2. CASE JobSends(uart_ctl)
      <4>1. /\ job' = [job EXCEPT ![uart_ctl].step = IF @ = "wren" THEN "cmd" ELSE "ready"]
            /\ Release(uart_ctl, "running") /\ j.step \in {"wren", "cmd"}
        BY <3>2 DEF JobSends
      <4>2. at[uart_ctl] = "deselected" /\ at'[uart_ctl] # "deselected"
        BY <1>a, <4>1, Itself DEF Wants, Inside
      <4>3. /\ k.dev = j.dev /\ k.len = j.len /\ k.actual = j.actual
            /\ k.step = IF j.step = "wren" THEN "cmd" ELSE "ready"
        BY <1>a, <4>1 DEF JobRecord
      <4>4. Given(k, at'[uart_ctl]) <=> Given(j, at[uart_ctl])
        BY <4>1, <4>2, <4>3 DEF Given
      <4>5. QED  BY <2>3, <2>5, <4>3, <4>4 DEF Passed
    <3>3. CASE JobWaits(uart_ctl)
      <4>1. job' = [job EXCEPT ![uart_ctl].timeout = @ - 1] /\ j.step = "ready"
        BY <3>3 DEF JobWaits
      <4>2. /\ k.dev = j.dev /\ k.len = j.len /\ k.actual = j.actual /\ k.step = "ready"
        BY <1>a, <4>1 DEF JobRecord
      <4>3. QED  BY <2>3, <2>5, <4>1, <4>2 DEF Passed, Given
    <3>4. CASE JobReady(uart_ctl) \/ JobGivesUp(uart_ctl)
      <4>1. ~JobReturns(uart_ctl)
        BY <1>a, <1>1 DEF JobReturns, NoJob
      <4>2. /\ j.step = "ready" /\ Release(uart_ctl, "running")
            /\ job' = [job EXCEPT ![uart_ctl] = NextPiece(j)]
        BY <3>4, <4>1 DEF JobReady, JobGivesUp
      <4>3. at'[uart_ctl] # "deselected"
        BY <1>a, <4>2, Itself DEF Wants, Inside
      <4>4. /\ k.dev = j.dev /\ k.len = j.len /\ k.actual = j.actual + 1
            /\ k.step \in {"wren", "cmd"}
        BY <1>a, <2>2, <4>2 DEF NextPiece, FirstStep, Piece
      <4>5. Passed(j, at[uart_ctl]) = j.actual + 1 /\ Passed(k, at'[uart_ctl]) = k.actual + 0
        BY <4>2, <4>3, <4>4 DEF Passed, Given
      <4>6. j.actual \in Int
        BY <1>a DEF JobRecord
      <4>7. k.actual + 0 = j.actual + 1
        <5> HIDE DEF j, k
        <5>1. QED  BY <4>4, <4>6
      <4>8. QED  BY <2>3, <2>5, <4>4, <4>5, <4>7
    <3>5. QED  BY <2>1, <2>5, <3>1, <3>2, <3>3, <3>4 DEF Goes
  <2>6. QED  BY <2>4, <2>5
<1>4. QED  BY <1>2, <1>3
-----------------------------------------------------------------------------
WholeInv == FlashInv /\ BusyInv /\ EnableInv /\ ProgramInv

(* All this holds at the start, *)
LEMMA WholeInit == Init => WholeInv /\ EraseInv
<1> SUFFICES ASSUME Init PROVE WholeInv /\ EraseInv
  OBVIOUS
<1>1. FlashInv
  BY FlashInit
<1>2. \A t \in Driver : job[t].op = "none"
  BY DEF Init, NoJob
<1>3. BusyInv
  BY DEF Init, BusyInv
<1>4. EnableInv
  BY <1>2 DEF EnableInv, InUse
<1>5. ProgramInv /\ EraseInv
  BY <1>2, Drivers DEF ProgramInv, EraseInv
<1>6. QED  BY <1>1, <1>3, <1>4, <1>5 DEF WholeInv

(* and after every step. *)
LEMMA WholeNext == WholeInv /\ [Next]_vars => WholeInv'
<1> SUFFICES ASSUME WholeInv, [Next]_vars PROVE WholeInv'
  OBVIOUS
<1>1. FlashInv' /\ BusyInv'
  BY FlashNext, BusyStep DEF WholeInv
<1>2. EnableInv' /\ ProgramInv'
  BY EnableStep, ProgramStep DEF WholeInv
<1>3. QED  BY <1>1, <1>2 DEF WholeInv

(* A routine ends when it is ready with all its pieces or gives up. *)
LEMMA EndsReady ==
  ASSUME FlashInv, [Next]_vars, NEW t \in Driver, InUse(job[t]), job'[t].op = "none",
         ~late'[job[t].dev]
  PROVE  /\ job[t].step = "ready" /\ job[t].actual + Piece(job[t]) >= job[t].len
         /\ JobReturns(t)
<1>a. job \in [Driver -> JobRecord] /\ job[t] \in JobRecord /\ late \in [Device -> BOOLEAN]
  BY DEF FlashInv, TalkInv, DriverInv, ChipInv
<1>1. CASE Same(t) \/ Fresh(t)
  BY <1>1 DEF Same, Fresh, InUse
<1>2. CASE JobEnds(t)
  <2>1. job'[t] = [job[t] EXCEPT !.wip = job'[t].wip]
    BY <1>2, EndsAt
  <2>2. job'[t].op = job[t].op
    BY <1>a, <2>1 DEF JobRecord
  <2>3. QED  BY <2>2 DEF InUse
<1>3. CASE JobSends(t) \/ JobWaits(t)
  <2>1. job'[t].op = job[t].op
    BY <1>a, <1>3 DEF JobSends, JobWaits, JobRecord
  <2>2. QED  BY <2>1 DEF InUse
<1>4. CASE JobGivesUp(t)
  BY <1>a, <1>4 DEF JobGivesUp, JobRecord
<1>5. CASE JobReady(t)
  <2>1. job'[t] # NextPiece(job[t])
    BY DEF NextPiece, InUse
  <2>2. job' # [job EXCEPT ![t] = NextPiece(job[t])]
    BY <1>a, <2>1
  <2>3. QED  BY <1>5, <2>2 DEF JobReady
<1>6. QED  BY <1>1, <1>2, <1>3, <1>4, <1>5, RoutineStep DEF Goes

(* When a packet's routine returns. *)
LEMMA PacketWhole ==
  ASSUME WholeInv, [Next]_vars, NEW d \in Device,
         job[uart_upgrade].op = "write", job[uart_upgrade].dev = d,
         job'[uart_upgrade].op = "none", ~late'[d]
  PROVE  \A a \in offset[d] .. offset'[d] - 1 : content'[d][a] = a
<1> DEFINE j == job[uart_upgrade]
<1>a. /\ FlashInv /\ uart_upgrade \in Driver /\ j \in JobRecord /\ JobOK(j)
      /\ j.op = "write" /\ j.dev = d /\ ~late[d]
      /\ offset \in [Device -> Nat] /\ job[uart_upgrade].op # "none"
  BY Drivers, LateStays DEF WholeInv, FlashInv, TalkInv, DriverInv, CountInv
<1>1. /\ j.step = "ready" /\ j.actual + Piece(j) >= j.len
      /\ JobReturns(uart_upgrade)
  BY <1>a, EndsReady DEF InUse
<1>2. content' = content
  <2>1. ~JobEnds(uart_upgrade)
    <3>1. ASSUME JobEnds(uart_upgrade) PROVE FALSE
      <4>1. at[uart_upgrade] = "selected"
        BY <1>a, <3>1, EndsAt
      <4>2. QED  BY <1>1, <4>1 DEF JobReturns, Release
    <3>2. QED  BY <3>1
  <2>2. QED  BY <1>a, <2>1, ContentMine
<1>3. offset'[d] = offset[d] + j.len
  BY <1>a, <1>1 DEF JobReturns
<1>4. Reach(d) = offset[d] + (j.actual + Chunk(j))
  BY <1>a, <1>1 DEF Reach, ReachOf, Given
<1>5. Chunk(j) \in Nat /\ j.actual + Chunk(j) <= j.len /\ Piece(j) = Chunk(j)
  BY <1>a, ChunkFits DEF Piece
<1>6. /\ offset[d] \in Nat /\ j.actual \in Nat /\ j.len \in Nat
      /\ offset[d] + j.len <= FLASH_SIZE
  BY <1>a DEF WholeInv, ProgramInv, JobOK
<1>7. Reach(d) = offset'[d]
  <2> HIDE DEF j
  <2>1. QED  BY <1>1, <1>3, <1>4, <1>5, <1>6
<1>8. ASSUME NEW a \in offset[d] .. offset'[d] - 1 PROVE content'[d][a] = a
  <2>1. a \in Address /\ offset[d] <= a /\ a < Reach(d)
    <3> HIDE DEF j
    <3>1. QED  BY <1>3, <1>6, <1>7, FlashDriverAssumption DEF Address
  <2>2. content[d][a] = a
    BY <1>a, <2>1 DEF WholeInv, ProgramInv
  <2>3. QED  BY <1>2, <2>2
<1>9. QED  BY <1>8

(* When the erase routine returns. *)
LEMMA DeviceErased ==
  ASSUME SectorsMatch, FlashInv, EraseInv, [Next]_vars,
         job[uart_ctl].op = "erase", job'[uart_ctl].op = "none", ~late'[job[uart_ctl].dev]
  PROVE  \A a \in Address : content'[job[uart_ctl].dev][a] = Erased
<1> DEFINE j == job[uart_ctl]
<1>a. /\ uart_ctl \in Driver /\ j \in JobRecord /\ JobOK(j) /\ j.dev \in Device
      /\ j.op = "erase" /\ job[uart_ctl].op # "none"
  BY Drivers DEF FlashInv, TalkInv, DriverInv, CountInv, JobRecord
<1>b. PICK d \in Device : d = j.dev
  BY <1>a
<1>c. ~late[d]
  BY <1>b, LateStays
<1>1. /\ j.step = "ready" /\ j.actual + 1 >= j.len /\ JobReturns(uart_ctl)
  BY <1>a, EndsReady DEF InUse, Piece
<1>2. content' = content
  <2>1. ASSUME JobEnds(uart_ctl) PROVE FALSE
    <3>1. at[uart_ctl] = "selected"
      BY <1>a, <2>1, EndsAt
    <3>2. QED  BY <1>1, <3>1 DEF JobReturns, Release
  <2>2. QED  BY <1>a, <2>1, ContentMine
<1>3. Passed(j, at[uart_ctl]) = j.actual + 1
  BY <1>1 DEF Passed, Given
<1>4. j.len = FLASH_SIZE \div SECTOR_SIZE[d]
  BY <1>a, <1>b DEF EraseInv
<1>5. ASSUME NEW a \in Address PROVE content'[d][a] = Erased
  <2>1. a \div SECTOR_SIZE[d] < FLASH_SIZE \div SECTOR_SIZE[d]
    <3>1. /\ SECTOR_SIZE[d] \in Nat \ {0} /\ FLASH_SIZE \in Nat
          /\ FLASH_SIZE % SECTOR_SIZE[d] = 0
          /\ a \in Int /\ 0 <= a /\ a < FLASH_SIZE
      BY FlashDriverAssumption DEF SectorsMatch, Address
    <3>2. \A n \in Nat \ {0}, x, y \in Int :
            x < y /\ y % n = 0 => x \div n < y \div n
      <4>1. SUFFICES ASSUME NEW n \in Nat \ {0}, NEW x \in Int, NEW y \in Int,
                            x < y, y % n = 0
                     PROVE  x \div n < y \div n
        OBVIOUS
      <4> DEFINE p == x \div n
                 q == y \div n
                 r == x % n
      <4>2. x = p * n + r /\ p \in Int /\ r \in 0 .. n - 1
        BY DivMod
      <4>3. y = q * n + 0 /\ q \in Int
        BY DivMod, <4>1
      <4> HIDE DEF p, q, r
      <4>4. (q - p) * n = q * n - p * n
        BY <4>2, <4>3
      <4>5. (q - p) * n > 0
        BY <4>1, <4>2, <4>3, <4>4
      <4>6. q - p > 0
        <5>1. q - p \in Int
          BY <4>2, <4>3
        <5>2. q - p <= 0 => (q - p) * n <= 0
          BY <5>1
        <5>3. q - p <= 0 \/ q - p > 0
          BY <5>1
        <5>4. (q - p) * n \in Int
          BY <5>1
        <5>5. ~((q - p) * n <= 0)
          BY <4>5, <5>4
        <5>6. QED  BY <5>2, <5>3, <5>5, Zenon
      <4>7. p < q
        BY <4>2, <4>3, <4>6
      <4>8. QED  BY <4>7 DEF p, q
    <3>3. QED  BY <3>1, <3>2
  <2>2. a \div SECTOR_SIZE[d] < Passed(j, at[uart_ctl])
    <3>1. /\ a \div SECTOR_SIZE[d] \in Int /\ j.actual \in Int /\ j.len \in Int
      BY <1>a, FlashDriverAssumption DEF JobRecord, Address
    <3>2. a \div SECTOR_SIZE[d] < j.len
      BY <1>4, <2>1
    <3> HIDE DEF j
    <3>3. QED  BY <1>1, <1>3, <3>1, <3>2
  <2>3. content[d][a] = Erased
    BY <1>a, <1>b, <1>c, <2>2 DEF EraseInv
  <2>4. QED  BY <1>2, <2>3
<1>6. QED  BY <1>b, <1>5

(* A packet has been programmed in full when if_mcu_upgrade or             *)
(* if_fpga_upgrade returns, unless a wait timed out: each page is enabled, *)
(* the device is ready for it, and nothing in between undoes it.           *)
THEOREM PacketsProgrammed == Spec => PacketsAreWhole
<1>1. WholeInv /\ [Next]_vars
        => [\A d \in Device :
              /\ job[uart_upgrade].op = "write" /\ job[uart_upgrade].dev = d
              /\ job'[uart_upgrade].op = "none" /\ ~late'[d]
              => \A a \in offset[d] .. offset'[d] - 1 : content'[d][a] = a]_vars
  BY PacketWhole
<1>2. Init => WholeInv
  BY WholeInit
<1>3. QED  BY <1>1, <1>2, WholeNext, PTL DEF Spec, PacketsAreWhole

(* "Successfully erased %u bytes" (spansion.c:242) is true of every device *)
(* whose sectors are as far apart as the erase commands, unless a wait     *)
(* timed out.                                                              *)
THEOREM ErasedIsErased == ASSUME SectorsMatch PROVE Spec => ErasedAsReported
<1>1. WholeInv /\ EraseInv /\ [Next]_vars
        => [job[uart_ctl].op = "erase" /\ job'[uart_ctl].op = "none"
              /\ ~late'[job[uart_ctl].dev]
            => \A a \in Address : content'[job[uart_ctl].dev][a] = Erased]_vars
  BY SectorsMatch, DeviceErased DEF WholeInv
<1>2. WholeInv /\ EraseInv /\ [Next]_vars => WholeInv' /\ EraseInv'
  BY SectorsMatch, WholeNext, EraseStep DEF WholeInv
<1>3. QED  BY <1>1, <1>2, WholeInit, PTL DEF Spec, ErasedAsReported
=============================================================================
