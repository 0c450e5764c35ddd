----------------------------- MODULE SpiBusProof -----------------------------
(***************************************************************************)
(* For any threads, priorities and devices: the bus mutex excludes, the    *)
(* bus is configured for whoever talks, a lent priority is given back; and *)
(* the drivers use the bus in no other way.                                *)
(***************************************************************************)
EXTENDS FlashDriver, TLAPS

(* Appending to a sequence. *)
LEMMA QueueAppend ==
  ASSUME NEW S, NEW s \in Seq(S), NEW e \in S
  PROVE  /\ Append(s, e) \in Seq(S)
         /\ Len(Append(s, e)) = Len(s) + 1
         /\ \A i \in 1 .. Len(s) : Append(s, e)[i] = s[i]
         /\ Append(s, e)[Len(s) + 1] = e
OBVIOUS

(* Taking the first member away. *)
LEMMA QueueTail ==
  ASSUME NEW S, NEW s \in Seq(S), s # <<>>
  PROVE  /\ Tail(s) \in Seq(S)
         /\ Len(s) \in Nat \ {0}
         /\ Len(Tail(s)) = Len(s) - 1
         /\ \A i \in 1 .. Len(s) - 1 : Tail(s)[i] = s[i + 1]
         /\ Head(s) = s[1] /\ s[1] \in S
OBVIOUS
-----------------------------------------------------------------------------
(* The inductive invariant. *)
BusInv == BusTypeOK /\ MutexExcludes /\ BusConfigured /\ PriorityReturned

(* It holds at the start. *)
LEMMA BusInitInv == BusInit => BusInv
<1> SUFFICES ASSUME BusInit PROVE BusInv
  OBVIOUS
<1> USE DEF BusInit
<1>1. BusTypeOK
  BY SpiBusAssumption DEF BusTypeOK, Place, Inside
<1>2. MutexExcludes
  BY SpiBusAssumption DEF MutexExcludes, Inside
<1>3. BusConfigured
  BY DEF BusConfigured
<1>4. PriorityReturned
  BY DEF PriorityReturned
<1> QED  BY <1>1, <1>2, <1>3, <1>4 DEF BusInv

(* A step that leaves the mutex alone, and moves one thread within or      *)
(* outside the bus.                                                        *)
LEMMA MoveExcludes ==
  ASSUME BusInv, NEW t \in Thread, NEW place \in Place,
         UNCHANGED mutexVars, Goto(t, place),
         at[t] \in Inside <=> place \in Inside,
         at[t] # "suspended", place # "suspended"
  PROVE  MutexExcludes' /\ PriorityReturned'
<1>1. /\ \A u \in Thread \ {t} : at'[u] = at[u]
      /\ at'[t] = place
  BY DEF Goto, BusInv, BusTypeOK
<1>2. MutexExcludes'
  BY <1>1 DEF BusInv, MutexExcludes, mutexVars
<1>3. PriorityReturned'
  BY DEF BusInv, PriorityReturned, mutexVars
<1> QED  BY <1>2, <1>3

(* Wake. *)
LEMMA WakeInv ==
  ASSUME BusInv, NEW t \in Thread, Wake(t)
  PROVE  BusInv'
<1>1. /\ UNCHANGED <<mutexVars, wireVars, dev>> /\ Goto(t, "running")
      /\ at[t] = "away" /\ at \in [Thread -> Place]
      /\ at'[t] = "running"
      /\ \A u \in Thread \ {t} : at'[u] = at[u]
  BY DEF Wake, Goto, BusInv, BusTypeOK
<1>2. BusTypeOK'
  BY <1>1 DEF BusInv, BusTypeOK, Place, Inside, Goto, mutexVars, wireVars
<1>3. MutexExcludes' /\ PriorityReturned'
  BY <1>1, MoveExcludes DEF Place, Inside
<1>4. BusConfigured'
  BY <1>1 DEF BusInv, BusConfigured, wireVars
<1> QED  BY <1>2, <1>3, <1>4 DEF BusInv

(* Taking the mutex when it is free, *)
LEMMA TakeFreeInv ==
  ASSUME BusInv, NEW t \in Thread, NEW d \in Device, TakeFree(t, d)
  PROVE  BusInv'
<1>1. /\ UNCHANGED <<suspended, current_priority, wireVars>>
      /\ lock = NoThread /\ lock' = t
      /\ original_priority' = current_priority[t]
      /\ dev' = [dev EXCEPT ![t] = d]
      /\ at[t] = "running" /\ at \in [Thread -> Place]
      /\ at' = [at EXCEPT ![t] = "locked"]
      /\ at'[t] = "locked"
      /\ \A u \in Thread \ {t} : at'[u] = at[u]
  BY DEF TakeFree, Goto, BusInv, BusTypeOK
<1>2. BusTypeOK'
  BY <1>1 DEF BusInv, BusTypeOK, Place, Inside, wireVars
<1>3. MutexExcludes'
  BY <1>1, SpiBusAssumption DEF BusInv, MutexExcludes, Inside
<1>4. BusConfigured'
  BY <1>1, SpiBusAssumption DEF BusInv, BusConfigured, MutexExcludes, Inside, wireVars
<1>5. PriorityReturned'
  BY <1>1, SpiBusAssumption DEF BusInv, PriorityReturned
<1> QED  BY <1>2, <1>3, <1>4, <1>5 DEF BusInv

(* and waiting for it when it is not. *)
LEMMA TakeBusyInv ==
  ASSUME BusInv, NEW t \in Thread, NEW d \in Device, TakeBusy(t, d)
  PROVE  BusInv'
<1>1. /\ UNCHANGED <<lock, original_priority, wireVars>>
      /\ lock \in Thread
      /\ suspended \in Seq(Thread)
      /\ suspended' = Append(suspended, t)
      /\ dev' = [dev EXCEPT ![t] = d]
      /\ at[t] = "running" /\ at \in [Thread -> Place]
      /\ at' = [at EXCEPT ![t] = "suspended"]
      /\ at'[t] = "suspended"
      /\ \A u \in Thread \ {t} : at'[u] = at[u]
  BY DEF TakeBusy, Goto, BusInv, BusTypeOK
<1>2. /\ suspended' \in Seq(Thread)
      /\ Len(suspended') = Len(suspended) + 1
      /\ \A i \in 1 .. Len(suspended) : suspended'[i] = suspended[i]
      /\ suspended'[Len(suspended) + 1] = t
      /\ Len(suspended) \in Nat
  BY <1>1, QueueAppend
<1>3. /\ current_priority' \in [Thread -> Nat]
      /\ \A u \in Thread \ {lock} : current_priority'[u] = current_priority[u]
  BY <1>1 DEF TakeBusy, BusInv, BusTypeOK
<1>4. BusTypeOK'
  BY <1>1, <1>2, <1>3 DEF BusInv, BusTypeOK, Place, Inside, wireVars
<1>5. MutexExcludes'
  <2>1. \A u \in Thread : at'[u] \in Inside <=> lock' = u
    BY <1>1 DEF BusInv, MutexExcludes, Inside
  <2>2. \A i \in 1 .. Len(suspended) : suspended[i] # t
    BY <1>1 DEF BusInv, MutexExcludes
  <2>3. \A i \in 1 .. Len(suspended') :
           i \in 1 .. Len(suspended) \/ i = Len(suspended) + 1
    BY <1>2
  <2>4. \A i \in 1 .. Len(suspended) : i \in 1 .. Len(suspended')
    BY <1>2
  <2>5. Len(suspended) + 1 \in 1 .. Len(suspended')
    BY <1>2
  <2>6. \A u \in Thread : at'[u] = "suspended"
           <=> (\E i \in 1 .. Len(suspended') : suspended'[i] = u)
    BY <1>1, <1>2, <2>3, <2>4, <2>5 DEF BusInv, MutexExcludes
  <2>7. \A i, j \in 1 .. Len(suspended') : suspended'[i] = suspended'[j] => i = j
    BY <1>2, <2>2, <2>3 DEF BusInv, MutexExcludes
  <2> QED  BY <1>1, <2>1, <2>6, <2>7, SpiBusAssumption DEF MutexExcludes
<1>6. BusConfigured'
  BY <1>1 DEF BusInv, BusConfigured, wireVars
<1>7. PriorityReturned'
  BY <1>1, <1>3 DEF BusInv, PriorityReturned
<1> QED  BY <1>4, <1>5, <1>6, <1>7 DEF BusInv

(* The first message. *)
LEMMA SelectInv ==
  ASSUME BusInv, NEW t \in Thread, Select(t)
  PROVE  BusInv'
<1>1. /\ UNCHANGED <<mutexVars, dev>> /\ Goto(t, "selected")
      /\ at[t] = "locked" /\ at \in [Thread -> Place]
      /\ at'[t] = "selected"
      /\ \A u \in Thread \ {t} : at'[u] = at[u]
      /\ owner' = dev[t]
      /\ dev[t] \in Device
      /\ cs' = [cs EXCEPT ![dev[t]] = "low"]
  BY DEF Select, Goto, BusInv, BusTypeOK, Inside
<1>2. config' = dev[t]
  BY DEF Select, BusInv, BusConfigured
<1>3. BusTypeOK'
  BY <1>1, <1>2 DEF BusInv, BusTypeOK, Place, Inside, Goto, mutexVars
<1>4. MutexExcludes' /\ PriorityReturned'
  BY <1>1, MoveExcludes DEF Place, Inside
<1>5. BusConfigured'
  BY <1>1, <1>2 DEF BusInv, BusConfigured, MutexExcludes, Inside
<1> QED  BY <1>3, <1>4, <1>5 DEF BusInv

(* The end of the last message. *)
LEMMA DeselectInv ==
  ASSUME BusInv, NEW t \in Thread, Deselect(t)
  PROVE  BusInv'
<1>1. /\ UNCHANGED <<mutexVars, owner, config, dev>> /\ Goto(t, "deselected")
      /\ at[t] = "selected" /\ at \in [Thread -> Place]
      /\ at'[t] = "deselected"
      /\ \A u \in Thread \ {t} : at'[u] = at[u]
      /\ cs' = [cs EXCEPT ![dev[t]] = "high"]
  BY DEF Deselect, Goto, BusInv, BusTypeOK
<1>2. BusTypeOK'
  BY <1>1 DEF BusInv, BusTypeOK, Place, Inside, Goto, mutexVars
<1>3. MutexExcludes' /\ PriorityReturned'
  BY <1>1, MoveExcludes DEF Place, Inside
<1>4. BusConfigured'
  BY <1>1 DEF BusInv, BusConfigured
<1> QED  BY <1>2, <1>3, <1>4 DEF BusInv

(* A chip select without the mutex. *)
LEMMA DriveInv ==
  ASSUME BusInv, NEW t \in Thread, NEW d \in Device,
         NEW level \in {"low", "high"}, Drive(t, d, level)
  PROVE  BusInv'
<1>1. /\ UNCHANGED <<mutexVars, owner, config, dev>> /\ Goto(t, "away")
      /\ at[t] = "running" /\ at \in [Thread -> Place]
      /\ at'[t] = "away"
      /\ \A u \in Thread \ {t} : at'[u] = at[u]
      /\ cs' = [cs EXCEPT ![d] = level]
  BY DEF Drive, Goto, BusInv, BusTypeOK
<1>2. BusTypeOK'
  BY <1>1 DEF BusInv, BusTypeOK, Place, Inside, Goto, mutexVars
<1>3. MutexExcludes' /\ PriorityReturned'
  BY <1>1, MoveExcludes DEF Place, Inside
<1>4. BusConfigured'
  BY <1>1 DEF BusInv, BusConfigured
<1> QED  BY <1>2, <1>3, <1>4 DEF BusInv

(* Releasing the mutex when nobody waits, *)
LEMMA ReleaseFreeInv ==
  ASSUME BusInv, NEW t \in Thread, NEW place \in {"away", "running"},
         Release(t, place), suspended = <<>>
  PROVE  BusInv'
<1>1. /\ lock = t
      /\ at[t] = "deselected" /\ at \in [Thread -> Place]
  BY DEF Release, BusInv, BusTypeOK, MutexExcludes, Inside
<1>2. /\ UNCHANGED <<suspended, wireVars>>
      /\ lock' = NoThread /\ original_priority' = 255
      /\ current_priority' = [current_priority EXCEPT ![t] = original_priority]
      /\ dev' = [dev EXCEPT ![t] = NoDevice]
      /\ at' = [at EXCEPT ![t] = place]
  BY DEF Release, Goto
<1>3. /\ at'[t] = place
      /\ \A u \in Thread \ {t} : at'[u] = at[u]
  BY <1>1, <1>2
<1>4. BusTypeOK'
  BY <1>1, <1>2, <1>3 DEF BusInv, BusTypeOK, Place, Inside, wireVars
<1>5. MutexExcludes'
  BY <1>1, <1>2, <1>3, SpiBusAssumption DEF BusInv, MutexExcludes, Inside
<1>6. BusConfigured'
  BY <1>1, <1>2, <1>3 DEF BusInv, BusConfigured, wireVars
<1>7. PriorityReturned'
  BY <1>1, <1>2, SpiBusAssumption DEF BusInv, BusTypeOK, PriorityReturned
<1> QED  BY <1>4, <1>5, <1>6, <1>7 DEF BusInv

(* and handing it over when a thread does.                                 *)
LEMMA HandOverInv ==
  ASSUME BusInv, NEW t \in Thread, NEW place \in {"away", "running"},
         Release(t, place), suspended # <<>>
  PROVE  BusInv'
<1> DEFINE next == Head(suspended)
<1>1. /\ lock = t
      /\ at[t] = "deselected" /\ at \in [Thread -> Place]
      /\ suspended \in Seq(Thread)
      /\ suspended' = Tail(suspended)
  BY DEF Release, BusInv, BusTypeOK, MutexExcludes, Inside
<1>2. /\ suspended' \in Seq(Thread)
      /\ Len(suspended) \in Nat \ {0}
      /\ Len(suspended') = Len(suspended) - 1
      /\ \A i \in 1 .. Len(suspended) - 1 : suspended'[i] = suspended[i + 1]
      /\ next = suspended[1] /\ next \in Thread
  BY <1>1, QueueTail
<1>3. /\ UNCHANGED wireVars
      /\ lock' = next
      /\ original_priority' = current_priority[next]
      /\ current_priority' = [current_priority EXCEPT ![t] = original_priority]
      /\ dev' = [dev EXCEPT ![t] = NoDevice]
      /\ at' = [at EXCEPT ![t] = place, ![next] = "locked"]
  BY DEF Release
<1>4. at[next] = "suspended" /\ next # t
  <2>1. 1 \in 1 .. Len(suspended)
    BY <1>2
  <2> QED  BY <1>1, <1>2, <2>1 DEF BusInv, MutexExcludes
<1> HIDE DEF next
<1>5. /\ at'[t] = place /\ at'[next] = "locked"
      /\ \A u \in Thread \ {t, next} : at'[u] = at[u]
      /\ at' \in [Thread -> Place]
  BY <1>1, <1>2, <1>3, <1>4 DEF Place
<1>6. BusTypeOK'
  BY <1>1, <1>2, <1>3, <1>4, <1>5 DEF BusInv, BusTypeOK, Inside, wireVars
<1>7. MutexExcludes'
  <2>1. \A u \in Thread : at'[u] \in Inside <=> lock' = u
    BY <1>1, <1>2, <1>3, <1>4, <1>5 DEF BusInv, MutexExcludes, Inside
  <2>2. \A i \in 1 .. Len(suspended') :
           /\ i \in 1 .. Len(suspended) - 1
           /\ i + 1 \in 1 .. Len(suspended) /\ i + 1 # 1
           /\ suspended'[i] = suspended[i + 1]
    BY <1>2
  <2>3. \A i \in 1 .. Len(suspended) :
           i = 1 \/ (i - 1 \in 1 .. Len(suspended') /\ (i - 1) + 1 = i)
    BY <1>2
  <2>4. 1 \in 1 .. Len(suspended)
    BY <1>2
  <2>5. \A i \in 1 .. Len(suspended') : suspended'[i] # next
    BY <1>2, <2>2, <2>4 DEF BusInv, MutexExcludes
  <2>6. \A i \in 1 .. Len(suspended) : suspended[i] # t
    BY <1>1 DEF BusInv, MutexExcludes
  <2>7. ASSUME NEW u \in Thread
        PROVE  at'[u] = "suspended"
                 <=> (\E i \in 1 .. Len(suspended') : suspended'[i] = u)
    <3>1. CASE u = t
      BY <1>5, <2>2, <2>6, <3>1
    <3>2. CASE u = next
      BY <1>5, <2>5, <3>2
    <3>3. CASE u # t /\ u # next
      <4>1. at'[u] = at[u]
        BY <1>5, <3>3
      <4>2. ASSUME NEW i \in 1 .. Len(suspended'), suspended'[i] = u
            PROVE  at[u] = "suspended"
        BY <2>2, <4>2 DEF BusInv, MutexExcludes
      <4>3. ASSUME at[u] = "suspended"
            PROVE  \E i \in 1 .. Len(suspended') : suspended'[i] = u
        <5>1. PICK i \in 1 .. Len(suspended) : suspended[i] = u
          BY <4>3 DEF BusInv, MutexExcludes
        <5>2. i # 1
          BY <1>2, <3>3, <5>1
        <5>3. i - 1 \in 1 .. Len(suspended') /\ (i - 1) + 1 = i
          BY <2>3, <5>2
        <5>4. suspended'[i - 1] = suspended[i]
          BY <2>2, <5>3
        <5> QED  BY <5>1, <5>3, <5>4
      <4> QED  BY <4>1, <4>2, <4>3
    <3> QED  BY <3>1, <3>2, <3>3
  <2>8. \A i, j \in 1 .. Len(suspended') : suspended'[i] = suspended'[j] => i = j
    <3>1. \A i, j \in 1 .. Len(suspended') : i + 1 = j + 1 => i = j
      OBVIOUS
    <3> QED  BY <2>2, <3>1 DEF BusInv, MutexExcludes
  <2> QED  BY <1>2, <1>3, <2>1, <2>7, <2>8, SpiBusAssumption DEF MutexExcludes
<1>8. BusConfigured'
  BY <1>1, <1>3, <1>4, <1>5 DEF BusInv, BusConfigured, MutexExcludes, Inside, wireVars
<1>9. PriorityReturned'
  BY <1>1, <1>2, <1>3, <1>4, SpiBusAssumption DEF BusInv, BusTypeOK, PriorityReturned
<1> QED  BY <1>6, <1>7, <1>8, <1>9 DEF BusInv

(* Every step of the bus keeps the invariant. *)
LEMMA BusNextInv == BusInv /\ [BusNext]_busVars => BusInv'
<1> SUFFICES ASSUME BusInv, [BusNext]_busVars PROVE BusInv'
  OBVIOUS
<1>1. CASE UNCHANGED busVars
  BY <1>1 DEF BusInv, BusTypeOK, MutexExcludes, BusConfigured, PriorityReturned,
              busVars, mutexVars, wireVars
<1>2. CASE BusNext
  <2>1. PICK t \in Thread :
          \/ Wake(t)
          \/ \E d \in Device : Take(t, d)
          \/ Select(t) \/ Deselect(t)
          \/ \E place \in {"away", "running"} : Release(t, place)
          \/ \E d \in Device, level \in {"low", "high"} : Drive(t, d, level)
    BY <1>2 DEF BusNext
  <2>2. CASE Wake(t)
    BY <2>2, WakeInv
  <2>3. CASE \E d \in Device : Take(t, d)
    BY <2>3, TakeFreeInv, TakeBusyInv DEF Take
  <2>4. CASE Select(t)
    BY <2>4, SelectInv
  <2>5. CASE Deselect(t)
    BY <2>5, DeselectInv
  <2>6. CASE \E place \in {"away", "running"} : Release(t, place)
    BY <2>6, ReleaseFreeInv, HandOverInv
  <2>7. CASE \E d \in Device, level \in {"low", "high"} : Drive(t, d, level)
    BY <2>7, DriveInv
  <2> QED  BY <2>1, <2>2, <2>3, <2>4, <2>5, <2>6, <2>7
<1> QED  BY <1>1, <1>2

(* Whatever threads do on the bus: mutual exclusion, the right             *)
(* configuration and the return of lent priorities.                        *)
THEOREM BusCorrect == BusSpec => [](MutexExcludes /\ BusConfigured /\ PriorityReturned)
<1>1. BusInv => MutexExcludes /\ BusConfigured /\ PriorityReturned
  BY DEF BusInv
<1> QED  BY BusInitInv, BusNextInv, <1>1, PTL DEF BusSpec
-----------------------------------------------------------------------------
(* What the drivers' steps keep of the types of their state.               *)
Op == {"none", "strap", "boot", "erase", "write"}
Step == {"wren", "cmd", "ready"}

JobRecord ==
  [op : Op, dev : Device, len : Int, actual : Int, page_addr : Int,
   byte_addr : Int, step : Step, timeout : Int, wip : BOOLEAN]

DriverInv ==
  /\ type \in Device
  /\ offset \in [Device -> Int]
  /\ busy \in [Device -> BOOLEAN]
  /\ job \in [Driver -> JobRecord]

(* The records the routines start with. *)
LEMMA JobTypes ==
  /\ NoJob \in JobRecord
  /\ \A d \in Device, from, len \in Int : Write(d, from, len) \in JobRecord
  /\ \A d \in Device : Erase(d) \in JobRecord
<1> USE FlashDriverAssumption DEF JobRecord
<1>1. NoJob \in JobRecord
  BY DEF NoJob, Op, Step
<1>2. \A d \in Device : FirstStep(d) \in Step
  BY DEF FirstStep, Step
<1>3. ASSUME NEW d \in Device, NEW from \in Int, NEW len \in Int
      PROVE  Write(d, from, len) \in JobRecord
  <2>1. from \div PAGE_SIZE \in Int /\ from % PAGE_SIZE \in Int
    OBVIOUS
  <2> QED  BY <1>2, <2>1 DEF Write, Op
<1>4. ASSUME NEW d \in Device PROVE Erase(d) \in JobRecord
  <2>1. FLASH_SIZE \div SECTOR_SIZE[d] \in Int
    OBVIOUS
  <2> QED  BY <1>2, <2>1 DEF Erase, Op
<1> QED  BY <1>1, <1>3, <1>4

(* and those they go on with. *)
LEMMA PieceType ==
  ASSUME NEW j \in JobRecord
  PROVE  Piece(j) \in Int /\ NextPiece(j) \in JobRecord
<1>1. Piece(j) \in Int
  BY FlashDriverAssumption DEF Piece, Chunk, JobRecord
<1>2. FirstStep(j.dev) \in Step
  BY DEF FirstStep, Step
<1>3. NextPiece(j) \in JobRecord
  <2>1. /\ j.actual + Piece(j) \in Int /\ j.page_addr + 1 \in Int
        /\ 0 \in Int /\ TIMEOUT \in Int
    BY <1>1, FlashDriverAssumption DEF JobRecord
  <2> QED  BY <1>2, <2>1 DEF NextPiece, JobRecord
<1> QED  BY <1>1, <1>3

(* They hold at the start. *)
LEMMA DriverInit == Init => DriverInv
<1> SUFFICES ASSUME Init PROVE DriverInv
  OBVIOUS
<1>1. \A d \in Device : 0 \in Int /\ FALSE \in BOOLEAN
  OBVIOUS
<1> QED  BY <1>1, JobTypes, FlashDriverAssumption DEF Init, DriverInv

(* Each step of the drivers keeps them. *)
LEMMA DriverNextInv == DriverInv /\ [Next]_vars => DriverInv'
<1> SUFFICES ASSUME DriverInv, [Next]_vars PROVE DriverInv'
  OBVIOUS
<1>1. CASE UNCHANGED vars
  BY <1>1 DEF DriverInv, vars, driverVars, chipVars
<1>2. CASE Command
  <2>1. CASE AntennaRound \/ ChangeSetting \/ CtlCalls \/ UpgEnds
    BY <2>1 DEF AntennaRound, ChangeSetting, CtlCalls, UpgEnds, StartCalls,
                DriverInv, chipVars
  <2>2. CASE CtlProg
    BY <2>2 DEF CtlProg, DriverInv, chipVars
  <2>3. ASSUME NEW t \in Driver, NEW j \in JobRecord, StartJob(t, j)
        PROVE  DriverInv'
    BY <2>3 DEF StartJob, DriverInv, chipVars
  <2>4. uart_ctl \in Driver /\ uart_upgrade \in Driver
    BY DEF Driver
  <2>5. CASE CtlEraseFpga
    BY <2>3, <2>4, <2>5, JobTypes, FlashDriverAssumption DEF CtlEraseFpga
  <2>6. CASE CtlEraseMcu
    <3>1. [Erase(baseband) EXCEPT !.op = "strap"] \in JobRecord
      BY JobTypes, FlashDriverAssumption DEF JobRecord, Op
    <3> QED  BY <2>3, <2>4, <2>6, <3>1 DEF CtlEraseMcu
  <2>7. CASE UpgPacket
    <3>1. PICK len \in PacketLengths :
            StartJob(uart_upgrade, Write(type, offset[type], len))
      BY <2>7 DEF UpgPacket
    <3>2. len \in Int /\ type \in Device /\ offset[type] \in Int
      BY FlashDriverAssumption DEF DriverInv
    <3> QED  BY <2>3, <2>4, <3>1, <3>2, JobTypes
  <2> QED  BY <1>2, <2>1, <2>2, <2>5, <2>6, <2>7 DEF Command
<1>3. CASE \E t \in Thread : Transaction(t)
  <2>1. PICK t \in Thread : Transaction(t)
    BY <1>3
  <2>2. CASE CallTakes(t) \/ CallEnds(t) \/ CallReturns(t) \/ Selects(t)
             \/ JobTakes(t) \/ DelayEnds(t)
    BY <2>2 DEF CallTakes, CallEnds, CallReturns, Selects, JobTakes, DelayEnds,
                DriverInv, driverVars, chipVars
  <2>3. CASE JobEnds(t)
    <3>1. /\ type' = type /\ offset' = offset
          /\ t \in Driver
      BY <2>3 DEF JobEnds, Working
    <3>2. job[t] \in JobRecord /\ job[t].dev \in Device /\ busy[job[t].dev] \in BOOLEAN
      BY <3>1 DEF DriverInv, JobRecord
    <3>3. CASE job[t].step = "wren" /\ WriteEnable(job[t].dev) /\ UNCHANGED job
      BY <3>1, <3>3 DEF WriteEnable, DriverInv
    <3>4. CASE job[t].step = "cmd" /\ ProgramOrErase(job[t].dev, job[t]) /\ UNCHANGED job
      BY <3>1, <3>4 DEF ProgramOrErase, chipVars, DriverInv
    <3>5. CASE /\ job' = [job EXCEPT ![t].wip = busy[job[t].dev]]
               /\ UNCHANGED chipVars
      BY <3>1, <3>2, <3>5 DEF DriverInv, chipVars, JobRecord
    <3> QED  BY <2>3, <3>3, <3>4, <3>5 DEF JobEnds
  <2>4. CASE JobSends(t)
    BY <2>4 DEF JobSends, Working, DriverInv, chipVars, JobRecord, Step
  <2>5. ASSUME JobReturns(t), t \in Driver, UNCHANGED <<type, busy>>
        PROVE  DriverInv'
    <3>1. job' \in [Driver -> JobRecord]
      BY <2>5, JobTypes DEF JobReturns, DriverInv
    <3>2. job[t].len \in Int /\ job[t].dev \in Device
      BY <2>5 DEF DriverInv, JobRecord
    <3>3. offset' \in [Device -> Int]
      <4>1. offset \in [Device -> Int] /\ offset[job[t].dev] + job[t].len \in Int
        BY <3>2 DEF DriverInv
      <4>2. [offset EXCEPT ![job[t].dev] = @ + job[t].len] \in [Device -> Int]
        BY <3>2, <4>1
      <4> QED  BY <2>5, <4>1, <4>2, Zenon DEF JobReturns
    <3> QED  BY <2>5, <3>1, <3>3 DEF DriverInv
  <2>6. CASE JobReady(t)
    <3>1. t \in Driver /\ UNCHANGED <<type, busy>>
      BY <2>6 DEF JobReady, Working, chipVars
    <3>2. CASE JobReturns(t)
      BY <2>5, <3>1, <3>2
    <3>3. CASE job' = [job EXCEPT ![t] = NextPiece(job[t])] /\ UNCHANGED offset
      BY <3>1, <3>3, PieceType DEF DriverInv
    <3> QED  BY <2>6, <3>2, <3>3 DEF JobReady
  <2>7. CASE JobWaits(t)
    BY <2>7 DEF JobWaits, Working, DriverInv, chipVars, JobRecord
  <2>8. CASE JobGivesUp(t)
    BY <2>5, <2>8 DEF JobGivesUp, Working, chipVars
  <2>9. CASE t = uart_ctl /\ (StrapLow \/ StrapHigh)
    <3>1. t \in Driver /\ UNCHANGED <<type, offset, busy>>
      BY <2>9 DEF StrapLow, StrapHigh, chipVars, Driver
    <3>2. CASE StrapLow
      BY <2>9, <3>1, <3>2 DEF StrapLow, DriverInv, JobRecord, Op
    <3>3. CASE StrapHigh
      BY <2>9, <3>1, <3>3, JobTypes, FlashDriverAssumption DEF StrapHigh, DriverInv
    <3> QED  BY <2>9, <3>2, <3>3
  <2> QED  BY <2>1, <2>2, <2>3, <2>4, <2>6, <2>7, <2>8, <2>9 DEF Transaction
<1>4. CASE \E d \in Device : DeviceReady(d)
  BY <1>4 DEF DeviceReady, driverVars, DriverInv
<1> QED  BY <1>1, <1>2, <1>3, <1>4 DEF Next
-----------------------------------------------------------------------------
(* The drivers use the bus in no other way. *)
LEMMA DriversUseBus == DriverInv /\ [Next]_vars => [BusNext]_busVars
<1> SUFFICES ASSUME DriverInv, [Next]_vars PROVE [BusNext]_busVars
  OBVIOUS
<1> USE FlashDriverAssumption
<1>1. CASE UNCHANGED vars
  BY <1>1 DEF vars, busVars
<1>2. CASE Command
  BY <1>2 DEF Command, AntennaRound, ChangeSetting, CtlCalls, CtlEraseFpga,
              CtlEraseMcu, CtlProg, UpgPacket, UpgEnds, StartCalls, StartJob, BusNext
<1>3. CASE \E t \in Thread : Transaction(t)
  <2>1. PICK t \in Thread : Transaction(t)
    BY <1>3
  <2>2. CASE DelayEnds(t)
    BY <2>2 DEF DelayEnds, BusNext
  <2>3. CASE CallTakes(t) \/ JobTakes(t)
    <3>1. baseband \in Device
      OBVIOUS
    <3>2. CASE CallTakes(t)
      BY <3>1, <3>2 DEF CallTakes, BusNext
    <3>3. CASE JobTakes(t)
      <4>1. job[t].dev \in Device
        BY <3>3 DEF JobTakes, Working, DriverInv, JobRecord
      <4> QED  BY <3>3, <4>1 DEF JobTakes, BusNext
    <3> QED  BY <2>3, <3>2, <3>3
  <2>4. CASE Selects(t) \/ CallEnds(t) \/ JobEnds(t)
    BY <2>4 DEF Selects, CallEnds, JobEnds, BusNext
  <2>5. CASE CallReturns(t)
    BY <2>5 DEF CallReturns, BusNext
  <2>6. CASE JobSends(t) \/ JobReady(t) \/ JobWaits(t) \/ JobGivesUp(t)
    BY <2>6 DEF JobSends, JobReady, JobWaits, JobGivesUp, JobReturns, BusNext
  <2>7. CASE t = uart_ctl /\ (StrapLow \/ StrapHigh)
    BY <2>7 DEF StrapLow, StrapHigh, BusNext
  <2> QED  BY <2>1, <2>2, <2>3, <2>4, <2>5, <2>6, <2>7 DEF Transaction
<1>4. CASE \E d \in Device : DeviceReady(d)
  BY <1>4 DEF DeviceReady
<1> QED  BY <1>1, <1>2, <1>3, <1>4 DEF Next

(* The drivers implement BusSpec. *)
THEOREM DriversRefineBus == Spec => BusSpec
<1>1. Init => BusInit
  BY DEF Init
<1> QED  BY <1>1, DriverInit, DriverNextInv, DriversUseBus, PTL DEF Spec, BusSpec

(* Whoever is in a transaction owns the mutex, and it is handed over to    *)
(* those that wait, each once (rt_mutex_take and rt_mutex_release around   *)
(* every transfer).                                                        *)
THEOREM Exclusion == Spec => []MutexExcludes
<1>1. MutexExcludes /\ BusConfigured /\ PriorityReturned => MutexExcludes
  OBVIOUS
<1> QED  BY <1>1, DriversRefineBus, BusCorrect, PTL

(* The bus is configured for the device that is being talked to.           *)
THEOREM Configuration == Spec => []BusConfigured
<1>1. MutexExcludes /\ BusConfigured /\ PriorityReturned => BusConfigured
  OBVIOUS
<1> QED  BY <1>1, DriversRefineBus, BusCorrect, PTL

(* A lent priority is given back with the mutex.                           *)
THEOREM Priorities == Spec => []PriorityReturned
<1>1. MutexExcludes /\ BusConfigured /\ PriorityReturned => PriorityReturned
  OBVIOUS
<1> QED  BY <1>1, DriversRefineBus, BusCorrect, PTL
-----------------------------------------------------------------------------
(* Why the strap does not disturb the flash: it is moved in NORMAL mode by *)
(* the control thread, which has no transaction then, and nobody else uses *)
(* the flash in that mode.                                                 *)
Wants(t) == at[t] \in Inside \cup {"suspended"}

ModeInv ==
  /\ job[uart_upgrade].op \in {"none", "write"}
  /\ job[uart_ctl].op \in {"none", "strap", "boot", "erase"}
  /\ job[uart_ctl].op # "none" => flag = NORMAL_MODE
  /\ job[uart_upgrade].op # "none" => flag = UPGRADE_MODE

MayWant(t) ==
  /\ dev[t] = flash => t \in Driver /\ job[t].op \in {"erase", "write"}
  /\ t \in Driver => job[t].op \notin {"strap", "boot"}

Users == \A t \in Thread : Wants(t) => MayWant(t)

LowMeansTalking ==
  \A d \in Device : cs[d] = "low" =>
    \/ \E t \in Thread : at[t] = "selected" /\ dev[t] = d
    \/ d = baseband /\ job[uart_ctl].op = "boot"

TalkInv == BusInv /\ DriverInv /\ ModeInv /\ Users /\ LowMeansTalking

(* A step of one thread on the bus. *)
BusStep(t) ==
  \/ Wake(t)
  \/ \E d \in Device : Take(t, d)
  \/ Select(t) \/ Deselect(t)
  \/ \E place \in {"away", "running"} : Release(t, place)
  \/ \E d \in Device, level \in {"low", "high"} : Drive(t, d, level)

(* What it does to the others: one may be handed the mutex. *)
LEMMA Others ==
  ASSUME BusInv, NEW t \in Thread, BusStep(t)
  PROVE  \A u \in Thread \ {t} :
           /\ dev'[u] = dev[u]
           /\ Wants(u)' => Wants(u)
           /\ at'[u] = "selected" <=> at[u] = "selected"
<1> USE DEF Wants, Inside
<1>1. /\ at \in [Thread -> Place]
      /\ dev \in [Thread -> Device \cup {NoDevice}]
      /\ suspended \in Seq(Thread)
  BY DEF BusInv, BusTypeOK
<1>2. CASE Wake(t)
  BY <1>1, <1>2 DEF Wake, Goto
<1>3. CASE \E d \in Device : Take(t, d)
  BY <1>1, <1>3 DEF Take, TakeFree, TakeBusy, Goto
<1>4. CASE Select(t)
  BY <1>1, <1>4 DEF Select, Goto
<1>5. CASE Deselect(t)
  BY <1>1, <1>5 DEF Deselect, Goto
<1>6. CASE \E place \in {"away", "running"} : Release(t, place)
  <2>1. PICK place \in {"away", "running"} : Release(t, place)
    BY <1>6
  <2>2. CASE suspended = <<>>
    BY <1>1, <2>1, <2>2 DEF Release, Goto
  <2>3. CASE suspended # <<>>
    <3>1. /\ Head(suspended) \in Thread /\ at[Head(suspended)] = "suspended"
      <4>1. /\ Len(suspended) \in Nat \ {0} /\ Head(suspended) = suspended[1]
            /\ suspended[1] \in Thread
        BY <1>1, <2>3, QueueTail
      <4>2. 1 \in 1 .. Len(suspended)
        BY <4>1
      <4> QED  BY <4>1, <4>2 DEF BusInv, MutexExcludes
    <3>2. at' = [at EXCEPT ![t] = place, ![Head(suspended)] = "locked"]
      BY <2>1, <2>3 DEF Release
    <3>3. dev' = [dev EXCEPT ![t] = NoDevice]
      BY <2>1 DEF Release
    <3> QED  BY <1>1, <3>1, <3>2, <3>3
  <2> QED  BY <2>2, <2>3
<1>7. CASE \E d \in Device, level \in {"low", "high"} : Drive(t, d, level)
  BY <1>1, <1>7 DEF Drive, Goto
<1> QED  BY <1>2, <1>3, <1>4, <1>5, <1>6, <1>7 DEF BusStep

(* After a wake-up, a release or a move of the strap, the thread is        *)
(* outside; when it takes the mutex, it wants the device it names; in      *)
(* between, device and wish stay.                                          *)
LEMMA Itself ==
  ASSUME BusInv, NEW t \in Thread
  PROVE  /\ Wake(t) => ~Wants(t)' /\ cs' = cs /\ at[t] = "away"
         /\ \A place \in {"away", "running"} :
              Release(t, place) => ~Wants(t)' /\ cs' = cs /\ at[t] = "deselected"
         /\ \A d \in Device, level \in {"low", "high"} :
              Drive(t, d, level) => ~Wants(t)' /\ at[t] = "running"
         /\ \A d \in Device : Take(t, d) => dev'[t] = d /\ cs' = cs /\ at[t] = "running"
         /\ Select(t) \/ Deselect(t) => dev'[t] = dev[t] /\ Wants(t)
<1> USE DEF Wants, Inside
<1>1. /\ at \in [Thread -> Place]
      /\ dev \in [Thread -> Device \cup {NoDevice}]
      /\ suspended \in Seq(Thread)
  BY DEF BusInv, BusTypeOK
<1>2. Wake(t) => ~Wants(t)' /\ cs' = cs /\ at[t] = "away"
  BY <1>1 DEF Wake, Goto, wireVars
<1>3. ASSUME NEW place \in {"away", "running"}, Release(t, place)
      PROVE  ~Wants(t)' /\ cs' = cs /\ at[t] = "deselected"
  <2>1. at[t] = "deselected" /\ cs' = cs
    BY <1>3 DEF Release, wireVars
  <2>2. CASE suspended = <<>>
    BY <1>1, <1>3, <2>1, <2>2 DEF Release, Goto
  <2>3. CASE suspended # <<>>
    <3>1. Head(suspended) \in Thread /\ Head(suspended) # t
      <4>1. /\ Len(suspended) \in Nat \ {0} /\ Head(suspended) = suspended[1]
            /\ suspended[1] \in Thread
        BY <1>1, <2>3, QueueTail
      <4>2. 1 \in 1 .. Len(suspended)
        BY <4>1
      <4> QED  BY <2>1, <4>1, <4>2 DEF BusInv, MutexExcludes
    <3>2. at' = [at EXCEPT ![t] = place, ![Head(suspended)] = "locked"]
      BY <1>3, <2>3 DEF Release
    <3> QED  BY <1>1, <2>1, <3>1, <3>2
  <2> QED  BY <2>2, <2>3
<1>4. ASSUME NEW d \in Device, NEW level \in {"low", "high"}, Drive(t, d, level)
      PROVE  ~Wants(t)' /\ at[t] = "running"
  BY <1>1, <1>4 DEF Drive, Goto
<1>5. ASSUME NEW d \in Device, Take(t, d)
      PROVE  dev'[t] = d /\ cs' = cs /\ at[t] = "running"
  BY <1>1, <1>5 DEF Take, TakeFree, TakeBusy, wireVars
<1>6. Select(t) \/ Deselect(t) => dev'[t] = dev[t] /\ Wants(t)
  BY <1>1 DEF Select, Deselect
<1> QED  BY <1>2, <1>3, <1>4, <1>5, <1>6

(* The list of those who use the flash stays right if the thread that      *)
(* steps is on it when it should be.                                       *)
LEMMA UsersStep ==
  ASSUME Users, BusInv, NEW t \in Thread, BusStep(t),
         \A u \in Driver \ {t} : job'[u].op = job[u].op,
         Wants(t)' => MayWant(t)'
  PROVE  Users'
<1>1. ASSUME NEW u \in Thread \ {t}, Wants(u)'
      PROVE  MayWant(u)'
  <2>1. Wants(u) /\ dev'[u] = dev[u]
    BY <1>1, Others
  <2>2. MayWant(u)
    BY <2>1 DEF Users
  <2> QED  BY <2>1, <2>2 DEF MayWant
<1> QED  BY <1>1 DEF Users, Wants

(* A step that moves no chip select and ends no transfer.                  *)
LEMMA QuietStep ==
  ASSUME LowMeansTalking, BusInv, NEW t \in Thread, BusStep(t),
         cs' = cs, at[t] # "selected",
         job[uart_ctl].op = "boot" => job'[uart_ctl].op = "boot"
  PROVE  LowMeansTalking'
<1>1. ASSUME NEW d \in Device, NEW u \in Thread, at[u] = "selected", dev[u] = d
      PROVE  at'[u] = "selected" /\ dev'[u] = d
  BY <1>1, Others
<1>2. ASSUME NEW d \in Device, cs'[d] = "low"
      PROVE  \/ \E u \in Thread : at'[u] = "selected" /\ dev'[u] = d
             \/ d = baseband /\ job'[uart_ctl].op = "boot"
  BY <1>1, <1>2 DEF LowMeansTalking
<1> QED  BY <1>2 DEF LowMeansTalking

(* One thread steps on the bus and every routine stays what it is.         *)
LEMMA SameOps ==
  ASSUME TalkInv, NEW t \in Thread, BusStep(t), flag' = flag,
         \A u \in Driver : job'[u].op = job[u].op
  PROVE  /\ ModeInv'
         /\ (Wants(t)' => MayWant(t)') => Users'
         /\ cs' = cs /\ at[t] # "selected" => LowMeansTalking'
<1>1. uart_ctl \in Driver /\ uart_upgrade \in Driver
  BY DEF Driver
<1>2. ModeInv'
  BY <1>1 DEF TalkInv, ModeInv
<1>3. ASSUME Wants(t)' => MayWant(t)'
      PROVE  Users'
  BY <1>3, UsersStep DEF TalkInv
<1>4. ASSUME cs' = cs, at[t] # "selected"
      PROVE  LowMeansTalking'
  BY <1>1, <1>4, QuietStep DEF TalkInv
<1> QED  BY <1>2, <1>3, <1>4

(* The chip select in a transaction. *)
LEMMA SelectTalks ==
  ASSUME TalkInv, NEW t \in Thread, Select(t) \/ Deselect(t), flag' = flag,
         \A u \in Driver : job'[u].op = job[u].op
  PROVE  ModeInv' /\ Users' /\ LowMeansTalking'
<1>1. BusStep(t)
  BY DEF BusStep
<1>2. Wants(t) /\ dev'[t] = dev[t]
  BY Itself DEF TalkInv
<1>3. ModeInv' /\ Users'
  BY <1>1, <1>2, SameOps DEF TalkInv, Users, MayWant
<1>4. /\ at \in [Thread -> Place] /\ cs \in [Device -> {"low", "high"}]
      /\ dev[t] \in Device
      /\ uart_ctl \in Driver
  BY <1>2 DEF TalkInv, BusInv, BusTypeOK, Wants, Driver
<1>5. ASSUME NEW d \in Device, cs'[d] = "low"
      PROVE  \/ \E u \in Thread : at'[u] = "selected" /\ dev'[u] = d
             \/ d = baseband /\ job'[uart_ctl].op = "boot"
  <2>1. CASE Select(t)
    <3>1. at'[t] = "selected"
      BY <1>4, <2>1 DEF Select, Goto
    <3>2. CASE d = dev[t]
      BY <1>2, <3>1, <3>2
    <3>3. CASE d # dev[t]
      <4>1. cs[d] = "low"
        BY <1>4, <1>5, <2>1, <3>3 DEF Select
      <4>2. CASE \E u \in Thread : at[u] = "selected" /\ dev[u] = d
        <5>1. PICK u \in Thread : at[u] = "selected" /\ dev[u] = d
          BY <4>2
        <5>2. u # t
          BY <3>3, <5>1
        <5> QED  BY <1>1, <5>1, <5>2, Others DEF TalkInv
      <4> QED  BY <1>4, <4>1, <4>2 DEF TalkInv, LowMeansTalking
    <3> QED  BY <3>2, <3>3
  <2>2. CASE Deselect(t)
    <3>1. d # dev[t] /\ cs[d] = "low"
      BY <1>4, <1>5, <2>2 DEF Deselect
    <3>2. CASE \E u \in Thread : at[u] = "selected" /\ dev[u] = d
      <4>1. PICK u \in Thread : at[u] = "selected" /\ dev[u] = d
        BY <3>2
      <4>2. u # t
        BY <3>1, <4>1
      <4> QED  BY <1>1, <4>1, <4>2, Others DEF TalkInv
    <3> QED  BY <1>4, <3>1, <3>2 DEF TalkInv, LowMeansTalking
  <2> QED  BY <2>1, <2>2
<1>6. LowMeansTalking'
  BY <1>5 DEF LowMeansTalking
<1> QED  BY <1>3, <1>6

(* What the routines' records say they are. *)
LEMMA Ops ==
  /\ NoJob.op = "none"
  /\ \A d \in Device, from, len \in Int : Write(d, from, len).op = "write"
  /\ \A d \in Device : Erase(d).op = "erase"
  /\ \A j \in JobRecord : NextPiece(j).op = j.op
BY DEF NoJob, Write, Erase, NextPiece

(* Commands. *)
LEMMA CommandTalks ==
  ASSUME TalkInv, Command
  PROVE  ModeInv' /\ Users' /\ LowMeansTalking'
<1> USE FlashDriverAssumption
<1>1. /\ uart_ctl \in Driver /\ uart_upgrade \in Driver /\ uart_ctl # uart_upgrade
      /\ uart_ctl \in Thread /\ uart_upgrade \in Thread
      /\ job \in [Driver -> JobRecord]
  BY DEF Driver, TalkInv, DriverInv
<1>2. ASSUME NEW t \in Thread, NEW n, StartCalls(t, n)
      PROVE  ModeInv' /\ Users' /\ LowMeansTalking'
  <2>1. Wake(t) /\ flag' = flag /\ job' = job
    BY <1>2 DEF StartCalls
  <2>2. BusStep(t) /\ ~Wants(t)' /\ cs' = cs /\ at[t] # "selected"
    BY <2>1, Itself DEF BusStep, TalkInv
  <2> QED  BY <2>1, <2>2, SameOps
<1>3. ASSUME NEW t \in Driver, NEW j \in JobRecord, StartJob(t, j),
             t = uart_ctl => j.op \in {"strap", "erase"} /\ flag = NORMAL_MODE,
             t = uart_upgrade => j.op = "write" /\ flag = UPGRADE_MODE
      PROVE  ModeInv' /\ Users' /\ LowMeansTalking'
  <2>1. /\ Wake(t) /\ flag' = flag
        /\ job' = [job EXCEPT ![t] = j]
        /\ job[t].op = "none"
        /\ t \in Thread
    BY <1>1, <1>3 DEF StartJob, Idle, Working, Driver
  <2>2. /\ \A u \in Driver \ {t} : job'[u] = job[u]
        /\ job'[t] = j
    BY <1>1, <2>1
  <2>3. BusStep(t) /\ ~Wants(t)' /\ cs' = cs /\ at[t] # "selected"
    BY <2>1, Itself DEF BusStep, TalkInv
  <2>4. t = uart_ctl \/ t = uart_upgrade
    BY DEF Driver
  <2>5. ModeInv'
    BY <1>1, <1>3, <2>1, <2>2, <2>4 DEF TalkInv, ModeInv
  <2>6. Users'
    BY <2>1, <2>2, <2>3, UsersStep DEF TalkInv
  <2>7. LowMeansTalking'
    BY <1>1, <2>1, <2>2, <2>3, <2>4, QuietStep DEF TalkInv
  <2> QED  BY <2>5, <2>6, <2>7
<1>4. CASE AntennaRound \/ ChangeSetting \/ CtlCalls
  BY <1>2, <1>4 DEF AntennaRound, ChangeSetting, CtlCalls
<1>5. CASE CtlEraseFpga
  BY <1>1, <1>3, <1>5, JobTypes, Ops DEF CtlEraseFpga
<1>6. CASE CtlEraseMcu
  <2>1. /\ [Erase(baseband) EXCEPT !.op = "strap"] \in JobRecord
        /\ [Erase(baseband) EXCEPT !.op = "strap"].op = "strap"
    BY JobTypes DEF JobRecord, Op
  <2> QED  BY <1>1, <1>3, <1>6, <2>1 DEF CtlEraseMcu
<1>7. CASE UpgPacket
  <2>1. PICK len \in PacketLengths :
          StartJob(uart_upgrade, Write(type, offset[type], len))
    BY <1>7 DEF UpgPacket
  <2>2. len \in Int /\ type \in Device /\ offset[type] \in Int
    BY DEF TalkInv, DriverInv
  <2> DEFINE j == Write(type, offset[type], len)
  <2>3. j \in JobRecord /\ j.op = "write"
    BY <2>2, JobTypes, Ops
  <2>4. flag = UPGRADE_MODE
    BY <1>7 DEF UpgPacket
  <2>5. StartJob(uart_upgrade, j)
    BY <2>1
  <2> HIDE DEF j
  <2> QED  BY <1>1, <1>3, <2>3, <2>4, <2>5
<1>8. CASE CtlProg
  <2>1. /\ UNCHANGED <<busVars, job>> /\ flag' = UPGRADE_MODE /\ flag = NORMAL_MODE
        /\ job[uart_ctl].op = "none"
    BY <1>1, <1>8 DEF CtlProg, Idle, Working
  <2>2. ModeInv'
    BY <2>1 DEF TalkInv, ModeInv, NORMAL_MODE, UPGRADE_MODE
  <2> QED  BY <2>1, <2>2 DEF TalkInv, Users, MayWant, LowMeansTalking, Wants, busVars, wireVars
<1>9. CASE UpgEnds
  <2>1. /\ UNCHANGED <<busVars, job>> /\ flag' = NORMAL_MODE
        /\ job[uart_upgrade].op = "none"
    BY <1>1, <1>9 DEF UpgEnds, Idle, Working
  <2>2. ModeInv'
    BY <2>1 DEF TalkInv, ModeInv
  <2> QED  BY <2>1, <2>2 DEF TalkInv, Users, MayWant, LowMeansTalking, Wants, busVars, wireVars
<1> QED  BY <1>4, <1>5, <1>6, <1>7, <1>8, <1>9 DEF Command

(* Calls of the baseband, and delays. *)
LEMMA CallTalks ==
  ASSUME TalkInv, NEW t \in Thread,
         CallTakes(t) \/ CallReturns(t) \/ JobTakes(t) \/ DelayEnds(t)
  PROVE  ModeInv' /\ Users' /\ LowMeansTalking'
<1> USE FlashDriverAssumption
<1>1. CASE CallTakes(t)
  <2>1. Take(t, baseband) /\ flag' = flag /\ job' = job
    BY <1>1 DEF CallTakes, driverVars
  <2>2. BusStep(t) /\ dev'[t] = baseband /\ cs' = cs /\ at[t] # "selected"
    BY <2>1, Itself DEF BusStep, TalkInv
  <2>3. t \in Driver => job[t].op = "none"
    BY <1>1 DEF CallTakes, Working
  <2> QED  BY <2>1, <2>2, <2>3, SameOps DEF MayWant
<1>2. CASE JobTakes(t)
  <2>1. /\ Take(t, job[t].dev) /\ flag' = flag /\ job' = job
        /\ t \in Driver /\ job[t].op \in {"erase", "write"}
    BY <1>2 DEF JobTakes, Working, driverVars
  <2>2. job[t].dev \in Device
    BY <2>1 DEF TalkInv, DriverInv, JobRecord
  <2>3. BusStep(t) /\ cs' = cs /\ at[t] # "selected"
    BY <2>1, <2>2, Itself DEF BusStep, TalkInv
  <2> QED  BY <2>1, <2>3, SameOps DEF MayWant
<1>3. CASE CallReturns(t)
  <2>1. /\ flag' = flag /\ job' = job
        /\ \E place \in {"away", "running"} : Release(t, place)
    BY <1>3 DEF CallReturns
  <2>2. BusStep(t) /\ ~Wants(t)' /\ cs' = cs /\ at[t] # "selected"
    BY <2>1, Itself DEF BusStep, TalkInv
  <2> QED  BY <2>1, <2>2, SameOps
<1>4. CASE DelayEnds(t)
  <2>1. Wake(t) /\ flag' = flag /\ job' = job
    BY <1>4 DEF DelayEnds, driverVars
  <2>2. BusStep(t) /\ ~Wants(t)' /\ cs' = cs /\ at[t] # "selected"
    BY <2>1, Itself DEF BusStep, TalkInv
  <2> QED  BY <2>1, <2>2, SameOps
<1> QED  BY <1>1, <1>2, <1>3, <1>4

(* A transaction of a routine returns; the routine goes on as it is or is  *)
(* over.                                                                   *)
LEMMA JobTalks ==
  ASSUME TalkInv, NEW t \in Thread,
         JobSends(t) \/ JobReady(t) \/ JobWaits(t) \/ JobGivesUp(t)
  PROVE  ModeInv' /\ Users' /\ LowMeansTalking'
<1>1. /\ flag' = flag
      /\ t \in Driver
      /\ \E place \in {"away", "running"} : Release(t, place)
  BY DEF JobSends, JobReady, JobWaits, JobGivesUp, JobReturns, Working
<1>2. BusStep(t) /\ ~Wants(t)' /\ cs' = cs /\ at[t] = "deselected"
  BY <1>1, Itself DEF BusStep, TalkInv
<1>3. job \in [Driver -> JobRecord] /\ job[t] \in JobRecord
  BY <1>1 DEF TalkInv, DriverInv
<1>4. \A u \in Driver \ {t} : job'[u].op = job[u].op
  BY <1>1, <1>3 DEF JobSends, JobReady, JobWaits, JobGivesUp, JobReturns
<1>5. job'[t].op \in {job[t].op, "none"}
  <2>1. CASE JobSends(t)
    BY <1>1, <1>3, <2>1 DEF JobSends, JobRecord
  <2>2. CASE JobReady(t)
    BY <1>1, <1>3, <2>2, Ops DEF JobReady, JobReturns
  <2>3. CASE JobWaits(t)
    BY <1>1, <1>3, <2>3 DEF JobWaits, JobRecord
  <2>4. CASE JobGivesUp(t)
    BY <1>1, <1>3, <2>4, Ops DEF JobGivesUp, JobReturns
  <2> QED  BY <2>1, <2>2, <2>3, <2>4
<1>6. job[t].op # "boot"
  BY <1>1, <1>2 DEF TalkInv, Users, MayWant, Wants, Inside
<1>7. ModeInv'
  BY <1>1, <1>4, <1>5, FlashDriverAssumption DEF TalkInv, ModeInv, Driver
<1>8. Users'
  BY <1>1, <1>2, <1>4, UsersStep DEF TalkInv
<1>9. LowMeansTalking'
  BY <1>1, <1>2, <1>4, <1>6, QuietStep DEF TalkInv, Driver
<1> QED  BY <1>7, <1>8, <1>9

(* The strap. *)
LEMMA StrapTalks ==
  ASSUME TalkInv, StrapLow \/ StrapHigh
  PROVE  ModeInv' /\ Users' /\ LowMeansTalking'
<1> USE FlashDriverAssumption
<1>1. /\ uart_ctl \in Thread /\ uart_ctl \in Driver /\ uart_upgrade \in Driver
      /\ job \in [Driver -> JobRecord] /\ job[uart_ctl] \in JobRecord
      /\ cs \in [Device -> {"low", "high"}]
  BY DEF Driver, TalkInv, DriverInv, BusInv, BusTypeOK
<1>2. /\ flag' = flag /\ job[uart_ctl].op \in {"strap", "boot"}
      /\ \E level \in {"low", "high"} : Drive(uart_ctl, baseband, level)
      /\ \A u \in Driver \ {uart_ctl} : job'[u].op = job[u].op
  BY <1>1 DEF StrapLow, StrapHigh
<1>3. BusStep(uart_ctl) /\ ~Wants(uart_ctl)' /\ at[uart_ctl] = "running"
  BY <1>1, <1>2, Itself DEF BusStep, TalkInv
<1>4. Users'
  BY <1>1, <1>2, <1>3, UsersStep DEF TalkInv
<1>5. ASSUME NEW d \in Device, d # baseband, cs'[d] = "low"
      PROVE  \E u \in Thread : at'[u] = "selected" /\ dev'[u] = d
  <2>1. cs[d] = "low"
    BY <1>1, <1>2, <1>5 DEF Drive
  <2>2. PICK u \in Thread : at[u] = "selected" /\ dev[u] = d
    BY <1>5, <2>1 DEF TalkInv, LowMeansTalking
  <2>3. u # uart_ctl
    BY <1>3, <2>2
  <2> QED  BY <1>1, <1>3, <2>2, <2>3, Others DEF TalkInv
<1>6. CASE StrapLow
  <2>1. job'[uart_ctl].op = "boot"
    BY <1>1, <1>6 DEF StrapLow, JobRecord
  <2>2. ModeInv'
    BY <1>1, <1>2, <2>1 DEF TalkInv, ModeInv
  <2>3. LowMeansTalking'
    BY <1>5, <2>1 DEF LowMeansTalking
  <2> QED  BY <1>4, <2>2, <2>3
<1>7. CASE StrapHigh
  <2>1. job'[uart_ctl].op = "erase" /\ cs'[baseband] = "high"
    BY <1>1, <1>7, Ops DEF StrapHigh, Drive
  <2>2. ModeInv'
    BY <1>1, <1>2, <2>1 DEF TalkInv, ModeInv
  <2>3. LowMeansTalking'
    BY <1>5, <2>1 DEF LowMeansTalking
  <2> QED  BY <1>4, <2>2, <2>3
<1> QED  BY <1>6, <1>7

(* Every step. *)
LEMMA TalkNextInv == TalkInv /\ [Next]_vars => TalkInv'
<1> SUFFICES ASSUME TalkInv, [Next]_vars PROVE TalkInv'
  OBVIOUS
<1>1. BusInv' /\ DriverInv'
  BY DriversUseBus, BusNextInv, DriverNextInv DEF TalkInv
<1>2. CASE UNCHANGED vars
  BY <1>1, <1>2 DEF TalkInv, ModeInv, Users, MayWant, LowMeansTalking, Wants,
                    vars, busVars, wireVars, driverVars
<1>3. CASE Command
  BY <1>1, <1>3, CommandTalks DEF TalkInv
<1>4. CASE \E t \in Thread : Transaction(t)
  <2>1. PICK t \in Thread : Transaction(t)
    BY <1>4
  <2>2. CASE CallTakes(t) \/ CallReturns(t) \/ JobTakes(t) \/ DelayEnds(t)
    BY <1>1, <2>2, CallTalks DEF TalkInv
  <2>3. CASE JobSends(t) \/ JobReady(t) \/ JobWaits(t) \/ JobGivesUp(t)
    BY <1>1, <2>3, JobTalks DEF TalkInv
  <2>4. CASE t = uart_ctl /\ (StrapLow \/ StrapHigh)
    BY <1>1, <2>4, StrapTalks DEF TalkInv
  <2>5. CASE Selects(t) \/ CallEnds(t)
    <3>1. (Select(t) \/ Deselect(t)) /\ flag' = flag /\ job' = job
      BY <2>5 DEF Selects, CallEnds, driverVars
    <3> QED  BY <1>1, <3>1, SelectTalks DEF TalkInv
  <2>6. CASE JobEnds(t)
    <3>1. Deselect(t) /\ flag' = flag /\ t \in Driver
      BY <2>6 DEF JobEnds, Working
    <3>2. \/ job' = job
          \/ job' = [job EXCEPT ![t].wip = busy[job[t].dev]]
      BY <2>6 DEF JobEnds
    <3>3. \A u \in Driver : job'[u].op = job[u].op
      BY <3>1, <3>2 DEF TalkInv, DriverInv, JobRecord
    <3> QED  BY <1>1, <3>1, <3>3, SelectTalks DEF TalkInv
  <2> QED  BY <2>1, <2>2, <2>3, <2>4, <2>5, <2>6 DEF Transaction
<1>5. CASE \E d \in Device : DeviceReady(d)
  <2>1. UNCHANGED <<busVars, driverVars>>
    BY <1>5 DEF DeviceReady
  <2> QED  BY <1>1, <2>1 DEF TalkInv, ModeInv, Users, MayWant, LowMeansTalking, Wants,
                             busVars, wireVars, driverVars
<1> QED  BY <1>2, <1>3, <1>4, <1>5 DEF Next

(* While a device is talked to no other listens, although the strap is     *)
(* moved without the mutex (MCU1_upgrade_enable).                          *)
THEOREM OneTalks == Spec => []OneDeviceTalks
<1> USE FlashDriverAssumption
<1>1. Init => TalkInv
  <2> SUFFICES ASSUME Init PROVE TalkInv
    OBVIOUS
  <2>1. BusInv /\ DriverInv
    BY BusInitInv, DriverInit DEF Init
  <2>2. ModeInv
    BY Ops DEF Init, ModeInv, Driver
  <2>3. Users /\ LowMeansTalking
    BY DEF Init, BusInit, Users, MayWant, LowMeansTalking, Wants, Inside
  <2> QED  BY <2>1, <2>2, <2>3 DEF TalkInv
<1>2. TalkInv => OneDeviceTalks
  <2> SUFFICES ASSUME TalkInv, NEW t \in Thread, at[t] = "selected"
               PROVE  /\ lock = t /\ config = dev[t]
                      /\ \A d \in Device \ {dev[t]} : cs[d] = "high"
    BY DEF OneDeviceTalks
  <2>1. lock = t /\ config = dev[t]
    BY DEF TalkInv, BusInv, MutexExcludes, BusConfigured, Inside
  <2>2. ASSUME NEW d \in Device \ {dev[t]}, cs[d] # "high" PROVE FALSE
    <3>1. cs[d] = "low"
      BY <2>2 DEF TalkInv, BusInv, BusTypeOK
    <3>2. \A u \in Thread : at[u] = "selected" => u = t
      BY <2>1 DEF TalkInv, BusInv, MutexExcludes, Inside
    <3>3. d = baseband /\ job[uart_ctl].op = "boot"
      BY <2>2, <3>1, <3>2 DEF TalkInv, LowMeansTalking
    <3>4. dev[t] = flash
      BY <2>2, <3>3 DEF TalkInv, BusInv, BusTypeOK, Inside
    <3>5. t \in Driver /\ job[t].op \in {"erase", "write"}
      BY <3>4 DEF TalkInv, Users, MayWant, Wants, Inside
    <3>6. t = uart_upgrade
      BY <3>3, <3>5 DEF Driver
    <3>7. flag = NORMAL_MODE /\ flag = UPGRADE_MODE
      BY <3>3, <3>5, <3>6 DEF TalkInv, ModeInv
    <3> QED  BY <3>7 DEF NORMAL_MODE, UPGRADE_MODE
  <2> QED  BY <2>1, <2>2
<1> QED  BY <1>1, <1>2, TalkNextInv, PTL DEF Spec
=============================================================================
