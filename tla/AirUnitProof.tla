---------------------------- MODULE AirUnitProof ----------------------------
(***************************************************************************)
(* The safety properties of the air unit for any positions, signals, sizes *)
(* and bounds: types, what objects meet before they exist, statuses of one *)
(* reading, and rounds that end on the better antenna.  What they rest on  *)
(* is the order of the priorities.                                         *)
(***************************************************************************)
EXTENDS AirUnit, TLAPS

AtType == at \in [Thread -> UNION {Place[t] : t \in Thread}]

RoundType == round \in [triggered : BOOLEAN, disturbed : BOOLEAN]

(* While the starting thread is on its way nothing else runs, so what it   *)
(* has not initialised is as it was, and the thread it has not started is  *)
(* off.                                                                    *)
PhaseInv ==
  /\ at["init"] \in {"fc", "ground", "linkhub", "sem_linkhub_tx"} =>
       at["linkhub"] \in {"off", "take"} /\ sem_linkhub_tx = Zeroed
  /\ at["init"] \notin {"fc", "ground", "linkhub", "sem_linkhub_tx"} =>
       sem_linkhub_tx.list = "sound" /\ sem_linkhub_tx.waiter # "stray"
  /\ at["init"] \in {"sem_attitude_change", "antenna"} => mb_spi_dev.list # "null"
  /\ at["init"] = "antenna" => sem_attitude_change.list = "sound"
  /\ at["init"] # "done" => at["antenna"] = "off"
  /\ at["antenna"] # "off" =>
       mb_spi_dev.list # "null" /\ sem_attitude_change.list = "sound"
  /\ mb_spi_dev.list = "null" => mb_spi_dev.value = 0 /\ mb_spi_dev.waiter # "linked"
  /\ sem_attitude_change.list = "null" => sem_attitude_change = Zeroed

(* Between the two parts of a reading its first is what the baseband would *)
(* still answer; otherwise the status is of one reading.                   *)
StatusInv ==
  IF at["antenna"] = "rest" THEN dev_status_buf.ldpc_pass = ReadingNow
  ELSE dev_status_buf.ldpc_pass \in {Address, dev_status_buf.rest}

(* As long as no rule applied the unit is on the antenna of the status.    *)
RoundInv ==
  /\ at["antenna"] \in {"ldpc_pass", "rest", "attitude"} => round.triggered = FALSE
  /\ at["antenna"] \in {"attitude", "no imu", "weak", "mail"} /\ round.disturbed = FALSE =>
       IF round.triggered THEN antenna \notin Weaker(dev_status_buf.rest)
       ELSE antenna = dev_status_buf.rest.current_ant

USE AirUnitAssumption
-----------------------------------------------------------------------------
(* The thread that starts the others comes before them all, and the        *)
(* antenna thread before those that use its results.                       *)
LEMMA Order ==
  ASSUME NEW t \in Thread, Runs(t)
  PROVE  /\ t # "init" => ~Ready("init")
         /\ t \in {"ground", "fc", "linkhub"} => ~Ready("antenna")
<1>1. \A u \in Thread : Ready(u) => Priority[t] <= Priority[u]
  BY DEF Runs
<1>2. /\ Priority["init"] = 8 /\ Priority["antenna"] = 11 /\ Priority["ground"] = 13
      /\ Priority["fc"] = 14 /\ Priority["linkhub"] = 15
  BY DEF Priority, Thread
<1>3. "init" \in Thread /\ "antenna" \in Thread
  BY DEF Thread
<1>4. Priority[t] \in Int /\ (t # "init" => Priority[t] > 8)
  BY <1>2 DEF Thread
<1>5. t \in {"ground", "fc", "linkhub"} => Priority[t] > 11
  BY <1>2
<1>6. t # "init" => ~Ready("init")
  BY <1>1, <1>2, <1>3, <1>4
<1>7. t \in {"ground", "fc", "linkhub"} => ~Ready("antenna")
  BY <1>1, <1>2, <1>3, <1>4, <1>5
<1>8. QED  BY <1>6, <1>7

(* A step of one thread leaves the others where they are. *)
LEMMA GoesOn ==
  ASSUME AtType, NEW t \in Thread, NEW from, NEW to, Goes(t, from, to)
  PROVE  /\ at[t] = from /\ at'[t] = to /\ Runs(t)
         /\ \A u \in Thread : u # t => at'[u] = at[u]
  BY DEF Goes, AtType

(* So does a timer. *)
LEMMA DelayGoesOn ==
  ASSUME AtType, NEW t \in Thread, NEW from, NEW to, DelayEnds(t, from, to)
  PROVE  /\ at[t] = from /\ at'[t] = to
         /\ \A u \in Thread : u # t => at'[u] = at[u]
  BY DEF DelayEnds, AtType
-----------------------------------------------------------------------------
(* Types, one group of variables at a time. *)

AtOK == AtType /\ \A t \in Thread : at[t] \in Place[t]

PositionOK ==
  /\ sem_linkhub_tx \in IpcObject /\ sem_linkhub_tx.value < SemValues
  /\ {truck_send_buf, sendto_len} \subseteq Position \cup {NoPosition}

MessageOK ==
  /\ socket \in Message \cup {Nothing, Part} /\ mav_message \in Message
  /\ attitude \in Attitude

AttitudeSemOK ==
  sem_attitude_change \in IpcObject /\ sem_attitude_change.value < SemValues

MailboxOK == mb_spi_dev \in IpcObject /\ mb_spi_dev.value <= MbSize

StatusOK ==
  /\ dev_status_buf.ldpc_pass \in Reading \cup {Address}
  /\ dev_status_buf.rest \in Reading

AntennaOK == signal \in Signals /\ antenna \in Antenna

TypeInv ==
  /\ AtOK /\ polls \in 0 .. Polls
  /\ PositionOK /\ MessageOK /\ AttitudeSemOK /\ MailboxOK /\ StatusOK /\ AntennaOK
  /\ RoundType

(* The inductive invariant. *)
AirInv == TypeInv /\ PhaseInv /\ StatusInv /\ RoundInv

(* The places of each thread. *)
LEMMA Places ==
  /\ Place["init"] = {"fc", "ground", "linkhub", "sem_linkhub_tx", "delay", "poll",
                      "poll delay", "devices", "mb_spi_dev", "sem_attitude_change",
                      "antenna", "done"}
  /\ Place["antenna"] = {"off", "request", "ldpc_pass", "rest", "attitude", "no imu",
                         "weak", "mail", "delay"}
  /\ Place["ground"] = {"off", "receive", "waiting", "send"}
  /\ Place["fc"] = {"off", "receive", "delay"}
  /\ Place["linkhub"] = {"off", "take", "waiting", "load", "send"}
BY DEF Place

(* A thread goes to a place of its own. *)
LEMMA PlaceStep ==
  ASSUME AtOK, NEW t \in Thread, NEW to \in Place[t], at' = [at EXCEPT ![t] = to]
  PROVE  AtOK'
<1>1. to \in UNION {Place[u] : u \in Thread}
  OBVIOUS
<1>2. AtType'
  BY <1>1 DEF AtOK, AtType
<1>3. \A u \in Thread : at'[u] \in Place[u]
  BY DEF AtOK, AtType
<1>4. QED  BY <1>2, <1>3 DEF AtOK

(* Two of them do. *)
LEMMA PlaceStepTwo ==
  ASSUME AtOK, NEW t \in Thread, NEW to \in Place[t], NEW w \in Thread,
         NEW wto \in Place[w], at' = [at EXCEPT ![t] = to, ![w] = wto]
  PROVE  AtOK'
<1>1. to \in UNION {Place[u] : u \in Thread} /\ wto \in UNION {Place[u] : u \in Thread}
  OBVIOUS
<1>2. AtType'
  BY <1>1 DEF AtOK, AtType
<1>3. \A u \in Thread : at'[u] \in Place[u]
  BY DEF AtOK, AtType
<1>4. QED  BY <1>2, <1>3 DEF AtOK

(* What the kernel's routines make of an object. *)
LEMMA Objects ==
  ASSUME NEW o \in IpcObject
  PROVE  /\ Zeroed \in IpcObject /\ Zeroed.value = 0
         /\ Initialised(o) \in IpcObject /\ Initialised(o).value = 0
         /\ Suspended(o) \in IpcObject /\ Suspended(o).value = o.value
         /\ TimedOut(o) \in IpcObject /\ TimedOut(o).value = o.value
         /\ o.value > 0 => Taken(o) \in IpcObject /\ Taken(o).value = o.value - 1
         /\ Sent(o) \in IpcObject /\ Sent(o).value = o.value + 1
         /\ o.value \in Nat
BY DEF IpcObject, ObjectOf, Zeroed, Initialised, Suspended, TimedOut, Taken, Sent

(* A count stays in the width of a semaphore. *)
LEMMA ReleasedObject ==
  ASSUME NEW o \in IpcObject, o.value < SemValues
  PROVE  Released(o, SemValues) \in IpcObject /\ Released(o, SemValues).value < SemValues
<1>1. (o.value + 1) % SemValues \in Nat /\ (o.value + 1) % SemValues < SemValues
  BY DEF IpcObject
<1>2. QED  BY <1>1 DEF Released, IpcObject, ObjectOf

(* Every step leaves the threads at places of theirs. *)
LEMMA AtStep == ASSUME AtOK, [Next]_vars PROVE AtOK'
<1> USE Places, PlaceStep, PlaceStepTwo DEF Thread
<1>1. CASE InitThread
  <2>1. ASSUME NEW t \in {"fc", "ground", "linkhub", "antenna"}, NEW from,
               NEW first \in Place[t], NEW to \in Place["init"], Starts(t, from, first, to)
        PROVE  AtOK'
    BY <2>1 DEF Starts
  <2>2. ASSUME StartsUdp PROVE AtOK'
    BY <2>1, <2>2 DEF StartsUdp
  <2>3. ASSUME InitialisesLinkhub \/ InitialisesMailbox \/ InitialisesAttitude PROVE AtOK'
    BY <2>3 DEF InitialisesLinkhub, InitialisesMailbox, InitialisesAttitude, Goes
  <2>4. ASSUME PollsFpga PROVE AtOK'
    BY <2>4 DEF PollsFpga, Goes
  <2>5. ASSUME StartsAntenna PROVE AtOK'
    BY <2>1, <2>5 DEF StartsAntenna
  <2>6. QED  BY <1>1, <2>2, <2>3, <2>4, <2>5 DEF InitThread
<1>2. CASE FcThread
  <2>1. ASSUME NEW id, Handles(id) PROVE AtOK'
    BY <2>1 DEF Handles, Goes
  <2>2. ASSUME HandlesPosition PROVE AtOK'
    <3> DEFINE to == IF sem_linkhub_tx.waiter = "linked" THEN "load" ELSE at["linkhub"]
    <3>1. to \in Place["linkhub"]
      BY DEF AtOK
    <3>2. at' = [at EXCEPT !["fc"] = "delay", !["linkhub"] = to]
      BY <2>2 DEF HandlesPosition
    <3> HIDE DEF to
    <3>3. QED  BY <3>1, <3>2
  <2>3. QED  BY <1>2, <2>1, <2>2 DEF FcThread, HandlesAttitude, HandlesOther
<1>3. CASE LinkhubThread
  BY <1>3 DEF LinkhubThread, LinkhubTakes, LinkhubLoads, LinkhubSends, Goes
<1>4. CASE GroundThread
  BY <1>4 DEF GroundThread, GroundReceives, GroundSends, Goes
<1>5. CASE AntennaThread
  <2>1. ASSUME AntennaMails PROVE AtOK'
    <3> DEFINE to == IF mb_spi_dev.waiter = "linked" THEN "receive" ELSE at["ground"]
    <3>1. to \in Place["ground"]
      BY DEF AtOK
    <3>2. at' = [at EXCEPT !["antenna"] = "delay", !["ground"] = to]
      BY <2>1 DEF AntennaMails
    <3> HIDE DEF to
    <3>3. QED  BY <3>1, <3>2
  <2>2. ASSUME AntennaRequests \/ AntennaFills PROVE AtOK'
    BY <2>2 DEF AntennaRequests, AntennaFills, Goes
  <2>3. ASSUME AttitudeRule \/ NoImuRule \/ WeakRule PROVE AtOK'
    BY <2>3 DEF AttitudeRule, NoImuRule, WeakRule, Goes
  <2>4. QED  BY <1>5, <2>1, <2>2, <2>3 DEF AntennaThread
<1>6. CASE InitDelayEnds
  BY <1>6 DEF InitDelayEnds, DelayEnds
<1>7. CASE FcDelayEnds \/ LinkhubTimesOut
  BY <1>7 DEF FcDelayEnds, LinkhubTimesOut, DelayEnds
<1>8. CASE GroundTimesOut \/ AntennaDelayEnds
  BY <1>8 DEF GroundTimesOut, AntennaDelayEnds, DelayEnds
<1>9. CASE World
  BY <1>9 DEF World, DatagramArrives, SelectsElsewhere, Fades, AtOK, AtType
<1>10. CASE UNCHANGED vars
  BY <1>10 DEF vars, AtOK, AtType
<1>11. QED  BY <1>1, <1>2, <1>3, <1>4, <1>5, <1>6, <1>7, <1>8, <1>9, <1>10 DEF Next

(* Who touches the poll count, *)
LEMMA PollsFrame ==
  ASSUME [Next]_vars
  PROVE  polls' = polls \/ InitDelayEnds \/ PollsFpga
<1> USE DEF startVars
<1>1. CASE InitThread
  BY <1>1 DEF InitThread, StartsUdp, StartsAntenna, Starts, InitialisesLinkhub,
              InitialisesMailbox, InitialisesAttitude
<1>2. CASE FcThread
  BY <1>2 DEF FcThread, Handles, HandlesAttitude, HandlesPosition, HandlesOther
<1>3. CASE LinkhubThread \/ LinkhubTimesOut
  BY <1>3 DEF LinkhubThread, LinkhubTakes, LinkhubLoads, LinkhubSends, LinkhubTimesOut,
              linkhubRest
<1>4. CASE GroundThread \/ GroundTimesOut
  BY <1>4 DEF GroundThread, GroundReceives, GroundSends, GroundTimesOut, groundRest
<1>5. CASE AntennaThread
  BY <1>5 DEF AntennaThread, AntennaRequests, AntennaFills, AttitudeRule, NoImuRule,
              WeakRule, AntennaMails, antennaRest
<1>6. CASE FcDelayEnds \/ AntennaDelayEnds \/ World
  BY <1>6 DEF FcDelayEnds, AntennaDelayEnds, World, DatagramArrives, SelectsElsewhere, Fades
<1>7. CASE UNCHANGED vars
  BY <1>7 DEF vars
<1>8. QED  BY <1>1, <1>2, <1>3, <1>4, <1>5, <1>6, <1>7 DEF Next

(* the position and its semaphore, *)
LEMMA PositionFrame ==
  ASSUME [Next]_vars
  PROVE  \/ UNCHANGED positionVars
         \/ InitialisesLinkhub \/ HandlesPosition \/ LinkhubThread \/ LinkhubTimesOut
<1> USE DEF positionVars
<1>1. CASE InitThread
  BY <1>1 DEF InitThread, StartsUdp, StartsAntenna, Starts, PollsFpga,
              InitialisesMailbox, InitialisesAttitude
<1>2. CASE FcThread
  BY <1>2 DEF FcThread, Handles, HandlesAttitude, HandlesOther
<1>3. CASE LinkhubThread \/ LinkhubTimesOut
  BY <1>3
<1>4. CASE GroundThread \/ GroundTimesOut
  BY <1>4 DEF GroundThread, GroundReceives, GroundSends, GroundTimesOut, groundRest
<1>5. CASE AntennaThread
  BY <1>5 DEF AntennaThread, AntennaRequests, AntennaFills, AttitudeRule, NoImuRule,
              WeakRule, AntennaMails, antennaRest
<1>6. CASE FcDelayEnds \/ AntennaDelayEnds \/ InitDelayEnds \/ World
  BY <1>6 DEF FcDelayEnds, AntennaDelayEnds, InitDelayEnds, World, DatagramArrives,
              SelectsElsewhere, Fades
<1>7. CASE UNCHANGED vars
  BY <1>7 DEF vars
<1>8. QED  BY <1>1, <1>2, <1>3, <1>4, <1>5, <1>6, <1>7 DEF Next

(* the messages and the attitude, *)
LEMMA MessageFrame ==
  ASSUME [Next]_vars
  PROVE  \/ UNCHANGED <<socket, mav_message, attitude>>
         \/ FcThread \/ \E d \in Message \cup {Part} : DatagramArrives(d)
<1> USE DEF fcVars
<1>1. CASE InitThread
  BY <1>1 DEF InitThread, StartsUdp, StartsAntenna, Starts, InitialisesLinkhub, PollsFpga,
              InitialisesMailbox, InitialisesAttitude
<1>2. CASE FcThread
  BY <1>2
<1>3. CASE LinkhubThread \/ LinkhubTimesOut
  BY <1>3 DEF LinkhubThread, LinkhubTakes, LinkhubLoads, LinkhubSends, LinkhubTimesOut,
              linkhubRest
<1>4. CASE GroundThread \/ GroundTimesOut
  BY <1>4 DEF GroundThread, GroundReceives, GroundSends, GroundTimesOut, groundRest
<1>5. CASE AntennaThread
  BY <1>5 DEF AntennaThread, AntennaRequests, AntennaFills, AttitudeRule, NoImuRule,
              WeakRule, AntennaMails, antennaRest
<1>6. CASE FcDelayEnds \/ AntennaDelayEnds \/ InitDelayEnds \/ World
  BY <1>6 DEF FcDelayEnds, AntennaDelayEnds, InitDelayEnds, World,
              SelectsElsewhere, Fades
<1>7. CASE UNCHANGED vars
  BY <1>7 DEF vars
<1>8. QED  BY <1>1, <1>2, <1>3, <1>4, <1>5, <1>6, <1>7 DEF Next

(* the semaphore of the attitude, *)
LEMMA AttitudeFrame ==
  ASSUME [Next]_vars
  PROVE  sem_attitude_change' = sem_attitude_change
           \/ InitialisesAttitude \/ HandlesAttitude \/ AttitudeRule
<1> USE DEF fcVars
<1>1. CASE InitThread
  BY <1>1 DEF InitThread, StartsUdp, StartsAntenna, Starts, InitialisesLinkhub, PollsFpga,
              InitialisesMailbox
<1>2. CASE FcThread
  BY <1>2 DEF FcThread, Handles, HandlesPosition, HandlesOther
<1>3. CASE LinkhubThread \/ LinkhubTimesOut
  BY <1>3 DEF LinkhubThread, LinkhubTakes, LinkhubLoads, LinkhubSends, LinkhubTimesOut,
              linkhubRest
<1>4. CASE GroundThread \/ GroundTimesOut
  BY <1>4 DEF GroundThread, GroundReceives, GroundSends, GroundTimesOut, groundRest
<1>5. CASE AntennaThread
  BY <1>5 DEF AntennaThread, AntennaRequests, AntennaFills, NoImuRule, WeakRule, AntennaMails
<1>6. CASE FcDelayEnds \/ AntennaDelayEnds \/ InitDelayEnds \/ World
  BY <1>6 DEF FcDelayEnds, AntennaDelayEnds, InitDelayEnds, World, DatagramArrives,
              SelectsElsewhere, Fades
<1>7. CASE UNCHANGED vars
  BY <1>7 DEF vars
<1>8. QED  BY <1>1, <1>2, <1>3, <1>4, <1>5, <1>6, <1>7 DEF Next

(* the mailbox, *)
LEMMA MailboxFrame ==
  ASSUME [Next]_vars
  PROVE  \/ mb_spi_dev' = mb_spi_dev
         \/ InitialisesMailbox \/ AntennaMails \/ GroundReceives \/ GroundTimesOut
<1> USE DEF statusVars
<1>1. CASE InitThread
  BY <1>1 DEF InitThread, StartsUdp, StartsAntenna, Starts, InitialisesLinkhub, PollsFpga,
              InitialisesAttitude
<1>2. CASE FcThread
  BY <1>2 DEF FcThread, Handles, HandlesAttitude, HandlesPosition, HandlesOther
<1>3. CASE LinkhubThread \/ LinkhubTimesOut
  BY <1>3 DEF LinkhubThread, LinkhubTakes, LinkhubLoads, LinkhubSends, LinkhubTimesOut,
              linkhubRest
<1>4. CASE GroundThread
  BY <1>4 DEF GroundThread, GroundSends
<1>5. CASE AntennaThread
  BY <1>5 DEF AntennaThread, AntennaRequests, AntennaFills, AttitudeRule, NoImuRule, WeakRule
<1>6. CASE FcDelayEnds \/ AntennaDelayEnds \/ InitDelayEnds \/ World
  BY <1>6 DEF FcDelayEnds, AntennaDelayEnds, InitDelayEnds, World, DatagramArrives,
              SelectsElsewhere, Fades
<1>7. CASE UNCHANGED vars
  BY <1>7 DEF vars
<1>8. QED  BY <1>1, <1>2, <1>3, <1>4, <1>5, <1>6, <1>7 DEF Next

(* the status, *)
LEMMA StatusFrame ==
  ASSUME [Next]_vars
  PROVE  dev_status_buf' = dev_status_buf \/ AntennaFills \/ GroundReceives
<1> USE DEF statusVars
<1>1. CASE InitThread
  BY <1>1 DEF InitThread, StartsUdp, StartsAntenna, Starts, InitialisesLinkhub, PollsFpga,
              InitialisesMailbox, InitialisesAttitude
<1>2. CASE FcThread
  BY <1>2 DEF FcThread, Handles, HandlesAttitude, HandlesPosition, HandlesOther
<1>3. CASE LinkhubThread \/ LinkhubTimesOut
  BY <1>3 DEF LinkhubThread, LinkhubTakes, LinkhubLoads, LinkhubSends, LinkhubTimesOut,
              linkhubRest
<1>4. CASE GroundThread \/ GroundTimesOut
  BY <1>4 DEF GroundThread, GroundSends, GroundTimesOut
<1>5. CASE AntennaThread
  BY <1>5 DEF AntennaThread, AntennaRequests, AttitudeRule, NoImuRule, WeakRule, AntennaMails
<1>6. CASE FcDelayEnds \/ AntennaDelayEnds \/ InitDelayEnds \/ World
  BY <1>6 DEF FcDelayEnds, AntennaDelayEnds, InitDelayEnds, World, DatagramArrives,
              SelectsElsewhere, Fades
<1>7. CASE UNCHANGED vars
  BY <1>7 DEF vars
<1>8. QED  BY <1>1, <1>2, <1>3, <1>4, <1>5, <1>6, <1>7 DEF Next

(* the antenna, the signal and the round. *)
LEMMA AntennaFrame ==
  ASSUME [Next]_vars
  PROVE  \/ UNCHANGED antennaVars
         \/ AntennaRequests \/ AttitudeRule \/ NoImuRule \/ WeakRule
         \/ \E n \in Antenna : SelectsElsewhere(n)
         \/ \E s \in Signals : Fades(s)
<1>1. CASE InitThread
  BY <1>1 DEF InitThread, StartsUdp, StartsAntenna, Starts, InitialisesLinkhub, PollsFpga,
              InitialisesMailbox, InitialisesAttitude
<1>2. CASE FcThread
  BY <1>2 DEF FcThread, Handles, HandlesAttitude, HandlesPosition, HandlesOther
<1>3. CASE LinkhubThread \/ LinkhubTimesOut
  BY <1>3 DEF LinkhubThread, LinkhubTakes, LinkhubLoads, LinkhubSends, LinkhubTimesOut,
              linkhubRest
<1>4. CASE GroundThread \/ GroundTimesOut
  BY <1>4 DEF GroundThread, GroundReceives, GroundSends, GroundTimesOut, groundRest
<1>5. CASE AntennaThread
  BY <1>5 DEF AntennaThread, AntennaFills, AntennaMails
<1>6. CASE FcDelayEnds \/ AntennaDelayEnds \/ InitDelayEnds \/ World
  BY <1>6 DEF FcDelayEnds, AntennaDelayEnds, InitDelayEnds, World, DatagramArrives
<1>7. CASE UNCHANGED vars
  BY <1>7 DEF vars
<1>8. QED  BY <1>1, <1>2, <1>3, <1>4, <1>5, <1>6, <1>7 DEF Next
-----------------------------------------------------------------------------
(* What the initial state has. *)
LEMMA InitTypes == Init => TypeInv
<1> SUFFICES ASSUME Init PROVE TypeInv
  OBVIOUS
<1>1. AtOK
  <2>1. \A t \in Thread : at[t] = IF t = "init" THEN "fc" ELSE "off"
    BY DEF Init
  <2>2. \A t \in Thread : at[t] \in Place[t]
    BY <2>1, Places DEF Thread
  <2>3. AtType
    BY <2>2 DEF Init, AtType
  <2>4. QED  BY <2>2, <2>3 DEF AtOK
<1>2. polls \in 0 .. Polls
  BY DEF Init
<1>3. PositionOK
  BY DEF Init, PositionOK, Zeroed, ObjectOf, IpcObject
<1>4. MessageOK
  BY DEF Init, MessageOK, Message, Nothing, Msg
<1>5. AttitudeSemOK /\ MailboxOK
  BY DEF Init, AttitudeSemOK, MailboxOK, Zeroed, ObjectOf, IpcObject
<1>6. StatusOK
  BY DEF Init, StatusOK, Status, Zeros, Reading, Antenna
<1>7. AntennaOK /\ RoundType
  BY DEF Init, AntennaOK, RoundType, Antenna, Round
<1>8. QED  BY <1>1, <1>2, <1>3, <1>4, <1>5, <1>6, <1>7 DEF TypeInv

(* The types are the type invariant the runs check. *)
LEMMA TypesAreTypeOK == TypeInv => TypeOK
  BY Zenon DEF TypeInv, TypeOK, AtOK, PositionOK, MessageOK, AttitudeSemOK, MailboxOK,
               StatusOK, AntennaOK

(* The poll count. *)
LEMMA PollsStep ==
  ASSUME polls \in 0 .. Polls, [Next]_vars PROVE polls' \in 0 .. Polls
<1>1. CASE InitDelayEnds
  <2>1. polls' = polls \/ (polls < Polls /\ polls' = polls + 1) \/ polls' = 0
    BY <1>1 DEF InitDelayEnds
  <2>2. QED  BY <2>1
<1>2. CASE PollsFpga
  <2>1. polls' = polls \/ polls' = 0
    BY <1>2 DEF PollsFpga
  <2>2. QED  BY <2>1
<1>3. QED  BY <1>1, <1>2, PollsFrame

(* The position and its semaphore. *)
LEMMA PositionStep == ASSUME TypeInv, [Next]_vars PROVE PositionOK'
<1> USE DEF TypeInv, PositionOK
<1>1. CASE UNCHANGED positionVars
  BY <1>1 DEF positionVars
<1>2. CASE InitialisesLinkhub
  BY <1>2, Objects DEF InitialisesLinkhub
<1>3. CASE HandlesPosition
  <2>1. Received \in Message
    BY <1>3 DEF MessageOK, HandlesPosition, Received, Message, Nothing, Part, Msg
  <2>2. Received.of \in Position
    BY <1>3, <2>1 DEF HandlesPosition, Message, Msg
  <2>3. QED  BY <1>3, <2>2, ReleasedObject DEF HandlesPosition
<1>4. CASE LinkhubThread
  <2>1. sem_linkhub_tx \in IpcObject
    OBVIOUS
  <2>2. CASE LinkhubTakes
    BY <2>1, <2>2, Objects DEF LinkhubTakes, linkhubRest
  <2>3. CASE LinkhubLoads \/ LinkhubSends
    BY <2>3 DEF LinkhubLoads, LinkhubSends, linkhubRest
  <2>4. QED  BY <1>4, <2>2, <2>3 DEF LinkhubThread
<1>5. CASE LinkhubTimesOut
  BY <1>5, Objects DEF LinkhubTimesOut, linkhubRest
<1>6. QED  BY <1>1, <1>2, <1>3, <1>4, <1>5, PositionFrame

(* The messages and the attitude. *)
LEMMA MessageStep == ASSUME TypeInv, [Next]_vars PROVE MessageOK'
<1> USE DEF TypeInv, MessageOK
<1>1. CASE UNCHANGED <<socket, mav_message, attitude>>
  BY <1>1
<1>2. CASE FcThread
  <2>1. socket # Nothing
    BY <1>2 DEF FcThread, Handles, HandlesAttitude, HandlesOther, HandlesPosition, Goes,
                Runs, Ready
  <2>2. Received \in Message
    BY <2>1 DEF Received
  <2>3. CASE HandlesAttitude
    <3>1. Received.of \in Attitude
      BY <2>2, <2>3 DEF HandlesAttitude, Handles, Message, Msg
    <3>2. QED  BY <2>2, <2>3, <3>1 DEF HandlesAttitude, Handles
  <2>4. CASE HandlesPosition \/ HandlesOther
    BY <2>2, <2>4 DEF HandlesPosition, HandlesOther, Handles
  <2>5. QED  BY <1>2, <2>3, <2>4 DEF FcThread
<1>3. CASE \E d \in Message \cup {Part} : DatagramArrives(d)
  BY <1>3 DEF DatagramArrives
<1>4. QED  BY <1>1, <1>2, <1>3, MessageFrame

(* The semaphore of the attitude. *)
LEMMA AttitudeStep == ASSUME AttitudeSemOK, [Next]_vars PROVE AttitudeSemOK'
<1> USE DEF AttitudeSemOK
<1>1. CASE InitialisesAttitude
  BY <1>1, Objects DEF InitialisesAttitude
<1>2. CASE HandlesAttitude
  BY <1>2, ReleasedObject DEF HandlesAttitude
<1>3. CASE AttitudeRule
  <2>1. \/ sem_attitude_change' = sem_attitude_change
        \/ /\ sem_attitude_change.value > 0
           /\ sem_attitude_change' = Taken(sem_attitude_change)
    BY <1>3 DEF AttitudeRule
  <2>2. QED  BY <2>1, Objects
<1>4. QED  BY <1>1, <1>2, <1>3, AttitudeFrame

(* The mailbox. *)
LEMMA MailboxStep == ASSUME MailboxOK, [Next]_vars PROVE MailboxOK'
<1> USE DEF MailboxOK
<1>1. CASE InitialisesMailbox
  BY <1>1, Objects DEF InitialisesMailbox
<1>2. CASE AntennaMails
  BY <1>2, Objects DEF AntennaMails
<1>3. CASE GroundReceives \/ GroundTimesOut
  BY <1>3, Objects DEF GroundReceives, GroundTimesOut
<1>4. QED  BY <1>1, <1>2, <1>3, MailboxFrame

(* What the baseband answers is a reading. *)
LEMMA ReadingType == ASSUME AntennaOK PROVE ReadingNow \in Reading
  BY DEF AntennaOK, ReadingNow, Reading

(* The status. *)
LEMMA StatusTypeStep == ASSUME StatusOK, AntennaOK, [Next]_vars PROVE StatusOK'
<1>1. CASE dev_status_buf' = dev_status_buf
  BY <1>1 DEF StatusOK
<1>2. CASE AntennaFills
  BY <1>2, ReadingType DEF AntennaFills, StatusOK, Status
<1>3. CASE GroundReceives
  BY <1>3 DEF GroundReceives, StatusOK, Status, statusVars
<1>4. QED  BY <1>1, <1>2, <1>3, StatusFrame

(* A rule orders antenna A or antenna B, or none. *)
LEMMA OrderType ==
  ASSUME NEW roll, NEW s
  PROVE  ByAttitude(roll, s) \in {1, 3, None} /\ WhenWeak(s) \in {1, 3}
  BY DEF ByAttitude, WhenWeak, Unless, None

(* The antenna, the signal and the round. *)
LEMMA AntennaStep ==
  ASSUME AntennaOK, RoundType, [Next]_vars PROVE AntennaOK' /\ RoundType'
<1>1. CASE UNCHANGED antennaVars
  BY <1>1 DEF antennaVars, AntennaOK, RoundType
<1>2. CASE AntennaRequests
  BY <1>2 DEF AntennaRequests, AntennaOK, RoundType, Round
<1>3. ASSUME NEW n \in {1, 3, None}, Orders(n), signal' = signal
      PROVE  AntennaOK' /\ RoundType'
  BY <1>3 DEF Orders, AntennaOK, RoundType, Round, Antenna
<1>4. ASSUME OrdersNothing, signal' = signal PROVE AntennaOK' /\ RoundType'
  BY <1>4 DEF OrdersNothing, AntennaOK, RoundType
<1>5. CASE AttitudeRule
  BY <1>3, <1>4, <1>5, OrderType DEF AttitudeRule
<1>6. CASE NoImuRule
  BY <1>3, <1>4, <1>6, OrderType DEF NoImuRule
<1>7. CASE WeakRule
  BY <1>3, <1>4, <1>7, OrderType DEF WeakRule
<1>8. CASE \E n \in Antenna : SelectsElsewhere(n)
  BY <1>8 DEF SelectsElsewhere, AntennaOK, RoundType, Round
<1>9. CASE \E s \in Signals : Fades(s)
  BY <1>9 DEF Fades, AntennaOK, RoundType
<1>10. QED  BY <1>1, <1>2, <1>5, <1>6, <1>7, <1>8, <1>9, AntennaFrame

(* All of them. *)
LEMMA TypeStep == ASSUME TypeInv, [Next]_vars PROVE TypeInv'
<1>1. AtOK' /\ polls' \in 0 .. Polls
  BY AtStep, PollsStep DEF TypeInv
<1>2. PositionOK' /\ MessageOK'
  BY PositionStep, MessageStep
<1>3. AttitudeSemOK' /\ MailboxOK'
  BY AttitudeStep, MailboxStep DEF TypeInv
<1>4. StatusOK' /\ AntennaOK' /\ RoundType'
  BY StatusTypeStep, AntennaStep DEF TypeInv
<1>5. QED  BY <1>1, <1>2, <1>3, <1>4 DEF TypeInv
-----------------------------------------------------------------------------
Early == {"fc", "ground", "linkhub", "sem_linkhub_tx"}

(* While another thread runs, the starting thread is in a delay or has     *)
(* ended.                                                                  *)
LEMMA InitAway ==
  ASSUME TypeInv, NEW t \in Thread, t # "init", Runs(t)
  PROVE  at["init"] \in {"delay", "poll delay", "done"}
<1>1. ~Ready("init")
  BY Order
<1>2. at["init"] \in Place["init"] /\ "init" # "fc"
  BY DEF TypeInv, AtOK, Thread
<1>3. QED  BY <1>1, <1>2, Places DEF Ready

(* Objects come into being before their users. *)
LEMMA PhaseStep == ASSUME TypeInv, PhaseInv, [Next]_vars PROVE PhaseInv'
<1> USE DEF PhaseInv
<1>a. AtType
  BY DEF TypeInv, AtOK
<1>b. Thread = {"init", "antenna", "ground", "fc", "linkhub"}
  BY DEF Thread
<1>1. CASE StartsUdp
  <2>1. ASSUME NEW t \in {"fc", "ground", "linkhub"}, NEW from, NEW first,
               NEW to \in Early, Starts(t, from, first, to), from \in Early,
               t = "linkhub" => first = "take"
        PROVE  PhaseInv'
    <3>1. /\ at["init"] = from /\ at'["init"] = to
          /\ at'["antenna"] = at["antenna"]
          /\ at'["linkhub"] = IF t = "linkhub" THEN first ELSE at["linkhub"]
      BY <2>1, <1>a, <1>b DEF Starts, AtType
    <3>2. UNCHANGED <<sem_linkhub_tx, mb_spi_dev, sem_attitude_change>>
      BY <2>1 DEF Starts, positionVars, fcVars, statusVars
    <3>3. QED  BY <3>1, <3>2, <2>1 DEF Early
  <2>2. QED  BY <1>1, <2>1 DEF StartsUdp, Early
<1>2. CASE InitialisesLinkhub
  <2>1. /\ at["init"] = "sem_linkhub_tx" /\ at'["init"] = "delay"
        /\ at'["antenna"] = at["antenna"]
    BY <1>2, <1>a, <1>b, GoesOn DEF InitialisesLinkhub
  <2>2. UNCHANGED <<mb_spi_dev, sem_attitude_change>>
    BY <1>2 DEF InitialisesLinkhub, fcVars, statusVars
  <2>3. sem_linkhub_tx' = Initialised(sem_linkhub_tx) /\ sem_linkhub_tx = Zeroed
    BY <1>2, <2>1 DEF InitialisesLinkhub
  <2>4. QED  BY <2>1, <2>2, <2>3 DEF Initialised, Zeroed, ObjectOf
<1>3. CASE PollsFpga \/ InitDelayEnds
  <2>1. /\ at["init"] \in {"poll", "devices", "delay", "poll delay"}
        /\ at'["init"] \in {"devices", "poll delay", "mb_spi_dev", "done", "poll"}
        /\ at'["antenna"] = at["antenna"]
    <3>1. CASE PollsFpga
      <4>1. \E from \in {"poll", "devices"},
               to \in {"devices", "poll delay", "mb_spi_dev", "done"} : Goes("init", from, to)
        BY <3>1 DEF PollsFpga
      <4>2. PICK from \in {"poll", "devices"},
                 to \in {"devices", "poll delay", "mb_spi_dev", "done"} : Goes("init", from, to)
        BY <4>1
      <4>3. at["init"] = from /\ at'["init"] = to /\ at'["antenna"] = at["antenna"]
        BY <4>2, <1>a, <1>b DEF Goes, AtType
      <4>4. QED  BY <4>3
    <3>2. CASE InitDelayEnds
      <4>1. \E from \in {"delay", "poll delay"}, to \in {"poll", "done"} :
               DelayEnds("init", from, to)
        BY <3>2 DEF InitDelayEnds
      <4>2. PICK from \in {"delay", "poll delay"}, to \in {"poll", "done"} :
                   DelayEnds("init", from, to)
        BY <4>1
      <4>3. at["init"] = from /\ at'["init"] = to /\ at'["antenna"] = at["antenna"]
        BY <4>2, <1>a, <1>b DEF DelayEnds, AtType
      <4>4. QED  BY <4>3
    <3>3. QED  BY <1>3, <3>1, <3>2
  <2>2. UNCHANGED <<sem_linkhub_tx, mb_spi_dev, sem_attitude_change>>
    BY <1>3 DEF PollsFpga, InitDelayEnds, positionVars, fcVars, statusVars
  <2>3. QED  BY <2>1, <2>2
<1>4. CASE InitialisesMailbox
  <2>1. /\ at["init"] = "mb_spi_dev" /\ at'["init"] = "sem_attitude_change"
        /\ at'["antenna"] = at["antenna"]
    BY <1>4, <1>a, <1>b, GoesOn DEF InitialisesMailbox
  <2>2. UNCHANGED <<sem_linkhub_tx, sem_attitude_change>>
    BY <1>4 DEF InitialisesMailbox, fcVars, positionVars
  <2>3. mb_spi_dev' = Initialised(mb_spi_dev)
    BY <1>4 DEF InitialisesMailbox
  <2>4. QED  BY <2>1, <2>2, <2>3 DEF Initialised, ObjectOf
<1>5. CASE InitialisesAttitude
  <2>1. /\ at["init"] = "sem_attitude_change" /\ at'["init"] = "antenna"
        /\ at'["antenna"] = at["antenna"]
    BY <1>5, <1>a, <1>b, GoesOn DEF InitialisesAttitude
  <2>2. UNCHANGED <<sem_linkhub_tx, mb_spi_dev>>
    BY <1>5 DEF InitialisesAttitude, statusVars, positionVars
  <2>3. sem_attitude_change' = Initialised(sem_attitude_change)
    BY <1>5 DEF InitialisesAttitude
  <2>4. QED  BY <2>1, <2>2, <2>3 DEF Initialised, ObjectOf
<1>6. CASE StartsAntenna
  <2>1. /\ at["init"] = "antenna" /\ at'["init"] = "done"
    BY <1>6, <1>a, <1>b DEF StartsAntenna, Starts, AtType
  <2>2. UNCHANGED <<sem_linkhub_tx, mb_spi_dev, sem_attitude_change>>
    BY <1>6 DEF StartsAntenna, Starts, positionVars, fcVars, statusVars
  <2>3. QED  BY <2>1, <2>2
<1>7. CASE FcThread
  <2>1. at["fc"] = "receive" /\ Runs("fc") /\ UNCHANGED <<at["init"], at["antenna"]>>
    BY <1>7, <1>a, <1>b, GoesOn
    DEF FcThread, Handles, HandlesAttitude, HandlesOther, HandlesPosition, AtType
  <2>2. at["init"] \in {"delay", "poll delay", "done"}
    BY <2>1, <1>b, InitAway
  <2>3. /\ mb_spi_dev' = mb_spi_dev
        /\ \/ sem_linkhub_tx' = sem_linkhub_tx
           \/ sem_linkhub_tx' = Released(sem_linkhub_tx, SemValues)
        /\ \/ sem_attitude_change' = sem_attitude_change
           \/ sem_attitude_change' = Released(sem_attitude_change, SemValues)
    BY <1>7 DEF FcThread, Handles, HandlesAttitude, HandlesOther, HandlesPosition, statusVars
  <2>4. /\ sem_linkhub_tx'.list = sem_linkhub_tx.list
        /\ sem_attitude_change'.list = sem_attitude_change.list
        /\ sem_linkhub_tx'.waiter \in {"none", sem_linkhub_tx.waiter}
    BY <2>3 DEF Released, ObjectOf
  <2>5. sem_attitude_change.list = "null" => sem_attitude_change' = Zeroed
    BY <2>3 DEF Released, Zeroed, ObjectOf
  <2>6. QED  BY <2>1, <2>2, <2>3, <2>4, <2>5
<1>8. CASE LinkhubThread
  <2>1. Runs("linkhub") /\ UNCHANGED <<at["init"], at["antenna"]>>
    BY <1>8, <1>a, <1>b, GoesOn DEF LinkhubThread, LinkhubTakes, LinkhubLoads, LinkhubSends
  <2>2. at["init"] \in {"delay", "poll delay", "done"}
    BY <2>1, <1>b, InitAway
  <2>3. /\ UNCHANGED <<mb_spi_dev, sem_attitude_change>>
        /\ \/ sem_linkhub_tx' = sem_linkhub_tx
           \/ sem_linkhub_tx' = Taken(sem_linkhub_tx)
           \/ sem_linkhub_tx' = Suspended(sem_linkhub_tx)
    BY <1>8 DEF LinkhubThread, LinkhubTakes, LinkhubLoads, LinkhubSends, linkhubRest,
                statusVars, fcVars
  <2>4. sem_linkhub_tx'.list = "sound" /\ sem_linkhub_tx'.waiter # "stray"
    <3>1. sem_linkhub_tx.list = "sound" /\ sem_linkhub_tx.waiter # "stray"
      BY <2>2
    <3>2. QED  BY <2>3, <3>1 DEF Taken, Suspended, ObjectOf
  <2>5. at'["init"] \notin {"fc", "ground", "linkhub", "sem_linkhub_tx"}
    BY <2>1, <2>2
  <2>6. QED  BY <2>1, <2>3, <2>4, <2>5
<1>9. CASE LinkhubTimesOut
  <2>1. at["linkhub"] = "waiting" /\ UNCHANGED <<at["init"], at["antenna"]>>
    BY <1>9, <1>a, <1>b, DelayGoesOn DEF LinkhubTimesOut
  <2>2. /\ UNCHANGED <<mb_spi_dev, sem_attitude_change>>
        /\ sem_linkhub_tx' = TimedOut(sem_linkhub_tx)
    BY <1>9 DEF LinkhubTimesOut, linkhubRest, statusVars, fcVars
  <2>3. sem_linkhub_tx.list = "sound" /\ sem_linkhub_tx.waiter # "stray"
    BY <2>1
  <2>4. sem_linkhub_tx'.list = "sound" /\ sem_linkhub_tx'.waiter # "stray"
    BY <2>2, <2>3 DEF TimedOut, ObjectOf
  <2>5. at'["init"] \notin {"fc", "ground", "linkhub", "sem_linkhub_tx"}
    BY <2>1
  <2>6. QED  BY <2>1, <2>2, <2>4, <2>5
<1>10. CASE GroundThread \/ GroundTimesOut
  <2>1. UNCHANGED <<at["init"], at["antenna"], at["linkhub"]>>
    BY <1>10, <1>a, <1>b, GoesOn, DelayGoesOn
    DEF GroundThread, GroundReceives, GroundSends, GroundTimesOut
  <2>2. /\ UNCHANGED <<sem_linkhub_tx, sem_attitude_change>>
        /\ \/ mb_spi_dev' = mb_spi_dev \/ mb_spi_dev' = Taken(mb_spi_dev)
           \/ mb_spi_dev' = Suspended(mb_spi_dev) \/ mb_spi_dev' = TimedOut(mb_spi_dev)
    BY <1>10 DEF GroundThread, GroundReceives, GroundSends, GroundTimesOut, groundRest,
                 statusVars, fcVars, positionVars
  <2>3. mb_spi_dev.list # "null" => mb_spi_dev'.list # "null"
    BY <2>2 DEF Taken, Suspended, TimedOut, ObjectOf
  <2>4. mb_spi_dev.list = "null" =>
          mb_spi_dev'.value = 0 /\ mb_spi_dev'.waiter # "linked"
    <3>1. \/ mb_spi_dev' = mb_spi_dev
          \/ mb_spi_dev.value > 0
          \/ mb_spi_dev' = Suspended(mb_spi_dev) \/ mb_spi_dev' = TimedOut(mb_spi_dev)
      BY <1>10 DEF GroundThread, GroundReceives, GroundSends, GroundTimesOut, statusVars
    <3>2. QED  BY <3>1 DEF Suspended, TimedOut, ObjectOf
  <2>5. QED  BY <2>1, <2>2, <2>3, <2>4
<1>c. ASSUME AntennaThread \/ AntennaDelayEnds
      PROVE  at["antenna"] # "off" /\ UNCHANGED <<at["init"], at["linkhub"]>>
  <2>1. CASE AntennaMails
    BY <2>1, <1>a, <1>b DEF AntennaMails, AtType
  <2>2. CASE AntennaThread /\ ~AntennaMails
    <3>1. \E from \in Place["antenna"] \ {"off"} : \E to : Goes("antenna", from, to)
      BY <2>2, Places
      DEF AntennaThread, AntennaRequests, AntennaFills, AttitudeRule, NoImuRule, WeakRule
    <3>2. QED  BY <3>1, <1>a, <1>b, GoesOn
  <2>3. CASE AntennaDelayEnds
    BY <2>3, <1>a, <1>b, DelayGoesOn DEF AntennaDelayEnds
  <2>4. QED  BY <1>c, <2>1, <2>2, <2>3
<1>11. CASE AntennaThread \/ AntennaDelayEnds
  <2>1. /\ sem_linkhub_tx' = sem_linkhub_tx
        /\ mb_spi_dev' = mb_spi_dev \/ mb_spi_dev' = Sent(mb_spi_dev)
        /\ \/ sem_attitude_change' = sem_attitude_change
           \/ sem_attitude_change' = Taken(sem_attitude_change)
    BY <1>11 DEF AntennaThread, AntennaRequests, AntennaFills, AttitudeRule, NoImuRule,
                 WeakRule, AntennaMails, AntennaDelayEnds, antennaRest, statusVars, fcVars,
                 positionVars
  <2>2. /\ mb_spi_dev'.list = mb_spi_dev.list
        /\ sem_attitude_change'.list = sem_attitude_change.list
    BY <2>1 DEF Sent, Taken, ObjectOf
  <2>3. QED  BY <1>c, <1>11, <2>1, <2>2
<1>12. CASE FcDelayEnds \/ World \/ UNCHANGED vars
  <2>1. UNCHANGED <<at["init"], at["antenna"], at["linkhub"]>>
    BY <1>12, <1>a, <1>b, DelayGoesOn
    DEF FcDelayEnds, World, DatagramArrives, SelectsElsewhere, Fades, vars
  <2>2. UNCHANGED <<sem_linkhub_tx, mb_spi_dev, sem_attitude_change>>
    BY <1>12 DEF FcDelayEnds, World, DatagramArrives, SelectsElsewhere, Fades, vars,
                 positionVars, fcVars, statusVars
  <2>3. QED  BY <2>1, <2>2
<1>13. QED
  BY <1>1, <1>2, <1>3, <1>4, <1>5, <1>6, <1>7, <1>8, <1>9, <1>10, <1>11, <1>12
  DEF Next, InitThread
-----------------------------------------------------------------------------
(* Who moves the antenna thread. *)
LEMMA AntennaAt ==
  ASSUME AtType, [Next]_vars
  PROVE  \/ at'["antenna"] = at["antenna"]
         \/ AntennaThread \/ AntennaDelayEnds \/ StartsAntenna
<1>a. Thread = {"init", "antenna", "ground", "fc", "linkhub"}
  BY DEF Thread
<1>1. CASE InitThread
  BY <1>1, <1>a, GoesOn
  DEF InitThread, StartsUdp, Starts, InitialisesLinkhub, PollsFpga, InitialisesMailbox,
      InitialisesAttitude, AtType
<1>2. CASE FcThread
  BY <1>2, <1>a
  DEF FcThread, Handles, HandlesAttitude, HandlesOther, HandlesPosition, AtType, Goes
<1>3. CASE LinkhubThread \/ GroundThread
  BY <1>3, <1>a
  DEF LinkhubThread, LinkhubTakes, LinkhubLoads, LinkhubSends, GroundThread,
      GroundReceives, GroundSends, AtType, Goes
<1>4. CASE InitDelayEnds \/ FcDelayEnds \/ LinkhubTimesOut \/ GroundTimesOut
  BY <1>4, <1>a
  DEF InitDelayEnds, FcDelayEnds, LinkhubTimesOut, GroundTimesOut, AtType, DelayEnds
<1>5. CASE World \/ UNCHANGED vars
  BY <1>5 DEF World, DatagramArrives, SelectsElsewhere, Fades, vars
<1>6. QED  BY <1>1, <1>2, <1>3, <1>4, <1>5 DEF Next

(* A thread behind the antenna thread finds it away. *)
LEMMA AntennaAway ==
  ASSUME TypeInv, NEW t \in {"ground", "fc", "linkhub"}, Runs(t)
  PROVE  at["antenna"] \in {"off", "delay"}
<1>1. ~Ready("antenna") /\ at["antenna"] \in Place["antenna"]
  BY Order DEF TypeInv, AtOK, Thread
<1>2. QED  BY <1>1, Places DEF Ready

(* The antenna thread starts from nowhere. *)
LEMMA AntennaStarts ==
  ASSUME TypeInv, PhaseInv, StartsAntenna \/ AntennaDelayEnds
  PROVE  /\ at["antenna"] \in {"off", "delay"} /\ at'["antenna"] = "request"
         /\ UNCHANGED <<dev_status_buf, signal, antenna, round>>
<1>a. AtType
  BY DEF TypeInv, AtOK
<1>1. CASE StartsAntenna
  BY <1>1, <1>a
  DEF StartsAntenna, Starts, PhaseInv, AtType, Thread, statusVars, antennaVars
<1>2. CASE AntennaDelayEnds
  BY <1>2, <1>a DEF AntennaDelayEnds, DelayEnds, AtType, Thread, statusVars, antennaVars
<1>3. QED  BY <1>1, <1>2

(* The status stays one reading, but while it is filled. *)
LEMMA StatusStep == ASSUME TypeInv, PhaseInv, StatusInv, [Next]_vars PROVE StatusInv'
<1> USE DEF StatusInv
<1>a. AtType /\ "antenna" \in Thread
  BY DEF TypeInv, AtOK, Thread
<1>1. CASE AntennaFills
  <2>1. UNCHANGED <<signal, antenna>>
    BY <1>1 DEF AntennaFills, antennaVars
  <2>2. ReadingNow' = ReadingNow
    BY <2>1 DEF ReadingNow
  <2>3. CASE at["antenna"] = "ldpc_pass"
    BY <1>1, <1>a, <2>2, <2>3 DEF AntennaFills, Goes, AtType, Status
  <2>4. CASE at["antenna"] = "rest"
    BY <1>1, <1>a, <2>2, <2>4 DEF AntennaFills, Goes, AtType, Status
  <2>5. QED  BY <1>1, <2>3, <2>4 DEF AntennaFills, Goes
<1>2. CASE AntennaThread /\ ~AntennaFills
  <2>1. at["antenna"] # "rest" /\ at'["antenna"] # "rest"
    BY <1>2, <1>a
    DEF AntennaThread, AntennaRequests, AttitudeRule, NoImuRule, WeakRule, AntennaMails,
        Goes, AtType, Thread
  <2>2. dev_status_buf' = dev_status_buf
    BY <1>2 DEF AntennaThread, AntennaRequests, AttitudeRule, NoImuRule, WeakRule,
                AntennaMails, statusVars
  <2>3. QED  BY <2>1, <2>2
<1>3. CASE StartsAntenna \/ AntennaDelayEnds
  BY <1>3, AntennaStarts
<1>4. ASSUME at'["antenna"] = at["antenna"], ~AntennaThread PROVE StatusInv'
  <2>1. CASE GroundReceives
    <3>1. Runs("ground")
      BY <2>1 DEF GroundReceives, Goes
    <3>2. at["antenna"] # "rest"
      BY <3>1, AntennaAway
    <3>3. QED  BY <1>4, <2>1, <3>2 DEF GroundReceives, Status
  <2>2. CASE dev_status_buf' = dev_status_buf /\ UNCHANGED antennaVars
    BY <1>4, <2>2 DEF antennaVars, ReadingNow
  <2>3. CASE dev_status_buf' = dev_status_buf /\ \E n \in Antenna : SelectsElsewhere(n)
    BY <1>4, <2>3 DEF SelectsElsewhere
  <2>4. CASE dev_status_buf' = dev_status_buf /\ \E s \in Signals : Fades(s)
    BY <1>4, <2>4 DEF Fades
  <2>5. QED  BY <1>4, <2>1, <2>2, <2>3, <2>4, StatusFrame, AntennaFrame DEF AntennaThread
<1>5. QED  BY <1>1, <1>2, <1>3, <1>4, <1>a, AntennaAt

(* Which of the antennas are weaker. *)
LEMMA WhichIsWeaker ==
  ASSUME NEW s \in Reading
  PROVE  /\ s.a \in Int /\ s.b \in Int
         /\ 1 \in Weaker(s) <=> s.a - s.b > 2
         /\ 3 \in Weaker(s) <=> s.b - s.a > 2
         /\ 0 \notin Weaker(s) /\ 9 \notin Weaker(s)
         /\ s.a - s.b <= 2 /\ s.b - s.a <= 2 => \A n : n \notin Weaker(s)
<1>1. s.a \in Int /\ s.b \in Int
  BY DEF Reading
<1>2. QED  BY <1>1 DEF Weaker

(* Whatever the attitude, what its rule orders or leaves is not the weaker *)
(* antenna.                                                                *)
LEMMA ByAttitudeIsBetter ==
  ASSUME NEW s \in Reading, NEW roll
  PROVE  /\ ByAttitude(roll, s) # None => ByAttitude(roll, s) \notin Weaker(s)
         /\ ByAttitude(roll, s) = None => s.current_ant \notin Weaker(s)
<1> DEFINE o == ByAttitude(roll, s)
           Better(x) == /\ x # None => x \notin Weaker(s)
                        /\ x = None => s.current_ant \notin Weaker(s)
<1>1. /\ s.a \in Int /\ s.b \in Int
      /\ 1 \in Weaker(s) <=> s.a - s.b > 2
      /\ 3 \in Weaker(s) <=> s.b - s.a > 2
      /\ s.a - s.b <= 2 /\ s.b - s.a <= 2 => \A n : n \notin Weaker(s)
  BY WhichIsWeaker
<1>2. ASSUME NEW n, n \notin Weaker(s), n # None PROVE Better(Unless(n, s)) /\ Better(n)
  BY <1>2 DEF Unless
<1>3. 1 # None /\ 3 # None
  BY DEF None
<1>4. CASE s.b - s.a > 2
  <2>1. 1 \notin Weaker(s) /\ Better(Unless(1, s))
    BY <1>1, <1>2, <1>3, <1>4
  <2>2. o = Unless(1, s) \/ o = 1
    BY <1>1, <1>4 DEF ByAttitude
  <2>3. QED  BY <1>3, <2>1, <2>2
<1>5. CASE s.a - s.b > 2
  <2>1. 3 \notin Weaker(s) /\ Better(Unless(3, s))
    BY <1>1, <1>2, <1>3, <1>5
  <2>2. o = Unless(3, s) \/ o = 3
    BY <1>1, <1>5 DEF ByAttitude
  <2>3. QED  BY <1>3, <2>1, <2>2
<1>6. CASE s.b - s.a <= 2 /\ s.a - s.b <= 2
  BY <1>1, <1>6
<1>7. QED  BY <1>1, <1>4, <1>5, <1>6

(* Of two weak antennas the better is taken. *)
LEMMA WhenWeakIsBetter ==
  ASSUME NEW s \in Reading PROVE WhenWeak(s) # None /\ WhenWeak(s) \notin Weaker(s)
<1>1. /\ s.a \in Int /\ s.b \in Int
      /\ 1 \in Weaker(s) <=> s.a - s.b > 2
      /\ 3 \in Weaker(s) <=> s.b - s.a > 2
  BY WhichIsWeaker
<1>2. CASE s.a >= s.b
  BY <1>1, <1>2 DEF WhenWeak, None
<1>3. CASE ~(s.a >= s.b)
  <2>1. WhenWeak(s) = 1 /\ ~(s.a - s.b > 2)
    BY <1>1, <1>3 DEF WhenWeak
  <2>2. QED  BY <1>1, <2>1 DEF None
<1>4. QED  BY <1>2, <1>3

(* A rule that orders, or finds nothing to do, has the better antenna.     *)
LEMMA RuleOrders ==
  ASSUME NEW s \in Reading, NEW n, Orders(n),
         n # None => n \notin Weaker(s),
         n = None => antenna \notin Weaker(s)
  PROVE  antenna' \notin Weaker(s) /\ round' = Round(TRUE, round.disturbed)
  BY DEF Orders

(* A round keeps to what RoundInv says, rule by rule. *)
LEMMA RoundStep == ASSUME TypeInv, RoundInv, PhaseInv, [Next]_vars PROVE RoundInv'
<1> USE DEF RoundInv
<1>a. AtType /\ "antenna" \in Thread /\ RoundType
  BY DEF TypeInv, AtOK, Thread
<1>b. dev_status_buf.rest \in Reading
  BY DEF TypeInv, StatusOK
<1>1. CASE AntennaRequests
  <2>1. at'["antenna"] = "ldpc_pass" /\ round'.triggered = FALSE
    BY <1>1, <1>a DEF AntennaRequests, Goes, AtType, Round
  <2>2. QED  BY <2>1
<1>2. CASE AntennaFills
  <2>1. UNCHANGED antennaVars
    BY <1>2 DEF AntennaFills
  <2>2. CASE Goes("antenna", "ldpc_pass", "rest")
    BY <1>a, <2>1, <2>2 DEF Goes, AtType, antennaVars
  <2>3. CASE /\ Goes("antenna", "rest", "attitude")
             /\ dev_status_buf' = Status(dev_status_buf.ldpc_pass, ReadingNow)
    <3>1. at["antenna"] = "rest" /\ at'["antenna"] = "attitude"
      BY <1>a, <2>3, GoesOn
    <3>2. dev_status_buf'.rest = ReadingNow
      BY <2>3 DEF Status
    <3>3. antenna' = antenna /\ round' = round
      BY <2>1 DEF antennaVars
    <3>4. ReadingNow.current_ant = antenna
      BY DEF ReadingNow
    <3>5. antenna' = dev_status_buf'.rest.current_ant
      BY <3>2, <3>3, <3>4
    <3>6. round'.triggered = FALSE
      BY <3>1, <3>3
    <3>7. QED  BY <3>1, <3>5, <3>6
  <2>4. QED  BY <1>2, <2>2, <2>3 DEF AntennaFills
<1>3. CASE AttitudeRule
  <2>a. at["antenna"] = "attitude" /\ at'["antenna"] = "no imu"
    <3>1. Goes("antenna", "attitude", "no imu")
      BY <1>3 DEF AttitudeRule
    <3>2. QED  BY <3>1, <1>a, GoesOn
  <2>b. dev_status_buf' = dev_status_buf
    BY <1>3 DEF AttitudeRule, statusVars
  <2>1. /\ at["antenna"] = "attitude" /\ at'["antenna"] = "no imu"
        /\ round.triggered = FALSE /\ dev_status_buf' = dev_status_buf
    BY <2>a, <2>b
  <2>2. CASE OrdersNothing
    BY <2>1, <2>2 DEF OrdersNothing
  <2>3. CASE Orders(ByAttitude(attitude, dev_status_buf.rest))
    <3>1. round'.triggered = TRUE /\ round'.disturbed = round.disturbed
      BY <2>3 DEF Orders, Round
    <3>2. ASSUME round.disturbed = FALSE PROVE antenna' \notin Weaker(dev_status_buf.rest)
      BY <1>b, <2>1, <2>3, <3>2, ByAttitudeIsBetter, RuleOrders
    <3>3. QED  BY <2>1, <3>1, <3>2 DEF Weaker
  <2>4. QED  BY <1>3, <2>2, <2>3 DEF AttitudeRule
<1>4. CASE NoImuRule
  <2>1. /\ at["antenna"] = "no imu" /\ at'["antenna"] = "weak"
        /\ dev_status_buf' = dev_status_buf
    BY <1>4, <1>a, GoesOn DEF NoImuRule, statusVars
  <2>2. CASE OrdersNothing
    BY <2>1, <2>2 DEF OrdersNothing, Weaker
  <2>3. CASE Orders(ByAttitude("level", dev_status_buf.rest))
    <3>1. round'.triggered = TRUE /\ round'.disturbed = round.disturbed
      BY <2>3 DEF Orders, Round
    <3>2. ASSUME round.disturbed = FALSE PROVE antenna' \notin Weaker(dev_status_buf.rest)
      <4> DEFINE n == ByAttitude("level", dev_status_buf.rest)
      <4>1. n # None => n \notin Weaker(dev_status_buf.rest)
        BY <1>b, ByAttitudeIsBetter
      <4>2. n = None => dev_status_buf.rest.current_ant \notin Weaker(dev_status_buf.rest)
        BY <1>b, ByAttitudeIsBetter
      <4>3. antenna = dev_status_buf.rest.current_ant
              \/ antenna \notin Weaker(dev_status_buf.rest)
        BY <2>1, <3>2
      <4>4. n = None => antenna \notin Weaker(dev_status_buf.rest)
        BY <4>2, <4>3
      <4> HIDE DEF n
      <4>5. QED  BY <1>b, <2>3, <4>1, <4>4, RuleOrders DEF n
    <3>3. QED  BY <2>1, <3>1, <3>2 DEF Weaker
  <2>4. QED  BY <1>4, <2>2, <2>3 DEF NoImuRule
<1>5. CASE WeakRule
  <2>1. /\ at["antenna"] = "weak" /\ at'["antenna"] = "mail"
        /\ dev_status_buf' = dev_status_buf
    BY <1>5, <1>a, GoesOn DEF WeakRule, statusVars
  <2>2. CASE OrdersNothing
    BY <2>1, <2>2 DEF OrdersNothing, Weaker
  <2>3. CASE Orders(WhenWeak(dev_status_buf.rest))
    <3>1. antenna' \notin Weaker(dev_status_buf.rest)
      BY <1>b, <2>3, WhenWeakIsBetter, RuleOrders
    <3>2. round'.triggered = TRUE
      BY <2>3 DEF Orders, Round
    <3>3. QED  BY <2>1, <3>1, <3>2 DEF Weaker
  <2>4. QED  BY <1>5, <2>2, <2>3 DEF WeakRule
<1>6. CASE AntennaMails
  <2>1. at'["antenna"] = "delay"
    BY <1>6, <1>a DEF AntennaMails, AtType, Thread
  <2>2. QED  BY <2>1
<1>7. CASE StartsAntenna \/ AntennaDelayEnds
  BY <1>7, AntennaStarts
<1>8. ASSUME at'["antenna"] = at["antenna"], ~AntennaThread PROVE RoundInv'
  <2>1. dev_status_buf'.rest = dev_status_buf.rest
    <3>1. CASE GroundReceives
      <4>1. \/ dev_status_buf' = [ldpc_pass |-> Address, rest |-> dev_status_buf.rest]
            \/ dev_status_buf' = dev_status_buf
        BY <3>1 DEF GroundReceives, Status
      <4>2. ASSUME dev_status_buf' = [ldpc_pass |-> Address, rest |-> dev_status_buf.rest]
            PROVE  dev_status_buf'.rest = dev_status_buf.rest
        BY <4>2
      <4>3. QED  BY <4>1, <4>2
    <3>2. ~AntennaFills
      BY <1>8 DEF AntennaThread
    <3>3. CASE dev_status_buf' = dev_status_buf
      BY <3>3
    <3>4. dev_status_buf' = dev_status_buf \/ AntennaFills \/ GroundReceives
      BY StatusFrame
    <3>5. QED  BY <3>1, <3>2, <3>3, <3>4, Zenon
  <2>2. CASE UNCHANGED antennaVars
    BY <1>8, <2>1, <2>2 DEF antennaVars, Weaker
  <2>3. CASE \E n \in Antenna : SelectsElsewhere(n)
    <3>1. round' = [triggered |-> round.triggered, disturbed |-> TRUE]
      BY <2>3 DEF SelectsElsewhere, Round
    <3>2. round'.triggered = round.triggered /\ round'.disturbed = TRUE
      BY <3>1, Zenon
    <3>3. QED  BY <1>8, <3>2
  <2>4. CASE \E s \in Signals : Fades(s)
    BY <1>8, <2>1, <2>4 DEF Fades, Weaker
  <2>5. QED  BY <1>8, <2>2, <2>3, <2>4, AntennaFrame DEF AntennaThread
<1>9. QED
  BY <1>1, <1>2, <1>3, <1>4, <1>5, <1>6, <1>7, <1>8, <1>a, AntennaAt DEF AntennaThread
-----------------------------------------------------------------------------
(* The inductive invariant: the steps above together. *)
LEMMA Inductive ==
  ASSUME TypeInv /\ PhaseInv /\ StatusInv /\ RoundInv, [Next]_vars PROVE AirInv'
  BY TypeStep, PhaseStep, StatusStep, RoundStep DEF AirInv

(* It holds at the start. *)
LEMMA InitInv == Init => AirInv
<1> SUFFICES ASSUME Init PROVE AirInv
  OBVIOUS
<1>1. TypeInv
  BY InitTypes
<1>2. /\ at["init"] = "fc" /\ at["antenna"] = "off" /\ at["linkhub"] = "off"
      /\ sem_linkhub_tx = Zeroed
  BY DEF Init, Thread
<1>3. PhaseInv /\ RoundInv
  <2>1. mb_spi_dev = Zeroed /\ sem_attitude_change = Zeroed
    BY DEF Init
  <2>2. QED  BY <1>2, <2>1 DEF PhaseInv, RoundInv, Zeroed, ObjectOf
<1>4. StatusInv
  BY <1>2 DEF StatusInv, Init, Status
<1>5. QED  BY <1>1, <1>3, <1>4 DEF AirInv

(* It holds for ever. *)
LEMMA Invariance == Spec => []AirInv
<1>1. AirInv /\ [Next]_vars => AirInv'
  BY Inductive DEF AirInv
<1>2. QED  BY <1>1, InitInv, PTL DEF Spec

(* The threads are at places of theirs, counts stay within the mailbox and *)
(* the width of a semaphore, and the status is made of readings and the    *)
(* pointer rt_mb_recv stores in it.                                        *)
THEOREM TypeCorrect == Spec => []TypeOK
<1>1. AirInv => TypeOK
  BY TypesAreTypeOK DEF AirInv
<1>2. QED  BY <1>1, Invariance, PTL

(* What is done to an object that is not initialised: nobody runs who      *)
(* takes or releases sem_linkhub_tx (udp_connect.c:123), the mailbox has   *)
(* no mails and no waiter on its list, though the ground thread may be     *)
(* stray on it, and a release of sem_attitude_change before                *)
(* application.c:125 leaves it as it is.                                   *)
THEOREM ObjectsReady == Spec => []UsedWhenReady
<1>1. ASSUME AirInv
      PROVE  UsedWhenReady
  <2>1. at["init"] \in Early => Ready("init")
    BY DEF Early, Ready
  <2>2. sem_linkhub_tx.list = "null" => at["init"] \in Early
    BY <1>1 DEF AirInv, PhaseInv, Early
  <2>3. sem_linkhub_tx.list = "null" => ~Runs("linkhub") /\ ~Runs("fc")
    BY <2>1, <2>2, Order DEF Thread
  <2>4. /\ sem_linkhub_tx.list = "null" => sem_linkhub_tx = Zeroed
        /\ sem_linkhub_tx.list # "cut" /\ sem_linkhub_tx.waiter # "stray"
    BY <1>1 DEF AirInv, PhaseInv, Zeroed, ObjectOf
  <2>5. QED  BY <1>1, <2>3, <2>4 DEF AirInv, PhaseInv, UsedWhenReady
<1>2. QED  BY <1>1, Invariance, PTL

(* What is sent to the ground is one reading of the status, but for the    *)
(* pointer rt_mb_recv stores in it (udp_connect.c:281): the sender comes   *)
(* behind the thread that fills the buffer.                                *)
THEOREM OneReading == Spec => StatusOfOneReading
<1>1. ASSUME AirInv, GroundSends
      PROVE  dev_status_buf.ldpc_pass \in {Address, dev_status_buf.rest}
  <2>1. Runs("ground")
    BY <1>1 DEF GroundSends, Goes
  <2>2. at["antenna"] \in {"off", "delay"}
    BY <1>1, <2>1, AntennaAway DEF AirInv
  <2>3. QED  BY <1>1, <2>2 DEF AirInv, StatusInv
<1>2. AirInv => [GroundSends =>
                   dev_status_buf.ldpc_pass \in {Address, dev_status_buf.rest}]_vars
  BY <1>1
<1>3. QED  BY <1>2, Invariance, PTL DEF StatusOfOneReading

(* After a round in which a rule applied, and no other thread selected an  *)
(* antenna, the unit is not on the weaker antenna of the status, for any   *)
(* signals: no order of one rule is undone by the next for the worse.      *)
THEOREM RoundsEndOnBetter == Spec => []RoundEndsOnBetter
<1>1. AirInv => RoundEndsOnBetter
  BY DEF AirInv, TypeInv, RoundType, RoundInv, RoundEndsOnBetter
<1>2. QED  BY <1>1, Invariance, PTL
=============================================================================
