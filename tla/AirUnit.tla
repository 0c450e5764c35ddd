------------------------------ MODULE AirUnit ------------------------------
(***************************************************************************)
(* The air unit from its start to its service: the thread that starts the  *)
(* others (App/application.c), the antenna thread with its rules           *)
(* (App/antenna_sw.c), and the threads that receive the flight             *)
(* controller's messages, forward its position and send the status of the  *)
(* unit to the ground (App/udp_connect.c).                                 *)
(*                                                                         *)
(* The threads share one status buffer, one buffer for the position, a     *)
(* mailbox and two semaphores, without a lock.  What keeps them apart is   *)
(* the order of their priorities: a thread runs only while no thread of a  *)
(* higher priority is ready.  Timers end waits and delays at any moment.   *)
(***************************************************************************)
EXTENDS Ipc

CONSTANTS
  Attitude,      \* "zero", of no roll, pitch and yaw; roll "left" or "right" within
                 \* 0.9; "level", another attitude
  Position,      \* contents of position messages, all of different lengths
  Signals,       \* [a, b]: attenuation at antennas A and B, the higher the weaker
  MbSize,        \* mails in mb_spi_dev
  SemValues,     \* 2 to the width of a semaphore's value
  Polls,         \* of the FPGA's configuration before the start is given up
  Budgets        \* bounds of a behaviour: [datagrams, selections, fades] at most, from
                 \* the flight controller, by other threads, of the signal

ASSUME AirUnitAssumption ==
  /\ "zero" \in Attitude /\ Attitude \subseteq {"zero", "level", "right", "left"}
  /\ Signals \subseteq [a : 0 .. 255, b : 0 .. 255] /\ Signals # {}
  /\ MbSize \in Nat \ {0} /\ SemValues \in Nat \ {0} /\ Polls \in Nat
  /\ Budgets \subseteq [datagrams : Nat, selections : Nat, fades : Nat]

VARIABLES
  at,             \* where each thread is
  polls,          \* timeout of init_thread_entry
  mb_spi_dev, sem_attitude_change, sem_linkhub_tx,
  socket,         \* the datagram that waits for the flight controller's thread
  mav_message,    \* the message that was completed last
  attitude,
  truck_send_buf, \* the position to forward; truck_len is its length
  sendto_len,     \* the position whose length linkhub has read for sendto
  forwarded,      \* <<length, contents>> of the position sent last
  dev_status_buf, \* [ldpc_pass, rest]: which reading each comes from
  signal, antenna,\* of the baseband
  round,          \* history: did an order or another thread's selection fall
                  \* into the antenna thread's round
  budget          \* what the bounds still allow

startVars == <<polls>>
positionVars == <<sem_linkhub_tx, truck_send_buf, sendto_len, forwarded>>
fcVars == <<socket, mav_message, attitude, sem_attitude_change>>
statusVars == <<dev_status_buf, mb_spi_dev>>
antennaVars == <<signal, antenna, round>>
vars == <<at, startVars, positionVars, fcVars, statusVars, antennaVars, budget>>

Thread == {"init", "antenna", "ground", "fc", "linkhub"}

(* Mutant: the sender of the status shares the time of the thread that     *)
(* reads it.                                                               *)
PriorityGroundEqual ==
  [t \in Thread |-> CASE t = "init" -> 8 [] t = "antenna" -> 11 [] t = "ground" -> 11
                      [] t = "fc" -> 14 [] t = "linkhub" -> 15]

(* Mutant: a thread comes before the one that starts it. *)
PriorityLinkhubFirst ==
  [t \in Thread |-> CASE t = "init" -> 8 [] t = "antenna" -> 11 [] t = "ground" -> 13
                      [] t = "fc" -> 14 [] t = "linkhub" -> 7]

(* 0 would be the highest. *)
Priority ==
  [t \in Thread |-> CASE t = "init" -> 8 [] t = "antenna" -> 11 [] t = "ground" -> 13
                      [] t = "fc" -> 14 [] t = "linkhub" -> 15]

Place ==
  [init |-> {"fc", "ground", "linkhub", "sem_linkhub_tx", "delay", "poll", "poll delay",
           "devices", "mb_spi_dev", "sem_attitude_change", "antenna", "done"},
   antenna |-> {"off", "request", "ldpc_pass", "rest", "attitude", "no imu", "weak",
              "mail", "delay"},
   ground |-> {"off", "receive", "waiting", "send"},
   fc |-> {"off", "receive", "delay"},
   linkhub |-> {"off", "take", "waiting", "load", "send"}]

Antenna == {0, 1, 3}

Msg(id, of) == [id |-> id, of |-> of]
Message ==
  [id : {"attitude"}, of : Attitude] \cup [id : {"position"}, of : Position]
    \cup {Msg("other", "-")}
Nothing == Msg("none", "-")   \* in the socket
Part == Msg("part", "-")      \* a datagram that completes no message

NoPosition == "none"

(* A reading is what the baseband answers to a request of its status.      *)
Reading == [a : 0 .. 255, b : 0 .. 255, current_ant : Antenna]
Address == [a |-> 0, b |-> 0, current_ant |-> 9]  \* no reading: a pointer
ReadingNow == [a |-> signal.a, b |-> signal.b, current_ant |-> antenna]
Status(p, r) == [ldpc_pass |-> p, rest |-> r]
Zeros == [a |-> 0, b |-> 0, current_ant |-> 0]

Round(t, d) == [triggered |-> t, disturbed |-> d]

Init ==
  /\ at = [t \in Thread |-> IF t = "init" THEN "fc" ELSE "off"]
  /\ polls = 0
  /\ mb_spi_dev = Zeroed /\ sem_attitude_change = Zeroed /\ sem_linkhub_tx = Zeroed
  /\ socket = Nothing /\ mav_message = Msg("other", "-") /\ attitude = "zero"
  /\ truck_send_buf = NoPosition /\ sendto_len = NoPosition
  /\ forwarded = <<NoPosition, NoPosition>>
  /\ dev_status_buf = Status(Zeros, Zeros)
  /\ signal \in Signals /\ antenna = 0
  /\ round = Round(FALSE, FALSE)
  /\ budget \in Budgets

TypeOK ==
  /\ \A t \in Thread : at[t] \in Place[t]
  /\ polls \in 0 .. Polls
  /\ mb_spi_dev \in IpcObject /\ mb_spi_dev.value <= MbSize
  /\ sem_attitude_change \in IpcObject /\ sem_attitude_change.value < SemValues
  /\ sem_linkhub_tx \in IpcObject /\ sem_linkhub_tx.value < SemValues
  /\ socket \in Message \cup {Nothing, Part} /\ mav_message \in Message
  /\ attitude \in Attitude
  /\ {truck_send_buf, sendto_len} \subseteq Position \cup {NoPosition}
  /\ signal \in Signals /\ antenna \in Antenna
  /\ dev_status_buf.ldpc_pass \in Reading \cup {Address}
  /\ dev_status_buf.rest \in Reading
-----------------------------------------------------------------------------
(* The scheduler. *)

Ready(t) ==
  /\ at[t] \notin {"off", "done", "delay", "poll delay", "waiting"}
  /\ t = "fc" => socket # Nothing

Runs(t) ==
  /\ Ready(t)
  /\ \A u \in Thread : Ready(u) => Priority[t] <= Priority[u]

(* Thread t goes on from one place to another. *)
Goes(t, from, to) ==
  /\ at[t] = from /\ Runs(t)
  /\ at' = [at EXCEPT ![t] = to]

(* Its timer ends a delay. *)
DelayEnds(t, from, to) ==
  /\ at[t] = from
  /\ at' = [at EXCEPT ![t] = to]
-----------------------------------------------------------------------------
(* init_thread_entry, and udp_connect_init, which it calls. *)

Starts(t, from, first, to) ==
  /\ at["init"] = from /\ Runs("init")
  /\ at' = [at EXCEPT !["init"] = to, ![t] = first]
  /\ UNCHANGED <<startVars, positionVars, fcVars, statusVars, antennaVars, budget>>

StartsUdp ==
  \/ Starts("fc", "fc", "receive", "ground")
  \/ Starts("ground", "ground", "receive", "linkhub")
  \/ Starts("linkhub", "linkhub", "take", "sem_linkhub_tx")

InitialisesLinkhub ==
  /\ Goes("init", "sem_linkhub_tx", "delay")
  /\ sem_linkhub_tx' = Initialised(sem_linkhub_tx)
  /\ UNCHANGED <<startVars, truck_send_buf, sendto_len, forwarded, fcVars, statusVars,
                 antennaVars, budget>>

(* Three seconds later, and ten ticks after each poll that failed; the     *)
(* start is given up after the last of them.                               *)
InitDelayEnds ==
  /\ \/ DelayEnds("init", "delay", "poll") /\ UNCHANGED polls
     \/ DelayEnds("init", "poll delay", "poll") /\ polls < Polls /\ polls' = polls + 1
     \/ DelayEnds("init", "poll delay", "done") /\ polls = Polls /\ polls' = 0
  /\ UNCHANGED <<positionVars, fcVars, statusVars, antennaVars, budget>>

(* get_fpga_config_status; then the bus, the flash and the UARTs, any of   *)
(* which may fail.                                                         *)
PollsFpga ==
  /\ \/ Goes("init", "poll", "devices") /\ polls' = 0
     \/ Goes("init", "poll", "poll delay") /\ UNCHANGED polls
     \/ Goes("init", "devices", "mb_spi_dev") /\ UNCHANGED polls
     \/ Goes("init", "devices", "done") /\ UNCHANGED polls
  /\ UNCHANGED <<positionVars, fcVars, statusVars, antennaVars, budget>>

InitialisesMailbox ==
  /\ Goes("init", "mb_spi_dev", "sem_attitude_change")
  /\ mb_spi_dev' = Initialised(mb_spi_dev)
  /\ UNCHANGED <<startVars, positionVars, fcVars, dev_status_buf, antennaVars, budget>>

InitialisesAttitude ==
  /\ Goes("init", "sem_attitude_change", "antenna")
  /\ sem_attitude_change' = Initialised(sem_attitude_change)
  /\ UNCHANGED <<startVars, positionVars, socket, mav_message, attitude, statusVars,
                 antennaVars, budget>>

StartsAntenna == Starts("antenna", "antenna", "request", "done")

InitThread ==
  \/ StartsUdp \/ InitialisesLinkhub \/ PollsFpga \/ InitialisesMailbox
  \/ InitialisesAttitude \/ StartsAntenna
-----------------------------------------------------------------------------
(* UDP_fc_task.  Only the message a datagram completes last is handled; if *)
(* it completes none, the one before it is handled again.                  *)

Received == IF socket = Part THEN mav_message ELSE socket

Handles(id) ==
  /\ Goes("fc", "receive", "delay")
  /\ Received.id = id
  /\ mav_message' = Received
  /\ socket' = Nothing
  /\ UNCHANGED <<startVars, sendto_len, forwarded, statusVars, antennaVars, budget>>

(* An attitude that differs from the last wakes nobody: the antenna thread *)
(* looks for the token.                                                    *)
HandlesAttitude ==
  /\ Handles("attitude")
  /\ attitude' = Received.of
  /\ sem_attitude_change' = IF Received.of = attitude THEN sem_attitude_change
                            ELSE Released(sem_attitude_change, SemValues)
  /\ UNCHANGED <<sem_linkhub_tx, truck_send_buf>>

(* The position to forward takes the place of the one before. *)
HandlesPosition ==
  /\ at["fc"] = "receive" /\ Runs("fc") /\ Received.id = "position"
  /\ mav_message' = Received
  /\ socket' = Nothing
  /\ truck_send_buf' = Received.of
  /\ sem_linkhub_tx' = Released(sem_linkhub_tx, SemValues)
  /\ at' = [at EXCEPT !["fc"] = "delay",
                      !["linkhub"] = IF sem_linkhub_tx.waiter = "linked" THEN "load"
                                     ELSE at["linkhub"]]
  /\ UNCHANGED <<attitude, sem_attitude_change, startVars, sendto_len, forwarded,
                 statusVars, antennaVars, budget>>

HandlesOther ==
  /\ Handles("other")
  /\ UNCHANGED <<attitude, sem_attitude_change, sem_linkhub_tx, truck_send_buf>>

FcThread == HandlesAttitude \/ HandlesPosition \/ HandlesOther

FcDelayEnds ==
  /\ DelayEnds("fc", "delay", "receive")
  /\ UNCHANGED <<startVars, positionVars, fcVars, statusVars, antennaVars, budget>>
-----------------------------------------------------------------------------
(* UDP_linkhub_task: rt_sem_take with a timeout, and a sendto that is      *)
(* given the length of the position and refers to its contents.            *)

linkhubRest == <<startVars, fcVars, statusVars, antennaVars, budget, truck_send_buf>>

LinkhubTakes ==
  \/ /\ sem_linkhub_tx.value > 0 /\ Goes("linkhub", "take", "load")
     /\ sem_linkhub_tx' = Taken(sem_linkhub_tx)
     /\ UNCHANGED <<linkhubRest, sendto_len, forwarded>>
  \/ /\ sem_linkhub_tx.value = 0 /\ Goes("linkhub", "take", "waiting")
     /\ sem_linkhub_tx' = Suspended(sem_linkhub_tx)
     /\ UNCHANGED <<linkhubRest, sendto_len, forwarded>>

LinkhubTimesOut ==
  /\ DelayEnds("linkhub", "waiting", "take")
  /\ sem_linkhub_tx' = TimedOut(sem_linkhub_tx)
  /\ UNCHANGED <<linkhubRest, sendto_len, forwarded>>

LinkhubLoads ==
  /\ Goes("linkhub", "load", "send")
  /\ sendto_len' = truck_send_buf
  /\ UNCHANGED <<linkhubRest, sem_linkhub_tx, forwarded>>

LinkhubSends ==
  /\ Goes("linkhub", "send", "take")
  /\ forwarded' = <<sendto_len, truck_send_buf>>
  /\ sendto_len' = NoPosition
  /\ UNCHANGED <<linkhubRest, sem_linkhub_tx>>

LinkhubThread == LinkhubTakes \/ LinkhubLoads \/ LinkhubSends
-----------------------------------------------------------------------------
(* UDP_ground_task: rt_mb_recv with a timeout stores the mail, a pointer,  *)
(* at the beginning of the status; sendto refers to the whole of it.       *)

groundRest == <<startVars, positionVars, fcVars, antennaVars, budget>>

GroundReceives ==
  \/ /\ mb_spi_dev.value > 0 /\ Goes("ground", "receive", "send")
     /\ mb_spi_dev' = Taken(mb_spi_dev)
     /\ dev_status_buf' = Status(Address, dev_status_buf.rest)
     /\ UNCHANGED groundRest
  \/ /\ mb_spi_dev.value = 0 /\ Goes("ground", "receive", "waiting")
     /\ mb_spi_dev' = Suspended(mb_spi_dev)
     /\ UNCHANGED <<groundRest, dev_status_buf>>

(* Mutant: rt_mb_recv waits for ever. *)
GroundWaits ==
  /\ DelayEnds("ground", "waiting", "receive") /\ mb_spi_dev.list = "null"
  /\ mb_spi_dev' = TimedOut(mb_spi_dev)
  /\ UNCHANGED <<groundRest, dev_status_buf>>

GroundTimesOut ==
  /\ DelayEnds("ground", "waiting", "receive")
  /\ mb_spi_dev' = TimedOut(mb_spi_dev)
  /\ UNCHANGED <<groundRest, dev_status_buf>>

GroundSends ==
  /\ Goes("ground", "send", "receive")
  /\ UNCHANGED <<groundRest, statusVars>>

GroundThread == GroundReceives \/ GroundSends
-----------------------------------------------------------------------------
(* antenna_swtich_task: request the status, apply up to three rules to it, *)
(* mail it.  The buffer is filled byte by byte while the bus is polled.    *)

antennaRest == <<startVars, positionVars, socket, mav_message, attitude, budget>>

AntennaRequests ==
  /\ Goes("antenna", "request", "ldpc_pass")
  /\ round' = Round(FALSE, FALSE)
  /\ UNCHANGED <<antennaRest, sem_attitude_change, statusVars, signal, antenna>>

AntennaFills ==
  /\ \/ /\ Goes("antenna", "ldpc_pass", "rest")
        /\ dev_status_buf' = Status(ReadingNow, dev_status_buf.rest)
     \/ /\ Goes("antenna", "rest", "attitude")
        /\ dev_status_buf' = Status(dev_status_buf.ldpc_pass, ReadingNow)
  /\ UNCHANGED <<antennaRest, sem_attitude_change, mb_spi_dev, antennaVars>>

(* What a rule orders: an antenna, none if it is the current one already.  *)
None == 9
Unless(n, s) == IF s.current_ant = n THEN None ELSE n

(* Mutant: the left turn's test has the antennas of the right turn's.      *)
ByAttitudeCopied(roll, s) ==
  CASE roll = "right" -> IF s.b - s.a > 2 THEN Unless(1, s) ELSE 3
    [] roll = "left" -> IF s.b - s.a > 2 THEN Unless(3, s) ELSE 1
    [] OTHER -> IF s.a - s.b >= 2 THEN Unless(3, s)
                ELSE IF s.b - s.a >= 2 THEN Unless(1, s) ELSE None

ByAttitude(roll, s) ==
  CASE roll = "right" -> IF s.b - s.a > 2 THEN Unless(1, s) ELSE 3
    [] roll = "left" -> IF s.a - s.b > 2 THEN Unless(3, s) ELSE 1
    [] OTHER -> IF s.a - s.b >= 2 THEN Unless(3, s)
                ELSE IF s.b - s.a >= 2 THEN Unless(1, s) ELSE None

Weak(s) == s.a >= 85 /\ s.b >= 85

(* Mutant: the better of two weak antennas is taken for the worse. *)
WhenWeakSwapped(s) == IF s.a <= s.b THEN 3 ELSE 1

WhenWeak(s) == IF s.a >= s.b THEN 3 ELSE 1

(* A rule that applies may order an antenna, if_set_antenna_sw. *)
Orders(n) ==
  /\ antenna' = IF n = None THEN antenna ELSE n
  /\ round' = Round(TRUE, round.disturbed)

OrdersNothing == UNCHANGED <<antenna, round>>

(* After a change of the attitude: lean to the antenna that looks down.    *)
AttitudeRule ==
  /\ Goes("antenna", "attitude", "no imu")
  /\ \/ /\ sem_attitude_change.value > 0
        /\ sem_attitude_change' = Taken(sem_attitude_change)
        /\ Orders(ByAttitude(attitude, dev_status_buf.rest))
     \/ /\ sem_attitude_change.value = 0
        /\ UNCHANGED sem_attitude_change /\ OrdersNothing
  /\ UNCHANGED <<antennaRest, statusVars, signal>>

(* Without an attitude, in every round. *)
NoImuRule ==
  /\ Goes("antenna", "no imu", "weak")
  /\ IF attitude = "zero" THEN Orders(ByAttitude("level", dev_status_buf.rest))
     ELSE OrdersNothing
  /\ UNCHANGED <<antennaRest, sem_attitude_change, statusVars, signal>>

(* When both signals are weak, in every round. *)
WeakRule ==
  /\ Goes("antenna", "weak", "mail")
  /\ IF Weak(dev_status_buf.rest) THEN Orders(WhenWeak(dev_status_buf.rest))
     ELSE OrdersNothing
  /\ UNCHANGED <<antennaRest, sem_attitude_change, statusVars, signal>>

(* Mutant: the mailbox is not tested for room. *)
AntennaMailsAnyway ==
  /\ Goes("antenna", "mail", "delay")
  /\ mb_spi_dev' = Sent(mb_spi_dev)
  /\ UNCHANGED <<antennaRest, sem_attitude_change, dev_status_buf, antennaVars>>

(* rt_mb_send; its result is not looked at. *)
AntennaMails ==
  /\ at["antenna"] = "mail" /\ Runs("antenna")
  /\ at' = [at EXCEPT !["antenna"] = "delay",
                      !["ground"] = IF mb_spi_dev.waiter = "linked" THEN "receive"
                                    ELSE at["ground"]]
  /\ mb_spi_dev' = IF mb_spi_dev.value = MbSize THEN mb_spi_dev ELSE Sent(mb_spi_dev)
  /\ UNCHANGED <<antennaRest, sem_attitude_change, dev_status_buf, antennaVars>>

AntennaThread ==
  \/ AntennaRequests \/ AntennaFills \/ AttitudeRule \/ NoImuRule \/ WeakRule
  \/ AntennaMails

AntennaDelayEnds ==
  /\ DelayEnds("antenna", "delay", "request")
  /\ UNCHANGED <<startVars, positionVars, fcVars, statusVars, antennaVars, budget>>
-----------------------------------------------------------------------------
(* The world around. *)

(* A datagram; the socket has room for one. *)
DatagramArrives(d) ==
  /\ budget.datagrams > 0 /\ at["fc"] # "off" /\ socket = Nothing
  /\ socket' = d
  /\ budget' = [budget EXCEPT !.datagrams = @ - 1]
  /\ UNCHANGED <<at, startVars, positionVars, mav_message, attitude, sem_attitude_change,
                 statusVars, antennaVars>>

(* Another thread selects an antenna: udp_connect.c:372,                   *)
(* uart_protocol.c:439, the web page.  The antenna thread is away, or      *)
(* waits for the bus.                                                      *)
SelectsElsewhere(n) ==
  /\ budget.selections > 0
  /\ at["antenna"] \notin {"ldpc_pass", "rest", "mail"}
  /\ antenna' = n
  /\ round' = Round(round.triggered, TRUE)
  /\ budget' = [budget EXCEPT !.selections = @ - 1]
  /\ UNCHANGED <<at, startVars, positionVars, fcVars, statusVars, signal>>

(* The baseband answers a request with what it measured before it. *)
Fades(s) ==
  /\ budget.fades > 0 /\ s # signal
  /\ at["antenna"] \notin {"ldpc_pass", "rest"}
  /\ signal' = s
  /\ budget' = [budget EXCEPT !.fades = @ - 1]
  /\ UNCHANGED <<at, startVars, positionVars, fcVars, statusVars, antenna, round>>

World ==
  \/ \E d \in Message \cup {Part} : DatagramArrives(d)
  \/ \E n \in Antenna : SelectsElsewhere(n)
  \/ \E s \in Signals : Fades(s)

Next ==
  \/ InitThread \/ FcThread \/ LinkhubThread \/ GroundThread \/ AntennaThread
  \/ InitDelayEnds \/ FcDelayEnds \/ LinkhubTimesOut \/ GroundTimesOut
  \/ AntennaDelayEnds \/ World

Spec == Init /\ [][Next]_vars

(* The threads have little to do: again and again none of them is ready,   *)
(* and the idle thread of the kernel runs.  Timers run out.                *)
Idle == \A t \in Thread : ~Ready(t)

FairSpec ==
  /\ Spec
  /\ []<>Idle
  /\ WF_vars(InitDelayEnds) /\ WF_vars(AntennaDelayEnds) /\ WF_vars(FcDelayEnds)
  /\ WF_vars(GroundTimesOut) /\ WF_vars(LinkhubTimesOut)
-----------------------------------------------------------------------------
(* While an object is not initialised:                                     *)
(*   - no thread that takes or releases sem_linkhub_tx runs, although it   *)
(*     is initialised (udp_connect.c:123) after those were started, and it *)
(*     never has a stray waiter;                                           *)
(*   - mb_spi_dev is sent no mail; the ground thread may wait on it, as    *)
(*     nothing but a stray (:279 runs before application.c:124);           *)
(*   - nothing looks for a token in sem_attitude_change; the flight        *)
(*     controller's thread may release it (:570 before application.c:125), *)
(*     which leaves it as it is: that change of the attitude is lost.      *)
UsedWhenReady ==
  /\ sem_linkhub_tx.list = "null" =>
       sem_linkhub_tx = Zeroed /\ ~Runs("linkhub") /\ ~Runs("fc")
  /\ sem_linkhub_tx.list # "cut" /\ sem_linkhub_tx.waiter # "stray"
  /\ mb_spi_dev.list = "null" =>
       at["antenna"] = "off" /\ mb_spi_dev.value = 0 /\ mb_spi_dev.waiter # "linked"
  /\ sem_attitude_change.list = "null" =>
       at["antenna"] = "off" /\ sem_attitude_change = Zeroed

(* What udp_connect.c:281 sends is one reading of the status, its first    *)
(* field overwritten by rt_mb_recv or filled again since: never parts of   *)
(* two readings, although the antenna thread refills the buffer at will.   *)
StatusOfOneReading ==
  [][GroundSends => dev_status_buf.ldpc_pass \in {Address, dev_status_buf.rest}]_vars

(* The antennas that are weaker than the other by more than 2. *)
Weaker(s) == {n \in {1, 3} : IF n = 1 THEN s.a - s.b > 2 ELSE s.b - s.a > 2}

(* The three rules of a round may order one antenna and then the other;    *)
(* after a round in which one of them applied, and no other thread         *)
(* selected an antenna, the unit is not on the weaker one of the status.   *)
RoundEndsOnBetter ==
  at["antenna"] = "mail" /\ round.triggered /\ ~round.disturbed =>
    antenna \notin Weaker(dev_status_buf.rest)

(* A rule applies in this round. *)
RuleApplies ==
  /\ at["antenna"] = "attitude"
  /\ \/ sem_attitude_change.value > 0 \/ attitude = "zero"
     \/ Weak(dev_status_buf.rest)

(* While the signal stays as it is and rules apply again and again, the    *)
(* unit comes to the better antenna and stays there, whichever antenna     *)
(* another thread selected after the status was read (antenna_sw.c:45).    *)
AntennaSettles ==
  \A s \in Signals :
    <>[](signal = s) /\ []<>RuleApplies => <>[](antenna \notin Weaker(s))

(* When no other position comes, the last that was filled into the one     *)
(* buffer is what was sent last, with its own length, although it may have *)
(* replaced the one before while that was being sent (udp_connect.c:578).  *)
LatestPositionSent ==
  \A p \in Position : <>[](truck_send_buf = p) => <>[](forwarded = <<p, p>>)

(* A status in the mailbox is received, also by a thread that no mail      *)
(* wakes because it waited when the mailbox was initialised                *)
(* (application.c:124).                                                    *)
StatusReceived == mb_spi_dev.value > 0 ~> at["ground"] = "send"
=============================================================================
