---------------------------- MODULE RemoteConfig ----------------------------
(***************************************************************************)
(* A user sets the air unit through the web page of the ground unit.  The  *)
(* CGI handlers run in lwIP's thread, fill the one buffer AirTxBuf and     *)
(* release sem_cgi_set; UDP_ground_task takes it and sends the buffer.     *)
(* lwIP does not copy the buffer when sendto is called: its own thread     *)
(* reads it when it gets to the call (netbuf_ref, sockets.c), so a packet  *)
(* is what the buffer holds then and no handler runs meanwhile.  In the    *)
(* air unit the socket holds one datagram while UDP_recvcgi_task carries   *)
(* out another.                                                            *)
(***************************************************************************)
EXTENDS ConfigPacket

CONSTANTS
  Inputs,          \* the requests users make
  MaxRequests,     \* bound: requests in a behaviour
  RECVMBOX_SIZE    \* DEFAULT_UDP_RECVMBOX_SIZE

ASSUME RemoteAssumption ==
  /\ Inputs \subseteq Request
  /\ MaxRequests \in Nat
  /\ RECVMBOX_SIZE \in Nat \ {0}

VARIABLES
  requests,      \* those a handler accepted
  AirTxBuf,
  sem_cgi_set,
  ground,        \* where UDP_ground_task is
  link,          \* datagrams on their way
  recvmbox,      \* datagrams the socket of the air unit holds
  udp_rcv_buf,
  air,           \* where UDP_recvcgi_task is
  executed,      \* the last request the air unit dealt with, and the call
  device,        \* what the setters of the air unit were last called with
  lost           \* a datagram has been lost

vars == <<requests, AirTxBuf, sem_cgi_set, ground, link, recvmbox,
          udp_rcv_buf, air, executed, device, lost>>

(* no is not in the packet: it names the request it was made for. *)
Datagram == [no : Nat, buf : Packet]

Unset == -1

Init ==
  /\ requests = <<>>
  /\ AirTxBuf = Zeros
  /\ sem_cgi_set = 0 /\ ground = "take"
  /\ link = <<>> /\ recvmbox = <<>>
  /\ udp_rcv_buf = [no |-> 0, buf |-> Zeros] /\ air = "recvfrom"
  /\ executed = [no |-> 0, call |-> NoCall]
  /\ device = [s \in Setting |-> Unset]
  /\ lost = FALSE

airvars == <<udp_rcv_buf, air, executed, device>>
-----------------------------------------------------------------------------
(* Ground unit. *)

Overlaid(q) == [i \in Index |-> IF Encode(q)[i] # 0 THEN Encode(q)[i]
                                                    ELSE AirTxBuf[i]]

(* What a handler does to the buffer: it clears it first. *)
Filled(q) == Encode(q)

SubmitUnannounced(q) ==
  /\ Len(requests) < MaxRequests
  /\ Accepted(q)
  /\ requests' = Append(requests, q)
  /\ AirTxBuf' = Filled(q)
  /\ sem_cgi_set' = IF Filled(q) = Zeros THEN sem_cgi_set ELSE sem_cgi_set + 1
  /\ UNCHANGED <<ground, link, recvmbox, airvars, lost>>

(* AIRTXFREQ_CGI_Handler and its four siblings. *)
Submit(q) ==
  /\ Len(requests) < MaxRequests
  /\ Accepted(q)
  /\ requests' = Append(requests, q)
  /\ AirTxBuf' = Filled(q)
  /\ sem_cgi_set' = sem_cgi_set + 1
  /\ UNCHANGED <<ground, link, recvmbox, airvars, lost>>

(* A time-out of 50 ticks only leads to the same wait. *)
GroundTake ==
  /\ ground = "take"
  /\ sem_cgi_set > 0
  /\ sem_cgi_set' = sem_cgi_set - 1
  /\ ground' = "sendto"
  /\ UNCHANGED <<requests, AirTxBuf, link, recvmbox, airvars, lost>>

(* lwIP's thread gets to the call of sendto. *)
GroundSend ==
  /\ ground = "sendto"
  /\ link' = Append(link, [no |-> Len(requests), buf |-> AirTxBuf])
  /\ ground' = "take"
  /\ UNCHANGED <<requests, AirTxBuf, sem_cgi_set, recvmbox, airvars, lost>>
-----------------------------------------------------------------------------
(* The radio link and the socket of the air unit. *)

LinkLoses ==
  /\ link # <<>>
  /\ link' = Tail(link)
  /\ lost' = TRUE
  /\ UNCHANGED <<requests, AirTxBuf, sem_cgi_set, ground, recvmbox, airvars>>

DeliverFirst ==
  /\ link # <<>>
  /\ link' = Tail(link)
  /\ recvmbox' = <<Head(link)>> \o recvmbox
  /\ UNCHANGED <<requests, AirTxBuf, sem_cgi_set, ground, airvars, lost>>
DeliverUnlimited ==
  /\ link # <<>>
  /\ link' = Tail(link)
  /\ recvmbox' = Append(recvmbox, Head(link))
  /\ UNCHANGED <<requests, AirTxBuf, sem_cgi_set, ground, airvars, lost>>

(* recv_udp: a datagram that finds the mailbox full is dropped.             *)
Deliver ==
  /\ link # <<>>
  /\ link' = Tail(link)
  /\ IF Len(recvmbox) < RECVMBOX_SIZE
       THEN recvmbox' = Append(recvmbox, Head(link)) /\ UNCHANGED lost
       ELSE lost' = TRUE /\ UNCHANGED recvmbox
  /\ UNCHANGED <<requests, AirTxBuf, sem_cgi_set, ground, airvars>>
-----------------------------------------------------------------------------
(* Air unit. *)

Receive ==
  /\ air = "recvfrom"
  /\ recvmbox # <<>>
  /\ udp_rcv_buf' = Head(recvmbox)
  /\ recvmbox' = Tail(recvmbox)
  /\ air' = "switch"
  /\ UNCHANGED <<requests, AirTxBuf, sem_cgi_set, ground, link, executed,
                 device, lost>>

(* The switch; whether the device takes the setting is only printed. *)
Execute ==
  /\ air = "switch"
  /\ LET call == Decode(udp_rcv_buf.buf)
     IN /\ executed' = [no |-> udp_rcv_buf.no, call |-> call]
        /\ device' = IF call = NoCall THEN device
                     ELSE [device EXCEPT ![call.setting] = call.value]
  /\ air' = "recvfrom"
  /\ UNCHANGED <<requests, AirTxBuf, sem_cgi_set, ground, link, recvmbox,
                 udp_rcv_buf, lost>>

Next ==
  \/ \E q \in Inputs : Submit(q)
  \/ GroundTake \/ GroundSend
  \/ LinkLoses \/ Deliver
  \/ Receive \/ Execute

Spec == Init /\ [][Next]_vars

(* Both threads and lwIP's run when nothing of a higher priority does, and *)
(* a link that does not lose a datagram delivers it.                       *)
Fairness ==
  /\ WF_vars(GroundTake) /\ WF_vars(GroundSend)
  /\ WF_vars(Deliver)
  /\ WF_vars(Receive) /\ WF_vars(Execute)

FairSpec == Spec /\ Fairness
-----------------------------------------------------------------------------
TypeOK ==
  /\ requests \in Seq(Request)
  /\ AirTxBuf \in Packet
  /\ sem_cgi_set \in Nat
  /\ ground \in {"take", "sendto"}
  /\ link \in Seq(Datagram) /\ recvmbox \in Seq(Datagram)
  /\ Len(recvmbox) <= RECVMBOX_SIZE
  /\ udp_rcv_buf \in Datagram
  /\ air \in {"recvfrom", "switch"}
  /\ executed \in [no : Nat, call : Calls]
  /\ device \in [Setting -> Nat \cup {Unset}]
  /\ lost \in BOOLEAN

(* A datagram is one request, whole, however the handlers and the sender   *)
(* interleave: never digits of two requests (AirTxBuf has no lock).        *)
IsWhole(d) == d.no \in 1 .. Len(requests) /\ d.buf = Encode(requests[d.no])

WholeRequests ==
  /\ \A i \in 1 .. Len(link) : IsWhole(link[i])
  /\ \A i \in 1 .. Len(recvmbox) : IsWhole(recvmbox[i])
  /\ air = "switch" => IsWhole(udp_rcv_buf)

(* What the air unit calls for a request the packet can carry is what the  *)
(* user asked for: encoder and decoder, written for two programs, agree.   *)
AppliedAsMeant ==
  executed.no > 0 =>
    LET q == requests[executed.no]
    IN Carried(q) => executed.call = Meaning(q)

(* The antenna selected at the air unit is the one the user chose ("send   *)
(* antsel %d", httpd_cgi_ssi.c of the ground unit).                        *)
AntennaAsMeant ==
  executed.no > 0 =>
    LET q == requests[executed.no]
    IN Proper(q) /\ q.setting = ANTENNA => executed.call = Meaning(q)

(* Every setting the air unit makes is a request of the user, whole, and   *)
(* in order: an old request is never carried out after a newer one.        *)
Abstract == INSTANCE LatestRequest
              WITH Requests <- Inputs, last <- executed.no
LatestRequestSpec == Abstract!DSpec

(* If nothing is lost, the air unit comes to the user's last request and   *)
(* stays there: no release of sem_cgi_set is forgotten.                    *)
LastRequestHandled ==
  [](~lost) => <>[](executed.no = Len(requests))

(* AirTxBuf holds the last request, and nobody takes the semaphore before  *)
(* there is one.                                                           *)
BufferIsLast ==
  /\ \A i \in 1 .. Len(requests) : Accepted(requests[i])
  /\ requests # <<>> => AirTxBuf = Encode(requests[Len(requests)])
  /\ sem_cgi_set > 0 \/ ground = "sendto" => requests # <<>>

(* What was executed was decoded from a request. *)
ExecutedIsDecoded ==
  /\ executed.no \in 0 .. Len(requests)
  /\ executed.no > 0 =>
       executed.call = Decode(Encode(requests[executed.no]))

(* Datagrams wait in the order of their requests, oldest at the air unit.  *)
AtAir == IF air = "switch" THEN udp_rcv_buf.no ELSE executed.no

Ordered ==
  /\ executed.no <= AtAir
  /\ \A i \in 1 .. Len(recvmbox) : AtAir <= recvmbox[i].no
  /\ \A i \in 1 .. Len(link) : AtAir <= link[i].no
  /\ \A i \in 1 .. Len(recvmbox), j \in 1 .. Len(link) :
       recvmbox[i].no <= link[j].no
  /\ \A i, j \in 1 .. Len(recvmbox) : i < j => recvmbox[i].no <= recvmbox[j].no
  /\ \A i, j \in 1 .. Len(link) : i < j => link[i].no <= link[j].no

(* The inductive invariant. *)
RemoteInv ==
  TypeOK /\ WholeRequests /\ BufferIsLast /\ ExecutedIsDecoded /\ Ordered
=============================================================================
