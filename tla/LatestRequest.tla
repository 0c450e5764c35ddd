---------------------------- MODULE LatestRequest ----------------------------
(***************************************************************************)
(* What the remote configuration promises: the air unit carries out some   *)
(* of the user's requests, whole, in the order they were made.  It may     *)
(* carry out one again and skip some, but never goes back to an earlier    *)
(* one.  Of a request the packet cannot carry it promises no more than     *)
(* that one setting changes at most.                                       *)
(***************************************************************************)
EXTENDS ConfigPacket

CONSTANT Requests      \* what users may ask for

VARIABLES
  requests,   \* what the user asked for, in order
  last,       \* the request carried out last
  device      \* the settings of the air unit

dvars == <<requests, last, device>>

Unset == -1

DInit ==
  /\ requests = <<>>
  /\ last = 0
  /\ device = [s \in Setting |-> Unset]

Ask(q) ==
  /\ requests' = Append(requests, q)
  /\ UNCHANGED <<last, device>>

CarryOut(j) ==
  /\ last' = j
  /\ LET q == requests[j]
     IN IF Carried(q)
          THEN device' = [device EXCEPT ![q.setting] = Meaning(q).value]
          ELSE \E s \in Setting :
                 \A t \in Setting \ {s} : device'[t] = device[t]
  /\ UNCHANGED requests

DNext ==
  \/ \E q \in Requests : Ask(q)
  \/ \E j \in 1 .. Len(requests) : j >= last /\ CarryOut(j)

DSpec == DInit /\ [][DNext]_dvars
=============================================================================
