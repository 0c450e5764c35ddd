-------------------------- MODULE RemoteConfigProof --------------------------
(***************************************************************************)
(* For any number of requests, any texts and any size of the socket's      *)
(* mailbox: a datagram is one request, whole, and what the air unit calls  *)
(* for a request the packet can carry is what the user meant.              *)
(***************************************************************************)
EXTENDS RemoteConfig, TLAPS
-----------------------------------------------------------------------------
(* Encoder and decoder. *)

(* Encode yields a packet. *)
LEMMA EncodeType ==
  ASSUME NEW q \in Request, Accepted(q)
  PROVE  Encode(q) \in Packet
<1> DEFINE t == q.text
<1>1. /\ q.setting \in Setting /\ t \in Seq(Digit)
  BY DEF Request
<1>2. ASSUME NEW a \in 0 .. 15 PROVE Place(t, a) \in Packet
  <2>1. ASSUME NEW i \in Index, i - a \in 0 .. Len(t) - 1
        PROVE  t[i - a + 1] \in Digit
    BY <1>1, <2>1 DEF Index, PacketLength
  <2> QED  BY <2>1 DEF Place, Packet, Digit
<1>3. Zeros \in Packet
  BY DEF Zeros, Packet, Digit
<1>4. CASE q.setting \in {TX_FREQ, RX_FREQ}
  BY <1>2, <1>4 DEF Encode, TX_FREQ, RX_FREQ, TX_POWER, DOWNLINK, ANTENNA
<1>5. CASE q.setting = TX_POWER
  <2>1. ASSUME NEW n \in {4, 5} PROVE 13 - n \in 0 .. 15
    OBVIOUS
  <2> QED
    BY <1>2, <1>3, <1>5, <2>1
    DEF Encode, TX_FREQ, RX_FREQ, TX_POWER, DOWNLINK, ANTENNA
<1>6. CASE q.setting \in {DOWNLINK, ANTENNA}
  BY <1>2, <1>6 DEF Encode, TX_FREQ, RX_FREQ, TX_POWER, DOWNLINK, ANTENNA
<1> QED  BY <1>1, <1>4, <1>5, <1>6 DEF Setting

(* A packet has one first byte that is not zero, so the switch has one     *)
(* case for it.                                                            *)
LEMMA OneLeader ==
  ASSUME NEW b \in Packet, NEW m \in 0 .. 16, NEW n \in 0 .. 16,
         LeadsAt(b, m), LeadsAt(b, n)
  PROVE  m = n
BY DEF LeadsAt, PacketLength

(* The case of the switch that the five kinds of request come to. *)
LEMMA DecodeCases ==
  ASSUME NEW b \in Packet
  PROVE  /\ LeadsAt(b, 0) => Decode(b) =
              Call(TX_FREQ, b[0] * 1000 + b[1] * 100 + b[2] * 10 + b[3])
         /\ LeadsAt(b, 4) => Decode(b) =
              Call(RX_FREQ, b[4] * 1000 + b[5] * 100 + b[6] * 10 + b[7])
         /\ LeadsAt(b, 8) => Decode(b) =
              Call(TX_POWER, b[8] * 10000 + b[9] * 1000 + b[10] * 100
                               + b[11] * 10 + b[12])
         /\ LeadsAt(b, 9) => Decode(b) =
              Call(TX_POWER, b[9] * 1000 + b[10] * 100 + b[11] * 10 + b[12])
         /\ LeadsAt(b, 14) => Decode(b) = Call(DOWNLINK, b[14])
         /\ LeadsAt(b, 16) => Decode(b) = Call(DOWNLINK, 0)
<1>1. \A m, n \in 0 .. 16 : LeadsAt(b, m) /\ LeadsAt(b, n) => m = n
  BY OneLeader
<1>2. {0, 4, 8, 9, 13, 14, 15, 16} \subseteq 0 .. 16
  OBVIOUS
<1> HIDE DEF LeadsAt
<1>3. \A m, n \in {0, 4, 8, 9, 13, 14, 15, 16} :
        LeadsAt(b, m) /\ m # n => ~LeadsAt(b, n)
  BY <1>1, <1>2
<1>4. CASE LeadsAt(b, 0)  BY <1>3, <1>4 DEF Decode
<1>5. CASE LeadsAt(b, 4)  BY <1>3, <1>5 DEF Decode
<1>6. CASE LeadsAt(b, 8)  BY <1>3, <1>6 DEF Decode
<1>7. CASE LeadsAt(b, 9)  BY <1>3, <1>7 DEF Decode
<1>8. CASE LeadsAt(b, 14) BY <1>3, <1>8 DEF Decode
<1>9. CASE LeadsAt(b, 16) BY <1>3, <1>9 DEF Decode
<1> QED  BY <1>3, <1>4, <1>5, <1>6, <1>7, <1>8, <1>9

(* The two programs agree: what the air unit makes of the packet is what   *)
(* the user meant, for every request the packet can carry.                 *)
THEOREM CodecAgrees ==
  ASSUME NEW q \in Request, Accepted(q), Carried(q)
  PROVE  Decode(Encode(q)) = Meaning(q)
<1> DEFINE t == q.text
           b == Encode(q)
<1>1. /\ q.setting \in Setting /\ t \in Seq(Digit)
  BY DEF Request
<1>2. b \in Packet
  BY EncodeType
<1>3. \A i \in 1 .. Len(t) : t[i] \in 0 .. 9
  BY <1>1 DEF Digit
<1> USE DEF TX_FREQ, RX_FREQ, TX_POWER, DOWNLINK, ANTENNA
<1>4. CASE q.setting = TX_FREQ
  <2>1. Len(t) = 4 /\ t[1] # 0
    BY <1>4 DEF Carried, Proper
  <2>2. b = Place(t, 0)
    BY <1>4 DEF Encode
  <2>3. b[0] = t[1] /\ b[1] = t[2] /\ b[2] = t[3] /\ b[3] = t[4]
    BY <2>1, <2>2 DEF Place, Index, PacketLength
  <2>4. LeadsAt(b, 0)
    BY <2>1, <2>3 DEF LeadsAt
  <2>5. Decode(b) = Call(TX_FREQ, t[1] * 1000 + t[2] * 100 + t[3] * 10 + t[4])
    BY <1>2, <2>3, <2>4, DecodeCases
  <2>6. Decimal(t) = t[1] * 1000 + t[2] * 100 + t[3] * 10 + t[4]
    BY <2>1 DEF Decimal
  <2> QED  BY <1>4, <2>5, <2>6 DEF Meaning
<1>5. CASE q.setting = RX_FREQ
  <2>1. Len(t) = 4 /\ t[1] # 0
    BY <1>5 DEF Carried, Proper
  <2>2. b = Place(t, 4)
    BY <1>5 DEF Encode
  <2>3. b[4] = t[1] /\ b[5] = t[2] /\ b[6] = t[3] /\ b[7] = t[4]
    BY <2>1, <2>2 DEF Place, Index, PacketLength
  <2>4. \A i \in 0 .. 3 : b[i] = 0
    BY <2>1, <2>2 DEF Place, Index, PacketLength
  <2>5. LeadsAt(b, 4)
    BY <2>1, <2>3, <2>4 DEF LeadsAt
  <2>6. Decode(b) = Call(RX_FREQ, t[1] * 1000 + t[2] * 100 + t[3] * 10 + t[4])
    BY <1>2, <2>3, <2>5, DecodeCases
  <2>7. Decimal(t) = t[1] * 1000 + t[2] * 100 + t[3] * 10 + t[4]
    BY <2>1 DEF Decimal
  <2> QED  BY <1>5, <2>6, <2>7 DEF Meaning
<1>6. CASE q.setting = TX_POWER /\ Len(t) = 4
  <2>1. t[1] # 0
    BY <1>6 DEF Carried, Proper
  <2>2. b = Place(t, 9)
    BY <1>6 DEF Encode
  <2>3. b[9] = t[1] /\ b[10] = t[2] /\ b[11] = t[3] /\ b[12] = t[4]
    BY <1>6, <2>2 DEF Place, Index, PacketLength
  <2>4. \A i \in 0 .. 8 : b[i] = 0
    BY <1>6, <2>2 DEF Place, Index, PacketLength
  <2>5. LeadsAt(b, 9)
    BY <2>1, <2>3, <2>4 DEF LeadsAt
  <2>6. Decode(b)
          = Call(TX_POWER, t[1] * 1000 + t[2] * 100 + t[3] * 10 + t[4])
    BY <1>2, <2>3, <2>5, DecodeCases
  <2>7. Decimal(t) = t[1] * 1000 + t[2] * 100 + t[3] * 10 + t[4]
    BY <1>6 DEF Decimal
  <2> QED  BY <1>6, <2>6, <2>7 DEF Meaning
<1>7. CASE q.setting = TX_POWER /\ Len(t) = 5
  <2>1. t[1] # 0 \/ t[2] # 0
    BY <1>7 DEF Carried, Proper
  <2>2. b = Place(t, 8)
    BY <1>7 DEF Encode
  <2>3. /\ b[8] = t[1] /\ b[9] = t[2] /\ b[10] = t[3]
        /\ b[11] = t[4] /\ b[12] = t[5]
    BY <1>7, <2>2 DEF Place, Index, PacketLength
  <2>4. \A i \in 0 .. 7 : b[i] = 0
    BY <1>7, <2>2 DEF Place, Index, PacketLength
  <2>5. Decimal(t)
          = t[1] * 10000 + t[2] * 1000 + t[3] * 100 + t[4] * 10 + t[5]
    BY <1>7 DEF Decimal
  <2>6. CASE t[1] # 0
    <3>1. LeadsAt(b, 8)
      BY <2>3, <2>4, <2>6 DEF LeadsAt
    <3> QED  BY <1>2, <1>7, <2>3, <2>5, <3>1, DecodeCases DEF Meaning
  <2>7. CASE t[1] = 0
    <3>1. \A i \in 0 .. 8 : b[i] = 0
      BY <2>3, <2>4, <2>7
    <3>2. LeadsAt(b, 9)
      BY <2>1, <2>3, <2>7, <3>1 DEF LeadsAt
    <3>3. Decode(b)
            = Call(TX_POWER, t[2] * 1000 + t[3] * 100 + t[4] * 10 + t[5])
      BY <1>2, <2>3, <3>2, DecodeCases
    <3>4. /\ t[2] \in Int /\ t[3] \in Int /\ t[4] \in Int /\ t[5] \in Int
      BY <1>3, <1>7
    <3>5. Decimal(t) = t[2] * 1000 + t[3] * 100 + t[4] * 10 + t[5]
      BY <2>5, <2>7, <3>4
    <3> QED  BY <1>7, <3>3, <3>5 DEF Meaning
  <2> QED  BY <2>6, <2>7
<1>8. CASE q.setting = DOWNLINK
  <2>1. Len(t) = 1
    BY <1>8 DEF Carried, Proper
  <2>2. b = Place(t, 14)
    BY <1>8 DEF Encode
  <2>3. b[14] = t[1] /\ b[15] = 0
    BY <2>1, <2>2 DEF Place, Index, PacketLength
  <2>4. \A i \in 0 .. 13 : b[i] = 0
    BY <2>1, <2>2 DEF Place, Index, PacketLength
  <2>5. Decimal(t) = t[1]
    BY <2>1 DEF Decimal
  <2>6. CASE t[1] # 0
    <3>1. LeadsAt(b, 14)
      BY <2>3, <2>4, <2>6 DEF LeadsAt
    <3> QED  BY <1>2, <1>8, <2>3, <2>5, <3>1, DecodeCases DEF Meaning
  <2>7. CASE t[1] = 0
    <3>1. \A i \in 0 .. 15 : b[i] = 0
      BY <2>3, <2>4, <2>7
    <3>2. LeadsAt(b, 16)
      BY <3>1 DEF LeadsAt, PacketLength
    <3> QED  BY <1>2, <1>8, <2>5, <2>7, <3>2, DecodeCases DEF Meaning
  <2> QED  BY <2>6, <2>7
<1>9. q.setting # ANTENNA
  BY DEF Carried
<1>10. q.setting = TX_POWER => Len(t) \in {4, 5}
  BY DEF Carried, Proper
<1> QED
  BY <1>1, <1>4, <1>5, <1>6, <1>7, <1>8, <1>9, <1>10 DEF Setting

(* Decode yields a call. *)
LEMMA DecodeType ==
  ASSUME NEW b \in Packet
  PROVE  Decode(b) \in Calls
<1>1. \A i \in 0 .. 15 : b[i] \in Nat
  BY DEF Packet, Index, PacketLength, Digit
<1>2. ASSUME NEW s \in Setting, NEW v \in Nat PROVE Call(s, v) \in Calls
  BY DEF Calls, Call
<1>3. NoCall \in Calls
  BY DEF Calls, Call, NoCall
<1>4. {TX_FREQ, RX_FREQ, TX_POWER, DOWNLINK, ANTENNA} \subseteq Setting
  BY DEF Setting
<1>5. Call(TX_FREQ, b[0] * 1000 + b[1] * 100 + b[2] * 10 + b[3]) \in Calls
  BY <1>1, <1>2, <1>4
<1>6. Call(RX_FREQ, b[4] * 1000 + b[5] * 100 + b[6] * 10 + b[7]) \in Calls
  BY <1>1, <1>2, <1>4
<1>7. Call(TX_POWER, b[8] * 10000 + b[9] * 1000 + b[10] * 100
                       + b[11] * 10 + b[12]) \in Calls
  BY <1>1, <1>2, <1>4
<1>8. Call(TX_POWER, b[9] * 1000 + b[10] * 100 + b[11] * 10 + b[12]) \in Calls
  BY <1>1, <1>2, <1>4
<1>9. Call(DOWNLINK, b[13] * 10 + b[14]) \in Calls
  BY <1>1, <1>2, <1>4
<1>10. /\ Call(DOWNLINK, b[14]) \in Calls
       /\ Call(ANTENNA, b[14]) \in Calls
       /\ Call(DOWNLINK, 0) \in Calls
  BY <1>1, <1>2, <1>4
<1> HIDE DEF LeadsAt, Calls, Call, NoCall
<1> QED
  BY <1>3, <1>5, <1>6, <1>7, <1>8, <1>9, <1>10 DEF Decode
-----------------------------------------------------------------------------
(* Sequences: what Append and Tail leave at each place. *)
LEMMA AppendAt ==
  ASSUME NEW S, NEW s \in Seq(S), NEW e \in S
  PROVE  /\ Append(s, e) \in Seq(S)
         /\ Len(Append(s, e)) = Len(s) + 1
         /\ \A i \in 1 .. Len(s) : Append(s, e)[i] = s[i]
         /\ Append(s, e)[Len(s) + 1] = e
OBVIOUS

(* The same of taking the first member away. *)
LEMMA TailAt ==
  ASSUME NEW S, NEW s \in Seq(S), s # <<>>
  PROVE  /\ Tail(s) \in Seq(S)
         /\ Len(s) \in Nat \ {0}
         /\ Len(Tail(s)) = Len(s) - 1
         /\ \A i \in 1 .. Len(s) - 1 : Tail(s)[i] = s[i + 1]
         /\ Head(s) = s[1] /\ s[1] \in S
OBVIOUS
-----------------------------------------------------------------------------
(* The inductive invariant holds at the start. *)
LEMMA InitInv == Init => RemoteInv
<1> SUFFICES ASSUME Init PROVE RemoteInv
  OBVIOUS
<1> USE DEF Init
<1>1. Zeros \in Packet
  BY DEF Zeros, Packet, Digit
<1>2. NoCall \in Calls
  BY DEF NoCall, Calls, Call
<1>3. TypeOK
  <2>1. executed \in [no : Nat, call : Calls] /\ udp_rcv_buf \in Datagram
    BY <1>1, <1>2 DEF Datagram
  <2>2. device \in [Setting -> Nat \cup {Unset}]
    OBVIOUS
  <2>3. Len(recvmbox) <= RECVMBOX_SIZE
    BY RemoteAssumption
  <2>4. requests \in Seq(Request) /\ link \in Seq(Datagram)
        /\ recvmbox \in Seq(Datagram) /\ sem_cgi_set \in Nat
    OBVIOUS
  <2>5. lost \in BOOLEAN /\ ground \in {"take", "sendto"}
        /\ air \in {"recvfrom", "switch"} /\ AirTxBuf = Zeros
    OBVIOUS
  <2> HIDE DEF Init
  <2> QED  BY Zenon, <1>1, <2>1, <2>2, <2>3, <2>4, <2>5 DEF TypeOK
<1>4. WholeRequests
  BY DEF WholeRequests
<1>5. BufferIsLast
  BY DEF BufferIsLast
<1>6. ExecutedIsDecoded
  BY DEF ExecutedIsDecoded
<1>7. Ordered
  BY DEF Ordered, AtAir
<1> QED  BY <1>3, <1>4, <1>5, <1>6, <1>7 DEF RemoteInv

(* A request stays what it was when another one is appended. *)
LEMMA StaysWhole ==
  ASSUME TypeOK, NEW q \in Request, requests' = Append(requests, q),
         NEW d, IsWhole(d)
  PROVE  IsWhole(d)'
<1>1. requests \in Seq(Request)
  BY DEF TypeOK
<1> QED  BY <1>1, AppendAt DEF IsWhole

(* A CGI handler. *)
LEMMA SubmitInv ==
  ASSUME RemoteInv, NEW q \in Inputs, Submit(q)
  PROVE  RemoteInv'
<1> USE DEF RemoteInv
<1>1. /\ q \in Request /\ Accepted(q) /\ Encode(q) \in Packet
      /\ requests \in Seq(Request)
  BY RemoteAssumption, EncodeType DEF Submit, TypeOK
<1>2. /\ requests' = Append(requests, q)
      /\ requests' \in Seq(Request)
      /\ Len(requests') = Len(requests) + 1
      /\ \A i \in 1 .. Len(requests) : requests'[i] = requests[i]
      /\ requests'[Len(requests) + 1] = q
  BY <1>1, AppendAt DEF Submit
<1>3. /\ AirTxBuf' = Encode(q) /\ sem_cgi_set' = sem_cgi_set + 1
      /\ UNCHANGED <<ground, link, recvmbox, udp_rcv_buf, air, executed,
                     device, lost>>
  BY DEF Submit, Filled, airvars
<1>4. TypeOK'
  BY <1>1, <1>2, <1>3 DEF TypeOK
<1>5. WholeRequests'
  <2>1. \A d : IsWhole(d) => IsWhole(d)'
    BY <1>1, <1>2, StaysWhole
  <2> HIDE DEF IsWhole
  <2> QED  BY <1>3, <2>1 DEF WholeRequests, IsWhole
<1>6. BufferIsLast'
  <2>1. requests' # <<>>
    BY <1>1, <1>2
  <2>2. \A i \in 1 .. Len(requests') : Accepted(requests'[i])
    BY <1>1, <1>2 DEF BufferIsLast
  <2> QED  BY <1>1, <1>2, <1>3, <2>1, <2>2 DEF BufferIsLast
<1>7. ExecutedIsDecoded'
  BY <1>1, <1>2, <1>3 DEF ExecutedIsDecoded
<1>8. Ordered'
  BY <1>3 DEF Ordered, AtAir
<1> QED  BY <1>4, <1>5, <1>6, <1>7, <1>8

(* The sending thread takes the semaphore. *)
LEMMA GroundTakeInv ==
  ASSUME RemoteInv, GroundTake
  PROVE  RemoteInv'
<1> USE DEF RemoteInv, GroundTake, airvars
<1>1. TypeOK'
  BY DEF TypeOK
<1>2. WholeRequests'
  BY DEF WholeRequests, IsWhole
<1>3. BufferIsLast'
  BY DEF BufferIsLast, TypeOK
<1>4. ExecutedIsDecoded'
  BY DEF ExecutedIsDecoded
<1>5. Ordered'
  BY DEF Ordered, AtAir
<1> QED  BY <1>1, <1>2, <1>3, <1>4, <1>5

(* lwIP sends the buffer: the datagram is the last request. *)
LEMMA GroundSendInv ==
  ASSUME RemoteInv, GroundSend
  PROVE  RemoteInv'
<1> DEFINE d == [no |-> Len(requests), buf |-> AirTxBuf]
<1> USE DEF RemoteInv
<1>1. /\ requests \in Seq(Request) /\ requests # <<>>
      /\ Len(requests) \in Nat \ {0}
  BY DEF TypeOK, BufferIsLast, GroundSend
<1>2. d \in Datagram /\ d.no = Len(requests) /\ d.buf = AirTxBuf
  BY <1>1 DEF Datagram, TypeOK
<1>3. link \in Seq(Datagram) /\ recvmbox \in Seq(Datagram)
  BY DEF TypeOK
<1>4. /\ link' = Append(link, d) /\ link' \in Seq(Datagram)
      /\ Len(link') = Len(link) + 1
      /\ \A i \in 1 .. Len(link) : link'[i] = link[i]
      /\ link'[Len(link) + 1] = d
  BY <1>2, <1>3, AppendAt DEF GroundSend
<1>5. /\ ground' = "take"
      /\ UNCHANGED <<requests, AirTxBuf, sem_cgi_set, recvmbox, udp_rcv_buf,
                     air, executed, device, lost>>
  BY DEF GroundSend, airvars
<1> HIDE DEF d
<1>6. TypeOK'
  BY <1>4, <1>5 DEF TypeOK
<1>7. IsWhole(d)
  BY <1>1, <1>2 DEF IsWhole, BufferIsLast
<1>8. WholeRequests'
  <2>1. ASSUME NEW i \in 1 .. Len(link') PROVE IsWhole(link'[i])
    <3>1. CASE i \in 1 .. Len(link)
      BY <1>3, <1>4, <3>1 DEF WholeRequests
    <3>2. CASE i = Len(link) + 1
      BY <1>4, <1>7, <3>2
    <3> QED  BY <1>3, <1>4, <3>1, <3>2
  <2> QED  BY <1>5, <2>1 DEF WholeRequests, IsWhole
<1>9. BufferIsLast'
  BY <1>5 DEF BufferIsLast
<1>10. ExecutedIsDecoded'
  BY <1>5 DEF ExecutedIsDecoded
<1>11. Ordered'
  <2>1. /\ AtAir \in Nat /\ AtAir <= Len(requests)
        /\ \A i \in 1 .. Len(recvmbox) : recvmbox[i].no <= Len(requests)
        /\ \A i \in 1 .. Len(link) : link[i].no <= Len(requests)
    BY <1>1 DEF AtAir, WholeRequests, IsWhole, ExecutedIsDecoded
  <2>2. AtAir' = AtAir
    BY <1>5 DEF AtAir
  <2>3. \A i \in 1 .. Len(link') :
          \/ i \in 1 .. Len(link) /\ link'[i] = link[i]
          \/ i = Len(link) + 1 /\ link'[i].no = Len(requests)
    BY <1>2, <1>3, <1>4
  <2>4. \A i \in 1 .. Len(link') : AtAir' <= link'[i].no
    BY <2>1, <2>2, <2>3 DEF Ordered
  <2>5. \A i \in 1 .. Len(recvmbox), j \in 1 .. Len(link') :
          recvmbox[i].no <= link'[j].no
    BY <2>1, <2>3 DEF Ordered
  <2>6. \A i, j \in 1 .. Len(link') : i < j => link'[i].no <= link'[j].no
    BY <1>3, <1>4, <2>1, <2>3 DEF Ordered
  <2> QED  BY <1>5, <2>2, <2>4, <2>5, <2>6 DEF Ordered
<1> QED  BY <1>6, <1>8, <1>9, <1>10, <1>11

(* What a step that takes the oldest datagram off the link leaves there. *)
LEMMA LinkTail ==
  ASSUME RemoteInv, link # <<>>, link' = Tail(link), UNCHANGED requests
  PROVE  /\ link' \in Seq(Datagram)
         /\ \A i \in 1 .. Len(link') : IsWhole(link[i + 1])
         /\ \A i \in 1 .. Len(link') : link'[i] = link[i + 1]
         /\ Len(link') = Len(link) - 1 /\ Len(link) \in Nat \ {0}
         /\ \A i \in 1 .. Len(link') : AtAir <= link'[i].no
         /\ \A i \in 1 .. Len(recvmbox), j \in 1 .. Len(link') :
              recvmbox[i].no <= link'[j].no
         /\ \A i, j \in 1 .. Len(link') : i < j => link'[i].no <= link'[j].no
         /\ Head(link) = link[1] /\ link[1] \in Datagram /\ IsWhole(link[1])
         /\ \A i \in 1 .. Len(link') : link[1].no <= link'[i].no
<1> USE DEF RemoteInv
<1>1. link \in Seq(Datagram)
  BY DEF TypeOK
<1>2. /\ link' \in Seq(Datagram)
      /\ Len(link) \in Nat \ {0}
      /\ Len(link') = Len(link) - 1
      /\ \A i \in 1 .. Len(link) - 1 : link'[i] = link[i + 1]
      /\ Head(link) = link[1] /\ link[1] \in Datagram
  BY <1>1, TailAt
<1>3. \A i \in 1 .. Len(link') : i + 1 \in 1 .. Len(link) /\ i \in 1 .. Len(link) - 1
  BY <1>2
<1>4. \A i, j \in 1 .. Len(link') : i < j => i + 1 < j + 1
  OBVIOUS
<1>5. \A i \in 1 .. Len(link') : 1 < i + 1 /\ 1 \in 1 .. Len(link)
  BY <1>2
<1>6. \A i \in 1 .. Len(link') : IsWhole(link[i + 1])
  BY <1>3 DEF WholeRequests
<1>7. IsWhole(link[1])
  BY <1>2 DEF WholeRequests
<1>8. /\ \A i \in 1 .. Len(link') : AtAir <= link'[i].no
      /\ \A i \in 1 .. Len(recvmbox), j \in 1 .. Len(link') :
           recvmbox[i].no <= link'[j].no
  BY <1>2, <1>3 DEF Ordered
<1>9. \A i, j \in 1 .. Len(link') : i < j => link'[i].no <= link'[j].no
  BY <1>2, <1>3, <1>4 DEF Ordered
<1>10. \A i \in 1 .. Len(link') : link[1].no <= link'[i].no
  BY <1>2, <1>3, <1>5 DEF Ordered
<1> QED  BY <1>2, <1>3, <1>6, <1>7, <1>8, <1>9, <1>10

(* The link loses a datagram, or the socket has no room for it. *)
LEMMA LostInv ==
  ASSUME RemoteInv, link # <<>>, link' = Tail(link), lost' = TRUE,
         UNCHANGED <<requests, AirTxBuf, sem_cgi_set, ground, recvmbox,
                     udp_rcv_buf, air, executed, device>>
  PROVE  RemoteInv'
<1> USE DEF RemoteInv
<1>1. TypeOK'
  BY LinkTail DEF TypeOK
<1>2. WholeRequests'
  BY LinkTail DEF WholeRequests, IsWhole
<1>3. BufferIsLast'
  BY DEF BufferIsLast
<1>4. ExecutedIsDecoded'
  BY DEF ExecutedIsDecoded
<1>5. Ordered'
  <2>1. AtAir' = AtAir
    BY DEF AtAir
  <2> HIDE DEF AtAir, IsWhole
  <2> QED  BY <2>1, LinkTail DEF Ordered
<1> QED  BY <1>1, <1>2, <1>3, <1>4, <1>5

(* The socket of the air unit takes a datagram. *)
LEMMA DeliverInv ==
  ASSUME RemoteInv, Deliver
  PROVE  RemoteInv'
<1> USE DEF RemoteInv
<1>1. CASE ~(Len(recvmbox) < RECVMBOX_SIZE)
  BY <1>1, LostInv DEF Deliver, airvars
<1>2. CASE Len(recvmbox) < RECVMBOX_SIZE
  <2> DEFINE d == Head(link)
  <2>1. /\ link # <<>> /\ link' = Tail(link)
        /\ recvmbox' = Append(recvmbox, d)
        /\ UNCHANGED <<requests, AirTxBuf, sem_cgi_set, ground, udp_rcv_buf,
                       air, executed, device, lost>>
    BY <1>2 DEF Deliver, airvars
  <2>2. /\ recvmbox \in Seq(Datagram) /\ d \in Datagram /\ d = link[1]
        /\ IsWhole(d)
    BY <2>1, LinkTail DEF TypeOK
  <2>3. /\ recvmbox' \in Seq(Datagram)
        /\ Len(recvmbox') = Len(recvmbox) + 1
        /\ \A i \in 1 .. Len(recvmbox) : recvmbox'[i] = recvmbox[i]
        /\ recvmbox'[Len(recvmbox) + 1] = d
    BY <2>1, <2>2, AppendAt
  <2>4. \A i \in 1 .. Len(recvmbox') :
          \/ i \in 1 .. Len(recvmbox) /\ recvmbox'[i] = recvmbox[i]
          \/ i = Len(recvmbox) + 1 /\ recvmbox'[i] = d
    BY <2>2, <2>3
  <2> HIDE DEF d
  <2>5. TypeOK'
    <3>1. Len(recvmbox') <= RECVMBOX_SIZE
      BY <1>2, <2>2, <2>3, RemoteAssumption
    <3>2. link' \in Seq(Datagram)
      BY <2>1, LinkTail
    <3> QED  BY Zenon, <2>1, <2>3, <3>1, <3>2 DEF TypeOK
  <2>6. WholeRequests'
    <3>1. \A i \in 1 .. Len(recvmbox') : IsWhole(recvmbox'[i])
      BY <2>2, <2>4 DEF WholeRequests
    <3>2. \A i \in 1 .. Len(link') : IsWhole(link'[i])
      BY <2>1, LinkTail
    <3> QED  BY <2>1, <3>1, <3>2 DEF WholeRequests, IsWhole
  <2>7. BufferIsLast'
    BY <2>1 DEF BufferIsLast
  <2>8. ExecutedIsDecoded'
    BY <2>1 DEF ExecutedIsDecoded
  <2>9. Ordered'
    <3>1. AtAir' = AtAir
      BY <2>1 DEF AtAir
    <3>2. /\ 1 \in 1 .. Len(link) /\ link[1] = d
          /\ AtAir <= d.no
          /\ \A i \in 1 .. Len(recvmbox) : recvmbox[i].no <= d.no
      BY <2>1, <2>2, LinkTail DEF Ordered
    <3>3. \A i \in 1 .. Len(link') : d.no <= link'[i].no
      BY <2>1, <2>2, LinkTail
    <3>4. \A i \in 1 .. Len(recvmbox') : AtAir <= recvmbox'[i].no
      BY <2>4, <3>2 DEF Ordered
    <3>5. \A i \in 1 .. Len(recvmbox'), j \in 1 .. Len(link') :
            recvmbox'[i].no <= link'[j].no
      BY <2>1, <2>4, <3>3, LinkTail
    <3>6. d.no <= d.no
      BY <2>2 DEF Datagram
    <3>7. \A i, j \in 1 .. Len(recvmbox') :
            i < j => recvmbox'[i].no <= recvmbox'[j].no
      BY <2>2, <2>3, <2>4, <3>2 DEF Ordered
    <3>8. /\ \A i \in 1 .. Len(link') : AtAir <= link'[i].no
          /\ \A i, j \in 1 .. Len(link') :
               i < j => link'[i].no <= link'[j].no
      BY <2>1, LinkTail
    <3> QED
      BY <2>1, <3>1, <3>4, <3>5, <3>7, <3>8 DEF Ordered
  <2> QED  BY <2>5, <2>6, <2>7, <2>8, <2>9
<1> QED  BY <1>1, <1>2

(* UDP_recvcgi_task takes the datagram the socket holds. *)
LEMMA ReceiveInv ==
  ASSUME RemoteInv, Receive
  PROVE  RemoteInv'
<1> USE DEF RemoteInv
<1>1. /\ recvmbox # <<>> /\ recvmbox' = Tail(recvmbox)
      /\ udp_rcv_buf' = Head(recvmbox)
      /\ air = "recvfrom" /\ air' = "switch"
      /\ UNCHANGED <<requests, AirTxBuf, sem_cgi_set, ground, link, executed,
                     device, lost>>
  BY DEF Receive
<1>2. recvmbox \in Seq(Datagram)
  BY DEF TypeOK
<1>3. /\ recvmbox' \in Seq(Datagram)
      /\ Len(recvmbox) \in Nat \ {0}
      /\ Len(recvmbox') = Len(recvmbox) - 1
      /\ \A i \in 1 .. Len(recvmbox) - 1 : recvmbox'[i] = recvmbox[i + 1]
      /\ udp_rcv_buf' = recvmbox[1] /\ recvmbox[1] \in Datagram
  BY <1>1, <1>2, TailAt
<1>4. /\ \A i \in 1 .. Len(recvmbox') :
           /\ i + 1 \in 1 .. Len(recvmbox) /\ 1 < i + 1
           /\ recvmbox'[i] = recvmbox[i + 1]
      /\ 1 \in 1 .. Len(recvmbox)
  BY <1>3
<1>5. TypeOK'
  <2>1. Len(recvmbox') <= RECVMBOX_SIZE
    BY <1>3, RemoteAssumption DEF TypeOK
  <2>2. air' \in {"recvfrom", "switch"} /\ udp_rcv_buf' \in Datagram
    BY <1>1, <1>3
  <2> QED  BY Zenon, <1>1, <1>3, <2>1, <2>2 DEF TypeOK
<1>6. WholeRequests'
  <2>1. \A i \in 1 .. Len(recvmbox') : IsWhole(recvmbox'[i])
    BY <1>4 DEF WholeRequests
  <2>2. IsWhole(recvmbox[1])
    BY <1>4 DEF WholeRequests
  <2> QED  BY <1>1, <1>3, <2>1, <2>2 DEF WholeRequests, IsWhole
<1>7. BufferIsLast'
  BY <1>1 DEF BufferIsLast
<1>8. ExecutedIsDecoded'
  BY <1>1 DEF ExecutedIsDecoded
<1>9. Ordered'
  <2>1. AtAir = executed.no /\ AtAir' = recvmbox[1].no
    BY <1>1, <1>3 DEF AtAir
  <2>2. executed'.no <= AtAir'
    BY <1>1, <1>4, <2>1 DEF Ordered
  <2>3. \A i \in 1 .. Len(recvmbox') : AtAir' <= recvmbox'[i].no
    BY <1>4, <2>1 DEF Ordered
  <2>4. \A i \in 1 .. Len(link) : AtAir' <= link[i].no
    BY <1>4, <2>1 DEF Ordered
  <2>5. \A i \in 1 .. Len(recvmbox'), j \in 1 .. Len(link) :
          recvmbox'[i].no <= link[j].no
    BY <1>4 DEF Ordered
  <2>6. \A i, j \in 1 .. Len(recvmbox') : i < j => i + 1 < j + 1
    OBVIOUS
  <2>7. \A i, j \in 1 .. Len(recvmbox') :
          i < j => recvmbox'[i].no <= recvmbox'[j].no
    BY <1>4, <2>6 DEF Ordered
  <2> HIDE DEF AtAir
  <2> QED  BY <1>1, <2>2, <2>3, <2>4, <2>5, <2>7 DEF Ordered
<1> QED  BY <1>5, <1>6, <1>7, <1>8, <1>9

(* It carries out the request. *)
LEMMA ExecuteInv ==
  ASSUME RemoteInv, Execute
  PROVE  RemoteInv'
<1> DEFINE call == Decode(udp_rcv_buf.buf)
<1> USE DEF RemoteInv
<1>1. /\ executed' = [no |-> udp_rcv_buf.no, call |-> call]
      /\ device' = IF call = NoCall THEN device
                    ELSE [device EXCEPT ![call.setting] = call.value]
      /\ air = "switch" /\ air' = "recvfrom"
      /\ UNCHANGED <<requests, AirTxBuf, sem_cgi_set, ground, link, recvmbox,
                     udp_rcv_buf, lost>>
  BY DEF Execute
<1>2. call \in Calls /\ udp_rcv_buf.no \in Nat
  BY DecodeType DEF TypeOK, Datagram
<1>3. IsWhole(udp_rcv_buf)
  BY <1>1 DEF WholeRequests
<1> HIDE DEF call
<1>4. TypeOK'
  <2>1. executed' \in [no : Nat, call : Calls]
    BY <1>1, <1>2
  <2>2. device' \in [Setting -> Nat \cup {Unset}]
    <3>1. device \in [Setting -> Nat \cup {Unset}]
      BY DEF TypeOK
    <3>2. call.value \in Nat
      BY <1>2 DEF Calls
    <3> QED  BY <1>1, <3>1, <3>2
  <2>3. air' \in {"recvfrom", "switch"}
    BY <1>1
  <2> QED  BY Zenon, <1>1, <2>1, <2>2, <2>3 DEF TypeOK
<1>5. WholeRequests'
  BY <1>1 DEF WholeRequests, IsWhole
<1>6. BufferIsLast'
  BY <1>1 DEF BufferIsLast
<1>7. ExecutedIsDecoded'
  <2>1. /\ executed'.no = udp_rcv_buf.no
        /\ executed'.call = Decode(Encode(requests[udp_rcv_buf.no]))
        /\ udp_rcv_buf.no \in 1 .. Len(requests)
    BY <1>1, <1>3 DEF IsWhole, call
  <2> QED  BY <1>1, <2>1 DEF ExecutedIsDecoded
<1>8. Ordered'
  <2>1. AtAir = udp_rcv_buf.no /\ AtAir' = udp_rcv_buf.no
        /\ executed'.no = udp_rcv_buf.no
    BY <1>1 DEF AtAir
  <2>2. udp_rcv_buf.no <= udp_rcv_buf.no
    BY <1>2
  <2> HIDE DEF AtAir
  <2> QED  BY <1>1, <2>1, <2>2 DEF Ordered
<1> QED  BY <1>4, <1>5, <1>6, <1>7, <1>8

(* Every step preserves the invariant. *)
LEMMA NextInv ==
  ASSUME RemoteInv, [Next]_vars
  PROVE  RemoteInv'
<1>1. CASE \E q \in Inputs : Submit(q)
  BY <1>1, SubmitInv
<1>2. CASE GroundTake
  BY <1>2, GroundTakeInv
<1>3. CASE GroundSend
  BY <1>3, GroundSendInv
<1>4. CASE LinkLoses
  BY <1>4, LostInv DEF LinkLoses, airvars
<1>5. CASE Deliver
  BY <1>5, DeliverInv
<1>6. CASE Receive
  BY <1>6, ReceiveInv
<1>7. CASE Execute
  BY <1>7, ExecuteInv
<1>8. CASE UNCHANGED vars
  BY <1>8 DEF vars, RemoteInv, TypeOK, WholeRequests, IsWhole, BufferIsLast,
              ExecutedIsDecoded, Ordered, AtAir
<1> QED  BY <1>1, <1>2, <1>3, <1>4, <1>5, <1>6, <1>7, <1>8 DEF Next

(* The inductive invariant holds in every state. *)
THEOREM Invariance == Spec => []RemoteInv
<1>1. Init => RemoteInv
  BY InitInv
<1>2. RemoteInv /\ [Next]_vars => RemoteInv'
  BY NextInv
<1> QED  BY <1>1, <1>2, PTL DEF Spec

(* Types hold: the socket never holds more than its mailbox does. *)
THEOREM TypeCorrect == Spec => []TypeOK
<1>1. RemoteInv => TypeOK
  BY DEF RemoteInv
<1> QED  BY <1>1, Invariance, PTL

(* AirTxBuf needs no lock: no datagram mixes two requests. *)
THEOREM DatagramsAreWhole == Spec => []WholeRequests
<1>1. RemoteInv => WholeRequests
  BY DEF RemoteInv
<1> QED  BY <1>1, Invariance, PTL

(* What the air unit calls for a request the packet can carry is what the  *)
(* user meant.                                                             *)
THEOREM RequestsAreMeant == Spec => []AppliedAsMeant
<1>1. RemoteInv => AppliedAsMeant
  <2> SUFFICES ASSUME RemoteInv, executed.no > 0,
                      Carried(requests[executed.no])
               PROVE  executed.call = Meaning(requests[executed.no])
    BY DEF AppliedAsMeant
  <2>1. /\ executed.no \in 1 .. Len(requests)
        /\ executed.call = Decode(Encode(requests[executed.no]))
    BY DEF RemoteInv, ExecutedIsDecoded
  <2>2. /\ requests[executed.no] \in Request
        /\ Accepted(requests[executed.no])
    BY <2>1 DEF RemoteInv, TypeOK, BufferIsLast
  <2> QED  BY <2>1, <2>2, CodecAgrees
<1> QED  BY <1>1, Invariance, PTL
-----------------------------------------------------------------------------
(* The refinement. *)

(* LatestRequest has its own copy of ConfigPacket. *)
LEMMA SamePackets ==
  /\ Abstract!Setting = Setting
  /\ Abstract!Unset = Unset
  /\ \A q : (Abstract!Carried(q) <=> Carried(q))
  /\ \A q : Abstract!Meaning(q) = Meaning(q)
<1> USE DEF TX_FREQ, RX_FREQ, TX_POWER, DOWNLINK, ANTENNA, Abstract!TX_FREQ,
            Abstract!RX_FREQ, Abstract!TX_POWER, Abstract!DOWNLINK,
            Abstract!ANTENNA
<1>1. Abstract!Setting = Setting /\ Abstract!Unset = Unset
  BY DEF Setting, Abstract!Setting, Unset, Abstract!Unset
<1>2. \A q : (Abstract!Carried(q) <=> Carried(q))
  BY DEF Carried, Proper, Abstract!Carried, Abstract!Proper
<1>3. \A t : Abstract!Decimal(t) = Decimal(t)
  BY DEF Decimal, Abstract!Decimal
<1>4. \A q : Abstract!Meaning(q) = Meaning(q)
  BY <1>3 DEF Meaning, Call, Abstract!Meaning, Abstract!Call
<1> QED  BY <1>1, <1>2, <1>4

(* Carrying out a datagram is carrying out its request. *)
LEMMA ExecuteRefines ==
  ASSUME RemoteInv, Execute
  PROVE  \E j \in 1 .. Len(requests) :
           j >= executed.no /\ Abstract!CarryOut(j)
<1> DEFINE j == udp_rcv_buf.no
           q == requests[j]
           call == Decode(udp_rcv_buf.buf)
<1>1. /\ executed'.no = j
      /\ device' = IF call = NoCall THEN device
                    ELSE [device EXCEPT ![call.setting] = call.value]
      /\ air = "switch" /\ UNCHANGED requests
  BY DEF Execute
<1>2. j \in 1 .. Len(requests) /\ call = Decode(Encode(q))
  BY <1>1 DEF RemoteInv, WholeRequests, IsWhole
<1>3. q \in Request /\ Accepted(q)
  BY <1>2 DEF RemoteInv, TypeOK, BufferIsLast
<1>4. executed.no <= j
  BY <1>1 DEF RemoteInv, Ordered, AtAir
<1>5. j >= executed.no
  BY <1>2, <1>4 DEF RemoteInv, ExecutedIsDecoded
<1>6. call \in Calls /\ device \in [Setting -> Nat \cup {Unset}]
  BY DecodeType DEF RemoteInv, TypeOK, Datagram
<1> HIDE DEF call
<1>7. CASE Carried(q)
  <2>1. call = Meaning(q)
    BY <1>2, <1>3, <1>7, CodecAgrees
  <2>2. call.setting = q.setting /\ q.setting \in Setting
    BY <1>3, <2>1 DEF Meaning, Call, Request
  <2>3. "none" \notin Setting
    BY DEF Setting, TX_FREQ, RX_FREQ, TX_POWER, DOWNLINK, ANTENNA
  <2>4. call # NoCall
    BY <2>2, <2>3 DEF NoCall, Call
  <2>5. device' = [device EXCEPT ![q.setting] = Meaning(q).value]
    BY <1>1, <2>1, <2>2, <2>4
  <2>6. Abstract!CarryOut(j)
    BY <1>1, <1>7, <2>5, SamePackets DEF Abstract!CarryOut
  <2> QED  BY <1>2, <1>5, <2>6
<1>8. CASE ~Carried(q)
  <2>1. \E s \in Setting : \A t \in Setting \ {s} : device'[t] = device[t]
    <3>1. CASE call.setting \in Setting
      BY <1>1, <1>6, <3>1
    <3>2. CASE call.setting \notin Setting
      <4>1. device' = device
        BY <1>1, <1>6, <3>2
      <4>2. TX_FREQ \in Setting
        BY DEF Setting
      <4> QED  BY <4>1, <4>2
    <3> QED  BY <3>1, <3>2
  <2>2. Abstract!CarryOut(j)
    BY <1>1, <1>8, <2>1, SamePackets DEF Abstract!CarryOut
  <2> QED  BY <1>2, <1>5, <2>2
<1> QED  BY <1>7, <1>8

(* Every setting the air unit makes is a whole request of the user, and    *)
(* never one older than the last: the threads, the buffer, the link and    *)
(* the socket implement LatestRequest.                                     *)
THEOREM Refinement == Spec => LatestRequestSpec
<1>1. Init => Abstract!DInit
  BY SamePackets DEF Init, Abstract!DInit
<1>2. RemoteInv /\ [Next]_vars => [Abstract!DNext]_(Abstract!dvars)
  <2> SUFFICES ASSUME RemoteInv, [Next]_vars
               PROVE  Abstract!DNext \/ UNCHANGED Abstract!dvars
    OBVIOUS
  <2>1. CASE \E q \in Inputs : Submit(q)
    BY <2>1 DEF Submit, airvars, Abstract!DNext, Abstract!Ask
  <2>2. CASE GroundTake \/ GroundSend \/ LinkLoses \/ Deliver \/ Receive
    BY <2>2 DEF GroundTake, GroundSend, LinkLoses, Deliver, Receive, airvars,
                Abstract!dvars
  <2>3. CASE Execute
    BY <2>3, ExecuteRefines DEF Abstract!DNext
  <2>4. CASE UNCHANGED vars
    BY <2>4 DEF vars, Abstract!dvars
  <2> QED  BY <2>1, <2>2, <2>3, <2>4 DEF Next
<1> QED
  BY <1>1, <1>2, Invariance, PTL DEF Spec, LatestRequestSpec, Abstract!DSpec
=============================================================================
