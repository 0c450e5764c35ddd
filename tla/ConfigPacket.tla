---------------------------- MODULE ConfigPacket ----------------------------
(***************************************************************************)
(* The 16 bytes in which the ground unit sends one setting of the air      *)
(* unit.  The CGI handlers of the ground unit (httpd_cgi_ssi.c) put the    *)
(* digits the user typed at a place that depends on the setting and leave  *)
(* the rest zero; the air unit (UDP_recvcgi_task) tells the setting by the *)
(* first byte that is not zero.                                            *)
(***************************************************************************)
EXTENDS Integers, Sequences

TX_FREQ  == "airtxfreq"
RX_FREQ  == "airrxfreq"
TX_POWER == "airtxpower"
DOWNLINK == "airdownlink"
ANTENNA  == "airantsel"
Setting == {TX_FREQ, RX_FREQ, TX_POWER, DOWNLINK, ANTENNA}

Digit == 0 .. 9
Request == [setting : Setting, text : Seq(Digit)]

(* A text that is too long is dropped by its handler.                      *)
MaxDigits == [s \in Setting |->
  CASE s \in {TX_FREQ, RX_FREQ} -> 4 [] s = TX_POWER -> 5 [] OTHER -> 1]
Accepted(q) == Len(q.text) <= MaxDigits[q.setting]

PacketLength == 16
Index == 0 .. PacketLength - 1
Packet == [Index -> Digit]
Zeros == [i \in Index |-> 0]

(* The digits of a text from index a on. *)
Place(text, a) ==
  [i \in Index |-> IF i - a \in 0 .. Len(text) - 1 THEN text[i - a + 1] ELSE 0]

EncodeAtFixedPlace(q) ==
  CASE q.setting = TX_FREQ  -> Place(q.text, 0)
    [] q.setting = RX_FREQ  -> Place(q.text, 4)
    [] q.setting = TX_POWER -> Place(q.text, 8)
    [] q.setting = DOWNLINK -> Place(q.text, 14)
    [] q.setting = ANTENNA  -> Place(q.text, 15)

(* What a handler leaves in AirTxBuf. *)
Encode(q) ==
  CASE q.setting = TX_FREQ  -> Place(q.text, 0)
    [] q.setting = RX_FREQ  -> Place(q.text, 4)
    [] q.setting = TX_POWER ->
         IF Len(q.text) \in {4, 5} THEN Place(q.text, 13 - Len(q.text))
                                   ELSE Zeros
    [] q.setting = DOWNLINK -> Place(q.text, 14)
    [] q.setting = ANTENNA  -> Place(q.text, 15)
-----------------------------------------------------------------------------
(* A call of if_set_freq, if_set_rf_power, if_set_downlink or              *)
(* if_set_antenna_sw, or of none of them.                                  *)
Call(s, v) == [setting |-> s, value |-> v]
NoCall == Call("none", 0)
Calls == [setting : Setting \cup {"none"}, value : Nat]

(* index, the first byte that is not zero, is n; 16 when all are zero. *)
LeadsAt(b, n) ==
  /\ \A i \in 0 .. n - 1 : b[i] = 0
  /\ n < PacketLength => b[n] # 0

(* The switch of UDP_recvcgi_task.                                         *)
Decode(b) ==
  CASE LeadsAt(b, 0) ->
         Call(TX_FREQ, b[0] * 1000 + b[1] * 100 + b[2] * 10 + b[3])
    [] LeadsAt(b, 4) ->
         Call(RX_FREQ, b[4] * 1000 + b[5] * 100 + b[6] * 10 + b[7])
    [] LeadsAt(b, 8) ->
         Call(TX_POWER, b[8] * 10000 + b[9] * 1000 + b[10] * 100
                          + b[11] * 10 + b[12])
    [] LeadsAt(b, 9) ->
         Call(TX_POWER, b[9] * 1000 + b[10] * 100 + b[11] * 10 + b[12])
    [] LeadsAt(b, 13) -> Call(DOWNLINK, b[13] * 10 + b[14])
    [] LeadsAt(b, 14) -> Call(DOWNLINK, b[14])
    [] LeadsAt(b, 15) -> Call(ANTENNA, b[14])
    [] LeadsAt(b, 16) -> Call(DOWNLINK, 0)
    [] OTHER -> NoCall
-----------------------------------------------------------------------------
(* What a user means by a text: its number. *)
Decimal(t) ==
  CASE Len(t) = 5 -> t[1] * 10000 + t[2] * 1000 + t[3] * 100 + t[4] * 10 + t[5]
    [] Len(t) = 4 -> t[1] * 1000 + t[2] * 100 + t[3] * 10 + t[4]
    [] Len(t) = 1 -> t[1]
    [] OTHER -> 0

Meaning(q) == Call(q.setting, Decimal(q.text))

(* Texts of the right length that do not begin with a zero, but for a      *)
(* power of five digits, which may begin with one, and a downlink.         *)
Proper(q) ==
  CASE q.setting \in {TX_FREQ, RX_FREQ} -> Len(q.text) = 4 /\ q.text[1] # 0
    [] q.setting = TX_POWER ->
         \/ Len(q.text) = 4 /\ q.text[1] # 0
         \/ Len(q.text) = 5 /\ (q.text[1] # 0 \/ q.text[2] # 0)
    [] q.setting = DOWNLINK -> Len(q.text) = 1
    [] q.setting = ANTENNA -> Len(q.text) = 1 /\ q.text[1] # 0

(* Those the packet can carry: an antenna is not among them, because the   *)
(* air unit reads its number from the wrong byte.                          *)
Carried(q) == Proper(q) /\ q.setting # ANTENNA
=============================================================================
