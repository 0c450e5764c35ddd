--------------------------- MODULE MCRemoteConfig ---------------------------
(* Texts for TLC: of every length a handler treats in its own way, with    *)
(* and without leading zeros.                                              *)
EXTENDS RemoteConfig

Ask(s, t) == [setting |-> s, text |-> t]

MCInputs ==
  { Ask(TX_FREQ, <<2, 4, 0, 3>>), Ask(TX_FREQ, <<0, 9, 1, 5>>),
    Ask(RX_FREQ, <<1, 4, 3, 0>>), Ask(RX_FREQ, <<>>),
    Ask(TX_POWER, <<1, 5, 0, 2>>), Ask(TX_POWER, <<2, 0, 5, 0, 7>>),
    Ask(TX_POWER, <<0, 8, 0, 6, 0>>), Ask(TX_POWER, <<9, 0, 0>>),
    Ask(DOWNLINK, <<0>>), Ask(DOWNLINK, <<7>>), Ask(DOWNLINK, <<1, 1>>),
    Ask(ANTENNA, <<3>>) }

Antennas == { Ask(ANTENNA, <<1>>), Ask(ANTENNA, <<3>>),
              Ask(TX_FREQ, <<2, 4, 0, 3>>) }
=============================================================================
