--------------------------- MODULE MCFlashDriver ---------------------------
(* The threads of the air unit, a flash of two sectors of two pages. *)
EXTENDS FlashDriver

CONSTANT recv_cgi

AirThreads == {antenna, uart_ctl, uart_upgrade, recv_cgi}
AirSetters == {recv_cgi}
AirDevices == {baseband, flash}

(* 11 and 15 in the code *)
AirPriority ==
  [t \in AirThreads |-> IF t = antenna THEN 0 ELSE 1]

TwoPages == [d \in AirDevices |-> 2 * PAGE_SIZE]
OnePage == [d \in AirDevices |-> PAGE_SIZE]
=============================================================================
