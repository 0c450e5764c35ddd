--------------------------- MODULE MCUartPipeline ---------------------------
(***************************************************************************)
(* A small instance of UartPipeline whose data bytes can be told apart, so *)
(* that a byte overtaking another is seen.                                 *)
(***************************************************************************)
EXTENDS UartPipeline

CONSTANT d

TwoDataBytes == {Zero, d}
=============================================================================
