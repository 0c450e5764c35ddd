----------------------------- MODULE MCAirUnit -----------------------------
(* One signal better at A, one weak at both and better at B; enough        *)
(* datagrams to replace a position, or a selection and a fading between.   *)
EXTENDS AirUnit

MCSignals == {[a |-> 60, b |-> 64], [a |-> 90, b |-> 86]}
MCBudgets ==
  {[datagrams |-> 2, selections |-> 0, fades |-> 0],
   [datagrams |-> 1, selections |-> 1, fades |-> 1]}
=============================================================================
