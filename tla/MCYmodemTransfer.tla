-------------------------- MODULE MCYmodemTransfer --------------------------
(* A file of three blocks for TLC, and what may go wrong. *)
EXTENDS YmodemTransfer

CONSTANTS b1, b2, b3

MCBlock == {b1, b2, b3}
MCFile == <<b1, b2, b3>>

Budget(kinds, n) == [f \in FaultKind |-> IF f \in kinds THEN n ELSE 0]

NoFaults       == {Budget({}, 0)}
OneLoss        == {Budget({Lose}, 1)}
OneFailure     == {Budget({Program}, 1)}
LossesOrStalls == {Budget({}, 0), Budget({Lose}, 6), Budget({Stall}, 1)}
OneOfEach      == {Budget({f}, 1) : f \in FaultKind \ {Stall}}
=============================================================================
