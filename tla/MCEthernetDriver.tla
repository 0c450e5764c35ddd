-------------------------- MODULE MCEthernetDriver --------------------------
(* Few descriptors on each side; two good frames, and one that is received *)
(* with an error.                                                          *)
EXTENDS EthernetDriver
MCBudgets ==
  {[in |-> 3, out |-> 0], [in |-> 2, out |-> 1], [in |-> 0, out |-> 4]}
=============================================================================
