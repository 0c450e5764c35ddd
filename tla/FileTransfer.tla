---------------------------- MODULE FileTransfer ----------------------------
(***************************************************************************)
(* What a file transfer promises: the blocks of the file are written in    *)
(* order, none skipped and none twice, whether the transfer succeeds or    *)
(* not, and it is reported a success only when all of them are.            *)
(***************************************************************************)
EXTENDS Naturals, Sequences

CONSTANT File          \* the blocks of the file

VARIABLES written,     \* the blocks that have been written
          report       \* what the sender was told last

Init == written = <<>> /\ report = "none"

Write ==
  /\ Len(written) < Len(File)
  /\ written' = Append(written, File[Len(written) + 1])
  /\ UNCHANGED report

Succeed ==
  /\ written = File
  /\ report' = "ok"
  /\ UNCHANGED written

Fail ==
  /\ report' \in {"errors", "too long"}
  /\ UNCHANGED written

Spec == Init /\ [][Write \/ Succeed \/ Fail]_<<written, report>>
=============================================================================
