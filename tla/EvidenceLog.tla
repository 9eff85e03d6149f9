----------------------------- MODULE EvidenceLog -----------------------------
(***************************************************************************)
(* What the shared summary.json promises: rows are only ever added at its   *)
(* end, one at a time, and what was written stays as it was.                *)
(***************************************************************************)
EXTENDS Sequences

CONSTANT Rows

VARIABLE log

Init == log = <<>>

Next == \E row \in Rows : log' = Append(log, row)

Spec == Init /\ [][Next]_log
=============================================================================
