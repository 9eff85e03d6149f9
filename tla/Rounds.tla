-------------------------------- MODULE Rounds --------------------------------
(***************************************************************************)
(* Closures found by going round until nothing is added: what a step, over   *)
(* a domain, makes of a start after a number of rounds.  Scans of a sequence: *)
(* what is known after each of its elements.                                 *)
(***************************************************************************)
EXTENDS Naturals, Sequences

Grown(start, step, rounds) ==
  LET grown[n \in Nat] == IF n = 0 THEN start ELSE step[grown[n - 1]] IN grown[rounds]

Scanned(op(_, _), start, s) ==
  LET at[i \in 0..Len(s)] == IF i = 0 THEN start ELSE op(at[i - 1], s[i]) IN at
=============================================================================
