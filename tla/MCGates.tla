------------------------------- MODULE MCGates -------------------------------
(***************************************************************************)
(* Small sources, tests, deployments and tables for the tools of Gates.     *)
(***************************************************************************)
EXTENDS Gates

Source(dir, test, cost) == [dir |-> dir, test |-> test, cost |-> cost, cold |-> FALSE, mock |-> FALSE]

MCCatalog ==
  << Source("census", TRUE, 1), [Source("craps", TRUE, 1) EXCEPT !.mock = TRUE], Source("fork", TRUE, 1),
     Source("fuzz", TRUE, 1), [Source("fuzz", TRUE, 1) EXCEPT !.cold = TRUE],
     Source("fuzz/invariant", TRUE, 1), Source("fuzz/invariant", TRUE, 3), Source("fuzz/invariant", TRUE, 2),
     Source("gas", TRUE, 1), Source("gas", FALSE, 1), Source("helpers", TRUE, 1), Source("stray", TRUE, 1) >>

MCHardhatTests == << {"a"}, {"a", "b"}, {"c"} >>

MCAliases == [a |-> "T"]
MCTakes == [f |-> {}, g |-> {"a"}]
MCFnType == [a |-> "T", b |-> "T", c |-> "U"]
MCRootOf == [s1 |-> "r", s2 |-> "q"]

Hash(tag, width, input) == [call |-> "entropy", tag |-> tag, width |-> width, input |-> input]
MCHashes ==
  { Hash("A", 1, "plain"), Hash("A", 2, "plain"), Hash("A", 3, "plain"), Hash("B", 2, "plain"),
    Hash("B", 2, "deployment"), Hash("computed", 2, "plain"),
    [Hash("computed", 1, "plain") EXCEPT !.call = "keccak"] }

GasLine(fn, reads, ambient) == [fn |-> fn, reads |-> reads, ambient |-> ambient]
MCGasLines ==
  { GasLine("worker", TRUE, FALSE), GasLine("worker", FALSE, TRUE), GasLine("other", FALSE, TRUE),
    GasLine("other", TRUE, FALSE) }

MCPlayerLanes == {[wild |-> FALSE, color |-> 0, symbol |-> 0]}
MCBase == [s \in 0..9 |-> 3 * s * s]
MCEthAdd == [s \in 0..9 |-> IF s < 6 THEN 0 ELSE 5 * s]
MCWwxrpTop == [s \in 8..9 |-> 31 * s]
MCWwxrpFactor == [s \in 6..9 |-> s - 4]
MCKnees == <<0, 3, 5, 30>>
MCFlipCurve == <<90, 98, 99, 100>>
MCWwxrpCurve == <<70, 124, 127, 130>>
=============================================================================
