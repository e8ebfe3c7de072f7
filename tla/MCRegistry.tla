----------------------------- MODULE MCRegistry -----------------------------
(* Small instances of Registry: one node configured as the master and two   *)
(* slaves.                                                                  *)
EXTENDS Registry, TLC

CONSTANTS m0, s1, s2

MCNodes == {m0, s1, s2}

OneMaster  == {m0}
TwoMasters == {m0, s1}

OneStart  == [n \in MCNodes |-> 1]
\* The configured master may come back once.
MasterReturns == [n \in MCNodes |-> IF n = m0 THEN 2 ELSE 1]

SlaveSymmetry == Permutations({s1, s2})
=============================================================================
