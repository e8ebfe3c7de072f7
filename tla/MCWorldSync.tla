---------------------------- MODULE MCWorldSync ----------------------------
(* Small instances of WorldSync: a master and its slaves, one user that      *)
(* moves between the maps.                                                  *)
EXTENDS WorldSync, TLC

CONSTANTS m0, s1, s2
=============================================================================
