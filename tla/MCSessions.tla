----------------------------- MODULE MCSessions -----------------------------
(* A small instance of Sessions: a master m and a slave s with one client   *)
(* each.                                                                    *)
EXTENDS Sessions, TLC

CONSTANTS m, s, cm, cs

OneEach == (cm :> m) @@ (cs :> s)
=============================================================================
