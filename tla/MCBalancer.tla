----------------------------- MODULE MCBalancer -----------------------------
(* A small instance of Balancer: the instance of Registry, and loads that   *)
(* differ in each of the three things that are compared.                    *)
EXTENDS Balancer, MCRegistry

Load(factor, max, current) ==
    [load_factor |-> factor, max_connection |-> max, current_connection |-> current]

\* Nothing reported yet; half full, with two sizes; full.
MCLoads == {Load(9, 0, 0), Load(5, 4, 2), Load(5, 2, 1), Load(10, 2, 2)}
=============================================================================
