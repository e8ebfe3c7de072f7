----------------------------- MODULE Mastership -----------------------------
(***************************************************************************)
(* What the registry promises about who is the master, without how nodes   *)
(* are watched and elected.  One node at a time acts as the master.  The   *)
(* registered one is deposed only when it no longer acts; the next is told *)
(* to take over at that moment or never, and takes over while nobody is    *)
(* registered.                                                             *)
(***************************************************************************)
CONSTANTS
    Nodes,
    ConfMaster,     \* the nodes that act as the master without being told
    None

VARIABLES
    acting,         \* the nodes that act as the master
    told,           \* the nodes that have been told to take over
    registered      \* whom clients and slaves are told of, or None

vars == <<acting, told, registered>>

Init ==
    /\ acting = {}
    /\ told = {}
    /\ registered = None

Vacant == acting = {} /\ registered = None

Begin(n) ==
    /\ Vacant /\ told = {}
    /\ acting' = {n}
    /\ UNCHANGED <<told, registered>>

Register(n) ==
    /\ registered = None /\ told = {}
    /\ acting \subseteq {n}
    /\ registered' = n
    /\ UNCHANGED <<acting, told>>

\* Who stops forgets what it was told, too.
Stop(n) ==
    /\ acting' = acting \ {n}
    /\ told' = told \ {n}
    /\ UNCHANGED registered

Depose ==
    /\ registered # None /\ acting = {}
    /\ registered' = None
    /\ told' = {} \/ \E n \in Nodes : told' = {n}
    /\ UNCHANGED acting

TakeOver(n) ==
    /\ Vacant /\ told = {n}
    /\ acting' = {n}
    /\ told' = {}
    /\ UNCHANGED registered

Next ==
    \/ \E n \in ConfMaster : Begin(n)
    \/ \E n \in Nodes : Register(n) \/ Stop(n) \/ TakeOver(n)
    \/ Depose

Spec == Init /\ [][Next]_vars
=============================================================================
