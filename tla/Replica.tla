------------------------------ MODULE Replica ------------------------------
(***************************************************************************)
(* What world synchronisation promises, without how it is done: every      *)
(* follower shows, as a whole, one world that the master has published, or *)
(* the empty world it began with.  It may go back to an earlier one.       *)
(***************************************************************************)
CONSTANTS
    Followers,
    Worlds,
    Empty,          \* the world of a server that has just been started
    None            \* shown by what is not a follower

VARIABLES
    past,           \* the worlds published so far
    shows           \* shows[s]: the world that follower s answers queries from

vars == <<past, shows>>

Init ==
    /\ past  = {Empty}
    /\ shows = [s \in Followers |-> None]

Publish(w) ==
    /\ past' = past \cup {w}
    /\ UNCHANGED shows

Join(s) ==
    /\ shows[s] = None
    /\ shows' = [shows EXCEPT ![s] = Empty]
    /\ UNCHANGED past

Leave(s) ==
    /\ shows' = [shows EXCEPT ![s] = None]
    /\ UNCHANGED past

Show(s, w) ==
    /\ shows[s] # None
    /\ w \in past
    /\ shows' = [shows EXCEPT ![s] = w]
    /\ UNCHANGED past

Next ==
    \/ \E w \in Worlds : Publish(w)
    \/ \E s \in Followers :
          \/ Join(s) \/ Leave(s)
          \/ \E w \in past : Show(s, w)

Spec == Init /\ [][Next]_vars
=============================================================================
