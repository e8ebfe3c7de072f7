------------------------------ MODULE Sessions ------------------------------
(***************************************************************************)
(* Sessions of clients: login, logout, writes and queries at the master    *)
(* (or at a single server) and at slaves, which forward what changes the   *)
(* world, login and logout as AddUser and DelUser; and the heartbeat       *)
(* monitor that ends the sessions of silent clients.                       *)
(*                                                                         *)
(* handle_msg_task holds the server_context mutex from its first line to   *)
(* its last and so does remove_offline_client, so each of them is one      *)
(* action.  A round of heartbeat_monitor is not: it holds only the         *)
(* heartbeat map, so handlers run between two clients it visits, and       *)
(* pings wait.  Every message is handled by a task of its own: what one    *)
(* client or one slave sent is handled in any order.                       *)
(*                                                                         *)
(* A reply reaches the client in the step that sends it.  The world is the *)
(* set of its user ids, which neither Aoe nor SetVelocity ("Write") nor    *)
(* Query changes; module World is about the users themselves.              *)
(***************************************************************************)
EXTENDS Naturals, FiniteSets

CONSTANTS
    Clients,
    Servers,
    Master,         \* the master of the cluster, or the single server
    Home,           \* Home[c]: the server that client c is connected to
    Ids,            \* bound: the user ids that are ever issued
    None,
    Waits,          \* TRUE: a client waits for a reply before it goes on
    Prompt          \* TRUE: heartbeats of live clients, and the messages about
                    \* a client, take less time than the heartbeat limit

ASSUME SessionsAssumption ==
    /\ Master \in Servers
    /\ Home \in [Clients -> Servers]
    /\ None \notin Ids /\ None \notin Clients
    /\ None \notin {"Login", "Logout", "Write", "Query", "fresh", "expired"}
    /\ {Waits, Prompt} \subseteq BOOLEAN

VARIABLES
    \* the clients
    alive, asked,       \* asked[c]: the request c has no reply to yet, or None
    \* messages on their way to the task that handles them
    requests, forwarded,
    \* the servers; client_map and last_time are keyed by client, so the maps
    \* of all servers are in one function
    client_map, last_time, issued,
    todo, del_list,     \* a monitor round: clients to visit, entries to remove
    checking,           \* is a round in progress (last_time locked)
    users               \* ids in the world of the master

clientVars  == <<alive, asked>>
monitorVars == <<todo, del_list, checking>>
vars == <<clientVars, requests, forwarded, client_map, last_time, issued,
          monitorVars, users>>

Ops     == {"Login", "Logout", "Write", "Query"}
Request == [op : Ops, client : Clients]
Forward == [op : {"AddUser", "DelUser"}, id : Ids, client : Clients \cup {None}]
              \cup [op : {"Write"}, id : {None}, client : Clients]

ClientsOf(s) == {c \in Clients : Home[c] = s}
AtMaster(c)  == Home[c] = Master

Init ==
    /\ alive      = [c \in Clients |-> TRUE]
    /\ asked      = [c \in Clients |-> None]
    /\ requests   = {}
    /\ forwarded  = {}
    /\ client_map = [c \in Clients |-> None]
    /\ last_time  = [c \in Clients |-> None]
    /\ issued     = {}
    /\ todo       = [s \in Servers |-> {}]
    /\ del_list   = [s \in Servers |-> {}]
    /\ checking   = [s \in Servers |-> FALSE]
    /\ users      = {}

-----------------------------------------------------------------------------
(* The clients.                                                             *)

\* Bound: a login is sent only while there is an id left for it.
IdLeft == Cardinality({r \in requests : r.op = "Login"})
              < Cardinality(Ids \ issued)

SendRequest(c, o) ==
    /\ alive[c]
    /\ o = "Login" => IdLeft
    /\ Waits => asked[c] = None
    /\ [op |-> o, client |-> c] \notin requests
    /\ requests' = requests \cup {[op |-> o, client |-> c]}
    /\ asked'    = [asked EXCEPT ![c] = o]
    /\ UNCHANGED <<alive, forwarded, client_map, last_time, issued, monitorVars, users>>

\* A client process ends; what it sent may still arrive.
Close(c) ==
    /\ alive[c]
    /\ alive' = [alive EXCEPT ![c] = FALSE]
    /\ \E lost \in SUBSET {r \in requests : r.client = c} : requests' = requests \ lost
    /\ UNCHANGED <<asked, forwarded, client_map, last_time, issued, monitorVars, users>>

\* heartbeat_update records a ping; it waits while a round holds the map.
Ping(c) ==
    /\ alive[c]
    /\ ~checking[Home[c]]
    /\ last_time' = [last_time EXCEPT ![c] = "fresh"]
    /\ UNCHANGED <<clientVars, requests, forwarded, client_map, issued, monitorVars, users>>

InFlight(c) == \/ \E r \in requests : r.client = c
               \/ \E f \in forwarded : f.client = c

\* The heartbeat limit passes since the last ping of c.
Lapse(c) ==
    /\ last_time[c] = "fresh"
    /\ Prompt => ~alive[c] /\ ~InFlight(c)
    /\ last_time' = [last_time EXCEPT ![c] = "expired"]
    /\ UNCHANGED <<clientVars, requests, forwarded, client_map, issued, monitorVars, users>>

-----------------------------------------------------------------------------
(* handle_msg_task                                                          *)

\* Messages to the master.  The identity of the client comes back with the
\* answer; None if nobody waits for one.
AddUserMsg(id, c)  == [op |-> "AddUser", id |-> id, client |-> c]
DelUserMsg(id, to) == [op |-> "DelUser", id |-> id, client |-> to]

Reply(c) == asked' = [asked EXCEPT ![c] = None]

\* IdInstance::next_id.  Every process runs its generator with worker_id(1): that
\* two of them do not issue the same id is assumed.
NextId(id) ==
    /\ id \notin issued
    /\ issued' = issued \cup {id}

Login(c) ==
    /\ [op |-> "Login", client |-> c] \in requests
    /\ requests' = requests \ {[op |-> "Login", client |-> c]}
    /\ \/ /\ client_map[c] # None
          /\ Reply(c)
          /\ UNCHANGED <<client_map, issued, users, forwarded>>
       \/ /\ client_map[c] = None
          /\ \E id \in Ids :
                /\ NextId(id)
                /\ client_map' = [client_map EXCEPT ![c] = id]
                /\ \/ /\ AtMaster(c)
                      /\ users' = users \cup {id}
                      /\ Reply(c)
                      /\ UNCHANGED forwarded
                   \/ /\ ~AtMaster(c)
                      /\ forwarded' = forwarded \cup {AddUserMsg(id, c)}
                      /\ UNCHANGED <<users, asked>>
    /\ UNCHANGED <<alive, last_time, monitorVars>>

\* remove_user_by_client_id, where the world is this server's own.
EndOwn(c) ==
    /\ client_map' = [client_map EXCEPT ![c] = None]
    /\ users'      = users \ {client_map[c]}
    /\ UNCHANGED forwarded

\* A slave forgets the session of c and tells the master, which answers `to`.
EndForwarded(c, to) ==
    /\ client_map' = [client_map EXCEPT ![c] = None]
    /\ forwarded'  = forwarded \cup {DelUserMsg(client_map[c], to)}
    /\ UNCHANGED users

\* At a slave a client that is not logged in makes the handler panic on an
\* unwrap: the task ends without a reply.
Logout(c) ==
    /\ [op |-> "Logout", client |-> c] \in requests
    /\ requests' = requests \ {[op |-> "Logout", client |-> c]}
    /\ \/ AtMaster(c) /\ EndOwn(c) /\ Reply(c)
       \/ ~AtMaster(c) /\ client_map[c] # None /\ EndForwarded(c, c) /\ UNCHANGED asked
       \/ /\ ~AtMaster(c) /\ client_map[c] = None
          /\ UNCHANGED <<client_map, users, forwarded, asked>>
    /\ UNCHANGED <<alive, last_time, issued, monitorVars>>

\* Mutant: the master does not pass the peer identity of the client back.
AddUserSilently(f) ==
    /\ f.op = "AddUser"
    /\ forwarded' = forwarded \ {f}
    /\ users'     = users \cup {f.id}
    /\ UNCHANGED <<clientVars, requests, client_map, last_time, issued, monitorVars>>

AddUser(f) ==
    /\ f.op = "AddUser"
    /\ forwarded' = forwarded \ {f}
    /\ users'     = users \cup {f.id}
    /\ Reply(f.client)
    /\ UNCHANGED <<alive, requests, client_map, last_time, issued, monitorVars>>

DelUser(f) ==
    /\ f.op = "DelUser"
    /\ forwarded' = forwarded \ {f}
    /\ users'     = users \ {f.id}
    /\ IF f.client = None THEN UNCHANGED asked ELSE Reply(f.client)
    /\ UNCHANGED <<alive, requests, client_map, last_time, issued, monitorVars>>

\* redirect_msg_to_master, with the identity of the client in the message.
Redirect(c) ==
    forwarded' = forwarded \cup {[op |-> "Write", id |-> None, client |-> c]}

\* Aoe and SetVelocity
Write(c) ==
    /\ [op |-> "Write", client |-> c] \in requests
    /\ requests' = requests \ {[op |-> "Write", client |-> c]}
    /\ \/ AtMaster(c) /\ Reply(c) /\ UNCHANGED forwarded
       \/ ~AtMaster(c) /\ Redirect(c) /\ UNCHANGED asked
    /\ UNCHANGED <<alive, client_map, last_time, issued, monitorVars, users>>

ForwardedWrite(f) ==
    /\ f.op = "Write"
    /\ forwarded' = forwarded \ {f}
    /\ Reply(f.client)
    /\ UNCHANGED <<alive, requests, client_map, last_time, issued, monitorVars, users>>

\* Every server answers a query from its own world.
Query(c) ==
    /\ [op |-> "Query", client |-> c] \in requests
    /\ requests' = requests \ {[op |-> "Query", client |-> c]}
    /\ Reply(c)
    /\ UNCHANGED <<alive, forwarded, client_map, last_time, issued, monitorVars, users>>

-----------------------------------------------------------------------------
(* heartbeat_monitor                                                        *)

StartRound(s) ==
    /\ ~checking[s]
    /\ checking' = [checking EXCEPT ![s] = TRUE]
    /\ todo'     = [todo EXCEPT ![s] = {c \in ClientsOf(s) : last_time[c] # None}]
    /\ UNCHANGED <<clientVars, requests, forwarded, client_map, last_time, issued,
                   del_list, users>>

\* Mutant: a slave ends the session without telling the master.
RemoveOfflineQuietly(c) ==
    \/ AtMaster(c) /\ EndOwn(c)
    \/ /\ ~AtMaster(c)
       /\ client_map' = [client_map EXCEPT ![c] = None]
       /\ UNCHANGED <<users, forwarded>>

\* Mutant: a slave tells the master and keeps its own entry.
RemoveOfflineHalf(c) ==
    \/ AtMaster(c) /\ EndOwn(c)
    \/ /\ ~AtMaster(c) /\ client_map[c] # None
       /\ forwarded' = forwarded \cup {DelUserMsg(client_map[c], None)}
       /\ UNCHANGED <<client_map, users>>
    \/ /\ ~AtMaster(c) /\ client_map[c] = None
       /\ UNCHANGED <<client_map, users, forwarded>>

\* Mutant: a slave does not look whether the client is logged in.
RemoveOfflineUnchecked(c) ==
    \/ AtMaster(c) /\ EndOwn(c)
    \/ ~AtMaster(c) /\ EndForwarded(c, None)

\* remove_offline_client
RemoveOffline(c) ==
    \/ AtMaster(c) /\ EndOwn(c)
    \/ ~AtMaster(c) /\ client_map[c] # None /\ EndForwarded(c, None)
    \/ /\ ~AtMaster(c) /\ client_map[c] = None
       /\ UNCHANGED <<client_map, users, forwarded>>

Visit(s, c) ==
    /\ checking[s]
    /\ c \in todo[s]
    /\ todo' = [todo EXCEPT ![s] = @ \ {c}]
    /\ \/ /\ last_time[c] = "expired"
          /\ del_list' = [del_list EXCEPT ![s] = @ \cup {c}]
          /\ RemoveOffline(c)
       \/ /\ last_time[c] # "expired"
          /\ UNCHANGED <<del_list, client_map, users, forwarded>>
    /\ UNCHANGED <<clientVars, requests, last_time, issued, checking>>

\* Mutant: the round clears the whole map.
EndRoundClears(s) ==
    /\ checking[s] /\ todo[s] = {}
    /\ last_time' = [c \in Clients |-> IF Home[c] = s THEN None ELSE last_time[c]]
    /\ del_list'  = [del_list EXCEPT ![s] = {}]
    /\ checking'  = [checking EXCEPT ![s] = FALSE]
    /\ UNCHANGED <<clientVars, requests, forwarded, client_map, issued, todo, users>>

\* The entries of the clients found offline are removed at the end of the
\* round, whatever those clients have done since they were visited.
EndRound(s) ==
    /\ checking[s] /\ todo[s] = {}
    /\ last_time' = [c \in Clients |-> IF c \in del_list[s] THEN None ELSE last_time[c]]
    /\ del_list'  = [del_list EXCEPT ![s] = {}]
    /\ checking'  = [checking EXCEPT ![s] = FALSE]
    /\ UNCHANGED <<clientVars, requests, forwarded, client_map, issued, todo, users>>

-----------------------------------------------------------------------------
Handle(c)  == Login(c) \/ Logout(c) \/ Write(c) \/ Query(c)
Apply(f)   == AddUser(f) \/ DelUser(f) \/ ForwardedWrite(f)
Monitor(s) == StartRound(s) \/ EndRound(s) \/ \E c \in Clients : Visit(s, c)

Next ==
    \/ \E c \in Clients :
          \/ \E o \in Ops : SendRequest(c, o)
          \/ Close(c) \/ Ping(c) \/ Lapse(c) \/ Handle(c)
    \/ \E f \in forwarded : Apply(f)
    \/ \E s \in Servers : Monitor(s)

Spec == Init /\ [][Next]_vars

(* tokio runs every spawned task and the monitor's loop, and the mutexes are *)
(* fair; time passes for a client that has stopped.  Nobody has to log in,   *)
(* to log out, or to stop.                                                  *)
Fairness ==
    /\ \A c \in Clients :
          /\ WF_vars(Login(c))
          /\ WF_vars(Logout(c))
          /\ WF_vars(Write(c))
          /\ WF_vars(Query(c))
          /\ WF_vars(~alive[c] /\ Lapse(c))
    /\ \A f \in Forward : WF_vars(f \in forwarded /\ Apply(f))
    /\ \A s \in Servers : WF_vars(Monitor(s))

FairSpec == Spec /\ Fairness

-----------------------------------------------------------------------------
(* Properties.                                                              *)

TypeOK ==
    /\ alive      \in [Clients -> BOOLEAN]
    /\ asked      \in [Clients -> Ops \cup {None}]
    /\ requests   \subseteq Request
    /\ forwarded  \subseteq Forward
    /\ client_map \in [Clients -> Ids \cup {None}]
    /\ last_time  \in [Clients -> {None, "fresh", "expired"}]
    /\ issued     \subseteq Ids
    /\ todo       \in [Servers -> SUBSET Clients]
    /\ del_list   \in [Servers -> SUBSET Clients]
    /\ checking   \in [Servers -> BOOLEAN]
    /\ users      \subseteq Ids

(* A logged in client has its user in the master's world, or the AddUser     *)
(* that puts it there is on its way: no order of handling, and no round of   *)
(* the monitor, takes the user away while its session lasts.                *)
SessionHasUser ==
    \A c \in Clients : client_map[c] # None =>
        \/ client_map[c] \in users
        \/ \E f \in forwarded : f.op = "AddUser" /\ f.id = client_map[c]

(* A user in the master's world belongs to a session of some server, or the  *)
(* DelUser that removes it is on its way: none is left behind for ever.     *)
NoOrphan ==
    \A id \in users :
        \/ \E c \in Clients : client_map[c] = id
        \/ \E f \in forwarded : f.op = "DelUser" /\ f.id = id

(* When a client has closed, the server ends its session, provided that a    *)
(* ping of it is on record and that no request of it is handled between its *)
(* visit and the end of that round.                                         *)
Watched(c) ==
    /\ ~alive[c]
    /\ last_time[c] # None
    /\ \A r \in requests : r.client # c
    /\ c \notin del_list[Home[c]]

WatchedCleared == \A c \in Clients : Watched(c) ~> client_map[c] = None

(* Whatever a client asks for is answered unless it has closed, also if it   *)
(* is connected to a slave and the answer is the master's.  The exception   *)
(* is a logout: at a slave it is not if the session is gone.                *)
Answered ==
    \A c \in Clients : \A o \in Ops \ {"Logout"} :
        asked[c] = o ~> (asked[c] # o \/ ~alive[c])
=============================================================================
