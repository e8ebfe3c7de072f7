------------------------------ MODULE Registry ------------------------------
(***************************************************************************)
(* The registry center and the nodes it supervises.                        *)
(*                                                                         *)
(* The registry keeps one AppContext behind a tokio mutex.  Every message  *)
(* is handled by a task of its own, which takes that mutex once or several *)
(* times; heartbeat_monitor takes it once per round.  An action of this    *)
(* module is one critical section of that mutex, so the steps of several   *)
(* registrations, of the monitor and of the election interleave exactly at *)
(* the places where the code unlocks.                                      *)
(*                                                                         *)
(* A node is identified by its key (NodeInfo::get_key); a restart of the   *)
(* node gives it a new connection, so a peer identity is the number of the *)
(* incarnation that opened the connection.                                 *)
(***************************************************************************)
EXTENDS Naturals, FiniteSets

CONSTANTS
    Nodes,          \* keys of the server nodes
    ConfMaster,     \* the nodes whose configuration file says Master
    None,           \* Rust's None
    OfflineLimit,   \* monitor rounds of silence after which a node is offline
    MaxStarts,      \* bound: how often each node may be started
    MaxCrashes,     \* bound: how many crashes may happen in all
    KeepsUp         \* TRUE: reports of a live node are handled in time

ASSUME RegistryAssumption ==
    /\ ConfMaster \subseteq Nodes
    /\ None \notin Nodes
    /\ None \notin Nat
    /\ None \notin {"Master", "Slave"}
    /\ OfflineLimit \in Nat
    /\ MaxStarts \in [Nodes -> Nat]
    /\ MaxCrashes \in Nat
    /\ KeepsUp \in BOOLEAN

VARIABLES
    \* AppContext
    node_list,      \* node_list[n]: the registered NodeType of n, or None
    node_state,     \* node_state[n]: rounds since the last report, or None
    master_node,    \* the node registered as the master, or None
    peer_map,       \* node_id_peer_id_map
    \* tasks of the registry process
    monitor,        \* heartbeat_monitor: "running" or "panicked"
    regTasks,       \* Register handlers between two critical sections
    \* messages in flight
    toRegistry, toNode,
    \* the server processes
    up,             \* is the process of n alive and serving
    inc,            \* how often n was started: the peer identity it uses
    node_type,      \* ServerContext::node_type of n
    crashes

registryVars == <<node_list, node_state, master_node, peer_map, monitor, regTasks>>
nodeVars     == <<up, inc, node_type, crashes>>
vars         == <<registryVars, toRegistry, toNode, nodeVars>>

NodeTypes  == {"Master", "Slave"}
Stages     == {"master_check", "master_set", "slave_check", "insert"}
RegTask    == [node : Nodes, peer : Nat, stage : Stages]
RequestOps == {"Register", "Report", "ConvertToMasterResp"}
CommandOps == {"RegisterOk", "RegisterFail", "ConvertToMaster", "ChangeMaster"}
Request    == [op : RequestOps, node : Nodes, peer : Nat]
Command    == [op : CommandOps, node : Nodes, peer : Nat]

ConfType(n)    == IF n \in ConfMaster THEN "Master" ELSE "Slave"
Listed(n)      == node_list[n] # None
HasState(n)    == node_state[n] # None
ListedNodes    == {n \in Nodes : Listed(n)}

Init ==
    /\ node_list   = [n \in Nodes |-> None]
    /\ node_state  = [n \in Nodes |-> None]
    /\ master_node = None
    /\ peer_map    = [n \in Nodes |-> None]
    /\ monitor     = "running"
    /\ regTasks    = {}
    /\ toRegistry  = {}
    /\ toNode      = {}
    /\ up          = [n \in Nodes |-> FALSE]
    /\ inc         = [n \in Nodes |-> 0]
    /\ node_type   = [n \in Nodes |-> ConfType(n)]
    /\ crashes     = 0

-----------------------------------------------------------------------------
(* Messages.  The router socket finds the connection of a peer identity; a  *)
(* message to a connection that is gone is logged and lost.                 *)

Req(o, n, p) == [op |-> o, node |-> n, peer |-> p]

\* The commands of cs whose connection is still open.
Deliverable(cs) == {c \in cs : up[c.node] /\ inc[c.node] = c.peer}

Send(cs) == toNode' = toNode \cup Deliverable(cs)

-----------------------------------------------------------------------------
(* handle_msg_task: Register, one action per critical section.              *)

\* A task for message m starts: is the key registered already?
RegisterCheckListed(m) ==
    /\ m.op = "Register"
    /\ toRegistry' = toRegistry \ {m}
    /\ \/ /\ Listed(m.node)
          /\ Send({Req("RegisterFail", m.node, m.peer)})
          /\ UNCHANGED regTasks
       \/ /\ ~Listed(m.node)
          /\ regTasks' = regTasks \cup
                {[node |-> m.node, peer |-> m.peer,
                  stage |-> IF ConfType(m.node) = "Master" THEN "master_check"
                                                           ELSE "slave_check"]}
          /\ UNCHANGED toNode
    /\ UNCHANGED <<node_list, node_state, master_node, peer_map, monitor, nodeVars>>

GoTo(t, stage) == regTasks' = (regTasks \ {t}) \cup {[t EXCEPT !.stage = stage]}

Refuse(t) ==
    /\ regTasks' = regTasks \ {t}
    /\ Send({Req("RegisterFail", t.node, t.peer)})

\* A master may register only while there is no master.
RegisterMasterCheck(t) ==
    /\ t.stage = "master_check"
    /\ \/ master_node # None /\ Refuse(t)
       \/ master_node = None /\ GoTo(t, "master_set") /\ UNCHANGED toNode
    /\ UNCHANGED <<node_list, node_state, master_node, peer_map, monitor,
                   toRegistry, nodeVars>>

\* ... and takes the mutex again to become it.
RegisterMasterSet(t) ==
    /\ t.stage = "master_set"
    /\ master_node' = t.node
    /\ GoTo(t, "insert")
    /\ UNCHANGED <<node_list, node_state, peer_map, monitor, toRegistry, toNode,
                   nodeVars>>

\* A slave may register only while there is a master.
RegisterSlaveCheck(t) ==
    /\ t.stage = "slave_check"
    /\ \/ master_node = None /\ Refuse(t)
       \/ master_node # None /\ GoTo(t, "insert") /\ UNCHANGED toNode
    /\ UNCHANGED <<node_list, node_state, master_node, peer_map, monitor,
                   toRegistry, nodeVars>>

\* Mutant: the peer is recorded only when a node registers again.
RecordPeerAgain(t) ==
    peer_map' = IF t.peer > 1 THEN [peer_map EXCEPT ![t.node] = t.peer] ELSE peer_map

RecordPeer(t) == peer_map' = [peer_map EXCEPT ![t.node] = t.peer]

RegisterInsert(t) ==
    /\ t.stage = "insert"
    /\ node_list'  = [node_list  EXCEPT ![t.node] = ConfType(t.node)]
    /\ node_state' = [node_state EXCEPT ![t.node] = 0]
    /\ RecordPeer(t)
    /\ regTasks'   = regTasks \ {t}
    /\ Send({Req("RegisterOk", t.node, t.peer)})
    /\ UNCHANGED <<master_node, monitor, toRegistry, nodeVars>>

(* handle_msg_task: Report and ConvertToMasterResp.                         *)

\* A report of a node without a state entry is ignored.
Report(m) ==
    /\ m.op = "Report"
    /\ toRegistry' = toRegistry \ {m}
    /\ node_state' = IF HasState(m.node)
                     THEN [node_state EXCEPT ![m.node] = 0]
                     ELSE node_state
    /\ UNCHANGED <<node_list, master_node, peer_map, monitor, regTasks, toNode,
                   nodeVars>>

\* The elected node confirms; neither node_state nor the peer map is touched.
ConvertToMasterResp(m) ==
    /\ m.op = "ConvertToMasterResp"
    /\ toRegistry'  = toRegistry \ {m}
    /\ master_node' = m.node
    /\ node_list'   = [node_list EXCEPT ![m.node] = "Master"]
    /\ UNCHANGED <<node_state, peer_map, monitor, regTasks, toNode, nodeVars>>

-----------------------------------------------------------------------------
(* heartbeat_monitor: a round is one critical section, the election in it    *)
(* and the sleep after it too: the guard lives to the end of the loop body. *)

\* Mutant: >= became >, one round more.
SilentLate == {n \in Nodes : HasState(n) /\ node_state[n] = OfflineLimit + 1}

Silent == {n \in Nodes : node_state[n] = OfflineLimit}

\* Mutant: the sweep forgets node_list.
SweptListKept == node_list

\* What the sweep of a round leaves of node_list ...
SweptList == [n \in Nodes |-> IF n \in Silent THEN None ELSE node_list[n]]

\* Mutant: the sweep forgets node_state.
SweptStateKept ==
    [n \in Nodes |-> IF n \in Silent \/ ~HasState(n) THEN node_state[n]
                     ELSE node_state[n] + 1]

\* Mutant: silence is not measured.
SweptStateFresh ==
    [n \in Nodes |-> IF n \in Silent THEN None ELSE node_state[n]]

\* ... and of node_state, where the entries that stay are a round older.
SweptState ==
    [n \in Nodes |-> IF n \in Silent \/ ~HasState(n) THEN None
                     ELSE node_state[n] + 1]

\* Mutant: the old master is not cleared.
MasterKept == master_node

\* A master found offline is cleared before the election.
MasterAfterRound == IF master_node \in Silent THEN None ELSE master_node

\* Mutant: every listed node is told to convert.
ConvertAll(s, listed) ==
    Send({Req("ConvertToMaster", n, peer_map[n]) : n \in listed})

\* elect_master sends ConvertToMaster to the elected node and ChangeMaster to
\* the others; master_node waits for the answer.
Convert(s, listed) ==
    Send({Req(IF n = s THEN "ConvertToMaster" ELSE "ChangeMaster", n, peer_map[n])
          : n \in listed})

\* get_min_load_node starts from an arbitrary key of node_list, whose state it
\* unwraps: an entry without one ends the monitor task.  Which of the listed
\* nodes with a state has the least load is left open.
ElectMaster ==
    LET listed == {n \in Nodes : SweptList[n] # None} IN
    \/ /\ listed = {}
       /\ UNCHANGED <<monitor, toNode>>
    \/ /\ \E n \in listed : SweptState[n] = None
       /\ monitor' = "panicked"
       /\ UNCHANGED toNode
    \/ /\ \E n \in listed : SweptState[n] # None
       /\ \E s \in listed : SweptState[s] # None /\ Convert(s, listed)
       /\ UNCHANGED monitor

\* With KeepsUp, no round comes so late that a live node has become silent.
MonitorRound ==
    /\ monitor = "running"
    /\ KeepsUp => \A n \in Silent : ~up[n]
    /\ node_list'  = SweptList
    /\ node_state' = SweptState
    /\ master_node' = MasterAfterRound
    /\ IF master_node \in Silent THEN ElectMaster ELSE UNCHANGED <<monitor, toNode>>
    /\ UNCHANGED <<peer_map, regTasks, toRegistry, nodeVars>>

-----------------------------------------------------------------------------
(* The server nodes.                                                        *)

\* Only a process configured as the master binds the pub socket (do_master);
\* a converted slave does not.
Publishes(n) == n \in ConfMaster /\ up[n]

\* run: a node sends Register.  A slave then connects to the master it was
\* told of; if there was none, or its pub socket is gone, it never gets to the
\* loops that report and serve.
Start(n) ==
    /\ ~up[n]
    /\ inc[n] < MaxStarts[n]
    /\ inc' = [inc EXCEPT ![n] = @ + 1]
    /\ up'  = [up  EXCEPT ![n] =
                  \/ n \in ConfMaster
                  \/ master_node \in Nodes /\ Publishes(master_node)]
    /\ node_type'  = [node_type EXCEPT ![n] = ConfType(n)]
    /\ toRegistry' = toRegistry \cup {Req("Register", n, inc[n] + 1)}
    /\ UNCHANGED <<registryVars, toNode, crashes>>

\* world_update_thread spawns a report on every tick.
SendReport(n) ==
    /\ up[n]
    /\ Req("Report", n, inc[n]) \notin toRegistry
    /\ toRegistry' = toRegistry \cup {Req("Report", n, inc[n])}
    /\ UNCHANGED <<registryVars, toNode, nodeVars>>

ReceiveRegisterOk(c) ==
    /\ c.op = "RegisterOk"
    /\ toNode' = toNode \ {c}
    /\ UNCHANGED <<registryVars, toRegistry, nodeVars>>

\* A dead process has no connection: what was sent to it is gone, and what it
\* sent may be lost.
Gone(n) ==
    /\ up' = [up EXCEPT ![n] = FALSE]
    /\ toNode' = {c \in toNode : c.node # n}
    /\ \E lost \in SUBSET {m \in toRegistry : m.node = n} :
           toRegistry' = toRegistry \ lost

\* A refused node exits.
ReceiveRegisterFail(c) ==
    /\ c.op = "RegisterFail"
    /\ Gone(c.node)
    /\ UNCHANGED <<registryVars, inc, node_type, crashes>>

\* Mutant: the node converts and does not answer.
ConvertSilently(c) ==
    /\ c.op = "ConvertToMaster"
    /\ node_type' = [node_type EXCEPT ![c.node] = "Master"]
    /\ toNode'    = toNode \ {c}
    /\ UNCHANGED <<registryVars, toRegistry, up, inc, crashes>>

\* convert_self_to_master
ReceiveConvertToMaster(c) ==
    /\ c.op = "ConvertToMaster"
    /\ node_type'  = [node_type EXCEPT ![c.node] = "Master"]
    /\ toNode'     = toNode \ {c}
    /\ toRegistry' = toRegistry \cup {Req("ConvertToMasterResp", c.node, c.peer)}
    /\ UNCHANGED <<registryVars, up, inc, crashes>>

\* ChangeMaster is only logged.
ReceiveChangeMaster(c) ==
    /\ c.op = "ChangeMaster"
    /\ toNode' = toNode \ {c}
    /\ UNCHANGED <<registryVars, toRegistry, nodeVars>>

Crash(n) ==
    /\ up[n]
    /\ crashes < MaxCrashes
    /\ crashes' = crashes + 1
    /\ Gone(n)
    /\ UNCHANGED <<registryVars, inc, node_type>>

-----------------------------------------------------------------------------
HandleRequest(m) == RegisterCheckListed(m) \/ Report(m) \/ ConvertToMasterResp(m)

RegisterStep(t) == \/ RegisterMasterCheck(t) \/ RegisterMasterSet(t)
                   \/ RegisterSlaveCheck(t)  \/ RegisterInsert(t)

HandleCommand(c) == \/ ReceiveRegisterOk(c)      \/ ReceiveRegisterFail(c)
                    \/ ReceiveConvertToMaster(c) \/ ReceiveChangeMaster(c)

Next ==
    \/ \E m \in toRegistry : HandleRequest(m)
    \/ \E t \in regTasks : RegisterStep(t)
    \/ MonitorRound
    \/ \E c \in toNode : HandleCommand(c)
    \/ \E n \in Nodes : Start(n) \/ SendReport(n) \/ Crash(n)

Spec == Init /\ [][Next]_vars

(* The tokio runtimes of the registry and of the servers run every spawned  *)
(* task, and TCP delivers what was sent on an open connection.  Nothing      *)
(* forces a node to start or to crash.                                       *)
Fairness ==
    /\ \A n \in Nodes : \A o \in RequestOps :
          WF_vars(\E m \in toRegistry : m.op = o /\ m.node = n /\ HandleRequest(m))
    /\ \A n \in Nodes :
          /\ WF_vars(\E t \in regTasks : t.node = n /\ RegisterStep(t))
          /\ WF_vars(\E c \in toNode : c.node = n /\ HandleCommand(c))
          /\ WF_vars(SendReport(n))
    /\ WF_vars(MonitorRound)

FairSpec == Spec /\ Fairness

-----------------------------------------------------------------------------
(* Properties.                                                              *)

TypeOK ==
    /\ node_list   \in [Nodes -> NodeTypes \cup {None}]
    /\ node_state  \in [Nodes -> (0..OfflineLimit) \cup {None}]
    /\ master_node \in Nodes \cup {None}
    /\ peer_map    \in [Nodes -> Nat \cup {None}]
    /\ monitor     \in {"running", "panicked"}
    /\ regTasks    \subseteq RegTask
    /\ toRegistry  \subseteq Request
    /\ toNode      \subseteq Command
    /\ up          \in [Nodes -> BOOLEAN]
    /\ inc         \in [Nodes -> Nat]
    /\ node_type   \in [Nodes -> NodeTypes]
    /\ crashes     \in Nat

(* Whoever elect_master writes to has a peer identity: its two              *)
(* expect("no peer_id found") never fail, although ConvertToMasterResp       *)
(* lists a node without recording a peer.                                   *)
PeerKnown == \A n \in Nodes : Listed(n) => peer_map[n] # None

(* The registered master is in node_list, or the handler that registers it  *)
(* is about to insert it: the sections of Register never leave a master     *)
(* that the monitor cannot see.                                             *)
MasterListed ==
    master_node # None =>
        \/ Listed(master_node)
        \/ \E t \in regTasks : t.node = master_node /\ t.stage = "insert"

(* node_state never has an entry that node_list lacks: get_min_load_node,   *)
(* which scans node_state and looks the winner up in node_list, finds it.   *)
StateListed == \A n \in Nodes : HasState(n) => Listed(n)

(* "only one master node can exist": the registry never lists two masters.  *)
OneMasterListed ==
    \A m, n \in Nodes : node_list[m] = "Master" /\ node_list[n] = "Master" => m = n

ActingMasters == {n \in Nodes : up[n] /\ node_type[n] = "Master"}

(* elect_master takes for granted that the old master is gone: at no time   *)
(* do two live processes update the world as its master.                    *)
OneActingMaster == Cardinality(ActingMasters) <= 1

(* A listed node is in the care of the monitor: without a node_state entry  *)
(* it could never be found offline, and get_min_load_node would panic on it.*)
(* The one exception is a master that was swept before it confirmed.        *)
ListedHasState == \A n \in Nodes : Listed(n) => HasState(n) \/ master_node = n

(* The master changes hands only through None, that is through the monitor  *)
(* having found the old one offline: no answer and no registration replaces *)
(* a registered master.                                                     *)
MasterHandover ==
    [][master_node # None => master_node' \in {master_node, None}]_vars

\* The nodes with a ConvertToMaster on its way.
Told == {c.node : c \in {d \in toNode : d.op = "ConvertToMaster"}}

Masterships ==
    INSTANCE Mastership WITH acting <- ActingMasters, told <- Told, registered <- master_node

(* Registrations, rounds, elections, confirmations and crashes, in whatever  *)
(* order their sections and messages come, implement Mastership: no master  *)
(* is deposed that still acts, nobody takes over from one that is           *)
(* registered, and a second node is told only when the first has ended.     *)
ImplementsMastership == Masterships!Spec

(* A node that the registry orders to convert becomes the registered master *)
(* unless it stops first.                                                   *)
ElectedTakesOver ==
    \A n \in Nodes :
        (\E c \in toNode : c.op = "ConvertToMaster" /\ c.node = n)
            ~> (master_node = n \/ ~up[n])

(* A master that died while the monitor watched it does not stay the        *)
(* registered one.                                                          *)
DeadMasterNoticed ==
    \A n \in Nodes :
        (master_node = n /\ ~up[n] /\ HasState(n)) ~> (master_node # n \/ up[n])

(* High availability: as long as a listed node is alive, the registry does  *)
(* not remain without a live master.                                        *)
HasLiveMaster  == master_node \in Nodes /\ up[master_node]
LiveCandidate  == \E n \in Nodes : up[n] /\ Listed(n)
HighAvailability == (~HasLiveMaster /\ LiveCandidate) ~> (HasLiveMaster \/ ~LiveCandidate)
=============================================================================
