------------------------------ MODULE Balancer ------------------------------
(***************************************************************************)
(* A client asks the registry for a server (GET /connection) while nodes   *)
(* register, report, crash and are elected.                                *)
(*                                                                         *)
(* get_load_banlance_connection takes the registry's mutex three times:    *)
(* for a copy of node_state, for a copy of node_list, and for master_node. *)
(* Each is an action; the steps of Registry fit between them.              *)
(*                                                                         *)
(* What the nodes have reported is part of the copy of node_state.  No     *)
(* step depends on it before the choice, which is where it is picked.      *)
(***************************************************************************)
EXTENDS Registry, SequencesExt

CONSTANTS
    Loads           \* the StateInfo that nodes may have reported

Full == 10          \* a load_factor of 1.0; load factors count tenths

ASSUME LoadsAssumption ==
    Loads \subseteq [load_factor : Nat, max_connection : Nat, current_connection : Nat]

\* What becomes of the client is told apart from the server it is given.
ASSUME ClientAssumption ==
    {"waiting", "panicked"} \cap Nodes = {}

VARIABLES
    stage,          \* of the request: which copy is next
    seen_states,    \* the keys in the copy of node_state
    seen_list,      \* the keys in the copy of node_list
    client          \* what became of the client that asks

requestVars  == <<stage, seen_states, seen_list>>
balancerVars == <<vars, requestVars, client>>

StateKeys == {n \in Nodes : HasState(n)}

-----------------------------------------------------------------------------
(* The choice.                                                              *)

\* Mutant: the larger node wins whatever its load is.
BetterLarger(a, b) ==
    a.load_factor < b.load_factor \/ a.max_connection > b.max_connection

\* Less loaded; else, larger; else, with fewer connections.
Better(a, b) ==
    \/ a.load_factor < b.load_factor
    \/ /\ a.load_factor = b.load_factor
       /\ \/ a.max_connection > b.max_connection
          \/ /\ a.max_connection = b.max_connection
             /\ a.current_connection < b.current_connection

\* The loop over the states in one order: the best key after k of them.
Scan(load, first, order) ==
    LET best[k \in 0..Len(order)] ==
            IF k = 0 THEN first
            ELSE IF Better(load[order[k]], load[best[k - 1]]) THEN order[k]
            ELSE best[k - 1]
    IN  best[Len(order)]

\* get_min_load_node: from some key of the list, through the states in the
\* order of the hash map.
MinLoadNodes(states, list, load) ==
    {Scan(load, first, order) : first \in list \cap states, order \in SetToSeqs(states)}

\* Resp
RespSuccess(n) == [code |-> 21000000, data |-> n]
RespFail       == [code |-> 500, data |-> None]
Panicked       == [code |-> 0, data |-> None]   \* the connection is closed

\* Mutant: the master stays a candidate.
CandidatesAll(keys, master) == keys

Candidates(keys, master) == keys \ {master}

\* get_load_banlance_connection: everything it may answer.
Answers(states, list, master, load) ==
    LET s == Candidates(states, master)
        l == Candidates(list, master)
    IN  CASE list = {}             -> {RespFail}
          [] Cardinality(list) = 1 -> {RespSuccess(n) : n \in list}
          [] Cardinality(list) > 1 /\ master = None -> {Panicked}
          [] OTHER ->
               {IF n \in l /\ load[n].load_factor < Full THEN RespSuccess(n) ELSE RespFail
                   : n \in MinLoadNodes(s, l, load)}
               \cup {Panicked : n \in l \ s}

\* Mutant: the code of the response is not looked at.
ServerOfAny(resp) == resp.data

\* get_server_connection; without a server the client panics.
ServerOf(resp) ==
    IF resp.code \in {RespFail.code, Panicked.code} THEN "panicked" ELSE resp.data

-----------------------------------------------------------------------------
BalancerInit ==
    /\ Init
    /\ stage = "states"
    /\ seen_states = {} /\ seen_list = {}
    /\ client = "waiting"

\* The request arrives; node_state is cloned.
CopyStates ==
    /\ stage = "states"
    /\ stage' = "list"
    /\ seen_states' = StateKeys
    /\ UNCHANGED <<vars, seen_list, client>>

CopyList ==
    /\ stage = "list"
    /\ stage' = "master"
    /\ seen_list' = ListedNodes
    /\ UNCHANGED <<vars, seen_states, client>>

\* master_node is read, if it is needed, and the request answered.
Answer ==
    /\ stage = "master"
    /\ stage' = "answered"
    /\ \E resp \in UNION {Answers(seen_states, seen_list, master_node, load)
                             : load \in [seen_states -> Loads]} :
           client' = ServerOf(resp)
    /\ seen_states' = {} /\ seen_list' = {}
    /\ UNCHANGED vars

\* The client connects to the server that it was given.
Connect ==
    /\ stage = "answered" /\ client \in Nodes
    /\ stage' = "connected"
    /\ client' = IF up[client] THEN client ELSE "panicked"
    /\ UNCHANGED <<vars, seen_states, seen_list>>

BalancerNext ==
    \/ Next /\ UNCHANGED <<requestVars, client>>
    \/ CopyStates \/ CopyList \/ Answer \/ Connect

BalancerSpec == BalancerInit /\ [][BalancerNext]_balancerVars

-----------------------------------------------------------------------------
(* Properties.                                                              *)

\* The types; every node that a copy holds was registered by a started process.
BalancerTypeOK ==
    /\ stage       \in {"states", "list", "master", "answered", "connected"}
    /\ seen_states \subseteq {n \in Nodes : inc[n] > 0}
    /\ seen_list   \subseteq {n \in Nodes : inc[n] > 0}
    /\ client      \in Nodes \cup {"waiting", "panicked"}

(* "the node with the least load that is not the master": however the        *)
(* registry changes between the copies, a client that had a choice is not   *)
(* sent to the process that acts as the master at that moment, not even     *)
(* while an elected one has converted and not yet been confirmed.           *)
SlaveGiven ==
    [][stage = "master" /\ stage' = "answered" /\ Cardinality(seen_list) > 1
          => client' \notin ActingMasters]_balancerVars

(* A request that nothing interrupts, in any state of the registry that has *)
(* a master: it does not panic, although a confirmation may have listed a   *)
(* node without state; and with several nodes it answers with a slave that  *)
(* no other slave is better than, or with none if all of them are full.     *)
UninterruptedServed ==
    LET slaves == StateKeys \ {master_node} IN
    stage = "states" /\ master_node # None /\ Cardinality(ListedNodes) > 1 =>
        \A load \in [StateKeys -> Loads] :
            \A resp \in Answers(StateKeys, ListedNodes, master_node, load) :
                \/ /\ resp = RespFail
                   /\ \A n \in slaves : load[n].load_factor >= Full
                \/ /\ resp.data \in slaves /\ Listed(resp.data)
                   /\ load[resp.data].load_factor < Full
                   /\ \A n \in slaves : ~Better(load[n], load[resp.data])
=============================================================================
