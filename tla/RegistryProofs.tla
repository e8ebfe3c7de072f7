--------------------------- MODULE RegistryProofs ---------------------------
(***************************************************************************)
(* Proofs about Registry for any set of nodes, any choice of configured    *)
(* masters and any bounds.  TypeOK, PeerKnown, MasterListed and StateListed *)
(* are proved together as one inductive invariant: the messages of an      *)
(* election are well typed only because every listed node has a peer, and  *)
(* it has one only because the answer to a ConvertToMaster, which lists a  *)
(* node, comes from a node that was registered before.                     *)
(*                                                                         *)
(* The second half is about failover in the setting in which the system    *)
(* promises one master: FInv follows the registered master from the        *)
(* configured one through a sequence of elections, in each of which one    *)
(* conversion is on its way at most.                                       *)
(***************************************************************************)
EXTENDS Registry, FiniteSetTheorems, TLAPS

\* Who is being converted, or has just been, was registered once.
ConvertKnown ==
    /\ \A c \in toNode : c.op = "ConvertToMaster" => peer_map[c.node] # None
    /\ \A m \in toRegistry : m.op = "ConvertToMasterResp" => peer_map[m.node] # None

IInv == TypeOK /\ PeerKnown /\ ConvertKnown /\ MasterListed /\ StateListed

(* A sent command is a command, and no new ConvertToMaster goes to a node   *)
(* that the registry has no peer of.                                        *)
LEMMA SendFacts ==
    ASSUME NEW cs, cs \subseteq Command, toNode \subseteq Command, Send(cs)
    PROVE  /\ toNode' \subseteq Command
           /\ \A c \in toNode' : c \in toNode \/ c \in cs
BY DEF Send, Deliverable

LEMMA InitIInv == Init => IInv
BY RegistryAssumption
   DEF Init, IInv, TypeOK, PeerKnown, ConvertKnown, MasterListed, StateListed,
       Listed, HasState, ConfType, NodeTypes

-----------------------------------------------------------------------------
(* The sections of the handlers.                                            *)

LEMMA RegisterCheckListedStep ==
    ASSUME IInv, NEW m \in toRegistry, RegisterCheckListed(m)
    PROVE  IInv'
<1> USE DEF IInv
<1>1. m \in Request /\ m.node \in Nodes /\ m.peer \in Nat
    BY DEF TypeOK, Request
<1>2. toRegistry' \subseteq toRegistry
    BY DEF RegisterCheckListed
<1>3. CASE Listed(m.node)
    <2>1. Send({Req("RegisterFail", m.node, m.peer)}) /\ UNCHANGED regTasks
        BY <1>3 DEF RegisterCheckListed
    <2>2. Req("RegisterFail", m.node, m.peer) \in Command
        BY <1>1 DEF Req, Command, CommandOps
    <2>3. /\ toNode' \subseteq Command
          /\ \A c \in toNode' : c \in toNode \/ c = Req("RegisterFail", m.node, m.peer)
        BY <2>1, <2>2, SendFacts DEF TypeOK
    <2> QED
        BY <1>2, <2>1, <2>3
           DEF RegisterCheckListed, TypeOK, PeerKnown, ConvertKnown, MasterListed,
               StateListed, Listed, HasState, nodeVars, Req
<1>4. CASE ~Listed(m.node)
    <2> DEFINE t == [node |-> m.node, peer |-> m.peer,
                     stage |-> IF ConfType(m.node) = "Master" THEN "master_check"
                                                              ELSE "slave_check"]
    <2>1. regTasks' = regTasks \cup {t} /\ UNCHANGED toNode
        BY <1>4 DEF RegisterCheckListed
    <2>2. t \in RegTask
        BY <1>1 DEF RegTask, Stages
    <2> HIDE DEF t
    <2> QED
        BY <1>2, <2>1, <2>2
           DEF RegisterCheckListed, TypeOK, PeerKnown, ConvertKnown, MasterListed,
               StateListed, Listed, HasState, nodeVars
<1> QED BY <1>3, <1>4

LEMMA GoToFacts ==
    ASSUME NEW t \in regTasks, NEW stage \in Stages, regTasks \subseteq RegTask,
           GoTo(t, stage)
    PROVE  /\ regTasks' \subseteq RegTask
           /\ \A u \in regTasks : u = t \/ u \in regTasks'
           /\ \E u \in regTasks' : u.node = t.node /\ u.stage = stage
<1>1. [t EXCEPT !.stage = stage] \in RegTask
    BY DEF RegTask
<1>2. [t EXCEPT !.stage = stage].node = t.node /\ [t EXCEPT !.stage = stage].stage = stage
    BY DEF RegTask
<1> QED BY <1>1, <1>2 DEF GoTo

LEMMA RefuseFacts ==
    ASSUME NEW t \in regTasks, regTasks \subseteq RegTask, toNode \subseteq Command,
           Refuse(t)
    PROVE  /\ regTasks' \subseteq RegTask
           /\ \A u \in regTasks : u = t \/ u \in regTasks'
           /\ toNode' \subseteq Command
           /\ \A c \in toNode' : c \in toNode \/ c.op = "RegisterFail"
<1>1. Req("RegisterFail", t.node, t.peer) \in Command
    BY DEF Req, Command, CommandOps, RegTask
<1>2. Req("RegisterFail", t.node, t.peer).op = "RegisterFail"
    BY DEF Req
<1> QED BY <1>1, <1>2, SendFacts DEF Refuse

LEMMA RegisterStepKeeps ==
    ASSUME IInv, NEW t \in regTasks, RegisterStep(t)
    PROVE  IInv'
<1> USE DEF IInv
<1>1. t \in RegTask /\ t.node \in Nodes /\ t.peer \in Nat
    BY DEF TypeOK, RegTask
<1>2. {"master_check", "master_set", "slave_check", "insert"} = Stages
    BY DEF Stages
<1>3. CASE RegisterMasterCheck(t)
    <2>1. CASE Refuse(t)
        BY <1>3, <2>1, RefuseFacts
           DEF RegisterMasterCheck, TypeOK, PeerKnown, ConvertKnown, MasterListed,
               StateListed, Listed, HasState, nodeVars
    <2>2. CASE GoTo(t, "master_set") /\ UNCHANGED toNode
        BY <1>2, <1>3, <2>2, GoToFacts
           DEF RegisterMasterCheck, TypeOK, PeerKnown, ConvertKnown, MasterListed,
               StateListed, Listed, HasState, nodeVars
    <2> QED BY <1>3, <2>1, <2>2 DEF RegisterMasterCheck
<1>4. CASE RegisterMasterSet(t)
    <2>1. /\ regTasks' \subseteq RegTask
          /\ \E u \in regTasks' : u.node = t.node /\ u.stage = "insert"
        BY <1>2, <1>4, GoToFacts DEF RegisterMasterSet, TypeOK
    <2> QED
        BY <1>1, <1>4, <2>1
           DEF RegisterMasterSet, TypeOK, PeerKnown, ConvertKnown, MasterListed,
               StateListed, Listed, HasState, nodeVars
<1>5. CASE RegisterSlaveCheck(t)
    <2>1. CASE Refuse(t)
        BY <1>5, <2>1, RefuseFacts
           DEF RegisterSlaveCheck, TypeOK, PeerKnown, ConvertKnown, MasterListed,
               StateListed, Listed, HasState, nodeVars
    <2>2. CASE GoTo(t, "insert") /\ UNCHANGED toNode
        BY <1>2, <1>5, <2>2, GoToFacts
           DEF RegisterSlaveCheck, TypeOK, PeerKnown, ConvertKnown, MasterListed,
               StateListed, Listed, HasState, nodeVars
    <2> QED BY <1>5, <2>1, <2>2 DEF RegisterSlaveCheck
<1>6. CASE RegisterInsert(t)
    <2>1. Req("RegisterOk", t.node, t.peer) \in Command
        BY <1>1 DEF Req, Command, CommandOps
    <2>2. /\ toNode' \subseteq Command
          /\ \A c \in toNode' : c \in toNode \/ c = Req("RegisterOk", t.node, t.peer)
        BY <1>6, <2>1, SendFacts DEF RegisterInsert, TypeOK
    <2>3. ConfType(t.node) \in NodeTypes /\ None \notin NodeTypes /\ None \notin Nat
        BY RegistryAssumption DEF ConfType, NodeTypes
    <2>4. /\ node_list'  = [node_list  EXCEPT ![t.node] = ConfType(t.node)]
          /\ node_state' = [node_state EXCEPT ![t.node] = 0]
          /\ peer_map'   = [peer_map   EXCEPT ![t.node] = t.peer]
          /\ regTasks'   = regTasks \ {t}
          /\ UNCHANGED <<master_node, monitor, toRegistry, nodeVars>>
        BY <1>6 DEF RegisterInsert, RecordPeer
    <2>5. TypeOK'
        <3>1. 0 \in 0..OfflineLimit
            BY RegistryAssumption
        <3> QED BY <1>1, <2>2, <2>3, <2>4, <3>1 DEF TypeOK, nodeVars
    <2>6. PeerKnown'
        BY <1>1, <2>3, <2>4 DEF PeerKnown, TypeOK, Listed
    <2>7. ConvertKnown'
        BY <1>1, <2>2, <2>3, <2>4 DEF ConvertKnown, TypeOK, Req, Command, Request
    <2>8. MasterListed'
        BY <1>1, <2>3, <2>4 DEF MasterListed, TypeOK, Listed
    <2>9. StateListed'
        BY <1>1, <2>3, <2>4 DEF StateListed, TypeOK, Listed, HasState
    <2> QED BY <2>5, <2>6, <2>7, <2>8, <2>9
<1> QED BY <1>3, <1>4, <1>5, <1>6 DEF RegisterStep

LEMMA ReportStep ==
    ASSUME IInv, NEW m \in toRegistry, Report(m)
    PROVE  IInv'
<1>1. m.node \in Nodes /\ 0 \in 0..OfflineLimit
    BY RegistryAssumption DEF IInv, TypeOK, Request
<1> QED
    BY <1>1, RegistryAssumption
       DEF Report, IInv, TypeOK, PeerKnown, ConvertKnown, MasterListed, StateListed,
           Listed, HasState, nodeVars

LEMMA ConvertToMasterRespStep ==
    ASSUME IInv, NEW m \in toRegistry, ConvertToMasterResp(m)
    PROVE  IInv'
<1>1. m.node \in Nodes /\ peer_map[m.node] # None
    BY DEF IInv, TypeOK, Request, ConvertKnown, ConvertToMasterResp
<1>2. None # "Master" /\ "Master" \in NodeTypes
    BY RegistryAssumption DEF NodeTypes
<1> QED
    BY <1>1, <1>2
       DEF ConvertToMasterResp, IInv, TypeOK, PeerKnown, ConvertKnown, MasterListed,
           StateListed, Listed, HasState, nodeVars

-----------------------------------------------------------------------------
(* A round of the monitor.                                                  *)

LEMMA SweepFacts ==
    ASSUME IInv
    PROVE  /\ SweptList  \in [Nodes -> NodeTypes \cup {None}]
           /\ SweptState \in [Nodes -> (0..OfflineLimit) \cup {None}]
           /\ \A n \in Nodes : SweptList[n] # None => Listed(n)
           /\ \A n \in Nodes : Listed(n) /\ n \notin Silent => SweptList[n] # None
           /\ \A n \in Nodes : SweptState[n] # None => HasState(n) /\ n \notin Silent
<1>1. \A n \in Nodes : n \notin Silent /\ HasState(n) => node_state[n] + 1 \in 0..OfflineLimit
    BY RegistryAssumption DEF IInv, TypeOK, Silent, HasState
<1> QED
    BY <1>1 DEF IInv, TypeOK, SweptList, SweptState, Listed, HasState

\* The election sends well formed commands, ConvertToMaster to a node with a peer.
LEMMA ElectFacts ==
    ASSUME IInv, ElectMaster
    PROVE  /\ monitor' = monitor \/ monitor' = "panicked"
           /\ toNode' \subseteq Command
           /\ \A c \in toNode' : c \in toNode \/ peer_map[c.node] # None
<1> DEFINE listed == {n \in Nodes : SweptList[n] # None}
<1>1. \A n \in listed : peer_map[n] \in Nat /\ peer_map[n] # None
    BY SweepFacts DEF IInv, TypeOK, PeerKnown
<1>2. ASSUME NEW s \in listed, Convert(s, listed)
      PROVE  /\ toNode' \subseteq Command
             /\ \A c \in toNode' : c \in toNode \/ peer_map[c.node] # None
    <2> DEFINE cs == {Req(IF n = s THEN "ConvertToMaster" ELSE "ChangeMaster", n, peer_map[n])
                      : n \in listed}
    <2>1. cs \subseteq Command
        BY <1>1 DEF Req, Command, CommandOps
    <2>2. \A c \in cs : peer_map[c.node] # None
        BY <1>1 DEF Req
    <2>3. Send(cs)
        BY <1>2 DEF Convert
    <2>4. toNode \subseteq Command
        BY DEF IInv, TypeOK
    <2> HIDE DEF cs
    <2> QED BY <2>1, <2>2, <2>3, <2>4, SendFacts
<1>3. \/ UNCHANGED toNode
      \/ \E s \in listed : Convert(s, listed)
    BY DEF ElectMaster
<1>4. monitor' = monitor \/ monitor' = "panicked"
    BY DEF ElectMaster
<1> HIDE DEF listed
<1> QED BY <1>2, <1>3, <1>4 DEF IInv, TypeOK

LEMMA MonitorRoundStep ==
    ASSUME IInv, MonitorRound
    PROVE  IInv'
<1>1. /\ monitor' \in {"running", "panicked"}
      /\ toNode' \subseteq Command
      /\ \A c \in toNode' : c \in toNode \/ peer_map[c.node] # None
    <2>1. CASE master_node \in Silent
        BY <2>1, ElectFacts DEF MonitorRound, IInv, TypeOK
    <2>2. CASE master_node \notin Silent
        BY <2>2 DEF MonitorRound, IInv, TypeOK
    <2> QED BY <2>1, <2>2
<1>2. /\ node_list' = SweptList
      /\ node_state' = SweptState
      /\ master_node' = MasterAfterRound
      /\ UNCHANGED <<peer_map, regTasks, toRegistry, nodeVars>>
    BY DEF MonitorRound
<1>3. TypeOK'
    BY <1>1, <1>2, SweepFacts DEF IInv, TypeOK, MasterAfterRound, nodeVars
<1>4. PeerKnown'
    BY <1>2, SweepFacts DEF IInv, PeerKnown, Listed
<1>5. ConvertKnown'
    BY <1>1, <1>2 DEF IInv, ConvertKnown
<1>6. MasterListed'
    BY <1>2, SweepFacts DEF IInv, TypeOK, MasterListed, MasterAfterRound, Listed
<1>7. StateListed'
    BY <1>2, SweepFacts DEF IInv, StateListed, Listed, HasState
<1> QED BY <1>3, <1>4, <1>5, <1>6, <1>7 DEF IInv

-----------------------------------------------------------------------------
(* The server nodes leave the registry's own state alone.                   *)

LEMMA NodeStepKeeps ==
    ASSUME IInv, UNCHANGED registryVars,
           toNode' \subseteq toNode,
           toRegistry' \subseteq Request,
           \A m \in toRegistry' : \/ m \in toRegistry
                                  \/ m.op # "ConvertToMasterResp"
                                  \/ peer_map[m.node] # None,
           up' \in [Nodes -> BOOLEAN], inc' \in [Nodes -> Nat],
           node_type' \in [Nodes -> NodeTypes], crashes' \in Nat
    PROVE  IInv'
<1>1. TypeOK'
    BY DEF IInv, TypeOK, registryVars
<1>2. PeerKnown' /\ MasterListed' /\ StateListed'
    BY DEF IInv, PeerKnown, MasterListed, StateListed, Listed, HasState, registryVars
<1>3. ConvertKnown'
    BY DEF IInv, ConvertKnown, registryVars
<1> QED BY <1>1, <1>2, <1>3 DEF IInv

LEMMA CommandStep ==
    ASSUME IInv, NEW c \in toNode, HandleCommand(c)
    PROVE  IInv'
<1>1. c \in Command /\ c.node \in Nodes /\ c.peer \in Nat
    BY DEF IInv, TypeOK, Command
<1>2. CASE ReceiveRegisterOk(c) \/ ReceiveChangeMaster(c)
    BY <1>2, NodeStepKeeps
       DEF ReceiveRegisterOk, ReceiveChangeMaster, IInv, TypeOK, nodeVars
<1>3. CASE ReceiveRegisterFail(c)
    BY <1>1, <1>3, NodeStepKeeps DEF ReceiveRegisterFail, Gone, IInv, TypeOK
<1>4. CASE ReceiveConvertToMaster(c)
    <2>1. Req("ConvertToMasterResp", c.node, c.peer) \in Request
        BY <1>1 DEF Req, Request, RequestOps
    <2>2. peer_map[Req("ConvertToMasterResp", c.node, c.peer).node] # None
        BY <1>4 DEF Req, IInv, ConvertKnown, ReceiveConvertToMaster
    <2>3. node_type' \in [Nodes -> NodeTypes]
        BY <1>4 DEF ReceiveConvertToMaster, IInv, TypeOK, NodeTypes
    <2>4. toRegistry' = toRegistry \cup {Req("ConvertToMasterResp", c.node, c.peer)}
        BY <1>4 DEF ReceiveConvertToMaster
    <2>5. \A m \in toRegistry' : m \in toRegistry \/ peer_map[m.node] # None
        BY <2>2, <2>4
    <2> QED
        BY <1>4, <2>1, <2>3, <2>4, <2>5, NodeStepKeeps
           DEF ReceiveConvertToMaster, IInv, TypeOK
<1> QED BY <1>2, <1>3, <1>4 DEF HandleCommand

LEMMA NodeStep ==
    ASSUME IInv, NEW n \in Nodes, Start(n) \/ SendReport(n) \/ Crash(n)
    PROVE  IInv'
<1>1. CASE Start(n)
    <2>1. inc[n] + 1 \in Nat
        BY DEF IInv, TypeOK
    <2>2. /\ Req("Register", n, inc[n] + 1) \in Request
          /\ Req("Register", n, inc[n] + 1).op = "Register"
        BY <2>1 DEF Req, Request, RequestOps
    <2>3. ConfType(n) \in NodeTypes
        BY DEF ConfType, NodeTypes
    <2>4. up' \in [Nodes -> BOOLEAN] /\ inc' \in [Nodes -> Nat]
        BY <1>1, <2>1 DEF Start, IInv, TypeOK
    <2>5. node_type' \in [Nodes -> NodeTypes]
        BY <1>1, <2>3 DEF Start, IInv, TypeOK
    <2> QED
        BY <1>1, <2>2, <2>4, <2>5, NodeStepKeeps DEF Start, IInv, TypeOK
<1>2. CASE SendReport(n)
    <2>1. /\ Req("Report", n, inc[n]) \in Request
          /\ Req("Report", n, inc[n]).op = "Report"
        BY DEF Req, Request, RequestOps, IInv, TypeOK
    <2> QED
        BY <1>2, <2>1, NodeStepKeeps DEF SendReport, IInv, TypeOK, nodeVars
<1>3. CASE Crash(n)
    BY <1>3, NodeStepKeeps DEF Crash, Gone, IInv, TypeOK
<1> QED BY <1>1, <1>2, <1>3

-----------------------------------------------------------------------------
LEMMA NextIInv == IInv /\ [Next]_vars => IInv'
<1> SUFFICES ASSUME IInv, [Next]_vars PROVE IInv'
    OBVIOUS
<1>1. ASSUME NEW m \in toRegistry, HandleRequest(m) PROVE IInv'
    BY <1>1, RegisterCheckListedStep, ReportStep, ConvertToMasterRespStep
       DEF HandleRequest
<1>2. ASSUME NEW t \in regTasks, RegisterStep(t) PROVE IInv'
    BY <1>2, RegisterStepKeeps
<1>3. CASE MonitorRound
    BY <1>3, MonitorRoundStep
<1>4. ASSUME NEW c \in toNode, HandleCommand(c) PROVE IInv'
    BY <1>4, CommandStep
<1>5. ASSUME NEW n \in Nodes, Start(n) \/ SendReport(n) \/ Crash(n) PROVE IInv'
    BY <1>5, NodeStep
<1>6. CASE UNCHANGED vars
    BY <1>6 DEF vars, registryVars, nodeVars, IInv, TypeOK, PeerKnown, ConvertKnown,
                MasterListed, StateListed, Listed, HasState
<1> QED BY <1>1, <1>2, <1>3, <1>4, <1>5, <1>6 DEF Next

THEOREM Invariance == Spec => []IInv
<1> QED BY InitIInv, NextIInv, PTL DEF Spec

(* The context of the registry, the messages and the nodes are well formed  *)
(* in every reachable state.                                                *)
THEOREM TypeCorrect == Spec => []TypeOK
BY Invariance, PTL DEF IInv

(* elect_master never fails to find the peer of a listed node.              *)
THEOREM ElectionFindsPeers == Spec => []PeerKnown
BY Invariance, PTL DEF IInv

(* No interleaving of registrations, rounds and elections leaves a          *)
(* registered master outside node_list with nobody about to insert it.      *)
THEOREM MasterIsListed == Spec => []MasterListed
BY Invariance, PTL DEF IInv

(* Every entry get_min_load_node can choose is in node_list.                *)
THEOREM StateIsListed == Spec => []StateListed
BY Invariance, PTL DEF IInv

-----------------------------------------------------------------------------
(* Whom the registry knows.  A node is started before it registers, and    *)
(* registers before it has a peer; so for any number of restarts and        *)
(* crashes, a key that node_list or node_state holds belongs to a process   *)
(* that has been started.                                                   *)

KnownStarted ==
    /\ \A m \in toRegistry : m.op = "Register" => inc[m.node] > 0
    /\ \A t \in regTasks : inc[t.node] > 0
    /\ \A n \in Nodes : peer_map[n] # None => inc[n] > 0

LEMMA KnownStartedNext ==
    ASSUME IInv, KnownStarted, [Next]_vars
    PROVE  KnownStarted'
<1>1. ASSUME NEW m \in toRegistry, HandleRequest(m)
      PROVE  KnownStarted'
    <2>1. CASE RegisterCheckListed(m)
        <3>1. /\ toRegistry' \subseteq toRegistry /\ m.op = "Register"
              /\ UNCHANGED <<peer_map, inc>>
              /\ \A t \in regTasks' : t \in regTasks \/ t.node = m.node
            BY <2>1 DEF RegisterCheckListed, nodeVars
        <3> QED BY <3>1 DEF KnownStarted
    <2>2. CASE Report(m) \/ ConvertToMasterResp(m)
        BY <2>2 DEF Report, ConvertToMasterResp, KnownStarted, nodeVars
    <2> QED BY <1>1, <2>1, <2>2 DEF HandleRequest
<1>2. ASSUME NEW t \in regTasks, RegisterStep(t)
      PROVE  KnownStarted'
    <2>1. t.node \in Nodes /\ \A s \in Stages : [t EXCEPT !.stage = s].node = t.node
        BY DEF IInv, TypeOK, RegTask
    <2>2. UNCHANGED <<toRegistry, inc>>
        BY <1>2 DEF RegisterStep, RegisterMasterCheck, RegisterMasterSet, RegisterSlaveCheck,
                    RegisterInsert, nodeVars
    <2>3. \A u \in regTasks' : u \in regTasks \/ u.node = t.node
        <3>1. \/ regTasks' = regTasks \ {t}
              \/ \E s \in Stages : GoTo(t, s)
            BY <1>2 DEF RegisterStep, RegisterMasterCheck, RegisterMasterSet,
                        RegisterSlaveCheck, RegisterInsert, Refuse, Stages
        <3>2. ASSUME NEW s \in Stages, GoTo(t, s)
              PROVE  \A u \in regTasks' : u \in regTasks \/ u.node = t.node
            BY <2>1, <3>2 DEF GoTo
        <3> QED BY <3>1, <3>2
    <2>4. \A n \in Nodes : n # t.node => peer_map'[n] = peer_map[n]
        BY <1>2 DEF RegisterStep, RegisterMasterCheck, RegisterMasterSet, RegisterSlaveCheck,
                    RegisterInsert, RecordPeer, IInv, TypeOK
    <2> QED BY <2>1, <2>2, <2>3, <2>4 DEF KnownStarted
<1>3. CASE MonitorRound
    BY <1>3 DEF MonitorRound, KnownStarted, nodeVars
<1>4. ASSUME NEW c \in toNode, HandleCommand(c)
      PROVE  KnownStarted'
    <2>1. /\ UNCHANGED <<regTasks, peer_map, inc>>
          /\ \A m \in toRegistry' : m.op = "Register" => m \in toRegistry
        BY <1>4 DEF HandleCommand, ReceiveRegisterOk, ReceiveRegisterFail, Gone, Req,
                    ReceiveConvertToMaster, ReceiveChangeMaster, registryVars, nodeVars
    <2> QED BY <2>1 DEF KnownStarted
<1>5. ASSUME NEW n \in Nodes, Start(n) \/ SendReport(n) \/ Crash(n)
      PROVE  KnownStarted'
    <2>1. /\ UNCHANGED <<regTasks, peer_map>>
          /\ \A m \in toRegistry' : m.op = "Register" =>
                m \in toRegistry \/ (m.node = n /\ inc' = [inc EXCEPT ![n] = @ + 1])
          /\ inc' = inc \/ inc' = [inc EXCEPT ![n] = @ + 1]
        BY <1>5 DEF Start, SendReport, Crash, Gone, Req, registryVars, nodeVars
    <2>2. inc \in [Nodes -> Nat]
        BY DEF IInv, TypeOK
    <2>3. \A k \in Nodes : inc[k] > 0 => inc'[k] > 0
        BY <2>1, <2>2
    <2>4. inc' = [inc EXCEPT ![n] = @ + 1] => inc'[n] > 0
        BY <2>2
    <2>5. /\ \A m \in toRegistry : m.node \in Nodes
          /\ \A t \in regTasks : t.node \in Nodes
        BY DEF IInv, TypeOK, Request, RegTask
    <2> QED BY <2>1, <2>3, <2>4, <2>5 DEF KnownStarted
<1>6. CASE UNCHANGED vars
    BY <1>6 DEF vars, registryVars, nodeVars, KnownStarted
<1> QED BY <1>1, <1>2, <1>3, <1>4, <1>5, <1>6 DEF Next

(* The registry's lists name started processes only, restarts included.     *)
THEOREM RegisteredWereStarted ==
    Spec => [](\A n \in Nodes : Listed(n) \/ HasState(n) => inc[n] > 0)
<1>1. Init => KnownStarted
    BY RegistryAssumption DEF Init, KnownStarted
<1>2. IInv /\ KnownStarted /\ [Next]_vars => KnownStarted'
    BY KnownStartedNext
<1>3. IInv /\ KnownStarted => \A n \in Nodes : Listed(n) \/ HasState(n) => inc[n] > 0
    BY DEF IInv, KnownStarted, PeerKnown, StateListed
<1> QED BY <1>1, <1>2, <1>3, Invariance, PTL DEF Spec

-----------------------------------------------------------------------------
(* Nothing of a conversion gets lost while its node lives.                  *)

\* n has been told to convert, or has converted and its answer is on its way.
Converting(n) ==
    \/ \E c \in toNode : c.op = "ConvertToMaster" /\ c.node = n
    \/ \E m \in toRegistry : m.op = "ConvertToMasterResp" /\ m.node = n

ConversionGoesOn ==
    \A n \in Nodes : Converting(n) => Converting(n)' \/ master_node' = n \/ ~up'[n]

LEMMA ConversionStep ==
    ASSUME TypeOK, [Next]_vars
    PROVE  ConversionGoesOn
<1> SUFFICES ASSUME NEW n \in Nodes, Converting(n), ~(master_node' = n), up'[n]
             PROVE  Converting(n)'
    BY DEF ConversionGoesOn
\* Steps that take no such message away, and the end of a process.
<1>1. CASE toNode \subseteq toNode' /\ toRegistry \subseteq toRegistry'
    BY <1>1 DEF Converting
<1>2. ASSUME NEW k \in Nodes, Gone(k)
      PROVE  Converting(n)'
    <2>1. n # k
        BY <1>2 DEF Gone, TypeOK
    <2> QED BY <1>2, <2>1 DEF Gone, Converting
<1>3. ASSUME NEW m \in toRegistry, HandleRequest(m)
      PROVE  Converting(n)'
    <2>1. /\ toNode \subseteq toNode' /\ toRegistry' = toRegistry \ {m}
          /\ m.op = "ConvertToMasterResp" => master_node' = m.node
        BY <1>3 DEF HandleRequest, RegisterCheckListed, Report, ConvertToMasterResp, Send
    <2> QED BY <2>1 DEF Converting
<1>4. ASSUME NEW t \in regTasks, RegisterStep(t)
      PROVE  toNode \subseteq toNode' /\ toRegistry \subseteq toRegistry'
    BY <1>4 DEF RegisterStep, RegisterMasterCheck, RegisterMasterSet, RegisterSlaveCheck,
                RegisterInsert, Refuse, Send
<1>5. CASE MonitorRound
    BY <1>1, <1>5 DEF MonitorRound, ElectMaster, Convert, Send
<1>6. ASSUME NEW c \in toNode, HandleCommand(c)
      PROVE  Converting(n)'
    <2>1. CASE ReceiveRegisterFail(c)
        <3>1. c.node \in Nodes /\ Gone(c.node)
            BY <2>1 DEF ReceiveRegisterFail, TypeOK, Command
        <3> QED BY <1>2, <3>1
    <2>2. CASE ReceiveRegisterOk(c) \/ ReceiveChangeMaster(c)
        BY <2>2 DEF ReceiveRegisterOk, ReceiveChangeMaster, Converting
    <2>3. CASE ReceiveConvertToMaster(c)
        <3> DEFINE answer == Req("ConvertToMasterResp", c.node, c.peer)
        <3>1. toNode' = toNode \ {c} /\ toRegistry' = toRegistry \cup {answer}
            BY <2>3 DEF ReceiveConvertToMaster
        <3>2. answer.op = "ConvertToMasterResp" /\ answer.node = c.node
            BY DEF Req
        <3> HIDE DEF answer
        <3> QED BY <3>1, <3>2 DEF Converting
    <2> QED BY <1>6, <2>1, <2>2, <2>3 DEF HandleCommand
<1>7. ASSUME NEW k \in Nodes, Start(k) \/ SendReport(k)
      PROVE  toNode \subseteq toNode' /\ toRegistry \subseteq toRegistry'
    BY <1>7 DEF Start, SendReport
<1>8. ASSUME NEW k \in Nodes, Crash(k)
      PROVE  Converting(n)'
    BY <1>2, <1>8 DEF Crash
<1>9. CASE UNCHANGED vars
    BY <1>1, <1>9 DEF vars
<1> QED BY <1>1, <1>3, <1>4, <1>5, <1>6, <1>7, <1>8, <1>9 DEF Next

(* A node that was told to convert goes on converting, through any rounds,  *)
(* registrations and elections of others, until it is the registered master *)
(* or has stopped: neither the order nor its answer is ever dropped.  With  *)
(* the fairness of the handlers this is why ElectedTakesOver holds.         *)
THEOREM ConversionsGoOn == Spec => [][ConversionGoesOn]_vars
BY TypeCorrect, ConversionStep, PTL DEF Spec

-----------------------------------------------------------------------------
(* One node is configured as the master and it is started once.  The slaves *)
(* may crash and come back whenever and as often as they like, and reports  *)
(* may come too late; the number of nodes, of crashes and of rounds is      *)
(* arbitrary.                                                               *)

TheMaster == CHOOSE m \in ConfMaster : TRUE

OneConfiguredMaster ==
    /\ ConfMaster = {TheMaster}
    /\ MaxStarts[TheMaster] <= 1

Registers     == {m \in toRegistry : m.op = "Register"}
Converts      == {c \in toNode : c.op = "ConvertToMaster"}
Confirmations == {m \in toRegistry : m.op = "ConvertToMasterResp"}

\* The message and the task with which the configured master registers.
MasterRegisters == {m \in Registers : m.node = TheMaster}
MasterTasks     == {t \in regTasks : t.node = TheMaster}

\* The configured master registers once: with one message, which becomes one
\* task, which records the peer.
RegistersOnce ==
    /\ inc[TheMaster] = 0 => peer_map[TheMaster] = None
    /\ MasterRegisters # {} \/ MasterTasks # {} =>
          inc[TheMaster] # 0 /\ peer_map[TheMaster] = None
    /\ \A m1, m2 \in MasterRegisters : m1 = m2
    /\ \A t1, t2 \in MasterTasks : t1 = t2
    /\ MasterRegisters = {} \/ MasterTasks = {}

\* The stages of the configured master and of the others, and who is about to be
\* inserted as the master is the registered one already.
StagesFit ==
    \A t \in regTasks :
        /\ t.stage \in {"master_check", "master_set"} => t.node = TheMaster
        /\ t.stage = "slave_check" => t.node # TheMaster
        /\ t.stage = "insert" /\ t.node = TheMaster => master_node = TheMaster

\* The configured master has not been found offline.
Reign == peer_map[TheMaster] = None \/ Listed(TheMaster)

\* Until it is, nobody converts; afterwards it stays out, and if reports are
\* handled in time it is dead.
ReignKept ==
    /\ Reign => /\ Converts = {} /\ Confirmations = {}
                /\ \A n \in Nodes : node_type[n] = "Master" => n = TheMaster
                /\ master_node \in {None, TheMaster}
    /\ Listed(TheMaster) => master_node = TheMaster /\ HasState(TheMaster)
    /\ KeepsUp /\ ~Reign => ~up[TheMaster]

\* One conversion at a time, of another node, and only while there is no master.
OneConversion ==
    /\ \A c \in Converts : c.node # TheMaster /\ master_node = None
    /\ \A m \in Confirmations : m.node # TheMaster /\ master_node = None
    /\ \A c1, c2 \in Converts : c1 = c2
    /\ \A m1, m2 \in Confirmations : m1 = m2
    /\ Converts = {} \/ Confirmations = {}

\* If reports are handled in time, a converted node that is alive is the
\* registered master or has said so.
ConvertedKnown ==
    KeepsUp => \A n \in Nodes : up[n] /\ node_type[n] = "Master" /\ n # TheMaster =>
        master_node = n \/ \E m \in Confirmations : m.node = n

ListedMasterIsMaster == \A n \in Nodes : node_list[n] = "Master" => master_node = n

FInv ==
    /\ IInv
    /\ RegistersOnce
    /\ StagesFit
    /\ ReignKept
    /\ OneConversion
    /\ ConvertedKnown
    /\ ListedMasterIsMaster
    /\ ListedHasState
    /\ monitor = "running"

\* The configured master is a node, and the others are configured as slaves.
LEMMA SettingFacts ==
    ASSUME OneConfiguredMaster
    PROVE  /\ TheMaster \in Nodes /\ TheMaster \in ConfMaster
           /\ \A n \in Nodes : ConfType(n) = "Master" => n = TheMaster
           /\ ConfType(TheMaster) = "Master"
           /\ None \notin Nodes /\ None \notin Nat /\ None # "Master" /\ None # "Slave"
BY RegistryAssumption DEF OneConfiguredMaster, ConfType

\* At the start nothing is registered and nobody converts.
LEMMA InitFInv == OneConfiguredMaster /\ Init => FInv
<1> SUFFICES ASSUME OneConfiguredMaster, Init
             PROVE  FInv
    OBVIOUS
<1>1. IInv
    BY InitIInv
<1>2. Registers = {} /\ Converts = {} /\ Confirmations = {}
    BY DEF Init, Registers, Converts, Confirmations
<1>3. RegistersOnce /\ StagesFit
    BY <1>2, SettingFacts DEF Init, RegistersOnce, StagesFit, MasterRegisters, MasterTasks
<1>4. ReignKept
    BY <1>2, SettingFacts DEF Init, ReignKept, Reign, Listed
<1>5. OneConversion /\ ConvertedKnown
    BY <1>2 DEF Init, OneConversion, ConvertedKnown
<1>6. ListedMasterIsMaster /\ ListedHasState /\ monitor = "running"
    BY SettingFacts DEF Init, ListedMasterIsMaster, ListedHasState, Listed
<1> QED BY <1>1, <1>3, <1>4, <1>5, <1>6 DEF FInv

(* A step that does not touch the list, the master, the peers and the node  *)
(* types, starts nothing, and loses an answer only with its node.           *)
LEMMA QuietKeeps ==
    ASSUME OneConfiguredMaster, FInv,
           Converts' \subseteq Converts, Confirmations' \subseteq Confirmations,
           \A m \in Confirmations : m \in Confirmations' \/ ~up'[m.node],
           \A n \in Nodes : up'[n] => up[n],
           \A n \in Nodes : node_state'[n] # None <=> node_state[n] # None,
           UNCHANGED <<node_list, master_node, peer_map, monitor, node_type>>
    PROVE  /\ ReignKept' /\ OneConversion' /\ ConvertedKnown'
           /\ ListedMasterIsMaster' /\ ListedHasState' /\ monitor' = "running"
<1>1. ReignKept'
    BY SettingFacts DEF FInv, ReignKept, Reign, Listed, HasState
<1>2. OneConversion'
    BY DEF FInv, OneConversion
<1>3. ConvertedKnown'
    BY DEF FInv, ConvertedKnown
<1>4. ListedMasterIsMaster' /\ ListedHasState' /\ monitor' = "running"
    BY DEF FInv, ListedMasterIsMaster, ListedHasState, Listed, HasState
<1> QED BY <1>1, <1>2, <1>3, <1>4

\* A step that starts no registration of the configured master and records none.
LEMMA FewerMasterRegistrations ==
    ASSUME FInv, MasterRegisters' \subseteq MasterRegisters, MasterTasks' \subseteq MasterTasks,
           UNCHANGED <<peer_map[TheMaster], inc[TheMaster]>>
    PROVE  RegistersOnce'
BY DEF FInv, RegistersOnce

\* A step that only takes registrations away.
LEMMA FewerRegistrations ==
    ASSUME FInv, Registers' \subseteq Registers, regTasks' \subseteq regTasks,
           UNCHANGED <<peer_map, inc, master_node>>
    PROVE  RegistersOnce' /\ StagesFit'
<1>1. MasterRegisters' \subseteq MasterRegisters /\ MasterTasks' \subseteq MasterTasks
    BY DEF MasterRegisters, MasterTasks
<1>2. RegistersOnce'
    BY <1>1, FewerMasterRegistrations
<1>3. StagesFit'
    BY DEF FInv, StagesFit
<1> QED BY <1>2, <1>3

\* A sent command other than ConvertToMaster.
LEMMA SendQuiet ==
    ASSUME NEW c, c.op # "ConvertToMaster", Send({c})
    PROVE  Converts' \subseteq Converts
BY DEF Send, Deliverable, Converts

-----------------------------------------------------------------------------
(* The actions, one lemma for each kind.                                    *)

\* The message of a registration becomes its task, or is refused.
LEMMA RegisterCheckListedFailover ==
    ASSUME OneConfiguredMaster, FInv, NEW m \in toRegistry, RegisterCheckListed(m)
    PROVE  FInv'
<1>1. IInv'
    BY RegisterCheckListedStep DEF FInv
<1>2. m \in Registers /\ m.node \in Nodes /\ toRegistry' = toRegistry \ {m}
    BY DEF RegisterCheckListed, Registers, FInv, IInv, TypeOK, Request
<1>3. Registers' = Registers \ {m} /\ Confirmations' = Confirmations
    BY <1>2 DEF Registers, Confirmations
<1>4. Converts' \subseteq Converts
    <2>1. Req("RegisterFail", m.node, m.peer).op # "ConvertToMaster"
        BY DEF Req
    <2> QED BY <2>1, SendQuiet DEF RegisterCheckListed, Converts
<1>5. /\ ReignKept' /\ OneConversion' /\ ConvertedKnown'
      /\ ListedMasterIsMaster' /\ ListedHasState' /\ monitor' = "running"
    BY <1>3, <1>4, QuietKeeps DEF RegisterCheckListed, nodeVars
<1>6. RegistersOnce' /\ StagesFit'
    <2>1. CASE UNCHANGED regTasks
        BY <1>3, <2>1, FewerRegistrations DEF RegisterCheckListed, nodeVars
    <2>2. CASE ~UNCHANGED regTasks
        <3> DEFINE t == [node |-> m.node, peer |-> m.peer,
                         stage |-> IF ConfType(m.node) = "Master" THEN "master_check"
                                                                  ELSE "slave_check"]
        <3>1. regTasks' = regTasks \cup {t}
            BY <2>2 DEF RegisterCheckListed
        <3>2. /\ t.node = m.node /\ t.stage # "insert"
              /\ t.stage \in {"master_check", "master_set"} => t.node = TheMaster
              /\ t.stage = "slave_check" => t.node # TheMaster
            BY <1>2, SettingFacts
        <3> HIDE DEF t
        <3>3. RegistersOnce'
            <4>1. UNCHANGED <<peer_map, inc>>
                BY DEF RegisterCheckListed, nodeVars
            <4>2. CASE m.node = TheMaster
                <5>1. m \in MasterRegisters
                    BY <1>2, <4>2 DEF MasterRegisters
                <5>2. MasterRegisters' = {} /\ MasterTasks = {}
                    BY <1>3, <5>1 DEF FInv, RegistersOnce, MasterRegisters
                <5>3. MasterTasks' = {t}
                    BY <3>1, <3>2, <4>2, <5>2 DEF MasterTasks
                <5> QED BY <4>1, <5>1, <5>2, <5>3 DEF FInv, RegistersOnce
            <4>3. CASE m.node # TheMaster
                <5>1. MasterRegisters' = MasterRegisters /\ MasterTasks' = MasterTasks
                    BY <1>3, <3>1, <3>2, <4>3 DEF MasterRegisters, MasterTasks
                <5> QED BY <4>1, <5>1, FewerMasterRegistrations
            <4> QED BY <4>2, <4>3
        <3>4. StagesFit'
            BY <3>1, <3>2 DEF RegisterCheckListed, FInv, StagesFit
        <3> QED BY <3>3, <3>4
    <2> QED BY <2>1, <2>2
<1> QED BY <1>1, <1>5, <1>6 DEF FInv

\* A task of Register goes on to a stage that fits it.
LEMMA GoToOnce ==
    ASSUME FInv, NEW t \in regTasks, NEW stage \in Stages, GoTo(t, stage),
           Registers' = Registers, UNCHANGED <<peer_map, inc>>
    PROVE  /\ RegistersOnce'
           /\ \A u \in regTasks' : u \in regTasks \/ (u.node = t.node /\ u.stage = stage)
<1> DEFINE v == [t EXCEPT !.stage = stage]
<1>1. v.node = t.node /\ v.stage = stage
    BY DEF FInv, IInv, TypeOK, RegTask
<1>2. regTasks' = (regTasks \ {t}) \cup {v}
    BY DEF GoTo
<1> HIDE DEF v
<1>3. MasterRegisters' = MasterRegisters
    BY DEF MasterRegisters
<1>4. RegistersOnce'
    <2>1. CASE t.node = TheMaster
        <3>1. t \in MasterTasks
            BY <2>1 DEF MasterTasks
        <3>2. MasterTasks' = {v}
            BY <1>1, <1>2, <2>1, <3>1 DEF FInv, RegistersOnce, MasterTasks
        <3> QED BY <1>3, <3>1, <3>2 DEF FInv, RegistersOnce
    <2>2. CASE t.node # TheMaster
        <3>1. MasterTasks' = MasterTasks
            BY <1>1, <1>2, <2>2 DEF MasterTasks
        <3> QED BY <1>3, <3>1, FewerMasterRegistrations
    <2> QED BY <2>1, <2>2
<1>5. \A u \in regTasks' : u \in regTasks \/ (u.node = t.node /\ u.stage = stage)
    BY <1>1, <1>2
<1> QED BY <1>4, <1>5

\* A refused registration is over.
LEMMA RefuseFailover ==
    ASSUME OneConfiguredMaster, FInv, NEW t \in regTasks, Refuse(t),
           UNCHANGED <<node_list, node_state, master_node, peer_map, monitor, toRegistry, nodeVars>>
    PROVE  /\ RegistersOnce' /\ StagesFit' /\ ReignKept' /\ OneConversion' /\ ConvertedKnown'
           /\ ListedMasterIsMaster' /\ ListedHasState' /\ monitor' = "running"
<1>1. Registers' = Registers /\ Confirmations' = Confirmations
    BY DEF Registers, Confirmations
<1>2. Converts' \subseteq Converts
    <2>1. Req("RegisterFail", t.node, t.peer).op # "ConvertToMaster"
        BY DEF Req
    <2> QED BY <2>1, SendQuiet DEF Refuse
<1>3. regTasks' \subseteq regTasks
    BY DEF Refuse
<1>4. RegistersOnce' /\ StagesFit'
    BY <1>1, <1>3, FewerRegistrations DEF nodeVars
<1> QED BY <1>1, <1>2, <1>4, QuietKeeps DEF nodeVars

\* The configured master becomes the master while there is none: it is the only
\* one to get this far, and has not been inserted.
LEMMA MasterSetFirst ==
    ASSUME OneConfiguredMaster, FInv, NEW t \in regTasks, RegisterMasterSet(t)
    PROVE  /\ t.node = TheMaster /\ peer_map[TheMaster] = None
           /\ ~Listed(TheMaster) /\ Reign
           /\ master_node = None
<1>1. /\ t.node = TheMaster /\ t \in MasterTasks /\ peer_map[TheMaster] = None
      /\ ~Listed(TheMaster) /\ Reign
    <2>1. t.node = TheMaster
        BY DEF RegisterMasterSet, FInv, StagesFit
    <2>2. t \in MasterTasks
        BY <2>1 DEF MasterTasks
    <2>3. peer_map[TheMaster] = None
        BY <2>2 DEF FInv, RegistersOnce
    <2> QED BY <2>1, <2>2, <2>3, SettingFacts DEF FInv, IInv, PeerKnown, Reign
<1>2. ASSUME master_node = TheMaster
      PROVE  FALSE
    <2>1. PICK u \in regTasks : u.node = TheMaster /\ u.stage = "insert"
        BY <1>1, <1>2, SettingFacts DEF FInv, IInv, MasterListed
    <2>2. u = t
        BY <1>1, <2>1 DEF FInv, RegistersOnce, MasterTasks
    <2> QED BY <2>1, <2>2 DEF RegisterMasterSet
<1> QED BY <1>1, <1>2 DEF FInv, ReignKept

\* The sections of Register after the first.
LEMMA RegisterStepFailover ==
    ASSUME OneConfiguredMaster, FInv, NEW t \in regTasks, RegisterStep(t)
    PROVE  FInv'
<1>1. IInv'
    BY RegisterStepKeeps DEF FInv
<1>2. t \in RegTask /\ t.node \in Nodes /\ t.peer \in Nat
    BY DEF FInv, IInv, TypeOK, RegTask
<1>3. CASE RegisterMasterCheck(t)
    <2>1. CASE Refuse(t)
        BY <1>1, <1>3, <2>1, RefuseFailover DEF RegisterMasterCheck, FInv
    <2>2. CASE GoTo(t, "master_set") /\ UNCHANGED toNode
        <3>1. Registers' = Registers /\ Confirmations' = Confirmations /\ Converts' = Converts
            BY <1>3, <2>2 DEF RegisterMasterCheck, Registers, Confirmations, Converts
        <3>2. /\ RegistersOnce'
              /\ \A u \in regTasks' : u \in regTasks \/ (u.node = t.node /\ u.stage = "master_set")
            BY <1>3, <2>2, <3>1, GoToOnce DEF RegisterMasterCheck, nodeVars, Stages
        <3>3. StagesFit'
            BY <1>3, <3>2 DEF RegisterMasterCheck, FInv, StagesFit
        <3>4. /\ ReignKept' /\ OneConversion' /\ ConvertedKnown'
              /\ ListedMasterIsMaster' /\ ListedHasState' /\ monitor' = "running"
            BY <1>3, <3>1, QuietKeeps DEF RegisterMasterCheck, nodeVars
        <3> QED BY <1>1, <3>2, <3>3, <3>4 DEF FInv
    <2> QED BY <1>3, <2>1, <2>2 DEF RegisterMasterCheck
<1>4. CASE RegisterMasterSet(t)
    <2>1. Registers' = Registers /\ Confirmations' = Confirmations /\ Converts' = Converts
        BY <1>4 DEF RegisterMasterSet, Registers, Confirmations, Converts
    <2>2. /\ RegistersOnce'
          /\ \A u \in regTasks' : u \in regTasks \/ (u.node = t.node /\ u.stage = "insert")
        BY <1>4, <2>1, GoToOnce DEF RegisterMasterSet, nodeVars, Stages
    <2>3. /\ t.node = TheMaster /\ peer_map[TheMaster] = None
          /\ ~Listed(TheMaster) /\ Reign
          /\ master_node = None
        BY <1>4, MasterSetFirst
    <2>5. master_node' = TheMaster /\ UNCHANGED <<node_list, node_state, peer_map, monitor, nodeVars>>
        BY <1>4, <2>3 DEF RegisterMasterSet
    <2>6. StagesFit'
        BY <2>2, <2>3, <2>5 DEF FInv, StagesFit
    <2>7. ReignKept'
        BY <2>1, <2>3, <2>5 DEF FInv, ReignKept, Reign, Listed, HasState, nodeVars
    <2>8. OneConversion' /\ ConvertedKnown'
        BY <2>1, <2>3, <2>5 DEF FInv, ReignKept, OneConversion, ConvertedKnown, nodeVars
    <2>9. ListedMasterIsMaster' /\ ListedHasState' /\ monitor' = "running"
        BY <2>3, <2>5, SettingFacts
           DEF FInv, ListedMasterIsMaster, ListedHasState, Listed, HasState
    <2> QED BY <1>1, <2>2, <2>6, <2>7, <2>8, <2>9 DEF FInv
<1>5. CASE RegisterSlaveCheck(t)
    <2>1. CASE Refuse(t)
        BY <1>1, <1>5, <2>1, RefuseFailover DEF RegisterSlaveCheck, FInv
    <2>2. CASE GoTo(t, "insert") /\ UNCHANGED toNode
        <3>1. Registers' = Registers /\ Confirmations' = Confirmations /\ Converts' = Converts
            BY <1>5, <2>2 DEF RegisterSlaveCheck, Registers, Confirmations, Converts
        <3>2. /\ RegistersOnce'
              /\ \A u \in regTasks' : u \in regTasks \/ (u.node = t.node /\ u.stage = "insert")
            BY <1>5, <2>2, <3>1, GoToOnce DEF RegisterSlaveCheck, nodeVars, Stages
        <3>3. StagesFit'
            BY <1>5, <3>2 DEF RegisterSlaveCheck, FInv, StagesFit
        <3>4. /\ ReignKept' /\ OneConversion' /\ ConvertedKnown'
              /\ ListedMasterIsMaster' /\ ListedHasState' /\ monitor' = "running"
            BY <1>5, <3>1, QuietKeeps DEF RegisterSlaveCheck, nodeVars
        <3> QED BY <1>1, <3>2, <3>3, <3>4 DEF FInv
    <2> QED BY <1>5, <2>1, <2>2 DEF RegisterSlaveCheck
<1>6. CASE RegisterInsert(t)
    <2>1. Registers' = Registers /\ Confirmations' = Confirmations
        BY <1>6 DEF RegisterInsert, Registers, Confirmations
    <2>2. Converts' \subseteq Converts
        <3>1. Req("RegisterOk", t.node, t.peer).op # "ConvertToMaster"
            BY DEF Req
        <3> QED BY <1>6, <3>1, SendQuiet DEF RegisterInsert
    <2>3. /\ \A n \in Nodes : n # t.node => /\ node_list'[n] = node_list[n]
                                            /\ node_state'[n] = node_state[n]
                                            /\ peer_map'[n] = peer_map[n]
          /\ node_list'[t.node] = ConfType(t.node) /\ node_state'[t.node] = 0
          /\ peer_map'[t.node] = t.peer /\ t.peer # None
          /\ regTasks' = regTasks \ {t}
          /\ UNCHANGED <<master_node, monitor, nodeVars>>
        BY <1>2, <1>6, SettingFacts DEF RegisterInsert, RecordPeer, FInv, IInv, TypeOK
    <2>4. t.node = TheMaster => master_node = TheMaster
        BY <1>6 DEF RegisterInsert, FInv, StagesFit
    <2>5. t.node = TheMaster => /\ t \in MasterTasks
                                /\ peer_map[TheMaster] = None /\ inc[TheMaster] # 0
        BY DEF FInv, RegistersOnce, MasterTasks
    <2>6. RegistersOnce'
        <3>1. MasterRegisters' = MasterRegisters
            BY <2>1 DEF MasterRegisters
        <3>2. CASE t.node = TheMaster
            <4>1. MasterRegisters = {} /\ MasterTasks' = {}
                BY <2>3, <2>5, <3>2 DEF FInv, RegistersOnce, MasterTasks
            <4> QED BY <2>3, <2>5, <3>1, <3>2, <4>1 DEF RegistersOnce, nodeVars
        <3>3. CASE t.node # TheMaster
            <4>1. MasterTasks' \subseteq MasterTasks /\ UNCHANGED <<peer_map[TheMaster], inc[TheMaster]>>
                BY <2>3, <3>3, SettingFacts DEF MasterTasks, nodeVars
            <4> QED BY <3>1, <4>1, FewerMasterRegistrations
        <3> QED BY <3>2, <3>3
    <2>7. StagesFit'
        BY <2>3 DEF FInv, StagesFit
    <2>8. ReignKept'
        BY <2>1, <2>2, <2>3, <2>4, <2>5, SettingFacts
           DEF FInv, ReignKept, Reign, Listed, HasState, nodeVars
    <2>9. OneConversion' /\ ConvertedKnown'
        BY <2>1, <2>2, <2>3 DEF FInv, OneConversion, ConvertedKnown, nodeVars
    <2>10. ListedMasterIsMaster'
        BY <1>2, <2>3, <2>4, SettingFacts DEF FInv, ListedMasterIsMaster
    <2>11. ListedHasState' /\ monitor' = "running"
        BY <2>3, SettingFacts DEF FInv, ListedHasState, Listed, HasState
    <2> QED BY <1>1, <2>6, <2>7, <2>8, <2>9, <2>10, <2>11 DEF FInv
<1> QED BY <1>3, <1>4, <1>5, <1>6 DEF RegisterStep

\* A report takes no entry away and adds none.
LEMMA ReportFailover ==
    ASSUME OneConfiguredMaster, FInv, NEW m \in toRegistry, Report(m)
    PROVE  FInv'
<1>1. IInv'
    BY ReportStep DEF FInv
<1>2. Registers' \subseteq Registers /\ Confirmations' = Confirmations /\ Converts' = Converts
    BY DEF Report, Registers, Confirmations, Converts
<1>3. \A n \in Nodes : node_state'[n] # None <=> node_state[n] # None
    BY SettingFacts DEF Report, HasState, FInv, IInv, TypeOK
<1>4. RegistersOnce' /\ StagesFit'
    BY <1>2, FewerRegistrations DEF Report, nodeVars
<1> QED BY <1>1, <1>2, <1>3, <1>4, QuietKeeps DEF Report, nodeVars, FInv

\* The converted node answers and becomes the registered master.
LEMMA ConvertToMasterRespFailover ==
    ASSUME OneConfiguredMaster, FInv, NEW m \in toRegistry, ConvertToMasterResp(m)
    PROVE  FInv'
<1>1. IInv'
    BY ConvertToMasterRespStep DEF FInv
<1>2. m \in Confirmations /\ m.node \in Nodes /\ m.node # TheMaster /\ master_node = None
    BY DEF ConvertToMasterResp, Confirmations, FInv, OneConversion, IInv, TypeOK, Request
<1>3. Registers' \subseteq Registers /\ Confirmations' = {} /\ Converts' = {} /\ Converts = {}
    BY <1>2 DEF ConvertToMasterResp, Registers, Confirmations, Converts, FInv, OneConversion
<1>4. /\ node_list'[m.node] = "Master" /\ master_node' = m.node
      /\ \A n \in Nodes : n # m.node => node_list'[n] = node_list[n]
      /\ UNCHANGED <<node_state, peer_map, monitor, regTasks, nodeVars>>
    BY <1>2 DEF ConvertToMasterResp, FInv, IInv, TypeOK
<1>5. peer_map[TheMaster] # None /\ ~Reign
    BY <1>2 DEF FInv, ReignKept, Reign
<1>6. RegistersOnce' /\ StagesFit'
    <2>1. MasterRegisters' \subseteq MasterRegisters /\ MasterTasks' = MasterTasks
        BY <1>3, <1>4 DEF MasterRegisters, MasterTasks
    <2>2. RegistersOnce'
        BY <1>4, <2>1, FewerMasterRegistrations DEF nodeVars
    <2>3. MasterTasks = {}
        BY <1>5 DEF FInv, RegistersOnce
    <2> QED BY <1>4, <2>2, <2>3 DEF FInv, StagesFit, MasterTasks
<1>7. ReignKept'
    BY <1>2, <1>4, <1>5, SettingFacts DEF FInv, ReignKept, Reign, Listed, nodeVars
<1>8. OneConversion' /\ ConvertedKnown'
    <2>1. \A a \in Confirmations : a = m
        BY <1>2 DEF FInv, OneConversion
    <2> QED BY <1>2, <1>3, <1>4, <2>1, SettingFacts DEF FInv, OneConversion, ConvertedKnown, nodeVars
<1>9. ListedMasterIsMaster' /\ ListedHasState' /\ monitor' = "running"
    BY <1>2, <1>4, SettingFacts DEF FInv, ListedMasterIsMaster, ListedHasState, Listed, HasState
<1> QED BY <1>1, <1>6, <1>7, <1>8, <1>9 DEF FInv

-----------------------------------------------------------------------------
\* An election finds every listed node with a state, and tells one of them, and
\* not the old master, to convert.
LEMMA ElectFailover ==
    ASSUME OneConfiguredMaster, FInv, master_node \in Silent, ElectMaster
    PROVE  /\ monitor' = monitor
           /\ \/ Converts' = Converts
              \/ \E s \in Nodes : /\ s \notin Silent /\ Listed(s)
                                  /\ \A c \in Converts' : c \in Converts
                                        \/ c = Req("ConvertToMaster", s, peer_map[s])
<1> DEFINE listed == {n \in Nodes : SweptList[n] # None}
<1>1. \A n \in listed : n \in Nodes /\ n \notin Silent /\ Listed(n)
    BY SweepFacts DEF FInv, SweptList
<1>2. \A n \in listed : SweptState[n] # None
    <2>1. \A n \in listed : HasState(n) /\ node_state[n] \in Nat
        BY <1>1, RegistryAssumption DEF FInv, ListedHasState, IInv, TypeOK, HasState
    <2> QED BY <1>1, <2>1, SettingFacts DEF SweptState
<1>3. ASSUME NEW s \in listed, Convert(s, listed)
      PROVE  \A c \in Converts' : c \in Converts \/ c = Req("ConvertToMaster", s, peer_map[s])
    BY <1>3 DEF Convert, Send, Deliverable, Converts, Req
<1>4. \/ UNCHANGED <<monitor, toNode>>
      \/ UNCHANGED monitor /\ \E s \in listed : Convert(s, listed)
    BY <1>2 DEF ElectMaster
<1>5. CASE UNCHANGED <<monitor, toNode>>
    BY <1>5 DEF Converts
<1>6. CASE UNCHANGED monitor /\ \E s \in listed : Convert(s, listed)
    BY <1>1, <1>3, <1>6
<1> QED BY <1>4, <1>5, <1>6

\* A round that finds the master offline ends its reign and starts one conversion.
LEMMA MonitorRoundFailover ==
    ASSUME OneConfiguredMaster, FInv, MonitorRound
    PROVE  FInv'
<1>1. IInv'
    BY MonitorRoundStep DEF FInv
<1>2. /\ node_list' = SweptList /\ node_state' = SweptState /\ master_node' = MasterAfterRound
      /\ UNCHANGED <<peer_map, regTasks, toRegistry, nodeVars>>
      /\ KeepsUp => \A n \in Silent : ~up[n]
    BY DEF MonitorRound
<1>3. Registers' = Registers /\ Confirmations' = Confirmations
    BY <1>2 DEF Registers, Confirmations
<1>4. \A n \in Nodes : /\ n \in Silent => node_list'[n] = None /\ node_state'[n] = None
                       /\ n \notin Silent => node_list'[n] = node_list[n]
                       /\ n \notin Silent /\ HasState(n) => node_state'[n] # None
                       /\ ~HasState(n) => node_state'[n] = None
    <2>1. \A n \in Nodes : HasState(n) => node_state[n] \in Nat
        BY RegistryAssumption DEF FInv, IInv, TypeOK, HasState
    <2> QED BY <1>2, <2>1, SettingFacts DEF SweptList, SweptState
<1>5. \A n \in Silent : n \in Nodes /\ HasState(n) /\ Listed(n) /\ peer_map[n] # None
    BY SettingFacts, RegistryAssumption
       DEF Silent, HasState, FInv, IInv, StateListed, PeerKnown
<1>6. RegistersOnce'
    <2>1. MasterRegisters' = MasterRegisters /\ MasterTasks' = MasterTasks
        BY <1>2, <1>3 DEF MasterRegisters, MasterTasks
    <2> QED BY <1>2, <2>1, FewerMasterRegistrations DEF nodeVars
<1>7. CASE master_node \notin Silent
    <2>1. master_node' = master_node /\ UNCHANGED <<monitor, toNode>>
        BY <1>2, <1>7 DEF MonitorRound, MasterAfterRound
    <2>2. Converts' = Converts
        BY <2>1 DEF Converts
    <2>3. StagesFit'
        BY <1>2, <2>1 DEF FInv, StagesFit
    <2>4. ReignKept'
        BY <1>2, <1>3, <1>4, <1>5, <1>7, <2>1, <2>2, SettingFacts
           DEF FInv, ReignKept, Reign, Listed, HasState, nodeVars
    <2>5. OneConversion' /\ ConvertedKnown'
        BY <1>2, <1>3, <2>1, <2>2 DEF FInv, OneConversion, ConvertedKnown, nodeVars
    <2>6. ListedMasterIsMaster' /\ ListedHasState' /\ monitor' = "running"
        BY <1>4, <2>1, SettingFacts
           DEF FInv, ListedMasterIsMaster, ListedHasState, Listed, HasState
    <2> QED BY <1>1, <1>6, <2>3, <2>4, <2>5, <2>6 DEF FInv
<1>8. CASE master_node \in Silent
    <2>1. master_node' = None /\ monitor' = monitor /\ ElectMaster
        BY <1>2, <1>8, ElectFailover DEF MonitorRound, MasterAfterRound
    <2>2. Converts = {} /\ Confirmations = {}
        BY <1>5, <1>8, SettingFacts DEF FInv, OneConversion
    <2>3. \/ Converts' = {}
          \/ \E s \in Nodes : s \notin Silent /\ Listed(s)
                              /\ \A c \in Converts' : c = Req("ConvertToMaster", s, peer_map[s])
        BY <1>8, <2>1, <2>2, ElectFailover
    <2>4. peer_map[TheMaster] # None /\ node_list'[TheMaster] = None /\ (KeepsUp => ~up[TheMaster])
        <3>1. CASE Reign
            <4>1. master_node = TheMaster
                BY <1>5, <1>8, <3>1, SettingFacts DEF FInv, ReignKept
            <4> QED BY <1>2, <1>4, <1>5, <1>8, <4>1
        <3>2. CASE ~Reign
            BY <1>4, <1>5, <3>2, SettingFacts DEF FInv, ReignKept, Reign, Listed
        <3> QED BY <3>1, <3>2
    <2>5. StagesFit'
        <3>1. MasterTasks = {}
            BY <2>4 DEF FInv, RegistersOnce
        <3> QED BY <1>2, <3>1 DEF FInv, StagesFit, MasterTasks
    <2>6. ReignKept'
        BY <1>2, <2>4 DEF ReignKept, Reign, Listed, nodeVars
    <2>7. \A c1, c2 \in Converts' : c1 = c2 /\ c1.node # TheMaster
        <3>1. ASSUME NEW s \in Nodes, s \notin Silent, Listed(s)
              PROVE  Req("ConvertToMaster", s, peer_map[s]).node # TheMaster
            <4>1. s # TheMaster
                BY <1>4, <2>4, <3>1 DEF Listed
            <4> QED BY <4>1 DEF Req
        <3> QED BY <2>3, <3>1
    <2>8. OneConversion'
        BY <1>3, <2>1, <2>2, <2>7 DEF OneConversion
    <2>9. ConvertedKnown'
        BY <1>2, <1>3, <1>8, <2>1 DEF FInv, ConvertedKnown, nodeVars
    <2>10. ListedMasterIsMaster' /\ ListedHasState' /\ monitor' = "running"
        BY <1>4, <1>8, <2>1, SettingFacts
           DEF FInv, ListedMasterIsMaster, ListedHasState, Listed, HasState
    <2> QED BY <1>1, <1>6, <2>5, <2>6, <2>8, <2>9, <2>10 DEF FInv
<1> QED BY <1>7, <1>8

-----------------------------------------------------------------------------
\* A process that is gone takes its messages with it, and nothing else.
LEMMA GoneFailover ==
    ASSUME OneConfiguredMaster, FInv, NEW n \in Nodes, Gone(n),
           UNCHANGED <<registryVars, inc, node_type>>
    PROVE  /\ RegistersOnce' /\ StagesFit' /\ ReignKept' /\ OneConversion' /\ ConvertedKnown'
           /\ ListedMasterIsMaster' /\ ListedHasState' /\ monitor' = "running"
<1>1. /\ \A m \in toRegistry : m \in toRegistry' \/ m.node = n
      /\ toRegistry' \subseteq toRegistry /\ toNode' \subseteq toNode
    BY DEF Gone
<1>2. /\ Registers' \subseteq Registers /\ Confirmations' \subseteq Confirmations /\ Converts' \subseteq Converts
      /\ \A m \in Confirmations : m \in Confirmations' \/ m.node = n
    BY <1>1 DEF Registers, Confirmations, Converts
<1>3. ~up'[n] /\ \A k \in Nodes : up'[k] => up[k]
    BY DEF Gone, FInv, IInv, TypeOK
<1>4. RegistersOnce' /\ StagesFit'
    BY <1>2, FewerRegistrations DEF registryVars
<1> QED BY <1>2, <1>3, <1>4, QuietKeeps DEF registryVars

\* The node that is told to convert answers; the others only take note.
LEMMA CommandFailover ==
    ASSUME OneConfiguredMaster, FInv, NEW c \in toNode, HandleCommand(c)
    PROVE  FInv'
<1>1. IInv'
    BY CommandStep DEF FInv
<1>2. c.node \in Nodes
    BY DEF FInv, IInv, TypeOK, Command
<1>3. CASE ReceiveRegisterOk(c) \/ ReceiveChangeMaster(c)
    <2>1. /\ toNode' \subseteq toNode
          /\ UNCHANGED <<registryVars, toRegistry, nodeVars>>
        BY <1>3 DEF ReceiveRegisterOk, ReceiveChangeMaster
    <2>2. Registers' = Registers /\ Confirmations' = Confirmations /\ Converts' \subseteq Converts
        BY <2>1 DEF Registers, Confirmations, Converts
    <2>3. RegistersOnce' /\ StagesFit'
        BY <2>1, <2>2, FewerRegistrations DEF registryVars, nodeVars
    <2> QED BY <1>1, <2>1, <2>2, <2>3, QuietKeeps DEF registryVars, nodeVars, FInv
<1>4. CASE ReceiveRegisterFail(c)
    BY <1>1, <1>2, <1>4, GoneFailover DEF ReceiveRegisterFail, FInv
<1>5. CASE ReceiveConvertToMaster(c)
    <2> DEFINE r == Req("ConvertToMasterResp", c.node, c.peer)
    <2>1. /\ toNode' = toNode \ {c} /\ toRegistry' = toRegistry \cup {r}
          /\ r.op = "ConvertToMasterResp" /\ r.node = c.node /\ c \in Converts
        BY <1>5 DEF ReceiveConvertToMaster, Converts, Req
    <2>2. UNCHANGED <<registryVars, up, inc, crashes>>
        BY <1>5 DEF ReceiveConvertToMaster
    <2>3. \A n \in Nodes : n # c.node => node_type'[n] = node_type[n]
        BY <1>5 DEF ReceiveConvertToMaster, FInv, IInv, TypeOK
    <2> HIDE DEF r
    <2>4. /\ Registers' = Registers
          /\ Converts' = {}
          /\ Confirmations' = {r}
          /\ Confirmations = {}
        BY <2>1 DEF Registers, Converts, Confirmations, FInv, OneConversion
    <2>5. c.node # TheMaster /\ master_node = None /\ ~Reign
        BY <2>1 DEF FInv, OneConversion, ReignKept
    <2>6. RegistersOnce' /\ StagesFit'
        BY <2>2, <2>4, FewerRegistrations DEF registryVars
    <2>7. ReignKept'
        BY <2>2, <2>5 DEF FInv, ReignKept, Reign, Listed, HasState, registryVars
    <2>8. OneConversion'
        BY <2>1, <2>2, <2>4, <2>5 DEF OneConversion, registryVars
    <2>9. ConvertedKnown'
        BY <2>1, <2>2, <2>3, <2>4 DEF FInv, ConvertedKnown, registryVars
    <2>10. ListedMasterIsMaster' /\ ListedHasState' /\ monitor' = "running"
        BY <2>2 DEF FInv, ListedMasterIsMaster, ListedHasState, Listed, HasState, registryVars
    <2> QED BY <1>1, <2>6, <2>7, <2>8, <2>9, <2>10 DEF FInv
<1> QED BY <1>3, <1>4, <1>5 DEF HandleCommand

\* When the configured master starts, nothing of it is known yet.
LEMMA StartsOnce ==
    ASSUME OneConfiguredMaster, FInv, Start(TheMaster)
    PROVE  inc[TheMaster] = 0 /\ peer_map[TheMaster] = None
<1>1. inc[TheMaster] \in Nat /\ MaxStarts[TheMaster] \in Nat /\ MaxStarts[TheMaster] <= 1
    BY RegistryAssumption, SettingFacts DEF FInv, IInv, TypeOK, OneConfiguredMaster
<1>2. inc[TheMaster] = 0
    BY <1>1 DEF Start
<1> QED BY <1>2 DEF FInv, RegistersOnce

\* A node starts, reports or crashes.
LEMMA NodeFailover ==
    ASSUME OneConfiguredMaster, FInv, NEW n \in Nodes, Start(n) \/ SendReport(n) \/ Crash(n)
    PROVE  FInv'
<1>1. IInv'
    BY NodeStep DEF FInv
<1>2. CASE Start(n)
    <2> DEFINE r == Req("Register", n, inc[n] + 1)
    <2>1. n = TheMaster => inc[n] = 0 /\ inc'[n] = 1 /\ peer_map[n] = None
        BY <1>2, StartsOnce DEF Start, FInv, IInv, TypeOK
    <2>2. /\ \A k \in Nodes : k # n => inc'[k] = inc[k] /\ up'[k] = up[k] /\ node_type'[k] = node_type[k]
          /\ node_type'[n] = ConfType(n)
          /\ UNCHANGED <<registryVars, toNode, crashes>>
          /\ toRegistry' = toRegistry \cup {r} /\ r.op = "Register" /\ r.node = n
        BY <1>2 DEF Start, FInv, IInv, TypeOK, Req
    <2> HIDE DEF r
    <2>3. Registers' = Registers \cup {r} /\ Confirmations' = Confirmations /\ Converts' = Converts
        BY <2>2 DEF Registers, Confirmations, Converts
    <2>4. RegistersOnce'
        <3>1. MasterTasks' = MasterTasks /\ UNCHANGED peer_map
            BY <2>2 DEF MasterTasks, registryVars
        <3>2. CASE n = TheMaster
            <4>1. MasterRegisters = {} /\ MasterTasks = {}
                BY <2>1, <3>2 DEF FInv, RegistersOnce
            <4>2. MasterRegisters' = {r}
                BY <2>2, <2>3, <3>2, <4>1 DEF MasterRegisters
            <4> QED BY <2>1, <3>1, <3>2, <4>1, <4>2 DEF RegistersOnce
        <3>3. CASE n # TheMaster
            <4>1. MasterRegisters' = MasterRegisters /\ UNCHANGED <<peer_map[TheMaster], inc[TheMaster]>>
                BY <2>2, <2>3, <3>1, <3>3, SettingFacts DEF MasterRegisters
            <4> QED BY <3>1, <4>1, FewerMasterRegistrations
        <3> QED BY <3>2, <3>3
    <2>5. StagesFit'
        BY <2>2 DEF FInv, StagesFit, registryVars
    <2>6. ReignKept'
        BY <2>1, <2>2, <2>3, SettingFacts
           DEF FInv, ReignKept, Reign, Listed, HasState, registryVars
    <2>7. OneConversion'
        BY <2>2, <2>3 DEF FInv, OneConversion, registryVars
    <2>8. ConvertedKnown'
        BY <2>2, <2>3, SettingFacts DEF FInv, ConvertedKnown, registryVars
    <2>9. ListedMasterIsMaster' /\ ListedHasState' /\ monitor' = "running"
        BY <2>2 DEF FInv, ListedMasterIsMaster, ListedHasState, Listed, HasState, registryVars
    <2> QED BY <1>1, <2>4, <2>5, <2>6, <2>7, <2>8, <2>9 DEF FInv
<1>3. CASE SendReport(n)
    <2>1. Req("Report", n, inc[n]).op = "Report"
        BY DEF Req
    <2>2. Registers' = Registers /\ Confirmations' = Confirmations /\ Converts' = Converts
        BY <1>3, <2>1 DEF SendReport, Registers, Confirmations, Converts
    <2>3. RegistersOnce' /\ StagesFit'
        BY <1>3, <2>2, FewerRegistrations DEF SendReport, registryVars, nodeVars
    <2> QED BY <1>1, <1>3, <2>2, <2>3, QuietKeeps DEF SendReport, registryVars, nodeVars, FInv
<1>4. CASE Crash(n)
    BY <1>1, <1>4, GoneFailover DEF Crash, FInv
<1> QED BY <1>2, <1>3, <1>4

-----------------------------------------------------------------------------
\* Every step keeps the account of failover.
LEMMA NextFInv == OneConfiguredMaster /\ FInv /\ [Next]_vars => FInv'
<1> SUFFICES ASSUME OneConfiguredMaster, FInv, [Next]_vars PROVE FInv'
    OBVIOUS
<1>1. ASSUME NEW m \in toRegistry, HandleRequest(m) PROVE FInv'
    BY <1>1, RegisterCheckListedFailover, ReportFailover, ConvertToMasterRespFailover
       DEF HandleRequest
<1>2. ASSUME NEW t \in regTasks, RegisterStep(t) PROVE FInv'
    BY <1>2, RegisterStepFailover
<1>3. CASE MonitorRound
    BY <1>3, MonitorRoundFailover
<1>4. ASSUME NEW c \in toNode, HandleCommand(c) PROVE FInv'
    BY <1>4, CommandFailover
<1>5. ASSUME NEW n \in Nodes, Start(n) \/ SendReport(n) \/ Crash(n) PROVE FInv'
    BY <1>5, NodeFailover
<1>6. CASE UNCHANGED vars
    <2>1. IInv'
        BY NextIInv DEF FInv
    <2>2. Registers' = Registers /\ Confirmations' = Confirmations /\ Converts' = Converts
        BY <1>6 DEF vars, Registers, Confirmations, Converts
    <2>3. RegistersOnce' /\ StagesFit'
        BY <1>6, <2>2, FewerRegistrations DEF vars, registryVars, nodeVars
    <2> QED BY <1>6, <2>1, <2>2, <2>3, QuietKeeps DEF vars, registryVars, nodeVars, FInv
<1> QED BY <1>1, <1>2, <1>3, <1>4, <1>5, <1>6 DEF Next

(* The account of failover holds in every reachable state of the setting.   *)
THEOREM FailoverInvariance ==
    ASSUME OneConfiguredMaster
    PROVE  Spec => []FInv
<1>1. Init => FInv
    BY InitFInv
<1>2. FInv /\ [Next]_vars => FInv'
    BY NextFInv
<1> QED BY <1>1, <1>2, PTL DEF Spec

(* "only one master node can exist": however many slaves take over from     *)
(* each other, the registry lists one master at a time.                     *)
THEOREM OneMasterInList ==
    ASSUME OneConfiguredMaster
    PROVE  Spec => []OneMasterListed
<1>1. FInv => OneMasterListed
    BY SettingFacts DEF FInv, ListedMasterIsMaster, OneMasterListed
<1> QED BY <1>1, FailoverInvariance, PTL

(* If reports are handled in time, two live processes never update the      *)
(* world as its master: the old one is dead when the next is told to        *)
(* convert, and the next but one is told only after the next has answered   *)
(* and died.                                                                *)
THEOREM OneMasterActs ==
    ASSUME OneConfiguredMaster, KeepsUp
    PROVE  Spec => []OneActingMaster
<1>1. FInv => OneActingMaster
    <2> SUFFICES ASSUME FInv
                 PROVE  OneActingMaster
        OBVIOUS
    <2>1. \A m, n \in ActingMasters : m = n
        <3> SUFFICES ASSUME NEW m \in ActingMasters, NEW n \in ActingMasters
                     PROVE  m = n
            OBVIOUS
        <3>1. CASE up[TheMaster]
            BY <3>1 DEF FInv, ReignKept, ActingMasters
        <3>2. CASE ~up[TheMaster]
            BY <3>2, SettingFacts DEF FInv, ConvertedKnown, OneConversion, ActingMasters
        <3> QED BY <3>1, <3>2
    <2>2. CASE ActingMasters = {}
        BY <2>2, FS_EmptySet DEF OneActingMaster
    <2>3. CASE ActingMasters # {}
        <3>1. PICK n \in ActingMasters : ActingMasters = {n}
            BY <2>1, <2>3
        <3>2. Cardinality({n}) = 1
            BY FS_Singleton
        <3> QED BY <3>1, <3>2 DEF OneActingMaster
    <2> QED BY <2>2, <2>3
<1> QED BY <1>1, FailoverInvariance, PTL

(* Every listed node but the master is watched, so that get_min_load_node   *)
(* finds the state of whichever key it starts from.                         *)
THEOREM ListedNodesAreWatched ==
    ASSUME OneConfiguredMaster
    PROVE  Spec => []ListedHasState
BY FailoverInvariance, PTL DEF FInv

(* ... and the monitor never ends in a panic.                               *)
THEOREM MonitorSurvives ==
    ASSUME OneConfiguredMaster
    PROVE  Spec => [](monitor = "running")
BY FailoverInvariance, PTL DEF FInv

(* No answer and no registration replaces a registered master: it changes   *)
(* only by being found offline.                                             *)
THEOREM MasterChangesThroughNone ==
    ASSUME OneConfiguredMaster
    PROVE  Spec => MasterHandover
<1>1. FInv /\ [Next]_vars => [master_node # None => master_node' \in {master_node, None}]_vars
    <2> SUFFICES ASSUME FInv, [Next]_vars, master_node # None
                 PROVE  master_node' \in {master_node, None}
        OBVIOUS
    <2>1. ASSUME NEW m \in toRegistry, HandleRequest(m)
          PROVE  master_node' \in {master_node, None}
        <3>1. ~ConvertToMasterResp(m)
            BY DEF ConvertToMasterResp, FInv, OneConversion, Confirmations
        <3> QED BY <2>1, <3>1 DEF HandleRequest, RegisterCheckListed, Report
    <2>2. ASSUME NEW t \in regTasks, RegisterStep(t)
          PROVE  master_node' \in {master_node, None}
        <3>1. CASE RegisterMasterSet(t)
            BY <3>1, MasterSetFirst
        <3> QED BY <2>2, <3>1 DEF RegisterStep, RegisterMasterCheck, RegisterSlaveCheck, RegisterInsert
    <2>3. CASE MonitorRound
        BY <2>3 DEF MonitorRound, MasterAfterRound
    <2>4. ASSUME NEW c \in toNode, HandleCommand(c)
          PROVE  master_node' \in {master_node, None}
        BY <2>4 DEF HandleCommand, ReceiveRegisterOk, ReceiveRegisterFail,
                    ReceiveConvertToMaster, ReceiveChangeMaster, registryVars
    <2>5. ASSUME NEW n \in Nodes, Start(n) \/ SendReport(n) \/ Crash(n)
          PROVE  master_node' \in {master_node, None}
        BY <2>5 DEF Start, SendReport, Crash, registryVars
    <2> QED BY <2>1, <2>2, <2>3, <2>4, <2>5 DEF Next, vars, registryVars
<1> QED BY <1>1, FailoverInvariance, PTL DEF Spec, MasterHandover

-----------------------------------------------------------------------------
(* Failover implements Mastership: every step of the registry and of the    *)
(* nodes is one of its steps, or changes nothing it speaks of.              *)

\* What a step has to do in Mastership.
Mastered == [Masterships!Next]_(Masterships!vars)

\* A step that changes nothing Mastership speaks of.
LEMMA Unmastered ==
    ASSUME UNCHANGED master_node, UNCHANGED <<up, node_type>>, Told' = Told
    PROVE  Mastered
BY DEF Mastered, Masterships!vars, ActingMasters

\* Commands other than ConvertToMaster tell nobody to take over.
LEMMA SendTells ==
    ASSUME NEW c, c.op # "ConvertToMaster", Send({c})
    PROVE  Told' = Told
BY DEF Send, Deliverable, Told

\* Told in the terms of the account of failover.
LEMMA ToldFacts == Told = {c.node : c \in Converts} /\ Told' = {c.node : c \in Converts'}
BY DEF Told, Converts

\* While there is a registered master, nobody else acts as one.
LEMMA MasterActsAlone ==
    ASSUME OneConfiguredMaster, KeepsUp, FInv, master_node # None
    PROVE  ActingMasters \subseteq {master_node}
<1> SUFFICES ASSUME NEW n \in ActingMasters
             PROVE  n = master_node
    OBVIOUS
<1>1. CASE n = TheMaster
    BY <1>1 DEF FInv, ReignKept, Reign, ActingMasters, OneConversion
<1>2. CASE n # TheMaster
    BY <1>2 DEF FInv, ConvertedKnown, OneConversion, ActingMasters
<1> QED BY <1>1, <1>2

\* While somebody is being converted nobody acts as the master.
LEMMA ConvertsAreVacant ==
    ASSUME OneConfiguredMaster, KeepsUp, FInv, Converts # {}
    PROVE  ActingMasters = {} /\ master_node = None
<1>1. master_node = None /\ Confirmations = {} /\ ~up[TheMaster]
    BY DEF FInv, OneConversion, ReignKept
<1> QED BY <1>1, SettingFacts DEF FInv, ConvertedKnown, ActingMasters

\* Registrations: the section that sets the master registers the one that acts.
LEMMA RequestMastered ==
    ASSUME OneConfiguredMaster, KeepsUp, FInv, NEW m \in toRegistry, HandleRequest(m)
    PROVE  Mastered
<1>1. CASE RegisterCheckListed(m)
    <2>1. Req("RegisterFail", m.node, m.peer).op # "ConvertToMaster"
        BY DEF Req
    <2>2. Told' = Told
        BY <1>1, <2>1, SendTells DEF RegisterCheckListed, Told
    <2> QED BY <1>1, <2>2, Unmastered DEF RegisterCheckListed, nodeVars
<1>2. CASE Report(m)
    <2>1. Told' = Told
        BY <1>2 DEF Report, Told
    <2> QED BY <1>2, <2>1, Unmastered DEF Report, nodeVars
<1>3. CASE ConvertToMasterResp(m)
    <2>1. /\ m \in Confirmations /\ m.node \in Nodes /\ master_node = None
          /\ Converts = {} /\ ~up[TheMaster]
        BY <1>3 DEF ConvertToMasterResp, Confirmations, FInv, OneConversion, ReignKept,
                    IInv, TypeOK, Request
    <2>2. ActingMasters \subseteq {m.node}
        BY <2>1, SettingFacts DEF FInv, ConvertedKnown, OneConversion, ActingMasters
    <2>3. Told = {} /\ Told' = Told
        BY <1>3, <2>1, ToldFacts DEF ConvertToMasterResp, Told
    <2>4. master_node' = m.node /\ ActingMasters' = ActingMasters
        BY <1>3 DEF ConvertToMasterResp, nodeVars, ActingMasters
    <2>5. Masterships!Register(m.node)
        BY <2>1, <2>2, <2>3, <2>4 DEF Masterships!Register
    <2> QED BY <2>1, <2>5 DEF Mastered, Masterships!Next
<1> QED BY <1>1, <1>2, <1>3 DEF HandleRequest

LEMMA RegisterStepMastered ==
    ASSUME OneConfiguredMaster, KeepsUp, FInv, NEW t \in regTasks, RegisterStep(t)
    PROVE  Mastered
<1>1. ASSUME Refuse(t) PROVE Told' = Told
    <2>1. Req("RegisterFail", t.node, t.peer).op # "ConvertToMaster"
        BY DEF Req
    <2> QED BY <1>1, <2>1, SendTells DEF Refuse
<1>2. CASE RegisterMasterCheck(t)
    <2>1. Told' = Told
        BY <1>1, <1>2 DEF RegisterMasterCheck, Told
    <2> QED BY <1>2, <2>1, Unmastered DEF RegisterMasterCheck, nodeVars
<1>3. CASE RegisterSlaveCheck(t)
    <2>1. Told' = Told
        BY <1>1, <1>3 DEF RegisterSlaveCheck, Told
    <2> QED BY <1>3, <2>1, Unmastered DEF RegisterSlaveCheck, nodeVars
<1>4. CASE RegisterInsert(t)
    <2>1. Req("RegisterOk", t.node, t.peer).op # "ConvertToMaster"
        BY DEF Req
    <2>2. Told' = Told
        BY <1>4, <2>1, SendTells DEF RegisterInsert
    <2> QED BY <1>4, <2>2, Unmastered DEF RegisterInsert, nodeVars
<1>5. CASE RegisterMasterSet(t)
    <2>1. t.node = TheMaster /\ Reign /\ master_node = None
        BY <1>5, MasterSetFirst
    <2>2. Converts = {} /\ ActingMasters \subseteq {TheMaster}
        BY <2>1 DEF FInv, ReignKept, ActingMasters
    <2>3. Told = {} /\ Told' = Told
        BY <1>5, <2>2, ToldFacts DEF RegisterMasterSet, Told
    <2>4. master_node' = TheMaster /\ ActingMasters' = ActingMasters
        BY <1>5, <2>1 DEF RegisterMasterSet, nodeVars, ActingMasters
    <2>5. Masterships!Register(TheMaster)
        BY <2>1, <2>2, <2>3, <2>4 DEF Masterships!Register
    <2> QED BY <2>5, SettingFacts DEF Mastered, Masterships!Next
<1> QED BY <1>2, <1>3, <1>4, <1>5 DEF RegisterStep

\* A round deposes a master that is dead, and tells one node to take over.
LEMMA RoundMastered ==
    ASSUME OneConfiguredMaster, KeepsUp, FInv, MonitorRound
    PROVE  Mastered
<1>1. /\ master_node' = MasterAfterRound /\ UNCHANGED <<up, node_type>>
      /\ \A n \in Silent : ~up[n]
    BY DEF MonitorRound, nodeVars
<1>2. CASE master_node \notin Silent
    <2>1. Told' = Told /\ UNCHANGED master_node
        BY <1>1, <1>2 DEF MonitorRound, MasterAfterRound, Told
    <2> QED BY <1>1, <2>1, Unmastered
<1>3. CASE master_node \in Silent
    <2>1. master_node # None /\ master_node' = None /\ ElectMaster
        BY <1>1, <1>3, SettingFacts DEF MonitorRound, MasterAfterRound, Silent
    <2>2. ActingMasters = {} /\ ActingMasters' = {}
        BY <1>1, <1>3, <2>1, MasterActsAlone DEF ActingMasters
    <2>3. Converts = {}
        BY <2>1 DEF FInv, OneConversion
    <2>4. \/ Converts' = {}
          \/ \E s \in Nodes : \A c \in Converts' : c = Req("ConvertToMaster", s, peer_map[s])
        BY <1>3, <2>1, <2>3, ElectFailover
    <2>5. Told' = {} \/ \E n \in Nodes : Told' = {n}
        BY <2>4, ToldFacts DEF Req
    <2>6. Masterships!Depose
        BY <2>1, <2>2, <2>5 DEF Masterships!Depose
    <2> QED BY <2>6 DEF Mastered, Masterships!Next
<1> QED BY <1>2, <1>3

\* Who is gone acts no longer and has lost what it was told.
LEMMA GoneMastered ==
    ASSUME FInv, NEW n \in Nodes, Gone(n), UNCHANGED <<master_node, node_type>>
    PROVE  Mastered
<1>1. \A k \in Nodes : up'[k] <=> up[k] /\ k # n
    BY DEF Gone, FInv, IInv, TypeOK
<1>2. ActingMasters' = ActingMasters \ {n}
    BY <1>1 DEF ActingMasters
<1>3. Told' = Told \ {n}
    BY DEF Gone, Told
<1>4. Masterships!Stop(n)
    BY <1>2, <1>3 DEF Masterships!Stop
<1> QED BY <1>4 DEF Mastered, Masterships!Next

LEMMA CommandMastered ==
    ASSUME OneConfiguredMaster, KeepsUp, FInv, NEW c \in toNode, HandleCommand(c)
    PROVE  Mastered
<1>1. c.node \in Nodes
    BY DEF FInv, IInv, TypeOK, Command
<1>2. CASE ReceiveRegisterOk(c) \/ ReceiveChangeMaster(c)
    <2>1. toNode' = toNode \ {c} /\ c.op # "ConvertToMaster"
          /\ UNCHANGED <<master_node, up, node_type>>
        BY <1>2 DEF ReceiveRegisterOk, ReceiveChangeMaster, registryVars, nodeVars
    <2>2. Told' = Told
        BY <2>1 DEF Told
    <2> QED BY <2>1, <2>2, Unmastered
<1>3. CASE ReceiveRegisterFail(c)
    BY <1>1, <1>3, GoneMastered DEF ReceiveRegisterFail, registryVars
<1>4. CASE ReceiveConvertToMaster(c)
    <2>1. /\ c \in Converts /\ UNCHANGED <<master_node, up>>
          /\ toNode' = toNode \ {c}
        BY <1>4 DEF ReceiveConvertToMaster, Converts, registryVars
    <2>2. Converts = {c} /\ Converts' = {}
        BY <2>1 DEF FInv, OneConversion, Converts
    <2>3. Told = {c.node} /\ Told' = {}
        BY <2>2, ToldFacts
    <2>4. ActingMasters = {} /\ master_node = None
        BY <2>1, ConvertsAreVacant
    <2>5. \A n \in Nodes : node_type'[n] = IF n = c.node THEN "Master" ELSE node_type[n]
        BY <1>4 DEF ReceiveConvertToMaster, FInv, IInv, TypeOK
    <2>6. CASE up[c.node]
        <3>1. ActingMasters' = {c.node}
            BY <1>1, <2>1, <2>4, <2>5, <2>6 DEF ActingMasters
        <3>2. Masterships!TakeOver(c.node)
            BY <2>1, <2>3, <2>4, <3>1 DEF Masterships!TakeOver, Masterships!Vacant
        <3> QED BY <1>1, <3>2 DEF Mastered, Masterships!Next
    <2>7. CASE ~up[c.node]
        <3>1. ActingMasters' = {}
            BY <2>1, <2>4, <2>5, <2>7 DEF ActingMasters
        <3>2. Masterships!Stop(c.node)
            BY <2>1, <2>3, <2>4, <3>1 DEF Masterships!Stop
        <3> QED BY <1>1, <3>2 DEF Mastered, Masterships!Next
    <2> QED BY <2>6, <2>7
<1> QED BY <1>2, <1>3, <1>4 DEF HandleCommand

\* The configured master begins to act before anybody is registered.
LEMMA StartMastered ==
    ASSUME OneConfiguredMaster, KeepsUp, FInv, NEW n \in Nodes, Start(n)
    PROVE  Mastered
<1>1. /\ UNCHANGED <<regTasks, master_node, toNode>>
      /\ \A k \in Nodes : k # n => up'[k] = up[k] /\ node_type'[k] = node_type[k]
      /\ ~up[n] /\ node_type'[n] = ConfType(n)
      /\ n \in ConfMaster => up'[n]
    BY DEF Start, registryVars, FInv, IInv, TypeOK
<1>2. Told' = Told
    BY <1>1 DEF Told
<1>3. CASE n # TheMaster
    <2>1. node_type'[n] # "Master"
        BY <1>1, <1>3, SettingFacts
    <2>2. ActingMasters' = ActingMasters
        BY <1>1, <2>1 DEF ActingMasters
    <2> QED BY <1>1, <1>2, <2>2 DEF Mastered, Masterships!vars
<1>4. CASE n = TheMaster
    <2>1. inc[n] = 0 /\ peer_map[n] = None /\ Reign
        BY <1>4, StartsOnce DEF Reign
    <2>2. master_node = None
        <3>1. MasterTasks = {} /\ ~Listed(TheMaster)
            BY <1>4, <2>1, SettingFacts DEF FInv, RegistersOnce, IInv, PeerKnown
        <3>2. master_node # TheMaster
            BY <3>1, SettingFacts DEF FInv, IInv, MasterListed, MasterTasks
        <3> QED BY <2>1, <3>2 DEF FInv, ReignKept
    <2>3. ActingMasters = {} /\ Converts = {}
        BY <1>1, <1>4, <2>1 DEF FInv, ReignKept, ActingMasters
    <2>4. ActingMasters' = {n}
        BY <1>1, <1>4, <2>3, SettingFacts DEF ActingMasters
    <2>5. Told = {}
        BY <2>3, ToldFacts
    <2>6. Masterships!Begin(n)
        BY <1>1, <1>2, <2>2, <2>3, <2>4, <2>5 DEF Masterships!Begin, Masterships!Vacant
    <2> QED BY <1>4, <2>6, SettingFacts DEF Mastered, Masterships!Next
<1> QED BY <1>3, <1>4

LEMMA NextMastered == OneConfiguredMaster /\ KeepsUp /\ FInv /\ [Next]_vars => Mastered
<1> SUFFICES ASSUME OneConfiguredMaster, KeepsUp, FInv, [Next]_vars PROVE Mastered
    OBVIOUS
<1>1. ASSUME NEW m \in toRegistry, HandleRequest(m) PROVE Mastered
    BY <1>1, RequestMastered
<1>2. ASSUME NEW t \in regTasks, RegisterStep(t) PROVE Mastered
    BY <1>2, RegisterStepMastered
<1>3. CASE MonitorRound
    BY <1>3, RoundMastered
<1>4. ASSUME NEW c \in toNode, HandleCommand(c) PROVE Mastered
    BY <1>4, CommandMastered
<1>5. ASSUME NEW n \in Nodes, Start(n) \/ SendReport(n) \/ Crash(n) PROVE Mastered
    <2>1. CASE SendReport(n)
        BY <2>1, Unmastered DEF SendReport, registryVars, nodeVars, Told
    <2>2. CASE Crash(n)
        BY <2>2, GoneMastered DEF Crash, registryVars
    <2> QED BY <1>5, <2>1, <2>2, StartMastered
<1>6. CASE UNCHANGED vars
    BY <1>6, Unmastered DEF vars, registryVars, nodeVars, Told
<1> QED BY <1>1, <1>2, <1>3, <1>4, <1>5, <1>6 DEF Next

(* Failover keeps the promise of Mastership for any number of nodes, rounds *)
(* and crashes: a master is deposed only when it no longer acts, and a node *)
(* takes over only from a vacancy and only if it is the one that was told.  *)
THEOREM ImplementsTheMastership ==
    ASSUME OneConfiguredMaster, KeepsUp
    PROVE  Spec => ImplementsMastership
<1>1. Init => Masterships!Init
    BY DEF Init, Masterships!Init, ActingMasters, Told
<1>2. FInv /\ [Next]_vars => [Masterships!Next]_(Masterships!vars)
    BY NextMastered DEF Mastered
<1> QED BY <1>1, <1>2, FailoverInvariance, PTL DEF Spec, ImplementsMastership, Masterships!Spec
=============================================================================
