--------------------------- MODULE SessionsProofs ---------------------------
(***************************************************************************)
(* Proofs about Sessions for any clients, servers and ids; all but         *)
(* NoUserLeftBehind hold also if clients wait for nothing and heartbeats    *)
(* are late.                                                                *)
(*                                                                         *)
(* That a session keeps its user is not inductive: a DelUser on its way,   *)
(* or a second session, could take the user away.  What excludes both is   *)
(* that ids are issued once: two sessions have different ids, and a        *)
(* DelUser is about an id that no session has any more.                    *)
(***************************************************************************)
EXTENDS Sessions, TLAPS

-----------------------------------------------------------------------------
(* Types.                                                                   *)

LEMMA MessageTypes ==
    ASSUME NEW c \in Clients, NEW id \in Ids, NEW to \in Clients \cup {None}
    PROVE  /\ AddUserMsg(id, c) \in Forward
           /\ DelUserMsg(id, to) \in Forward
           /\ [op |-> "Write", id |-> None, client |-> c] \in Forward
BY DEF AddUserMsg, DelUserMsg, Forward

LEMMA EndOwnTypes ==
    ASSUME TypeOK, NEW c \in Clients, EndOwn(c)
    PROVE  /\ client_map' \in [Clients -> Ids \cup {None}]
           /\ forwarded' \subseteq Forward
           /\ users' \subseteq Ids
BY DEF TypeOK, EndOwn

LEMMA EndForwardedTypes ==
    ASSUME TypeOK, NEW c \in Clients, NEW to \in Clients \cup {None},
           client_map[c] # None, EndForwarded(c, to)
    PROVE  /\ client_map' \in [Clients -> Ids \cup {None}]
           /\ forwarded' \subseteq Forward
           /\ users' \subseteq Ids
<1>1. client_map[c] \in Ids
    BY DEF TypeOK
<1>2. DelUserMsg(client_map[c], to) \in Forward
    BY <1>1, MessageTypes
<1> QED BY <1>2 DEF TypeOK, EndForwarded

LEMMA TypeNext ==
    ASSUME TypeOK, [Next]_vars
    PROVE  TypeOK'
<1> USE SessionsAssumption DEF TypeOK
<1>1. ASSUME NEW c \in Clients, NEW o \in Ops, SendRequest(c, o)
      PROVE  TypeOK'
    BY <1>1 DEF SendRequest, monitorVars, Request
<1>2. ASSUME NEW c \in Clients, Close(c)
      PROVE  TypeOK'
    BY <1>2 DEF Close, monitorVars
<1>3. ASSUME NEW c \in Clients, Ping(c) \/ Lapse(c)
      PROVE  TypeOK'
    BY <1>3 DEF Ping, Lapse, clientVars, monitorVars
<1>4. ASSUME NEW c \in Clients, Login(c)
      PROVE  TypeOK'
    <2>1. requests' \subseteq Request /\ alive' = alive /\ last_time' = last_time
          /\ UNCHANGED monitorVars
        BY <1>4 DEF Login
    <2>2. CASE client_map[c] # None
        BY <1>4, <2>1, <2>2 DEF Login, Reply, monitorVars
    <2>3. CASE client_map[c] = None
        <3>1. PICK id \in Ids :
                  /\ NextId(id)
                  /\ client_map' = [client_map EXCEPT ![c] = id]
                  /\ \/ /\ AtMaster(c)
                        /\ users' = users \cup {id}
                        /\ Reply(c)
                        /\ UNCHANGED forwarded
                     \/ /\ ~AtMaster(c)
                        /\ forwarded' = forwarded \cup {AddUserMsg(id, c)}
                        /\ UNCHANGED <<users, asked>>
            BY <1>4, <2>3 DEF Login
        <3>2. AddUserMsg(id, c) \in Forward
            BY MessageTypes
        <3> QED BY <2>1, <3>1, <3>2 DEF NextId, Reply, monitorVars
    <2> QED BY <2>2, <2>3
<1>5. ASSUME NEW c \in Clients, Logout(c)
      PROVE  TypeOK'
    <2>1. /\ client_map' \in [Clients -> Ids \cup {None}]
          /\ forwarded' \subseteq Forward
          /\ users' \subseteq Ids
        BY <1>5, EndOwnTypes, EndForwardedTypes DEF Logout
    <2> QED BY <1>5, <2>1 DEF Logout, Reply, monitorVars
<1>6. ASSUME NEW c \in Clients, Write(c) \/ Query(c)
      PROVE  TypeOK'
    <2>1. [op |-> "Write", id |-> None, client |-> c] \in Forward
        BY DEF Forward
    <2> QED BY <1>6, <2>1 DEF Write, Query, Redirect, Reply, monitorVars
<1>7. ASSUME NEW f \in forwarded, Apply(f)
      PROVE  TypeOK'
    <2>1. f \in Forward
        OBVIOUS
    <2>2. CASE AddUser(f)
        <3>1. f.id \in Ids
            BY <2>1, <2>2 DEF AddUser, Forward
        <3> QED BY <2>2, <3>1 DEF AddUser, Reply, monitorVars
    <2>3. CASE DelUser(f)
        BY <2>3 DEF DelUser, Reply, clientVars, monitorVars
    <2>4. CASE ForwardedWrite(f)
        BY <2>4 DEF ForwardedWrite, Reply, monitorVars
    <2> QED BY <1>7, <2>2, <2>3, <2>4 DEF Apply
<1>8. ASSUME NEW s \in Servers, StartRound(s)
      PROVE  TypeOK'
    BY <1>8 DEF StartRound, ClientsOf, clientVars
<1>9. ASSUME NEW s \in Servers, EndRound(s)
      PROVE  TypeOK'
    BY <1>9 DEF EndRound, clientVars
<1>10. ASSUME NEW s \in Servers, NEW c \in Clients, Visit(s, c)
       PROVE  TypeOK'
    <2>1. /\ client_map' \in [Clients -> Ids \cup {None}]
          /\ forwarded' \subseteq Forward
          /\ users' \subseteq Ids
        BY <1>10, EndOwnTypes, EndForwardedTypes DEF Visit, RemoveOffline
    <2> QED BY <1>10, <2>1 DEF Visit, clientVars
<1>11. CASE UNCHANGED vars
    BY <1>11 DEF vars, clientVars, monitorVars
<1> QED BY <1>1, <1>2, <1>3, <1>4, <1>5, <1>6, <1>7, <1>8, <1>9, <1>10, <1>11
        DEF Next, Handle, Monitor

(* Every reachable state is well typed; in particular a slave sends no       *)
(* DelUser without an id.                                                   *)
THEOREM TypeCorrect == Spec => []TypeOK
<1>1. Init => TypeOK
    BY SessionsAssumption DEF Init, TypeOK
<1> QED BY <1>1, TypeNext, PTL DEF Spec

-----------------------------------------------------------------------------
(* Sessions keep their users.                                               *)

\* No two sessions have the same id.
OwnIds == \A c, d \in Clients : client_map[c] # None /\ client_map[c] = client_map[d] => c = d

\* Ids of sessions, and of the messages that end one, have been issued.
IdsIssued ==
    /\ \A c \in Clients : client_map[c] # None => client_map[c] \in issued
    /\ \A f \in forwarded : f.op = "DelUser" => f.id \in issued

\* A DelUser is about a session that has ended.
DelUserLate ==
    \A f \in forwarded : f.op = "DelUser" => \A c \in Clients : client_map[c] # f.id

IInv == OwnIds /\ IdsIssued /\ DelUserLate /\ SessionHasUser

\* Steps that leave the sessions, the users and the messages about them alone.
LEMMA Elsewhere ==
    ASSUME IInv,
           UNCHANGED <<client_map, issued, users>>,
           \A f \in forwarded' : f.op = "DelUser" => f \in forwarded,
           \A f \in forwarded : f.op = "AddUser" => f \in forwarded'
    PROVE  IInv'
<1>1. OwnIds'
    BY DEF IInv, OwnIds
<1>2. IdsIssued'
    BY DEF IInv, IdsIssued
<1>3. DelUserLate'
    BY DEF IInv, DelUserLate
<1>4. SessionHasUser'
    BY DEF IInv, SessionHasUser
<1> QED BY <1>1, <1>2, <1>3, <1>4 DEF IInv

\* A session ends at the server that has the world.
LEMMA EndOwnKeeps ==
    ASSUME TypeOK, IInv, NEW c \in Clients, EndOwn(c), UNCHANGED issued
    PROVE  IInv'
<1>1. /\ \A d \in Clients : client_map'[d] = IF d = c THEN None ELSE client_map[d]
      /\ forwarded' = forwarded /\ issued' = issued
      /\ users' = users \ {client_map[c]}
    BY DEF EndOwn, TypeOK
<1>2. OwnIds'
    BY <1>1 DEF IInv, OwnIds
<1>3. IdsIssued'
    BY <1>1 DEF IInv, IdsIssued
<1>4. DelUserLate'
    <2> SUFFICES ASSUME NEW f \in forwarded', f.op = "DelUser", NEW d \in Clients
                 PROVE  client_map'[d] # f.id
        BY DEF DelUserLate
    <2>1. f \in forwarded /\ f.id \in Ids
        BY <1>1 DEF TypeOK, Forward
    <2> QED BY <1>1, <2>1, SessionsAssumption DEF IInv, DelUserLate
<1>5. SessionHasUser'
    BY <1>1 DEF IInv, SessionHasUser, OwnIds
<1> QED BY <1>2, <1>3, <1>4, <1>5 DEF IInv

\* A session ends at a slave.
LEMMA EndForwardedKeeps ==
    ASSUME TypeOK, IInv, NEW c \in Clients, NEW to, client_map[c] # None,
           EndForwarded(c, to), UNCHANGED issued
    PROVE  IInv'
<1> DEFINE m == DelUserMsg(client_map[c], to)
<1>1. /\ \A d \in Clients : client_map'[d] = IF d = c THEN None ELSE client_map[d]
      /\ forwarded' = forwarded \cup {m} /\ issued' = issued /\ users' = users
    BY DEF EndForwarded, TypeOK
<1>2. m.op = "DelUser" /\ m.id = client_map[c] /\ m.id \in Ids
    BY DEF DelUserMsg, TypeOK
<1> HIDE DEF m
<1>3. OwnIds'
    BY <1>1 DEF IInv, OwnIds
<1>4. IdsIssued'
    BY <1>1, <1>2 DEF IInv, IdsIssued
<1>5. DelUserLate'
    <2> SUFFICES ASSUME NEW f \in forwarded', f.op = "DelUser", NEW d \in Clients
                 PROVE  client_map'[d] # f.id
        BY DEF DelUserLate
    <2>1. CASE f \in forwarded
        <3>1. f.id \in Ids
            BY <2>1 DEF TypeOK, Forward
        <3> QED BY <1>1, <2>1, <3>1, SessionsAssumption DEF IInv, DelUserLate
    <2>2. CASE f = m
        BY <1>1, <1>2, <2>2, SessionsAssumption DEF IInv, OwnIds
    <2> QED BY <1>1, <2>1, <2>2
<1>6. SessionHasUser'
    BY <1>1 DEF IInv, SessionHasUser
<1> QED BY <1>3, <1>4, <1>5, <1>6 DEF IInv

\* A login issues a new id and puts the user, or its AddUser, on record.
LEMMA LoginKeeps ==
    ASSUME TypeOK, IInv, NEW c \in Clients, Login(c)
    PROVE  IInv'
<1>1. CASE client_map[c] # None
    BY <1>1, Elsewhere DEF Login
<1>2. CASE client_map[c] = None
    <2>1. PICK id \in Ids :
              /\ NextId(id)
              /\ client_map' = [client_map EXCEPT ![c] = id]
              /\ \/ users' = users \cup {id} /\ forwarded' = forwarded
                 \/ users' = users /\ forwarded' = forwarded \cup {AddUserMsg(id, c)}
        BY <1>2 DEF Login
    <2> DEFINE m == AddUserMsg(id, c)
    <2>2. m.op = "AddUser" /\ m.id = id
        BY DEF AddUserMsg
    <2> HIDE DEF m
    <2>3. \A d \in Clients : client_map'[d] = IF d = c THEN id ELSE client_map[d]
        BY <2>1 DEF TypeOK
    <2>4. id \notin issued /\ issued' = issued \cup {id}
        BY <2>1 DEF NextId
    <2>5. \A f \in forwarded' : f.op = "DelUser" => f \in forwarded
        BY <2>1, <2>2 DEF m
    <2>6. OwnIds'
        BY <2>3, <2>4 DEF IInv, OwnIds, IdsIssued
    <2>7. IdsIssued'
        BY <2>3, <2>4, <2>5 DEF IInv, IdsIssued
    <2>8. DelUserLate'
        BY <2>3, <2>4, <2>5 DEF IInv, DelUserLate, IdsIssued
    <2>9. SessionHasUser'
        BY <2>1, <2>2, <2>3 DEF IInv, SessionHasUser, m
    <2> QED BY <2>6, <2>7, <2>8, <2>9 DEF IInv
<1> QED BY <1>1, <1>2

\* The master handles what a slave forwarded.
LEMMA ApplyKeeps ==
    ASSUME IInv, NEW f \in forwarded, Apply(f)
    PROVE  IInv'
<1>1. CASE AddUser(f)
    <2>1. /\ UNCHANGED <<client_map, issued>>
          /\ forwarded' = forwarded \ {f} /\ users' = users \cup {f.id}
        BY <1>1 DEF AddUser
    <2> QED BY <2>1 DEF IInv, OwnIds, IdsIssued, DelUserLate, SessionHasUser
<1>2. CASE DelUser(f)
    <2>1. /\ UNCHANGED <<client_map, issued>> /\ f.op = "DelUser"
          /\ forwarded' = forwarded \ {f} /\ users' = users \ {f.id}
        BY <1>2 DEF DelUser
    <2>2. OwnIds' /\ IdsIssued' /\ DelUserLate'
        BY <2>1 DEF IInv, OwnIds, IdsIssued, DelUserLate
    <2>3. \A c \in Clients : client_map[c] # f.id
        BY <2>1 DEF IInv, DelUserLate
    <2>4. SessionHasUser'
        BY <2>1, <2>3 DEF IInv, SessionHasUser
    <2> QED BY <2>2, <2>4 DEF IInv
<1>3. CASE ForwardedWrite(f)
    BY <1>3, Elsewhere DEF ForwardedWrite
<1> QED BY <1>1, <1>2, <1>3 DEF Apply

LEMMA InvNext ==
    ASSUME TypeOK, IInv, [Next]_vars
    PROVE  IInv'
<1>1. ASSUME NEW c \in Clients, NEW o \in Ops, SendRequest(c, o)
      PROVE  IInv'
    BY <1>1, Elsewhere DEF SendRequest
<1>2. ASSUME NEW c \in Clients, Close(c) \/ Ping(c) \/ Lapse(c) \/ Query(c)
      PROVE  IInv'
    BY <1>2, Elsewhere DEF Close, Ping, Lapse, Query
<1>3. ASSUME NEW c \in Clients, Logout(c)
      PROVE  IInv'
    BY <1>3, EndOwnKeeps, EndForwardedKeeps, Elsewhere DEF Logout
<1>4. ASSUME NEW c \in Clients, Write(c)
      PROVE  IInv'
    BY <1>4, Elsewhere DEF Write, Redirect
<1>5. ASSUME NEW s \in Servers, StartRound(s) \/ EndRound(s)
      PROVE  IInv'
    BY <1>5, Elsewhere DEF StartRound, EndRound
<1>6. ASSUME NEW s \in Servers, NEW c \in Clients, Visit(s, c)
      PROVE  IInv'
    BY <1>6, EndOwnKeeps, EndForwardedKeeps, Elsewhere DEF Visit, RemoveOffline
<1>7. CASE UNCHANGED vars
    BY <1>7, Elsewhere DEF vars
<1> QED BY <1>1, <1>2, <1>3, <1>4, <1>5, <1>6, <1>7, LoginKeeps, ApplyKeeps
        DEF Next, Handle, Monitor

(* No session loses its user, whatever the order in which requests, forwarded *)
(* messages and rounds of the monitors are handled, even if heartbeats lapse *)
(* at any time and clients wait for nothing.                                *)
THEOREM SessionsKeepUsers == Spec => []SessionHasUser
<1>1. Init => IInv
    BY DEF Init, IInv, OwnIds, IdsIssued, DelUserLate, SessionHasUser
<1>2. TypeOK /\ IInv /\ [Next]_vars => IInv'
    BY InvNext
<1>3. IInv => SessionHasUser
    BY DEF IInv
<1> QED BY <1>1, <1>2, <1>3, TypeCorrect, PTL DEF Spec

-----------------------------------------------------------------------------
(* No user is left behind, if clients wait for their replies and heartbeats *)
(* are prompt.                                                              *)
(*                                                                          *)
(* The danger is an AddUser that is handled after the session it is about   *)
(* has ended.  Its session lasts as long as it is on its way: no Logout of  *)
(* the client can be, since a client that waits has one message on its way  *)
(* at most, and the monitor does not find the client offline, since one     *)
(* whose heartbeat has lapsed has stopped and nothing of it is on its way.  *)

\* A client with a message on its way is waiting, and there is no other.
OneMessage ==
    /\ \A r \in requests : asked[r.client] # None
    /\ \A f \in forwarded : f.client # None => asked[f.client] # None
    /\ \A r, q \in requests : r.client = q.client => r = q
    /\ \A f, g \in forwarded : f.client = g.client /\ f.client # None => f = g
    /\ \A r \in requests : \A f \in forwarded : r.client # f.client

\* A client whose heartbeat has lapsed has stopped and been heard of last.
ExpiredIsGone ==
    \A c \in Clients : last_time[c] = "expired" => ~alive[c] /\ ~InFlight(c)

\* The session an AddUser is about goes on.
AddUserHasSession ==
    \A f \in forwarded : f.op = "AddUser" =>
        f.client \in Clients /\ client_map[f.client] = f.id

NInv == OneMessage /\ ExpiredIsGone /\ AddUserHasSession /\ NoOrphan

\* Steps that only take messages away.
LEMMA OneMessageFewer ==
    ASSUME OneMessage, requests' \subseteq requests, forwarded' \subseteq forwarded,
           UNCHANGED asked
    PROVE  OneMessage'
BY DEF OneMessage

\* The one message of c is handled and answered.
LEMMA OneMessageReply ==
    ASSUME TypeOK, OneMessage, NEW c \in Clients, Reply(c),
           requests' \subseteq requests, forwarded' \subseteq forwarded,
           \A r \in requests' : r.client # c,
           \A f \in forwarded' : f.client # c
    PROVE  OneMessage'
<1>1. asked' = [asked EXCEPT ![c] = None] /\ asked \in [Clients -> Ops \cup {None}]
    BY DEF Reply, TypeOK
<1>2. \A d \in Clients : d # c => asked'[d] = asked[d]
    BY <1>1
<1>3. \A r \in requests : r.client \in Clients
    BY DEF TypeOK, Request
<1>4. \A f \in forwarded : f.client # None => f.client \in Clients
    BY DEF TypeOK, Forward
<1> QED BY <1>2, <1>3, <1>4 DEF OneMessage

\* What the master answers goes to c, the rest of c's request to the master.
LEMMA OneMessagePassed ==
    ASSUME OneMessage, NEW r \in requests, NEW f,
           f.client = r.client, r.client # None,
           requests' = requests \ {r}, forwarded' = forwarded \cup {f},
           UNCHANGED asked
    PROVE  OneMessage'
BY DEF OneMessage

\* A message nobody waits for.
LEMMA OneMessageToNobody ==
    ASSUME TypeOK, OneMessage, NEW f, f.client = None,
           requests' = requests, forwarded' = forwarded \cup {f},
           UNCHANGED asked
    PROVE  OneMessage'
<1>1. \A r \in requests : r.client \in Clients
    BY DEF TypeOK, Request
<1>2. \A r \in requests : r.client # None
    BY <1>1, SessionsAssumption
<1> QED BY <1>2 DEF OneMessage

\* A client whose heartbeat has lapsed stays gone, as long as every new message
\* about a client comes from a message of it.
LEMMA ExpiredStaysGone ==
    ASSUME ExpiredIsGone,
           \A c \in Clients : last_time'[c] = "expired" => last_time[c] = "expired",
           \A c \in Clients : alive'[c] => alive[c],
           \A c \in Clients : InFlight(c)' => InFlight(c) \/ alive[c]
    PROVE  ExpiredIsGone'
BY DEF ExpiredIsGone

\* Steps that leave sessions, users and the messages about them alone.
LEMMA OrphansElsewhere ==
    ASSUME AddUserHasSession, NoOrphan, UNCHANGED <<client_map, users>>,
           \A f \in forwarded' : f.op = "AddUser" => f \in forwarded,
           \A f \in forwarded : f.op = "DelUser" => f \in forwarded'
    PROVE  AddUserHasSession' /\ NoOrphan'
BY DEF AddUserHasSession, NoOrphan

\* A session of a client without an AddUser on its way ends, and the user with
\* it or the DelUser says so.
LEMMA OrphansEnd ==
    ASSUME TypeOK, AddUserHasSession, NoOrphan, NEW c \in Clients,
           \A f \in forwarded : f.client # c,
           \/ EndOwn(c)
           \/ \E to \in {c, None} : client_map[c] # None /\ EndForwarded(c, to)
    PROVE  AddUserHasSession' /\ NoOrphan'
<1>1. \A d \in Clients : client_map'[d] = IF d = c THEN None ELSE client_map[d]
    BY DEF EndOwn, EndForwarded, TypeOK
<1>2. CASE EndOwn(c)
    <2>1. forwarded' = forwarded /\ users' = users \ {client_map[c]}
        BY <1>2 DEF EndOwn
    <2> QED BY <1>1, <2>1 DEF AddUserHasSession, NoOrphan
<1>3. ASSUME NEW to \in {c, None}, client_map[c] # None, EndForwarded(c, to)
      PROVE  AddUserHasSession' /\ NoOrphan'
    <2> DEFINE m == DelUserMsg(client_map[c], to)
    <2>1. forwarded' = forwarded \cup {m} /\ users' = users
        BY <1>3 DEF EndForwarded
    <2>2. m.op = "DelUser" /\ m.id = client_map[c]
        BY DEF DelUserMsg
    <2> HIDE DEF m
    <2>3. AddUserHasSession'
        BY <1>1, <2>1, <2>2 DEF AddUserHasSession
    <2>4. NoOrphan'
        BY <1>1, <2>1, <2>2 DEF NoOrphan
    <2> QED BY <2>3, <2>4
<1> QED BY <1>2, <1>3

LEMMA NoOrphanLogin ==
    ASSUME TypeOK, NInv, NEW c \in Clients, Login(c)
    PROVE  NInv'
<1> DEFINE r == [op |-> "Login", client |-> c]
<1>1. /\ r \in requests /\ requests' = requests \ {r}
      /\ alive' = alive /\ last_time' = last_time
    BY DEF Login
<1>2. r.client = c /\ c # None
    BY SessionsAssumption
<1>3. /\ \A q \in requests' : q.client # c
      /\ \A f \in forwarded : f.client # c
    BY <1>1, <1>2 DEF NInv, OneMessage
<1>4. InFlight(c)
    BY <1>1, <1>2 DEF InFlight
<1> HIDE DEF r
<1>5. CASE client_map[c] # None \/ AtMaster(c)
    <2>1. Reply(c) /\ forwarded' = forwarded
        BY <1>5 DEF Login
    <2>2. OneMessage'
        BY <1>1, <1>3, <2>1, OneMessageReply DEF NInv
    <2>3. ExpiredIsGone'
        BY <1>1, <2>1, ExpiredStaysGone DEF NInv, InFlight
    <2>4. CASE UNCHANGED <<client_map, users>>
        BY <2>1, <2>2, <2>3, <2>4, OrphansElsewhere DEF NInv
    <2>5. CASE ~UNCHANGED <<client_map, users>>
        <3>1. PICK id \in Ids : /\ client_map' = [client_map EXCEPT ![c] = id]
                                /\ users' = users \cup {id} /\ client_map[c] = None
            BY <1>5, <2>5 DEF Login
        <3>2. \A d \in Clients : client_map'[d] = IF d = c THEN id ELSE client_map[d]
            BY <3>1 DEF TypeOK
        <3>3. \A i \in users : i \in Ids
            BY DEF TypeOK
        <3>4. AddUserHasSession'
            BY <1>3, <2>1, <3>2 DEF NInv, AddUserHasSession
        <3>5. NoOrphan'
            BY <2>1, <3>1, <3>2, <3>3, SessionsAssumption DEF NInv, NoOrphan
        <3> QED BY <2>2, <2>3, <3>4, <3>5 DEF NInv
    <2> QED BY <2>4, <2>5
<1>6. CASE client_map[c] = None /\ ~AtMaster(c)
    <2>1. PICK id \in Ids : /\ client_map' = [client_map EXCEPT ![c] = id]
                            /\ forwarded' = forwarded \cup {AddUserMsg(id, c)}
                            /\ users' = users /\ asked' = asked
        BY <1>6 DEF Login
    <2> DEFINE m == AddUserMsg(id, c)
    <2>2. m.op = "AddUser" /\ m.id = id /\ m.client = c
        BY DEF AddUserMsg
    <2>3. forwarded' = forwarded \cup {m}
        BY <2>1
    <2> HIDE DEF m
    <2>4. \A d \in Clients : client_map'[d] = IF d = c THEN id ELSE client_map[d]
        BY <2>1 DEF TypeOK
    <2>5. \A i \in users : i \in Ids
        BY DEF TypeOK
    <2>6. OneMessage'
        BY <1>1, <1>2, <2>1, <2>2, <2>3, OneMessagePassed DEF NInv
    <2>7. ExpiredIsGone'
        BY <1>1, <1>4, <2>2, <2>3, ExpiredStaysGone DEF NInv, InFlight
    <2>8. AddUserHasSession'
        BY <1>3, <2>2, <2>3, <2>4 DEF NInv, AddUserHasSession
    <2>9. NoOrphan'
        BY <1>6, <2>1, <2>3, <2>4, <2>5, SessionsAssumption DEF NInv, NoOrphan
    <2> QED BY <2>6, <2>7, <2>8, <2>9 DEF NInv
<1> QED BY <1>5, <1>6

LEMMA NoOrphanLogout ==
    ASSUME TypeOK, NInv, NEW c \in Clients, Logout(c)
    PROVE  NInv'
<1> DEFINE r == [op |-> "Logout", client |-> c]
<1>1. /\ r \in requests /\ requests' = requests \ {r}
      /\ alive' = alive /\ last_time' = last_time
    BY DEF Logout
<1>2. r.client = c /\ c # None
    BY SessionsAssumption
<1>3. /\ \A q \in requests' : q.client # c
      /\ \A f \in forwarded : f.client # c
    BY <1>1, <1>2 DEF NInv, OneMessage
<1>4. InFlight(c)
    BY <1>1, <1>2 DEF InFlight
<1> HIDE DEF r
<1>5. CASE AtMaster(c)
    <2>1. EndOwn(c) /\ Reply(c) /\ forwarded' = forwarded
        BY <1>5 DEF Logout, EndOwn
    <2>2. OneMessage'
        BY <1>1, <1>3, <2>1, OneMessageReply DEF NInv
    <2>3. ExpiredIsGone'
        BY <1>1, <2>1, ExpiredStaysGone DEF NInv, InFlight
    <2> QED BY <1>3, <2>1, <2>2, <2>3, OrphansEnd DEF NInv
<1>6. CASE ~AtMaster(c) /\ client_map[c] # None
    <2>1. EndForwarded(c, c) /\ asked' = asked
        BY <1>6 DEF Logout
    <2> DEFINE m == DelUserMsg(client_map[c], c)
    <2>2. m.client = c
        BY DEF DelUserMsg
    <2>3. forwarded' = forwarded \cup {m}
        BY <2>1 DEF EndForwarded
    <2> HIDE DEF m
    <2>4. OneMessage'
        BY <1>1, <1>2, <2>1, <2>2, <2>3, OneMessagePassed DEF NInv
    <2>5. ExpiredIsGone'
        BY <1>1, <1>4, <2>2, <2>3, ExpiredStaysGone DEF NInv, InFlight
    <2> QED BY <1>3, <1>6, <2>1, <2>4, <2>5, OrphansEnd DEF NInv
<1>7. CASE ~AtMaster(c) /\ client_map[c] = None
    <2>1. UNCHANGED <<client_map, users, forwarded, asked>>
        BY <1>7 DEF Logout
    <2>2. OneMessage'
        BY <1>1, <2>1, OneMessageFewer DEF NInv
    <2>3. ExpiredIsGone'
        BY <1>1, <2>1, ExpiredStaysGone DEF NInv, InFlight
    <2> QED BY <2>1, <2>2, <2>3, OrphansElsewhere DEF NInv
<1> QED BY <1>5, <1>6, <1>7

LEMMA NoOrphanWrite ==
    ASSUME TypeOK, NInv, NEW c \in Clients, Write(c)
    PROVE  NInv'
<1> DEFINE r == [op |-> "Write", client |-> c]
           m == [op |-> "Write", id |-> None, client |-> c]
<1>1. /\ r \in requests /\ requests' = requests \ {r}
      /\ UNCHANGED <<alive, last_time, client_map, users>>
    BY DEF Write
<1>2. /\ r.client = c /\ c # None
      /\ m.client = c /\ m.op # "AddUser"
    BY SessionsAssumption
<1>3. /\ \A q \in requests' : q.client # c
      /\ \A f \in forwarded : f.client # c
    BY <1>1, <1>2 DEF NInv, OneMessage
<1>4. InFlight(c)
    BY <1>1, <1>2 DEF InFlight
<1>5. \/ Reply(c) /\ forwarded' = forwarded
      \/ forwarded' = forwarded \cup {m} /\ asked' = asked
    BY DEF Write, Redirect
<1> HIDE DEF r, m
<1>6. OneMessage'
    <2>1. CASE Reply(c) /\ forwarded' = forwarded
        BY <1>1, <1>3, <2>1, OneMessageReply DEF NInv
    <2>2. CASE forwarded' = forwarded \cup {m} /\ asked' = asked
        BY <1>1, <1>2, <2>2, OneMessagePassed DEF NInv
    <2> QED BY <1>5, <2>1, <2>2
<1>7. ExpiredIsGone'
    BY <1>1, <1>2, <1>4, <1>5, ExpiredStaysGone DEF NInv, InFlight
<1> QED BY <1>1, <1>2, <1>5, <1>6, <1>7, OrphansElsewhere DEF NInv

LEMMA NoOrphanQuery ==
    ASSUME TypeOK, NInv, NEW c \in Clients, Query(c)
    PROVE  NInv'
<1> DEFINE r == [op |-> "Query", client |-> c]
<1>1. /\ r \in requests /\ requests' = requests \ {r} /\ Reply(c)
      /\ UNCHANGED <<alive, last_time, client_map, users, forwarded>>
    BY DEF Query
<1>2. r.client = c
    OBVIOUS
<1>3. /\ \A q \in requests' : q.client # c
      /\ \A f \in forwarded : f.client # c
    BY <1>1, <1>2 DEF NInv, OneMessage
<1> HIDE DEF r
<1>4. OneMessage'
    BY <1>1, <1>3, OneMessageReply DEF NInv
<1>5. ExpiredIsGone'
    BY <1>1, ExpiredStaysGone DEF NInv, InFlight
<1> QED BY <1>1, <1>4, <1>5, OrphansElsewhere DEF NInv

LEMMA NoOrphanApply ==
    ASSUME TypeOK, NInv, NEW f \in forwarded, Apply(f)
    PROVE  NInv'
<1>1. /\ forwarded' = forwarded \ {f}
      /\ UNCHANGED <<alive, requests, client_map, last_time, issued>>
      /\ \/ f.client = None /\ asked' = asked
         \/ Reply(f.client)
    BY DEF Apply, AddUser, DelUser, ForwardedWrite
<1>2. f.client \in Clients \cup {None}
    BY DEF TypeOK, Forward
<1>3. OneMessage'
    <2>1. CASE asked' = asked
        BY <1>1, <2>1, OneMessageFewer DEF NInv
    <2>2. CASE f.client # None /\ Reply(f.client)
        <3>1. /\ \A r \in requests' : r.client # f.client
              /\ \A g \in forwarded' : g.client # f.client
            BY <1>1, <2>2 DEF NInv, OneMessage
        <3> QED BY <1>1, <1>2, <2>2, <3>1, OneMessageReply DEF NInv
    <2>3. CASE f.client = None /\ Reply(f.client)
        <3>1. asked' = asked
            BY <2>3, SessionsAssumption DEF Reply, TypeOK
        <3> QED BY <1>1, <3>1, OneMessageFewer DEF NInv
    <2> QED BY <1>1, <2>1, <2>2, <2>3
<1>4. ExpiredIsGone'
    BY <1>1, ExpiredStaysGone DEF NInv, InFlight
<1>5. AddUserHasSession'
    BY <1>1 DEF NInv, AddUserHasSession
<1>6. NoOrphan'
    <2>1. CASE AddUser(f)
        <3>1. f.op = "AddUser" /\ users' = users \cup {f.id}
            BY <2>1 DEF AddUser
        <3>2. f.client \in Clients /\ client_map[f.client] = f.id
            BY <3>1 DEF NInv, AddUserHasSession
        <3> QED BY <1>1, <3>1, <3>2 DEF NInv, NoOrphan
    <2>2. CASE DelUser(f)
        BY <1>1, <2>2 DEF DelUser, NInv, NoOrphan
    <2>3. CASE ForwardedWrite(f)
        BY <1>1, <2>3 DEF ForwardedWrite, NInv, NoOrphan
    <2> QED BY <2>1, <2>2, <2>3 DEF Apply
<1> QED BY <1>3, <1>4, <1>5, <1>6 DEF NInv

LEMMA NoOrphanVisit ==
    ASSUME TypeOK, NInv, NEW s \in Servers, NEW c \in Clients, Visit(s, c)
    PROVE  NInv'
<1>1. UNCHANGED <<alive, asked, requests, last_time, issued>>
    BY DEF Visit, clientVars
<1>2. CASE UNCHANGED <<client_map, users, forwarded>>
    <2>1. OneMessage'
        BY <1>1, <1>2, OneMessageFewer DEF NInv
    <2>2. ExpiredIsGone'
        BY <1>1, <1>2, ExpiredStaysGone DEF NInv, InFlight
    <2> QED BY <1>2, <2>1, <2>2, OrphansElsewhere DEF NInv
<1>3. CASE last_time[c] = "expired" /\ RemoveOffline(c)
    <2>1. \A f \in forwarded : f.client # c
        BY <1>3 DEF NInv, ExpiredIsGone, InFlight
    <2>2. CASE EndOwn(c)
        <3>1. forwarded' = forwarded
            BY <2>2 DEF EndOwn
        <3>2. OneMessage'
            BY <1>1, <3>1, OneMessageFewer DEF NInv
        <3>3. ExpiredIsGone'
            BY <1>1, <3>1, ExpiredStaysGone DEF NInv, InFlight
        <3> QED BY <2>1, <2>2, <3>2, <3>3, OrphansEnd DEF NInv
    <2>3. CASE client_map[c] # None /\ EndForwarded(c, None)
        <3> DEFINE m == DelUserMsg(client_map[c], None)
        <3>1. forwarded' = forwarded \cup {m}
            BY <2>3 DEF EndForwarded
        <3>2. m.client = None
            BY DEF DelUserMsg
        <3> HIDE DEF m
        <3>3. OneMessage'
            BY <1>1, <3>1, <3>2, OneMessageToNobody DEF NInv
        <3>4. ExpiredIsGone'
            BY <1>1, <3>1, <3>2, ExpiredStaysGone, SessionsAssumption DEF NInv, InFlight
        <3> QED BY <2>1, <2>3, <3>3, <3>4, OrphansEnd DEF NInv
    <2> QED BY <1>2, <1>3, <2>2, <2>3 DEF RemoveOffline
<1> QED BY <1>2, <1>3 DEF Visit

LEMMA NoOrphanNext ==
    ASSUME Waits, Prompt, TypeOK, NInv, [Next]_vars
    PROVE  NInv'
<1>1. ASSUME NEW c \in Clients, NEW o \in Ops, SendRequest(c, o)
      PROVE  NInv'
    <2> DEFINE r == [op |-> o, client |-> c]
    <2>1. /\ requests' = requests \cup {r} /\ asked' = [asked EXCEPT ![c] = o]
          /\ alive[c] /\ asked[c] = None
          /\ UNCHANGED <<alive, last_time, client_map, users, forwarded>>
        BY <1>1 DEF SendRequest
    <2>2. r.client = c /\ c # None /\ o # None
        BY SessionsAssumption DEF Ops
    <2> HIDE DEF r
    <2>3. \A d \in Clients : asked'[d] = IF d = c THEN o ELSE asked[d]
        BY <2>1 DEF TypeOK
    <2>4. /\ \A q \in requests : q.client \in Clients
          /\ \A f \in forwarded : f.client # None => f.client \in Clients
        BY DEF TypeOK, Request, Forward
    <2>5. OneMessage'
        BY <2>1, <2>2, <2>3, <2>4 DEF NInv, OneMessage
    <2>6. ExpiredIsGone'
        BY <2>1, <2>2, ExpiredStaysGone DEF NInv, InFlight
    <2> QED BY <2>1, <2>5, <2>6, OrphansElsewhere DEF NInv
<1>2. ASSUME NEW c \in Clients, Close(c)
      PROVE  NInv'
    <2>1. /\ requests' \subseteq requests /\ alive' = [alive EXCEPT ![c] = FALSE]
          /\ UNCHANGED <<asked, last_time, client_map, users, forwarded>>
        BY <1>2 DEF Close
    <2>2. \A d \in Clients : alive'[d] => alive[d]
        BY <2>1, Zenon DEF TypeOK
    <2>3. OneMessage'
        BY <2>1, OneMessageFewer DEF NInv
    <2>4. ExpiredIsGone'
        BY <2>1, <2>2, ExpiredStaysGone DEF NInv, InFlight
    <2> QED BY <2>1, <2>3, <2>4, OrphansElsewhere DEF NInv
<1>3. ASSUME NEW c \in Clients, Ping(c) \/ Lapse(c)
      PROVE  NInv'
    <2>1. UNCHANGED <<alive, asked, requests, forwarded, client_map, users>>
        BY <1>3 DEF Ping, Lapse, clientVars
    <2>2. OneMessage'
        BY <2>1, OneMessageFewer DEF NInv
    <2>3. \A d \in Clients : last_time'[d] = "expired" =>
              last_time[d] = "expired" \/ (~alive[d] /\ ~InFlight(d))
        BY <1>3 DEF Ping, Lapse, TypeOK
    <2>4. ExpiredIsGone'
        BY <2>1, <2>3 DEF NInv, ExpiredIsGone, InFlight
    <2> QED BY <2>1, <2>2, <2>4, OrphansElsewhere DEF NInv
<1>4. ASSUME NEW s \in Servers, StartRound(s) \/ EndRound(s)
      PROVE  NInv'
    <2>1. UNCHANGED <<alive, asked, requests, forwarded, client_map, users>>
        BY <1>4 DEF StartRound, EndRound, clientVars
    <2>2. OneMessage'
        BY <2>1, OneMessageFewer DEF NInv
    <2>3. \A d \in Clients : last_time'[d] = "expired" => last_time[d] = "expired"
        BY <1>4, SessionsAssumption DEF StartRound, EndRound
    <2>4. ExpiredIsGone'
        BY <2>1, <2>3, ExpiredStaysGone DEF NInv, InFlight
    <2> QED BY <2>1, <2>2, <2>4, OrphansElsewhere DEF NInv
<1>5. CASE UNCHANGED vars
    <2>1. UNCHANGED <<alive, asked, requests, forwarded, last_time, client_map, users>>
        BY <1>5 DEF vars, clientVars
    <2>2. OneMessage'
        BY <2>1, OneMessageFewer DEF NInv
    <2>3. ExpiredIsGone'
        BY <2>1, ExpiredStaysGone DEF NInv, InFlight
    <2> QED BY <2>1, <2>2, <2>3, OrphansElsewhere DEF NInv
<1> QED BY <1>1, <1>2, <1>3, <1>4, <1>5, NoOrphanLogin, NoOrphanLogout, NoOrphanWrite,
           NoOrphanQuery, NoOrphanApply, NoOrphanVisit
        DEF Next, Handle, Monitor

(* If every client waits for its reply before it goes on, and heartbeats and *)
(* messages take less time than the heartbeat limit, every user in the      *)
(* master's world belongs to a session or its DelUser is on its way, for any *)
(* clients, servers and order in which messages are handled.                *)
THEOREM NoUserLeftBehind ==
    ASSUME Waits, Prompt
    PROVE  Spec => []NoOrphan
<1>1. Init => NInv
    BY SessionsAssumption
       DEF Init, NInv, OneMessage, ExpiredIsGone, AddUserHasSession, NoOrphan
<1>2. TypeOK /\ NInv /\ [Next]_vars => NInv'
    BY NoOrphanNext
<1>3. NInv => NoOrphan
    BY DEF NInv
<1> QED BY <1>1, <1>2, <1>3, TypeCorrect, PTL DEF Spec

-----------------------------------------------------------------------------
(* What the liveness of the sessions rests on: nothing that somebody waits  *)
(* for gets lost on the way.                                                *)

\* The request o of c, or what a slave has made of it, is on its way.
Pending(c, o) ==
    \/ [op |-> o, client |-> c] \in requests
    \/ o = "Login" /\ \E f \in forwarded : f.op = "AddUser" /\ f.client = c
    \/ o = "Write" /\ \E f \in forwarded : f.op = "Write" /\ f.client = c

\* Only a logout may be swallowed: at a slave, if the session has ended.
AskedPending ==
    \A c \in Clients : alive[c] /\ asked[c] \in Ops \ {"Logout"} => Pending(c, asked[c])

\* A round drops entries of the clients of its own server only.
OwnClients == \A s \in Servers : todo[s] \subseteq ClientsOf(s) /\ del_list[s] \subseteq ClientsOf(s)

\* The session of a client that is watched ends, or the client goes on being watched.
WatchGoesOn ==
    \A c \in Clients : Watched(c) => Watched(c)' \/ client_map'[c] = None

\* The steps that handle a message of c and answer c, and those that take
\* nothing away.
LEMMA PendingKept ==
    ASSUME TypeOK, AskedPending, NEW c \in Clients,
           \A d \in Clients : alive'[d] => alive[d],
           \A d \in Clients : asked'[d] \in {asked[d], None},
           \/ ~alive'[c] \/ asked'[c] = None
           \/ requests \subseteq requests' /\ forwarded \subseteq forwarded',
           \A r \in requests : r.client = c \/ r \in requests',
           \A f \in forwarded : f.client \in {c, None} \/ f \in forwarded'
    PROVE  AskedPending'
<1> SUFFICES ASSUME NEW d \in Clients, alive'[d], asked'[d] \in Ops \ {"Logout"}
             PROVE  Pending(d, asked[d])'
    BY DEF AskedPending
<1>1. asked'[d] = asked[d] /\ alive[d]
    BY SessionsAssumption DEF Ops
<1>2. Pending(d, asked[d])
    BY <1>1 DEF AskedPending
<1>3. d = c => requests \subseteq requests' /\ forwarded \subseteq forwarded'
    BY SessionsAssumption DEF Ops
<1> QED BY <1>1, <1>2, <1>3, SessionsAssumption DEF Pending

\* The steps of a slave that pass a message of c on without an answer.
LEMMA PendingPassed ==
    ASSUME TypeOK, AskedPending, NEW c \in Clients, NEW o \in Ops,
           UNCHANGED <<alive, asked>>,
           requests' = requests \ {[op |-> o, client |-> c]},
           forwarded \subseteq forwarded',
           o # "Query",
           o = "Login" => \E f \in forwarded' : f.op = "AddUser" /\ f.client = c,
           o = "Write" => \E f \in forwarded' : f.op = "Write" /\ f.client = c
    PROVE  AskedPending'
<1> SUFFICES ASSUME NEW d \in Clients, alive'[d], asked'[d] \in Ops \ {"Logout"}
             PROVE  Pending(d, asked[d])'
    BY DEF AskedPending
<1>1. Pending(d, asked[d])
    BY DEF AskedPending
<1>2. CASE [op |-> asked[d], client |-> d] \in requests'
    BY <1>2 DEF Pending
<1>3. CASE [op |-> asked[d], client |-> d] \notin requests'
    <2>1. CASE [op |-> asked[d], client |-> d] \in requests
        <3>1. [op |-> asked[d], client |-> d] = [op |-> o, client |-> c]
            BY <1>3, <2>1
        <3>2. asked[d] = o /\ d = c
            BY <3>1
        <3> QED BY <3>2 DEF Pending, Ops
    <2>2. CASE [op |-> asked[d], client |-> d] \notin requests
        BY <1>1, <2>2 DEF Pending
    <2> QED BY <2>1, <2>2
<1> QED BY <1>2, <1>3

LEMMA PendingNext ==
    ASSUME TypeOK, AskedPending, [Next]_vars
    PROVE  AskedPending'
<1>1. ASSUME NEW c \in Clients, NEW o \in Ops, SendRequest(c, o)
      PROVE  AskedPending'
    <2>1. /\ requests' = requests \cup {[op |-> o, client |-> c]}
          /\ asked' = [asked EXCEPT ![c] = o]
          /\ UNCHANGED <<alive, forwarded>>
        BY <1>1 DEF SendRequest
    <2>2. \A d \in Clients : asked'[d] = IF d = c THEN o ELSE asked[d]
        BY <2>1 DEF TypeOK
    <2> SUFFICES ASSUME NEW d \in Clients, alive'[d], asked'[d] \in Ops \ {"Logout"}
                 PROVE  Pending(d, asked[d])'
        BY DEF AskedPending
    <2>3. CASE d = c
        BY <2>1, <2>2, <2>3 DEF Pending
    <2>4. CASE d # c
        <3>1. asked'[d] = asked[d] /\ Pending(d, asked[d])
            BY <2>1, <2>2, <2>4 DEF AskedPending
        <3> QED BY <2>1, <3>1 DEF Pending
    <2> QED BY <2>3, <2>4
<1>2. ASSUME NEW c \in Clients, Close(c)
      PROVE  AskedPending'
    <2>1. \A d \in Clients : alive'[d] => alive[d]
        BY <1>2, Zenon DEF Close, TypeOK
    <2>2. ~alive'[c]
        BY <1>2, Zenon DEF Close, TypeOK
    <2>3. /\ UNCHANGED <<asked, forwarded>>
          /\ \A r \in requests : r.client = c \/ r \in requests'
        BY <1>2 DEF Close
    <2> QED BY <2>1, <2>2, <2>3, PendingKept
<1>3. ASSUME NEW c \in Clients, Reply(c), UNCHANGED alive,
             \A r \in requests : r.client = c \/ r \in requests',
             \A f \in forwarded : f.client \in {c, None} \/ f \in forwarded'
      PROVE  AskedPending'
    <2>1. \A d \in Clients : asked'[d] = IF d = c THEN None ELSE asked[d]
        BY <1>3 DEF Reply, TypeOK
    <2> QED BY <1>3, <2>1, PendingKept
<1>4. ASSUME NEW c \in Clients, UNCHANGED <<alive, asked>>, requests \subseteq requests',
             forwarded \subseteq forwarded'
      PROVE  AskedPending'
    BY <1>4, PendingKept
<1>5. ASSUME NEW c \in Clients, Login(c)
      PROVE  AskedPending'
    <2>1. /\ requests' = requests \ {[op |-> "Login", client |-> c]}
          /\ alive' = alive
        BY <1>5 DEF Login
    <2>2. CASE Reply(c) /\ forwarded' = forwarded
        BY <1>3, <2>1, <2>2
    <2>3. ASSUME NEW id \in Ids, asked' = asked,
                 forwarded' = forwarded \cup {AddUserMsg(id, c)}
          PROVE  AskedPending'
        <3>1. AddUserMsg(id, c).op = "AddUser" /\ AddUserMsg(id, c).client = c
            BY DEF AddUserMsg
        <3> QED BY <2>1, <2>3, <3>1, PendingPassed DEF Ops
    <2> QED BY <1>5, <2>2, <2>3 DEF Login
<1>6. ASSUME NEW c \in Clients, Logout(c)
      PROVE  AskedPending'
    <2>1. /\ requests' = requests \ {[op |-> "Logout", client |-> c]}
          /\ alive' = alive /\ forwarded \subseteq forwarded'
          /\ Reply(c) \/ asked' = asked
        BY <1>6 DEF Logout, EndOwn, EndForwarded
    <2> QED BY <1>3, <2>1, PendingPassed DEF Ops
<1>7. ASSUME NEW c \in Clients, Write(c)
      PROVE  AskedPending'
    <2>1. /\ requests' = requests \ {[op |-> "Write", client |-> c]}
          /\ alive' = alive
        BY <1>7 DEF Write
    <2>2. CASE Reply(c) /\ forwarded' = forwarded
        BY <1>3, <2>1, <2>2
    <2>3. CASE Redirect(c) /\ asked' = asked
        <3> DEFINE m == [op |-> "Write", id |-> None, client |-> c]
        <3>1. m.op = "Write" /\ m.client = c /\ forwarded' = forwarded \cup {m}
            BY <2>3 DEF Redirect
        <3> HIDE DEF m
        <3> QED BY <2>1, <2>3, <3>1, PendingPassed DEF Ops
    <2> QED BY <1>7, <2>2, <2>3 DEF Write
<1>8. ASSUME NEW c \in Clients, Query(c)
      PROVE  AskedPending'
    BY <1>3, <1>8 DEF Query
<1>9. ASSUME NEW f \in forwarded, Apply(f)
      PROVE  AskedPending'
    <2>1. /\ forwarded' = forwarded \ {f} /\ UNCHANGED <<alive, requests>>
          /\ (f.client = None /\ asked' = asked) \/ Reply(f.client)
        BY <1>9 DEF Apply, AddUser, DelUser, ForwardedWrite
    <2>2. f.client \in Clients \cup {None}
        BY DEF TypeOK, Forward
    <2>3. CASE f.client # None
        BY <1>3, <2>1, <2>2, <2>3
    <2>4. CASE f.client = None
        <3>1. asked' = asked
            BY <2>1, <2>4, SessionsAssumption DEF Reply, TypeOK
        <3> SUFFICES ASSUME NEW d \in Clients, alive'[d], asked'[d] \in Ops \ {"Logout"}
                     PROVE  Pending(d, asked[d])'
            BY DEF AskedPending
        <3>2. Pending(d, asked[d])
            BY <2>1, <3>1 DEF AskedPending
        <3> QED BY <2>1, <2>4, <3>1, <3>2, SessionsAssumption DEF Pending
    <2> QED BY <2>3, <2>4
<1>10. ASSUME NEW c \in Clients, NEW s \in Servers, Visit(s, c)
       PROVE  AskedPending'
    <2>1. forwarded \subseteq forwarded'
        BY <1>10 DEF Visit, RemoveOffline, EndOwn, EndForwarded
    <2> QED BY <1>4, <1>10, <2>1 DEF Visit, clientVars
<1>11. ASSUME UNCHANGED <<clientVars, requests, forwarded>>
       PROVE  AskedPending'
    BY <1>11 DEF AskedPending, Pending, clientVars
<1>12. ASSUME NEW c \in Clients, Ping(c) \/ Lapse(c)
       PROVE  AskedPending'
    BY <1>11, <1>12 DEF Ping, Lapse
<1>13. ASSUME NEW s \in Servers, StartRound(s) \/ EndRound(s)
       PROVE  AskedPending'
    BY <1>11, <1>13 DEF StartRound, EndRound
<1> QED BY <1>1, <1>2, <1>5, <1>6, <1>7, <1>8, <1>9, <1>10, <1>11, <1>12, <1>13
        DEF Next, Handle, Monitor, vars

(* While a client waits for the answer to a login, a write or a query and has *)
(* not closed, its request or the message a slave made of it is on its way:  *)
(* no handler drops one without an answer, whatever else the client has     *)
(* sent, and whether or not heartbeats are prompt.  With the fairness of the *)
(* handlers this is why Answered holds.                                     *)
THEOREM AskedIsPending == Spec => []AskedPending
<1>1. Init => AskedPending
    BY SessionsAssumption DEF Init, AskedPending, Ops
<1> QED BY <1>1, PendingNext, TypeCorrect, PTL DEF Spec

LEMMA OwnClientsNext ==
    ASSUME TypeOK, OwnClients, [Next]_vars
    PROVE  OwnClients'
<1>1. CASE UNCHANGED <<todo, del_list>>
    BY <1>1 DEF OwnClients, ClientsOf
<1>2. ASSUME NEW s \in Servers, StartRound(s)
      PROVE  OwnClients'
    BY <1>2 DEF StartRound, OwnClients, ClientsOf, TypeOK
<1>3. ASSUME NEW s \in Servers, EndRound(s)
      PROVE  OwnClients'
    BY <1>3 DEF EndRound, OwnClients, ClientsOf, TypeOK
<1>4. ASSUME NEW s \in Servers, NEW c \in Clients, Visit(s, c)
      PROVE  OwnClients'
    BY <1>4 DEF Visit, OwnClients, ClientsOf, TypeOK
<1> QED BY <1>1, <1>2, <1>3, <1>4
        DEF Next, Handle, Apply, Monitor, vars, monitorVars, SendRequest, Close, Ping, Lapse,
            Login, Logout, Write, Query, AddUser, DelUser, ForwardedWrite

\* What a step can do to a client that is watched.
LEMMA WatchStep ==
    ASSUME TypeOK, OwnClients, [Next]_vars
    PROVE  WatchGoesOn
<1> SUFFICES ASSUME NEW c \in Clients, Watched(c), ~(client_map'[c] = None)
             PROVE  Watched(c)'
    BY DEF WatchGoesOn
<1>0. /\ ~alive[c] /\ last_time[c] # None
      /\ \A r \in requests : r.client # c
      /\ c \notin del_list[Home[c]] /\ Home[c] \in Servers
    BY SessionsAssumption DEF Watched
<1>1. ~alive'[c]
    <2>1. CASE alive' = alive
        BY <1>0, <2>1
    <2>2. ASSUME NEW d \in Clients, Close(d)
          PROVE  ~alive'[c]
        BY <1>0, <2>2, Zenon DEF Close, TypeOK
    <2> QED BY <2>1, <2>2
            DEF Next, Handle, Apply, Monitor, vars, clientVars, SendRequest, Ping, Lapse,
                Login, Logout, Write, Query, AddUser, DelUser, ForwardedWrite,
                StartRound, EndRound, Visit
<1>2. \A r \in requests' : r.client # c
    <2>1. CASE requests' \subseteq requests
        BY <1>0, <2>1
    <2>2. ASSUME NEW d \in Clients, NEW o \in Ops, SendRequest(d, o)
          PROVE  \A r \in requests' : r.client # c
        <3>1. alive[d] /\ requests' = requests \cup {[op |-> o, client |-> d]}
            BY <2>2 DEF SendRequest
        <3> QED BY <1>0, <3>1
    <2> QED BY <2>1, <2>2
            DEF Next, Handle, Apply, Monitor, vars, clientVars, Close, Ping, Lapse,
                Login, Logout, Write, Query, AddUser, DelUser, ForwardedWrite,
                StartRound, EndRound, Visit
<1>3. last_time'[c] # None /\ c \notin del_list'[Home[c]]
    <2>1. CASE UNCHANGED <<last_time, del_list>>
        BY <1>0, <2>1
    <2>2. ASSUME NEW d \in Clients, Ping(d) \/ Lapse(d)
          PROVE  last_time'[c] # None /\ c \notin del_list'[Home[c]]
        BY <1>0, <2>2, SessionsAssumption DEF Ping, Lapse, TypeOK, monitorVars
    <2>3. ASSUME NEW s \in Servers, StartRound(s)
          PROVE  UNCHANGED <<last_time, del_list>>
        BY <2>3 DEF StartRound
    <2>4. ASSUME NEW s \in Servers, EndRound(s)
          PROVE  last_time'[c] # None /\ c \notin del_list'[Home[c]]
        <3>1. c \notin del_list[s]
            BY <1>0 DEF OwnClients, ClientsOf
        <3> QED BY <1>0, <2>4, <3>1 DEF EndRound, TypeOK
    <2>5. ASSUME NEW s \in Servers, NEW d \in Clients, Visit(s, d)
          PROVE  last_time'[c] # None /\ c \notin del_list'[Home[c]]
        <3>1. last_time' = last_time
            BY <2>5 DEF Visit
        <3>2. CASE d # c
            BY <1>0, <2>5, <3>1, <3>2 DEF Visit, TypeOK
        <3>3. CASE d = c /\ last_time[c] = "expired"
            <4>1. RemoveOffline(c)
                BY <2>5, <3>3 DEF Visit
            <4>2. client_map'[c] = None
                BY <4>1 DEF RemoveOffline, EndOwn, EndForwarded, TypeOK
            <4> QED BY <4>2
        <3>4. CASE last_time[d] # "expired"
            BY <1>0, <2>5, <3>1, <3>4 DEF Visit
        <3> QED BY <3>2, <3>3, <3>4
    <2> QED BY <2>1, <2>2, <2>3, <2>4, <2>5
            DEF Next, Handle, Apply, Monitor, vars, monitorVars, SendRequest, Close,
                Login, Logout, Write, Query, AddUser, DelUser, ForwardedWrite
<1> QED BY <1>1, <1>2, <1>3 DEF Watched

(* Nothing but the end of its session takes a client that has stopped out of *)
(* the monitor's sight: its last ping stays on record until the round in    *)
(* which its session ends, whatever the rounds of all servers and other     *)
(* clients do.  With the fairness of the monitor this is why WatchedCleared *)
(* holds.                                                                   *)
THEOREM WatchedUntilCleared == Spec => [][WatchGoesOn]_vars
<1>1. Init => OwnClients
    BY DEF Init, OwnClients
<1>2. TypeOK /\ OwnClients /\ [Next]_vars => OwnClients'
    BY OwnClientsNext
<1>3. TypeOK /\ OwnClients /\ [Next]_vars => WatchGoesOn
    BY WatchStep
<1> QED BY <1>1, <1>2, <1>3, TypeCorrect, PTL DEF Spec
=============================================================================
