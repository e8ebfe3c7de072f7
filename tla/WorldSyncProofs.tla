-------------------------- MODULE WorldSyncProofs ---------------------------
(***************************************************************************)
(* Proofs about WorldSync for any servers, users, maps and bounds: it      *)
(* implements Replica.                                                     *)
(*                                                                         *)
(* A slave shows a past world after each message because every message,    *)
(* wherever it is on its way, carries a whole one.  That is the invariant. *)
(***************************************************************************)
EXTENDS WorldSync, TLAPS

\* What is on its way was the world of the master once.
FromPast == \A m \in InTransit : m.data \in past

IInv == TypeOK /\ FromPast

-----------------------------------------------------------------------------
(* Worlds and sequences.                                                    *)

LEMMA WorldFacts ==
    /\ Empty \in Worlds
    /\ \A w \in Worlds : FromMaps(w) = w /\ w \in DTO
    /\ None \notin Worlds
<1>1. Empty \in Worlds
    BY DEF Empty, Worlds
<1>2. ASSUME NEW w \in Worlds
      PROVE  FromMaps(w) = w /\ w \in DTO
    <2>1. w \in [Maps -> SUBSET Users]
        BY DEF Worlds
    <2> QED BY <2>1 DEF FromMaps, DTO
<1>3. None \notin Worlds
    BY WorldSyncAssumption DEF Worlds
<1> QED BY <1>1, <1>2, <1>3

\* A message with a whole world replaces a world.
LEMMA SyncReplaces ==
    ASSUME NEW own \in Worlds, NEW w \in Worlds
    PROVE  SyncFromMaster(own, w) = w
<1>1. w \in [Maps -> SUBSET Users]
    BY DEF Worlds
<1> QED BY <1>1 DEF SyncFromMaster

LEMMA ElementsFacts ==
    ASSUME NEW seq \in Seq(Message)
    PROVE  /\ \A m \in Message : Elements(Append(seq, m)) = Elements(seq) \cup {m}
           /\ seq # <<>> => /\ Head(seq) \in Message
                            /\ Head(seq) \in Elements(seq)
                            /\ Tail(seq) \in Seq(Message)
                            /\ Elements(Tail(seq)) \subseteq Elements(seq)
<1>1. ASSUME NEW m \in Message
      PROVE  Elements(Append(seq, m)) = Elements(seq) \cup {m}
    <2>1. /\ Append(seq, m) \in Seq(Message)
          /\ Len(Append(seq, m)) = Len(seq) + 1
          /\ \A i \in 1..Len(seq) : Append(seq, m)[i] = seq[i]
          /\ Append(seq, m)[Len(seq) + 1] = m
          /\ Len(seq) \in Nat
        OBVIOUS
    <2>2. Elements(Append(seq, m)) \subseteq Elements(seq) \cup {m}
        BY <2>1 DEF Elements
    <2>3. ASSUME NEW e \in Elements(seq) \cup {m}
          PROVE  e \in Elements(Append(seq, m))
        <3>1. CASE e = m
            BY <2>1, <3>1 DEF Elements
        <3>2. CASE e \in Elements(seq)
            <4>1. PICK i \in 1..Len(seq) : e = seq[i]
                BY <3>2 DEF Elements
            <4> QED BY <2>1, <4>1 DEF Elements
        <3> QED BY <2>3, <3>1, <3>2
    <2> QED BY <2>2, <2>3
<1>2. ASSUME seq # <<>>
      PROVE  /\ Head(seq) \in Message
             /\ Head(seq) \in Elements(seq)
             /\ Tail(seq) \in Seq(Message)
             /\ Elements(Tail(seq)) \subseteq Elements(seq)
    <2>1. /\ Len(seq) \in Nat \ {0} /\ Head(seq) = seq[1]
          /\ Tail(seq) \in Seq(Message) /\ Len(Tail(seq)) = Len(seq) - 1
          /\ \A i \in 1..Len(seq) - 1 : Tail(seq)[i] = seq[i + 1]
          /\ \A i \in 1..Len(seq) : seq[i] \in Message
        BY <1>2
    <2> QED BY <2>1 DEF Elements
<1> QED BY <1>1, <1>2

\* A handler adds or removes one user: it stays in one map.
LEMMA WriteKeepsWorld ==
    ASSUME NEW w \in Worlds, NEW u \in Users, NEW a \in Maps
    PROVE  Written(w, u, a) \in Worlds
<1>1. w \in [Maps -> SUBSET Users] /\ \A b, c \in Maps : b # c => w[b] \cap w[c] = {}
    BY DEF Worlds
<1>2. CASE u \in UsersIn(w)
    BY <1>1, <1>2 DEF Worlds, Written
<1>3. CASE u \notin UsersIn(w)
    <2>1. \A b \in Maps : u \notin w[b]
        BY <1>3 DEF UsersIn
    <2> QED BY <1>1, <1>3, <2>1 DEF Worlds, Written
<1> QED BY <1>2, <1>3

-----------------------------------------------------------------------------
(* The invariant.                                                           *)

LEMMA ServerFacts ==
    /\ Master \in Servers /\ Slaves \subseteq Servers /\ Master \notin Slaves
    /\ \A n \in Servers : n = Master \/ n \in Slaves
BY WorldSyncAssumption DEF Servers

LEMMA InvInit ==
    ASSUME Init
    PROVE  IInv
<1>1. TypeOK
    BY WorldFacts DEF Init, TypeOK
<1>2. InTransit = {}
    BY DEF Init, InTransit, Elements
<1> QED BY <1>1, <1>2 DEF IInv, FromPast

LEMMA MessageFacts ==
    ASSUME IInv
    PROVE  /\ \A m \in InTransit : m \in Message /\ m.data \in Worlds /\ m.data \in past
           /\ channel \in Seq(Message)
           /\ \A s \in Slaves : wire[s] \in Seq(Message) /\ syncing[s] \subseteq Message
<1>1. /\ channel \in Seq(Message)
      /\ \A s \in Slaves : wire[s] \in Seq(Message) /\ syncing[s] \subseteq Message
    BY DEF IInv, TypeOK
<1>2. \A seq \in Seq(Message) : Elements(seq) \subseteq Message
    BY DEF Elements
<1>3. InTransit \subseteq Message
    BY <1>1, <1>2 DEF InTransit, IInv, TypeOK
<1> QED BY <1>1, <1>3 DEF IInv, TypeOK, FromPast

\* A message moves on: nothing new is in transit.
LEMMA MovesOn ==
    ASSUME FromPast, InTransit' \subseteq InTransit, past \subseteq past'
    PROVE  FromPast'
BY DEF FromPast

LEMMA TickKeeps ==
    ASSUME IInv, NEW n \in Servers, Tick(n)
    PROVE  IInv'
<1>1. PICK w \in Update(maps[n]) :
          /\ maps' = [maps EXCEPT ![n] = w]
          /\ \/ /\ \E i \in FreeSlots :
                      syncTasks' = syncTasks \cup {[slot |-> i, data |-> FromMaps(w)]}
                /\ past' = past \cup {w}
             \/ UNCHANGED <<syncTasks, past>>
    BY DEF Tick
<1>2. UNCHANGED <<node_type, up, channel, wire, syncing, crashes>>
    BY DEF Tick
<1>3. w \in Worlds /\ FromMaps(w) = w /\ w \in DTO
    BY WorldFacts DEF Update
<1>4. CASE UNCHANGED <<syncTasks, past>>
    <2>1. TypeOK'
        BY <1>1, <1>2, <1>3, <1>4 DEF IInv, TypeOK
    <2>2. InTransit' = InTransit
        BY <1>2, <1>4 DEF InTransit
    <2> QED BY <1>4, <2>1, <2>2, MovesOn DEF IInv
<1>5. ASSUME NEW i \in FreeSlots,
             syncTasks' = syncTasks \cup {[slot |-> i, data |-> FromMaps(w)]},
             past' = past \cup {w}
      PROVE  IInv'
    <2> DEFINE m == [slot |-> i, data |-> w]
    <2>1. m \in Message /\ m.data = w
        BY <1>3 DEF Message, FreeSlots
    <2> HIDE DEF m
    <2>2. syncTasks' = syncTasks \cup {m}
        BY <1>3, <1>5 DEF m
    <2>3. TypeOK'
        BY <1>1, <1>2, <1>3, <1>5, <2>1, <2>2 DEF IInv, TypeOK
    <2>4. InTransit' = InTransit \cup {m}
        BY <1>2, <2>2 DEF InTransit
    <2>5. FromPast'
        BY <1>5, <2>1, <2>4 DEF IInv, FromPast
    <2> QED BY <2>3, <2>5 DEF IInv
<1> QED BY <1>1, <1>4, <1>5

LEMMA PublishKeeps ==
    ASSUME IInv, NEW reached \in SUBSET Slaves, Publish(reached)
    PROVE  IInv'
<1> DEFINE m == Head(channel)
<1>1. /\ m \in Message /\ m \in Elements(channel)
      /\ channel' \in Seq(Message) /\ Elements(channel') \subseteq Elements(channel)
    BY ElementsFacts, MessageFacts DEF Publish
<1>2. /\ wire' = [s \in Slaves |-> IF s \in reached THEN Append(wire[s], m) ELSE wire[s]]
      /\ UNCHANGED <<serverVars, syncTasks, syncing, past, crashes>>
    BY DEF Publish
<1> HIDE DEF m
<1>3. \A s \in Slaves : /\ wire'[s] \in Seq(Message)
                         /\ Elements(wire'[s]) \subseteq Elements(wire[s]) \cup {m}
    <2> SUFFICES ASSUME NEW s \in Slaves
                 PROVE  /\ wire'[s] \in Seq(Message)
                        /\ Elements(wire'[s]) \subseteq Elements(wire[s]) \cup {m}
        OBVIOUS
    <2>1. wire[s] \in Seq(Message)
        BY MessageFacts
    <2>2. Append(wire[s], m) \in Seq(Message)
          /\ Elements(Append(wire[s], m)) = Elements(wire[s]) \cup {m}
        BY <1>1, <2>1, ElementsFacts
    <2> QED BY <1>2, <2>1, <2>2
<1>4. TypeOK'
    <2>1. wire' \in [Slaves -> Seq(Message)]
        BY <1>2, <1>3
    <2> QED BY <1>1, <1>2, <2>1 DEF IInv, TypeOK, serverVars
<1>5. InTransit' \subseteq InTransit
    <2>1. m \in InTransit
        BY <1>1 DEF InTransit
    <2>2. \A s \in Slaves : Elements(wire[s]) \cup syncing[s] \subseteq InTransit
        BY DEF InTransit
    <2>3. syncTasks' \cup Elements(channel') \subseteq InTransit
        BY <1>1, <1>2 DEF InTransit
    <2>4. \A s \in Slaves : Elements(wire'[s]) \cup syncing'[s] \subseteq InTransit
        BY <1>2, <1>3, <2>1, <2>2
    <2> QED BY <2>3, <2>4 DEF InTransit
<1> QED BY <1>2, <1>4, <1>5, MovesOn DEF IInv

LEMMA ReceiveKeeps ==
    ASSUME IInv, NEW s \in Slaves, Receive(s)
    PROVE  IInv'
<1> DEFINE m == Head(wire[s])
<1>1. /\ m \in Message /\ m \in Elements(wire[s])
      /\ Tail(wire[s]) \in Seq(Message) /\ Elements(Tail(wire[s])) \subseteq Elements(wire[s])
    BY ElementsFacts, MessageFacts DEF Receive
<1>2. /\ wire' = [wire EXCEPT ![s] = Tail(@)]
      /\ syncing' = [syncing EXCEPT ![s] = @ \cup {m}]
      /\ UNCHANGED <<serverVars, syncTasks, channel, past, crashes>>
    BY DEF Receive
<1> HIDE DEF m
<1>3. wire \in [Slaves -> Seq(Message)] /\ syncing \in [Slaves -> SUBSET Message]
    BY DEF IInv, TypeOK
<1>4. \A t \in Slaves : /\ Elements(wire'[t]) \subseteq Elements(wire[t])
                         /\ syncing'[t] \subseteq syncing[t] \cup Elements(wire[t])
    <2> SUFFICES ASSUME NEW t \in Slaves
                 PROVE  /\ Elements(wire'[t]) \subseteq Elements(wire[t])
                        /\ syncing'[t] \subseteq syncing[t] \cup Elements(wire[t])
        OBVIOUS
    <2>1. /\ wire'[t] = IF t = s THEN Tail(wire[s]) ELSE wire[t]
          /\ syncing'[t] = IF t = s THEN syncing[s] \cup {m} ELSE syncing[t]
        BY <1>2, <1>3
    <2> QED BY <1>1, <2>1
<1>5. TypeOK'
    BY <1>1, <1>2, <1>3 DEF IInv, TypeOK, serverVars
<1>6. InTransit' \subseteq InTransit
    BY <1>2, <1>4 DEF InTransit
<1> QED BY <1>2, <1>5, <1>6, MovesOn DEF IInv

LEMMA ApplySyncKeeps ==
    ASSUME IInv, NEW s \in Slaves, NEW m \in syncing[s], ApplySync(s, m)
    PROVE  /\ IInv'
           /\ m.data \in past
           /\ maps' = [maps EXCEPT ![s] = m.data]
<1>1. m \in InTransit
    BY DEF InTransit
<1>2. m.data \in Worlds /\ m.data \in past
    BY <1>1, MessageFacts
<1>3. maps[s] \in Worlds
    BY ServerFacts DEF IInv, TypeOK
<1>4. maps' = [maps EXCEPT ![s] = m.data]
    BY <1>2, <1>3, SyncReplaces DEF ApplySync
<1>5. TypeOK'
    BY <1>2, <1>4 DEF ApplySync, IInv, TypeOK
<1>6. InTransit' \subseteq InTransit
    <2>1. \A t \in Slaves : syncing'[t] \subseteq syncing[t]
        BY DEF ApplySync, IInv, TypeOK
    <2> QED BY <2>1 DEF ApplySync, InTransit
<1> QED BY <1>2, <1>4, <1>5, <1>6, MovesOn DEF IInv, ApplySync

LEMMA CrashKeeps ==
    ASSUME IInv, NEW n \in Servers, Crash(n)
    PROVE  IInv'
<1>1. UNCHANGED <<maps, node_type, past>> /\ crashes' = crashes + 1
      /\ up' = [up EXCEPT ![n] = FALSE]
    BY DEF Crash
<1>2. CASE n = Master
    <2>1. syncTasks' = {} /\ channel' = <<>> /\ UNCHANGED <<wire, syncing>>
        BY <1>2 DEF Crash
    <2>2. TypeOK'
        BY <1>1, <2>1 DEF IInv, TypeOK
    <2>3. InTransit' \subseteq InTransit
        <3>1. Elements(<<>>) = {}
            BY DEF Elements
        <3> QED BY <2>1, <3>1 DEF InTransit
    <2> QED BY <1>1, <2>2, <2>3, MovesOn DEF IInv
<1>3. CASE n # Master
    <2>1. /\ wire'    = [wire    EXCEPT ![n] = <<>>]
          /\ syncing' = [syncing EXCEPT ![n] = {}]
          /\ UNCHANGED <<syncTasks, channel>>
        BY <1>3 DEF Crash
    <2>2. TypeOK'
        <3>1. <<>> \in Seq(Message) /\ {} \in SUBSET Message
            OBVIOUS
        <3>2. wire' \in [Slaves -> Seq(Message)]
            BY <2>1, <3>1 DEF IInv, TypeOK
        <3>3. syncing' \in [Slaves -> SUBSET Message]
            BY <2>1, <3>1 DEF IInv, TypeOK
        <3>4. maps' \in [Servers -> Worlds] /\ up' \in [Servers -> BOOLEAN]
              /\ crashes' \in Nat
            BY <1>1 DEF IInv, TypeOK
        <3> QED BY <1>1, <2>1, <3>2, <3>3, <3>4 DEF IInv, TypeOK
    <2>3. \A t \in Slaves : /\ Elements(wire'[t]) \subseteq Elements(wire[t])
                             /\ syncing'[t] \subseteq syncing[t]
        <3> SUFFICES ASSUME NEW t \in Slaves
                     PROVE  /\ Elements(wire'[t]) \subseteq Elements(wire[t])
                            /\ syncing'[t] \subseteq syncing[t]
            OBVIOUS
        <3>1. /\ wire'[t] = IF t = n THEN <<>> ELSE wire[t]
              /\ syncing'[t] = IF t = n THEN {} ELSE syncing[t]
            BY <2>1 DEF IInv, TypeOK
        <3> QED BY <3>1 DEF Elements
    <2>4. InTransit' \subseteq InTransit
        BY <2>1, <2>3 DEF InTransit
    <2> QED BY <1>1, <2>2, <2>4, MovesOn DEF IInv
<1> QED BY <1>2, <1>3

LEMMA WriteKeeps ==
    ASSUME IInv, NEW n \in Servers, Write(n)
    PROVE  IInv'
<1>1. UNCHANGED <<node_type, up, transitVars, past, crashes>>
    BY DEF Write
<1>2. maps' \in [Servers -> Worlds]
    <2>1. maps[n] \in Worlds
        BY DEF IInv, TypeOK
    <2>2. PICK u \in Users, a \in Maps :
              maps' = [maps EXCEPT ![n] = Written(@, u, a)]
        BY DEF Write
    <2> QED BY <2>1, <2>2, WriteKeepsWorld DEF IInv, TypeOK
<1>3. TypeOK'
    BY <1>1, <1>2 DEF IInv, TypeOK, transitVars
<1>4. InTransit' = InTransit
    BY <1>1 DEF InTransit, transitVars
<1> QED BY <1>1, <1>3, <1>4, MovesOn DEF IInv

LEMMA SendToPublisherKeeps ==
    ASSUME IInv, NEW m \in syncTasks, SendToPublisher(m)
    PROVE  IInv'
<1>1. /\ syncTasks' = syncTasks \ {m}
      /\ channel'   = Append(channel, m)
      /\ UNCHANGED <<serverVars, wire, syncing, past, crashes>>
    BY DEF SendToPublisher
<1>2. m \in Message /\ channel \in Seq(Message)
    BY DEF IInv, TypeOK
<1>3. /\ channel' \in Seq(Message)
      /\ Elements(channel') = Elements(channel) \cup {m}
    BY <1>1, <1>2, ElementsFacts
<1>4. TypeOK'
    BY <1>1, <1>3 DEF IInv, TypeOK, serverVars
<1>5. InTransit' \subseteq InTransit
    BY <1>1, <1>3 DEF InTransit
<1> QED BY <1>1, <1>4, <1>5, MovesOn DEF IInv

LEMMA StartKeeps ==
    ASSUME IInv, NEW s \in Slaves, Start(s)
    PROVE  IInv'
<1>1. /\ up'   = [up   EXCEPT ![s] = TRUE]
      /\ maps' = [maps EXCEPT ![s] = Empty]
      /\ UNCHANGED <<node_type, transitVars, past, crashes>>
    BY DEF Start
<1>2. TypeOK'
    BY <1>1, WorldFacts, ServerFacts DEF IInv, TypeOK, transitVars
<1>3. InTransit' = InTransit
    BY <1>1 DEF InTransit, transitVars
<1> QED BY <1>1, <1>2, <1>3, MovesOn DEF IInv

LEMMA ConvertKeeps ==
    ASSUME IInv, NEW s \in Slaves, ConvertSelfToMaster(s)
    PROVE  IInv'
<1>1. /\ node_type' = [node_type EXCEPT ![s] = "Master"]
      /\ UNCHANGED <<maps, up, transitVars, past, crashes>>
    BY DEF ConvertSelfToMaster
<1>2. TypeOK'
    BY <1>1, ServerFacts DEF IInv, TypeOK, transitVars
<1>3. InTransit' = InTransit
    BY <1>1 DEF InTransit, transitVars
<1> QED BY <1>1, <1>2, <1>3, MovesOn DEF IInv

LEMMA InvNext ==
    ASSUME IInv, [Next]_vars
    PROVE  IInv'
<1>1. CASE \E n \in Servers : Write(n) \/ Tick(n) \/ Crash(n)
    BY <1>1, WriteKeeps, TickKeeps, CrashKeeps
<1>2. CASE \E m \in syncTasks : SendToPublisher(m)
    BY <1>2, SendToPublisherKeeps
<1>3. CASE \E reached \in SUBSET Slaves : Publish(reached)
    BY <1>3, PublishKeeps
<1>4. CASE \E s \in Slaves : Start(s) \/ Receive(s) \/ ConvertSelfToMaster(s)
    BY <1>4, StartKeeps, ReceiveKeeps, ConvertKeeps
<1>5. CASE \E s \in Slaves : \E m \in syncing[s] : ApplySync(s, m)
    BY <1>5, ApplySyncKeeps
<1>6. CASE UNCHANGED vars
    <2>1. TypeOK'
        BY <1>6 DEF vars, serverVars, transitVars, IInv, TypeOK
    <2>2. InTransit' = InTransit /\ past' = past
        BY <1>6 DEF vars, transitVars, InTransit
    <2> QED BY <2>1, <2>2, MovesOn DEF IInv
<1> QED BY <1>1, <1>2, <1>3, <1>4, <1>5, <1>6 DEF Next

(* Every map of every server holds users, none of them in two maps, and what *)
(* is on its way from the master to the slaves is made of past worlds, after *)
(* any sequence of ticks, losses, late tasks, crashes and elections.        *)
THEOREM TypeCorrect == Spec => [](TypeOK /\ FromPast)
<1>1. Init => IInv
    BY InvInit
<1>2. IInv /\ [Next]_vars => IInv'
    BY InvNext
<1> QED BY <1>1, <1>2, PTL DEF Spec, IInv

-----------------------------------------------------------------------------
(* The refinement: what a step does to the worlds that the slaves show.     *)

\* A server that is not a slave, or is none any longer, shows nothing.
LEMMA ShownWorlds ==
    ASSUME IInv
    PROVE  /\ Shows \in [Slaves -> Worlds \cup {None}]
           /\ \A s \in Slaves : Shows[s] # None <=> Following(s)
           /\ \A s \in Slaves : Following(s) => Shows[s] = maps[s]
<1>1. \A s \in Slaves : maps[s] \in Worlds /\ maps[s] # None
    BY WorldFacts, ServerFacts DEF IInv, TypeOK
<1> QED BY <1>1 DEF Shows

\* A step that leaves the slaves' maps and roles alone leaves what they show.
LEMMA ShowsKept ==
    ASSUME \A s \in Slaves : /\ maps'[s] = maps[s]
                             /\ node_type'[s] = node_type[s]
                             /\ up'[s] = up[s]
    PROVE  Shows' = Shows
BY DEF Shows, Following

LEMMA ReplicaInit ==
    ASSUME Init
    PROVE  Replicas!Init
<1>1. \A s \in Slaves : ~Following(s)
    BY ServerFacts DEF Init, Following
<1>2. Shows = [s \in Slaves |-> None]
    BY <1>1 DEF Shows
<1> QED BY <1>2 DEF Init, Replicas!Init

LEMMA TickReplica ==
    ASSUME IInv, NEW n \in Servers, Tick(n)
    PROVE  [Replicas!Next]_(Replicas!vars)
<1>1. /\ node_type[n] = "Master"
      /\ UNCHANGED <<node_type, up>>
      /\ \E w \in Update(maps[n]) :
            /\ maps' = [maps EXCEPT ![n] = w]
            /\ past' = past \cup {w} \/ past' = past
    BY DEF Tick
<1>2. PICK w \in Worlds : /\ maps' = [maps EXCEPT ![n] = w]
                          /\ past' = past \cup {w} \/ past' = past
    BY <1>1 DEF Update
<1>3. Shows' = Shows
    <2>1. \A s \in Slaves : Following(s) => s # n /\ maps'[s] = maps[s]
        BY <1>1, <1>2, ServerFacts DEF Following, IInv, TypeOK
    <2> QED BY <1>1, <2>1 DEF Shows, Following
<1>4. CASE past' = past
    BY <1>3, <1>4 DEF Replicas!vars
<1>5. CASE past' = past \cup {w}
    <2>1. Replicas!Publish(w)
        BY <1>3, <1>5 DEF Replicas!Publish
    <2> QED BY <2>1 DEF Replicas!Next
<1> QED BY <1>2, <1>4, <1>5

LEMMA WriteReplica ==
    ASSUME IInv, NEW n \in Servers, Write(n)
    PROVE  UNCHANGED Replicas!vars
<1>1. /\ node_type[n] = "Master"
      /\ UNCHANGED <<node_type, up, past>>
      /\ \A s \in Servers \ {n} : maps'[s] = maps[s]
    BY DEF Write, IInv, TypeOK
<1>2. \A s \in Slaves : Following(s) => s # n /\ maps'[s] = maps[s]
    BY <1>1, ServerFacts DEF Following
<1>3. Shows' = Shows
    BY <1>1, <1>2 DEF Shows, Following
<1> QED BY <1>1, <1>3 DEF Replicas!vars

\* A server that starts joins with the empty world.
LEMMA StartReplica ==
    ASSUME IInv, NEW s \in Slaves, Start(s)
    PROVE  Replicas!Next
<1>1. /\ up' = [up EXCEPT ![s] = TRUE] /\ maps' = [maps EXCEPT ![s] = Empty]
      /\ ~up[s] /\ node_type[s] = "Slave" /\ UNCHANGED <<node_type, past>>
    BY DEF Start
<1>2. Shows[s] = None
    BY <1>1 DEF Shows, Following
<1>3. \A t \in Slaves : Shows'[t] = IF t = s THEN Empty ELSE Shows[t]
    BY <1>1, ServerFacts DEF Shows, Following, IInv, TypeOK
<1>4. Shows' = [Shows EXCEPT ![s] = Empty]
    BY <1>3 DEF Shows
<1> QED BY <1>1, <1>2, <1>4 DEF Replicas!Next, Replicas!Join

\* A message replaces the world of a follower; the world of a server that was
\* elected meanwhile is nobody's copy.
LEMMA ApplySyncReplica ==
    ASSUME IInv, NEW s \in Slaves, NEW m \in syncing[s], ApplySync(s, m)
    PROVE  [Replicas!Next]_(Replicas!vars)
<1>1. m.data \in past /\ maps' = [maps EXCEPT ![s] = m.data]
      /\ UNCHANGED <<node_type, up, past>>
    BY ApplySyncKeeps DEF ApplySync
<1>2. \A t \in Slaves : t # s => Shows'[t] = Shows[t]
    BY <1>1, ServerFacts DEF Shows, Following, IInv, TypeOK
<1>3. CASE Following(s)
    <2>1. Shows[s] # None
        BY <1>3, ShownWorlds
    <2>2. Shows'[s] = m.data
        BY <1>1, <1>3, ServerFacts DEF Shows, Following, IInv, TypeOK
    <2>3. Shows' = [Shows EXCEPT ![s] = m.data]
        BY <1>2, <2>2 DEF Shows
    <2>4. Replicas!Show(s, m.data)
        BY <1>1, <2>1, <2>3 DEF Replicas!Show
    <2> QED BY <1>1, <2>4 DEF Replicas!Next
<1>4. CASE ~Following(s)
    <2>1. Shows'[s] = Shows[s]
        BY <1>1, <1>4 DEF Shows, Following
    <2>2. Shows' = Shows
        BY <1>2, <2>1 DEF Shows
    <2> QED BY <1>1, <2>2 DEF Replicas!vars
<1> QED BY <1>3, <1>4

\* A follower that crashes or is elected follows no longer.
LEMMA LeaveReplica ==
    ASSUME IInv, NEW s \in Slaves,
           \/ up' = [up EXCEPT ![s] = FALSE] /\ UNCHANGED node_type
           \/ node_type' = [node_type EXCEPT ![s] = "Master"] /\ UNCHANGED up,
           UNCHANGED <<maps, past>>
    PROVE  Replicas!Next
<1>1. \A t \in Slaves : Shows'[t] = IF t = s THEN None ELSE Shows[t]
    BY ServerFacts DEF Shows, Following, IInv, TypeOK
<1>2. Shows' = [Shows EXCEPT ![s] = None]
    BY <1>1 DEF Shows
<1> QED BY <1>2 DEF Replicas!Next, Replicas!Leave

LEMMA CrashReplica ==
    ASSUME IInv, NEW n \in Servers, Crash(n)
    PROVE  [Replicas!Next]_(Replicas!vars)
<1>1. up' = [up EXCEPT ![n] = FALSE] /\ UNCHANGED <<maps, node_type, past>>
    BY DEF Crash
<1>2. CASE n \in Slaves
    BY <1>1, <1>2, LeaveReplica
<1>3. CASE n = Master
    <2>1. Shows' = Shows
        BY <1>1, <1>3, ServerFacts, ShowsKept DEF IInv, TypeOK
    <2> QED BY <1>1, <2>1 DEF Replicas!vars
<1> QED BY <1>2, <1>3, ServerFacts

LEMMA ReplicaNext ==
    ASSUME IInv, [Next]_vars
    PROVE  [Replicas!Next]_(Replicas!vars)
<1>1. CASE \E n \in Servers : Write(n) \/ Tick(n) \/ Crash(n)
    BY <1>1, WriteReplica, TickReplica, CrashReplica
<1>2. CASE \E s \in Slaves : Start(s)
    BY <1>2, StartReplica
<1>3. CASE \E s \in Slaves : ConvertSelfToMaster(s)
    BY <1>3, LeaveReplica DEF ConvertSelfToMaster
<1>4. CASE \E s \in Slaves : \E m \in syncing[s] : ApplySync(s, m)
    BY <1>4, ApplySyncReplica
<1>5. CASE \/ \E m \in syncTasks : SendToPublisher(m)
           \/ \E reached \in SUBSET Slaves : Publish(reached)
           \/ \E s \in Slaves : Receive(s)
           \/ UNCHANGED vars
    <2>1. UNCHANGED <<serverVars, past>>
        BY <1>5 DEF SendToPublisher, Publish, Receive, vars
    <2>2. Shows' = Shows
        BY <2>1, ShowsKept DEF serverVars
    <2> QED BY <2>1, <2>2 DEF Replicas!vars
<1> QED BY <1>1, <1>2, <1>3, <1>4, <1>5 DEF Next

(* World synchronisation keeps the promise of Replica for any number of      *)
(* slaves, maps, users and crashes: a slave answers queries from one whole   *)
(* world that its master has published, never from a mixture of two.        *)
THEOREM Implements == Spec => ImplementsReplica
<1>1. Init => Replicas!Init
    BY ReplicaInit
<1>2. IInv /\ [Next]_vars => [Replicas!Next]_(Replicas!vars)
    BY ReplicaNext
<1>3. Spec => []IInv
    BY TypeCorrect, PTL DEF IInv
<1> QED BY <1>1, <1>2, <1>3, PTL DEF Spec, ImplementsReplica, Replicas!Spec

-----------------------------------------------------------------------------
(* What the convergence of the slaves rests on: a master whose world has    *)
(* stopped changing sends nothing stale, and what is stale runs out.        *)

\* What is on its way to s.
OnWay(s) == syncTasks \cup Elements(channel) \cup Elements(wire[s]) \cup syncing[s]

Stale(s) == {m \in OnWay(s) : m.data # maps[Master]}

CaughtUp(s) == maps[s] = maps[Master] /\ Stale(s) = {}

\* The master goes on with the world that it has, and s follows it.
Settled(s) ==
    /\ Following(s) /\ Following(s)'
    /\ maps'[Master] = maps[Master]

CatchesUp ==
    \A s \in Slaves : Settled(s) =>
        /\ Stale(s)' \subseteq Stale(s)
        /\ CaughtUp(s) => CaughtUp(s)'

\* Enough for CatchesUp.
LEMMA NothingStale ==
    ASSUME NEW s \in Slaves, maps'[Master] = maps[Master],
           \A m \in OnWay(s)' : m \in OnWay(s) \/ m.data = maps[Master],
           maps'[s] = maps[s] \/ \E m \in OnWay(s) : maps'[s] = m.data
    PROVE  /\ Stale(s)' \subseteq Stale(s)
           /\ CaughtUp(s) => CaughtUp(s)'
<1>1. Stale(s)' \subseteq Stale(s)
    BY DEF Stale
<1>2. CaughtUp(s) => maps'[s] = maps'[Master]
    BY DEF CaughtUp, Stale
<1> QED BY <1>1, <1>2 DEF CaughtUp

LEMMA CatchesUpStep ==
    ASSUME IInv, [Next]_vars
    PROVE  CatchesUp
<1> SUFFICES ASSUME NEW s \in Slaves, Settled(s)
             PROVE  /\ Stale(s)' \subseteq Stale(s)
                    /\ CaughtUp(s) => CaughtUp(s)'
    BY DEF CatchesUp
<1>0. /\ s \in Servers /\ s # Master /\ maps'[Master] = maps[Master]
      /\ node_type[s] = "Slave" /\ up[s] /\ up'[s] /\ node_type'[s] = "Slave"
      /\ maps \in [Servers -> Worlds]
      /\ wire \in [Slaves -> Seq(Message)] /\ syncing \in [Slaves -> SUBSET Message]
    BY ServerFacts DEF Settled, Following, IInv, TypeOK
<1>1. ASSUME NEW n \in Servers, Write(n)
      PROVE  maps'[s] = maps[s] /\ OnWay(s)' = OnWay(s)
    <2>1. n # s /\ UNCHANGED transitVars
        BY <1>0, <1>1 DEF Write
    <2> QED BY <1>0, <1>1, <2>1 DEF Write, OnWay, transitVars
<1>2. ASSUME NEW n \in Servers, Tick(n)
      PROVE  /\ maps'[s] = maps[s]
             /\ \A m \in OnWay(s)' : m \in OnWay(s) \/ m.data = maps[Master]
    <2>1. PICK w \in Update(maps[n]) :
              /\ maps' = [maps EXCEPT ![n] = w]
              /\ \/ /\ n = Master
                    /\ \E i \in FreeSlots :
                          syncTasks' = syncTasks \cup {[slot |-> i, data |-> FromMaps(w)]}
                 \/ syncTasks' = syncTasks
        BY <1>2 DEF Tick
    <2>2. n # s /\ UNCHANGED <<channel, wire, syncing>>
        BY <1>0, <1>2 DEF Tick
    <2>3. FromMaps(w) = w
        BY <2>1, WorldFacts DEF Update
    <2>4. n = Master => w = maps[Master]
        BY <1>0, <2>1
    <2>5. \A m \in syncTasks' : m \in syncTasks \/ m.data = maps[Master]
        BY <2>1, <2>3, <2>4
    <2> QED BY <1>0, <2>1, <2>2, <2>5 DEF OnWay
<1>3. ASSUME NEW n \in Servers, Crash(n)
      PROVE  maps'[s] = maps[s] /\ OnWay(s)' \subseteq OnWay(s)
    <2>1. n # s /\ maps' = maps
        BY <1>0, <1>3 DEF Crash, IInv, TypeOK
    <2>2. wire'[s] = wire[s] /\ syncing'[s] = syncing[s]
        BY <1>0, <1>3, <2>1 DEF Crash
    <2>3. syncTasks' \subseteq syncTasks /\ Elements(channel)' \subseteq Elements(channel)
        BY <1>3 DEF Crash, Elements
    <2> QED BY <2>1, <2>2, <2>3 DEF OnWay
<1>4. ASSUME NEW m \in syncTasks, SendToPublisher(m)
      PROVE  maps'[s] = maps[s] /\ OnWay(s)' \subseteq OnWay(s)
    <2>1. m \in Message /\ channel \in Seq(Message)
        BY DEF IInv, TypeOK
    <2>2. Elements(channel)' = Elements(channel) \cup {m}
        BY <1>4, <2>1, ElementsFacts DEF SendToPublisher
    <2> QED BY <1>4, <2>2 DEF SendToPublisher, serverVars, OnWay
<1>5. ASSUME NEW reached \in SUBSET Slaves, Publish(reached)
      PROVE  maps'[s] = maps[s] /\ OnWay(s)' \subseteq OnWay(s)
    <2> DEFINE m == Head(channel)
    <2>1. /\ m \in Message /\ m \in Elements(channel)
          /\ Elements(channel)' \subseteq Elements(channel)
        BY <1>5, ElementsFacts, MessageFacts DEF Publish
    <2>2. wire'[s] = IF s \in reached THEN Append(wire[s], m) ELSE wire[s]
        BY <1>5 DEF Publish
    <2> HIDE DEF m
    <2>3. wire[s] \in Seq(Message)
        BY <1>0
    <2>4. Elements(wire[s])' \subseteq Elements(wire[s]) \cup {m}
        BY <2>1, <2>2, <2>3, ElementsFacts
    <2> QED BY <1>5, <2>1, <2>4 DEF Publish, serverVars, OnWay
<1>6. ASSUME NEW t \in Slaves, Receive(t)
      PROVE  maps'[s] = maps[s] /\ OnWay(s)' \subseteq OnWay(s)
    <2>1. UNCHANGED <<serverVars, syncTasks, channel>>
        BY <1>6 DEF Receive
    <2>2. CASE t # s
        <3>1. wire'[s] = wire[s] /\ syncing'[s] = syncing[s]
            BY <1>0, <1>6, <2>2 DEF Receive
        <3> QED BY <2>1, <3>1 DEF serverVars, OnWay
    <2>3. CASE t = s
        <3>1. /\ Head(wire[s]) \in Elements(wire[s])
              /\ Elements(Tail(wire[s])) \subseteq Elements(wire[s])
            BY <1>0, <1>6, <2>3, ElementsFacts DEF Receive
        <3>2. /\ wire'[s] = Tail(wire[s])
              /\ syncing'[s] = syncing[s] \cup {Head(wire[s])}
            BY <1>0, <1>6, <2>3 DEF Receive
        <3>3. Elements(wire[s])' \subseteq Elements(wire[s])
            BY <3>1, <3>2
        <3> QED BY <2>1, <3>1, <3>2, <3>3 DEF serverVars, OnWay
    <2> QED BY <2>2, <2>3
<1>7. ASSUME NEW t \in Slaves, NEW m \in syncing[t], ApplySync(t, m)
      PROVE  /\ maps'[s] = maps[s] \/ \E q \in OnWay(s) : maps'[s] = q.data
             /\ OnWay(s)' \subseteq OnWay(s)
    <2>1. maps' = [maps EXCEPT ![t] = m.data]
        BY <1>7, ApplySyncKeeps
    <2>2. UNCHANGED <<syncTasks, channel, wire>> /\ syncing'[s] \subseteq syncing[s]
        BY <1>0, <1>7 DEF ApplySync
    <2>3. t = s => maps'[s] = m.data /\ m \in OnWay(s)
        BY <1>0, <2>1 DEF OnWay
    <2>4. t # s => maps'[s] = maps[s]
        BY <1>0, <2>1
    <2> QED BY <2>2, <2>3, <2>4 DEF OnWay
<1>8. ASSUME NEW t \in Slaves, Start(t) \/ ConvertSelfToMaster(t)
      PROVE  maps'[s] = maps[s] /\ OnWay(s)' = OnWay(s)
    <2>1. UNCHANGED transitVars
        BY <1>8 DEF Start, ConvertSelfToMaster
    <2>2. maps'[s] = maps[s]
        BY <1>0, <1>8 DEF Start, ConvertSelfToMaster
    <2> QED BY <2>1, <2>2 DEF OnWay, transitVars
<1>9. CASE UNCHANGED vars
    <2>1. maps'[s] = maps[s] /\ OnWay(s)' = OnWay(s)
        BY <1>9 DEF vars, serverVars, transitVars, OnWay
    <2> QED BY <1>0, <2>1, NothingStale
<1>10. CASE \E n \in Servers : Write(n) \/ Tick(n) \/ Crash(n)
    BY <1>0, <1>1, <1>2, <1>3, <1>10, NothingStale
<1>11. CASE \/ \E m \in syncTasks : SendToPublisher(m)
            \/ \E reached \in SUBSET Slaves : Publish(reached)
            \/ \E t \in Slaves : Start(t) \/ Receive(t) \/ ConvertSelfToMaster(t)
    BY <1>0, <1>4, <1>5, <1>6, <1>8, <1>11, NothingStale
<1>12. CASE \E t \in Slaves : \E m \in syncing[t] : ApplySync(t, m)
    BY <1>0, <1>7, <1>12, NothingStale
<1> QED BY <1>9, <1>10, <1>11, <1>12 DEF Next

(* While the master's world stays as it is, no world that differs from it is *)
(* sent to a slave that follows it: the older ones still on their way only   *)
(* become fewer, and when they have run out a slave that shows the master's  *)
(* world keeps showing it, whatever is lost, overtaken or elected.  With the *)
(* fairness of the threads this is why Converges holds.                     *)
THEOREM StaysCaughtUp == Spec => [][CatchesUp]_vars
<1>1. Spec => []IInv
    BY TypeCorrect, PTL DEF IInv
<1>2. IInv /\ [Next]_vars => CatchesUp
    BY CatchesUpStep
<1> QED BY <1>1, <1>2, PTL DEF Spec
=============================================================================
