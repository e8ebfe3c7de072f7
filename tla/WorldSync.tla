----------------------------- MODULE WorldSync -----------------------------
(***************************************************************************)
(* The world of the master and its copies on the slaves.                   *)
(*                                                                         *)
(* On every tick the master clones its maps and spawns a task that sends   *)
(* them to the publishing thread.  A slave's thread receives what is       *)
(* published and spawns a task per message, which replaces the scenes of   *)
(* the slave's maps.  Both kinds of task run in any order, so an older     *)
(* world may be applied after a newer one.                                 *)
(*                                                                         *)
(* The master may stop, or be replaced while it is only slow: the elected  *)
(* slave changes its node_type and nothing else.                           *)
(***************************************************************************)
EXTENDS Naturals, Sequences

CONSTANTS
    Users, Maps,
    Master,         \* the server configured as the master
    Slaves,
    None,
    MaxTransit,     \* bound: worlds on their way from a tick to the slaves
    MaxCrashes,     \* bound: how many servers may crash in all
    KeepsUp         \* TRUE: only a master that has crashed is replaced

ASSUME WorldSyncAssumption ==
    /\ Master \notin Slaves
    /\ None \notin [Maps -> SUBSET Users]
    /\ MaxTransit \in Nat
    /\ MaxCrashes \in Nat
    /\ KeepsUp \in BOOLEAN

VARIABLES
    maps,           \* maps[n]: the scenes of server n
    node_type, up,
    syncTasks,      \* sync_world_users_task: worlds that wait for the channel
    channel,        \* from those tasks to pub_world_sync_thread
    wire,           \* wire[s]: published, not yet received by slave s
    syncing,        \* syncing[s]: slave_sync_world_task, not yet run
    past,           \* history: what the ticks of the master have cloned
    crashes

serverVars  == <<maps, node_type, up>>
transitVars == <<syncTasks, channel, wire, syncing>>
vars == <<serverVars, transitVars, past, crashes>>

Servers == {Master} \cup Slaves
Slots   == 1..MaxTransit

\* No two maps have the same user: see Single in module World.
Worlds ==
    {w \in [Maps -> SUBSET Users] : \A a, b \in Maps : a # b => w[a] \cap w[b] = {}}

Empty      == [a \in Maps |-> {}]
UsersIn(w) == UNION {w[a] : a \in Maps}

\* A world in transit occupies a slot from its tick until the last slave has
\* applied it: slots tell equal worlds apart.
DTO     == UNION {[tags -> SUBSET Users] : tags \in SUBSET Maps}
Message == [slot : Slots, data : DTO]

Init ==
    /\ maps      = [n \in Servers |-> Empty]
    /\ node_type = [n \in Servers |-> IF n = Master THEN "Master" ELSE "Slave"]
    /\ up        = [n \in Servers |-> n = Master]
    /\ syncTasks = {}
    /\ channel   = <<>>
    /\ wire      = [s \in Slaves |-> <<>>]
    /\ syncing   = [s \in Slaves |-> {}]
    /\ past      = {Empty}
    /\ crashes   = 0

Elements(seq) == {seq[i] : i \in 1..Len(seq)}

InTransit ==
    syncTasks \cup Elements(channel)
        \cup UNION {Elements(wire[s]) \cup syncing[s] : s \in Slaves}

FreeSlots == Slots \ {m.slot : m \in InTransit}

-----------------------------------------------------------------------------
(* The acting master.                                                       *)

\* A handler removes a user that is there, or adds one to the map of its tag.
Written(w, u, a) ==
    [b \in Maps |-> IF u \in UsersIn(w) THEN w[b] \ {u}
                   ELSE IF b = a THEN w[b] \cup {u} ELSE w[b]]

Write(n) ==
    /\ up[n] /\ node_type[n] = "Master"
    /\ \E u \in Users, a \in Maps : maps' = [maps EXCEPT ![n] = Written(@, u, a)]
    /\ UNCHANGED <<node_type, up, transitVars, past, crashes>>

\* Mutant: a map without users is left out.
FromPopulatedMaps(w) == [a \in {b \in Maps : w[b] # {}} |-> w[a]]

\* WorldSyncDTO::from_maps: an entry for every map, those without users included.
FromMaps(w) == [a \in Maps |-> w[a]]

\* World::update moves users from map to map, and drops one on an axis.
Update(w) == {v \in Worlds : UsersIn(v) \subseteq UsersIn(w)}

\* The master branch of a loop of world_update_thread.  A converted slave's
\* world_sync_sender has no receiver: its task panics and publishes nothing.
Tick(n) ==
    /\ up[n] /\ node_type[n] = "Master"
    /\ \E w \in Update(maps[n]) :
          /\ maps' = [maps EXCEPT ![n] = w]
          /\ \/ /\ n = Master
                /\ \E i \in FreeSlots :
                      /\ \A j \in FreeSlots : i <= j
                      /\ syncTasks' = syncTasks \cup {[slot |-> i, data |-> FromMaps(w)]}
                /\ past' = past \cup {w}
             \/ /\ n # Master
                /\ UNCHANGED <<syncTasks, past>>
    /\ UNCHANGED <<node_type, up, channel, wire, syncing, crashes>>

SendToPublisher(m) ==
    /\ m \in syncTasks
    /\ syncTasks' = syncTasks \ {m}
    /\ channel'   = Append(channel, m)
    /\ UNCHANGED <<serverVars, wire, syncing, past, crashes>>

Subscribers == {s \in Slaves : up[s]}

\* pub_world_sync_thread.  A publication reaches only some of the subscribers:
\* a pub socket drops what a slow one cannot take.
Publish(reached) ==
    /\ channel # <<>>
    /\ reached \subseteq Subscribers
    /\ channel' = Tail(channel)
    /\ wire' = [s \in Slaves |-> IF s \in reached THEN Append(wire[s], Head(channel))
                                                   ELSE wire[s]]
    /\ UNCHANGED <<serverVars, syncTasks, syncing, past, crashes>>

-----------------------------------------------------------------------------
(* The slaves.                                                              *)

\* do_slave: a slave starts with empty maps and subscribes to the master that
\* the registry names; there is none to subscribe to once a slave was elected.
Start(s) ==
    /\ ~up[s] /\ up[Master]
    /\ \A t \in Slaves : node_type[t] = "Slave"
    /\ up'   = [up   EXCEPT ![s] = TRUE]
    /\ maps' = [maps EXCEPT ![s] = Empty]
    /\ UNCHANGED <<node_type, transitVars, past, crashes>>

\* world_update_from_master_thread
Receive(s) ==
    /\ wire[s] # <<>>
    /\ wire'    = [wire    EXCEPT ![s] = Tail(@)]
    /\ syncing' = [syncing EXCEPT ![s] = @ \cup {Head(wire[s])}]
    /\ UNCHANGED <<serverVars, syncTasks, channel, past, crashes>>

\* Mutant: the scenes are extended where they are to be replaced.
SyncAdds(own, dto) ==
    [a \in Maps |-> IF a \in DOMAIN dto THEN own[a] \cup dto[a] ELSE own[a]]

\* Mutant: a message with the users that are there already is taken for old news.
SyncIfOthers(own, dto) ==
    IF UNION {dto[a] : a \in DOMAIN dto} = UsersIn(own) THEN own
    ELSE [a \in Maps |-> IF a \in DOMAIN dto THEN dto[a] ELSE own[a]]

\* World::sync_from_master: the scenes of the maps that the message names.
SyncFromMaster(own, dto) ==
    [a \in Maps |-> IF a \in DOMAIN dto THEN dto[a] ELSE own[a]]

\* slave_sync_world_task; it does not ask whether this server is still a slave.
ApplySync(s, m) ==
    /\ m \in syncing[s]
    /\ syncing' = [syncing EXCEPT ![s] = @ \ {m}]
    /\ maps'    = [maps    EXCEPT ![s] = SyncFromMaster(@, m.data)]
    /\ UNCHANGED <<node_type, up, syncTasks, channel, wire, past, crashes>>

-----------------------------------------------------------------------------
(* Failover.                                                                *)

\* What a process holds ends with it; what was published stays on the wires.
Crash(n) ==
    /\ up[n]
    /\ crashes < MaxCrashes
    /\ crashes' = crashes + 1
    /\ up' = [up EXCEPT ![n] = FALSE]
    /\ IF n = Master
       THEN /\ syncTasks' = {}
            /\ channel'   = <<>>
            /\ UNCHANGED <<wire, syncing>>
       ELSE /\ wire'    = [wire    EXCEPT ![n] = <<>>]
            /\ syncing' = [syncing EXCEPT ![n] = {}]
            /\ UNCHANGED <<syncTasks, channel>>
    /\ UNCHANGED <<maps, node_type, past>>

\* convert_self_to_master on the slave that the registry elected.  The other
\* slaves only log the ChangeMaster they receive.
ConvertSelfToMaster(s) ==
    /\ up[s]
    /\ \A t \in Slaves : node_type[t] = "Slave"
    /\ KeepsUp => ~up[Master]
    /\ node_type' = [node_type EXCEPT ![s] = "Master"]
    /\ UNCHANGED <<maps, up, transitVars, past, crashes>>

-----------------------------------------------------------------------------
Next ==
    \/ \E n \in Servers : Write(n) \/ Tick(n) \/ Crash(n)
    \/ \E m \in syncTasks : SendToPublisher(m)
    \/ \E reached \in SUBSET Slaves : Publish(reached)
    \/ \E s \in Slaves :
          \/ Start(s) \/ Receive(s) \/ ConvertSelfToMaster(s)
          \/ \E m \in syncing[s] : ApplySync(s, m)

Spec == Init /\ [][Next]_vars

\* Publish, where subscriber s gets the message.
PublishTo(s) == \E reached \in SUBSET Slaves : s \in reached /\ Publish(reached)

(* The loops run and tokio gets to every spawned task; a subscriber is not   *)
(* cut off for ever.                                                        *)
Fairness ==
    /\ \A n \in Servers : WF_vars(Tick(n))
    /\ \A i \in Slots :
          WF_vars(\E m \in syncTasks : m.slot = i /\ SendToPublisher(m))
    /\ WF_vars(\E reached \in SUBSET Slaves : Publish(reached))
    /\ \A s \in Slaves :
          /\ SF_vars(PublishTo(s))
          /\ WF_vars(Receive(s))
          /\ \A i \in Slots :
                WF_vars(\E m \in syncing[s] : m.slot = i /\ ApplySync(s, m))

FairSpec == Spec /\ Fairness

-----------------------------------------------------------------------------
(* Properties.                                                              *)

TypeOK ==
    /\ maps      \in [Servers -> Worlds]
    /\ node_type \in [Servers -> {"Master", "Slave"}]
    /\ up        \in [Servers -> BOOLEAN]
    /\ syncTasks \subseteq Message
    /\ channel   \in Seq(Message)
    /\ wire      \in [Slaves -> Seq(Message)]
    /\ syncing   \in [Slaves -> SUBSET Message]
    /\ past      \subseteq Worlds
    /\ crashes   \in Nat

Following(s) == up[s] /\ node_type[s] = "Slave"

Shows == [s \in Slaves |-> IF Following(s) THEN maps[s] ELSE None]

Replicas == INSTANCE Replica WITH Followers <- Slaves, shows <- Shows

(* A slave answers queries from one whole world of its master's past: no     *)
(* order of the tasks, no loss, no crash and no election makes it show a     *)
(* mixture of two, with a user in two maps or left over in an old one.      *)
ImplementsReplica == Replicas!Spec

(* "the slaves keep in step with the master": when the master's world has    *)
(* stopped changing, every slave that goes on following it shows that world  *)
(* and keeps showing it, although older worlds may be applied late.         *)
Converges ==
    \A w \in Worlds, s \in Slaves :
        <>[](up[Master] /\ Following(s) /\ maps[Master] = w) => <>[](maps[s] = w)

(* "ChangeMaster tells the other slaves to switch to the new master": when   *)
(* the world of an elected master has stopped changing, every slave that is  *)
(* alive shows it.                                                          *)
NewMasterFollowed ==
    \A w \in Worlds, s, t \in Slaves :
        <>[](/\ up[t] /\ node_type[t] = "Master" /\ maps[t] = w
             /\ ~up[Master] /\ Following(s)) => <>[](maps[s] = w)
=============================================================================
