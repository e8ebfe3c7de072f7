---------------------------- MODULE ServerLocks ----------------------------
(***************************************************************************)
(* The mutexes and the bounded channels of one server.                     *)
(*                                                                         *)
(* Tasks lock server_context ("ctx"), the world and the heartbeat map      *)
(* ("last_time"), some of them while they hold another, and send on        *)
(* bounded channels while they hold what they have locked.  What a task    *)
(* does in between is left out: an operation is the script of its locks,   *)
(* unlocks and sends, which may depend on the node_type that it reads      *)
(* under ctx.  A panic unwinds the task and releases its locks.            *)
(*                                                                         *)
(* Sockets are taken to accept what is sent to them.  Tasks that lock      *)
(* nothing and send on a channel of their own (sync_world_users_task) stop *)
(* nobody and are left out.                                                *)
(***************************************************************************)
EXTENDS Naturals, Sequences

CONSTANTS
    Tasks,          \* bound: spawned tasks that run at the same time
    Capacity,       \* of a channel
    None

Locks    == {"last_time", "ctx", "world"}
Channels == {"to_client", "to_master", "to_registry"}

\* The threads that loop for as long as the process lives.
Loops   == {"world_update", "heartbeat_monitor", "heartbeat_update", "forward"}
Threads == Tasks \cup Loops

ASSUME ServerLocksAssumption ==
    /\ Tasks \cap Loops = {}
    /\ Capacity \in Nat \ {0}
    /\ None \notin Threads

VARIABLES
    node_type,      \* ServerContext::node_type
    rest,           \* rest[t]: what is left of the script of thread t
    held,           \* held[t]: the locks that t holds
    queued          \* queued[c]: how many messages channel c has

vars == <<node_type, rest, held, queued>>

-----------------------------------------------------------------------------
(* Scripts.  What is still held at the end of a script is released there.   *)

Lock(l)   == [do |-> "lock",   on |-> l]
Unlock(l) == [do |-> "unlock", on |-> l]
Send(c)   == [do |-> "send",   on |-> c]
Become    == [do |-> "become"]

\* Lock ctx and go on as node_type says.
Branch(master, slave) ==
    <<[do |-> "branch", on |-> "ctx", then |-> [Master |-> master, Slave |-> slave]]>>

LockContext(script) == Branch(script, script)
ReadWorld           == <<Lock("world"), Unlock("world")>>

\* Login and Logout: the world stays locked until the reply, or the message to
\* the master, is in the channel.
Login == Branch(<<Lock("world"), Send("to_client")>>, <<Lock("world"), Send("to_master")>>)

\* Login of a client that has logged in.
LoginAgain == LockContext(<<Lock("world"), Send("to_client")>>)

\* AddUser, DelUser and Query lock the world for one call only.
AddUser == LockContext(ReadWorld \o <<Send("to_client")>>)

\* Aoe and SetVelocity
Write == Branch(<<Lock("world"), Send("to_client")>>, <<Send("to_master")>>)

\* slave_sync_world_task, load_test
SyncWorld == <<Lock("world")>>

\* convert_self_to_master
Convert == LockContext(<<Become, Send("to_registry")>>)

\* try_report_load_factor_task
Report == <<Send("to_registry")>>

\* A loop of world_update_thread in cluster mode: ctx is locked over both uses of the world; the
\* report is sent by a task of its own.
Update == Branch(ReadWorld \o ReadWorld, ReadWorld)

\* Mutant: the round takes the connection count first and keeps the world.
RoundKeepsWorld ==
    <<Lock("last_time"), Lock("world")>> \o Branch(<<>>, <<Send("to_master")>>)

\* A round of heartbeat_monitor that finds a client offline.
Round ==
    LET afterwards == <<Unlock("ctx"), Lock("world")>> IN
    <<Lock("last_time")>> \o
        Branch(ReadWorld \o afterwards,
               <<Lock("world"), Send("to_master"), Unlock("world")>> \o afterwards)

\* ... and one that finds nobody.
QuietRound == <<Lock("last_time"), Lock("world")>>

\* A ping.
Ping == <<Lock("last_time")>>

\* forward_master_slave_client_thread with a response of the master.
Relay == <<Send("to_client")>>

TaskScripts == {Login, LoginAgain, AddUser, Write, SyncWorld, Convert, Report}

LoopScripts ==
    [world_update |-> {Update}, heartbeat_monitor |-> {Round, QuietRound},
     heartbeat_update |-> {Ping}, forward |-> {Relay}]

ScriptsOf(t) == IF t \in Loops THEN LoopScripts[t] ELSE TaskScripts

-----------------------------------------------------------------------------
Init ==
    /\ node_type \in {"Master", "Slave"}
    /\ rest      = [t \in Threads |-> <<>>]
    /\ held      = [t \in Threads |-> {}]
    /\ queued    = [c \in Channels |-> 0]

Running(t) == rest[t] # <<>> \/ held[t] # {}

\* The next step of thread t is of kind k.
About(t, k) == rest[t] # <<>> /\ Head(rest[t]).do = k

Free(l) == \A t \in Threads : l \notin held[t]

\* A task is spawned, or a loop has something to do.
Begin(t) ==
    /\ ~Running(t)
    /\ \E script \in ScriptsOf(t) : rest' = [rest EXCEPT ![t] = script]
    /\ UNCHANGED <<node_type, held, queued>>

Advance(t) == rest' = [rest EXCEPT ![t] = Tail(@)]

Acquire(t) ==
    /\ About(t, "lock") /\ Free(Head(rest[t]).on)
    /\ held' = [held EXCEPT ![t] = @ \cup {Head(rest[t]).on}]
    /\ Advance(t)
    /\ UNCHANGED <<node_type, queued>>

AcquireContext(t) ==
    /\ About(t, "branch") /\ Free("ctx")
    /\ held' = [held EXCEPT ![t] = @ \cup {"ctx"}]
    /\ rest' = [rest EXCEPT ![t] = Head(@).then[node_type] \o Tail(@)]
    /\ UNCHANGED <<node_type, queued>>

Release(t) ==
    /\ About(t, "unlock")
    /\ held' = [held EXCEPT ![t] = @ \ {Head(rest[t]).on}]
    /\ Advance(t)
    /\ UNCHANGED <<node_type, queued>>

\* Mutant: one message too many.
HasRoomForMore(c) == queued[c] <= Capacity

HasRoom(c) == queued[c] < Capacity

Put(t) ==
    /\ About(t, "send") /\ HasRoom(Head(rest[t]).on)
    /\ queued' = [queued EXCEPT ![Head(rest[t]).on] = @ + 1]
    /\ Advance(t)
    /\ UNCHANGED <<node_type, held>>

BecomeMaster(t) ==
    /\ About(t, "become")
    /\ node_type' = "Master"
    /\ Advance(t)
    /\ UNCHANGED <<held, queued>>

Finish(t) ==
    /\ rest[t] = <<>> /\ held[t] # {}
    /\ held' = [held EXCEPT ![t] = {}]
    /\ UNCHANGED <<node_type, rest, queued>>

\* An unwrap or expect in a spawned task fails.
Panic(t) ==
    /\ t \in Tasks /\ Running(t)
    /\ rest' = [rest EXCEPT ![t] = <<>>]
    /\ held' = [held EXCEPT ![t] = {}]
    /\ UNCHANGED <<node_type, queued>>

\* Mutant: the registry's commands are handled by the thread that receives them.
NeedsInline(c) == IF c = "to_registry" THEN {"ctx"} ELSE {}

\* What the receiver of a channel may have to lock before it receives again:
\* nothing, as each message is handled by a task of its own.
Needs(c) == {}

\* main_channel_thread, forward_server_to_registry_center_thread, and the thread
\* that also relays, but not while it does.
Receive(c) ==
    /\ queued[c] > 0
    /\ c = "to_master" => ~Running("forward")
    /\ \A l \in Needs(c) : Free(l)
    /\ queued' = [queued EXCEPT ![c] = @ - 1]
    /\ UNCHANGED <<node_type, rest, held>>

Step(t) == \/ Acquire(t) \/ AcquireContext(t) \/ Release(t)
           \/ Put(t) \/ BecomeMaster(t) \/ Finish(t)

Next ==
    \/ \E t \in Threads : Begin(t) \/ Step(t) \/ Panic(t)
    \/ \E c \in Channels : Receive(c)

Spec == Init /\ [][Next]_vars

(* tokio's mutexes and the permits of its channels are handed out first     *)
(* come, first served: who waits for one that is released again and again   *)
(* gets it.  The loops loop, and the receiving threads receive.             *)
Fairness ==
    /\ \A t \in Threads : SF_vars(Step(t))
    /\ WF_vars(Begin("world_update"))
    /\ \A c \in Channels : SF_vars(Receive(c))

FairSpec == Spec /\ Fairness

-----------------------------------------------------------------------------
(* Properties.                                                              *)

\* The types; no lock has two owners and no channel is over its capacity.
TypeOK ==
    /\ node_type \in {"Master", "Slave"}
    /\ held      \in [Threads -> SUBSET Locks]
    /\ queued    \in [Channels -> 0..Capacity]
    /\ \A t, u \in Threads : t # u => held[t] \cap held[u] = {}

\* The threads that have to move before t can: the owner of the lock it asks
\* for, or whoever keeps the receiver of a full channel from receiving.
Blockers(t) ==
    IF About(t, "lock") \/ About(t, "branch")
    THEN {u \in Threads : Head(rest[t]).on \in held[u]}
    ELSE IF About(t, "send") /\ ~HasRoom(Head(rest[t]).on)
    THEN {u \in Threads :
             \/ Head(rest[t]).on = "to_master" /\ u = "forward" /\ Running(u)
             \/ \E l \in Needs(Head(rest[t]).on) : l \in held[u]}
    ELSE {}

(* No threads wait for each other in a circle: in every set of threads there *)
(* is one that waits for nobody in the set.  In particular no thread waits  *)
(* for itself, and nobody who waits for room in a channel holds what is     *)
(* needed to empty it.                                                      *)
NoCircularWait ==
    LET blockers == [t \in Threads |-> Blockers(t)]
    IN  \A S \in (SUBSET Threads) \ {{}} : \E t \in S : blockers[t] \cap S = {}

(* The world goes on: every tick ends, and so the next one begins, whatever  *)
(* handlers, rounds and full channels it competes with.                     *)
TicksGoOn == []<><<Finish("world_update")>>_vars
=============================================================================
