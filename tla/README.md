# Verification of the distributed game server

TLA+ specifications of the registry center with its load balancer, the game
servers' worlds and their synchronisation, the client sessions and the locks of
this repository, checked with TLC on small instances, with
theorems proved by TLAPS for every value of the constants. Paths below are
relative to `src/crates/` unless they begin with `src/`; the repository's own
documentation is `src/README.md`.

## 1. The system

A **registry center** supervises the **servers** of a cluster. One server is
configured as the master: it owns the world, handles all writes and publishes the
world on every tick. Slaves subscribe to it, answer queries from their copy and
forward writes. **Clients** talk to one server and send heartbeats to it. A server
can also run alone (`single`), which is the master without slaves.

| component | state | operations | interacts by |
|---|---|---|---|
| registry: handlers (`registry_center/src/zmq_handler.rs`, `app_context.rs`) | `AppContext`: `node_list`, `node_state`, `master_node`, `node_id_peer_id_map`, behind one tokio mutex | `Register`, `Report`, `ConvertToMasterResp`, one task per message | router socket to the servers |
| registry: monitor (`server_keeping.rs`) | silence counters in `node_state` | one round per second: age, sweep, elect | `ConvertToMaster`, `ChangeMaster` |
| registry: HTTP (`handler.rs`) | reads all of the above | load balancer, node and master queries, each taking the mutex several times | clients, starting slaves |
| server: membership (`distribute.rs`, `server_run.rs`) | `ServerContext::node_type`, `node_info` | start, report, convert, exit when refused | registry |
| server: world (`world.rs`, `common/src/basic.rs`, `common_server/src/map_tool.rs`) | 100 maps with scenes, `users`, `client_map` | login, logout, add, remove, velocity, aoe, query, tick | called under the world mutex |
| server: handlers (`main_handle.rs`) | holds `server_context` from first to last line | client requests; `AddUser`, `DelUser` from slaves; forwarding | channels and sockets |
| server: client monitor (`heartbeat.rs`, `heartbeat/src/lib.rs`) | `last_time` of every client | ping, periodic round, removal of offline clients | world, master |
| server: world synchronisation (`distribute.rs`, `server_run.rs`) | the slave's world, worlds on their way | publish on a tick, apply in a task of its own | channel, pub/sub |
| server: forwarding (`distribute.rs`) | three bounded channels | client to master, answer to client | sockets |
| server: mutexes (`server_run.rs`) | `server_context`, `world`, `last_time` | locked in nested fashion by all of the above | |
| client (`client/src/main.rs`) | a test program | requests, pings | server |

What is hard here:

* **Interleaving.** A registration takes the registry's mutex up to four times, a
  monitor round takes it once; whatever a registration has checked may be false
  when it writes. A round of the client monitor holds the heartbeat map only, so
  handlers run between two of its clients.
* **Ordering.** Every message is handled by a spawned task: two messages of one
  connection are handled in any order.
* **Failure and time.** Silence is all that the monitors see. A slow master is
  taken for dead, a confirmation may come after its sender was swept, a client may
  stop between a login and its first ping.
* **Redundant state.** `node_list`, `node_state`, `master_node` and the peer map are
  changed by different operations; the world keeps each user twice, and
  `client_map` a third trace of it.
* **Waiting.** Tasks hold up to three mutexes and send on channels of 100 messages
  while they hold them; four loops take the same mutexes.
* **Failover.** An elected slave changes its role while its tasks, its subscription
  and the other slaves go on as before.
* **Boundaries.** The grid has no area 0; axes, edges, the border and the corners of
  a query are cases of their own.

What makes each part correct:

* *registry*: whoever is listed can be written to and is watched; the registered
  master is listed; there is one master, it is replaced only after it was found
  offline, and a cluster with a live candidate gets one again;
* *world*: every user is in exactly the scene of its position and in `users`; a
  query returns exactly the users in its scope; an aoe reaches exactly those in its
  circle; no tick costs a user its money or its place;
* *sessions*: a session has its user in the master's world and a user its session,
  up to messages on their way; a client that has stopped is cleaned up; requests
  are answered;
* *synchronisation*: a slave shows one whole past world of its master and catches up;
* *locks and channels*: nobody waits in a circle and the world goes on ticking;
* *load balancer*: a client gets the least loaded slave, never the acting master if
  there is a choice, although the registry changes while it is chosen.

## 2. The modules

`Registry`, `Balancer`, `WorldGrid`, `World`, `CoverWalk`, `Sessions`, `WorldSync` and
`ServerLocks` model the code; `Mastership` and `Replica` are abstract specifications that
`Registry` and `WorldSync` implement; each `*Proofs` module proves theorems about the one it extends; each
`MC*` module gives the constants their values for TLC. `World` and `CoverWalk` both
extend `WorldGrid`; `Balancer` extends `Registry` and is composed with it.
An operator whose comment begins with "Mutant:" is a deliberately wrong variant of a
definition that follows it; no specification uses it. It is there to see that a
property notices.

### Registry

One action is one critical section of the registry's mutex. `Register` is
`RegisterCheckListed`, then `RegisterMasterCheck`/`RegisterMasterSet` or
`RegisterSlaveCheck`, then `RegisterInsert`: a record in `regTasks` is a handler
between two sections. `Report` and `ConvertToMasterResp` are one section each.
`MonitorRound` is a round of `heartbeat_monitor` with the election in it, because the
code keeps the mutex through both, and even through the sleep of a second that
follows (`server_keeping.rs:78`): between two sections of a registration there is
often a whole round, so the interleavings below are the usual case and no rarity. The server side is `Start` (`do_in_cluster_mode`),
`SendReport`, one `Receive...` per command, and `Crash`.

Messages in flight are sets: a handler per message means any order. What a node sent
may be lost when it crashes; what is sent to a closed connection is lost. A peer
identity is the incarnation of the node, since a new connection gets a new identity.
`node_state[n]` counts the rounds since the last report; the code measures
milliseconds and compares with 5000. The elected node is any listed node with a
state: the comparison of loads decides nothing that the properties depend on.

A slave that starts when the registered master cannot be subscribed to never gets
to its loops (`up` stays FALSE), and so does one that starts without a master: its
`Register` is nevertheless under way. A node converted to master has no publisher,
since only `do_master` binds one.

`Mastership` is the promise: one node at a time acts as the master. Its steps are
`Begin` (without being told, in a vacancy), `Register`, `Stop`, `Depose` (only somebody
who no longer acts; one node is told to take over, or nobody) and `TakeOver` (the
node that was told, in a vacancy). The refinement maps `acting` to `ActingMasters`,
`told` to the nodes with a `ConvertToMaster` on its way and `registered` to
`master_node`. A round that sweeps the master is `Depose`,
`RegisterMasterSet` and `ConvertToMasterResp` are `Register`, `ReceiveConvertToMaster`
is `TakeOver`, a crash or a refusal is `Stop`, the start of the configured master is
`Begin`; everything else is a stutter.

### WorldGrid, World, CoverWalk

`WorldGrid` has the arithmetic of `pos2map_tag`, the tags that `World::init` creates
and the set of tags of a scope. Coordinates are integers where the code has `f32`;
for integers within the border the rounding of a quotient never changes its ceiling.

`World` is one action per method that changes the world; all are called under the
world mutex. `AddUser` and `DelUser` are what the master does for a slave's client.
`Update` is a tick: shift, change of maps, and the rebuilding of `users`.
`aoe` changes the scenes only, as in the code, so money in `users` is old until the
next tick; every target gets one unit where the code pays the sum that the client
names. Where the code unwraps a map that may not exist, `panicked` becomes TRUE.

`CoverWalk` is `get_cover_map_by_scope` one loop test at a time, with its two steps
over index 0. `World!Query` uses the set `CoverTags` that `CoverWalk` is shown to list.

### Balancer

`GET /connection` beside everything that `Registry` does. `get_load_banlance_connection`
takes the registry's mutex for a copy of `node_state`, again for a copy of `node_list`,
and again for `master_node`: `CopyStates`, `CopyList` and `Answer`, between which any
step of `Registry` may happen. `Answer` holds the whole choice (`Candidates`,
`MinLoadNodes`, whose loop is `Scan`, with `Better`) and the client's reading of the response (`ServerOf`);
`Connect` is the client's connection, which may find the server gone. The copy of
`node_state` holds the nodes' loads; as no step depends on them before the choice they
are picked there, from `Loads`. Load factors are counted in tenths. The hash map's
order is any order, as is the key that `get_min_load_node` starts from.

### Sessions

Login, logout, writes (`Aoe` and `SetVelocity`, alike here) and queries at a server with
a world of its own and at a slave, the messages by which a slave tells the master, and
the client monitor. A handler is one action (`server_context` is locked throughout); a
monitor round is `StartRound`, one `Visit` per client, `EndRound`, and pings wait
meanwhile, as they need the map that the round holds. `EndRound` removes the entries of
`del_list` whatever has happened since. A message carries the identity of the client
that waits for the answer, `None` for the `DelUser` of the monitor. The world is reduced
to its set of user ids; module World is about the users. `Close` ends a client with any
part of its requests still under way.

### WorldSync and Replica

`Tick` is the master branch of a loop of `world_update_thread`: update, clone, and a task
that takes the world to the publishing thread (`syncTasks`, a set: the tasks run in any
order). `Publish` is that thread; it reaches any set of the subscribers, because a pub
socket drops what a slow one cannot take. `Receive` and `ApplySync` are the slave's
thread and the task per message, again a set. A message is a function on the maps it
names, as `WorldSyncDTO` is; `SyncFromMaster` replaces the scenes of these maps only.
`Write` stands for the handlers, `Update` for what `World::update` may do to the maps.
`ConvertSelfToMaster` changes `node_type` and nothing else, as the code does: the
subscription goes on, and the ticks of a converted slave publish nothing, as its
`world_sync_sender` has no receiver. `Crash` loses what the process held.

`Replica` is the promise: a follower shows, as a whole, one of the worlds published so
far, perhaps an older one than before. The refinement maps `shows[s]` to the maps of a
server that is up and a slave, and to `None` otherwise; `Tick` is `Publish` or a
stutter, `ApplySync` is `Show`, or a stutter at a server that was elected meanwhile,
`Crash` and `ConvertSelfToMaster` are `Leave`. `past` is a history variable.

### ServerLocks

One server's mutexes `server_context`, `world` and heartbeat map, its three bounded
channels, one task beside the four loops. An operation is the script of its locks,
unlocks and sends, in the code's order; what it computes is left out. `Branch` is the
reading of `node_type` under `server_context`. `AcquireContext`, `Acquire`, `Release`,
`Put`, `BecomeMaster` and `Finish` run a script, `Begin` picks one; `Panic` ends a spawned
task at any point and releases its locks. `Receive` is the receiving end of a channel;
`Needs` says what it must lock to receive: nothing, since every message gets a task of
its own. The forwarding thread receives only when it is not relaying.

## 3. What TLC checks

| run | instance | shows |
|---|---|---|
| `registry_safe` | 1 configured master, 2 slaves, the master may start twice, 2 crashes, late reports | the four maps stay consistent with each other: `PeerKnown`, `MasterListed`, `StateListed` |
| `registry_failover` | the same nodes started once, 2 crashes, reports in time, fairness | `OneMasterListed`, `OneActingMaster`, `MasterHandover`, `ListedHasState`, `ImplementsMastership`; `DeadMasterNoticed`, `ElectedTakesOver` |
| `registry_two_masters` | two configured masters | **violated** `OneMasterListed` |
| `registry_availability` | one crash, reports in time, fairness | **violated** `HighAvailability` |
| `world` | 2 clients, 2 users, 36 maps of side 2, off the axes | `Placed`, `Single`, `Mirrored`, `QueryExact`, `LoggedInHasUser`, `NoPanic`, `AoeFair`, `MoneyKept` |
| `world_axis` | 4 maps, a user that may step onto an axis | **violated** `LoggedInHasUser` |
| `cover_walk` | all scopes with corners among 66 points | `CoverExact`, `NoRevisit`, `Terminates` |
| `sessions` | a client at the master, one at a slave, two ids, fairness | `SessionHasUser`, `NoOrphan`, `WatchedCleared`, `Answered` |
| `world_sync` | a master and a slave, one user, two maps, three worlds in transit, one crash, elections at any time, fairness | `ImplementsReplica`, `Converges` |
| `world_sync_follow` | a master and two slaves, elections after a crash, fairness | **violated** `NewMasterFollowed` |
| `server_locks` | any one task against the four loops, channels of one message, fairness | `NoCircularWait`, `TicksGoOn` |
| `balancer` | the nodes of `registry_failover`, one client, loads that differ in each thing compared | `UninterruptedServed`, `SlaveGiven` |

The type invariant is checked in the first passing run of every module. Deadlock is not checked: nobody
has to start, to log in or to move, and the bounds end every behaviour.

### What the violations are

* `registry_two_masters`: the check "only one master node can exist"
  (`zmq_handler.rs:48`) and the assignment (`:58`) are two critical sections; two
  registrations that interleave are both accepted.
* `registry_availability`: an election that finds nobody listed is not repeated, as
  `master_node` is None from then on; a slave whose registration passed its check
  before the election and is inserted after it stays listed, alive and without a
  master. The same happens if the elected node stops before it confirms.
* `world_axis`: `pos2map_tag` gives the positive y axis to field A
  (`map_tool.rs:28`) with `x_len` 1, but the map with these indices was created with
  field B. `update` takes the user out of its old map and finds no new one.
* `world_sync_follow`: `ChangeMaster` is logged and nothing else (`distribute.rs:172`), and
  `convert_self_to_master` starts no publishing thread (`:193`). The remaining slave goes
  on answering queries from the last world of the dead master.

### Bounds, and why they are enough

* *Registry*: three nodes are the smallest cluster with a master and a choice in
  the election. `OfflineLimit = 1` lets every state of silence (reported, silent,
  swept) occur. A second start of the configured master is what it takes to meet a
  registry that still knows the first incarnation, or has elected another node. Two
  crashes reach the loss of a master and then of its successor.
* *World*: the positions reached are inner points, edges of areas and the border in
  all four fields; two users suffice for a caster and a target, for a shared scene
  and for two map changes in one tick. One of the two radii is above the
  maximum. `MaxMoney = 1` lets each user be paid. Spawns are chosen off the axes for
  the passing run: `world_axis` shows what an axis does.
* *CoverWalk*: corners on the axes, on edges, inside areas and beyond the border on
  both sides, inverted scopes included.
* *Sessions*: one client at each kind of server, two ids so that a client can log in
  again after its session has ended. An id is issued once: `Ids` bounds the logins.
* *WorldSync*: one user and two maps are enough for a user in two maps, in none, or
  left behind in an old one. Three worlds in transit let an older one be
  overtaken in the tasks of the master and again in those of the slave, with another
  between them on the wire, which keeps its order. The slave may be
  elected while the master lives (`KeepsUp = FALSE`). Slaves do not share state with
  each other, so one suffices but for `world_sync_follow`.
* *ServerLocks*: a channel of one message is full as early as can be. A circle needs
  threads that hold different locks; the four loops and a task of every kind are the
  holders there are. All of them take locks in one order, the heartbeat map,
  `server_context`, the world, and then a channel; for any number of tasks and any
  capacity it is proved that this excludes a circle (`NoDeadlock`).
* *Balancer*: one request; requests do not affect each other, as the registry is not
  changed by them. Two crashes as in `registry_failover`.

### Assumptions that are constants

* `KeepsUp` (Registry, Balancer): a round never finds a live node silent, that is,
  reports, sent on every tick, are handled within the five seconds. In WorldSync the
  same name says that only a crashed master is replaced; `world_sync` runs without it.
* `Prompt` (Sessions): heartbeats and the messages about a client take less time than
  the heartbeat limit. `Waits`: a client waits for a reply before its next request,
  as the test client does (`client/src/main.rs:119-148`).
  `SessionHasUser` is proved without either, `NoOrphan` from both.
* Ids are distinct. Every process runs its generator with `worker_id(1)`
  (`server_run.rs:60`), so this is an assumption about timing.

### Fairness

tokio runs every spawned task and its mutexes are first come, first served, so every
handler that has its message, every registration under way and both monitors get
their turn (weak fairness per node or client). TCP delivers what was sent on an open
connection. Servers report for as long as they live, because the tick loop does.
Time passes for a client that has stopped. Nobody has to start, crash, log in, log
out, ping or close.

In WorldSync, ticks, tasks and threads get their turn (weak fairness for each slot of a
world in transit), and a slave that stays subscribed is reached again and again (strong
fairness of `PublishTo`: a pub socket may drop any world, not all of them for ever). In
ServerLocks, a thread that could take its next step again and again takes it (strong
fairness, because tokio's mutexes and channel permits queue), loops loop and receivers
receive; sockets take what is sent to them.

## 4. What is proved

TLAPS proves the following for every value of the constants, from the named
assumptions of each module only (`RegistryAssumption`, `GridAssumption`,
`WorldAssumption`, `ScopesAssumption`, `SessionsAssumption`, `WorldSyncAssumption`,
`ClientAssumption`), which TLC evaluates on each instance. Where a theorem needs more,
it says so in an `ASSUME` of its own, named below.

* **RegistryProofs**, always: `TypeOK`, `PeerKnown`, `MasterListed`, `StateListed` for any
  nodes, configured masters, limits, restarts and crashes, without `KeepsUp`. The
  inductive invariant adds `ConvertKnown`: whoever is being told to convert, or has
  just answered, was registered once and has a peer. It is needed because
  `ConvertToMasterResp` lists a node without recording a peer. `TypeOK` is part of it
  in turn, as the election's commands are well typed only if all peers are known.
  `RegisteredWereStarted` adds that the registry lists started processes only.
* **RegistryProofs**, failover. The setting is `OneConfiguredMaster`: one node is
  configured as the master and it is started once. Slaves may crash and come back at
  any time and as often as they like, and reports may be late, which is wider than the
  instance of `registry_failover`; the numbers of nodes, crashes and rounds are free.
  In it `OneMasterListed`, `ListedHasState` and `MasterHandover` are proved, and that
  the monitor never panics. What the processes do needs `KeepsUp` too, since a master
  whose reports are late is replaced while it acts: `OneActingMaster` and the refinement
  `Spec => Masterships!Spec`. Without the setting the statements are false
  (`registry_two_masters`, and the list in section 5). The inductive invariant `FInv`
  follows the mastership. As long as the configured master has not been found offline
  (`Reign`) nobody converts and nobody else acts; afterwards it is dead, or, without
  `KeepsUp`, no longer listed and never registered again. From then on one conversion
  or its answer is on its way at most, only while there is no registered master, and a
  node that has converted is the registered master or its answer is still on its way.
  That no two registrations of the configured master are under way (`RegistersOnce`)
  is what keeps a late one from disturbing this; those of slaves that come back may
  be any number. The refinement goes through every action with `FInv`: that
  the swept master no longer acts (`MasterActsAlone` and `KeepsUp`) makes the round
  a `Depose`, and that nobody acts while somebody is being converted
  (`ConvertsAreVacant`) makes the conversion a `TakeOver`.
* **BalancerProofs**: the registry beside a request implements `Registry`
  (`BalancerSpec => Spec`), so what is proved there holds of every copy a request
  takes. `BalancerTypeOK` follows from `RegisteredWereStarted`. `SlaveGiven`, under
  `OneConfiguredMaster` and `KeepsUp`, from `MasterActsAlone`: while there is a registered
  master nobody else acts as one, and while there is none a client with a choice gets no
  server at all. `UninterruptedServed` needs `OneConfiguredMaster` only. It is about what
  the loop of `get_min_load_node` computes for every order of the states and every first
  key: after k passes no state among the first k is better than the one held
  (`ScanPasses`), and every state is in the order (`OrdersAreComplete`). The induction is
  by least counterexample (`LeastNumber`). That there are orders at all needs
  `FiniteKnown`: the registry has finitely many states, though `Nodes` may be infinite.
* **WorldGridProofs**: `AreaIndex` is never 0 and is monotone; hence the tag of
  every position of a scope that is a map is among the scope's tags
  (`CoverComplete`); and every point of the world off the axes has its map
  (`OffAxesHasMap`). Rounding is up for positive and down for negative values, so
  the lemmas go from `Ceil` to `Signed` to `AreaIndex`.
* **WorldProofs**: `TypeOK`, `Placed`, `Single`, `Mirrored`, and `QueryExact`, for any
  grid, users and displacements, the axes included: that a user vanishes on an axis
  breaks none of these. The inductive invariant adds that an id occurs once in
  `users`; it is needed because every operation finds a user's scene by the position
  that `users` has. `AoeFair` and `MoneyKept` are action properties proved from it: no
  step but `Aoe` changes the money of a user in the scenes (`OthersUnpaid`), and an aoe
  finds everybody in its circle, since the circle lies in the square that is queried
  and that query is exact.
  `LoggedInHasUser` and `NoPanic` are false on the axes (`world_axis`). They are proved
  for worlds in which nobody comes there: `OffAxes(R)` says of a set R of positions that
  the spawns are in it, that every displacement asked for leads from R to R, and that no
  point of R is on an axis. The positions of the run `world` are such a set; nothing
  in the code enforces it. The invariant adds that both copies have the same users.
* **CoverWalkProofs**: partial correctness of the walk, `CoverExact` and `NoRevisit`,
  for any grid and any scope. Loop invariant: the tags listed are those of the
  columns left of `x_len` and, within the inner loop, the rows above `y_len`.
  `WalkRunsDown` gives the variant: columns left, whether the body is to be run, rows
  left, ordered lexicographically. Every step makes it smaller, the two that step over
  index 0 included, and the order is well-founded.
* **SessionsProofs**: `TypeOK` and `SessionHasUser` for any clients, servers and ids, also
  if clients wait for nothing and heartbeats lapse at any time. The inductive invariant
  adds that the ids of sessions and of `DelUser` messages were issued, that no two
  sessions have the same id, and that a `DelUser` on its way has the id of no session:
  it is the only message that takes a user away.
  `NoOrphan` is proved under `Waits` and `Prompt`, which it needs: an `AddUser` must not
  be handled after the session that it is about has ended. Its session lasts
  (`AddUserHasSession`) because a client that waits has one message on its way at most
  (`OneMessage`), so no logout can overtake its login, and because a client whose
  heartbeat has lapsed has no message left (`ExpiredIsGone`), so no monitor round can.
  `AskedIsPending` and `WatchedUntilCleared`, for any clients and neither `Waits` nor
  `Prompt`, are the safety halves of `Answered` and `WatchedCleared` (below).
* **WorldSyncProofs**: `TypeOK` and the refinement `Spec => Replicas!Spec`, for any
  servers, users, maps and bounds. The invariant is `FromPast`: every message in transit,
  in a task, the channel, a wire or a slave's task, carries a whole world of the master's
  past. That it is whole (`FromMaps` names every map) is why applying it to any other
  world, in any order, yields it again. `StaysCaughtUp` is the safety half of `Converges`.
* **ServerLocksProofs**: `TypeOK` and `NoCircularWait` for any number of tasks and any
  channel capacity. The invariant (`Discipline`) says that what is left of a thread's
  script is one of the few rests that the scripts can leave with the locks it holds;
  the module lists them. Every such rest takes locks in one order: `last_time`, then
  `server_context`, then the world (`Rank`). So in a set of threads that all wait for
  locks, one that waits for the last lock in the order waits for nobody of the set; and
  a thread that waits for room in a channel waits for the receiver alone, of which the
  one that also relays holds no lock and waits for nobody (`RelayHoldsNone`).

Every safety property of the passing runs is proved. Only model-checked is liveness,
which the prover does not do under fairness: `ElectedTakesOver`, `DeadMasterNoticed`,
`Terminates`, `WatchedCleared`, `Answered`, `Converges`, `TicksGoOn`. For most of them
what they rest on is proved all the same, so that the step that is left to TLC is from
"a step is always possible, and each one helps or changes nothing" to "it happens":

| liveness | proved | left to fairness |
|---|---|---|
| `ElectedTakesOver` | `ConversionsGoOn`: order or answer of a conversion is on its way until the node is registered or stops | both are handled |
| `Terminates` | `WalkRunsDown`: every step of the walk descends in a well-founded order | the walk takes its steps |
| `Answered` | `AskedIsPending`: what a live client waits for is on its way to a handler, logouts excepted | it is handled |
| `WatchedCleared` | `WatchedUntilCleared`: a client that has stopped stays watched until its session ends | time passes, a round visits it |
| `Converges` | `StaysCaughtUp`: while the master's world stays, nothing stale is sent, and who has caught up stays so | the stale worlds run out, one more arrives |
| `TicksGoOn` | `NoDeadlock`: no set of threads waits in a circle | the threads run |

## 5. What is not modelled

* The contents of JSON messages, the HTTP queries that only read, logging,
  configuration files and the test client's measurements: no state of their own.
* `snow_id.rs` is not part of any build; `operation` is an empty program.
* `f32` rounding, the state report of the world and `connection_count`.
* Crashes of servers in Sessions, and of the registry anywhere: the registry keeps
  nothing on disk and the servers do not register again.
* Start-up and configuration: parsing and wiring. A server that is started runs once
  through `run` before it takes part in anything modelled.
* Logins at a slave whose master has ended: the forwarding thread panics at
  `distribute.rs:392`, and what it would take to go on is not in the code.

Other things seen while modelling, without a run of their own:

* a `ConvertToMasterResp` handled after the old master has registered again lists a
  second master (`zmq_handler.rs:139`); one handled after its sender was swept lists a
  node without state, which no round will find offline if it dies;
* a slave can be inserted while there is no master, although it was checked
  (`zmq_handler.rs:62-75`); `handler.rs:65` unwraps `master_node` when several nodes are
  listed, which is None from a sweep to the confirmation;
* a `DelUser` handled before the `AddUser` it cancels leaves a user that nobody
  removes (`main_handle.rs:196`); it takes a client that logs out before its login
  was answered;
* a master whose reports are late is taken for dead, replaced and not told: it goes on
  as master beside the elected one, although `server_keeping.rs:84` takes for granted that
  there is none; `OneActingMaster` needs `KeepsUp`;
* `handler.rs:64` says that several nodes always include a master; from the sweep of a
  dead one to the confirmation of the elected one they do not, and the unwrap fails;
* the third comparison of `get_min_load_node` can decide only between equal load factors
  and equal `max_connection`, that is, between equal connection counts but for rounding;
* a client that closes between its login and its first recorded ping is watched by
  nobody, and stays logged in;
* a logout at a slave whose session has ended is not answered (`main_handle.rs:146`);
* a world of the old master that is applied after a conversion overwrites the elected
  master's (`distribute.rs:226`);
* a slave refreshes its `state_info` only when it applies a published world
  (`world.rs:592`), so after a failover it goes on reporting the load it had then;
* `start_position` is documented as the upper left corner (`world.rs:49`); for positive
  indices it is the right border of the area that `pos2map_tag` gives the map.

## 6. Plan

Done: the registry with its election, its abstract specification and the load balancer;
the world with grid and query; the sessions; world synchronisation with its abstract
specification; locks and channels; and proofs of all safety properties.
Next: the users of a crashed slave's clients, which stay in the master's world
(`distribute.rs:424`), that is, crashes of servers in Sessions.

Questions that a later run answers better replace the runs they subsume, so that the
set stays small.
