------------------------------- MODULE World --------------------------------
(***************************************************************************)
(* The game world of a single server or of a master (world.rs): every      *)
(* method that changes it is one action, since handlers, the update thread *)
(* and the heartbeat monitor call them while they hold the world mutex.    *)
(*                                                                         *)
(* The world keeps every user twice: in the map of its position, which     *)
(* queries, aoe and the update work on, and in `users`, which finds a user *)
(* by its id.  The difficulty is to keep both, and client_map, in step     *)
(* while users cross from map to map.                                      *)
(***************************************************************************)
EXTENDS WorldGrid, FiniteSets

CONSTANTS
    Clients,        \* client ids (the keys of client_map)
    Ids,            \* user ids
    None,
    Spawns,         \* bound: the positions rand_position may return
    Steps,          \* bound: displacements per tick that clients may ask for
    Radii,          \* bound: aoe radii that clients may ask for
    MaxAoeRadius,   \* max_aoe_radius of the configuration
    MaxMoney,       \* bound: money a user may gather
    Scopes          \* the scopes QueryExact is checked with

ASSUME WorldAssumption ==
    /\ None \notin Ids
    /\ Spawns \subseteq WorldPosition
    /\ Steps \subseteq [x : Int, y : Int]
    /\ Radii \subseteq Nat
    /\ MaxAoeRadius \in Nat
    /\ MaxMoney \in Nat
    /\ Scopes \subseteq Scope

VARIABLES
    maps,           \* maps[t]: the users in the scene of map t
    users,          \* the second copy
    client_map,     \* client_map[c]: the user logged in by client c, or None
    panicked        \* has remove_user ever failed to find a map

vars == <<maps, users, client_map, panicked>>

Displacement == [x : Int, y : Int]
User == [id : Ids, position : WorldPosition, velocity : Displacement, money : Nat]

Zero    == [x |-> 0, y |-> 0]
MapOf(u) == Pos2MapTag(u.position)
InMaps  == UNION {maps[t] : t \in MapTags}

Init ==
    /\ maps       = [t \in MapTags |-> {}]
    /\ users      = {}
    /\ client_map = [c \in Clients |-> None]
    /\ panicked   = FALSE

-----------------------------------------------------------------------------
\* next_id: an id that nobody holds.
Fresh(id) ==
    /\ \A u \in users \cup InMaps : u.id # id
    /\ \A c \in Clients : client_map[c] # id

\* User::random_without_velocity
NewUser(id, p) == [id |-> id, position |-> p, velocity |-> Zero, money |-> 0]

\* add_user.  A position whose tag names no map puts the user in no scene.
Add(u) ==
    /\ maps'  = [t \in MapTags |-> IF t = MapOf(u) THEN maps[t] \cup {u} ELSE maps[t]]
    /\ users' = users \cup {u}

\* Login, where the world is this server's own.
Login(c, id, p) ==
    /\ client_map[c] = None
    /\ Fresh(id)
    /\ client_map' = [client_map EXCEPT ![c] = id]
    /\ Add(NewUser(id, p))
    /\ UNCHANGED panicked

\* AddUser, the login of a client of a slave.
AddUser(id, p) ==
    /\ Fresh(id)
    /\ Add(NewUser(id, p))
    /\ UNCHANGED <<client_map, panicked>>

WithoutId(us, id) == {u \in us : u.id # id}

\* remove_user: the scene is found by the position that `users` has; if no map
\* has that tag, the unwrap panics before anything is removed.
RemoveUser(id) ==
    \/ /\ \A u \in users : u.id # id
       /\ UNCHANGED <<maps, users, panicked>>
    \/ \E u \in users :
          /\ u.id = id
          /\ \/ /\ MapOf(u) \in MapTags
                /\ maps'  = [maps EXCEPT ![MapOf(u)] = WithoutId(@, id)]
                /\ users' = WithoutId(users, id)
                /\ UNCHANGED panicked
             \/ /\ MapOf(u) \notin MapTags
                /\ panicked' = TRUE
                /\ UNCHANGED <<maps, users>>

\* Mutant: the entry of client_map stays.
RemoveUserByClientIdHalf(c) ==
    /\ UNCHANGED client_map
    /\ \/ client_map[c] = None /\ UNCHANGED <<maps, users, panicked>>
       \/ client_map[c] # None /\ RemoveUser(client_map[c])

\* remove_user_by_client_id: Logout, and a client found offline.
RemoveUserByClientId(c) ==
    /\ client_map' = [client_map EXCEPT ![c] = None]
    /\ \/ client_map[c] = None /\ UNCHANGED <<maps, users, panicked>>
       \/ client_map[c] # None /\ RemoveUser(client_map[c])

\* DelUser, the logout of a client of a slave; it may come twice.
DelUser(id) ==
    /\ \A c \in Clients : client_map[c] # id
    /\ RemoveUser(id)
    /\ UNCHANGED client_map

\* set_velocity
SetVelocity(id, v) ==
    \E u \in users :
        /\ u.id = id
        /\ users' = WithoutId(users, id) \cup {[u EXCEPT !.velocity = v]}
        /\ maps'  = [t \in MapTags |->
                        IF t = MapOf(u)
                        THEN {IF w.id = id THEN [w EXCEPT !.velocity = v] ELSE w
                              : w \in maps[t]}
                        ELSE maps[t]]
        /\ UNCHANGED <<client_map, panicked>>

-----------------------------------------------------------------------------
(* query and aoe                                                            *)

Query(s) == {u \in UNION {maps[t] : t \in CoverTags(s) \cap MapTags} :
                 InScope(u.position, s)}

Square(p, r) == [left_up    |-> [x |-> p.x - r, y |-> p.y + r],
                 right_down |-> [x |-> p.x + r, y |-> p.y - r]]

InCircle(p, q, r) == (p.x - q.x) * (p.x - q.x) + (p.y - q.y) * (p.y - q.y) <= r * r

\* Mutant: the caster is paid as well.
AoeTargetsAll(u, r) ==
    {w.id : w \in {v \in Query(Square(u.position, r)) : InCircle(v.position, u.position, r)}}

\* Whom an aoe of user u reaches: query_by_circle_scope without u.
AoeTargets(u, r) ==
    {w.id : w \in {v \in Query(Square(u.position, r)) : InCircle(v.position, u.position, r)}}
    \ {u.id}

\* aoe: one unit of money for every target, in the maps only.
Aoe(id, r) ==
    /\ r <= MaxAoeRadius
    /\ \E u \in users :
          /\ u.id = id
          /\ \A w \in InMaps : w.id \in AoeTargets(u, r) => w.money < MaxMoney
          /\ maps' = [t \in MapTags |->
                         {IF w.id \in AoeTargets(u, r) THEN [w EXCEPT !.money = @ + 1] ELSE w
                          : w \in maps[t]}]
    /\ UNCHANGED <<users, client_map, panicked>>

-----------------------------------------------------------------------------
(* update: one tick.                                                        *)

\* User::shift
Shift(u) ==
    [u EXCEPT !.position = [x |-> Clamp(u.position.x + u.velocity.x),
                            y |-> Clamp(u.position.y + u.velocity.y)]]

ChangesMap(u) == MapOf(Shift(u)) # MapOf(u)

\* Mutant: the old map keeps the user.
ShiftedKept ==
    [t \in MapTags |->
        {Shift(u) : u \in maps[t]}
        \cup {Shift(u) : u \in {w \in InMaps : ChangesMap(w) /\ MapOf(Shift(w)) = t}}]

\* Mutant: the scenes are rebuilt from `users`.
ShiftedFromUsers ==
    [t \in MapTags |-> {Shift(u) : u \in {w \in users : MapOf(Shift(w)) = t}}]

\* Every user moves; those that change map leave the map of their old position
\* and enter the one of the new, if there is one.
Shifted ==
    [t \in MapTags |->
        {Shift(u) : u \in {w \in maps[t] : ~(ChangesMap(w) /\ MapOf(w) = t)}}
        \cup {Shift(u) : u \in {w \in InMaps : ChangesMap(w) /\ MapOf(Shift(w)) = t}}]

\* Mutant: `users` is not rebuilt.
CollectedLate == users

\* `users` becomes the union of the scenes.
Collected == UNION {Shifted[t] : t \in MapTags}

Update ==
    /\ maps'  = Shifted
    /\ users' = Collected
    /\ UNCHANGED <<client_map, panicked>>

-----------------------------------------------------------------------------
Next ==
    \/ \E id \in Ids, p \in Spawns : AddUser(id, p) \/ \E c \in Clients : Login(c, id, p)
    \/ \E c \in Clients : RemoveUserByClientId(c)
    \/ \E id \in Ids : DelUser(id)
    \/ \E id \in Ids, v \in Steps : SetVelocity(id, v)
    \/ \E id \in Ids, r \in Radii : Aoe(id, r)
    \/ Update

Spec == Init /\ [][Next]_vars

-----------------------------------------------------------------------------
(* Properties.                                                              *)

TypeOK ==
    /\ maps       \in [MapTags -> SUBSET User]
    /\ users      \subseteq User
    /\ client_map \in [Clients -> Ids \cup {None}]
    /\ panicked   \in BOOLEAN

(* Every user in a scene is in the scene of its position: update and aoe     *)
(* find it again there (their unwraps never fail).                          *)
Placed == \A t \in MapTags : \A u \in maps[t] : MapOf(u) = t

(* No user is in the scenes twice, not even during a run of map changes.     *)
Single ==
    \A s, t \in MapTags : \A u \in maps[s], w \in maps[t] : u.id = w.id => s = t /\ u = w

(* `users` has every user of the scenes, with the position and velocity it  *)
(* has there: remove_user and aoe look users up by that copy.               *)
Mirrored ==
    \A u \in InMaps : \E w \in users :
        w.id = u.id /\ w.position = u.position /\ w.velocity = u.velocity

(* A query returns exactly the users of the world within its scope, although *)
(* it visits only the maps that cover the scope.                            *)
QueryExact == \A s \in Scopes : Query(s) = {u \in InMaps : InScope(u.position, s)}

(* A logged in client has its user in the world, and no two share one.      *)
LoggedInHasUser ==
    \A c \in Clients : client_map[c] # None =>
        /\ \E u \in InMaps : u.id = client_map[c]
        /\ \A d \in Clients : client_map[d] = client_map[c] => c = d

(* Removing a user never fails to find its map.                             *)
NoPanic == ~panicked

MoneyOf(us, id) == {u.money : u \in {w \in us : w.id = id}}
InMapsNext      == UNION {maps'[t] : t \in MapTags}
Earned(id)      == \E a \in MoneyOf(InMaps, id), b \in MoneyOf(InMapsNext, id) : b > a

(* Money is earned through aoe only: when somebody earns, there is a caster *)
(* and a legal radius such that exactly the others in that circle earned.   *)
AoeFair ==
    [][(\E id \in Ids : Earned(id)) =>
          \E u \in users, r \in Radii :
              /\ r <= MaxAoeRadius
              /\ \A w \in InMaps :
                    Earned(w.id) <=> w.id # u.id /\ InCircle(w.position, u.position, r)]_vars

(* Nothing that happens to a user while it stays in the world, such as a    *)
(* change of map, costs it money.                                           *)
MoneyKept ==
    [][\A u \in InMaps, w \in InMapsNext : u.id = w.id => w.money >= u.money]_vars
=============================================================================
