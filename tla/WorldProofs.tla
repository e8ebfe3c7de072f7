---------------------------- MODULE WorldProofs -----------------------------
(***************************************************************************)
(* Proofs about World for any grid, any users and clients, any spawns and  *)
(* any displacements, the axes included.  The invariant is about the two   *)
(* copies of a user: the scenes hold a user once and in the right scene,   *)
(* and `users`, in which an id occurs once, mirrors them.  A query is then *)
(* exact because the index of an area grows with the coordinate            *)
(* (WorldGridProofs), and so an aoe pays whom it should.  What holds only  *)
(* while nobody comes to an axis is the last part.                         *)
(***************************************************************************)
EXTENDS World, WorldGridProofs

-----------------------------------------------------------------------------
(* Users.                                                                   *)

\* An id occurs once in `users`.
UsersSingle == \A u, w \in users : u.id = w.id => u = w

IInv == TypeOK /\ Placed /\ Single /\ Mirrored /\ UsersSingle

LEMMA UserFacts ==
    ASSUME NEW u \in User
    PROVE  /\ u.id \in Ids /\ u.position \in WorldPosition
           /\ u.velocity \in Displacement /\ u.money \in Nat
           /\ u.position.x \in Int /\ u.position.y \in Int
BY DEF User, WorldPosition

LEMMA InMapsFacts ==
    ASSUME TypeOK
    PROVE  /\ InMaps \subseteq User
           /\ \A t \in MapTags : maps[t] \subseteq InMaps
           /\ \A u \in InMaps : \E t \in MapTags : u \in maps[t]
BY DEF TypeOK, InMaps

LEMMA ShiftFacts ==
    ASSUME NEW u \in User
    PROVE  /\ Shift(u) \in User
           /\ Shift(u).id = u.id
           /\ Shift(u).velocity = u.velocity
           /\ Shift(u).money = u.money
<1>1. Limit \in Nat
    BY GridAssumption DEF Limit
<1>2. \A v \in Int : Clamp(v) \in -Limit..Limit
    BY <1>1 DEF Clamp
<1>3. /\ u.position.x + u.velocity.x \in Int
      /\ u.position.y + u.velocity.y \in Int
    BY <1>1 DEF User, WorldPosition, Displacement
<1> DEFINE p == [x |-> Clamp(u.position.x + u.velocity.x),
                 y |-> Clamp(u.position.y + u.velocity.y)]
<1>4. p \in WorldPosition
    BY <1>2, <1>3 DEF WorldPosition
<1>5. Shift(u) = [u EXCEPT !.position = p]
    BY DEF Shift
<1> HIDE DEF p
<1> QED BY <1>4, <1>5 DEF User

LEMMA NewUserFacts ==
    ASSUME NEW id \in Ids, NEW p \in Spawns
    PROVE  NewUser(id, p) \in User /\ NewUser(id, p).id = id
<1>1. p \in WorldPosition
    BY WorldAssumption
<1>2. Zero \in Displacement
    BY DEF Zero, Displacement
<1> QED BY <1>1, <1>2 DEF NewUser, User

LEMMA InitIInv == Init => IInv
BY WorldAssumption
   DEF Init, IInv, TypeOK, Placed, Single, Mirrored, UsersSingle, InMaps

-----------------------------------------------------------------------------
(* The steps; client_map and panicked only have a type.                     *)

WorldInv == /\ maps \in [MapTags -> SUBSET User]
            /\ users \subseteq User
            /\ Placed /\ Single /\ Mirrored /\ UsersSingle

LEMMA AddStep ==
    ASSUME IInv, NEW id \in Ids, NEW p \in Spawns, Fresh(id), Add(NewUser(id, p))
    PROVE  WorldInv'
<1> DEFINE n == NewUser(id, p)
<1>1. n \in User /\ n.id = id
    BY NewUserFacts
<1>2. /\ maps' = [t \in MapTags |-> IF t = MapOf(n) THEN maps[t] \cup {n} ELSE maps[t]]
      /\ users' = users \cup {n}
    BY DEF Add
<1>3. /\ \A u \in users : u.id # id
      /\ \A t \in MapTags : \A u \in maps[t] : u.id # id
    BY DEF Fresh, InMaps
<1> HIDE DEF n
<1>4. maps' \in [MapTags -> SUBSET User] /\ users' \subseteq User
    BY <1>1, <1>2 DEF IInv, TypeOK
<1>5. \A t \in MapTags : \A u \in maps'[t] : u \in maps[t] \/ (u = n /\ t = MapOf(n))
    BY <1>2
<1>6. Placed'
    BY <1>5 DEF IInv, Placed, MapOf
<1>7. Single'
    BY <1>1, <1>3, <1>5 DEF IInv, Single
<1>8. Mirrored'
    <2>1. \A u \in InMaps' : u \in InMaps \/ u = n
        BY <1>5 DEF InMaps
    <2> QED BY <1>2, <2>1 DEF IInv, Mirrored
<1>9. UsersSingle'
    BY <1>1, <1>2, <1>3 DEF IInv, UsersSingle
<1> QED BY <1>4, <1>6, <1>7, <1>8, <1>9 DEF WorldInv

\* A scene user with the id of u, a member of `users`, is in the scene that the
\* position of u names.
LEMMA FoundByUsers ==
    ASSUME IInv, NEW u \in users, NEW t \in MapTags, NEW w \in maps[t], w.id = u.id
    PROVE  t = MapOf(u) /\ w.position = u.position /\ w.velocity = u.velocity
<1>1. PICK m \in users : m.id = w.id /\ m.position = w.position /\ m.velocity = w.velocity
    BY DEF IInv, Mirrored, InMaps
<1>2. m = u
    BY <1>1 DEF IInv, UsersSingle
<1>3. MapOf(w) = t
    BY DEF IInv, Placed
<1> QED BY <1>1, <1>2, <1>3 DEF MapOf

LEMMA RemoveUserStep ==
    ASSUME IInv, NEW id \in Ids, RemoveUser(id)
    PROVE  WorldInv' /\ panicked' \in BOOLEAN
<1>1. CASE UNCHANGED <<maps, users>> /\ panicked' \in BOOLEAN
    BY <1>1 DEF IInv, TypeOK, WorldInv, Placed, Single, Mirrored, UsersSingle, InMaps
<1>2. ASSUME NEW u \in users, u.id = id, MapOf(u) \in MapTags,
             maps' = [maps EXCEPT ![MapOf(u)] = WithoutId(@, id)],
             users' = WithoutId(users, id), UNCHANGED panicked
      PROVE  WorldInv' /\ panicked' \in BOOLEAN
    <2>1. /\ maps' \in [MapTags -> SUBSET User]
          /\ \A t \in MapTags : maps'[t] \subseteq maps[t]
          /\ users' \subseteq users
        BY <1>2 DEF IInv, TypeOK, WithoutId
    <2>2. \A t \in MapTags : \A w \in maps'[t] : w.id # id
        <3> SUFFICES ASSUME NEW t \in MapTags, NEW w \in maps'[t], w.id = id PROVE FALSE
            OBVIOUS
        <3>1. w \in maps[t]
            BY <2>1
        <3>2. t = MapOf(u)
            BY <1>2, <3>1, FoundByUsers
        <3> QED BY <1>2, <3>2 DEF WithoutId, IInv, TypeOK
    <2>3. Placed' /\ Single' /\ UsersSingle'
        BY <2>1 DEF IInv, Placed, Single, UsersSingle, MapOf
    <2>4. Mirrored'
        <3> SUFFICES ASSUME NEW w \in InMaps'
                     PROVE  \E m \in users' : /\ m.id = w.id /\ m.position = w.position
                                              /\ m.velocity = w.velocity
            BY DEF Mirrored
        <3>1. w \in InMaps /\ w.id # id
            BY <2>1, <2>2 DEF InMaps
        <3>2. PICK m \in users : /\ m.id = w.id /\ m.position = w.position
                                 /\ m.velocity = w.velocity
            BY <3>1 DEF IInv, Mirrored
        <3> QED BY <1>2, <3>1, <3>2 DEF WithoutId
    <2> QED BY <1>2, <2>1, <2>3, <2>4 DEF WorldInv, IInv, TypeOK
<1> QED BY <1>1, <1>2 DEF RemoveUser, IInv, TypeOK

LEMMA SetVelocityStep ==
    ASSUME IInv, NEW id \in Ids, NEW v \in Steps, SetVelocity(id, v)
    PROVE  WorldInv'
<1>1. v \in Displacement
    BY WorldAssumption DEF Displacement
<1> DEFINE New(w) == IF w.id = id THEN [w EXCEPT !.velocity = v] ELSE w
<1>2. PICK u \in users :
          /\ u.id = id
          /\ users' = WithoutId(users, id) \cup {[u EXCEPT !.velocity = v]}
          /\ maps' = [t \in MapTags |->
                         IF t = MapOf(u) THEN {New(w) : w \in maps[t]} ELSE maps[t]]
    BY DEF SetVelocity
<1>3. \A w \in User : /\ New(w) \in User /\ New(w).id = w.id
                      /\ New(w).position = w.position
                      /\ w.id = id => New(w).velocity = v
                      /\ w.id # id => New(w) = w
    BY <1>1 DEF User
<1>4. u \in User /\ [u EXCEPT !.velocity = v] = New(u)
    BY <1>2 DEF IInv, TypeOK
<1> HIDE DEF New
<1>5. \A t \in MapTags : \A w \in maps'[t] : \E o \in maps[t] : w = New(o)
    <2> SUFFICES ASSUME NEW t \in MapTags, NEW w \in maps'[t]
                 PROVE  \E o \in maps[t] : w = New(o)
        OBVIOUS
    <2>1. CASE t = MapOf(u)
        BY <1>2, <2>1
    <2>2. CASE t # MapOf(u)
        <3>1. w \in maps[t] /\ w \in User
            BY <1>2, <2>2 DEF IInv, TypeOK
        <3>2. w.id # id
            BY <1>2, <2>2, <3>1, FoundByUsers
        <3> QED BY <1>3, <3>1, <3>2
    <2> QED BY <2>1, <2>2
<1>6. \A t \in MapTags : maps[t] \subseteq User
    BY DEF IInv, TypeOK
<1>7. maps' \in [MapTags -> SUBSET User] /\ users' \subseteq User
    BY <1>2, <1>3, <1>4, <1>6 DEF WithoutId, IInv, TypeOK
<1>8. Placed'
    BY <1>3, <1>5, <1>6 DEF IInv, Placed, MapOf
<1>9. Single'
    <2> SUFFICES ASSUME NEW s \in MapTags, NEW t \in MapTags,
                        NEW a \in maps'[s], NEW b \in maps'[t], a.id = b.id
                 PROVE  s = t /\ a = b
        BY DEF Single
    <2>1. PICK a0 \in maps[s], b0 \in maps[t] : a = New(a0) /\ b = New(b0)
        BY <1>5
    <2>2. a0.id = b0.id
        BY <1>3, <1>6, <2>1
    <2> QED BY <2>1, <2>2 DEF IInv, Single
<1>10. \A m \in users : New(m) \in users'
    BY <1>2, <1>3, <1>4 DEF WithoutId, IInv, TypeOK, UsersSingle
<1>11. Mirrored'
    <2> SUFFICES ASSUME NEW w \in InMaps'
                 PROVE  \E m \in users' : /\ m.id = w.id /\ m.position = w.position
                                          /\ m.velocity = w.velocity
        BY DEF Mirrored
    <2>0. PICK t \in MapTags : w \in maps'[t]
        BY DEF InMaps
    <2>1. PICK o \in maps[t] : w = New(o)
        BY <1>5, <2>0
    <2>2. PICK m \in users : m.id = o.id /\ m.position = o.position /\ m.velocity = o.velocity
        BY <2>1 DEF IInv, Mirrored, InMaps
    <2>3. m \in User /\ o \in User
        BY <1>6 DEF IInv, TypeOK
    <2>4. /\ New(m).id = w.id /\ New(m).position = w.position
          /\ New(m).velocity = w.velocity
        BY <1>3, <2>1, <2>2, <2>3
    <2> QED BY <1>10, <2>4
<1>12. UsersSingle'
    <2>1. New(u).id = id
        BY <1>2, <1>3, <1>4
    <2> QED BY <1>2, <1>4, <2>1 DEF IInv, UsersSingle, WithoutId
<1> QED BY <1>7, <1>8, <1>9, <1>11, <1>12 DEF WorldInv

LEMMA AoeStep ==
    ASSUME IInv, NEW id \in Ids, NEW r \in Radii, Aoe(id, r)
    PROVE  WorldInv'
<1>1. PICK u \in users :
          maps' = [t \in MapTags |->
                      {IF w.id \in AoeTargets(u, r) THEN [w EXCEPT !.money = @ + 1] ELSE w
                       : w \in maps[t]}]
    BY DEF Aoe
<1> DEFINE New(w) == IF w.id \in AoeTargets(u, r) THEN [w EXCEPT !.money = @ + 1] ELSE w
<1>2. \A w \in User : /\ New(w) \in User /\ New(w).id = w.id
                      /\ New(w).position = w.position /\ New(w).velocity = w.velocity
    BY DEF User
<1>3. maps' = [t \in MapTags |-> {New(w) : w \in maps[t]}]
    BY <1>1
<1> HIDE DEF New
<1>4. \A t \in MapTags : maps[t] \subseteq User
    BY DEF IInv, TypeOK
<1>5. \A t \in MapTags : \A w \in maps'[t] : \E o \in maps[t] : w = New(o)
    BY <1>3
<1>6. maps' \in [MapTags -> SUBSET User] /\ users' = users
    BY <1>2, <1>3, <1>4 DEF Aoe
<1>7. Placed'
    BY <1>2, <1>4, <1>5 DEF IInv, Placed, MapOf
<1>8. Single'
    <2> SUFFICES ASSUME NEW s \in MapTags, NEW t \in MapTags,
                        NEW a \in maps'[s], NEW b \in maps'[t], a.id = b.id
                 PROVE  s = t /\ a = b
        BY DEF Single
    <2>1. PICK a0 \in maps[s], b0 \in maps[t] : a = New(a0) /\ b = New(b0)
        BY <1>5
    <2>2. a0.id = b0.id
        BY <1>2, <1>4, <2>1
    <2> QED BY <2>1, <2>2 DEF IInv, Single
<1>9. Mirrored'
    <2> SUFFICES ASSUME NEW w \in InMaps'
                 PROVE  \E m \in users' : /\ m.id = w.id /\ m.position = w.position
                                          /\ m.velocity = w.velocity
        BY DEF Mirrored
    <2>1. PICK t \in MapTags : w \in maps'[t]
        BY DEF InMaps
    <2>2. PICK o \in maps[t] : w = New(o)
        BY <1>5, <2>1
    <2>3. PICK m \in users : m.id = o.id /\ m.position = o.position /\ m.velocity = o.velocity
        BY <2>2 DEF IInv, Mirrored, InMaps
    <2> QED BY <1>2, <1>4, <1>6, <2>2, <2>3
<1>10. UsersSingle'
    BY <1>6 DEF IInv, UsersSingle
<1> QED BY <1>6, <1>7, <1>8, <1>9, <1>10 DEF WorldInv, IInv, TypeOK

LEMMA UpdateStep ==
    ASSUME IInv, Update
    PROVE  WorldInv'
<1>1. \A t \in MapTags : maps[t] \subseteq User /\ maps[t] \subseteq InMaps
    BY DEF IInv, TypeOK, InMaps
<1>2. /\ maps' = [t \in MapTags |->
            {Shift(u) : u \in {w \in maps[t] : ~(ChangesMap(w) /\ MapOf(w) = t)}}
            \cup {Shift(u) : u \in {w \in InMaps : ChangesMap(w) /\ MapOf(Shift(w)) = t}}]
      /\ users' = UNION {maps'[t] : t \in MapTags}
    BY DEF Update, Shifted, Collected
\* Where a moved user is, is where its new position belongs.
<1>3. \A t \in MapTags : \A w \in maps'[t] :
          \E o \in InMaps : w = Shift(o) /\ MapOf(Shift(o)) = t
    <2> SUFFICES ASSUME NEW t \in MapTags, NEW w \in maps'[t]
                 PROVE  \E o \in InMaps : w = Shift(o) /\ MapOf(Shift(o)) = t
        OBVIOUS
    <2>1. CASE \E o \in maps[t] : w = Shift(o) /\ ~(ChangesMap(o) /\ MapOf(o) = t)
        <3>1. PICK o \in maps[t] : w = Shift(o) /\ ~(ChangesMap(o) /\ MapOf(o) = t)
            BY <2>1
        <3>2. MapOf(o) = t
            BY DEF IInv, Placed
        <3> QED BY <1>1, <3>1, <3>2 DEF ChangesMap
    <2>2. CASE \E o \in InMaps : w = Shift(o) /\ MapOf(Shift(o)) = t
        BY <2>2
    <2> QED BY <1>2, <2>1, <2>2
<1>4. InMaps \subseteq User
    BY InMapsFacts DEF IInv
<1>5. \A a, b \in InMaps : a.id = b.id => a = b
    BY DEF IInv, Single, InMaps
<1>6. maps' \in [MapTags -> SUBSET User]
    <2>1. \A t \in MapTags : maps'[t] \subseteq User
        BY <1>3, <1>4, ShiftFacts
    <2> QED BY <1>2, <2>1
<1>7. users' \subseteq User /\ users' = InMaps'
    BY <1>2, <1>6 DEF InMaps
<1>8. Placed'
    BY <1>3 DEF Placed, MapOf
<1>9. Single'
    <2> SUFFICES ASSUME NEW s \in MapTags, NEW t \in MapTags,
                        NEW a \in maps'[s], NEW b \in maps'[t], a.id = b.id
                 PROVE  s = t /\ a = b
        BY DEF Single
    <2>1. PICK a0 \in InMaps : a = Shift(a0) /\ MapOf(Shift(a0)) = s
        BY <1>3
    <2>2. PICK b0 \in InMaps : b = Shift(b0) /\ MapOf(Shift(b0)) = t
        BY <1>3
    <2>3. a0.id = b0.id
        BY <1>4, <2>1, <2>2, ShiftFacts
    <2> QED BY <1>5, <2>1, <2>2, <2>3
<1>10. Mirrored'
    BY <1>7 DEF Mirrored
<1>11. UsersSingle'
    BY <1>7, <1>9 DEF UsersSingle, Single, InMaps
<1> QED BY <1>6, <1>7, <1>8, <1>9, <1>10, <1>11 DEF WorldInv

-----------------------------------------------------------------------------
LEMMA NextIInv == IInv /\ [Next]_vars => IInv'
<1> SUFFICES ASSUME IInv, [Next]_vars PROVE IInv'
    OBVIOUS
<1>0. client_map \in [Clients -> Ids \cup {None}] /\ panicked \in BOOLEAN
    BY DEF IInv, TypeOK
<1>1. ASSUME NEW id \in Ids, NEW p \in Spawns, AddUser(id, p) PROVE IInv'
    BY <1>0, <1>1, AddStep DEF AddUser, WorldInv, IInv, TypeOK
<1>2. ASSUME NEW id \in Ids, NEW p \in Spawns, NEW c \in Clients, Login(c, id, p)
      PROVE  IInv'
    BY <1>0, <1>2, AddStep DEF Login, WorldInv, IInv, TypeOK
<1>3. ASSUME NEW c \in Clients, RemoveUserByClientId(c) PROVE IInv'
    <2>1. client_map' \in [Clients -> Ids \cup {None}]
        BY <1>0, <1>3 DEF RemoveUserByClientId
    <2>2. CASE client_map[c] = None
        <3>1. UNCHANGED <<maps, users, panicked>>
            BY <1>3, <2>2 DEF RemoveUserByClientId
        <3> QED BY <1>0, <2>1, <3>1
                DEF IInv, TypeOK, Placed, Single, Mirrored, UsersSingle, InMaps
    <2>3. CASE client_map[c] # None
        <3>1. client_map[c] \in Ids /\ RemoveUser(client_map[c])
            BY <1>0, <1>3, <2>3 DEF RemoveUserByClientId
        <3> QED BY <2>1, <3>1, RemoveUserStep DEF WorldInv, IInv, TypeOK
    <2> QED BY <2>2, <2>3
<1>4. ASSUME NEW id \in Ids, DelUser(id) PROVE IInv'
    BY <1>0, <1>4, RemoveUserStep DEF DelUser, WorldInv, IInv, TypeOK
<1>5. ASSUME NEW id \in Ids, NEW v \in Steps, SetVelocity(id, v) PROVE IInv'
    <2>1. UNCHANGED <<client_map, panicked>>
        BY <1>5 DEF SetVelocity
    <2> QED BY <1>0, <1>5, <2>1, SetVelocityStep DEF WorldInv, IInv, TypeOK
<1>6. ASSUME NEW id \in Ids, NEW r \in Radii, Aoe(id, r) PROVE IInv'
    <2>1. UNCHANGED <<client_map, panicked>>
        BY <1>6 DEF Aoe
    <2> QED BY <1>0, <1>6, <2>1, AoeStep DEF WorldInv, IInv, TypeOK
<1>7. CASE Update
    <2>1. UNCHANGED <<client_map, panicked>>
        BY <1>7 DEF Update
    <2> QED BY <1>0, <1>7, <2>1, UpdateStep DEF WorldInv, IInv, TypeOK
<1>8. CASE UNCHANGED vars
    BY <1>8 DEF vars, IInv, TypeOK, Placed, Single, Mirrored, UsersSingle, InMaps
<1> QED BY <1>1, <1>2, <1>3, <1>4, <1>5, <1>6, <1>7, <1>8 DEF Next

THEOREM Invariance == Spec => []IInv
<1> QED BY InitIInv, NextIInv, PTL DEF Spec

(* The world is well formed; in particular nobody leaves it.                *)
THEOREM TypeCorrect == Spec => []TypeOK
BY Invariance, PTL DEF IInv

(* Every user in a scene is in the scene of its position.                   *)
THEOREM ScenesArePlaced == Spec => []Placed
BY Invariance, PTL DEF IInv

(* No user is in the scenes twice.                                          *)
THEOREM ScenesAreDisjoint == Spec => []Single
BY Invariance, PTL DEF IInv

(* `users` mirrors the scenes.                                              *)
THEOREM UsersMirrorScenes == Spec => []Mirrored
BY Invariance, PTL DEF IInv

\* The users in a scope are in the maps that a query of it visits.
LEMMA QueryFinds ==
    ASSUME IInv, NEW s \in Scope
    PROVE  Query(s) = {u \in InMaps : InScope(u.position, s)}
<1>1. ASSUME NEW u \in InMaps, InScope(u.position, s) PROVE u \in Query(s)
    <2>1. PICK t \in MapTags : u \in maps[t]
        BY DEF InMaps
    <2>2. u \in User /\ MapOf(u) = t
        BY <2>1 DEF IInv, TypeOK, Placed
    <2>3. u.position \in Position
        BY <2>2 DEF User, WorldPosition, Position
    <2>4. t \in CoverTags(s)
        BY <1>1, <2>2, <2>3, CoverComplete DEF MapOf
    <2> QED BY <1>1, <2>1, <2>4 DEF Query
<1>2. ASSUME NEW u \in Query(s) PROVE u \in InMaps /\ InScope(u.position, s)
    BY DEF Query, InMaps
<1> QED BY <1>1, <1>2

LEMMA PlacedQueryExact == IInv => QueryExact
BY QueryFinds, WorldAssumption DEF QueryExact

(* For every scope, a query returns exactly the users of the world in it.   *)
THEOREM QueryIsExact == Spec => []QueryExact
BY Invariance, PlacedQueryExact, PTL

-----------------------------------------------------------------------------
(* Money.                                                                   *)

\* Everybody in the scenes after the step has the money it had, or is new.
Unpaid ==
    \A w \in InMaps' :
        \/ \E v \in InMaps : v.id = w.id /\ v.money = w.money
        \/ \A v \in InMaps : v.id # w.id

\* An id has one user in the scenes.
LEMMA OneUserOfId ==
    ASSUME IInv
    PROVE  \A v, w \in InMaps : v.id = w.id => v = w
BY DEF IInv, Single, InMaps

\* Users that are new to a scene were nowhere; those taken out do not count.
LEMMA AddUnpaid ==
    ASSUME NEW id \in Ids, NEW p \in Spawns, Fresh(id), Add(NewUser(id, p))
    PROVE  Unpaid
<1> DEFINE n == NewUser(id, p)
<1>1. n.id = id
    BY NewUserFacts
<1>2. \A t \in MapTags : maps'[t] \subseteq maps[t] \cup {n}
    BY DEF Add
<1> HIDE DEF n
<1>3. \A w \in InMaps' : w \in InMaps \/ w = n
    BY <1>2 DEF InMaps
<1>4. \A v \in InMaps : v.id # id
    BY DEF Fresh
<1> QED BY <1>1, <1>3, <1>4 DEF Unpaid

LEMMA RemoveUnpaid ==
    ASSUME IInv, NEW id \in Ids, RemoveUser(id)
    PROVE  InMaps' \subseteq InMaps
<1>1. \A t \in MapTags : maps'[t] \subseteq maps[t]
    BY DEF RemoveUser, WithoutId, IInv, TypeOK
<1> QED BY <1>1 DEF InMaps

LEMMA SetVelocityUnpaid ==
    ASSUME IInv, NEW id \in Ids, NEW v \in Steps, SetVelocity(id, v)
    PROVE  Unpaid /\ \A o \in InMaps : \E w \in InMaps' : w.id = o.id
<1> DEFINE New(w) == IF w.id = id THEN [w EXCEPT !.velocity = v] ELSE w
<1>1. PICK u \in users :
          maps' = [t \in MapTags |->
                      IF t = MapOf(u) THEN {New(w) : w \in maps[t]} ELSE maps[t]]
    BY DEF SetVelocity
<1>2. \A w \in User : New(w).id = w.id /\ New(w).money = w.money
    BY DEF User
<1> HIDE DEF New
<1>3. \A t \in MapTags : maps[t] \subseteq User
    BY DEF IInv, TypeOK
<1>4. \A t \in MapTags : \A w \in maps'[t] : \E o \in maps[t] : o.id = w.id /\ o.money = w.money
    BY <1>1, <1>2, <1>3
<1>5. \A t \in MapTags : \A o \in maps[t] : \E w \in maps'[t] : w.id = o.id
    BY <1>1, <1>2, <1>3
<1> QED BY <1>4, <1>5 DEF Unpaid, InMaps

LEMMA UpdateUnpaid ==
    ASSUME IInv, Update
    PROVE  Unpaid
<1>1. InMaps \subseteq User
    BY InMapsFacts DEF IInv
<1>2. \A t \in MapTags : \A w \in maps'[t] : \E o \in InMaps : w = Shift(o)
    BY InMapsFacts DEF Update, Shifted, IInv
<1>3. \A w \in InMaps' : \E o \in InMaps : w = Shift(o)
    BY <1>2 DEF InMaps
<1> QED BY <1>1, <1>3, ShiftFacts DEF Unpaid

\* Aoe is the only step that pays.
LEMMA OthersUnpaid ==
    ASSUME IInv, [Next]_vars
    PROVE  Unpaid \/ \E id \in Ids, r \in Radii : Aoe(id, r)
<1>1. ASSUME InMaps' \subseteq InMaps PROVE Unpaid
    BY <1>1 DEF Unpaid
<1>2. ASSUME NEW id \in Ids, NEW p \in Spawns, AddUser(id, p) PROVE Unpaid
    BY <1>2, AddUnpaid DEF AddUser
<1>3. ASSUME NEW id \in Ids, NEW p \in Spawns, NEW c \in Clients, Login(c, id, p)
      PROVE  Unpaid
    BY <1>3, AddUnpaid DEF Login
<1>4. ASSUME NEW c \in Clients, RemoveUserByClientId(c) PROVE Unpaid
    <2>1. CASE client_map[c] = None
        BY <1>1, <1>4, <2>1 DEF RemoveUserByClientId, InMaps
    <2>2. CASE client_map[c] # None
        <3>1. client_map[c] \in Ids /\ RemoveUser(client_map[c])
            BY <1>4, <2>2 DEF RemoveUserByClientId, IInv, TypeOK
        <3> QED BY <1>1, <3>1, RemoveUnpaid
    <2> QED BY <2>1, <2>2
<1>5. ASSUME NEW id \in Ids, DelUser(id) PROVE Unpaid
    BY <1>1, <1>5, RemoveUnpaid DEF DelUser
<1>6. ASSUME NEW id \in Ids, NEW v \in Steps, SetVelocity(id, v) PROVE Unpaid
    BY <1>6, SetVelocityUnpaid
<1>7. CASE Update
    BY <1>7, UpdateUnpaid
<1>8. CASE UNCHANGED vars
    BY <1>1, <1>8 DEF vars, InMaps
<1> QED BY <1>2, <1>3, <1>4, <1>5, <1>6, <1>7, <1>8 DEF Next

\* The square of a number grows with its distance from 0.
LEMMA SquareBound ==
    ASSUME NEW d \in Int, NEW r \in Nat, d * d <= r * r
    PROVE  -r <= d /\ d <= r
<1>1. ASSUME NEW e \in Nat, e > r PROVE e * e > r * r
    <2>1. e * e >= (r + 1) * e /\ (r + 1) * e >= (r + 1) * (r + 1)
        BY <1>1
    <2>2. (r + 1) * (r + 1) > r * r
        OBVIOUS
    <2> QED BY <2>1, <2>2
<1>2. CASE d >= 0
    BY <1>1, <1>2
<1>3. CASE d < 0
    <2>1. -d \in Nat /\ (-d) * (-d) = d * d
        BY <1>3
    <2> QED BY <1>1, <1>3, <2>1
<1> QED BY <1>2, <1>3

\* The circle of an aoe lies in the square that it is queried by.
LEMMA CircleInSquare ==
    ASSUME NEW p \in WorldPosition, NEW q \in WorldPosition, NEW r \in Nat, InCircle(p, q, r)
    PROVE  InScope(p, Square(q, r))
<1>1. p.x \in Int /\ p.y \in Int /\ q.x \in Int /\ q.y \in Int
    BY DEF WorldPosition
<1> DEFINE a == p.x - q.x  b == p.y - q.y
<1>2. a \in Int /\ b \in Int /\ a * a + b * b <= r * r
    BY <1>1 DEF InCircle
<1> HIDE DEF a, b
<1>3. \A e \in Int : e * e \in Nat
    OBVIOUS
<1>4. a * a \in Nat /\ b * b \in Nat /\ r * r \in Nat
    BY <1>2, <1>3
<1>5. a * a <= r * r /\ b * b <= r * r
    BY <1>2, <1>4
<1>6. -r <= a /\ a <= r /\ -r <= b /\ b <= r
    BY <1>2, <1>5, SquareBound
<1> QED BY <1>1, <1>6 DEF InScope, Square, a, b

\* Although it visits the maps around the caster only, an aoe reaches everybody
\* in its circle but the caster.
LEMMA AoeTargetsFacts ==
    ASSUME IInv, NEW u \in users, NEW r \in Radii, NEW w \in InMaps
    PROVE  w.id \in AoeTargets(u, r) <=> w.id # u.id /\ InCircle(w.position, u.position, r)
<1>1. /\ u \in User /\ u.position \in WorldPosition /\ r \in Nat
      /\ u.position.x \in Int /\ u.position.y \in Int
    BY UserFacts, WorldAssumption DEF IInv, TypeOK
<1>2. \A v \in InMaps : v \in User /\ v.position \in WorldPosition
    BY UserFacts, InMapsFacts DEF IInv
<1>3. Square(u.position, r) \in Scope
    BY <1>1 DEF Square, Scope, Position
<1>4. Query(Square(u.position, r)) = {v \in InMaps : InScope(v.position, Square(u.position, r))}
    BY <1>3, QueryFinds
<1>5. \A v \in InMaps : InCircle(v.position, u.position, r)
                            => InScope(v.position, Square(u.position, r))
    BY <1>1, <1>2, CircleInSquare
<1>6. {v \in Query(Square(u.position, r)) : InCircle(v.position, u.position, r)}
          = {v \in InMaps : InCircle(v.position, u.position, r)}
    BY <1>4, <1>5
<1>7. AoeTargets(u, r) = {v.id : v \in {k \in InMaps : InCircle(k.position, u.position, r)}} \ {u.id}
    BY <1>6 DEF AoeTargets
<1>8. \A v \in InMaps : v.id = w.id => v = w
    BY OneUserOfId
<1> QED BY <1>7, <1>8

\* What an aoe does to the money of a user in the scenes.
LEMMA AoePays ==
    ASSUME IInv, NEW id \in Ids, NEW r \in Radii, Aoe(id, r)
    PROVE  \E u \in users :
              /\ r <= MaxAoeRadius
              /\ \A w \in InMaps' : \E o \in InMaps :
                    /\ o.id = w.id
                    /\ w.money = IF o.id \in AoeTargets(u, r) THEN o.money + 1 ELSE o.money
              /\ \A o \in InMaps : \E w \in InMaps' : w.id = o.id
<1>1. PICK u \in users :
          maps' = [t \in MapTags |->
                      {IF w.id \in AoeTargets(u, r) THEN [w EXCEPT !.money = @ + 1] ELSE w
                       : w \in maps[t]}]
    BY DEF Aoe
<1> DEFINE New(w) == IF w.id \in AoeTargets(u, r) THEN [w EXCEPT !.money = @ + 1] ELSE w
<1>2. \A w \in User :
          /\ New(w).id = w.id
          /\ New(w).money = IF w.id \in AoeTargets(u, r) THEN w.money + 1 ELSE w.money
    BY DEF User
<1>3. maps' = [t \in MapTags |-> {New(w) : w \in maps[t]}]
    BY <1>1
<1> HIDE DEF New
<1>4. \A t \in MapTags : maps[t] \subseteq User
    BY DEF IInv, TypeOK
<1>5. \A t \in MapTags : \A w \in maps'[t] : \E o \in maps[t] :
          /\ o.id = w.id
          /\ w.money = IF o.id \in AoeTargets(u, r) THEN o.money + 1 ELSE o.money
    BY <1>2, <1>3, <1>4
<1>6. \A t \in MapTags : \A o \in maps[t] : \E w \in maps'[t] : w.id = o.id
    BY <1>2, <1>3, <1>4
<1>7. \A w \in InMaps' : \E o \in InMaps :
          /\ o.id = w.id
          /\ w.money = IF o.id \in AoeTargets(u, r) THEN o.money + 1 ELSE o.money
    BY <1>5 DEF InMaps
<1>8. \A o \in InMaps : \E w \in InMaps' : w.id = o.id
    BY <1>6 DEF InMaps
<1>9. r <= MaxAoeRadius
    BY DEF Aoe
<1> QED BY <1>7, <1>8, <1>9

LEMMA InMapsNextFacts == InMapsNext = InMaps'
BY DEF InMapsNext, InMaps

(* Nothing that happens to a user while it is in the world costs it money:  *)
(* no change of map brings back an older copy of it.                        *)
THEOREM MoneyIsKept == Spec => MoneyKept
<1>1. IInv /\ [Next]_vars =>
          [\A u \in InMaps, w \in InMapsNext : u.id = w.id => w.money >= u.money]_vars
    <2> SUFFICES ASSUME IInv, [Next]_vars, NEW u \in InMaps, NEW w \in InMaps', u.id = w.id
                 PROVE  w.money >= u.money
        BY InMapsNextFacts
    <2>1. u.money \in Nat
        BY UserFacts, InMapsFacts DEF IInv
    <2>2. \A v \in InMaps : v.id = w.id => v = u
        BY OneUserOfId
    <2>3. CASE Unpaid
        BY <2>1, <2>2, <2>3 DEF Unpaid
    <2>4. ASSUME NEW id \in Ids, NEW r \in Radii, Aoe(id, r)
          PROVE  w.money >= u.money
        <3>1. PICK k \in users : \A x \in InMaps' : \E o \in InMaps :
                  /\ o.id = x.id
                  /\ x.money = IF o.id \in AoeTargets(k, r) THEN o.money + 1 ELSE o.money
            BY <2>4, AoePays
        <3>2. w.money = u.money + 1 \/ w.money = u.money
            BY <2>2, <3>1
        <3> QED BY <2>1, <3>2
    <2> QED BY <2>3, <2>4, OthersUnpaid
<1> QED BY <1>1, Invariance, PTL DEF Spec, MoneyKept

LEMMA EarnedFacts ==
    ASSUME NEW id
    PROVE  Earned(id) <=> \E o \in InMaps, w \in InMaps' :
                              o.id = id /\ w.id = id /\ w.money > o.money
BY InMapsNextFacts DEF Earned, MoneyOf

(* Money is earned through aoe only, by exactly the users in the circle of  *)
(* one caster, itself excepted, whatever maps the circle extends over.      *)
THEOREM AoeIsFair == Spec => AoeFair
<1> DEFINE Fair == \E u \in users, r \in Radii :
                      /\ r <= MaxAoeRadius
                      /\ \A w \in InMaps :
                            Earned(w.id) <=> w.id # u.id /\ InCircle(w.position, u.position, r)
<1>1. ASSUME IInv, [Next]_vars, NEW id \in Ids, Earned(id)
      PROVE  Fair
    <2>1. PICK o \in InMaps, w \in InMaps' : o.id = id /\ w.id = id /\ w.money > o.money
        BY <1>1, EarnedFacts
    <2>2. \A v \in InMaps : v \in User /\ v.money \in Nat
        BY <1>1, UserFacts, InMapsFacts DEF IInv
    <2>3. \A v, x \in InMaps : v.id = x.id => v = x
        BY <1>1, OneUserOfId
    <2>4. ~Unpaid
        BY <2>1, <2>2, <2>3 DEF Unpaid
    <2>5. PICK i \in Ids, r \in Radii : Aoe(i, r)
        BY <1>1, <2>4, OthersUnpaid
    <2>6. PICK u \in users :
              /\ r <= MaxAoeRadius
              /\ \A x \in InMaps' : \E v \in InMaps :
                    /\ v.id = x.id
                    /\ x.money = IF v.id \in AoeTargets(u, r) THEN v.money + 1 ELSE v.money
              /\ \A v \in InMaps : \E x \in InMaps' : x.id = v.id
        BY <1>1, <2>5, AoePays
    <2>7. ASSUME NEW x \in InMaps
          PROVE  Earned(x.id) <=> x.id \in AoeTargets(u, r)
        <3>1. \A y \in InMaps' : y.id = x.id =>
                  y.money = IF x.id \in AoeTargets(u, r) THEN x.money + 1 ELSE x.money
            BY <2>3, <2>6
        <3>2. PICK y \in InMaps' : y.id = x.id
            BY <2>6
        <3>3. CASE x.id \in AoeTargets(u, r)
            <4>1. y.money > x.money
                BY <2>2, <3>1, <3>2, <3>3
            <4> QED BY <3>2, <3>3, <4>1, EarnedFacts
        <3>4. CASE x.id \notin AoeTargets(u, r)
            <4>1. \A v \in InMaps, z \in InMaps' :
                      v.id = x.id /\ z.id = x.id => ~(z.money > v.money)
                BY <2>2, <2>3, <3>1, <3>4
            <4> QED BY <3>4, <4>1, EarnedFacts
        <3> QED BY <3>3, <3>4
    <2>8. \A x \in InMaps :
              Earned(x.id) <=> x.id # u.id /\ InCircle(x.position, u.position, r)
        BY <1>1, <2>7, AoeTargetsFacts
    <2> QED BY <2>6, <2>8
<1>2. IInv /\ [Next]_vars => [(\E id \in Ids : Earned(id)) => Fair]_vars
    BY <1>1
<1> QED BY <1>2, Invariance, PTL DEF Spec, AoeFair

-----------------------------------------------------------------------------
(* Off the axes.  Nothing keeps users away from the axes, where half of the *)
(* points have no map.  As long as none comes there, the world never loses  *)
(* a user or panics.                                                        *)

\* R holds the positions that users start from and can move to, and no point of
\* an axis.
OffAxes(R) ==
    /\ R \subseteq WorldPosition
    /\ \A p \in R : p.x # 0 /\ p.y # 0
    /\ Spawns \subseteq R
    /\ \A p \in R, v \in Steps \cup {Zero} :
          [x |-> Clamp(p.x + v.x), y |-> Clamp(p.y + v.y)] \in R

\* Users stay in R and move as they asked to.
Inside(R) == \A u \in users : u.position \in R /\ u.velocity \in Steps \cup {Zero}

\* Both copies have the same users.
InBoth == \A u \in users : \E w \in InMaps : w.id = u.id

OInv(R) == IInv /\ Inside(R) /\ InBoth /\ LoggedInHasUser /\ NoPanic

\* What users mirror holds of the scenes.
LEMMA InMapsInside ==
    ASSUME NEW R, OffAxes(R), OInv(R)
    PROVE  /\ \A w \in InMaps : w.position \in R /\ w.velocity \in Steps \cup {Zero}
           /\ \A w \in InMaps : \E u \in users : u.id = w.id
           /\ \A u \in users : MapOf(u) \in MapTags
<1>1. /\ \A w \in InMaps : w.position \in R /\ w.velocity \in Steps \cup {Zero}
      /\ \A w \in InMaps : \E u \in users : u.id = w.id
    BY DEF OInv, IInv, Mirrored, Inside
<1>2. \A p \in R : Pos2MapTag(p) \in MapTags
    BY OffAxesHasMap DEF OffAxes
<1> QED BY <1>1, <1>2 DEF OInv, Inside, MapOf

\* Steps that change no session and lose no id.
LEMMA IdsStay ==
    ASSUME LoggedInHasUser, UNCHANGED client_map,
           \A o \in InMaps : \E w \in InMaps' : w.id = o.id
    PROVE  LoggedInHasUser'
BY DEF LoggedInHasUser

LEMMA AddInside ==
    ASSUME NEW R, OffAxes(R), OInv(R), NEW id \in Ids, NEW p \in Spawns,
           Fresh(id), Add(NewUser(id, p))
    PROVE  /\ Inside(R)' /\ InBoth'
           /\ InMaps \subseteq InMaps'
           /\ \E w \in InMaps' : w.id = id
<1> DEFINE n == NewUser(id, p)
<1>1. n.id = id /\ n.position = p /\ n.velocity = Zero
    BY DEF NewUser
<1>2. MapOf(n) \in MapTags
    BY <1>1, OffAxesHasMap DEF OffAxes, MapOf
<1>3. /\ \A t \in MapTags : maps[t] \subseteq maps'[t] /\ (t = MapOf(n) => n \in maps'[t])
      /\ users' = users \cup {n}
    BY DEF Add
<1> HIDE DEF n
<1>4. InMaps \subseteq InMaps' /\ n \in InMaps'
    BY <1>2, <1>3 DEF InMaps
<1>5. Inside(R)'
    BY <1>1, <1>3 DEF OInv, Inside, OffAxes
<1>6. InBoth'
    BY <1>3, <1>4 DEF OInv, InBoth
<1> QED BY <1>1, <1>4, <1>5, <1>6

LEMMA RemoveInside ==
    ASSUME NEW R, OffAxes(R), OInv(R), NEW id \in Ids, RemoveUser(id)
    PROVE  /\ Inside(R)' /\ InBoth' /\ UNCHANGED panicked
           /\ \A w \in InMaps : w.id # id => w \in InMaps'
<1>1. CASE UNCHANGED <<maps, users, panicked>>
    BY <1>1 DEF OInv, Inside, InBoth, InMaps
<1>2. ASSUME NEW u \in users, u.id = id, MapOf(u) \in MapTags,
             maps' = [maps EXCEPT ![MapOf(u)] = WithoutId(@, id)],
             users' = WithoutId(users, id), UNCHANGED panicked
      PROVE  /\ Inside(R)' /\ InBoth' /\ UNCHANGED panicked
             /\ \A w \in InMaps : w.id # id => w \in InMaps'
    <2>1. \A t \in MapTags : \A w \in maps[t] : w.id # id => w \in maps'[t]
        BY <1>2 DEF WithoutId, OInv, IInv, TypeOK
    <2>2. \A w \in InMaps : w.id # id => w \in InMaps'
        BY <2>1 DEF InMaps
    <2>3. \A k \in users' : k \in users /\ k.id # id
        BY <1>2 DEF WithoutId
    <2> QED BY <1>2, <2>2, <2>3 DEF OInv, Inside, InBoth
<1>3. \A u \in users : MapOf(u) \in MapTags
    BY InMapsInside
<1> QED BY <1>1, <1>2, <1>3 DEF RemoveUser

LEMMA SetVelocityInside ==
    ASSUME NEW R, OffAxes(R), OInv(R), NEW id \in Ids, NEW v \in Steps, SetVelocity(id, v)
    PROVE  Inside(R)' /\ InBoth' /\ LoggedInHasUser'
<1>1. PICK u \in users :
          u.id = id /\ users' = WithoutId(users, id) \cup {[u EXCEPT !.velocity = v]}
    BY DEF SetVelocity
<1>2. u \in User
    BY DEF OInv, IInv, TypeOK
<1> DEFINE n == [u EXCEPT !.velocity = v]
<1>3. n.id = u.id /\ n.position = u.position /\ n.velocity = v
    BY <1>2 DEF User
<1>4. \A k \in users' : k \in users \/ k = n
    BY <1>1 DEF WithoutId
<1> HIDE DEF n
<1>5. \A o \in InMaps : \E w \in InMaps' : w.id = o.id
    BY SetVelocityUnpaid DEF OInv
<1>6. Inside(R)'
    BY <1>3, <1>4 DEF OInv, Inside
<1>7. InBoth'
    BY <1>3, <1>4, <1>5 DEF OInv, InBoth
<1>8. LoggedInHasUser'
    BY <1>5, IdsStay DEF OInv, SetVelocity
<1> QED BY <1>6, <1>7, <1>8

LEMMA AoeInside ==
    ASSUME NEW R, OffAxes(R), OInv(R), NEW id \in Ids, NEW r \in Radii, Aoe(id, r)
    PROVE  Inside(R)' /\ InBoth' /\ LoggedInHasUser'
<1>1. \A o \in InMaps : \E w \in InMaps' : w.id = o.id
    BY AoePays DEF OInv
<1>2. UNCHANGED <<users, client_map>>
    BY DEF Aoe
<1> QED BY <1>1, <1>2, IdsStay DEF OInv, Inside, InBoth

LEMMA UpdateInside ==
    ASSUME NEW R, OffAxes(R), OInv(R), Update
    PROVE  Inside(R)' /\ InBoth' /\ LoggedInHasUser'
<1>1. /\ InMaps \subseteq User
      /\ \A w \in InMaps : w.position \in R /\ w.velocity \in Steps \cup {Zero}
    BY InMapsFacts, InMapsInside DEF OInv, IInv
\* Every user has a map to go to.
<1>2. \A o \in InMaps : /\ Shift(o).position \in R /\ Shift(o).velocity = o.velocity
                        /\ Shift(o).id = o.id
                        /\ MapOf(Shift(o)) \in MapTags
    <2> SUFFICES ASSUME NEW o \in InMaps
                 PROVE  /\ Shift(o).position \in R /\ Shift(o).velocity = o.velocity
                        /\ Shift(o).id = o.id
                        /\ MapOf(Shift(o)) \in MapTags
        OBVIOUS
    <2>1. o \in User /\ o.position \in R /\ o.velocity \in Steps \cup {Zero}
        BY <1>1
    <2> DEFINE q == [x |-> Clamp(o.position.x + o.velocity.x),
                     y |-> Clamp(o.position.y + o.velocity.y)]
    <2>2. q \in R
        BY <2>1 DEF OffAxes
    <2>3. Shift(o).position = q
        BY <2>1 DEF Shift, User
    <2> HIDE DEF q
    <2>4. Pos2MapTag(q) \in MapTags
        BY <2>2, OffAxesHasMap DEF OffAxes
    <2> QED BY <2>1, <2>2, <2>3, <2>4, ShiftFacts DEF MapOf
<1>3. maps' = [t \in MapTags |->
            {Shift(u) : u \in {w \in maps[t] : ~(ChangesMap(w) /\ MapOf(w) = t)}}
            \cup {Shift(u) : u \in {w \in InMaps : ChangesMap(w) /\ MapOf(Shift(w)) = t}}]
      /\ users' = UNION {maps'[t] : t \in MapTags}
    BY DEF Update, Shifted, Collected
<1>4. users' = InMaps'
    BY <1>3 DEF InMaps
<1>5. \A o \in InMaps : Shift(o) \in InMaps'
    <2> SUFFICES ASSUME NEW o \in InMaps
                 PROVE  Shift(o) \in InMaps'
        OBVIOUS
    <2>1. PICK t \in MapTags : o \in maps[t]
        BY DEF InMaps
    <2>2. CASE ~ChangesMap(o)
        <3>1. Shift(o) \in maps'[t]
            BY <1>3, <2>1, <2>2
        <3> QED BY <3>1 DEF InMaps
    <2>3. CASE ChangesMap(o)
        <3>1. MapOf(Shift(o)) \in MapTags
            BY <1>2
        <3>2. Shift(o) \in maps'[MapOf(Shift(o))]
            BY <1>3, <2>3, <3>1
        <3> QED BY <3>1, <3>2 DEF InMaps
    <2> QED BY <2>2, <2>3
<1>6. \A w \in InMaps' : \E o \in InMaps : w = Shift(o)
    <2>1. \A t \in MapTags : \A w \in maps'[t] : \E o \in InMaps : w = Shift(o)
        BY <1>3, InMapsFacts DEF OInv, IInv
    <2> QED BY <2>1 DEF InMaps
<1>7. Inside(R)'
    <2> SUFFICES ASSUME NEW w \in users'
                 PROVE  w.position \in R /\ w.velocity \in Steps \cup {Zero}
        BY DEF Inside
    <2>1. PICK o \in InMaps : w = Shift(o)
        BY <1>4, <1>6
    <2> QED BY <1>1, <1>2, <2>1
<1>8. InBoth'
    BY <1>4 DEF InBoth
<1>9. LoggedInHasUser'
    <2>1. \A o \in InMaps : \E w \in InMaps' : w.id = o.id
        BY <1>2, <1>5
    <2> QED BY <2>1, IdsStay DEF OInv, Update
<1> QED BY <1>7, <1>8, <1>9

LEMMA NextOInv ==
    ASSUME NEW R, OffAxes(R), OInv(R), [Next]_vars
    PROVE  OInv(R)'
<1>0. IInv' /\ client_map \in [Clients -> Ids \cup {None}] /\ ~panicked
    BY NextIInv DEF OInv, IInv, TypeOK, NoPanic
<1>1. ASSUME NEW id \in Ids, NEW p \in Spawns, AddUser(id, p) PROVE OInv(R)'
    <2>1. Inside(R)' /\ InBoth' /\ InMaps \subseteq InMaps'
        BY <1>1, AddInside DEF AddUser
    <2>2. LoggedInHasUser'
        BY <1>1, <2>1, IdsStay DEF OInv, AddUser
    <2> QED BY <1>0, <1>1, <2>1, <2>2 DEF OInv, NoPanic, AddUser
<1>2. ASSUME NEW id \in Ids, NEW p \in Spawns, NEW c \in Clients, Login(c, id, p)
      PROVE  OInv(R)'
    <2>1. /\ Inside(R)' /\ InBoth' /\ InMaps \subseteq InMaps'
          /\ \E w \in InMaps' : w.id = id
        BY <1>2, AddInside DEF Login
    <2>2. /\ \A d \in Clients : client_map'[d] = IF d = c THEN id ELSE client_map[d]
          /\ \A d \in Clients : client_map[d] # id
        BY <1>0, <1>2 DEF Login, Fresh
    <2>3. LoggedInHasUser'
        BY <2>1, <2>2 DEF OInv, LoggedInHasUser
    <2> QED BY <1>0, <1>2, <2>1, <2>3 DEF OInv, NoPanic, Login
<1>3. ASSUME NEW c \in Clients, RemoveUserByClientId(c) PROVE OInv(R)'
    <2>1. \A d \in Clients : client_map'[d] = IF d = c THEN None ELSE client_map[d]
        BY <1>0, <1>3 DEF RemoveUserByClientId
    <2>2. CASE client_map[c] = None
        <3>1. UNCHANGED <<maps, users, panicked>>
            BY <1>3, <2>2 DEF RemoveUserByClientId
        <3>2. InMaps' = InMaps
            BY <3>1 DEF InMaps
        <3> QED BY <1>0, <2>1, <3>1, <3>2 DEF OInv, Inside, InBoth, LoggedInHasUser, NoPanic
    <2>3. CASE client_map[c] # None
        <3>1. client_map[c] \in Ids /\ RemoveUser(client_map[c])
            BY <1>0, <1>3, <2>3 DEF RemoveUserByClientId
        <3>2. /\ Inside(R)' /\ InBoth' /\ UNCHANGED panicked
              /\ \A w \in InMaps : w.id # client_map[c] => w \in InMaps'
            BY <3>1, RemoveInside
        <3>3. LoggedInHasUser'
            BY <2>1, <2>3, <3>2 DEF OInv, LoggedInHasUser
        <3> QED BY <1>0, <3>2, <3>3 DEF OInv, NoPanic
    <2> QED BY <2>2, <2>3
<1>4. ASSUME NEW id \in Ids, DelUser(id) PROVE OInv(R)'
    <2>1. /\ Inside(R)' /\ InBoth' /\ UNCHANGED panicked
          /\ \A w \in InMaps : w.id # id => w \in InMaps'
        BY <1>4, RemoveInside DEF DelUser
    <2>2. LoggedInHasUser'
        BY <1>4, <2>1 DEF OInv, LoggedInHasUser, DelUser
    <2> QED BY <1>0, <2>1, <2>2 DEF OInv, NoPanic
<1>5. ASSUME NEW id \in Ids, NEW v \in Steps, SetVelocity(id, v) PROVE OInv(R)'
    <2>1. Inside(R)' /\ InBoth' /\ LoggedInHasUser'
        BY <1>5, SetVelocityInside
    <2>2. panicked' = panicked
        BY <1>5 DEF SetVelocity
    <2> QED BY <1>0, <2>1, <2>2 DEF OInv, NoPanic
<1>6. ASSUME NEW id \in Ids, NEW r \in Radii, Aoe(id, r) PROVE OInv(R)'
    BY <1>0, <1>6, AoeInside DEF OInv, NoPanic, Aoe
<1>7. CASE Update
    BY <1>0, <1>7, UpdateInside DEF OInv, NoPanic, Update
<1>8. CASE UNCHANGED vars
    <2>1. InMaps' = InMaps
        BY <1>8 DEF vars, InMaps
    <2> QED BY <1>0, <1>8, <2>1 DEF OInv, Inside, InBoth, LoggedInHasUser, NoPanic, vars
<1> QED BY <1>1, <1>2, <1>3, <1>4, <1>5, <1>6, <1>7, <1>8 DEF Next

LEMMA OffAxesInvariance ==
    ASSUME NEW R, OffAxes(R)
    PROVE  Spec => []OInv(R)
<1>1. Init => OInv(R)
    <2> SUFFICES ASSUME Init
                 PROVE  OInv(R)
        OBVIOUS
    <2>1. users = {} /\ ~panicked /\ \A c \in Clients : client_map[c] = None
        BY DEF Init
    <2> QED BY <2>1, InitIInv DEF OInv, Inside, InBoth, LoggedInHasUser, NoPanic
<1>2. OInv(R) /\ [Next]_vars => OInv(R)'
    BY NextOInv
<1> QED BY <1>1, <1>2, PTL DEF Spec

(* As long as no user comes to an axis, every client that is logged in has  *)
(* its own user in the scenes, through any number of changes of map.        *)
THEOREM LoggedInKeepUsers ==
    ASSUME NEW R, OffAxes(R)
    PROVE  Spec => []LoggedInHasUser
<1>1. OInv(R) => LoggedInHasUser
    BY DEF OInv
<1> QED BY <1>1, OffAxesInvariance, PTL

(* ... and no removal of a user panics.                                     *)
THEOREM RemovalFindsMap ==
    ASSUME NEW R, OffAxes(R)
    PROVE  Spec => []NoPanic
<1>1. OInv(R) => NoPanic
    BY DEF OInv
<1> QED BY <1>1, OffAxesInvariance, PTL
=============================================================================
