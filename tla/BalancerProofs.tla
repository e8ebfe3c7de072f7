--------------------------- MODULE BalancerProofs ---------------------------
(***************************************************************************)
(* Proofs about Balancer: a client asks for a server while the registry    *)
(* goes on, for any nodes, loads and bounds.                               *)
(*                                                                         *)
(* The request only reads the registry.  So the two of them implement      *)
(* Registry, and what RegistryProofs shows of Registry holds of every copy *)
(* that the request takes.                                                 *)
(***************************************************************************)
EXTENDS Balancer, RegistryProofs, FunctionTheorems, SequenceTheorems, WellFoundedInduction

\* A step of the two is one of the registry or leaves it alone.
LEMMA BalancerNextIsNext ==
    ASSUME [BalancerNext]_balancerVars
    PROVE  [Next]_vars
BY DEF BalancerNext, CopyStates, CopyList, Answer, Connect, balancerVars

(* The registry with a client that asks for a server implements the         *)
(* registry: a request never changes it.                                    *)
THEOREM RegistryGoesOn == BalancerSpec => Spec
<1>1. BalancerInit => Init
    BY DEF BalancerInit
<1>2. [BalancerNext]_balancerVars => [Next]_vars
    BY BalancerNextIsNext
<1> QED BY <1>1, <1>2, PTL DEF BalancerSpec, Spec

-----------------------------------------------------------------------------
(* The scan of the loads.  What the loop has found best after k passes is   *)
(* beaten by none of the first k states.  Induction on k takes the form of  *)
(* a least number of passes for which it is not so.                         *)
(* A set of numbers that is not empty has a least one.                      *)
LEMMA LeastNumber ==
    ASSUME NEW T, T \subseteq Nat, T # {}
    PROVE  \E x \in T : \A y \in T : x <= y
<1>1. \E x \in T : \A y \in T : ~ (<<y, x>> \in OpToRel(<, Nat))
    BY WFMin, NatLessThanWellFounded, Zenon
<1>2. PICK x \in T : \A y \in T : ~ (<<y, x>> \in OpToRel(<, Nat))
    BY <1>1
<1>3. \A y \in T : ~(y < x)
    BY <1>2, Zenon DEF OpToRel
<1> QED BY <1>3

(* Scan ends, and with what its loop says: there is a function of the       *)
(* number of passes that begins with the first key and goes on as the loop. *)
Pass(load, order, key, k) ==
    IF Better(load[order[k]], load[key]) THEN order[k] ELSE key

\* b is what the loop has found best after each number of passes.
Passes(b, S, load, first, order) ==
    /\ b \in [0..Len(order) -> S]
    /\ b[0] = first
    /\ \A k \in 1..Len(order) : b[k] = Pass(load, order, b[k - 1], k)

LEMMA ScanPasses ==
    ASSUME NEW S, NEW load, NEW first \in S, NEW order \in Seq(S)
    PROVE  \E b : Passes(b, S, load, first, order) /\ Scan(load, first, order) = b[Len(order)]
<1> DEFINE N == Len(order)
           Begun(n) == {b \in [0..n -> S] :
                           /\ b[0] = first
                           /\ \A k \in 1..n : b[k] = Pass(load, order, b[k - 1], k)}
           T == {n \in Nat : n <= N /\ Begun(n) = {}}
<1>1. N \in Nat /\ \A k \in 1..N : order[k] \in S
    OBVIOUS
<1>2. Begun(N) # {}
    <2> SUFFICES ASSUME T # {} PROVE FALSE
        BY <1>1
    <2>1. PICK n \in T : \A y \in T : n <= y
        <3> HIDE DEF T
        <3>1. T \subseteq Nat
            BY DEF T
        <3> QED BY <3>1, LeastNumber
    <2>2. CASE n = 0
        <3>1. [k \in 0..0 |-> first] \in Begun(0)
            OBVIOUS
        <3> QED BY <2>1, <2>2, <3>1
    <2>3. CASE n # 0
        <3>1. n \in Nat /\ n - 1 \in Nat /\ n \in 1..N /\ n - 1 \notin T
            <4>1. n \in Nat /\ n <= N /\ n - 1 \in Nat
                BY <2>1, <2>3
            <4>2. n - 1 \notin T
                <5> HIDE DEF T
                <5> QED BY <2>1, <4>1
            <4> QED BY <1>1, <2>3, <4>1, <4>2
        <3>2. PICK b : b \in Begun(n - 1)
            <4>1. n - 1 <= N
                BY <1>1, <3>1
            <4>2. Begun(n - 1) # {}
                <5> HIDE DEF Begun
                <5> QED BY <3>1, <4>1
            <4> QED BY <4>2
        <3> DEFINE c == [k \in 0..n |-> IF k = n THEN Pass(load, order, b[n - 1], n) ELSE b[k]]
        <3>3. b \in [0..(n - 1) -> S] /\ b[0] = first
              /\ \A k \in 1..(n - 1) : b[k] = Pass(load, order, b[k - 1], k)
            BY <3>2
        <3>4. Pass(load, order, b[n - 1], n) \in S
            BY <1>1, <3>1, <3>3 DEF Pass
        <3>5. c \in [0..n -> S]
            BY <3>1, <3>3, <3>4
        <3>6. c[0] = first
            BY <3>1, <3>3
        <3>7. \A k \in 1..n : c[k] = Pass(load, order, c[k - 1], k)
            <4> SUFFICES ASSUME NEW k \in 1..n PROVE c[k] = Pass(load, order, c[k - 1], k)
                OBVIOUS
            <4>1. c[k - 1] = b[k - 1] /\ (k # n => c[k] = b[k] /\ k \in 1..(n - 1))
                BY <3>1
            <4> HIDE DEF c
            <4>2. c[n] = Pass(load, order, b[n - 1], n)
                BY <3>1 DEF c
            <4> QED BY <3>3, <4>1, <4>2
        <3> HIDE DEF c
        <3>8. c \in Begun(n)
            BY <3>5, <3>6, <3>7
        <3> QED BY <2>1, <3>8
    <2> QED BY <2>2, <2>3
<1>3. PICK b : b \in Begun(N)
    BY <1>2
<1> DEFINE Loop(g) == [k \in 0..N |-> IF k = 0 THEN first
                         ELSE IF Better(load[order[k]], load[g[k - 1]]) THEN order[k] ELSE g[k - 1]]
           best == CHOOSE g : g = Loop(g)
<1>4. b \in [0..N -> S] /\ b[0] = first
      /\ \A k \in 1..N : b[k] = Pass(load, order, b[k - 1], k)
    BY <1>3
<1>5. b = Loop(b)
    BY <1>1, <1>4 DEF Pass
<1>6. best = Loop(best)
    <2> HIDE DEF Loop
    <2> QED BY <1>5
<1>7. best[0] = first /\ \A k \in 1..N : best[k] = Pass(load, order, best[k - 1], k)
    <2> HIDE DEF best
    <2>1. \A k \in 0..N : best[k] = IF k = 0 THEN first
                         ELSE IF Better(load[order[k]], load[best[k - 1]]) THEN order[k] ELSE best[k - 1]
        BY <1>6
    <2> QED BY <1>1, <2>1 DEF Pass
<1>8. Scan(load, first, order) = best[N]
    BY DEF Scan
<1>9. \A k \in 0..N : best[k] = b[k]
    <2> DEFINE U == {k \in 0..N : best[k] # b[k]}
    <2> HIDE DEF best
    <2> SUFFICES ASSUME U # {} PROVE FALSE
        OBVIOUS
    <2>1. PICK k \in U : \A y \in U : k <= y
        <3> HIDE DEF U
        <3>1. U \subseteq Nat
            BY <1>1 DEF U
        <3> QED BY <3>1, LeastNumber
    <2>2. k # 0
        BY <1>4, <1>7, <2>1
    <2>3. k \in 1..N /\ k - 1 \in 0..N
        BY <1>1, <2>1, <2>2
    <2>4. k - 1 \notin U
        <3> HIDE DEF U
        <3> QED BY <2>1, <2>3
    <2> QED BY <1>4, <1>7, <2>1, <2>3, <2>4
<1>10. Scan(load, first, order) = b[N]
    <2> HIDE DEF best
    <2> QED BY <1>1, <1>8, <1>9
<1> QED BY <1>4, <1>10 DEF Passes

-----------------------------------------------------------------------------
(* Better is a strict weak order.                                           *)
LoadRecord == [load_factor : Nat, max_connection : Nat, current_connection : Nat]

LEMMA BetterOrders ==
    ASSUME NEW a \in LoadRecord, NEW b \in LoadRecord, NEW c \in LoadRecord
    PROVE  /\ ~Better(a, a)
           /\ Better(a, b) => ~Better(b, a)
           /\ ~Better(a, b) /\ ~Better(b, c) => ~Better(a, c)
           /\ ~Better(a, b) => b.load_factor <= a.load_factor
BY DEF Better, LoadRecord

(* An order of the states meets every one of them.                          *)
LEMMA OrdersAreComplete ==
    ASSUME NEW S, IsFiniteSet(S), NEW order \in SetToSeqs(S)
    PROVE  /\ order \in Seq(S)
           /\ \A x \in S : \E k \in 1..Len(order) : order[k] = x
<1> DEFINE n == Cardinality(S)
           R == {order[k] : k \in 1..n}
<1>1. n \in Nat
    BY FS_CardinalityType
<1>2. order \in [1..n -> S] /\ \A i, j \in 1..n : i # j => order[i] # order[j]
    BY DEF SetToSeqs
<1>3. order \in Seq(S) /\ Len(order) = n
    BY <1>1, <1>2
<1>4. ExistsBijection(1..n, R)
    <2>1. order \in Bijection(1..n, R)
        BY <1>2 DEF Bijection, Injection, Surjection, IsInjective
    <2> QED BY <2>1 DEF ExistsBijection
<1>5. Cardinality(R) = n
    <2> HIDE DEF R, n
    <2> QED BY <1>1, <1>4, FS_CountingElements
<1>6. R \in SUBSET S
    BY <1>2
<1>7. S = R
    <2> HIDE DEF R
    <2> QED BY <1>5, <1>6, FS_Subset
<1> QED BY <1>3, <1>7

(* What get_min_load_node ends with is beaten by none of the states.        *)
LEMMA MinLoadIsLeast ==
    ASSUME NEW states, IsFiniteSet(states), NEW list, NEW load,
           \A n \in states : load[n] \in LoadRecord,
           NEW n \in MinLoadNodes(states, list, load)
    PROVE  /\ n \in states
           /\ \A m \in states : ~Better(load[m], load[n])
<1>1. PICK first \in states, order \in SetToSeqs(states) : n = Scan(load, first, order)
    BY DEF MinLoadNodes
<1>2. /\ order \in Seq(states)
      /\ \A x \in states : \E k \in 1..Len(order) : order[k] = x
    BY OrdersAreComplete
<1>3. PICK b : /\ Passes(b, states, load, first, order)
               /\ Scan(load, first, order) = b[Len(order)]
    <2>1. first \in states /\ order \in Seq(states)
        BY <1>2
    <2> QED BY <2>1, ScanPasses, Zenon
<1> DEFINE N == Len(order)
           Beaten == {k \in 0..N : \E j \in 1..k : Better(load[order[j]], load[b[k]])}
<1>4. N \in Nat /\ \A k \in 1..N : order[k] \in states
    BY <1>2
<1> HIDE DEF N
<1>5. ASSUME NEW k \in Beaten, \A y \in Beaten : k <= y
      PROVE  FALSE
    <2>1. k \in 1..N /\ k - 1 \in 0..N
        BY <1>4
    <2>2. k - 1 \notin Beaten
        <3> HIDE DEF Beaten
        <3> QED BY <1>5, <2>1
    <2>3. \A j \in 1..(k - 1) : ~Better(load[order[j]], load[b[k - 1]])
        BY <2>1, <2>2
    <2>4. PICK j \in 1..k : Better(load[order[j]], load[b[k]])
        OBVIOUS
    <2>5. b[k] = IF Better(load[order[k]], load[b[k - 1]]) THEN order[k] ELSE b[k - 1]
        BY <1>3, <2>1 DEF Passes, Pass, N
    <2>6. j \in 1..N /\ b[k - 1] \in states /\ b[k] \in states
        BY <1>3, <1>4, <2>1 DEF Passes, Pass, N
    <2>7. /\ load[order[j]] \in LoadRecord /\ load[order[k]] \in LoadRecord
          /\ load[b[k - 1]] \in LoadRecord
        BY <1>4, <2>1, <2>6
    <2>8. j = k \/ j \in 1..(k - 1)
        BY <2>1
    <2> QED BY <2>3, <2>4, <2>5, <2>7, <2>8, BetterOrders
<1>6. Beaten = {}
    <2> SUFFICES ASSUME Beaten # {} PROVE FALSE
        OBVIOUS
    <2>1. Beaten \subseteq Nat
        BY <1>4
    <2> HIDE DEF Beaten
    <2> QED BY <1>5, <2>1, LeastNumber
<1>7. n = b[N] /\ n \in states
    BY <1>1, <1>3, <1>4 DEF Passes, N
<1>8. ASSUME NEW m \in states
      PROVE  ~Better(load[m], load[n])
    <2>1. PICK k \in 1..N : order[k] = m
        BY <1>2 DEF N
    <2> QED BY <1>4, <1>6, <1>7, <2>1
<1> QED BY <1>7, <1>8

-----------------------------------------------------------------------------
(* What a request is answered.                                              *)

\* The answer if the scan ends with n and l is the list without the master.
OutcomeOf(n, l, load) ==
    IF n \in l /\ load[n].load_factor < Full THEN RespSuccess(n) ELSE RespFail

\* resp is what the scan over the slaves' states gives, or a thread panicked
\* since there was no master or the first slave of the list had no state.
NamesLeast(resp, states, list, master, load) ==
    \/ resp = Panicked /\ (master = None \/ ~(list \ {master} \subseteq states))
    \/ \E n \in MinLoadNodes(states \ {master}, list \ {master}, load) :
          resp = OutcomeOf(n, list \ {master}, load)

\* Whatever the copies hold: with several listed nodes, an answer is the least
\* loaded of them, if it is listed and has room.
LEMMA AnswersNameLeast ==
    ASSUME NEW states, NEW list, NEW master, NEW load, Cardinality(list) > 1,
           NEW resp \in Answers(states, list, master, load)
    PROVE  NamesLeast(resp, states, list, master, load)
<1> DEFINE s == states \ {master}
           l == list \ {master}
           named == {OutcomeOf(n, l, load) : n \in MinLoadNodes(s, l, load)}
<1>1. list # {} /\ Cardinality(list) # 1
    BY FS_EmptySet
<1>2. CASE master = None
    BY <1>1, <1>2 DEF Answers, NamesLeast
<1>3. CASE master # None
    <2>1. resp \in named \cup {Panicked : n \in l \ s}
        BY <1>1, <1>3 DEF Answers, Candidates, OutcomeOf
    <2>2. resp \in named \/ (resp = Panicked /\ ~(l \subseteq s))
        <3> HIDE DEF named, l, s
        <3> QED BY <2>1
    <2>3. CASE resp = Panicked /\ ~(l \subseteq s)
        <3>1. ~(list \ {master} \subseteq states)
            BY <2>3
        <3> QED BY <2>3, <3>1 DEF NamesLeast
    <2>4. CASE resp \in named
        BY <2>4 DEF NamesLeast
    <2> QED BY <2>2, <2>3, <2>4
<1> QED BY <1>2, <1>3

\* So an answer that names a node names one of the list, which is not the master.
LEMMA AnswersNameOthers ==
    ASSUME NEW states, NEW list, NEW master, NEW load, Cardinality(list) > 1,
           NEW resp \in Answers(states, list, master, load)
    PROVE  \/ resp \in {RespFail, Panicked}
           \/ \E n \in list \ {master} : resp = RespSuccess(n)
<1> DEFINE chosen == MinLoadNodes(states \ {master}, list \ {master}, load)
<1>1. \/ resp = Panicked
      \/ \E n \in chosen : resp = OutcomeOf(n, list \ {master}, load)
    <2>1. NamesLeast(resp, states, list, master, load)
        BY AnswersNameLeast
    <2> QED BY <2>1 DEF NamesLeast
<1> HIDE DEF chosen
<1> QED BY <1>1 DEF OutcomeOf

\* Any answer at all names a node of the list or none.
LEMMA AnswersNameListed ==
    ASSUME NEW states, NEW list, NEW master, NEW load,
           NEW resp \in Answers(states, list, master, load)
    PROVE  \/ resp \in {RespFail, Panicked}
           \/ \E n \in list : resp = RespSuccess(n)
<1>1. CASE list = {}
    BY <1>1 DEF Answers
<1>2. CASE list # {} /\ Cardinality(list) = 1
    BY <1>2 DEF Answers
<1>3. CASE list # {} /\ Cardinality(list) # 1 /\ Cardinality(list) > 1
    BY <1>3, AnswersNameOthers
<1>4. CASE list # {} /\ Cardinality(list) # 1 /\ ~(Cardinality(list) > 1)
    <2> DEFINE s == Candidates(states, master)
               l == Candidates(list, master)
               chosen == MinLoadNodes(s, l, load)
    <2>1. resp \in {IF n \in l /\ load[n].load_factor < Full THEN RespSuccess(n) ELSE RespFail
                        : n \in chosen}
                    \cup {Panicked : n \in l \ s}
        BY <1>4 DEF Answers
    <2> HIDE DEF chosen
    <2> QED BY <2>1 DEF Candidates
<1> QED BY <1>1, <1>2, <1>3, <1>4

\* What the client makes of the answer.
LEMMA ServerOfFacts ==
    /\ ServerOf(RespFail) = "panicked"
    /\ ServerOf(Panicked) = "panicked"
    /\ \A n : ServerOf(RespSuccess(n)) = n
BY DEF ServerOf, RespFail, Panicked, RespSuccess

LEMMA AnswerFacts ==
    ASSUME Answer
    PROVE  \E load : \E resp \in Answers(seen_states, seen_list, master_node, load) :
               client' = ServerOf(resp)
<1>1. \E resp \in UNION {Answers(seen_states, seen_list, master_node, load)
                           : load \in [seen_states -> Loads]} : client' = ServerOf(resp)
    BY DEF Answer
<1> QED BY <1>1

-----------------------------------------------------------------------------
(* Types.                                                                   *)

Known == \A n \in Nodes : Listed(n) \/ HasState(n) => inc[n] > 0

\* A process that was started stays one.
LEMMA StartedStay ==
    ASSUME TypeOK, [Next]_vars
    PROVE  \A n \in Nodes : inc[n] > 0 => inc'[n] > 0
<1>1. \/ inc' = inc
      \/ \E n \in Nodes : inc' = [inc EXCEPT ![n] = @ + 1]
    BY DEF Next, HandleRequest, RegisterCheckListed, Report, ConvertToMasterResp,
           RegisterStep, RegisterMasterCheck, RegisterMasterSet, RegisterSlaveCheck,
           RegisterInsert, MonitorRound, HandleCommand, ReceiveRegisterOk,
           ReceiveRegisterFail, ReceiveConvertToMaster, ReceiveChangeMaster,
           Start, SendReport, Crash, nodeVars, vars
<1> QED BY <1>1 DEF TypeOK

LEMMA BalancerTypeNext ==
    ASSUME TypeOK, Known, BalancerTypeOK, [BalancerNext]_balancerVars
    PROVE  BalancerTypeOK'
<1>1. \A n \in Nodes : inc[n] > 0 => inc'[n] > 0
    BY BalancerNextIsNext, StartedStay
<1>2. CASE UNCHANGED <<requestVars, client>>
    BY <1>1, <1>2 DEF BalancerTypeOK, requestVars
<1>3. CASE CopyStates
    BY <1>1, <1>3 DEF CopyStates, StateKeys, Known, BalancerTypeOK, vars, nodeVars
<1>4. CASE CopyList
    BY <1>1, <1>4 DEF CopyList, ListedNodes, Known, BalancerTypeOK, vars, nodeVars
<1>5. CASE Answer
    <2>1. client' \in Nodes \cup {"waiting", "panicked"}
        <3>1. PICK load : \E resp \in Answers(seen_states, seen_list, master_node, load) :
                  client' = ServerOf(resp)
            BY <1>5, AnswerFacts
        <3>2. PICK resp \in Answers(seen_states, seen_list, master_node, load) :
                  client' = ServerOf(resp)
            BY <3>1
        <3>3. \/ resp \in {RespFail, Panicked}
              \/ \E n \in seen_list : resp = RespSuccess(n)
            BY AnswersNameListed
        <3> QED BY <3>2, <3>3, ServerOfFacts DEF BalancerTypeOK
    <2> QED BY <1>5, <2>1 DEF Answer, BalancerTypeOK
<1>6. CASE Connect
    BY <1>1, <1>6 DEF Connect, BalancerTypeOK
<1> QED BY <1>2, <1>3, <1>4, <1>5, <1>6 DEF BalancerNext, balancerVars

(* However the registry changes while a request is answered, its copies     *)
(* hold nodes whose processes were started, and the client ends up at one   *)
(* of them or without a server.                                             *)
THEOREM CopiesAreOfStarted == BalancerSpec => []BalancerTypeOK
<1>1. BalancerInit => BalancerTypeOK
    BY DEF BalancerInit, BalancerTypeOK
<1>2. TypeOK /\ Known /\ BalancerTypeOK /\ [BalancerNext]_balancerVars => BalancerTypeOK'
    BY BalancerTypeNext
<1>3. Spec => []TypeOK
    BY TypeCorrect
<1>4. Spec => []Known
    BY RegisteredWereStarted DEF Known
<1> QED BY <1>1, <1>2, <1>3, <1>4, RegistryGoesOn, PTL DEF BalancerSpec

-----------------------------------------------------------------------------
(* A client is not sent to the master.                                      *)

(* A client that had a choice is not sent to the process that acts as the   *)
(* master when the answer is given, although list and states were copied    *)
(* before, and although an elected node converts before the registry knows. *)
THEOREM SlaveIsGiven ==
    ASSUME OneConfiguredMaster, KeepsUp
    PROVE  BalancerSpec => SlaveGiven
<1>1. FInv /\ [BalancerNext]_balancerVars =>
          [stage = "master" /\ stage' = "answered" /\ Cardinality(seen_list) > 1
              => client' \notin ActingMasters]_balancerVars
    <2> SUFFICES ASSUME FInv, [BalancerNext]_balancerVars,
                        stage = "master", stage' = "answered", Cardinality(seen_list) > 1
                 PROVE  client' \notin ActingMasters
        OBVIOUS
    <2>1. Answer
        BY DEF BalancerNext, CopyStates, CopyList, Connect, requestVars, balancerVars
    <2>2. PICK load : \E resp \in Answers(seen_states, seen_list, master_node, load) :
              client' = ServerOf(resp)
        BY <2>1, AnswerFacts
    <2>3. PICK resp \in Answers(seen_states, seen_list, master_node, load) :
              client' = ServerOf(resp)
        BY <2>2
    <2>4. "panicked" \notin ActingMasters
        BY ClientAssumption DEF ActingMasters
    <2>5. CASE master_node = None
        <3>1. resp \in {RespFail, Panicked}
            BY <2>5, FS_EmptySet DEF Answers
        <3> QED BY <2>3, <2>4, <3>1, ServerOfFacts
    <2>6. CASE master_node # None
        <3>1. \/ resp \in {RespFail, Panicked}
              \/ \E n \in seen_list \ {master_node} : resp = RespSuccess(n)
            BY AnswersNameOthers
        <3> QED BY <2>3, <2>4, <2>6, <3>1, ServerOfFacts, MasterActsAlone
    <2> QED BY <2>5, <2>6
<1> QED BY <1>1, FailoverInvariance, RegistryGoesOn, PTL DEF BalancerSpec, SlaveGiven

-----------------------------------------------------------------------------
(* Only finitely many nodes are known at a time, however many there are.    *)
KnownNodes == {n \in Nodes : peer_map[n] # None}

FiniteKnown == IsFiniteSet(KnownNodes)

LEMMA FinitelyManyKnown == Spec => []FiniteKnown
<1>1. Init => FiniteKnown
    <2>1. Init => KnownNodes = {}
        BY DEF Init, KnownNodes
    <2> QED BY <2>1, FS_EmptySet DEF FiniteKnown
<1>2. FiniteKnown /\ [Next]_vars => FiniteKnown'
    <2> SUFFICES ASSUME FiniteKnown, [Next]_vars
                 PROVE  FiniteKnown'
        OBVIOUS
    <2>1. peer_map' = peer_map \/ \E t \in regTasks : RecordPeer(t)
        BY DEF Next, HandleRequest, RegisterCheckListed, Report, ConvertToMasterResp,
           RegisterStep, RegisterMasterCheck, RegisterMasterSet, RegisterSlaveCheck,
           RegisterInsert, MonitorRound, HandleCommand, ReceiveRegisterOk,
           ReceiveRegisterFail, ReceiveConvertToMaster, ReceiveChangeMaster,
           Start, SendReport, Crash, registryVars, vars
    <2>2. CASE peer_map' = peer_map
        BY <2>2 DEF KnownNodes, FiniteKnown
    <2>3. CASE \E t \in regTasks : RecordPeer(t)
        <3>1. PICK t \in regTasks : RecordPeer(t)
            BY <2>3
        <3>2. KnownNodes' \in SUBSET (KnownNodes \cup {t.node})
            BY <3>1 DEF RecordPeer, KnownNodes
        <3>3. IsFiniteSet(KnownNodes \cup {t.node})
            BY FS_AddElement DEF FiniteKnown
        <3> QED BY <3>2, <3>3, FS_Subset DEF FiniteKnown
    <2> QED BY <2>1, <2>2, <2>3
<1> QED BY <1>1, <1>2, PTL DEF Spec

(* A request that nothing interrupts, to a registry with a master: it does  *)
(* not panic, it names a listed slave with room that no other slave is      *)
(* better than, and it is refused only if all of them are full.             *)
THEOREM UninterruptedIsServed ==
    ASSUME OneConfiguredMaster
    PROVE  BalancerSpec => []UninterruptedServed
<1>1. FInv /\ FiniteKnown => UninterruptedServed
    <2> DEFINE slaves == StateKeys \ {master_node}
    <2> SUFFICES ASSUME FInv, FiniteKnown, master_node # None, Cardinality(ListedNodes) > 1,
                        NEW load \in [StateKeys -> Loads],
                        NEW resp \in Answers(StateKeys, ListedNodes, master_node, load)
                 PROVE  \/ /\ resp = RespFail
                           /\ \A n \in slaves : load[n].load_factor >= Full
                        \/ /\ resp.data \in slaves /\ Listed(resp.data)
                           /\ load[resp.data].load_factor < Full
                           /\ \A n \in slaves : ~Better(load[n], load[resp.data])
        BY DEF UninterruptedServed
    <2>1. /\ ListedNodes \ {master_node} \subseteq StateKeys
          /\ slaves \subseteq ListedNodes \ {master_node}
        BY DEF FInv, IInv, StateListed, ListedHasState, ListedNodes, StateKeys
    <2>2. IsFiniteSet(slaves)
        <3>1. slaves \in SUBSET KnownNodes
            BY DEF FInv, IInv, PeerKnown, StateListed, StateKeys, KnownNodes
        <3> QED BY <3>1, FS_Subset DEF FiniteKnown
    <2>3. \A n \in slaves : load[n] \in LoadRecord
        BY LoadsAssumption DEF LoadRecord
    <2> HIDE DEF slaves
    <2>4. PICK n \in MinLoadNodes(slaves, ListedNodes \ {master_node}, load) :
              resp = OutcomeOf(n, ListedNodes \ {master_node}, load)
        <3>1. NamesLeast(resp, StateKeys, ListedNodes, master_node, load)
            BY AnswersNameLeast
        <3>2. ListedNodes \ {master_node} \subseteq StateKeys
            BY <2>1
        <3> QED BY <3>1, <3>2, Zenon DEF NamesLeast, slaves
    <2>5. n \in slaves /\ \A m \in slaves : ~Better(load[m], load[n])
        BY <2>2, <2>3, MinLoadIsLeast
    <2>6. Listed(n) /\ n \in ListedNodes \ {master_node}
        BY <2>1, <2>5 DEF ListedNodes
    <2>7. CASE load[n].load_factor < Full
        <3>1. resp.data = n
            BY <2>4, <2>6, <2>7 DEF OutcomeOf, RespSuccess
        <3> QED BY <2>5, <2>6, <2>7, <3>1
    <2>8. CASE ~(load[n].load_factor < Full)
        <3>1. resp = RespFail
            BY <2>4, <2>8 DEF OutcomeOf
        <3>2. ASSUME NEW m \in slaves
              PROVE  load[m].load_factor >= Full
            <4>1. load[n].load_factor <= load[m].load_factor
                BY <2>3, <2>5, BetterOrders
            <4>2. load[n] \in LoadRecord /\ load[m] \in LoadRecord
                BY <2>3, <2>5
            <4> QED BY <2>8, <4>1, <4>2 DEF LoadRecord, Full
        <3> QED BY <3>1, <3>2
    <2> QED BY <2>7, <2>8
<1> QED BY <1>1, FailoverInvariance, FinitelyManyKnown, RegistryGoesOn, PTL
=============================================================================
