------------------------- MODULE ServerLocksProofs -------------------------
(* Proofs about ServerLocks: for any number of tasks and any capacity of   *)
(* the channels, no lock has two owners and no threads wait for each other *)
(* in a circle.  The argument is a lock order: last_time before ctx before *)
(* world, and a thread that waits to send blocks nobody who relays.        *)
EXTENDS ServerLocks, SequenceTheorems, TLAPS

NodeTypes == {"Master", "Slave"}

\* The order in which every script takes the locks.
Rank == [last_time |-> 1, ctx |-> 2, world |-> 3]

\* The round of heartbeat_monitor once it has last_time.
RoundUnderTime ==
    Branch(<<Lock("world"), Unlock("world"), Unlock("ctx"), Lock("world")>>,
           <<Lock("world"), Send("to_master"), Unlock("world"), Unlock("ctx"), Lock("world")>>)

\* What can be left of a script while its thread holds nothing, last_time, ctx, ...
UnderNone == {<<>>, Update, Round, QuietRound, Ping, Relay} \cup TaskScripts
UnderTime == {<<>>, <<Lock("world")>>, RoundUnderTime}
UnderContext ==
    {<<>>, <<Send("to_client")>>, <<Send("to_master")>>, <<Send("to_registry")>>,
     <<Become, Send("to_registry")>>,
     <<Lock("world"), Send("to_client")>>, <<Lock("world"), Send("to_master")>>,
     <<Lock("world"), Unlock("world")>>,
     <<Lock("world"), Unlock("world"), Send("to_client")>>,
     <<Lock("world"), Unlock("world"), Lock("world"), Unlock("world")>>}
UnderContextWorld ==
    {<<>>, <<Send("to_client")>>, <<Send("to_master")>>, <<Unlock("world")>>,
     <<Unlock("world"), Send("to_client")>>,
     <<Unlock("world"), Lock("world"), Unlock("world")>>}
UnderTimeContext ==
    {<<Lock("world"), Unlock("world"), Unlock("ctx"), Lock("world")>>,
     <<Lock("world"), Send("to_master"), Unlock("world"), Unlock("ctx"), Lock("world")>>,
     <<Unlock("ctx"), Lock("world")>>}
UnderAll ==
    {<<Unlock("world"), Unlock("ctx"), Lock("world")>>,
     <<Send("to_master"), Unlock("world"), Unlock("ctx"), Lock("world")>>}

\* s can be left when the locks in h are held.
Left(h, s) ==
    \/ h = {} /\ s \in UnderNone
    \/ h = {"last_time"} /\ s \in UnderTime
    \/ h = {"ctx"} /\ s \in UnderContext
    \/ h = {"ctx", "world"} /\ s \in UnderContextWorld
    \/ h = {"last_time", "ctx"} /\ s \in UnderTimeContext
    \/ h = {"last_time", "ctx", "world"} /\ s \in UnderAll
    \/ h \in {{"world"}, {"last_time", "world"}} /\ s = <<>>

\* The inductive invariant: the types, every thread within its scripts, and the
\* relaying thread never holding a lock.
RestOfThreads  == rest = [t \in Threads |-> rest[t]]
Discipline     == \A t \in Threads : Left(held[t], rest[t])
RelayHoldsNone == rest["forward"] \in {<<>>, Relay} /\ held["forward"] = {}

IInv == TypeOK /\ RestOfThreads /\ Discipline /\ RelayHoldsNone

-----------------------------------------------------------------------------
(* Sequences of up to five steps.                                           *)

\* The first step of a script and the rest of it.
LEMMA HeadsTails ==
  /\ \A a : Head(<<a>>) = a /\ Tail(<<a>>) = <<>>
  /\ \A a, b : Head(<<a, b>>) = a /\ Tail(<<a, b>>) = <<b>>
  /\ \A a, b, c : Head(<<a, b, c>>) = a /\ Tail(<<a, b, c>>) = <<b, c>>
  /\ \A a, b, c, d : Head(<<a, b, c, d>>) = a /\ Tail(<<a, b, c, d>>) = <<b, c, d>>
  /\ \A a, b, c, d, e : Head(<<a, b, c, d, e>>) = a /\ Tail(<<a, b, c, d, e>>) = <<b, c, d, e>>
  OBVIOUS

\* The steps say what they do, and a branch is the last step of its script.
LEMMA Steps ==
  /\ \A l : Lock(l).do = "lock"     /\ Lock(l).on = l
  /\ \A l : Unlock(l).do = "unlock" /\ Unlock(l).on = l
  /\ \A c : Send(c).do = "send"     /\ Send(c).on = c
  /\ Become.do = "become"
  /\ \A m, s : /\ Head(Branch(m, s)).do = "branch"
               /\ Head(Branch(m, s)).on = "ctx"
               /\ Head(Branch(m, s)).then["Master"] = m
               /\ Head(Branch(m, s)).then["Slave"] = s
               /\ Tail(Branch(m, s)) = <<>>
  BY DEF Lock, Unlock, Send, Become, Branch

\* A sequence that has the elements of s and then those of t is s \o t.
LEMMA SameElements ==
  ASSUME NEW S, NEW s \in Seq(S), NEW t \in Seq(S), NEW u \in Seq(S), Len(u) = Len(s) + Len(t),
         \A i \in 1..Len(s) : u[i] = s[i],
         \A i \in 1..Len(t) : u[Len(s) + i] = t[i]
  PROVE  s \o t = u
<1>1. /\ s \o t \in Seq(S) /\ Len(s \o t) = Len(s) + Len(t)
      /\ \A i \in 1..(Len(s) + Len(t)) : (s \o t)[i] = IF i <= Len(s) THEN s[i] ELSE t[i - Len(s)]
  BY ConcatProperties
<1>2. ASSUME NEW i \in 1..Len(u)
      PROVE  (s \o t)[i] = u[i]
  <2>1. CASE i <= Len(s)
    BY <2>1, <1>1
  <2>2. CASE i > Len(s)
    <3>1. i - Len(s) \in 1..Len(t) /\ Len(s) + (i - Len(s)) = i
      BY <2>2
    <3> QED  BY <1>1, <2>2, <3>1
  <2> QED  BY <2>1, <2>2
<1> QED  BY <1>1, <1>2, SeqEqual

\* The concatenations that the scripts are made of.
LEMMA Join11 ==
  ASSUME NEW a, NEW b
  PROVE  <<a>> \o <<b>> = <<a, b>>
<1> DEFINE S == {a, b}
           s == <<a>>
           t == <<b>>
           u == <<a, b>>
<1>1. s \in Seq(S) /\ t \in Seq(S) /\ u \in Seq(S)
  OBVIOUS
<1>2. Len(u) = Len(s) + Len(t) /\ Len(s) = 1 /\ Len(t) = 1
  OBVIOUS
<1>3. \A i \in 1..Len(s) : u[i] = s[i]
  OBVIOUS
<1>4. \A i \in 1..Len(t) : u[Len(s) + i] = t[i]
  OBVIOUS
<1> HIDE DEF S, s, t, u
<1>5. s \o t = u
  BY <1>1, <1>2, <1>3, <1>4, SameElements
<1> QED  BY <1>5 DEF s, t, u

\* ... two steps and one,
LEMMA Join21 ==
  ASSUME NEW a, NEW b, NEW c
  PROVE  <<a, b>> \o <<c>> = <<a, b, c>>
<1> DEFINE S == {a, b, c}
           s == <<a, b>>
           t == <<c>>
           u == <<a, b, c>>
<1>1. s \in Seq(S) /\ t \in Seq(S) /\ u \in Seq(S)
  OBVIOUS
<1>2. Len(u) = Len(s) + Len(t) /\ Len(s) = 2 /\ Len(t) = 1
  OBVIOUS
<1>3. \A i \in 1..Len(s) : u[i] = s[i]
  OBVIOUS
<1>4. \A i \in 1..Len(t) : u[Len(s) + i] = t[i]
  OBVIOUS
<1> HIDE DEF S, s, t, u
<1>5. s \o t = u
  BY <1>1, <1>2, <1>3, <1>4, SameElements
<1> QED  BY <1>5 DEF s, t, u

\* ... two and two,
LEMMA Join22 ==
  ASSUME NEW a, NEW b, NEW c, NEW d
  PROVE  <<a, b>> \o <<c, d>> = <<a, b, c, d>>
<1> DEFINE S == {a, b, c, d}
           s == <<a, b>>
           t == <<c, d>>
           u == <<a, b, c, d>>
<1>1. s \in Seq(S) /\ t \in Seq(S) /\ u \in Seq(S)
  OBVIOUS
<1>2. Len(u) = Len(s) + Len(t) /\ Len(s) = 2 /\ Len(t) = 2
  OBVIOUS
<1>3. \A i \in 1..Len(s) : u[i] = s[i]
  OBVIOUS
<1>4. \A i \in 1..Len(t) : u[Len(s) + i] = t[i]
  OBVIOUS
<1> HIDE DEF S, s, t, u
<1>5. s \o t = u
  BY <1>1, <1>2, <1>3, <1>4, SameElements
<1> QED  BY <1>5 DEF s, t, u

\* ... three and two.
LEMMA Join32 ==
  ASSUME NEW a, NEW b, NEW c, NEW d, NEW e
  PROVE  <<a, b, c>> \o <<d, e>> = <<a, b, c, d, e>>
<1> DEFINE S == {a, b, c, d, e}
           s == <<a, b, c>>
           t == <<d, e>>
           u == <<a, b, c, d, e>>
<1>1. s \in Seq(S) /\ t \in Seq(S) /\ u \in Seq(S)
  OBVIOUS
<1>2. Len(u) = Len(s) + Len(t) /\ Len(s) = 3 /\ Len(t) = 2
  OBVIOUS
<1>3. \A i \in 1..Len(s) : u[i] = s[i]
  OBVIOUS
<1>4. \A i \in 1..Len(t) : u[Len(s) + i] = t[i]
  OBVIOUS
<1> HIDE DEF S, s, t, u
<1>5. s \o t = u
  BY <1>1, <1>2, <1>3, <1>4, SameElements
<1> QED  BY <1>5 DEF s, t, u

-----------------------------------------------------------------------------
(* The discipline of the scripts.                                           *)

\* The scripts with their concatenations done.
LEMMA Scripts ==
  /\ AddUser = LET s == <<Lock("world"), Unlock("world"), Send("to_client")>> IN Branch(s, s)
  /\ Update = Branch(<<Lock("world"), Unlock("world"), Lock("world"), Unlock("world")>>,
                     <<Lock("world"), Unlock("world")>>)
  /\ Head(Round) = Lock("last_time") /\ Tail(Round) = RoundUnderTime
<1>1. ReadWorld \o <<Send("to_client")>> = <<Lock("world"), Unlock("world"), Send("to_client")>>
  BY Join21 DEF ReadWorld
<1>2. ReadWorld \o ReadWorld = <<Lock("world"), Unlock("world"), Lock("world"), Unlock("world")>>
  BY Join22 DEF ReadWorld
<1>3. ReadWorld \o <<Unlock("ctx"), Lock("world")>>
        = <<Lock("world"), Unlock("world"), Unlock("ctx"), Lock("world")>>
  BY Join22 DEF ReadWorld
<1>4. <<Lock("world"), Send("to_master"), Unlock("world")>> \o <<Unlock("ctx"), Lock("world")>>
        = <<Lock("world"), Send("to_master"), Unlock("world"), Unlock("ctx"), Lock("world")>>
  BY Join32
<1>5. Round = <<Lock("last_time")>> \o RoundUnderTime
  BY <1>3, <1>4 DEF Round, RoundUnderTime
<1>6. ASSUME NEW a, NEW m, NEW s
      PROVE  Head(<<a>> \o Branch(m, s)) = a /\ Tail(<<a>> \o Branch(m, s)) = Branch(m, s)
  <2> DEFINE b == [do |-> "branch", on |-> "ctx", then |-> [Master |-> m, Slave |-> s]]
  <2>1. Branch(m, s) = <<b>>
    BY DEF Branch
  <2> HIDE DEF b
  <2>2. <<a>> \o <<b>> = <<a, b>>
    BY Join11
  <2>3. Head(<<a, b>>) = a /\ Tail(<<a, b>>) = <<b>>
    BY HeadsTails
  <2> QED  BY <2>1, <2>2, <2>3
<1> QED  BY <1>1, <1>2, <1>5, <1>6 DEF RoundUnderTime, AddUser, LockContext, Update, ReadWorld

\* What the next step of s does with the locks in h, and what is left then.
Obeys(h, s) ==
    /\ Head(s).do \in {"lock", "branch", "unlock", "send", "become"}
    /\ Head(s).do \in {"lock", "branch"} =>
           /\ Head(s).on \in Locks
           /\ \A l \in h : Rank[l] < Rank[Head(s).on]
    /\ Head(s).do = "lock"   => Left(h \cup {Head(s).on}, Tail(s))
    /\ Head(s).do = "branch" =>
           /\ Head(s).on = "ctx"
           /\ \A n \in NodeTypes : Left(h \cup {"ctx"}, Head(s).then[n] \o Tail(s))
    /\ Head(s).do = "unlock" => Left(h \ {Head(s).on}, Tail(s))
    /\ Head(s).do = "send"   => Head(s).on \in Channels /\ Left(h, Tail(s))
    /\ Head(s).do = "become" => Left(h, Tail(s))

\* A script obeys if what its first step leaves can be left: with a lock,
LEMMA LockObeys ==
  ASSUME NEW h, NEW s, NEW l \in Locks, Head(s) = Lock(l),
         \A m \in h : Rank[m] < Rank[l], Left(h \cup {l}, Tail(s))
  PROVE  Obeys(h, s)
<1>1. Head(s).do = "lock" /\ Head(s).on = l
  BY Steps
<1>2. Left(h \cup {Head(s).on}, Tail(s))
  BY <1>1, Zenon
<1> QED  BY <1>1, <1>2 DEF Obeys

\* ... with an unlock,
LEMMA UnlockObeys ==
  ASSUME NEW h, NEW s, NEW l, Head(s) = Unlock(l), Left(h \ {l}, Tail(s))
  PROVE  Obeys(h, s)
<1>1. Head(s).do = "unlock" /\ Head(s).on = l
  BY Steps
<1>2. Left(h \ {Head(s).on}, Tail(s))
  BY <1>1, Zenon
<1> QED  BY <1>1, <1>2 DEF Obeys

\* ... with a send,
LEMMA SendObeys ==
  ASSUME NEW h, NEW s, NEW c \in Channels, Head(s) = Send(c), Left(h, Tail(s))
  PROVE  Obeys(h, s)
  BY Steps DEF Obeys

\* ... with the change of node_type,
LEMMA BecomeObeys ==
  ASSUME NEW h, NEW s, Head(s) = Become, Left(h, Tail(s))
  PROVE  Obeys(h, s)
  BY Steps DEF Obeys

\* ... and with a branch, both ways of which can be left under ctx.
LEMMA BranchObeys ==
  ASSUME NEW h, NEW S, NEW m \in Seq(S), NEW s \in Seq(S),
         \A l \in h : Rank[l] < Rank["ctx"],
         Left(h \cup {"ctx"}, m), Left(h \cup {"ctx"}, s)
  PROVE  Obeys(h, Branch(m, s))
<1> DEFINE b == Branch(m, s)
<1>1. m \o <<>> = m /\ s \o <<>> = s
  BY ConcatEmptySeq
<1>2. /\ Head(b).do = "branch" /\ Head(b).on = "ctx" /\ Tail(b) = <<>>
      /\ Head(b).then["Master"] = m /\ Head(b).then["Slave"] = s
  BY Steps
<1> HIDE DEF b
<1>3. Left(h \cup {"ctx"}, Head(b).then["Master"] \o Tail(b))
  BY <1>1, <1>2, Zenon
<1>4. Left(h \cup {"ctx"}, Head(b).then["Slave"] \o Tail(b))
  BY <1>1, <1>2, Zenon
<1>5. \A n \in NodeTypes : Left(h \cup {"ctx"}, Head(b).then[n] \o Tail(b))
  BY <1>3, <1>4, Zenon DEF NodeTypes
<1>6. "ctx" \in Locks
  BY DEF Locks
<1>7. Obeys(h, b)
  BY <1>2, <1>5, <1>6 DEF Obeys
<1> QED  BY <1>7 DEF b

\* The scripts keep to the order of the locks: while ctx and world are held,
LEMMA ContextWorldObeys ==
  ASSUME NEW s \in UnderContextWorld, s # <<>>
  PROVE  Obeys({"ctx", "world"}, s)
<1> DEFINE s1 == <<Send("to_client")>>
           s2 == <<Send("to_master")>>
           s3 == <<Unlock("world")>>
           s4 == <<Unlock("world"), Send("to_client")>>
           s5 == <<Unlock("world"), Lock("world"), Unlock("world")>>
           h == {"ctx", "world"}
<1> SUFFICES Obeys(h, s)
  OBVIOUS
<1>1. /\ Head(s1) = Send("to_client") /\ Tail(s1) = <<>>
      /\ Head(s2) = Send("to_master") /\ Tail(s2) = <<>>
      /\ Head(s3) = Unlock("world") /\ Tail(s3) = <<>>
      /\ Head(s4) = Unlock("world") /\ Tail(s4) = <<Send("to_client")>>
      /\ Head(s5) = Unlock("world") /\ Tail(s5) = <<Lock("world"), Unlock("world")>>
  BY HeadsTails
<1>2. s \in {<<>>, s1, s2, s3, s4, s5}
  BY DEF UnderContextWorld
<1> HIDE DEF s1, s2, s3, s4, s5
<1>3. \/ Head(s) = Send("to_client") /\ Tail(s) = <<>>
      \/ Head(s) = Send("to_master") /\ Tail(s) = <<>>
      \/ Head(s) = Unlock("world") /\ Tail(s) \in {<<>>, <<Send("to_client")>>, <<Lock("world"), Unlock("world")>>}
  BY <1>1, <1>2
<1>4. CASE Head(s) = Send("to_client")
  <2>1. Tail(s) \in UnderContextWorld
    BY <1>3, <1>4, Steps DEF UnderContextWorld
  <2>2. Left(h, Tail(s))
    BY <2>1 DEF Left
  <2>3. "to_client" \in Channels
    BY DEF Channels
  <2> HIDE DEF h
  <2> QED  BY <1>4, <2>2, <2>3, SendObeys
<1>5. CASE Head(s) = Send("to_master")
  <2>1. Tail(s) \in UnderContextWorld
    BY <1>3, <1>5, Steps DEF UnderContextWorld
  <2>2. Left(h, Tail(s))
    BY <2>1 DEF Left
  <2>3. "to_master" \in Channels
    BY DEF Channels
  <2> HIDE DEF h
  <2> QED  BY <1>5, <2>2, <2>3, SendObeys
<1>6. CASE Head(s) = Unlock("world")
  <2>1. Tail(s) \in UnderContext
    BY <1>3, <1>6, Steps DEF UnderContext
  <2>2. h \ {"world"} = {"ctx"}
    OBVIOUS
  <2>3. Left({"ctx"}, Tail(s))
    BY <2>1 DEF Left
  <2> HIDE DEF h
  <2> QED  BY <1>6, <2>2, <2>3, UnlockObeys
<1> QED  BY <1>3, <1>4, <1>5, <1>6

\* ... while ctx is held,
LEMMA ContextObeys ==
  ASSUME NEW s \in UnderContext, s # <<>>
  PROVE  Obeys({"ctx"}, s)
<1> DEFINE s1 == <<Send("to_client")>>
           s2 == <<Send("to_master")>>
           s3 == <<Send("to_registry")>>
           s4 == <<Become, Send("to_registry")>>
           s5 == <<Lock("world"), Send("to_client")>>
           s6 == <<Lock("world"), Send("to_master")>>
           s7 == <<Lock("world"), Unlock("world")>>
           s8 == <<Lock("world"), Unlock("world"), Send("to_client")>>
           s9 == <<Lock("world"), Unlock("world"), Lock("world"), Unlock("world")>>
           h == {"ctx"}
<1> SUFFICES Obeys(h, s)
  OBVIOUS
<1>1. /\ Head(s1) = Send("to_client") /\ Tail(s1) = <<>>
      /\ Head(s2) = Send("to_master") /\ Tail(s2) = <<>>
      /\ Head(s3) = Send("to_registry") /\ Tail(s3) = <<>>
      /\ Head(s4) = Become /\ Tail(s4) = <<Send("to_registry")>>
      /\ Head(s5) = Lock("world") /\ Tail(s5) = <<Send("to_client")>>
      /\ Head(s6) = Lock("world") /\ Tail(s6) = <<Send("to_master")>>
      /\ Head(s7) = Lock("world") /\ Tail(s7) = <<Unlock("world")>>
      /\ Head(s8) = Lock("world") /\ Tail(s8) = <<Unlock("world"), Send("to_client")>>
      /\ Head(s9) = Lock("world") /\ Tail(s9) = <<Unlock("world"), Lock("world"), Unlock("world")>>
  BY HeadsTails
<1>2. s \in {<<>>, s1, s2, s3, s4, s5, s6, s7, s8, s9}
  BY DEF UnderContext
<1> HIDE DEF s1, s2, s3, s4, s5, s6, s7, s8, s9
<1>3. \/ Head(s) = Send("to_client") /\ Tail(s) = <<>>
      \/ Head(s) = Send("to_master") /\ Tail(s) = <<>>
      \/ Head(s) = Send("to_registry") /\ Tail(s) = <<>>
      \/ Head(s) = Become /\ Tail(s) = <<Send("to_registry")>>
      \/ Head(s) = Lock("world") /\ Tail(s) \in {<<Send("to_client")>>, <<Send("to_master")>>, <<Unlock("world")>>, <<Unlock("world"), Send("to_client")>>, <<Unlock("world"), Lock("world"), Unlock("world")>>}
  BY <1>1, <1>2
<1>4. CASE Head(s) = Send("to_client")
  <2>1. Tail(s) \in UnderContext
    BY <1>3, <1>4, Steps DEF UnderContext
  <2>2. Left(h, Tail(s))
    BY <2>1 DEF Left
  <2>3. "to_client" \in Channels
    BY DEF Channels
  <2> HIDE DEF h
  <2> QED  BY <1>4, <2>2, <2>3, SendObeys
<1>5. CASE Head(s) = Send("to_master")
  <2>1. Tail(s) \in UnderContext
    BY <1>3, <1>5, Steps DEF UnderContext
  <2>2. Left(h, Tail(s))
    BY <2>1 DEF Left
  <2>3. "to_master" \in Channels
    BY DEF Channels
  <2> HIDE DEF h
  <2> QED  BY <1>5, <2>2, <2>3, SendObeys
<1>6. CASE Head(s) = Send("to_registry")
  <2>1. Tail(s) \in UnderContext
    BY <1>3, <1>6, Steps DEF UnderContext
  <2>2. Left(h, Tail(s))
    BY <2>1 DEF Left
  <2>3. "to_registry" \in Channels
    BY DEF Channels
  <2> HIDE DEF h
  <2> QED  BY <1>6, <2>2, <2>3, SendObeys
<1>7. CASE Head(s) = Become
  <2>1. Tail(s) \in UnderContext
    BY <1>3, <1>7, Steps DEF UnderContext
  <2>2. Left(h, Tail(s))
    BY <2>1 DEF Left
  <2> HIDE DEF h
  <2> QED  BY <1>7, <2>2, BecomeObeys
<1>8. CASE Head(s) = Lock("world")
  <2>1. Tail(s) \in UnderContextWorld
    BY <1>3, <1>8, Steps DEF UnderContextWorld
  <2>2. h \cup {"world"} = {"ctx", "world"}
    OBVIOUS
  <2>3. Left({"ctx", "world"}, Tail(s))
    BY <2>1 DEF Left
  <2>4. \A m \in h : Rank[m] < Rank["world"]
    BY DEF Rank
  <2> HIDE DEF h
  <2> QED  BY <1>8, <2>2, <2>3, <2>4, LockObeys DEF Locks
<1> QED  BY <1>3, <1>4, <1>5, <1>6, <1>7, <1>8

\* ... while last_time and ctx are held,
LEMMA TimeContextObeys ==
  ASSUME NEW s \in UnderTimeContext, s # <<>>
  PROVE  Obeys({"last_time", "ctx"}, s)
<1> DEFINE s1 == <<Lock("world"), Unlock("world"), Unlock("ctx"), Lock("world")>>
           s2 == <<Lock("world"), Send("to_master"), Unlock("world"), Unlock("ctx"), Lock("world")>>
           s3 == <<Unlock("ctx"), Lock("world")>>
           h == {"last_time", "ctx"}
<1> SUFFICES Obeys(h, s)
  OBVIOUS
<1>1. /\ Head(s1) = Lock("world") /\ Tail(s1) = <<Unlock("world"), Unlock("ctx"), Lock("world")>>
      /\ Head(s2) = Lock("world") /\ Tail(s2) = <<Send("to_master"), Unlock("world"), Unlock("ctx"), Lock("world")>>
      /\ Head(s3) = Unlock("ctx") /\ Tail(s3) = <<Lock("world")>>
  BY HeadsTails
<1>2. s \in {s1, s2, s3}
  BY DEF UnderTimeContext
<1> HIDE DEF s1, s2, s3
<1>3. \/ Head(s) = Lock("world") /\ Tail(s) \in {<<Unlock("world"), Unlock("ctx"), Lock("world")>>, <<Send("to_master"), Unlock("world"), Unlock("ctx"), Lock("world")>>}
      \/ Head(s) = Unlock("ctx") /\ Tail(s) = <<Lock("world")>>
  BY <1>1, <1>2
<1>4. CASE Head(s) = Lock("world")
  <2>1. Tail(s) \in UnderAll
    BY <1>3, <1>4, Steps DEF UnderAll
  <2>2. h \cup {"world"} = {"last_time", "ctx", "world"}
    OBVIOUS
  <2>3. Left({"last_time", "ctx", "world"}, Tail(s))
    BY <2>1 DEF Left
  <2>4. \A m \in h : Rank[m] < Rank["world"]
    BY DEF Rank
  <2> HIDE DEF h
  <2> QED  BY <1>4, <2>2, <2>3, <2>4, LockObeys DEF Locks
<1>5. CASE Head(s) = Unlock("ctx")
  <2>1. Tail(s) \in UnderTime
    BY <1>3, <1>5, Steps DEF UnderTime
  <2>2. h \ {"ctx"} = {"last_time"}
    OBVIOUS
  <2>3. Left({"last_time"}, Tail(s))
    BY <2>1 DEF Left
  <2> HIDE DEF h
  <2> QED  BY <1>5, <2>2, <2>3, UnlockObeys
<1> QED  BY <1>3, <1>4, <1>5

\* ... while all three are held,
LEMMA AllObeys ==
  ASSUME NEW s \in UnderAll, s # <<>>
  PROVE  Obeys({"last_time", "ctx", "world"}, s)
<1> DEFINE s1 == <<Unlock("world"), Unlock("ctx"), Lock("world")>>
           s2 == <<Send("to_master"), Unlock("world"), Unlock("ctx"), Lock("world")>>
           h == {"last_time", "ctx", "world"}
<1> SUFFICES Obeys(h, s)
  OBVIOUS
<1>1. /\ Head(s1) = Unlock("world") /\ Tail(s1) = <<Unlock("ctx"), Lock("world")>>
      /\ Head(s2) = Send("to_master") /\ Tail(s2) = <<Unlock("world"), Unlock("ctx"), Lock("world")>>
  BY HeadsTails
<1>2. s \in {s1, s2}
  BY DEF UnderAll
<1> HIDE DEF s1, s2
<1>3. \/ Head(s) = Unlock("world") /\ Tail(s) = <<Unlock("ctx"), Lock("world")>>
      \/ Head(s) = Send("to_master") /\ Tail(s) = <<Unlock("world"), Unlock("ctx"), Lock("world")>>
  BY <1>1, <1>2
<1>4. CASE Head(s) = Unlock("world")
  <2>1. Tail(s) \in UnderTimeContext
    BY <1>3, <1>4, Steps DEF UnderTimeContext
  <2>2. h \ {"world"} = {"last_time", "ctx"}
    OBVIOUS
  <2>3. Left({"last_time", "ctx"}, Tail(s))
    BY <2>1 DEF Left
  <2> HIDE DEF h
  <2> QED  BY <1>4, <2>2, <2>3, UnlockObeys
<1>5. CASE Head(s) = Send("to_master")
  <2>1. Tail(s) \in UnderAll
    BY <1>3, <1>5, Steps DEF UnderAll
  <2>2. Left(h, Tail(s))
    BY <2>1 DEF Left
  <2>3. "to_master" \in Channels
    BY DEF Channels
  <2> HIDE DEF h
  <2> QED  BY <1>5, <2>2, <2>3, SendObeys
<1> QED  BY <1>3, <1>4, <1>5

\* The steps that the ways of a branch are made of.
BranchSteps == {Lock("world"), Unlock("world"), Unlock("ctx"), Become,
           Send("to_client"), Send("to_master"), Send("to_registry")}

\* They are, and so end in nothing when a branch goes on with them.
LEMMA AreSequences == UnderContext \subseteq Seq(BranchSteps) /\ UnderTimeContext \subseteq Seq(BranchSteps)
<1>1. UnderContext \subseteq Seq(BranchSteps)
  BY DEF UnderContext, BranchSteps
<1>2. UnderTimeContext \subseteq Seq(BranchSteps)
  BY DEF UnderTimeContext, BranchSteps
<1> QED  BY <1>1, <1>2

\* A branch under h whose two ways can be left under h and ctx.
LEMMA ContextBranchObeys ==
  ASSUME NEW m \in UnderContext, NEW s \in UnderContext
  PROVE  Obeys({}, Branch(m, s))
<1>1. {} \cup {"ctx"} = {"ctx"}
  OBVIOUS
<1>2. Left({"ctx"}, m) /\ Left({"ctx"}, s)
  BY DEF Left
<1>3. m \in Seq(BranchSteps) /\ s \in Seq(BranchSteps)
  BY AreSequences
<1> DEFINE h == {}
<1>4. Left(h \cup {"ctx"}, m) /\ Left(h \cup {"ctx"}, s)
  BY <1>1, <1>2, Zenon
<1>5. \A l \in h : Rank[l] < Rank["ctx"]
  OBVIOUS
<1> HIDE DEF h
<1>6. Obeys(h, Branch(m, s))
  BY <1>3, <1>4, <1>5, BranchObeys
<1> QED  BY <1>6 DEF h

\* ... while last_time is held,
LEMMA TimeObeys ==
  ASSUME NEW s \in UnderTime, s # <<>>
  PROVE  Obeys({"last_time"}, s)
<1> DEFINE h == {"last_time"}
<1> SUFFICES Obeys(h, s)
  OBVIOUS
<1>1. CASE s = <<Lock("world")>>
  <2>1. Head(s) = Lock("world") /\ Tail(s) = <<>>
    BY <1>1, HeadsTails
  <2>2. h \cup {"world"} = {"last_time", "world"}
    OBVIOUS
  <2>3. Left({"last_time", "world"}, <<>>)
    BY DEF Left
  <2>4. \A m \in h : Rank[m] < Rank["world"]
    BY DEF Rank
  <2>5. "world" \in Locks
    BY DEF Locks
  <2> HIDE DEF h
  <2>6. Left(h \cup {"world"}, Tail(s))
    BY <2>1, <2>2, <2>3, Zenon
  <2> QED  BY <2>1, <2>4, <2>5, <2>6, LockObeys
<1>2. CASE s = RoundUnderTime
  <2> DEFINE m == <<Lock("world"), Unlock("world"), Unlock("ctx"), Lock("world")>>
             r == <<Lock("world"), Send("to_master"), Unlock("world"), Unlock("ctx"), Lock("world")>>
  <2>1. s = Branch(m, r)
    BY <1>2 DEF RoundUnderTime
  <2>2. h \cup {"ctx"} = {"last_time", "ctx"}
    OBVIOUS
  <2>3. m \in UnderTimeContext /\ r \in UnderTimeContext
    BY DEF UnderTimeContext
  <2>4. \A l \in h : Rank[l] < Rank["ctx"]
    BY DEF Rank
  <2> HIDE DEF m, r
  <2>5. Left({"last_time", "ctx"}, m) /\ Left({"last_time", "ctx"}, r)
    BY <2>3 DEF Left
  <2> HIDE DEF h
  <2>6. Left(h \cup {"ctx"}, m) /\ Left(h \cup {"ctx"}, r)
    BY <2>2, <2>5, Zenon
  <2>7. m \in Seq(BranchSteps) /\ r \in Seq(BranchSteps)
    BY <2>3, AreSequences
  <2> QED  BY <2>1, <2>4, <2>6, <2>7, BranchObeys
<1> QED  BY <1>1, <1>2 DEF UnderTime

\* ... and at their beginning, where nothing is held.
LEMMA NoneObeys ==
  ASSUME NEW s \in UnderNone, s # <<>>
  PROVE  Obeys({}, s)
<1>1. ASSUME s \in {Login, LoginAgain, AddUser, Write, Convert, Update}
      PROVE  \E m, r \in UnderContext : s = Branch(m, r)
  <2>1. Login = Branch(<<Lock("world"), Send("to_client")>>, <<Lock("world"), Send("to_master")>>)
    BY DEF Login
  <2>2. LoginAgain = Branch(<<Lock("world"), Send("to_client")>>, <<Lock("world"), Send("to_client")>>)
    BY DEF LoginAgain, LockContext
  <2>3. Write = Branch(<<Lock("world"), Send("to_client")>>, <<Send("to_master")>>)
    BY DEF Write
  <2>4. Convert = Branch(<<Become, Send("to_registry")>>, <<Become, Send("to_registry")>>)
    BY DEF Convert, LockContext
  <2>5. /\ <<Lock("world"), Send("to_client")>> \in UnderContext
        /\ <<Lock("world"), Send("to_master")>> \in UnderContext
        /\ <<Send("to_master")>> \in UnderContext
        /\ <<Become, Send("to_registry")>> \in UnderContext
        /\ <<Lock("world"), Unlock("world"), Send("to_client")>> \in UnderContext
        /\ <<Lock("world"), Unlock("world"), Lock("world"), Unlock("world")>> \in UnderContext
        /\ <<Lock("world"), Unlock("world")>> \in UnderContext
    BY DEF UnderContext
  <2>6. CASE s = Login
    BY <2>1, <2>5, <2>6
  <2>7. CASE s = LoginAgain
    BY <2>2, <2>5, <2>7
  <2>8. CASE s = AddUser
    BY Scripts, <2>5, <2>8
  <2>9. CASE s = Write
    BY <2>3, <2>5, <2>9
  <2>10. CASE s = Convert
    BY <2>4, <2>5, <2>10
  <2>11. CASE s = Update
    BY Scripts, <2>5, <2>11
  <2> QED  BY <1>1, <2>6, <2>7, <2>8, <2>9, <2>10, <2>11
<1>2. CASE s \in {Login, LoginAgain, AddUser, Write, Convert, Update}
  BY <1>1, <1>2, ContextBranchObeys
<1>3. ASSUME NEW l \in Locks, Head(s) = Lock(l), Left({l}, Tail(s))
      PROVE  Obeys({}, s)
  <2> DEFINE h == {}
  <2>1. h \cup {l} = {l}
    OBVIOUS
  <2>2. \A m \in h : Rank[m] < Rank[l]
    OBVIOUS
  <2> HIDE DEF h
  <2>3. Left(h \cup {l}, Tail(s))
    BY <1>3, <2>1, Zenon
  <2>4. Obeys(h, s)
    BY <1>3, <2>2, <2>3, LockObeys
  <2> QED  BY <2>4 DEF h
<1>4. CASE s \in {Round, QuietRound, Ping}
  <2>1. Head(s) = Lock("last_time") /\ Tail(s) \in UnderTime
    <3>1. CASE s = Round
      BY <3>1, Scripts DEF UnderTime
    <3>2. CASE s = QuietRound
      <4>1. Head(s) = Lock("last_time") /\ Tail(s) = <<Lock("world")>>
        BY <3>2, HeadsTails DEF QuietRound
      <4> QED  BY <4>1 DEF UnderTime
    <3>3. CASE s = Ping
      <4>1. Head(s) = Lock("last_time") /\ Tail(s) = <<>>
        BY <3>3, HeadsTails DEF Ping
      <4> QED  BY <4>1 DEF UnderTime
    <3> QED  BY <1>4, <3>1, <3>2, <3>3
  <2>2. Left({"last_time"}, Tail(s))
    BY <2>1 DEF Left
  <2> QED  BY <1>3, <2>1, <2>2 DEF Locks
<1>5. CASE s = SyncWorld
  <2>1. Head(s) = Lock("world") /\ Tail(s) = <<>>
    BY <1>5, HeadsTails DEF SyncWorld
  <2>2. Left({"world"}, <<>>)
    BY DEF Left
  <2> QED  BY <1>3, <2>1, <2>2 DEF Locks
<1>6. CASE s \in {Report, Relay}
  <2>1. \E c \in Channels : Head(s) = Send(c) /\ Tail(s) = <<>>
    BY <1>6, HeadsTails DEF Report, Relay, Channels
  <2>2. Left({}, <<>>)
    BY DEF Left, UnderNone
  <2> QED  BY <2>1, <2>2, SendObeys
<1> QED  BY <1>2, <1>4, <1>5, <1>6 DEF UnderNone, TaskScripts

\* Every script keeps to the order of the locks at each of its steps.
LEMMA ScriptsObey ==
  ASSUME NEW h, NEW s, Left(h, s), s # <<>>
  PROVE  Obeys(h, s)
  BY NoneObeys, TimeObeys, ContextObeys, ContextWorldObeys, TimeContextObeys, AllObeys DEF Left

-----------------------------------------------------------------------------
(* The invariant.                                                           *)

\* A step of t that leaves it with the locks h and the script s.
LEMMA ThreadStep ==
  ASSUME IInv, NEW t \in Threads, NEW h \in SUBSET Locks, NEW s,
         node_type' \in NodeTypes, queued' \in [Channels -> 0..Capacity],
         held' = [held EXCEPT ![t] = h], rest' = [rest EXCEPT ![t] = s],
         Left(h, s), \A u \in Threads \ {t} : h \cap held[u] = {},
         t = "forward" => h = {} /\ s \in {<<>>, Relay}
  PROVE  IInv'
<1>1. /\ held'[t] = h /\ rest'[t] = s
      /\ \A u \in Threads \ {t} : held'[u] = held[u] /\ rest'[u] = rest[u]
      /\ RestOfThreads'
  BY DEF IInv, TypeOK, RestOfThreads
<1>2. TypeOK'
  BY <1>1 DEF IInv, TypeOK, NodeTypes
<1>3. Discipline'
  <2> SUFFICES ASSUME NEW u \in Threads
               PROVE  Left(held'[u], rest'[u])
    BY DEF Discipline
  <2>1. CASE u = t
    BY <1>1, <2>1
  <2>2. CASE u # t
    BY <1>1, <2>2 DEF IInv, Discipline
  <2> QED  BY <2>1, <2>2
<1>4. RelayHoldsNone'
  BY <1>1 DEF IInv, RelayHoldsNone, Threads, Loops
<1> QED  BY <1>1, <1>2, <1>3, <1>4 DEF IInv

\* What a thread with a script left may do.
LEMMA MayDo ==
  ASSUME IInv, NEW t \in Threads, rest[t] # <<>>
  PROVE  /\ Obeys(held[t], rest[t])
         /\ t = "forward" => rest[t] = Relay /\ Head(rest[t]) = Send("to_client") /\ Tail(rest[t]) = <<>>
<1>1. Obeys(held[t], rest[t])
  BY ScriptsObey DEF IInv, Discipline
<1>2. Head(Relay) = Send("to_client") /\ Tail(Relay) = <<>>
  BY HeadsTails DEF Relay
<1> QED  BY <1>1, <1>2 DEF IInv, RelayHoldsNone

\* The steps of one thread, one lemma for each action.
LEMMA BeginKeeps ==
  ASSUME IInv, NEW t \in Threads, Begin(t)
  PROVE  IInv'
<1>1. PICK s \in ScriptsOf(t) : rest' = [rest EXCEPT ![t] = s]
  BY DEF Begin
<1>2. held[t] = {} /\ held' = [held EXCEPT ![t] = {}]
  BY DEF Begin, Running, IInv, TypeOK
<1>3. s \in UnderNone
  BY DEF ScriptsOf, LoopScripts, UnderNone, Loops
<1>4. Left({}, s)
  BY <1>3 DEF Left
<1>5. t = "forward" => s \in {<<>>, Relay}
  BY DEF ScriptsOf, LoopScripts, Loops
<1>6. node_type' \in NodeTypes /\ queued' \in [Channels -> 0..Capacity]
  BY DEF Begin, IInv, TypeOK, NodeTypes
<1> QED  BY <1>1, <1>2, <1>4, <1>5, <1>6, ThreadStep

\* A lock is taken: it is free and it is not the relaying thread that takes it.
LEMMA AcquireKeeps ==
  ASSUME IInv, NEW t \in Threads, Acquire(t)
  PROVE  IInv'
<1> DEFINE l == Head(rest[t]).on
           h == held[t] \cup {l}
<1>1. /\ Head(rest[t]).do = "lock" /\ l \in Locks /\ Left(h, Tail(rest[t]))
      /\ t # "forward"
  BY MayDo, Steps DEF Acquire, About, Obeys
<1>2. \A u \in Threads \ {t} : h \cap held[u] = {}
  BY DEF Acquire, Free, IInv, TypeOK
<1>3. held' = [held EXCEPT ![t] = h] /\ rest' = [rest EXCEPT ![t] = Tail(rest[t])]
  BY DEF Acquire, Advance, IInv, TypeOK, RestOfThreads
<1>4. h \in SUBSET Locks
  BY <1>1 DEF IInv, TypeOK
<1>5. node_type' \in NodeTypes /\ queued' \in [Channels -> 0..Capacity]
  BY DEF Acquire, IInv, TypeOK, NodeTypes
<1> HIDE DEF h
<1> QED  BY <1>1, <1>2, <1>3, <1>4, <1>5, ThreadStep

\* ctx is taken, and the script goes on as node_type says.
LEMMA AcquireContextKeeps ==
  ASSUME IInv, NEW t \in Threads, AcquireContext(t)
  PROVE  IInv'
<1> DEFINE h == held[t] \cup {"ctx"}
           s == Head(rest[t]).then[node_type] \o Tail(rest[t])
<1>1. /\ Head(rest[t]).do = "branch" /\ "ctx" \in Locks /\ t # "forward"
      /\ \A n \in NodeTypes : Left(h, Head(rest[t]).then[n] \o Tail(rest[t]))
  BY MayDo, Steps DEF AcquireContext, About, Obeys, Locks
<1>2. \A u \in Threads \ {t} : h \cap held[u] = {}
  BY DEF AcquireContext, Free, IInv, TypeOK
<1>3. held' = [held EXCEPT ![t] = h] /\ rest' = [rest EXCEPT ![t] = s]
  BY DEF AcquireContext, IInv, TypeOK, RestOfThreads
<1>4. h \in SUBSET Locks /\ node_type \in NodeTypes
  BY <1>1 DEF IInv, TypeOK, NodeTypes
<1>5. Left(h, s)
  BY <1>1, <1>4, Zenon
<1>6. node_type' \in NodeTypes /\ queued' \in [Channels -> 0..Capacity]
  BY DEF AcquireContext, IInv, TypeOK, NodeTypes
<1> HIDE DEF h, s
<1> QED  BY <1>1, <1>2, <1>3, <1>4, <1>5, <1>6, ThreadStep

\* A lock is given back.
LEMMA ReleaseKeeps ==
  ASSUME IInv, NEW t \in Threads, Release(t)
  PROVE  IInv'
<1> DEFINE h == held[t] \ {Head(rest[t]).on}
<1>1. Left(h, Tail(rest[t])) /\ t # "forward"
  BY MayDo, Steps DEF Release, About, Obeys
<1>2. \A u \in Threads \ {t} : h \cap held[u] = {}
  BY DEF IInv, TypeOK
<1>3. held' = [held EXCEPT ![t] = h] /\ rest' = [rest EXCEPT ![t] = Tail(rest[t])]
  BY DEF Release, Advance, IInv, TypeOK, RestOfThreads
<1>4. h \in SUBSET Locks
  BY DEF IInv, TypeOK
<1>5. node_type' \in NodeTypes /\ queued' \in [Channels -> 0..Capacity]
  BY DEF Release, IInv, TypeOK, NodeTypes
<1> HIDE DEF h
<1> QED  BY <1>1, <1>2, <1>3, <1>4, <1>5, ThreadStep

\* A message is sent.
LEMMA PutKeeps ==
  ASSUME IInv, NEW t \in Threads, Put(t)
  PROVE  IInv'
<1> DEFINE c == Head(rest[t]).on
<1>1. /\ c \in Channels /\ Left(held[t], Tail(rest[t]))
      /\ t = "forward" => Tail(rest[t]) = <<>>
  BY MayDo DEF Put, About, Obeys
<1>2. queued' \in [Channels -> 0..Capacity]
  BY <1>1, ServerLocksAssumption DEF Put, HasRoom, IInv, TypeOK
<1>3. held' = [held EXCEPT ![t] = held[t]] /\ rest' = [rest EXCEPT ![t] = Tail(rest[t])]
  BY DEF Put, Advance, IInv, TypeOK, RestOfThreads
<1>4. /\ held[t] \in SUBSET Locks
      /\ \A u \in Threads \ {t} : held[t] \cap held[u] = {}
      /\ t = "forward" => held[t] = {}
  BY DEF IInv, TypeOK, RelayHoldsNone
<1>5. node_type' \in NodeTypes /\ queued' \in [Channels -> 0..Capacity]
  BY <1>2 DEF Put, IInv, TypeOK, NodeTypes
<1> QED  BY <1>1, <1>2, <1>3, <1>4, <1>5, ThreadStep

\* The slave becomes the master.
LEMMA BecomeMasterKeeps ==
  ASSUME IInv, NEW t \in Threads, BecomeMaster(t)
  PROVE  IInv'
<1>1. Left(held[t], Tail(rest[t])) /\ t # "forward"
  BY MayDo, Steps DEF BecomeMaster, About, Obeys
<1>2. held' = [held EXCEPT ![t] = held[t]] /\ rest' = [rest EXCEPT ![t] = Tail(rest[t])]
  BY DEF BecomeMaster, Advance, IInv, TypeOK, RestOfThreads
<1>3. /\ held[t] \in SUBSET Locks
      /\ \A u \in Threads \ {t} : held[t] \cap held[u] = {}
  BY DEF IInv, TypeOK
<1>4. node_type' \in NodeTypes /\ queued' \in [Channels -> 0..Capacity]
  BY DEF BecomeMaster, IInv, TypeOK, NodeTypes
<1> QED  BY <1>1, <1>2, <1>3, <1>4, ThreadStep

\* A script ends or its task panics: every lock is released.
LEMMA EndKeeps ==
  ASSUME IInv, NEW t \in Threads, Finish(t) \/ Panic(t)
  PROVE  IInv'
<1>1. held' = [held EXCEPT ![t] = {}] /\ rest' = [rest EXCEPT ![t] = <<>>]
  BY DEF Finish, Panic, IInv, RestOfThreads
<1>2. Left({}, <<>>)
  BY DEF Left, UnderNone
<1>3. node_type' \in NodeTypes /\ queued' \in [Channels -> 0..Capacity]
  BY DEF Finish, Panic, IInv, TypeOK, NodeTypes
<1> QED  BY <1>1, <1>2, <1>3, ThreadStep

\* A channel is emptied by one message.
LEMMA ReceiveKeeps ==
  ASSUME IInv, NEW c \in Channels, Receive(c)
  PROVE  IInv'
<1>1. queued' \in [Channels -> 0..Capacity]
  BY ServerLocksAssumption DEF Receive, IInv, TypeOK
<1> QED  BY <1>1 DEF Receive, IInv, TypeOK, RestOfThreads, Discipline, RelayHoldsNone

\* Every step keeps the invariant.
LEMMA NextIInv == IInv /\ [Next]_vars => IInv'
<1> SUFFICES ASSUME IInv, [Next]_vars
             PROVE  IInv'
  OBVIOUS
<1>1. ASSUME NEW t \in Threads, Begin(t) \/ Step(t) \/ Panic(t)
      PROVE  IInv'
  BY <1>1, BeginKeeps, AcquireKeeps, AcquireContextKeeps, ReleaseKeeps, PutKeeps,
     BecomeMasterKeeps, EndKeeps DEF Step
<1>2. ASSUME NEW c \in Channels, Receive(c)
      PROVE  IInv'
  BY <1>2, ReceiveKeeps
<1>3. CASE UNCHANGED vars
  BY <1>3 DEF vars, IInv, TypeOK, RestOfThreads, Discipline, RelayHoldsNone
<1> QED  BY <1>1, <1>2, <1>3 DEF Next

\* At the start nothing runs and nothing is held.
LEMMA InitIInv == Init => IInv
<1> SUFFICES ASSUME Init
             PROVE  IInv
  OBVIOUS
<1>1. TypeOK /\ RestOfThreads
  BY ServerLocksAssumption DEF Init, TypeOK, RestOfThreads
<1>2. Left({}, <<>>)
  BY DEF Left, UnderNone
<1>3. Discipline
  BY <1>2 DEF Init, Discipline
<1>4. RelayHoldsNone
  BY DEF Init, RelayHoldsNone, Threads, Loops
<1> QED  BY <1>1, <1>3, <1>4 DEF IInv

\* Every thread keeps to its scripts and so to the order of the locks.
THEOREM Invariance == Spec => []IInv
  BY InitIInv, NextIInv, PTL DEF Spec

\* Whatever the tasks do and however often one of them panics, no lock of the
\* server has two owners and no channel holds more than its capacity.
THEOREM TypeCorrect == Spec => []TypeOK
<1>1. IInv => TypeOK
  BY DEF IInv
<1> QED  BY <1>1, Invariance, PTL

-----------------------------------------------------------------------------
(* No circular wait.                                                        *)

\* A thread that waits for a lock holds locks that come before it only.
LEMMA WaitsInOrder ==
  ASSUME IInv, NEW t \in Threads, About(t, "lock") \/ About(t, "branch")
  PROVE  /\ Head(rest[t]).on \in Locks
         /\ \A l \in held[t] : Rank[l] < Rank[Head(rest[t]).on]
  BY MayDo DEF About, Obeys

\* The thread that relays waits for no other thread.
LEMMA RelayWaitsForNobody ==
  ASSUME IInv
  PROVE  Blockers("forward") = {}
<1>1. "forward" \in Threads
  BY DEF Threads, Loops
<1>2. CASE rest["forward"] = <<>>
  BY <1>2 DEF Blockers, About
<1>3. CASE rest["forward"] # <<>>
  <2>1. Head(rest["forward"]) = Send("to_client")
    BY <1>1, <1>3, MayDo
  <2> QED  BY <2>1, Steps DEF Blockers, About, Needs
<1> QED  BY <1>2, <1>3

\* In a set without the relaying thread, who does not wait for a lock waits for
\* nobody of the set.
LEMMA SenderWaitsForRelay ==
  ASSUME NEW t, ~(About(t, "lock") \/ About(t, "branch"))
  PROVE  Blockers(t) \subseteq {"forward"}
  BY DEF Blockers, Needs

\* In a set in which everybody waits for a lock, who waits for the last one in
\* the order waits for nobody of the set.
LEMMA LastWaitsForNobody ==
  ASSUME IInv, NEW S \in SUBSET Threads,
         \A u \in S : About(u, "lock") \/ About(u, "branch"),
         NEW t \in S, \A u \in S : Rank[Head(rest[u]).on] <= Rank[Head(rest[t]).on]
  PROVE  Blockers(t) \cap S = {}
<1> SUFFICES ASSUME NEW u \in S, Head(rest[t]).on \in held[u]
             PROVE  FALSE
  BY DEF Blockers
<1>1. Rank[Head(rest[t]).on] < Rank[Head(rest[u]).on]
  BY WaitsInOrder
<1>2. Rank[Head(rest[t]).on] \in Int /\ Rank[Head(rest[u]).on] \in Int
  BY WaitsInOrder DEF Rank, Locks
<1> QED  BY <1>1, <1>2

\* For any number of tasks and any capacity: in every set of threads one waits
\* for nobody of the set, so that the locks of the server, its full channels and
\* the receiver that also relays never close a circle.
THEOREM NoDeadlock == Spec => []NoCircularWait
<1>1. ASSUME IInv
      PROVE  NoCircularWait
  <2> DEFINE blockers == [t \in Threads |-> Blockers(t)]
  <2> SUFFICES \A S \in (SUBSET Threads) \ {{}} : \E t \in S : blockers[t] \cap S = {}
    BY DEF NoCircularWait
  <2> TAKE S \in (SUBSET Threads) \ {{}}
  <2> SUFFICES \E t \in S : Blockers(t) \cap S = {}
    OBVIOUS
  <2>0. S \in SUBSET Threads /\ S # {}
    OBVIOUS
  <2>1. CASE "forward" \in S
    BY <1>1, <2>1, RelayWaitsForNobody
  <2>2. CASE "forward" \notin S /\ \E t \in S : ~(About(t, "lock") \/ About(t, "branch"))
    BY <2>2, SenderWaitsForRelay
  <2>3. CASE \A t \in S : About(t, "lock") \/ About(t, "branch")
    <3>1. \A t \in S : Rank[Head(rest[t]).on] \in 1..3
      BY <1>1, <2>3, WaitsInOrder DEF Rank, Locks
    <3>2. \E t \in S : \A u \in S : Rank[Head(rest[u]).on] <= Rank[Head(rest[t]).on]
      <4>1. CASE \E t \in S : Rank[Head(rest[t]).on] = 3
        BY <3>1, <4>1
      <4>2. CASE (\A t \in S : Rank[Head(rest[t]).on] # 3) /\ \E t \in S : Rank[Head(rest[t]).on] = 2
        BY <3>1, <4>2
      <4>3. CASE \A t \in S : Rank[Head(rest[t]).on] = 1
        <5>1. PICK t \in S : TRUE
          BY <2>0
        <5> QED  BY <4>3, <5>1
      <4> QED  BY <3>1, <4>1, <4>2, <4>3
    <3> QED  BY <1>1, <2>3, <3>2, LastWaitsForNobody
  <2> QED  BY <2>1, <2>2, <2>3
<1> QED  BY <1>1, Invariance, PTL
=============================================================================
