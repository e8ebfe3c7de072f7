-------------------------- MODULE WorldGridProofs ---------------------------
(***************************************************************************)
(* Facts about the grid for any AreaLen and Half: the index of an area is  *)
(* never 0 and grows with the coordinate, so the maps between the corners  *)
(* of a scope are those that its points belong to; and the map of a point  *)
(* off the axes exists.                                                    *)
(***************************************************************************)
EXTENDS WorldGrid, TLAPS

LEMMA DivFacts ==
    ASSUME NEW a \in Nat, NEW b \in Nat \ {0}
    PROVE  /\ a \div b \in Nat
           /\ b * (a \div b) <= a
           /\ a < b * (a \div b) + b
OBVIOUS

LEMMA CeilFacts ==
    ASSUME NEW v \in Nat
    PROVE  /\ Ceil(v) \in Nat
           /\ v <= AreaLen * Ceil(v)
           /\ AreaLen * Ceil(v) < v + AreaLen
<1>1. AreaLen \in Nat \ {0} /\ v + AreaLen - 1 \in Nat
    BY GridAssumption
<1> DEFINE q == (v + AreaLen - 1) \div AreaLen
<1>2. /\ q \in Nat
      /\ AreaLen * q <= v + AreaLen - 1
      /\ v + AreaLen - 1 < AreaLen * q + AreaLen
    BY <1>1, DivFacts
<1>3. Ceil(v) = q
    BY DEF Ceil
<1>4. AreaLen * q \in Nat
    BY <1>1, <1>2
<1> HIDE DEF q
<1> QED BY <1>1, <1>2, <1>3, <1>4

LEMMA MultFacts ==
    ASSUME NEW b \in Nat \ {0}, NEW p \in Nat, NEW q \in Nat, q + 1 <= p
    PROVE  b * q + b <= b * p
OBVIOUS

LEMMA CeilMono ==
    ASSUME NEW v \in Nat, NEW w \in Nat, v <= w
    PROVE  Ceil(v) <= Ceil(w)
<1>1. AreaLen \in Nat \ {0}
    BY GridAssumption
<1>2. /\ Ceil(v) \in Nat /\ Ceil(w) \in Nat
      /\ AreaLen * Ceil(v) < v + AreaLen
      /\ w <= AreaLen * Ceil(w)
    BY CeilFacts
<1>3. SUFFICES ASSUME Ceil(w) + 1 <= Ceil(v) PROVE FALSE
    BY <1>2
<1>4. AreaLen * Ceil(w) + AreaLen <= AreaLen * Ceil(v)
    BY <1>1, <1>2, <1>3, MultFacts
<1>5. AreaLen * Ceil(w) \in Nat /\ AreaLen * Ceil(v) \in Nat
    BY <1>1, <1>2
<1> QED BY <1>1, <1>2, <1>4, <1>5

LEMMA SignedFacts ==
    ASSUME NEW v \in Int
    PROVE  /\ Signed(v) \in Int
           /\ v >= 0 => Signed(v) >= 0
           /\ v < 0 => Signed(v) <= 0 /\ Signed(v) # 0
<1>1. CASE v >= 0
    BY <1>1, CeilFacts DEF Signed
<1>2. CASE v < 0
    <2>1. -v \in Nat /\ AreaLen \in Nat
        BY <1>2, GridAssumption
    <2>2. Ceil(-v) \in Nat /\ -v <= AreaLen * Ceil(-v)
        BY <2>1, CeilFacts
    <2>3. Ceil(-v) # 0
        <3>1. SUFFICES ASSUME Ceil(-v) = 0 PROVE FALSE
            OBVIOUS
        <3>2. AreaLen * Ceil(-v) = 0
            BY <2>1, <3>1
        <3> QED BY <1>2, <2>2, <3>2
    <2> QED BY <1>2, <2>2, <2>3 DEF Signed
<1> QED BY <1>1, <1>2

LEMMA SignedMono ==
    ASSUME NEW v \in Int, NEW w \in Int, v <= w
    PROVE  Signed(v) <= Signed(w)
<1>1. CASE v >= 0
    BY <1>1, CeilMono DEF Signed
<1>2. CASE v < 0 /\ w >= 0
    BY <1>2, SignedFacts
<1>3. CASE v < 0 /\ w < 0
    <2>1. -v \in Nat /\ -w \in Nat /\ -w <= -v
        BY <1>3
    <2>2. Ceil(-w) <= Ceil(-v) /\ Ceil(-w) \in Nat /\ Ceil(-v) \in Nat
        BY <2>1, CeilMono, CeilFacts
    <2> QED BY <1>3, <2>2 DEF Signed
<1> QED BY <1>1, <1>2, <1>3

(* The index of an area is not 0 and grows with the coordinate: a map       *)
(* between the corners of a scope has an index between those of the corners.*)
LEMMA AreaIndexFacts ==
    ASSUME NEW v \in Int
    PROVE  AreaIndex(v) \in Int \ {0}
BY SignedFacts, GridAssumption DEF AreaIndex

LEMMA AreaIndexMono ==
    ASSUME NEW v \in Int, NEW w \in Int, v <= w
    PROVE  AreaIndex(v) <= AreaIndex(w)
<1>1. /\ Signed(v) \in Int /\ Signed(w) \in Int /\ Signed(v) <= Signed(w)
      /\ v < 0 => Signed(v) <= 0 /\ Signed(v) # 0
      /\ w < 0 => Signed(w) <= 0 /\ Signed(w) # 0
      /\ v >= 0 => Signed(v) >= 0
      /\ w >= 0 => Signed(w) >= 0
    BY SignedFacts, SignedMono
<1> QED BY <1>1, GridAssumption DEF AreaIndex

\* The tag of a position within a scope is among the tags the query visits,
\* provided that it is the tag of a map.
LEMMA CoverComplete ==
    ASSUME NEW p \in Position, NEW s \in Scope, InScope(p, s), Pos2MapTag(p) \in MapTags
    PROVE  Pos2MapTag(p) \in CoverTags(s)
<1> DEFINE i == AreaIndex(p.x)  j == AreaIndex(p.y)
<1>1. PICK a \in Indices, b \in Indices : Pos2MapTag(p) = Tag(a, b)
    BY DEF MapTags
<1>2. a = i /\ b = j
    BY <1>1 DEF Pos2MapTag, Tag
<1>3. /\ i \in (AreaIndex(s.left_up.x)..AreaIndex(s.right_down.x)) \ {0}
      /\ j \in (AreaIndex(s.right_down.y)..AreaIndex(s.left_up.y)) \ {0}
    BY AreaIndexMono, AreaIndexFacts DEF InScope, Position, Scope
<1> HIDE DEF i, j
<1> QED BY <1>1, <1>2, <1>3 DEF CoverTags

\* A coordinate of the world that is not 0 has an index with its sign, within
\* the grid.
LEMMA AreaIndexInside ==
    ASSUME NEW v \in -Limit..Limit, v # 0
    PROVE  /\ AreaIndex(v) \in Indices
           /\ v > 0 => AreaIndex(v) > 0
           /\ v < 0 => AreaIndex(v) < 0
<1>1. AreaLen \in Nat \ {0} /\ Half \in Nat \ {0} /\ Limit \in Nat /\ v \in Int
    BY GridAssumption DEF Limit
<1>2. CASE v > 0
    BY <1>1, <1>2, CeilFacts DEF AreaIndex, Signed, Indices
<1>3. CASE v < 0
    <2>1. -v \in Nat /\ -v <= Limit
        BY <1>1, <1>3
    <2> DEFINE k == Ceil(-v)
    <2>2. k \in Nat /\ -v <= AreaLen * k /\ AreaLen * k < -v + AreaLen
        BY <2>1, CeilFacts
    <2> HIDE DEF k
    <2>3. k # 0
        BY <1>1, <1>3, <2>2
    <2>4. k <= Half
        <3> SUFFICES ASSUME k > Half
                     PROVE  FALSE
            BY <1>1, <2>2
        <3>1. AreaLen * Half + AreaLen <= AreaLen * k
            BY <1>1, <2>2, MultFacts
        <3>2. Half * AreaLen = AreaLen * Half
            BY <1>1
        <3> QED BY <1>1, <2>1, <2>2, <3>1, <3>2 DEF Limit
    <2>5. AreaIndex(v) = -k
        BY <1>1, <1>3, <2>2, <2>3 DEF AreaIndex, Signed, k
    <2> QED BY <1>1, <1>3, <2>2, <2>3, <2>4, <2>5 DEF Indices
<1> QED BY <1>1, <1>2, <1>3

\* World::init makes a map for every point of the world off the axes.
LEMMA OffAxesHasMap ==
    ASSUME NEW p \in WorldPosition, p.x # 0, p.y # 0
    PROVE  Pos2MapTag(p) \in MapTags
<1> DEFINE i == AreaIndex(p.x)  j == AreaIndex(p.y)
<1>1. p.x \in -Limit..Limit /\ p.y \in -Limit..Limit /\ p.x \in Int /\ p.y \in Int
    BY GridAssumption DEF WorldPosition, Limit
<1>2. /\ i \in Indices /\ i \in Int
      /\ p.x > 0 => i > 0
      /\ p.x < 0 => i < 0
    BY <1>1, AreaIndexInside, AreaIndexFacts
<1>3. /\ j \in Indices /\ j \in Int
      /\ p.y > 0 => j > 0
      /\ p.y < 0 => j < 0
    BY <1>1, AreaIndexInside, AreaIndexFacts
<1> HIDE DEF i, j
<1>4. FieldId(p.x, p.y) = FieldId(i, j)
    BY <1>1, <1>2, <1>3 DEF FieldId
<1>5. Pos2MapTag(p) = Tag(i, j)
    BY <1>4 DEF Pos2MapTag, Tag, i, j
<1> QED BY <1>2, <1>3, <1>5 DEF MapTags
=============================================================================
