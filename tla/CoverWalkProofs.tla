-------------------------- MODULE CoverWalkProofs ---------------------------
(***************************************************************************)
(* The two loops list exactly the tags of the scope, each once, for any    *)
(* grid and any scope.  The loop invariant: the tags listed so far are     *)
(* those of the columns left of x_len and, in the inner loop, of the rows  *)
(* above y_len in column x_len.                                            *)
(***************************************************************************)
EXTENDS CoverWalk, WorldGridProofs, WellFoundedInduction

Columns == (out_start..out_end) \ {0}
Rows    == (inside_end..inside_start) \ {0}

LeftColumns == {Tag(i, j) : i \in {c \in Columns : c < x_len}, j \in Rows}
RowsAbove   == {Tag(x_len, j) : j \in {r \in Rows : r > y_len}}

LoopInv ==
    /\ pc = "outer" => out_start <= x_len /\ Visited = LeftColumns
    /\ pc = "inner" => /\ x_len \in Columns
                       /\ y_len <= inside_start
                       /\ Visited = LeftColumns \cup RowsAbove
    /\ pc = "done"  => Visited = CoverTags(scope)

IInv == TypeOK /\ LoopInv /\ NoRevisit

LEMMA CornerFacts ==
    ASSUME scope \in Scopes
    PROVE  /\ out_start \in Int \ {0} /\ out_end \in Int \ {0}
           /\ inside_start \in Int \ {0} /\ inside_end \in Int \ {0}
BY ScopesAssumption, AreaIndexFacts
   DEF Scope, Position, out_start, out_end, inside_start, inside_end

LEMMA TagFacts ==
    ASSUME NEW i \in Int, NEW j \in Int
    PROVE  /\ Tag(i, j).x_len = i /\ Tag(i, j).y_len = j
           /\ Tag(i, j).field_id \in {"A", "B", "C", "D"}
BY DEF Tag, FieldId

\* What appending a tag that was not listed does.
LEMMA AppendFacts ==
    ASSUME NEW S, map_tag_vec \in Seq(S), NEW t \in S,
           map_tag_vec' = Append(map_tag_vec, t)
    PROVE  /\ Visited' = Visited \cup {t}
           /\ t \notin Visited /\ NoRevisit => NoRevisit'
<1>1. /\ Len(map_tag_vec) \in Nat
      /\ Len(map_tag_vec') = Len(map_tag_vec) + 1
      /\ \A k \in 1..Len(map_tag_vec) : map_tag_vec'[k] = map_tag_vec[k]
      /\ map_tag_vec'[Len(map_tag_vec) + 1] = t
    OBVIOUS
<1>2. 1..(Len(map_tag_vec) + 1) = (1..Len(map_tag_vec)) \cup {Len(map_tag_vec) + 1}
    BY <1>1
<1>3. Visited' = Visited \cup {t}
    BY <1>1, <1>2 DEF Visited
<1>4. ASSUME t \notin Visited, NoRevisit PROVE NoRevisit'
    BY <1>1, <1>2, <1>4 DEF Visited, NoRevisit
<1> QED BY <1>3, <1>4

(* The column that the outer loop enters: no column of the scope lies        *)
(* between x_len and it.                                                     *)
LEMMA RightOfFacts ==
    ASSUME NEW x \in Int, NEW e \in Int \ {0}, x < e + 1
    PROVE  /\ RightOf(x) \in Int \ {0} /\ x <= RightOf(x) /\ RightOf(x) <= e
           /\ \A c \in Int \ {0} : c < RightOf(x) <=> c < x
BY DEF RightOf

(* The row that the inner loop visits: the next one of the scope.            *)
LEMMA BelowFacts ==
    ASSUME NEW y \in Int, NEW e \in Int \ {0}, e - 1 < y
    PROVE  /\ Below(y) \in Int \ {0} /\ Below(y) <= y /\ e <= Below(y)
           /\ \A r \in Int \ {0} : r > Below(y) - 1 <=> r > y \/ r = Below(y)
           /\ ~(Below(y) > y)
BY DEF Below

LEMMA InitIInv == Init => IInv
<1> SUFFICES ASSUME Init PROVE IInv
    OBVIOUS
<1>1. /\ out_start \in Int \ {0} /\ out_end \in Int \ {0}
      /\ inside_start \in Int \ {0} /\ inside_end \in Int \ {0}
    BY CornerFacts DEF Init
<1>2. Visited = {} /\ LeftColumns = {}
    BY <1>1 DEF Init, Visited, LeftColumns, Columns
<1> QED BY <1>1, <1>2 DEF Init, IInv, TypeOK, LoopInv, NoRevisit

LEMMA NextIInv == IInv /\ [Next]_vars => IInv'
<1> SUFFICES ASSUME IInv, [Next]_vars PROVE IInv'
    OBVIOUS
<1>1. /\ out_start \in Int \ {0} /\ out_end \in Int \ {0}
      /\ inside_start \in Int \ {0} /\ inside_end \in Int \ {0}
      /\ x_len \in Int /\ y_len \in Int /\ scope \in Scopes
    BY CornerFacts DEF IInv, TypeOK
<1> DEFINE Tags == [field_id : {"A", "B", "C", "D"}, x_len : Int \ {0}, y_len : Int \ {0}]
<1>2. CASE OuterEnter
    <2>1. /\ UNCHANGED <<scope, map_tag_vec, out_start, out_end, inside_start, inside_end>>
          /\ x_len' = RightOf(x_len) /\ y_len' = inside_start
          /\ pc = "outer" /\ pc' = "inner" /\ x_len < out_end + 1
        BY <1>2 DEF OuterEnter, out_start, out_end, inside_start, inside_end
    <2>2. /\ x_len' \in Int \ {0} /\ x_len <= x_len' /\ x_len' <= out_end
          /\ \A c \in Int \ {0} : c < x_len' <=> c < x_len
        BY <1>1, <2>1, RightOfFacts
    <2>3. Columns \subseteq Int \ {0} /\ Rows \subseteq Int \ {0}
          /\ Columns' = Columns /\ Rows' = Rows
        BY <1>1, <2>1 DEF Columns, Rows
    <2>4. LeftColumns' = LeftColumns
        <3>1. {c \in Columns : c < x_len'} = {c \in Columns : c < x_len}
            BY <2>2, <2>3
        <3> QED BY <2>3, <3>1 DEF LeftColumns
    <2>5. RowsAbove' = {}
        BY <1>1, <2>1, <2>3 DEF RowsAbove, Rows
    <2>6. out_start <= x_len /\ Visited = LeftColumns
        BY <2>1 DEF IInv, LoopInv
    <2>7. Visited' = LeftColumns' \cup RowsAbove'
        BY <2>1, <2>4, <2>5, <2>6 DEF Visited
    <2>8. x_len' \in Columns'
        BY <1>1, <2>2, <2>3, <2>6 DEF Columns
    <2>9. TypeOK' /\ NoRevisit'
        BY <1>1, <2>1, <2>2 DEF IInv, TypeOK, NoRevisit
    <2> QED BY <1>1, <2>1, <2>7, <2>8, <2>9 DEF IInv, LoopInv
<1>3. CASE OuterExit
    <2>1. /\ UNCHANGED <<scope, x_len, y_len, map_tag_vec>>
          /\ pc = "outer" /\ pc' = "done" /\ out_end < x_len
        BY <1>1, <1>3 DEF OuterExit
    <2>2. {c \in Columns : c < x_len} = Columns
        BY <1>1, <2>1 DEF Columns
    <2>3. Visited = CoverTags(scope)
        BY <2>1, <2>2 DEF IInv, LoopInv, LeftColumns, CoverTags, Columns, Rows,
                          out_start, out_end, inside_start, inside_end
    <2>4. Visited' = CoverTags(scope')
        BY <2>1, <2>3 DEF Visited
    <2> QED BY <2>1, <2>4 DEF IInv, TypeOK, LoopInv, NoRevisit
<1>4. CASE InnerVisit
    <2> DEFINE r == Below(y_len)
               t == Tag(x_len, r)
    <2>1. /\ UNCHANGED <<scope, pc, x_len, out_start, out_end, inside_start, inside_end>>
          /\ map_tag_vec' = Append(map_tag_vec, t) /\ y_len' = r - 1
          /\ pc = "inner" /\ inside_end - 1 < y_len
        BY <1>4 DEF InnerVisit, out_start, out_end, inside_start, inside_end
    <2>2. /\ r \in Int \ {0} /\ r <= y_len /\ inside_end <= r /\ ~(r > y_len)
          /\ \A q \in Int \ {0} : q > r - 1 <=> q > y_len \/ q = r
        BY <1>1, <2>1, BelowFacts
    <2>3. /\ x_len \in Columns /\ y_len <= inside_start
          /\ Visited = LeftColumns \cup RowsAbove
        BY <2>1 DEF IInv, LoopInv
    <2> HIDE DEF r
    <2>4. Columns \subseteq Int \ {0} /\ Rows \subseteq Int \ {0}
          /\ Columns' = Columns /\ Rows' = Rows
        BY <1>1, <2>1 DEF Columns, Rows
    <2>5. r \in Rows
        BY <1>1, <2>2, <2>3 DEF Rows
    <2>6. LeftColumns' = LeftColumns
        BY <2>1, <2>4 DEF LeftColumns
    <2>7. RowsAbove' = RowsAbove \cup {t}
        <3>1. {q \in Rows : q > y_len'} = {q \in Rows : q > y_len} \cup {r}
            BY <2>1, <2>2, <2>4, <2>5
        <3> QED BY <2>1, <2>4, <3>1 DEF RowsAbove
    <2>8. t \in Tags /\ t.x_len = x_len /\ t.y_len = r
        <3>1. Tag(x_len, r) = [field_id |-> FieldId(x_len, r), x_len |-> x_len, y_len |-> r]
            BY DEF Tag
        <3>2. FieldId(x_len, r) \in {"A", "B", "C", "D"}
            BY DEF FieldId
        <3> QED BY <2>2, <2>3, <2>4, <3>1, <3>2
    <2>9. t \notin Visited
        <3>1. \A c \in {d \in Columns : d < x_len}, j \in Rows : Tag(c, j) # t
            BY <1>1, <2>4, <2>8, TagFacts
        <3>2. \A j \in {q \in Rows : q > y_len} : Tag(x_len, j) # t
            BY <1>1, <2>2, <2>4, <2>8, TagFacts
        <3> QED BY <2>3, <3>1, <3>2 DEF LeftColumns, RowsAbove
    <2>10. map_tag_vec \in Seq(Tags) /\ NoRevisit
        BY DEF IInv, TypeOK
    <2> HIDE DEF t, Tags
    <2>11. Visited' = Visited \cup {t} /\ NoRevisit'
        BY <2>1, <2>8, <2>9, <2>10, AppendFacts
    <2>12. map_tag_vec' \in Seq(Tags)
        BY <2>1, <2>8, <2>10
    <2>13. TypeOK'
        BY <1>1, <2>1, <2>2, <2>12 DEF IInv, TypeOK, Tags
    <2>14. y_len' <= inside_start'
        BY <1>1, <2>1, <2>2, <2>3
    <2> QED BY <2>1, <2>3, <2>4, <2>6, <2>7, <2>11, <2>13, <2>14 DEF IInv, LoopInv
<1>5. CASE InnerExit
    <2>1. /\ UNCHANGED <<scope, y_len, map_tag_vec, out_start, out_end, inside_start, inside_end>>
          /\ x_len' = x_len + 1 /\ pc = "inner" /\ pc' = "outer" /\ y_len < inside_end
        BY <1>1, <1>5 DEF InnerExit, out_start, out_end, inside_start, inside_end
    <2>2. /\ x_len \in Columns
          /\ Visited = LeftColumns \cup RowsAbove
        BY <2>1 DEF IInv, LoopInv
    <2>3. Columns \subseteq Int \ {0} /\ Rows \subseteq Int \ {0}
          /\ Columns' = Columns /\ Rows' = Rows
        BY <1>1, <2>1 DEF Columns, Rows
    <2>4. RowsAbove = {Tag(x_len, j) : j \in Rows}
        <3>1. {q \in Rows : q > y_len} = Rows
            BY <1>1, <2>1 DEF Rows
        <3> QED BY <3>1 DEF RowsAbove
    <2>5. LeftColumns' = LeftColumns \cup {Tag(x_len, j) : j \in Rows}
        <3>1. {c \in Columns : c < x_len'} = {c \in Columns : c < x_len} \cup {x_len}
            <4>1. \A c \in Columns : c < x_len' <=> c < x_len \/ c = x_len
                BY <1>1, <2>1, <2>3
            <4> QED BY <2>2, <4>1
        <3>2. LeftColumns' = {Tag(i, j) : i \in {c \in Columns : c < x_len'}, j \in Rows}
            BY <2>3 DEF LeftColumns
        <3> QED BY <3>1, <3>2 DEF LeftColumns
    <2>6. Visited' = LeftColumns'
        BY <2>1, <2>2, <2>4, <2>5 DEF Visited
    <2>7. out_start' <= x_len'
        BY <1>1, <2>1, <2>2 DEF Columns
    <2>8. TypeOK' /\ NoRevisit'
        BY <1>1, <2>1 DEF IInv, TypeOK, NoRevisit
    <2> QED BY <2>1, <2>6, <2>7, <2>8 DEF IInv, LoopInv
<1>6. CASE UNCHANGED vars
    <2>1. UNCHANGED <<scope, pc, x_len, y_len, map_tag_vec>>
        BY <1>6 DEF vars
    <2>2. TypeOK'
        BY <2>1 DEF IInv, TypeOK
    <2>3. NoRevisit' /\ Visited' = Visited
        BY <2>1 DEF IInv, NoRevisit, Visited
    <2>4. UNCHANGED <<out_start, out_end, inside_start, inside_end>>
        BY <2>1 DEF out_start, out_end, inside_start, inside_end
    <2>5. Columns' = Columns /\ Rows' = Rows
        BY <2>4 DEF Columns, Rows
    <2>6. LeftColumns' = LeftColumns /\ RowsAbove' = RowsAbove
        BY <2>1, <2>5 DEF LeftColumns, RowsAbove
    <2>7. LoopInv'
        BY <2>1, <2>3, <2>4, <2>5, <2>6 DEF IInv, LoopInv
    <2> QED BY <2>2, <2>3, <2>7 DEF IInv
<1> QED BY <1>2, <1>3, <1>4, <1>5, <1>6 DEF Next

-----------------------------------------------------------------------------
(* The loop invariant of the two loops holds of every run.                  *)
THEOREM Invariance == Spec => []IInv
BY InitIInv, NextIInv, PTL DEF Spec

(* The listed tags have indices other than 0, whatever the scope.           *)
THEOREM TypeCorrect == Spec => []TypeOK
<1>1. IInv => TypeOK
    BY DEF IInv
<1> QED BY <1>1, Invariance, PTL

(* For any grid and any scope the loops list exactly CoverTags(scope).      *)
THEOREM WalkIsExact == Spec => []CoverExact
<1>1. IInv => CoverExact
    BY DEF IInv, LoopInv, CoverExact
<1> QED BY <1>1, Invariance, PTL

(* For any grid and any scope no map is listed twice.                       *)
THEOREM WalkListsOnce == Spec => []NoRevisit
<1>1. IInv => NoRevisit
    BY DEF IInv
<1> QED BY <1>1, Invariance, PTL

-----------------------------------------------------------------------------
(* The walk runs down.  Every step leaves less to do: fewer columns, or as  *)
(* many and less of the outer loop's body, or as much of that and fewer     *)
(* rows.                                                                    *)

\* How many numbers there are from a to b.
UpTo(a, b) == IF a <= b THEN b + 1 - a ELSE 0

ColumnsLeft == UpTo(x_len, out_end)
BodyLeft    == CASE pc = "outer" -> 2 [] pc = "inner" -> 1 [] pc = "done" -> 0
RowsLeft    == UpTo(inside_end, y_len)

Left == <<<<ColumnsLeft, BodyLeft>>, RowsLeft>>

Lefts == (Nat \X Nat) \X Nat

LessNat  == OpToRel(<, Nat)
LessLeft == LexPairOrdering(LexPairOrdering(LessNat, LessNat, Nat, Nat), LessNat, Nat \X Nat, Nat)

\* A step leaves less to do.
Descends == <<Left', Left>> \in LessLeft

(* In this order nothing decreases for ever.                                *)
LEMMA LeftIsWellFounded == IsWellFoundedOn(LessLeft, Lefts)
<1>1. IsWellFoundedOn(LessNat, Nat)
    BY NatLessThanWellFounded DEF LessNat
<1>2. IsWellFoundedOn(LexPairOrdering(LessNat, LessNat, Nat, Nat), Nat \X Nat)
    BY <1>1, WFLexPairOrdering, Zenon
<1> QED BY <1>1, <1>2, WFLexPairOrdering, Zenon DEF LessLeft, Lefts

LEMMA LessLeftFacts ==
    ASSUME NEW c \in Nat, NEW b \in Nat, NEW r \in Nat,
           NEW c1 \in Nat, NEW b1 \in Nat, NEW r1 \in Nat,
           \/ c1 < c
           \/ c1 = c /\ b1 < b
           \/ c1 = c /\ b1 = b /\ r1 < r
    PROVE  <<<<<<c1, b1>>, r1>>, <<<<c, b>>, r>>>> \in LessLeft
<1>1. \A m, n \in Nat : m < n => <<m, n>> \in LessNat
    BY DEF LessNat, OpToRel
<1> DEFINE Pairs == LexPairOrdering(LessNat, LessNat, Nat, Nat)
<1>2. c1 < c \/ (c1 = c /\ b1 < b) => <<<<c1, b1>>, <<c, b>>>> \in Pairs
    BY <1>1 DEF LexPairOrdering
<1> HIDE DEF Pairs
<1>3. \/ <<<<c1, b1>>, <<c, b>>>> \in Pairs
      \/ <<c1, b1>> = <<c, b>> /\ <<r1, r>> \in LessNat
    BY <1>1, <1>2
<1>4. <<<<<<c1, b1>>, r1>>, <<<<c, b>>, r>>>> \in LexPairOrdering(Pairs, LessNat, Nat \X Nat, Nat)
    BY <1>3 DEF LexPairOrdering
<1> QED BY <1>4 DEF LessLeft, Pairs

LEMMA UpToFacts ==
    ASSUME NEW a \in Int, NEW b \in Int, NEW c \in Int
    PROVE  /\ UpTo(a, b) \in Nat
           /\ a <= c => UpTo(c, b) = UpTo(a, b) \/ UpTo(c, b) < UpTo(a, b)
           /\ a < c /\ a <= b => UpTo(c, b) < UpTo(a, b)
           /\ c < b /\ a <= b => UpTo(a, c) < UpTo(a, b)
BY DEF UpTo

Counted == ColumnsLeft \in Nat /\ BodyLeft \in Nat /\ RowsLeft \in Nat

\* What is left is counted in natural numbers.
LEMMA LeftCounts == TypeOK => Counted
<1> SUFFICES ASSUME TypeOK PROVE Counted
    OBVIOUS
<1>1. out_end \in Int /\ inside_end \in Int /\ x_len \in Int /\ y_len \in Int
    BY CornerFacts DEF TypeOK
<1>2. ColumnsLeft \in Nat /\ RowsLeft \in Nat
    BY <1>1, UpToFacts DEF ColumnsLeft, RowsLeft
<1>3. BodyLeft \in Nat
    BY DEF TypeOK, BodyLeft
<1> QED BY <1>2, <1>3 DEF Counted

LEMMA StepsLeft == IInv /\ Next => <<Left', Left>> \in LessLeft
<1> SUFFICES ASSUME IInv, Next PROVE <<Left', Left>> \in LessLeft
    OBVIOUS
<1>1. /\ out_start \in Int \ {0} /\ out_end \in Int \ {0}
      /\ inside_start \in Int \ {0} /\ inside_end \in Int \ {0}
      /\ x_len \in Int /\ y_len \in Int
    BY CornerFacts DEF IInv, TypeOK
<1>2. UNCHANGED <<out_end, inside_end>>
    BY DEF Next, OuterEnter, OuterExit, InnerVisit, InnerExit, out_end, inside_end
<1> DEFINE Less == \/ ColumnsLeft' < ColumnsLeft
                   \/ ColumnsLeft' = ColumnsLeft /\ BodyLeft' < BodyLeft
                   \/ ColumnsLeft' = ColumnsLeft /\ BodyLeft' = BodyLeft /\ RowsLeft' < RowsLeft
<1>3. ASSUME OuterEnter PROVE Less
    <2>1. x_len < out_end + 1 /\ x_len' = RightOf(x_len)
        BY <1>3 DEF OuterEnter
    <2>2. x_len' \in Int /\ x_len <= x_len'
        BY <1>1, <2>1, RightOfFacts
    <2>3. ColumnsLeft' = ColumnsLeft \/ ColumnsLeft' < ColumnsLeft
        BY <1>1, <1>2, <2>2, UpToFacts DEF ColumnsLeft
    <2>4. BodyLeft' < BodyLeft
        BY <1>3 DEF OuterEnter, BodyLeft
    <2> QED BY <2>3, <2>4
<1>4. ASSUME OuterExit PROVE Less
    <2>1. ColumnsLeft' = ColumnsLeft
        BY <1>2, <1>4 DEF OuterExit, ColumnsLeft
    <2>2. BodyLeft' < BodyLeft
        BY <1>4 DEF OuterExit, BodyLeft
    <2> QED BY <2>1, <2>2
<1>5. ASSUME InnerVisit PROVE Less
    <2>1. ColumnsLeft' = ColumnsLeft /\ BodyLeft' = BodyLeft
        BY <1>2, <1>5 DEF InnerVisit, ColumnsLeft, BodyLeft
    <2>2. inside_end - 1 < y_len /\ y_len' = Below(y_len) - 1
        BY <1>5 DEF InnerVisit
    <2>3. y_len' \in Int /\ y_len' < y_len /\ inside_end <= y_len
        BY <1>1, <2>2, BelowFacts
    <2>4. RowsLeft' < RowsLeft
        BY <1>1, <1>2, <2>3, UpToFacts DEF RowsLeft
    <2> QED BY <2>1, <2>4
<1>6. ASSUME InnerExit PROVE Less
    <2>1. x_len \in Columns /\ x_len' = x_len + 1
        BY <1>6 DEF InnerExit, IInv, LoopInv
    <2>2. x_len' \in Int /\ x_len < x_len' /\ x_len <= out_end
        BY <1>1, <2>1 DEF Columns
    <2>3. ColumnsLeft' < ColumnsLeft
        BY <1>1, <1>2, <2>2, UpToFacts DEF ColumnsLeft
    <2> QED BY <2>3
<1>7. Less
    BY <1>3, <1>4, <1>5, <1>6 DEF Next
<1>8. TypeOK /\ TypeOK'
    BY NextIInv DEF IInv
<1>9. Counted /\ Counted'
    BY <1>8, LeftCounts, PTL
<1> QED BY <1>7, <1>9, LessLeftFacts DEF Counted, Left

(* For any grid and any scope, inverted ones included, every step leaves    *)
(* less to do, in an order in which nothing decreases for ever: neither the  *)
(* steps over index 0 nor a scope beyond the border let a loop go round for  *)
(* ever.                                                                    *)
THEOREM WalkRunsDown ==
    /\ IsWellFoundedOn(LessLeft, Lefts)
    /\ Spec => [](Left \in Lefts)
    /\ Spec => [][Descends]_vars
<1>1. IInv => Left \in Lefts
    BY LeftCounts DEF IInv, Counted, Left, Lefts
<1>2. IInv /\ [Next]_vars => [Descends]_vars
    BY StepsLeft DEF Descends
<1>3. Spec => [](Left \in Lefts)
    BY <1>1, Invariance, PTL
<1>4. Spec => [][Descends]_vars
    BY <1>2, Invariance, PTL DEF Spec
<1> QED BY <1>3, <1>4, LeftIsWellFounded
=============================================================================
