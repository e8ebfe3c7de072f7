----------------------------- MODULE CoverWalk ------------------------------
(***************************************************************************)
(* get_cover_map_by_scope: the two nested loops that list the maps of a    *)
(* scope, one test of a loop condition and the body after it per step.     *)
(* Each loop steps over index 0 without testing its condition again.       *)
(***************************************************************************)
EXTENDS WorldGrid, Sequences

CONSTANT Scopes     \* the scopes asked for

ASSUME ScopesAssumption == Scopes \subseteq Scope

VARIABLES
    scope,
    pc,             \* "outer", "inner": about to test that loop; "done"
    x_len, y_len,
    map_tag_vec

vars == <<scope, pc, x_len, y_len, map_tag_vec>>

out_start    == AreaIndex(scope.left_up.x)
out_end      == AreaIndex(scope.right_down.x)
inside_start == AreaIndex(scope.left_up.y)
inside_end   == AreaIndex(scope.right_down.y)

Init ==
    /\ scope \in Scopes
    /\ pc = "outer"
    /\ x_len = out_start
    /\ y_len = inside_start
    /\ map_tag_vec = <<>>

\* Mutant: the column next to the axis on the left is entered as column 0.
RightOfStay(x) == x

RightOf(x) == IF x = 0 THEN x + 1 ELSE x

\* Mutant: row 0 is visited.
BelowStay(y) == y

Below(y) == IF y = 0 THEN y - 1 ELSE y

\* Mutant: `continue` at index 0, as the code once had.
OuterContinue ==
    /\ pc = "outer" /\ x_len < out_end + 1
    /\ x_len # 0
    /\ y_len' = inside_start
    /\ pc' = "inner"
    /\ UNCHANGED <<scope, x_len, map_tag_vec>>

\* while x_len < out_end + 1
OuterEnter ==
    /\ pc = "outer" /\ x_len < out_end + 1
    /\ x_len' = RightOf(x_len)
    /\ y_len' = inside_start
    /\ pc' = "inner"
    /\ UNCHANGED <<scope, map_tag_vec>>

OuterExit ==
    /\ pc = "outer" /\ ~(x_len < out_end + 1)
    /\ pc' = "done"
    /\ UNCHANGED <<scope, x_len, y_len, map_tag_vec>>

\* Mutant: y_len is decremented only where it skips row 0.
InnerForgets ==
    /\ pc = "inner" /\ inside_end - 1 < y_len
    /\ map_tag_vec' = Append(map_tag_vec, Tag(x_len, Below(y_len)))
    /\ y_len' = Below(y_len)
    /\ UNCHANGED <<scope, pc, x_len>>

\* while inside_end - 1 < y_len
InnerVisit ==
    /\ pc = "inner" /\ inside_end - 1 < y_len
    /\ map_tag_vec' = Append(map_tag_vec, Tag(x_len, Below(y_len)))
    /\ y_len' = Below(y_len) - 1
    /\ UNCHANGED <<scope, pc, x_len>>

InnerExit ==
    /\ pc = "inner" /\ ~(inside_end - 1 < y_len)
    /\ x_len' = x_len + 1
    /\ pc' = "outer"
    /\ UNCHANGED <<scope, y_len, map_tag_vec>>

Next == OuterEnter \/ OuterExit \/ InnerVisit \/ InnerExit

Spec == Init /\ [][Next]_vars

\* The loops run inside one call: nothing stops them.
FairSpec == Spec /\ WF_vars(Next)

-----------------------------------------------------------------------------
TypeOK ==
    /\ scope \in Scopes
    /\ pc \in {"outer", "inner", "done"}
    /\ x_len \in Int
    /\ y_len \in Int
    /\ map_tag_vec \in Seq([field_id : {"A", "B", "C", "D"},
                            x_len : Int \ {0}, y_len : Int \ {0}])

Visited == {map_tag_vec[k] : k \in 1..Len(map_tag_vec)}

(* The walk lists exactly the tags of the scope, which is what Query reads: *)
(* skipping index 0 loses no map and adds none.                             *)
CoverExact == pc = "done" => Visited = CoverTags(scope)

(* No map is listed twice, so a query returns no user twice although the    *)
(* code no longer removes duplicates.                                       *)
NoRevisit ==
    \A k, l \in 1..Len(map_tag_vec) : map_tag_vec[k] = map_tag_vec[l] => k = l

(* The walk ends, for scopes across the axes, beyond the border and inverted *)
(* ones.                                                                    *)
Terminates == <>(pc = "done")
=============================================================================
