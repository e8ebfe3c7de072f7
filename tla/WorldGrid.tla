----------------------------- MODULE WorldGrid ------------------------------
(***************************************************************************)
(* The grid of maps that the world is cut into, and the tags that name the *)
(* maps (map_tool.rs, World::init, the set get_cover_map_by_scope covers). *)
(* Coordinates are integers; the code computes with f32.  There is no area *)
(* with index 0: the areas next to an axis have the indices -1 and 1.      *)
(***************************************************************************)
EXTENDS Integers

CONSTANTS
    AreaLen,    \* side of an area (200000 in the code)
    Half        \* areas from the origin to the border (5 in the code)

ASSUME GridAssumption ==
    /\ AreaLen \in Nat \ {0}
    /\ Half \in Nat \ {0}

\* The border of the world: 1000000 = 5 * 200000.
Limit == Half * AreaLen

Position == [x : Int, y : Int]

WorldPosition == [x : -Limit..Limit, y : -Limit..Limit]

\* Mutant: only the negative border stops a user.
ClampBelow(v) == IF v < -Limit THEN -Limit ELSE v

Clamp(v) == IF v > Limit THEN Limit ELSE IF v < -Limit THEN -Limit ELSE v

-----------------------------------------------------------------------------
(* get_field_id_from_len_or_pos *)

FieldId(x, y) ==
    IF (x = 0 /\ y >= 0) \/ (x < 0 /\ y > 0) THEN "A"
    ELSE IF x > 0 /\ y >= 0 THEN "B"
    ELSE IF x < 0 /\ y <= 0 THEN "C"
    ELSE "D"

(* pos2map_tag, for one coordinate: round away from zero, 0 goes to 1, and  *)
(* what lies beyond the border in positive direction belongs to the last    *)
(* area; there is no such correction in negative direction.                 *)

Ceil(v) == (v + AreaLen - 1) \div AreaLen

Signed(v) == IF v >= 0 THEN Ceil(v) ELSE -Ceil(-v)

\* Mutant: round down, as `as i32` without ceil() would.
AreaIndexFloor(v) ==
    LET i == IF v >= 0 THEN v \div AreaLen ELSE -((-v) \div AreaLen)
    IN IF i = 0 THEN 1 ELSE IF i > Half THEN Half ELSE i

AreaIndex(v) ==
    LET i == Signed(v)
    IN IF i = 0 THEN 1 ELSE IF i > Half THEN Half ELSE i

Pos2MapTag(p) ==
    [field_id |-> FieldId(p.x, p.y), x_len |-> AreaIndex(p.x), y_len |-> AreaIndex(p.y)]

-----------------------------------------------------------------------------
(* World::init creates a map for every pair of indices.                     *)

Indices == (-Half..Half) \ {0}

Tag(i, j) == [field_id |-> FieldId(i, j), x_len |-> i, y_len |-> j]

MapTags == {Tag(i, j) : i \in Indices, j \in Indices}

-----------------------------------------------------------------------------
(* RectScope, and the maps a query of it visits.                            *)

Scope == [left_up : Position, right_down : Position]

InScope(p, s) ==
    /\ s.left_up.x <= p.x /\ p.x <= s.right_down.x
    /\ s.right_down.y <= p.y /\ p.y <= s.left_up.y

\* Mutant: the last row is left out.
CoverTagsShort(s) ==
    {Tag(i, j) : i \in (AreaIndex(s.left_up.x)..AreaIndex(s.right_down.x)) \ {0},
                 j \in ((AreaIndex(s.right_down.y) + 1)..AreaIndex(s.left_up.y)) \ {0}}

CoverTags(s) ==
    {Tag(i, j) : i \in (AreaIndex(s.left_up.x)..AreaIndex(s.right_down.x)) \ {0},
                 j \in (AreaIndex(s.right_down.y)..AreaIndex(s.left_up.y)) \ {0}}
=============================================================================
