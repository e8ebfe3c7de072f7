---------------------------- MODULE MCCoverWalk -----------------------------
(* All scopes with corners on a small grid: AreaLen = 2 and Half = 2 make   *)
(* 4 * 4 maps; the coordinates are the axis, inner points and edges of every *)
(* area, and points beyond the border on both sides.                        *)
EXTENDS CoverWalk

Coordinates == {-7, -4, -3, -2, -1, 0, 1, 2, 3, 4, 7}
Corners     == [x : Coordinates, y : {-5, -2, -1, 0, 1, 4}]
AllScopes   == [left_up : Corners, right_down : Corners]
=============================================================================
