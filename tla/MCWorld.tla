------------------------------ MODULE MCWorld -------------------------------
(* Small instances of World.                                                *)
EXTENDS World, TLC

Pos(a, b) == [x |-> a, y |-> b]
Rect(l, t, r, b) == [left_up |-> Pos(l, t), right_down |-> Pos(r, b)]

\* AreaLen = 2, Half = 3, steps of 4: the coordinates reached are -6, -5, -2,
\* -1, 2, 3 and 6, inner points and edges of areas in all four fields and on
\* the border, never a point of an axis.
OffAxisSpawns == {Pos(-1, 3), Pos(3, -5)}
OffAxisSteps  == {Zero, Pos(4, 0), Pos(0, -4)}

OffAxisScopes ==
    {Rect(-6, 6, 6, -6), Rect(-2, 3, 3, -2), Rect(2, 2, 2, 2), Rect(-9, 9, -3, -9),
     Rect(3, 9, 9, 0), Rect(0, 0, 6, -6), Rect(-1, 3, 2, 3), Rect(3, -3, -3, 3)}

\* The axes can be reached: AreaLen = 1, Half = 1.
AxisSpawns == {Pos(-1, 1)}
AxisSteps  == {Pos(1, 0)}

Users == Permutations(Ids) \cup Permutations(Clients)
=============================================================================
