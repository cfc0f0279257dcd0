------------------------------ MODULE MCEffects ------------------------------
(* Two windows for the fade and blur plugins, and for wobbly on three       *)
(* places, next to one rectangle that windows may snap to.                  *)
EXTENDS Effects

CONSTANTS w1, w2

MCWindow == {w1, w2}
MCPlace == 0 .. 2
MCLoads == {{"fade"}, {"blur"}, {"wobbly"}}
MCNeighbours == {{}, {[x1 |-> 2, x2 |-> 3, y1 |-> 0, y2 |-> 2]}}

(* The four searches for edges, among up to two rectangles.                 *)
MCRectangle == {[x1 |-> a, x2 |-> a + 2, y1 |-> b, y2 |-> b + 1] : a, b \in 0 .. 2}
ASSUME EdgesHold({{r, s} : r, s \in MCRectangle} \cup {{}}, 0 .. 5)
=============================================================================
