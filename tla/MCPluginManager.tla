---------------------------- MODULE MCPluginManager ----------------------------
(***************************************************************************)
(* Instances of PluginManager for TLC: b needs a, the screen of x fails,   *)
(* c refuses a window and d both, no library is found for z.               *)
(***************************************************************************)
EXTENDS PluginManager

CONSTANTS core, ini, a, b, c, d, x, z, w1, w2

MCNeeds == [n \in Names |-> IF n = b THEN {core, a} ELSE IF n = core THEN {} ELSE {core}]

MCRefused == [n \in Names |-> CASE n = c -> {w1} [] n = d -> {w1, w2} [] OTHER -> {}]

MCDefault == <<core, ini, x>>
MCInitials == {<<>>, <<core, ini>>, <<z, ini>>}

MCLists == {<<core, ini>>, <<core, ini, a, b>>, <<b, a, ini>>, <<ini, z, x, a>>, <<z, a, c, b, ini>>, <<d, a>>}

=============================================================================
