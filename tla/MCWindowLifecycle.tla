--------------------------- MODULE MCWindowLifecycle ---------------------------
EXTENDS WindowLifecycle

CONSTANTS w1, w2

MCPair == [w \in Windows |-> IF w = w2 THEN w1 ELSE NoWindow]

(* Everything that hides and shows a window; a client that withdraws,       *)
(* reparents and destroys its window; a window and its transient on a       *)
(* changing number of desktops.                                             *)
MCCourses ==
    {[windows |-> {w1}, requests |-> 4,
      kinds |-> {"create", "map", "destroy", "iconify", "deiconify", "current", "desktop",
                 "showDesktop", "shade", "activate"}],
     [windows |-> {w1}, requests |-> 5,
      kinds |-> {"create", "map", "withdraw", "destroy", "away", "back", "iconify",
                 "deiconify", "showDesktop", "activate"}],
     [windows |-> {w1, w2}, requests |-> 3,
      kinds |-> {"map", "iconify", "deiconify", "activate", "current", "desktop",
                 "showDesktop", "number"}]}
=============================================================================
