------------------------------- MODULE MCDesktop -------------------------------
(* Desktops of a few windows, and what is done to them.                    *)
EXTENDS Desktop

CONSTANTS A, B, C

Kind == [wmType |-> "normal", full |-> FALSE, above |-> FALSE, modal |-> FALSE,
         trans |-> NoWindow, leader |-> 0, override |-> FALSE, input |-> TRUE,
         take |-> FALSE, time |-> NoTime]

Session == [clickToFocus |-> TRUE, raiseOnClick |-> TRUE, autoraise |-> "no",
            level |-> "Off", kind |-> [w \in Windows |-> Kind], present |-> <<A, B>>,
            most |-> 3,
            does |-> {}]

\* normal windows that are clicked, minimized, activated and closed
Plain == [Session EXCEPT !.does = {"map", "click", "minimize", "destroy", "activate"},
                         !.kind = [Session.kind EXCEPT ![C].take = TRUE]]

\* a parent, a dialog of it, and a dialog of their group
Kin == [Session EXCEPT !.most = 4, !.does = {"map", "Above", "Below", "activate"},
                       !.kind = [w \in Windows |->
                           CASE w = B -> [Kind EXCEPT !.wmType = "dialog", !.trans = A,
                                                      !.leader = 1]
                             [] w = C -> [Kind EXCEPT !.wmType = "dialog", !.leader = 1,
                                                      !.modal = TRUE]
                             [] OTHER -> [Kind EXCEPT !.leader = 1]]]

\* a dock, the desktop or a fullscreen window, and what the states change
Layers == [Session EXCEPT !.does = {"full", "below", "above", "Above", "activate"},
                          !.present = <<A, B, C>>,
                          !.kind[C].wmType = "dock"]

\* a menu that overrides
Menu == [Session EXCEPT !.does = {"map", "restack", "pager", "click"},
                        !.kind[C].override = TRUE]

\* the focus follows the pointer, on a desktop window
Sloppy == [Session EXCEPT !.does = {"pointer", "destroy", "activate"},
                          !.clickToFocus = FALSE, !.autoraise = "late",
                          !.kind[A].wmType = "desktop", !.present = <<A, B, C>>]

Denied == [Session EXCEPT !.does = {"map", "restack", "ask", "unmap"}, !.level = "Normal",
                          !.kind[B].time = 2, !.kind[C].time = 1]

MCSessions == {Plain, Kin, Layers, Menu, Sloppy, Denied}
=============================================================================
