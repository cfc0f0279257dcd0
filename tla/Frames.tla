------------------------------- MODULE Frames -------------------------------
(* gtk-window-decorator as the program the user clicks in: the buttons and  *)
(* borders of a decoration, its tooltips, the menu of window actions and    *)
(* the dialog that offers to kill a client.  An input frame has an X window *)
(* per button and border; an output frame is one widget, where motion is    *)
(* turned into the enter and leave events of its boxes.  F is the state of  *)
(* the program, F.win[w] the decor_t of w, and F.out what it asks of the    *)
(* window manager in the event at hand.                                     *)
EXTENDS Naturals, Sequences

CONSTANTS Window,      \* windows with a frame
          Dock,        \* windows of a kind that has no menu of actions
          DoubleClick, \* what a double click on a title does
          MiddleClick, \* ... and a middle or right click on a title or border
          None

Button == {"close", "max", "min", "menu", "shade", "unshade"}
NoClick == [num |-> 0, win |-> None]

NewFrame == [known |-> FALSE, mode |-> "none", decorated |-> FALSE, shaded |-> FALSE,
             wide |-> TRUE, entered |-> None, st |-> [b \in Button |-> {}], dialog |-> FALSE]
NewProgram == [win |-> [w \in Window |-> NewFrame], tip |-> [due |-> None, shown |-> None],
               menu |-> [of |-> None, mapped |-> FALSE], click |-> NoClick, out |-> <<>>]

D(F, w) == F.win[w]
Ask(F, m) == [F EXCEPT !.out = Append(@, m)]

-----------------------------------------------------------------------------
(* Tooltips: one window for all, shown a while after the pointer entered.   *)

ShowTooltip(F, tip) == [F EXCEPT !.tip.shown = tip]
HideTooltipKeepsTimer(F) == [F EXCEPT !.tip.shown = None]
HideTooltip(F) == [F EXCEPT !.tip = [due |-> None, shown |-> None]]
TooltipTimeout(F) == ShowTooltip([F EXCEPT !.tip.due = None], F.tip.due)
TooltipStartDelay(F, tip) == IF F.tip.due # None THEN F ELSE [F EXCEPT !.tip.due = tip]

HandleTooltip(F, w, b, type, active) ==
    CASE type \in {"press", "leave"} -> HideTooltip(F)
      [] type = "enter" -> IF "pressed" \notin D(F, w).st[b] /\ active
                           THEN TooltipStartDelay(F, <<w, b>>) ELSE F
      [] type = "release" -> F

-----------------------------------------------------------------------------
(* The menu of window actions.  A popped down menu is kept until the next   *)
(* one is made; asking for one while one is up takes it down; asking for    *)
(* one over a dock keeps the pointer to the one just destroyed ("freed").   *)

DropMenu(F) == [F EXCEPT !.menu = [of |-> None, mapped |-> FALSE]]
ActionMenuUnmap(F) == [F EXCEPT !.menu.mapped = FALSE]
ActionMenuMap(F, w) ==
    IF F.menu.mapped THEN DropMenu(F)
    ELSE IF w \in Dock
    THEN [F EXCEPT !.menu.of = IF @ = None THEN None ELSE "freed"]
    ELSE [F EXCEPT !.menu = [of |-> w, mapped |-> TRUE]]

(* move_resize_window and restack_window: a click that finds the menu up    *)
(* only takes it down.                                                      *)
MoveResizeWindow(F, w) == IF F.menu.mapped THEN DropMenu(F) ELSE Ask(F, <<"move", w, "border">>)
RestackWindow(F, w) == IF F.menu.mapped THEN DropMenu(F) ELSE Ask(F, <<"restack", w, "border">>)

-----------------------------------------------------------------------------
(* The callbacks of buttons: an event e has a type and a mouse button num.  *)

(* common_button_event; limit is the last mouse button that presses it.     *)
CommonButton(F, w, b, limit, e) ==
    LET st == D(F, w).st[b]
        New == CASE e.type = "press" -> IF e.num <= limit THEN st \cup {"pressed"} ELSE st
                 [] e.type = "release" -> IF e.num <= limit THEN st \ {"pressed"} ELSE st
                 [] e.type = "enter" -> st \cup {"in"}
                 [] e.type = "leave" -> st \ {"in"}
    IN  [HandleTooltip(F, w, b, e.type, e.active) EXCEPT !.win[w].st[b] = New]

(* A button acts when it is released in the state of a click.               *)
ClickedAnywhere(F, w, b, limit, e) ==
    e.type = "release" /\ e.num <= limit /\ "pressed" \in D(F, w).st[b]
Clicked(F, w, b, limit, e) ==
    e.type = "release" /\ e.num <= limit /\ D(F, w).st[b] = {"pressed", "in"}

ActOn(F, w, b, limit, e, m) ==
    IF Clicked(F, w, b, limit, e) THEN Ask(CommonButton(F, w, b, limit, e), m)
    ELSE CommonButton(F, w, b, limit, e)

CloseButton(F, w, e) == ActOn(F, w, "close", 1, e, <<"close", w, "close">>)
MaxButton(F, w, e) == ActOn(F, w, "max", 3, e, <<"state", w, "max">>)
MinButton(F, w, e) == ActOn(F, w, "min", 1, e, <<"state", w, "min">>)
StateButton(F, w, b, e) == ActOn(F, w, b, 1, e, <<"state", w, b>>)
MenuButton(F, w, e) ==
    IF e.type = "press" /\ e.num = 1 THEN ActionMenuMap(CommonButton(F, w, "menu", 1, e), w)
    ELSE CommonButton(F, w, "menu", 1, e)

-----------------------------------------------------------------------------
(* The callbacks of the title and the borders.                              *)

TitleAction(F, w, action) ==
    CASE action = "shade" -> Ask(F, <<"state", w, IF D(F, w).shaded THEN "unshade" ELSE "shade">>)
      [] action \in {"max", "min"} -> Ask(F, <<"state", w, action>>)
      [] action \in {"raise", "lower"} -> RestackWindow(F, w)
      [] action = "menu" -> ActionMenuMap(F, w)
      [] action = "none" -> F

(* The second of two near clicks in time (soon) is a double click.          *)
Title(F, w, e) ==
    LET double == F.click = [num |-> 1, win |-> w] /\ e.soon
        Forget(G) == [G EXCEPT !.click = NoClick]
        Remember(G) == [G EXCEPT !.click = [num |-> 1, win |-> w]]
    IN  CASE e.type # "press" -> F
          [] e.num = 1 /\ double -> Forget(TitleAction(F, w, DoubleClick))
          [] e.num = 1 /\ ~double -> MoveResizeWindow(RestackWindow(Remember(F), w), w)
          [] e.num > 1 -> TitleAction(F, w, MiddleClick)
Border(F, w, e) ==
    CASE e.type # "press" -> F
      [] e.num = 1 -> RestackWindow(MoveResizeWindow(F, w), w)
      [] e.num > 1 -> TitleAction(F, w, MiddleClick)

(* The wheel over a title; here it shades and unshades.                     *)
Wheel(F, w, up) ==
    IF up # D(F, w).shaded THEN Ask(F, <<"state", w, IF up THEN "shade" ELSE "unshade">>) ELSE F

Callback(F, w, cb, e) ==
    CASE cb = "close" -> CloseButton(F, w, e)
      [] cb = "max" -> MaxButton(F, w, e)
      [] cb = "min" -> MinButton(F, w, e)
      [] cb = "menu" -> MenuButton(F, w, e)
      [] cb \in {"shade", "unshade"} -> StateButton(F, w, cb, e)
      [] cb = "title" -> Title(F, w, e)
      [] cb = "border" -> Border(F, w, e)

(* What lies at a place of the decoration: update_event_windows puts the    *)
(* buttons there are and leaves out those too much for a narrow window.     *)
At(F, w, place) ==
    CASE place = None \/ D(F, w).mode = "none" -> None
      [] place \in {"title", "border"} -> place
      [] place = "roll" -> IF ~D(F, w).wide THEN "title"
                           ELSE IF D(F, w).shaded THEN "unshade" ELSE "shade"
      [] place = "menu" -> "menu"
      [] place \in {"close", "max", "min"} -> IF D(F, w).wide THEN place ELSE "title"
      [] place = "gap" -> None

-----------------------------------------------------------------------------
(* Events of the two kinds of frame.                                        *)

(* event_filter_func: an event of the X window of a callback.               *)
InputEvent(F, w, cb, e) ==
    IF D(F, w).mode = "input" /\ D(F, w).decorated THEN Callback(F, w, cb, e) ELSE F

(* frame_handle_button_press and _release: whatever box was entered last,   *)
(* the box at the place of the event gets it.                               *)
OutputButton(F, w, place, e) ==
    IF At(F, w, place) # None /\ D(F, w).decorated
    THEN Callback(F, w, At(F, w, place), e) ELSE F

(* frame_handle_motion: the box entered hears of it before the one left.    *)
OutputMotion(F, w, place, e) ==
    LET cb == At(F, w, place)
        old == D(F, w).entered
        Send(G, to, type) == Callback(G, w, to, [e EXCEPT !.type = type])
        Leave(G) == IF old # None THEN Send(G, old, "leave") ELSE G
        Entered(G) == [G EXCEPT !.win[w].entered = cb]
    IN  CASE ~D(F, w).decorated \/ cb = old -> F
          [] OTHER -> IF cb # None THEN Entered(Leave(Send(F, cb, "enter")))
                      ELSE Entered(Leave(F))

-----------------------------------------------------------------------------
(* What the program hears of windows.                                       *)

(* update_event_windows; v is what libwnck knows of the window now.  The    *)
(* boxes of an output frame move under the pointer.                         *)
UpdateEventWindows(F, w, v) == [F EXCEPT !.win[w].wide = v.wide]
UpdateState(F, w, v) == [F EXCEPT !.win[w].shaded = v.shaded]

(* add_frame_window: windows of an input frame are made with no state, the  *)
(* boxes of an output frame keep theirs.                                    *)
AddFrameWindow(F, w, mode, v) ==
    LET Clean(G) == IF mode = "input" THEN [G EXCEPT !.win[w].st = [b \in Button |-> {}]] ELSE G
        Made(G) == [G EXCEPT !.win[w].mode = mode, !.win[w].entered = None,
                             !.win[w].decorated = @ \/ v.hinted]
    IN  IF D(F, w).mode = "output" /\ mode = "output" THEN F
        ELSE UpdateEventWindows(UpdateState(Clean(Made(F)), w, v), w, v)
(* remove_frame_window takes the dialog with it.                            *)
RemoveFrameWindow(F, w) ==
    [F EXCEPT !.win[w].mode = "none", !.win[w].decorated = FALSE, !.win[w].dialog = FALSE]
WindowClosed(F, w) == [RemoveFrameWindow(F, w) EXCEPT !.win[w] = NewFrame]

(* window_state_changed, window_geometry_changed and the motif hints.       *)
StateChanged(F, w, v) ==
    IF D(F, w).decorated THEN UpdateEventWindows(UpdateState(F, w, v), w, v) ELSE F
GeometryChanged(F, w, v) == IF D(F, w).decorated THEN UpdateEventWindows(F, w, v) ELSE F
HintsChanged(F, w, v) ==
    LET Set(G) == [G EXCEPT !.win[w].decorated = v.hinted]
    IN  IF v.hinted /\ ~D(F, w).decorated THEN UpdateEventWindows(Set(F), w, v) ELSE Set(F)

(* The dialog: shown and hidden as the window manager says, or answered.    *)
ShowForceQuit(F, w) == [F EXCEPT !.win[w].dialog = TRUE]
HideForceQuit(F, w) == [F EXCEPT !.win[w].dialog = FALSE]
ForceQuitResponse(F, w, accept) ==
    LET Kill(G) == IF accept THEN Ask(G, <<"kill", w, "dialog">>) ELSE G
    IN  HideForceQuit(Kill(F), w)
ToolkitAction(F, m) ==
    CASE m[1] = "menu" -> ActionMenuMap(F, m[2])
      [] m[1] = "dialog" -> IF ~D(F, m[2]).known THEN F
                            ELSE IF m[3] THEN ShowForceQuit(F, m[2]) ELSE HideForceQuit(F, m[2])
=============================================================================
