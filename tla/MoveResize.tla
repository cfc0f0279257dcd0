------------------------------ MODULE MoveResize ------------------------------
(***************************************************************************)
(* The move and resize plugins over the grabs and the windows of the core. *)
(*                                                                         *)
(* A move ends when its grab does.  A resize does not: when terminating it *)
(* asks the server for a new width, the window stays the one being resized *)
(* (and no other can be resized) until the ConfigureNotify comes back      *)
(* through resizeNotify.                                                   *)
(***************************************************************************)
EXTENDS Grabs

CONSTANTS
    Lazy,         \* the option lazy_positioning of move, with compositing
    SnapOff,      \* the option snapoff_maximized of move
    DefaultMode   \* the option mode of resize

Modes == {"Normal", "Outline", "Rectangle", "Stretch"}

\* nothing is moved, or resized
NoMove == [w |-> NoWindow, grab |-> Null, button |-> 0, saved |-> 0, term |-> FALSE,
           was |-> FALSE, opaque |-> FALSE, paint |-> {}]

NoResize(g) == [w |-> NoWindow, grab |-> Null, button |-> 0, mode |-> DefaultMode,
                saved |-> g, geometry |-> g, directed |-> FALSE, term |-> FALSE,
                paint |-> {}, output |-> FALSE]

-----------------------------------------------------------------------------
(* move                                                                    *)

\* moveInitiate; b is the "button" option.  A window whose actions have no
\* move, and a desktop, dock, fullscreen or override redirect window, is none
\* of Windows.
MoveInitiate(S, w, button, b) ==
    IF ~Found(S, w) \/ OtherGrabExist(S, {"move"}) \/ S.move.w # NoWindow THEN S
    ELSE LET T == [S EXCEPT !.move.term = @ \/ button,
                            !.move.saved = S.win[w].server.at,
                            !.move.was = S.win[w].maximized]
             U == IF T.move.grab = Null
                  THEN [PushGrab(T, "move") EXCEPT !.move.grab = Pushed(T)] ELSE T
         IN IF U.move.grab = Null THEN U
            ELSE [GrabNotify(U, w) EXCEPT !.move.w = w, !.move.button = b,
                           !.move.paint = IF S.move.opaque THEN @ ELSE @ \cup {w}]

\* updateAttributes: a maximized window is put back into the work area
UpdateAttributes(S, w) ==
    IF S.win[w].maximized THEN ConfigureXWindow(S, w, WorkArea) ELSE S

\* moveTerminate; isButton: the action is that of the button
MoveTerminate(S, isButton, cancel) ==
    LET w == S.move.w
        T == SyncPosition(IF cancel THEN Move(S, w, S.move.saved) ELSE S, w)
        U == RemoveGrab(UpdateAttributes(T, w), S.move.grab)
        V == [UngrabNotify(U, w) EXCEPT !.move.w = NoWindow, !.move.grab = Null, !.move.button = 0,
                       !.move.paint = IF S.move.opaque THEN @ ELSE @ \ {w}]
    IN [(IF w = NoWindow THEN S ELSE V) EXCEPT !.move.term = @ /\ ~isButton]

MoveTerminateAll(S, cancel) == MoveTerminate(MoveTerminate(S, TRUE, cancel), FALSE, cancel)

\* the maximized window comes loose: the pointer is far from where it was
ComesLoose(S, w, far) ==
    SnapOff /\ S.win[w].maximized /\ far /\ ~OtherGrabExist(S, {"move"})

\* it snaps back: the pointer is near there again
SnapsBack(S, w, far) ==
    SnapOff /\ ~S.win[w].maximized /\ S.move.was /\ ~far /\ ~OtherGrabExist(S, {"move"})

\* a maximized window stays in the work area it fills
MoveTo(S, w, place) ==
    IF S.win[w].maximized \/ place = S.win[w].server.at THEN S
    ELSE LET T == Move(S, w, place)
         IN IF Lazy THEN [T EXCEPT !.win[w].server.at = place]
            ELSE SyncPosition(T, w)

\* moveHandleMotionEvent: the pointer takes the window to place, which is where the
\* window may go with its title in the region
MoveMotion(S, place, far) ==
    LET w == S.move.w
    IN IF S.move.grab = Null THEN S
       ELSE IF ComesLoose(S, w, far)
       THEN Maximize([S EXCEPT !.win[w].before.at = place], w, FALSE)
       ELSE IF SnapsBack(S, w, far) THEN Maximize(SyncPosition(S, w), w, TRUE)
       ELSE MoveTo(S, w, place)

\* MoveScreen::handleEvent before the core: a press or a release of the button
\* it waits for
MoveButton(S, b) ==
    IF S.move.grab # Null /\ S.move.button \in {AnyButton, b}
    THEN MoveTerminate(S, TRUE, FALSE) ELSE S

\* the window is unmapped or destroyed
MoveLeft(S, w) == IF S.move.w = w THEN MoveTerminateAll(S, FALSE) ELSE S

\* the option opacity changes, in the middle of a move or not
SetMoveOpaque(S, on) ==
    [S EXCEPT !.move.opaque = on,
              !.changed = @ \/ (S.move.w # NoWindow /\ S.move.opaque # on)]

-----------------------------------------------------------------------------
(* resize                                                                  *)

\* the grab is had: the button to wait for, and the others hear of it
ResizeGrabbed(S, w, b) == [GrabNotify(S, w) EXCEPT !.resize.button = b]

\* resizeInitiate with the mode of resizeInitiateDefaultMode; directed: the
\* direction is known (from the message, or the sector the pointer is in), which
\* it is not for a key.  The window is set before the grab is tried.
ResizeInitiate(S, w, button, directed, b, mode) ==
    IF \/ ~Found(S, w) \/ (button /\ ~directed) \/ OtherGrabExist(S, {"resize"})
       \/ S.resize.w # NoWindow
    THEN S
    ELSE LET m == IF S.win[w].maximized THEN "Normal" ELSE mode
             T == [S EXCEPT !.resize.term = @ \/ button, !.resize.w = w,
                            !.resize.directed = directed, !.resize.mode = m,
                            !.resize.saved = S.win[w].server,
                            !.resize.geometry = S.win[w].server,
                            !.resize.paint = IF m = "Stretch" THEN @ \cup {w} ELSE @,
                            !.resize.output = @ \/ m # "Normal"]
             U == IF T.resize.grab = Null
                  THEN [PushGrab(T, "resize") EXCEPT !.resize.grab = Pushed(T)] ELSE T
         IN IF U.resize.grab = Null THEN U
            ELSE ResizeGrabbed(U, w, b)

FinishResizing(S) == [UngrabNotify(S, S.resize.w) EXCEPT !.resize.w = NoWindow]

\* what resizeTerminate configures: a set of at most one geometry
ResizeTarget(S, cancel) ==
    LET r == S.resize
        g == IF cancel THEN r.saved ELSE r.geometry
    IN IF r.mode = "Normal" THEN IF cancel THEN {r.saved} ELSE {}
       ELSE IF g = r.saved THEN {} ELSE {g}

\* resizeTerminate
ResizeTerminate(S, isButton, cancel) ==
    LET r == S.resize
        w == r.w
        resized == \E g \in ResizeTarget(S, cancel) : g.size # S.win[w].server.size
        T == [S EXCEPT !.resize.paint = IF r.mode = "Stretch" THEN @ \ {w} ELSE @,
                       !.resize.output = @ /\ r.mode = "Normal"]
        U == IF resized THEN SendSyncRequest(T, w) ELSE T
        V == FoldSet(LAMBDA g, X : ConfigureXWindow(X, w, g), U, ResizeTarget(S, cancel))
        X == RemoveGrab(IF resized THEN V ELSE FinishResizing(V), r.grab)
    IN [(IF w = NoWindow THEN S
         ELSE [X EXCEPT !.resize.grab = Null, !.resize.button = 0])
            EXCEPT !.resize.term = @ /\ ~isButton]

ResizeTerminateAll(S, cancel) ==
    ResizeTerminate(ResizeTerminate(S, TRUE, cancel), FALSE, cancel)

\* updateWindowSize
UpdateWindowSize(S) ==
    LET w == S.resize.w IN
    IF S.win[w].syncWait \/ S.win[w].server.size = S.resize.geometry.size THEN S
    ELSE ConfigureXWindow(SendSyncRequest(S, w), w, S.resize.geometry)

\* handleKeyEvent: an arrow key chooses the direction, or warps the pointer
ResizeArrow(S) ==
    IF S.resize.grab # Null /\ S.resize.w # NoWindow
    THEN [S EXCEPT !.resize.directed = TRUE] ELSE S

\* handleMotionEvent without a direction: moving far enough chooses one
ResizeChooseDirection(S) == [S EXCEPT !.resize.directed = TRUE]

\* handleMotionEvent: to is the geometry the pointer has dragged the edge to,
\* within size hints, work area and the region the hot spot must stay in
ResizeGeometry(S, to) ==
    IF S.win[S.resize.w].maximized
    THEN [S.resize.geometry EXCEPT !.size = S.win[S.resize.w].server.size] ELSE to

ResizeDrag(S, to) ==
    LET T == [S EXCEPT !.resize.geometry = ResizeGeometry(S, to)]
    IN IF T.resize.mode = "Normal" THEN UpdateWindowSize(T) ELSE T

ResizeMotion(S, to) ==
    IF S.resize.grab = Null THEN S
    ELSE IF ~S.resize.directed THEN ResizeDrag(ResizeChooseDirection(S), S.resize.geometry)
    ELSE ResizeDrag(S, to)

\* ResizeScreen::handleEvent before the core: a release of the button it waits for
ResizeButton(S, b) ==
    IF S.resize.grab # Null /\ S.resize.button \in {AnyButton, b}
    THEN ResizeTerminate(S, TRUE, FALSE) ELSE S

ResizeLeft(S, w) == IF S.resize.w = w THEN ResizeTerminateAll(S, FALSE) ELSE S

\* XkbStateNotify: holding a modifier chooses the mode, releasing it returns to
\* that of the option; the paint hooks stay as they are
ResizeModifiers(S, mode) ==
    IF S.resize.w = NoWindow THEN S
    ELSE [S EXCEPT !.resize.mode = mode, !.changed = @ \/ S.resize.mode # mode]

\* ResizeWindow::resizeNotify
ResizeNotify(S, w) ==
    IF S.resize.w = w /\ S.resize.grab = Null THEN FinishResizing(S) ELSE S

-----------------------------------------------------------------------------
(* The core on events of windows.                                          *)

\* CompWindow::resize
Resize(S, w, g) ==
    IF S.win[w].geometry.size # g.size
    THEN ResizeNotify([S EXCEPT !.win[w].geometry = g], w)
    ELSE Move(S, w, g.at)

\* configureFrame: while the client is asked to catch up, keep it for later
Configured(S, w, g) ==
    IF S.win[w].syncWait THEN [S EXCEPT !.win[w].syncGeometry = g] ELSE Resize(S, w, g)

\* handleSyncAlarm, from syncWaitTimer: the alarm that could raise it is destroyed,
\* or was never made
SyncAlarm(S, w) ==
    Resize([S EXCEPT !.win[w].syncWait = FALSE], w, S.win[w].syncGeometry)

=============================================================================
