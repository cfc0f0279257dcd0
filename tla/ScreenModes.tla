----------------------------- MODULE ScreenModes -----------------------------
(* The plugins that turn the screen or put something over it.               *)
EXTENDS Grabs

-----------------------------------------------------------------------------
(* The rotate plugin and the unfolding of the cube plugin.  A rotation     *)
(* holds its grab until an animation has ended, after the key or button    *)
(* that began it was released; rotating on drag and drop goes without.     *)

CONSTANTS
    Columns,     \* vpSize ().width (): the viewports of a row, the faces of the cube
    SnapTop,     \* the option snap_top (or snap_bottom) of rotate
    EdgeFlip,    \* which of "pointer", "window" and "dnd" may flip at an edge
    FlipDelay    \* the option flip_time is not zero

\* high: the speed the pointer gave the cube brings its top to the front
NoRotation == [handle |-> Null, grabbed |-> FALSE, moving |-> FALSE, slow |-> FALSE,
               timer |-> FALSE, high |-> FALSE, snap |-> FALSE, state |-> "None",
               moveWindow |-> NoWindow, moveX |-> Min(Places),
               grabWindow |-> NoWindow, term |-> FALSE]

NotUnfolded == [handle |-> Null, unfolded |-> FALSE, term |-> FALSE]

\* initiate, with an action (a key, a button) or called by rotate
RotateInitiate(S, action) ==
    LET r == S.rotate
        blocked == IF r.timer /\ r.grabWindow # NoWindow
                   THEN OtherGrabExist(S, {"rotate", "move"})
                   ELSE OtherGrabExist(S, {"rotate", "switcher", "cube"})
        T == [S EXCEPT !.rotate.moving = FALSE, !.rotate.slow = FALSE,
                       !.rotate.state = IF action THEN "Manual" ELSE "Change"]
        U == IF r.handle # Null THEN T
             ELSE [PushGrab(T, "rotate") EXCEPT
                      !.rotate.handle = Pushed(T)]
    IN IF Columns < 2 \/ blocked THEN S
       ELSE IF U.rotate.handle = Null THEN U
       ELSE [U EXCEPT !.rotate.grabbed = TRUE, !.rotate.snap = SnapTop,
                      !.rotate.term = @ \/ action]

\* terminate: Escape and Return, which name no root window, also let go of the top
RotateTerminate(S, released) ==
    [S EXCEPT !.rotate.grabbed = @ /\ S.rotate.handle = Null,
              !.rotate.snap = @ /\ (released \/ S.rotate.handle = Null),
              !.rotate.term = FALSE]

ReleaseMoveWindow(S) ==
    LET w == S.rotate.moveWindow
    IN [(IF Found(S, w) THEN SyncPosition(S, w) ELSE S) EXCEPT !.rotate.moveWindow = NoWindow]

\* rotate, in a direction: the grab may fail
RotateBy(S) ==
    IF \/ Columns < 2
       \/ OtherGrabExist(S, {"rotate", "move", "switcher", "group-drag", "cube"})
    THEN S
    ELSE LET T == ReleaseMoveWindow(S)
             U == IF T.rotate.handle = Null THEN RotateInitiate(T, FALSE) ELSE T
         IN [U EXCEPT !.rotate.moving = TRUE, !.rotate.grabbed = FALSE]

\* rotateWithWindow: the window is chosen even when the grab fails then
RotateWithWindow(S, w) ==
    LET r == S.rotate
        T == IF r.moveWindow = w THEN S ELSE ReleaseMoveWindow(S)
        U == IF r.moveWindow # w /\ r.handle = Null /\ ~r.moving /\ Found(S, w)
             THEN [T EXCEPT !.rotate.moveWindow = w, !.rotate.moveX = T.win[w].geometry.at]
             ELSE T
        V == IF r.handle = Null THEN RotateInitiate(U, FALSE) ELSE U
    IN IF Columns < 2 THEN S
       ELSE IF V.rotate.handle = Null THEN V
       ELSE [V EXCEPT !.rotate.moving = TRUE, !.rotate.grabbed = FALSE]

\* rotateFlip, the callback of mRotateTimer
RotateFlip(S) ==
    LET T == [S EXCEPT !.rotate.slow = FALSE]
        U == IF OtherGrabExist(S, {"rotate", "move", "group-drag"}) THEN T ELSE RotateBy(T)
    IN [U EXCEPT !.rotate.timer = FALSE]

\* may an edge the pointer has entered flip the cube
MayFlip(S, dnd) ==
    /\ Columns >= 2
    /\ ~OtherGrabExist(S, {"rotate", "move", "group-drag"})
    /\ IF dnd THEN "dnd" \in EdgeFlip /\ ~OtherGrabExist(S, {"rotate"})
       ELSE IF OtherGrabExist(S, {"rotate", "group-drag"})
       THEN /\ "window" \in EdgeFlip
            /\ S.rotate.grabWindow # NoWindow
            /\ ~S.win[S.rotate.grabWindow].maximized
       ELSE IF OtherGrabExist(S, {"rotate"}) THEN "window" \in EdgeFlip
       ELSE "pointer" \in EdgeFlip

\* rotateEdgeFlip: at once, or slowly until the timer runs out
RotateEdgeFlip(S, dnd) ==
    IF ~MayFlip(S, dnd) THEN S
    ELSE IF ~FlipDelay \/ (S.rotate.moving /\ ~S.rotate.slow) THEN RotateBy(S)
    ELSE [S EXCEPT !.rotate.timer = TRUE, !.rotate.moving = TRUE, !.rotate.slow = TRUE]

\* flipTerminate, when the pointer leaves the edge, and for Escape
FlipTerminate(S) ==
    IF S.rotate.timer THEN [S EXCEPT !.rotate.timer = FALSE, !.rotate.slow = FALSE] ELSE S

\* MotionNotify: with the cube in hand the pointer turns it, also to its top
RotateMotion(S, high) ==
    IF S.rotate.handle # Null /\ S.rotate.grabbed
    THEN [S EXCEPT !.rotate.high = high] ELSE S

\* _NET_DESKTOP_VIEWPORT of the root window, and RotateWindow::activate of a window
\* of another viewport
RotateTo(S) ==
    IF OtherGrabExist(S, {"rotate", "switcher", "cube"}) THEN S ELSE RotateBy(S)

\* focusDefaultWindow: the window that was active last; there are two at most, so that
\* when the active one is gone there is no choice
FocusDefault(S) ==
    IF Mapped(S) = {} \/ S.active \in Mapped(S) THEN S
    ELSE [S EXCEPT !.active = CHOOSE w \in Mapped(S) : TRUE]

\* Places are those in the viewport that is shown: a window that is taken along stays
\* at its place, moved but not told to the server
KeepMoveWindow(S) ==
    LET w == S.rotate.moveWindow
    IN IF Found(S, w) THEN Move(S, w, S.rotate.moveX) ELSE S

\* the cube has turned to a face
RotateDone(S) ==
    LET r == S.rotate
        T == [RemoveGrab(S, r.handle) EXCEPT
                 !.rotate.moving = FALSE, !.rotate.state = "None", !.rotate.high = FALSE,
                 !.rotate.handle = Null]
    IN IF r.moveWindow # NoWindow THEN ReleaseMoveWindow(KeepMoveWindow(T))
       ELSE IF GrabExist(T, "switcher") THEN T ELSE FocusDefault(T)

\* preparePaint: the animation of a cube that is let go of has reached a face; one
\* that snaps to its top, which takes more than two faces, stays there
RotatePrepare(S, there) ==
    LET r == S.rotate
    IN IF r.handle = Null /\ ~r.moving THEN S
       ELSE IF ~there \/ r.grabbed \/ (r.high /\ r.snap /\ Columns > 2) THEN KeepMoveWindow(S)
       ELSE RotateDone(S)

-----------------------------------------------------------------------------
(* PrivateCubeScreen: unfold, fold and preparePaint.                       *)

CONSTANT Faces     \* of the cube over all its outputs: vpSize ().width () * mNOutput

CubeUnfold(S) ==
    IF Faces < 4 \/ OtherGrabExist(S, {"rotate", "switcher", "cube"}) THEN S
    ELSE LET T == IF S.cube.handle # Null THEN S
                  ELSE [PushGrab(S, "cube") EXCEPT
                           !.cube.handle = Pushed(S)]
         IN [T EXCEPT !.cube.unfolded = @ \/ T.cube.handle # Null, !.cube.term = TRUE]

CubeFold(S) ==
    [S EXCEPT !.cube.unfolded = @ /\ S.cube.handle = Null, !.cube.term = FALSE]

\* the faces are together again: the grab goes
CubePrepare(S, there) ==
    IF S.cube.handle = Null \/ S.cube.unfolded \/ ~there THEN S
    ELSE [RemoveGrab(S, S.cube.handle) EXCEPT !.cube.handle = Null]


-----------------------------------------------------------------------------
(* The plugins that put something over the screen and take the pointer for *)
(* it: zoom, annotate, screenshot, clone (of outputs) and water.           *)

CONSTANT MaxOutputs     \* bound: how many outputs there may be

ASSUME OutputsAssumption == MaxOutputs \in Nat \ {0}

\* the outputs, by their numbers
Outputs == 0 .. MaxOutputs - 1

-----------------------------------------------------------------------------
(* zoom.  selecting is "grab" in the code, output is zoomOutput, the one   *)
(* that moves; whole are the outputs whose box (current) is all of them.   *)
(* A box that is drawn is "none" (empty), "part" of the output or "whole". *)

NoZoom == [handle |-> Null, pan |-> Null, selecting |-> FALSE, box |-> "none",
           output |-> 0, zoomed |-> {}, adjust |-> FALSE, whole |-> {}, listens |-> FALSE,
           hooks |-> FALSE, paint |-> FALSE, term |-> FALSE, panTerm |-> FALSE]

Among(set, o, in) == IF in THEN set \cup {o} ELSE set \ {o}

\* the grab of zooming, taken by zoomIn and zoomInitiate; it may fail
ZoomGrab(S) ==
    IF S.zoom.handle # Null THEN S
    ELSE [PushGrab(S, "zoom") EXCEPT !.zoom.handle = Pushed(S), !.zoom.listens = TRUE]

\* initiateForSelection: nothing for an empty box
ZoomToSelection(S, o, box) ==
    IF box = "none" THEN S
    ELSE [S EXCEPT !.zoom.whole = Among(@, o, box = "whole"), !.zoom.adjust = TRUE,
                   !.zoom.output = o, !.zoom.zoomed = @ \cup {o},
                   !.zoom.hooks = TRUE, !.zoom.paint = TRUE]

\* o is the output the pointer is over
ZoomIn(S, o) == ZoomToSelection(ZoomGrab(S), o, "part")

\* zoomInitiate: a box is to be drawn
ZoomInitiate(S, o, button) ==
    IF OtherGrabExist(S, {"zoom"}) THEN S
    ELSE [ZoomGrab(S) EXCEPT !.zoom.selecting = TRUE, !.zoom.box = "none", !.zoom.output = o,
                             !.zoom.paint = TRUE, !.zoom.term = @ \/ button]

\* zoomOut: the hooks it needs are those zooming in has left on
ZoomOut(S, o) ==
    [RemoveGrab(S, S.zoom.handle) EXCEPT
        !.zoom.whole = @ \cup {o}, !.zoom.output = o, !.zoom.adjust = TRUE,
        !.zoom.selecting = FALSE,
        !.zoom.handle = Null, !.zoom.listens = @ /\ S.zoom.handle = Null]

\* zoomTerminate, the same for a released button and for Escape; the box is on the
\* output it was begun on
ZoomTerminate(S, o) ==
    [(IF S.zoom.selecting
      THEN [ZoomToSelection(S, S.zoom.output, S.zoom.box) EXCEPT !.zoom.selecting = FALSE]
      ELSE ZoomOut(S, o)) EXCEPT !.zoom.term = FALSE]

ZoomInitiatePan(S, o, button) ==
    IF o \notin S.zoom.zoomed \/ OtherGrabExist(S, {"zoom"}) THEN S
    ELSE LET T == IF S.zoom.pan # Null THEN S
                  ELSE [PushGrab(S, "zoom-pan") EXCEPT !.zoom.pan = Pushed(S)]
         IN [T EXCEPT !.zoom.panTerm = @ \/ button, !.zoom.output = o]

\* zoomTerminatePan leaves StateTermButton set
ZoomTerminatePan(S) ==
    [RemoveGrab(S, S.zoom.pan) EXCEPT !.zoom.pan = Null]

\* handleMotionEvent: the pointer draws the box, or pans: then the output's box is the
\* one shown on the way to it, which is the whole output still before the first frame
ZoomMotion(S, box) ==
    IF ~S.zoom.listens \/ S.zoom.handle = Null THEN S
    ELSE IF S.zoom.pan = Null THEN [S EXCEPT !.zoom.box = box]
    ELSE IF ~S.zoom.adjust THEN S
    ELSE [S EXCEPT !.zoom.whole = Among(@, S.zoom.output, box = "whole")]

\* preparePaint: the zoom has got to its box, or to the whole output
ZoomPrepare(S, there) ==
    IF ~S.zoom.hooks \/ ~S.zoom.adjust \/ ~there THEN S
    ELSE [S EXCEPT !.zoom.adjust = FALSE,
                   !.zoom.zoomed = @ \ ({S.zoom.output} \cap S.zoom.whole)]

\* mutant: also while zoomed in
ZoomDoneAtRest(S) ==
    IF S.zoom.hooks /\ ~S.zoom.adjust
    THEN [S EXCEPT !.zoom.hooks = FALSE, !.zoom.paint = FALSE] ELSE S

ZoomDone(S) ==
    IF S.zoom.hooks /\ ~S.zoom.adjust /\ S.zoom.zoomed = {}
    THEN [S EXCEPT !.zoom.hooks = FALSE, !.zoom.paint = FALSE] ELSE S

-----------------------------------------------------------------------------
(* annotate                                                                *)

Shapes == {"line", "rectangle", "ellipse"}

\* term: the modes whose action has StateTermButton
NoAnnotation == [handle |-> Null, mode |-> "none", content |-> FALSE,
                 listens |-> FALSE, paint |-> FALSE, term |-> {}]

\* initiateErase, initiateFreeDraw, initiateLine, initiateRectangle and
\* initiateEllipse, by a button: not over any grab, its own included
AnnotateInitiate(S, mode) ==
    IF OtherGrabExist(S, {}) THEN S
    ELSE LET T == IF S.annotate.handle # Null THEN S
                  ELSE [PushGrab(S, "annotate") EXCEPT !.annotate.handle = Pushed(S)]
         IN [T EXCEPT !.annotate.mode = mode, !.annotate.listens = TRUE,
                      !.annotate.term = @ \cup {mode}]

\* drawLine, drawRectangle, drawEllipse and, by an action, drawText; erasing draws too
Draw(S) == [S EXCEPT !.annotate.content = TRUE]

\* terminate, of the actions of these modes: the shape that was begun is drawn, whether
\* cancelled or not
AnnotateTerminate(S, modes) ==
    LET T == RemoveGrab(S, S.annotate.handle)
        U == IF S.annotate.mode \in Shapes THEN Draw(T) ELSE T
    IN [U EXCEPT !.annotate.handle = Null, !.annotate.mode = "none",
                 !.annotate.term = @ \ modes]

\* clear: of everything but the grab
AnnotateClear(S) ==
    IF ~S.annotate.content THEN S
    ELSE [S EXCEPT !.annotate.content = FALSE, !.annotate.listens = FALSE,
                   !.annotate.paint = FALSE]

\* handleMotionEvent
AnnotateMotion(S) ==
    IF ~S.annotate.listens \/ S.annotate.handle = Null THEN S
    ELSE LET T == IF S.annotate.mode \in {"erase", "freeDraw"} THEN Draw(S) ELSE S
         IN [T EXCEPT !.annotate.paint = TRUE]

-----------------------------------------------------------------------------
(* screenshot.  "grab" lasts from the choice of the rectangle to the frame *)
(* that is read; files counts the frames that were read to be written.     *)

NoShot == [handle |-> Null, grab |-> FALSE, box |-> FALSE, listens |-> FALSE,
           capture |-> FALSE, paint |-> FALSE, term |-> FALSE, files |-> 0]

ShotInitiate(S, button) ==
    IF OtherGrabExist(S, {"screenshot"}) THEN S
    ELSE LET T == IF S.shot.handle # Null THEN S
                  ELSE [PushGrab(S, "screenshot") EXCEPT !.shot.handle = Pushed(S),
                                                         !.shot.listens = TRUE]
         IN [T EXCEPT !.shot.box = FALSE, !.shot.grab = TRUE, !.shot.paint = TRUE,
                      !.shot.term = @ \/ button]

ShotTerminate(S, cancel) ==
    LET held == S.shot.handle # Null
        T == [RemoveGrab(S, S.shot.handle) EXCEPT
                 !.shot.handle = Null, !.shot.capture = @ \/ held,
                 !.shot.listens = @ /\ ~held, !.shot.grab = @ /\ ~(held /\ cancel)]
    IN [T EXCEPT !.shot.term = FALSE, !.shot.paint = FALSE]

ShotMotion(S, box) ==
    IF S.shot.listens /\ S.shot.handle # Null THEN [S EXCEPT !.shot.box = box] ELSE S

\* paint, after the screen has been painted
ShotPaint(S) ==
    IF ~S.shot.capture \/ ~S.shot.grab \/ S.shot.handle # Null THEN S
    ELSE [S EXCEPT !.shot.files = IF S.shot.box THEN @ + 1 ELSE @,
                   !.shot.capture = FALSE, !.shot.grab = FALSE]

-----------------------------------------------------------------------------
(* clone.  clones is the list of [src, dst]; n the number of outputs; there *)
(* says that "offset" is 1.  The constructor sets no dst.                  *)

NoClone == [handle |-> Null, grab |-> FALSE, there |-> TRUE, clones |-> <<>>, n |-> 0,
            grabbed |-> 0, src |-> 0, dst |-> 0, hooks |-> FALSE, term |-> FALSE]

\* the output that o shows: initiate follows the clones until there is none
Traced(clones, o) ==
    LET by(d) == {i \in DOMAIN clones : clones[i].dst = d}
        source[k \in 0 .. Len(clones)] ==
            IF k = 0 THEN o
            ELSE LET d == source[k - 1]
                 IN IF by(d) = {} THEN d ELSE clones[Min(by(d))].src
    IN source[Len(clones)]

CloneInitiate(S, output, button) ==
    IF S.clone.grab \/ OtherGrabExist(S, {"clone"}) THEN S
    ELSE LET T == IF S.clone.handle # Null THEN S
                  ELSE [PushGrab(S, "clone") EXCEPT !.clone.handle = Pushed(S)]
         IN [T EXCEPT !.clone.grab = TRUE, !.clone.grabbed = output,
                      !.clone.src = Traced(S.clone.clones, output),
                      !.clone.hooks = TRUE, !.clone.term = @ \/ button]

\* terminate, over an output; Escape and Return name none and mean the first
CloneTerminate(S, output) ==
    IF S.clone.handle = Null THEN [S EXCEPT !.clone.term = FALSE]
    ELSE [RemoveGrab(S, S.clone.handle) EXCEPT
             !.clone.handle = Null, !.clone.dst = output, !.clone.term = FALSE]

\* preparePaint: without the grab the image grows over its output
ClonePrepare(S, there) ==
    IF S.clone.hooks /\ S.clone.grab
    THEN [S EXCEPT !.clone.there = S.clone.handle = Null /\ (@ \/ there)] ELSE S

\* finish: dst shows src, or, when that is the output it came from, nothing else
CloneFinish(S) ==
    LET c == S.clone
        at == {i \in DOMAIN c.clones : c.clones[i].dst = c.dst}
        new == [src |-> c.src, dst |-> c.dst]
        set == IF c.src = c.dst THEN c.clones
               ELSE IF at = {} THEN Append(c.clones, new)
               ELSE [c.clones EXCEPT ![Min(at)] = new]
        old == {i \in DOMAIN set : set[i].dst = c.grabbed}
    IN [S EXCEPT !.clone.grab = FALSE,
                 !.clone.clones = IF c.grabbed = c.dst \/ old = {} THEN set
                                  ELSE RemoveAt(set, Min(old))]

\* donePaint
CloneDone(S) ==
    IF ~S.clone.hooks THEN S
    ELSE LET T == IF S.clone.grab /\ S.clone.there THEN CloneFinish(S) ELSE S
         IN [T EXCEPT !.clone.hooks = T.clone.grab \/ T.clone.clones # <<>>]

\* The outputs of the core change.  CloneScreen::outputChangeNotify would take the
\* clones of outputs that are gone out of the list, but the plugin registers with its
\* functions disabled and enables others only: it is never called.
OutputsChange(S, n) == [S EXCEPT !.clone.n = n]

-----------------------------------------------------------------------------
(* water.  count is what is left of the ripples: "high", "low", or "none". *)

NoWater == [handle |-> Null, count |-> "none", listens |-> FALSE, hooks |-> FALSE,
            rain |-> FALSE, wiper |-> FALSE, term |-> FALSE]

\* waterVertices, with fragment programs; also waterPoint, waterLine and waterTitleWave
Ripple(S) == [S EXCEPT !.water.count = "high", !.water.hooks = @ \/ S.water.count = "none"]

\* waterInitiate: StateTermKey is set even when another has the grab
WaterInitiate(S, key) ==
    LET T == IF S.water.handle # Null THEN S
             ELSE [PushGrab(S, "water") EXCEPT !.water.handle = Pushed(S),
                                               !.water.listens = TRUE]
    IN [(IF OtherGrabExist(S, {"water"}) THEN S ELSE Ripple(T))
           EXCEPT !.water.term = @ \/ key]

WaterTerminate(S) ==
    IF S.water.handle = Null THEN S
    ELSE [RemoveGrab(S, S.water.handle) EXCEPT !.water.handle = Null,
                                               !.water.listens = FALSE]

\* waterToggleRain and waterToggleWiper; the timers go on when they ran
ToggleRain(S) == [S EXCEPT !.water.rain = ~@]
ToggleWiper(S) == [S EXCEPT !.water.wiper = ~@]
RainTimeout(S) == IF S.water.rain THEN Ripple(S) ELSE S

\* handleEvent: a press, or a motion, of the pointer
WaterPointer(S) ==
    IF S.water.listens /\ S.water.handle # Null THEN Ripple(S) ELSE S

\* preparePaint: the ripples fade, unless the wiper makes new ones
WaterPrepare(S, wipes) ==
    IF ~S.water.hooks \/ S.water.count = "none" THEN S
    ELSE LET T == [S EXCEPT !.water.count = IF @ = "high" THEN "low" ELSE "none"]
         IN IF S.water.wiper /\ wipes THEN Ripple(T) ELSE T

WaterDone(S) ==
    IF S.water.hooks /\ S.water.count = "none"
    THEN [S EXCEPT !.water.hooks = FALSE] ELSE S
==============================================================================
