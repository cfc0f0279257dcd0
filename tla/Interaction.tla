------------------------------ MODULE Interaction ------------------------------
(***************************************************************************)
(* The interactive plugins together, over the core: what the user and the  *)
(* clients do, the events the X server sends, the timers and the frames    *)
(* that are painted.                                                       *)
(*                                                                         *)
(* Every plugin wraps handleEvent: its own code runs before (for scale and *)
(* the switcher also after) that of the core, which comes last and runs    *)
(* the actions bound to the event.                                         *)
(***************************************************************************)
EXTENDS MoveResize, Pickers, ScreenModes

CONSTANTS
    Combinations,  \* the sets of plugins, and of what else happens, to look at
    Bound,         \* the button each plugin's action is bound to
    MaxInputs,     \* bound: how often the user and the clients act
    MaxEvents      \* bound: events on their way

ASSUME InteractionAssumption == MaxInputs \in Nat /\ MaxEvents \in Nat

VARIABLES
    loaded,    \* the plugins that are loaded, and the options and requests there are
    grabs,     \* the list of grabs
    foreign,   \* another client has grabbed the pointer
    win,       \* the windows
    events,    \* the events about windows on their way
    active,    \* the active window
    move, resize, scale, switch, rotate, cube, zoom, annotate, shot, clone, water,
    changed,   \* an option, or a mode, changed in the middle of an operation
    refused,   \* a grab was refused
    inputs     \* how often the user and the clients have acted

vars == <<loaded, grabs, foreign, win, events, active, move, resize, scale, switch,
          rotate, cube, zoom, annotate, shot, clone, water, changed, refused, inputs>>

S0 == [loaded |-> loaded, grabs |-> grabs, foreign |-> foreign, win |-> win,
       events |-> events, active |-> active, move |-> move, resize |-> resize,
       scale |-> scale, switch |-> switch, rotate |-> rotate, cube |-> cube,
       zoom |-> zoom, annotate |-> annotate, shot |-> shot, clone |-> clone,
       water |-> water, changed |-> changed, refused |-> refused]

Becomes(S) ==
    /\ grabs' = S.grabs /\ foreign' = S.foreign /\ win' = S.win /\ events' = S.events
    /\ active' = S.active /\ move' = S.move /\ resize' = S.resize /\ scale' = S.scale
    /\ switch' = S.switch /\ rotate' = S.rotate /\ cube' = S.cube /\ zoom' = S.zoom
    /\ annotate' = S.annotate /\ shot' = S.shot /\ clone' = S.clone
    /\ water' = S.water /\ changed' = S.changed /\ refused' = S.refused
    /\ UNCHANGED loaded

Init ==
    /\ loaded \in Combinations
    /\ grabs = <<>> /\ foreign = FALSE /\ events = <<>>
    /\ win = [w \in Windows |-> NewWindow] /\ active = NoWindow
    /\ move = NoMove /\ resize = NoResize(NewWindow.geometry)
    /\ scale = NoScale /\ switch = NoSwitch /\ rotate = NoRotation /\ cube = NotUnfolded
    /\ zoom = NoZoom /\ annotate = NoAnnotation /\ shot = NoShot
    /\ \E d \in IF "clone" \in loaded THEN Outputs ELSE {0} :
           clone = [NoClone EXCEPT !.n = MaxOutputs, !.dst = d]
    /\ water = NoWater
    /\ changed = FALSE /\ refused = FALSE /\ inputs = 0

Has(plugin) == plugin \in loaded

\* something the user or a client does
Input(S) ==
    /\ inputs < MaxInputs
    /\ Len(S.events) <= MaxEvents
    /\ inputs' = inputs + 1
    /\ Becomes(S)

-----------------------------------------------------------------------------
(* Actions of the plugins, as the core triggers them (handleActionEvent).  *)

\* the action of a plugin is bound to a button, or, of some, to a key; the pointer is
\* over window w and output o
ByButton(S, plugin, w, b, o) ==
    CASE plugin = "move" -> MoveInitiate(S, w, TRUE, b)
      [] plugin = "resize" -> ResizeInitiate(S, w, TRUE, TRUE, b, DefaultMode)
      [] plugin = "scale" -> ScaleInitiate(S, "button", "Normal")
      [] plugin = "rotate" -> RotateInitiate(S, TRUE)
      [] plugin = "zoom" -> ZoomInitiate(S, o, TRUE)
      [] plugin = "pan" -> ZoomInitiatePan(S, o, TRUE)
      [] plugin = "annotate" -> AnnotateInitiate(S, "line")
      [] plugin = "erase" -> AnnotateInitiate(S, "erase")
      [] plugin = "screenshot" -> ShotInitiate(S, TRUE)
      [] OTHER -> S

\* the plugin each of these actions belongs to
Owner(action) ==
    CASE action = "pan" -> "zoom" [] action = "erase" -> "annotate" [] OTHER -> action

ByKey(S, action, w, o) ==
    CASE action = "move" -> MoveInitiate(S, w, FALSE, AnyButton)
      [] action = "resize" -> ResizeInitiate(S, w, FALSE, FALSE, AnyButton, DefaultMode)
      [] action = "scale" -> ScaleInitiate(S, "key", "Normal")
      [] action = "scaleAll" -> ScaleInitiate(S, "key", "All")
      [] action = "switch" -> SwitchInitiateCommon(S, TRUE, TRUE)
      [] action = "switchBack" -> SwitchInitiateCommon(S, TRUE, FALSE)
      [] action = "switchNoPopup" -> SwitchInitiateCommon(S, FALSE, TRUE)
      [] action = "rotateLeft" -> RotateBy(S)
      [] action = "rotateWithWindow" -> RotateWithWindow(S, w)
      [] action = "unfold" -> CubeUnfold(S)
      [] action = "zoomIn" -> ZoomIn(S, o)
      [] action = "zoomOut" -> ZoomOut(S, o)
      [] action = "clear" -> AnnotateClear(S)
      [] action = "water" -> WaterInitiate(S, TRUE)
      [] action = "rain" -> ToggleRain(S)
      [] action = "wiper" -> ToggleWiper(S)
      [] action = "wave" -> Ripple(S)
      [] OTHER -> S

KeysOf(plugin) ==
    CASE plugin = "scale" -> {"scale", "scaleAll"}
      [] plugin = "switcher" -> {"switch", "switchBack", "switchNoPopup"}
      [] plugin = "rotate" -> {"rotateLeft", "rotateWithWindow"}
      [] plugin = "cube" -> {"unfold"}
      [] plugin = "zoom" -> {"zoomIn", "zoomOut"}
      [] plugin = "annotate" -> {"clear"}
      [] plugin = "water" -> {"water", "rain", "wiper", "wave"}
      [] plugin \in {"move", "resize"} -> {plugin}
      [] OTHER -> {}

\* triggerButtonReleaseBindings: actions with StateTermButton bound to b, released
\* over an output; that of zoom returns true, so nothing after it is asked
ReleaseBindings(S, b, output) ==
    LET bound(plugin) == Bound[plugin] = b
        MoveOff(T) == IF bound("move") /\ T.move.term THEN MoveTerminate(T, TRUE, FALSE) ELSE T
        ResizeOff(T) == IF bound("resize") /\ T.resize.term THEN ResizeTerminate(T, TRUE, FALSE)
                                                        ELSE T
        ScaleOff(T) == IF bound("scale") THEN ScaleRelease(T, "button") ELSE T
        RotateOff(T) == IF bound("rotate") /\ T.rotate.term THEN RotateTerminate(T, FALSE) ELSE T
        ModeOff(T, action, mode) ==
            IF bound(action) /\ mode \in T.annotate.term THEN AnnotateTerminate(T, {mode}) ELSE T
        AnnotateOff(T) == ModeOff(ModeOff(T, "erase", "erase"), "annotate", "line")
        ShotOff(T) == IF bound("screenshot") /\ T.shot.term THEN ShotTerminate(T, FALSE) ELSE T
        CloneOff(T) == IF bound("clone") /\ T.clone.term THEN CloneTerminate(T, output) ELSE T
        ZoomOff(T) == CASE bound("zoom") /\ T.zoom.term -> ZoomTerminate(T, output)
                     [] ~(bound("zoom") /\ T.zoom.term) /\ bound("pan") /\ T.zoom.panTerm
                          -> ZoomTerminatePan(T)
                     [] OTHER -> T
    IN ZoomOff(CloneOff(ShotOff(AnnotateOff(RotateOff(ScaleOff(ResizeOff(MoveOff(S))))))))

\* triggerKeyReleaseBindings: every key is released
KeyReleaseBindings(S) ==
    LET SwitchOff(T) == IF T.switch.termKey THEN SwitchTerminate(T, "key") ELSE T
        CubeOff(T) == IF T.cube.term THEN CubeFold(T) ELSE T
        WaterOff(T) == IF T.water.term THEN WaterTerminate(T) ELSE T
    IN WaterOff(CubeOff(SwitchOff(ScaleRelease(S, "key"))))

\* what of zoom is over, then the overlays; noOptions name no point of the screen, which
\* clone takes for the first output
TerminateRest(S, cancel, o) ==
    LET A == IF Has("zoom") THEN ZoomTerminatePan(ZoomTerminate(S, o)) ELSE S
        B == AnnotateTerminate(A, Shapes \cup {"erase", "freeDraw"})
    IN WaterTerminate(CloneTerminate(ShotTerminate(B, cancel), 0))

\* mutant: the switcher goes on
TerminateAllButSwitcher(S, cancel, o) ==
    LET A == ScaleEnd(ResizeTerminateAll(MoveTerminateAll(S, cancel), cancel), cancel)
    IN TerminateRest(CubeFold(FlipTerminate(RotateTerminate(A, FALSE))), cancel, o)

\* Escape (StateCancel) and Return (StateCommit) terminate every action
TerminateAll(S, cancel, o) ==
    LET A == ScaleEnd(ResizeTerminateAll(MoveTerminateAll(S, cancel), cancel), cancel)
        B == SwitchTerminate(A, IF cancel THEN "cancel" ELSE "commit")
    IN TerminateRest(CubeFold(FlipTerminate(RotateTerminate(B, FALSE))), cancel, o)

-----------------------------------------------------------------------------
(* Input.                                                                  *)

\* where the pointer may be
Pointed == IF Has("zoom") \/ Has("clone") THEN 0 .. clone.n - 1 ELSE {0}

\* ButtonPress over window w: first the plugins that wait for one; scale's slots are
\* elsewhere
Press ==
    \E b \in {1, 2}, w \in Windows, action \in DOMAIN Bound \cup {"none"}, o \in Pointed,
       slot \in (IF Has("scale") THEN Windows ELSE {}) \cup {NoWindow},
       workArea \in (IF Has("scale") THEN BOOLEAN ELSE {TRUE}) :
        /\ action # "none" => Has(Owner(action)) /\ Bound[action] = b
        /\ LET T == WaterPointer(ScalePress(MoveButton(S0, b), b, slot, workArea))
           IN Input(ByButton(T, action, w, b, o))

\* an output is dragged to another
CloneDrag ==
    /\ Has("clone")
    /\ \E output \in Pointed : Input(CloneInitiate(S0, output, TRUE))

Release ==
    \E b \in {1, 2}, output \in Pointed :
        Input(ReleaseBindings(ResizeButton(MoveButton(S0, b), b), b, output))

\* KeyPress with window w active
Key ==
    \E plugin \in loaded, w \in Windows, o \in Pointed :
        \E action \in KeysOf(plugin) : Input(ByKey(S0, action, w, o))

Arrow == \E w \in Windows : Input(MoveFocusWindow(ResizeArrow(S0), w))

KeyRelease == Input(KeyReleaseBindings(S0))

Escape == \E o \in Pointed : Input(TerminateAll(S0, TRUE, o))

Return == \E o \in Pointed : Input(TerminateAll(S0, FALSE, o))

\* MotionNotify: the pointer at a place; flag tells what the distance decides
Motion ==
    \E place \in Places, size \in Sizes, w \in Windows, flag \in BOOLEAN :
        LET A == ResizeMotion(MoveMotion(S0, place, flag), [at |-> place, size |-> size])
            B == RotateMotion(ScaleMotion(A, w), flag)
            box == CASE ~flag -> "none" [] flag /\ size = Max(Sizes) -> "whole" [] OTHER -> "part"
            C == ShotMotion(AnnotateMotion(ZoomMotion(B, box)), flag)
        IN /\ loaded \cap {"move", "resize", "rotate", "scale", "zoom", "annotate",
                           "screenshot", "water"} # {}
           /\ Input(WaterPointer(C))

\* a client message _NET_WM_MOVERESIZE: to move, to resize from a corner, by key,
\* or to cancel
MoveResizeMessage ==
    \E w \in Windows, b \in {1, AnyButton}, place \in Places :
        \/ /\ Has("move") /\ Found(S0, w)
           /\ Input(MoveMotion(MoveInitiate(S0, w, TRUE, b), place, FALSE))
        \/ /\ Has("resize") /\ Found(S0, w)
           /\ Input(ResizeInitiate(S0, w, TRUE, TRUE, b, DefaultMode))
        \/ /\ Has("move") /\ move.w = w
           /\ Input(MoveTerminateAll(S0, TRUE))
        \/ /\ Has("resize") /\ resize.w = w
           /\ Input(ResizeTerminateAll(S0, TRUE))

\* the pointer, or what it drags, enters or leaves an edge of the screen
Edge ==
    \/ /\ Has("rotate")
       /\ \E dnd \in BOOLEAN : Input(RotateEdgeFlip(S0, dnd))
    \/ /\ Has("rotate")
       /\ Input(FlipTerminate(S0))
    \/ /\ Has("scale")
       /\ \E by \in {"edge", "edgeDnd"} : Input(ScaleInitiate(S0, by, "Normal"))

\* XdndPosition, XdndDrop and XdndLeave on the window scale puts over the screen
Xdnd ==
    /\ Has("scale")
    /\ \/ \E w \in Windows \cup {NoWindow} : Input(ScaleDndPosition(S0, w))
       \/ Input(ScaleDndLeave(S0))

\* a pager asks for another viewport, or activates a window of one
Viewport == Has("rotate") /\ Input(RotateTo(S0))

Modifiers ==
    /\ Has("resize") /\ Has("mode")
    /\ \E mode \in Modes : Input(ResizeModifiers(S0, mode))

OptionChange ==
    \/ /\ Has("move") /\ Has("opacity")
       /\ Input(SetMoveOpaque(S0, ~move.opaque))
    \/ /\ Has("clone") /\ Has("outputs")
       /\ \E n \in 1 .. Cardinality(Outputs) : n # clone.n /\ Input(OutputsChange(S0, n))

\* another client grabs the pointer, or lets it go; only while compiz has no grab
Foreign ==
    /\ Has("foreign")
    /\ grabs = <<>>
    /\ Input([S0 EXCEPT !.foreign = ~@])

\* the server has told of w what is not handled yet
Leaving(w) == \E i \in DOMAIN events : events[i].win = w /\ events[i].type \in DOMAIN StageAfter

\* a window is minimized, or maximized and restored, by a pager or its decoration
Minimize ==
    \E w \in Windows :
        /\ win[w].stage = "mapped" /\ win[w].there
        /\ ~Leaving(w)
        /\ Input(Notify(S0, "UnmapNotify", w))

Unminimize ==
    \E w \in Windows :
        /\ win[w].stage = "minimized" /\ win[w].there
        /\ ~Leaving(w)
        /\ Input(Notify(S0, "MapNotify", w))

MaximizeMessage ==
    \E w \in Windows :
        /\ Has("maximize")
        /\ win[w].stage = "mapped"
        /\ Input(Maximize(S0, w, ~win[w].maximized))

\* the client destroys its window; the server unmaps it first (ClientUnmap stands for
\* an UnmapNotify of a window compiz has not unmapped itself)
Destroy ==
    \E w \in Windows :
        LET T == [S0 EXCEPT !.win[w].there = FALSE]
            U == IF win[w].stage = "mapped" THEN Notify(T, "ClientUnmap", w) ELSE T
        IN /\ win[w].there
           /\ ~Leaving(w)
           /\ Input(Notify(U, "DestroyNotify", w))

-----------------------------------------------------------------------------
(* The rest of the program.                                                *)

\* the core: the window is no longer viewable, and the focus goes to another
Left(S, w, stage) ==
    LET T == [S EXCEPT !.win[w].stage = stage]
    IN IF S.active = w THEN FocusDefault([T EXCEPT !.active = NoWindow]) ELSE T

\* UnmapNotify and DestroyNotify of w: move and resize before the core, scale and
\* the switcher after it
WindowLeaves(S, w, stage) ==
    SwitchLeft(ScaleWindowRemove(Left(ResizeLeft(MoveLeft(S, w), w), w, stage), w), w)

Handled(S, e) ==
    LET w == e.win IN
    IF ~Found(S, w) THEN S
    ELSE CASE e.type = "ConfigureNotify" -> Configured(S, w, e.to)
           [] e.type = "UnmapNotify" -> WindowLeaves(S, w, "minimized")
           [] e.type = "ClientUnmap" -> WindowLeaves(S, w, "unmapped")
           [] e.type = "MapNotify" -> [S EXCEPT !.win[w].stage = "mapped"]
           [] e.type = "Activate" -> Activate(S, w)
           [] e.type = "DestroyNotify" -> WindowLeaves(S, w, "gone")

Deliver ==
    /\ events # <<>>
    /\ Becomes(Handled([S0 EXCEPT !.events = Tail(@)], Head(events)))
    /\ UNCHANGED inputs

\* syncWaitTimer, for a client that does not catch up
SyncTimeout ==
    \E w \in Windows :
        /\ win[w].syncWait /\ Found(S0, w)
        /\ Becomes(SyncAlarm(S0, w))
        /\ UNCHANGED inputs

Hover == scale.hover = "on" /\ Becomes(ScaleHover(S0)) /\ UNCHANGED inputs

Flip == rotate.timer /\ Becomes(RotateFlip(S0)) /\ UNCHANGED inputs

Rain == water.rain /\ Becomes(RainTimeout(S0)) /\ UNCHANGED inputs

\* one frame: preparePaint of every plugin, paint, donePaint of every plugin; there:
\* what moves has got to its place
Frame(S, there) ==
    LET A == CubePrepare(RotatePrepare(S, there), there)
        B == SwitchPrepare(ScalePrepare(A, there), there)
        C == WaterPrepare(ClonePrepare(ZoomPrepare(B, there), there), ~there)
        D == CloneDone(ZoomDone(SwitchDone(ScaleDone(ShotPaint(C)))))
    IN WaterDone(D)

Paint(there) ==
    /\ Frame(S0, there) # S0
    /\ Becomes(Frame(S0, there))
    /\ UNCHANGED inputs

-----------------------------------------------------------------------------
Next ==
    \/ Press \/ CloneDrag \/ Release \/ Key \/ Arrow \/ KeyRelease \/ Escape \/ Return \/ Motion
    \/ MoveResizeMessage \/ Edge \/ Xdnd \/ Viewport
    \/ Modifiers \/ OptionChange \/ Foreign
    \/ Minimize \/ Unminimize \/ MaximizeMessage \/ Destroy
    \/ Deliver \/ SyncTimeout \/ Hover \/ Flip \/ Rain
    \/ \E there \in BOOLEAN : Paint(there)

SyncWaits == \E w \in Windows : win[w].syncWait /\ Found(S0, w)

\* The main loop handles every event and runs every timer; while something moves
\* every frame damages the screen and so brings the next, and moves come to rest.
\* Each is WF_vars of its action, with what enables the action written out.
Fairness ==
    /\ []<>(events = <<>>) \/ []<><<Deliver>>_vars
    /\ []<>~SyncWaits \/ []<><<SyncTimeout>>_vars
    /\ []<>(scale.hover = "off") \/ []<><<Hover>>_vars
    /\ []<>~rotate.timer \/ []<><<Flip>>_vars
    /\ []<>(Frame(S0, TRUE) = S0) \/ []<><<Paint(TRUE)>>_vars

Spec == Init /\ [][Next]_vars /\ Fairness

-----------------------------------------------------------------------------
(* Properties.                                                             *)

Names == {"move", "resize", "scale", "switcher", "rotate", "cube", "zoom", "zoom-pan",
          "annotate", "screenshot", "clone", "water"}

HandleOf(name) ==
    CASE name = "move" -> move.grab [] name = "resize" -> resize.grab
      [] name = "scale" -> scale.handle [] name = "switcher" -> switch.handle
      [] name = "rotate" -> rotate.handle [] name = "cube" -> cube.handle
      [] name = "zoom" -> zoom.handle [] name = "zoom-pan" -> zoom.pan
      [] name = "annotate" -> annotate.handle [] name = "screenshot" -> shot.handle
      [] name = "clone" -> clone.handle [] name = "water" -> water.handle

\* The list of grabs and the handles the plugins keep are the same, whatever order
\* plugins start and end in: no grab is left behind for which nobody has the handle
\* (the pointer would stay grabbed, and every other plugin blocked, until compiz
\* ends), and no plugin keeps the handle of a grab that is gone (pushGrab would hand
\* it out again, and the plugin would end another's grab).
GrabsHeld ==
    LET held == {n \in Names : HandleOf(n) # Null}
    IN /\ {<<grabs[i].name, grabs[i].handle>> : i \in DOMAIN grabs}
             = {<<n, HandleOf(n)>> : n \in held}
       /\ Len(grabs) = Cardinality(held)

\* No plugin keeps a pointer to a window that was destroyed, in any order of the
\* destruction, of the server's events about it and of what the plugins do.
ModesForget ==
    LET kept == {move.w, resize.w, rotate.grabWindow}
                  \cup (IF On(S0) THEN scale.windows ELSE {})
    IN \A w \in kept \cap Windows : win[w].stage # "gone"

\* The functions plugins wrap only while they are at work are wrapped then and no
\* longer: a window that was moved or stretched is painted as usual afterwards, and a
\* plugin that waits for the pointer hears of it.
HooksFollow ==
    ~changed /\ ~refused =>
        /\ move.paint = IF move.opaque THEN {} ELSE {move.w} \cap Windows
        /\ resize.paint = IF resize.grab # Null /\ resize.mode = "Stretch"
                          THEN {resize.w} ELSE {}
        /\ resize.output <=> (resize.grab # Null /\ resize.mode # "Normal")
        /\ scale.hooks <=> scale.state # "Idle"
        /\ switch.handle # Null => switch.hooks
        /\ shot.listens <=> shot.handle # Null
        /\ zoom.listens <=> zoom.handle # Null
        /\ zoom.zoomed # {} => zoom.hooks
        /\ water.count # "none" => water.hooks
        /\ clone.grab \/ clone.clones # <<>> => clone.hooks

\* When nothing is on its way the core and the server agree where a window is, except
\* while it is moved.
AtRest ==
    \A w \in Windows :
        /\ events = <<>> /\ win[w].there /\ ~win[w].syncWait /\ w \notin {move.w, rotate.moveWindow}
        => win[w].geometry = win[w].server /\ win[w].server = win[w].x

\* A resize that has ended lets go of its window as soon as the server has told of the
\* size it was given: until then a ConfigureNotify is on its way.
ResizeEnds ==
    /\ resize.w \in Unsynced /\ resize.grab = Null /\ ~refused /\ win[resize.w].there
    => \E i \in DOMAIN events :
           /\ events[i].win = resize.w
           /\ events[i].to.size # win[resize.w].geometry.size

GrabNames == {grabs[i].name : i \in DOMAIN grabs}

\* Two plugins never have the pointer at the same time, but for those made to work
\* together: the cube can be turned with a window in hand, and turned or unfolded while
\* windows are switched; and zooming in asks nobody.
OneMode ==
    \A m, n \in GrabNames :
        m # n => \/ "zoom" \in {m, n}
                 \/ {m, n} = {"move", "rotate"}
                 \/ {m, n} \subseteq {"rotate", "switcher", "cube"}

\* Outputs never show each other in a circle, whatever is dragged onto what and
\* whichever outputs go: following the clones, as the next drag does in a loop, comes
\* to an output that is shown as it is.
CloneTrees ==
    \A o \in Outputs :
        \A i \in DOMAIN clone.clones : clone.clones[i].dst # Traced(clone.clones, o)

\* Escape ends what has the pointer; only animations, and a zoom whose box was being
\* drawn, keep a grab after it.
EscapeFrees ==
    [][Escape => GrabNames' \subseteq {"rotate", "cube"} \cup
                    (IF zoom.selecting THEN {"zoom"} ELSE {})]_vars

\* Everything that moves comes to rest: when the user stops, the cube is let go of at
\* a face, the windows scale has moved are at their places, and a resize is over.
ComesToRest ==
    <>[](/\ rotate.handle # Null => rotate.grabbed \/ rotate.snap
         /\ scale.state \in {"Idle", "Wait"}
         /\ cube.handle # Null => cube.unfolded
         /\ resize.w \in Unsynced /\ ~refused => resize.grab # Null)

(* The plugins share the pointer: every grab is its holder's, and alone.    *)
GrabsAgree == GrabsHeld /\ OneMode

(* Windows outlive what was done to them, and are let go of when they go.   *)
WindowsAgree == ModesForget /\ AtRest /\ ResizeEnds

(* What is painted for a mode is painted while it lasts.                    *)
PaintAgrees == HooksFollow /\ CloneTrees

(* Modes end: at once with Escape, by themselves when the user stops.       *)
ModesEnd == EscapeFrees /\ ComesToRest
=============================================================================
