-------------------------------- MODULE Decor --------------------------------
(* The decor plugin: the compositor's half of window decorations.  A        *)
(* separate program, the decorator, publishes how windows are decorated in  *)
(* window properties; the plugin binds what they name, gives every window   *)
(* the right decoration, makes the frame window the decorator works in and  *)
(* keeps the window's position when the size of its border changes.         *)
(*                                                                          *)
(* Operators act on one record T of the parts of the system's state:        *)
(*   T.win     the windows, as core and this plugin know them;              *)
(*   T.scr     DecorScreen: dmWin, dmSupports, decor[], the Decoration and  *)
(*             DecorTexture objects with their reference counts, frames;    *)
(*   T.srv     what the X server holds: properties, windows and pixmaps;    *)
(*   T.gwd     the decorator (below);                                       *)
(*   T.toCompiz, T.toGwd   the events on their way to the two programs.     *)
(* Geometry is abstracted to the vertical position: the border of a         *)
(* decoration is its height at the top, and gravity is NorthWest.           *)
EXTENDS Integers, Sequences, FiniteSets, FiniteSetsExt, Functions

CONSTANTS Window

(* hasUnmapReference: more than one plugin still shows an unmapped window.  *)
Held(x) == x.refs > 1

Kinds == {"bare", "normal", "active"}
None == "none"
NoId == <<None, 0>>
NoProp == [type |-> None, pix |-> NoId, min |-> FALSE, top |-> 0]

WindowDefault == [type |-> "window", pix |-> NoId, min |-> FALSE, top |-> 1]
DefaultId == <<"default", 1>>

Notify(T, e) == [T EXCEPT !.toCompiz = Append(@, e)]
Tell(T, e) == [T EXCEPT !.toGwd = IF T.gwd.alive THEN Append(@, e) ELSE @]

(* A property of a window the client has destroyed cannot be set.           *)
SetInputProp(T, w, f) ==
    IF w \notin T.srv.live THEN T
    ELSE Tell([T EXCEPT !.srv.input[w] = f], <<"input", w>>)
SetOutputProp(T, w, f) ==
    IF w \notin T.srv.live THEN T
    ELSE Tell([T EXCEPT !.srv.output[w] = f], <<"output", w>>)

-----------------------------------------------------------------------------
(* Textures and decorations are counted objects.                            *)

(* getTexture: a pixmap already bound is shared; one that the server no     *)
(* longer has cannot be bound.                                              *)
CanBind(T, pix) == T.scr.tex[pix] > 0 \/ pix \in T.srv.pixmaps
GetTexture(T, pix) == [T EXCEPT !.scr.tex[pix] = @ + 1]
ReleaseTexture(T, pix) == [T EXCEPT !.scr.tex[pix] = @ - 1]

FreshId(T, slot) ==
    <<slot, Min({k \in 1 .. 5 : T.scr.heap[<<slot, k>>].ref = 0})>>

(* Decoration::create for property v: whether there is an object.           *)
Creates(T, v) ==
    /\ v.type # None
    /\ v.type = "pixmap" => T.scr.cmActive /\ CanBind(T, v.pix)
Created(T, v, id) ==
    LET U == IF v.type = "pixmap" THEN GetTexture(T, v.pix) ELSE T
    IN  [U EXCEPT !.scr.heap[id] = [val |-> v, ref |-> 1]]

ReleaseDecoration(T, id) ==
    LET h == T.scr.heap[id]
        U == IF h.ref = 1 /\ h.val.type = "pixmap" THEN ReleaseTexture(T, h.val.pix) ELSE T
    IN  IF id = NoId THEN T
        ELSE [U EXCEPT !.scr.heap[id].ref = @ - 1,
                       !.scr.heap[id].val = IF h.ref = 1 THEN NoProp ELSE @]

Val(T, id) == T.scr.heap[id].val

(* Reads the property of a root decoration into decor[kind].                *)
LoadDefault(T, kind) ==
    LET v == T.srv.root[kind]
        id == FreshId(T, kind)
    IN  IF Creates(T, v) THEN [Created(T, v, id) EXCEPT !.scr.decor[kind] = id]
        ELSE [T EXCEPT !.scr.decor[kind] = NoId]

(* updateDecoration: the window's own property, the new object first.       *)
(* OpenGL may refuse to make a texture of a pixmap that is not yet bound.   *)
Binds(T, w) ==
    LET v == T.srv.deco[w] IN v.type = "pixmap" /\ Creates(T, v) /\ T.scr.tex[v.pix] = 0
UpdateDecorationFails(T, w, refused) ==
    LET v == T.srv.deco[w]
        id == FreshId(T, w)
        Into(U, new) == [ReleaseDecoration(U, T.win[w].decor) EXCEPT
                            !.win[w].failed = new = NoId, !.win[w].decor = new]
    IN  IF Creates(T, v) /\ ~refused THEN Into(Created(T, v, id), id) ELSE Into(T, NoId)
UpdateDecoration(T, w, refused) ==
    LET v == T.srv.deco[w]
        id == FreshId(T, w)
        old == T.win[w].decor
        Into(U, new) == [ReleaseDecoration(U, old) EXCEPT
                            !.win[w].failed = refused, !.win[w].decor = new]
    IN  IF Creates(T, v) /\ ~refused THEN Into(Created(T, v, id), id) ELSE Into(T, NoId)

-----------------------------------------------------------------------------
(* The frame windows, children of core's frame, that the decorator uses.    *)

FreshFrame(T) == Min(1 .. 9 \ (T.srv.frames \cup {f[1] : f \in T.scr.frames}))
DropFrame(T, f) == [T EXCEPT !.srv.frames = @ \ {f}]

DropInput(T, w) ==
    IF T.win[w].input = 0 THEN T
    ELSE LET U == SetInputProp(T, w, 0)
         IN  [IF T.win[w].frame THEN DropFrame(U, T.win[w].input) ELSE U
                EXCEPT !.win[w].input = 0]
DropOutput(T, w) ==
    IF T.win[w].output = 0 THEN T
    ELSE LET U == SetOutputProp(T, w, 0)
         IN  [IF T.win[w].frame THEN DropFrame(U, T.win[w].output) ELSE U
                EXCEPT !.win[w].output = 0,
                       !.scr.frames = {f \in @ : f[1] # T.win[w].output}]

UpdateInputFrame(T, w) ==
    IF T.win[w].input # 0 THEN T
    ELSE LET New(f) == SetInputProp([T EXCEPT !.srv.frames = @ \cup {f},
                                              !.win[w].input = f], w, f)
         IN  New(FreshFrame(T))
UpdateOutputFrame(T, w) ==
    IF T.win[w].output # 0 THEN T
    ELSE LET New(f) == SetOutputProp([T EXCEPT !.srv.frames = @ \cup {f},
                                               !.win[w].output = f,
                                               !.scr.frames = @ \cup {<<f, w>>}], w, f)
         IN  New(FreshFrame(T))

UpdateFrame(T, w) ==
    LET x == T.win[w]
        type == Val(T, x.wd).type
        framed == x.wd # NoId /\ x.top > 0
        drop == \/ ~framed
                \/ type = "pixmap" /\ x.output # 0
                \/ type = "window" /\ x.input # 0
        Frame(U) == IF ~framed THEN U
                    ELSE IF type = "pixmap" THEN UpdateInputFrame(U, w)
                    ELSE UpdateOutputFrame(U, w)
    IN  IF drop THEN Frame(DropOutput(DropInput(T, w), w)) ELSE Frame(T)

-----------------------------------------------------------------------------
(* Core's half of a change of border: setWindowFrameExtents and updateSize, *)
(* which keeps a maximized window at the top of the work area.              *)
SetExtents(T, w, top) ==
    IF T.win[w].top = top THEN T
    ELSE [T EXCEPT !.win[w].top = top,
                   !.win[w].y = IF T.win[w].managed /\ T.win[w].max THEN top ELSE @]

(* A move still waiting for its timer is about a position that is no longer *)
(* the one it was computed from.                                            *)
Overtake(T, w) ==
    [T EXCEPT !.win[w].raced = @ \/ T.win[w].moveTimer]

(* The decoration a window should have.                                     *)
BigEnough(T, w, id) == Val(T, id).min => ~T.win[w].small
Default(T, w) ==
    IF /\ "pixmap" \in T.scr.supports /\ T.scr.cmActive
       /\ ~("window" \in T.scr.supports /\ T.win[w].failed)
    THEN T.scr.decor[IF T.scr.active = w THEN "active" ELSE "normal"]
    ELSE IF "window" \in T.scr.supports THEN DefaultId ELSE NoId
Decorated(x) == x.mwm /\ (x.frame \/ Held(x))
Wanted(T, w) ==
    LET x == T.win[w]
        own == x.decor # NoId /\ BigEnough(T, w, x.decor)
        bare == T.scr.decor["bare"]
    IN  IF T.scr.dm = 0 THEN NoId
        ELSE IF ~Decorated(x) THEN IF bare # NoId /\ BigEnough(T, w, bare) THEN bare ELSE NoId
        ELSE IF own THEN x.decor ELSE Default(T, w)

(* DecorWindow::update: TRUE of the code's result is that the decoration    *)
(* changed.  The window moves by the change of its border, from a timer; a  *)
(* maximized one only remembers.                                            *)
Move(T, w, dy) ==
    LET x == T.win[w]
    IN  IF ~x.placed \/ dy = 0 THEN T
        ELSE IF x.max THEN [T EXCEPT !.win[w].saveY = IF x.saved THEN @ + dy ELSE @]
        ELSE [Overtake(T, w) EXCEPT !.win[w].moveTimer = TRUE, !.win[w].moveY = x.y + dy]

Attach(T, w, id) ==
    [T EXCEPT !.win[w].wd = id, !.scr.heap[id].ref = @ + 1]
Detach(T, w) ==
    [ReleaseDecoration(T, T.win[w].wd) EXCEPT !.win[w].wd = NoId]
Extend(T, w, id) ==
    IF Held(T.win[w]) /\ ~T.win[w].max THEN T ELSE SetExtents(T, w, Val(T, id).top)

UpdateToStays(T, w, new) ==
    LET old == IF T.win[w].wd = NoId THEN 0 ELSE T.win[w].top
        Shift(U) == Move(U, w, U.win[w].top - old)
    IN  IF new # NoId
        THEN Shift(UpdateFrame(Extend(Attach(Detach(T, w), w, new), w, new), w))
        ELSE SetExtents(UpdateFrame(Detach(T, w), w), w, 0)
UpdateTo(T, w, new) ==
    LET old == IF T.win[w].wd = NoId THEN 0 ELSE T.win[w].top
        Shift(U) == Move(U, w, U.win[w].top - old)
        Gone(U) == Move(U, w, 0 - old)
    IN  IF new # NoId
        THEN Shift(UpdateFrame(Extend(Attach(Detach(T, w), w, new), w, new), w))
        ELSE Gone(SetExtents(UpdateFrame(Detach(T, w), w), w, 0))

Update(T, w) ==
    LET To(new) == IF new = T.win[w].wd THEN T ELSE UpdateTo(T, w, new)
    IN  To(Wanted(T, w))

UpdateAll(T, S) == FoldSet(LAMBDA w, U : Update(U, w), T, S)

-----------------------------------------------------------------------------
(* The plugin's screen.                                                     *)

Known(T) == {w \in Window : T.win[w].known}

(* checkForDm: the decorator's window named by the root property, if that   *)
(* window exists.  Decorations replaced while dmWin passes from one window  *)
(* to another are not released.                                             *)
LoadDefaults(T) == FoldSet(LAMBDA k, U : LoadDefault(U, k), T, Kinds)
DropDefaults(T) ==
    LET One(U, k) == [ReleaseDecoration(U, U.scr.decor[k]) EXCEPT !.scr.decor[k] = NoId]
        Own(U, w) == [ReleaseDecoration(U, U.win[w].decor) EXCEPT !.win[w].decor = NoId]
    IN  FoldSet(LAMBDA w, U : Own(U, w),
                FoldSet(LAMBDA k, U : One(U, k), T, Kinds), Known(T))
Lose(T) ==
    [T EXCEPT !.scr.lost = @ \cup ({T.scr.decor[k] : k \in Kinds} \ {NoId})]
SetDm(T, dm) ==
    [IF dm # 0 THEN LoadDefaults(Lose(T)) ELSE DropDefaults(T) EXCEPT !.scr.dm = dm]
CheckForDm(T) ==
    LET dm == IF T.srv.dm \in T.srv.dmWins THEN T.srv.dm ELSE 0
        On == {w \in Known(T) : T.win[w].shaded \/ T.win[w].viewable}
        Set(U) == UpdateAll(SetDm(U, dm), On)
    IN  IF dm = T.scr.dm THEN T
        ELSE Set([T EXCEPT !.scr.supports = IF dm # 0 THEN {"pixmap", "window"} ELSE {}])

(* The root property of a default decoration changed.                       *)
DefaultChanged(T, kind) ==
    LET Load(U) == UpdateAll(LoadDefault(U, kind), Known(T))
    IN  Load([ReleaseDecoration(T, T.scr.decor[kind]) EXCEPT !.scr.decor[kind] = NoId])

(* The window's own decoration property changed.                            *)
OwnChanged(T, w, refused) == Update(UpdateDecoration(T, w, refused), w)

(* A ConfigureNotify of a decorated window.                                 *)
Configured(T, w) ==
    IF ~Held(T.win[w]) /\ T.win[w].decor # NoId THEN UpdateFrame(T, w) ELSE T

(* resizeTimeout: the decoration of a window that was shaded is read again. *)
ResizeTimeout(T, w) ==
    LET x == T.win[w]
        Read(U) == IF x.shading THEN [UpdateDecoration(U, w, FALSE) EXCEPT !.win[w].shading = FALSE]
                   ELSE U
        Then(U) == IF Held(x) THEN U ELSE Update(U, w)
    IN  Then(Read([T EXCEPT !.win[w].sizeTimer = FALSE]))

(* decorOffsetMove.                                                         *)
OffsetMove(T, w) ==
    [T EXCEPT !.win[w].moveTimer = FALSE, !.win[w].y = T.win[w].moveY]

(* stateChangeNotify: the same decoration may have another border.          *)
StateChanged(T, w) ==
    LET new == Wanted(T, w)
        Same(U) == UpdateFrame(SetExtents(U, w, Val(U, new).top), w)
    IN  IF new # T.win[w].wd THEN UpdateTo(T, w, new)
        ELSE IF new # NoId THEN Same(T) ELSE T

(* CompWindowNotifyUnreparent: the frame took the plugin's windows with it; *)
(* the properties and the entry in frames stay.                             *)
Unreparented(T, w) ==
    [SetExtents(T, w, 0) EXCEPT !.win[w].input = 0, !.win[w].output = 0,
        !.srv.frames = @ \ {T.win[w].input, T.win[w].output}]

(* The plugin's window object goes with the window's.                       *)
DestructedKeeps(T, w) ==
    [ReleaseDecoration(T, T.win[w].decor) EXCEPT
        !.win[w].decor = NoId, !.win[w].wd = NoId, !.win[w].known = FALSE,
        !.win[w].sizeTimer = FALSE, !.win[w].moveTimer = FALSE]
Destructed(T, w) ==
    LET Drop(U) == [ReleaseDecoration(U, U.win[w].decor) EXCEPT
                        !.win[w].decor = NoId, !.win[w].known = FALSE,
                        !.win[w].sizeTimer = FALSE, !.win[w].moveTimer = FALSE]
    IN  Drop(Detach(T, w))

(* handleEvent after core: the focus moved from window old to T.scr.active. *)
FocusMoved(T, old) ==
    LET First(U) == IF old \in Known(U) /\ ~Held(U.win[old]) THEN Update(U, old) ELSE U
        Second(U) == IF U.scr.active \in Known(U) THEN Update(U, U.scr.active) ELSE U
    IN  IF old = T.scr.active THEN T ELSE Second(First(T))

-----------------------------------------------------------------------------
(* gtk-window-decorator: the program that draws window decorations.  It     *)
(* follows the windows through libwnck and the frame windows through the    *)
(* properties the decor plugin sets.  With an input frame it publishes a    *)
(* pixmap of the decoration and lays event windows over it; with an output  *)
(* frame it draws into a window of its own.  T.gwd.win[w] is the decor_t of *)
(* w.                                                                       *)

NewDecor == [opened |-> FALSE, held |-> FALSE, created |-> FALSE, fwin |-> 0,
             decorated |-> FALSE, context |-> None, pixmap |-> NoId,
             prop |-> FALSE, queued |-> FALSE]

D(T, w) == T.gwd.win[w]

(* The frames of a type are shared and counted: gwd_get_decor_frame and     *)
(* gwd_decor_frame_unref.                                                   *)
GetFrame(T, w) ==
    [T EXCEPT !.gwd.refs = @ + 1, !.gwd.win[w].held = TRUE,
              !.gwd.leaked = @ + (IF D(T, w).held THEN 1 ELSE 0)]
UnrefFrame(T, w) ==
    IF ~D(T, w).held THEN T
    ELSE [T EXCEPT !.gwd.refs = @ - 1, !.gwd.win[w].held = FALSE]

Publish(T, w, v) ==
    IF w \notin T.srv.live \/ (v = NoProp /\ T.srv.deco[w] = NoProp) THEN T
    ELSE Notify([T EXCEPT !.srv.deco[w] = v], <<"deco", w>>)

FreshPixmap(T, w) == <<w, Min({k \in 1 .. 3 : <<w, k>> \notin T.srv.pixmaps})>>

QueueDraw(T, w) == [T EXCEPT !.gwd.win[w].queued = TRUE]

(* update_window_decoration_size: a new pixmap when the layout changed; a   *)
(* window too small for its buttons gets none in pixmap mode.               *)
UpdateSize(T, w) ==
    LET d == D(T, w)
        mode == IF d.fwin # 0 THEN "window" ELSE "pixmap"
        fits == mode = "window" \/ (~T.win[w].small /\ d.context # mode)
        Into(U, p) == [U EXCEPT !.srv.pixmaps = (@ \ {d.pixmap}) \cup {p},
                                !.gwd.win[w].pixmap = p, !.gwd.win[w].context = mode,
                                !.gwd.win[w].prop = TRUE]
    IN  IF fits THEN QueueDraw(Into(T, FreshPixmap(T, w)), w) ELSE T
ForceSize(T, w) ==
    UpdateSize([T EXCEPT !.gwd.win[w].context = None, !.gwd.skipped[w] = FALSE], w)

(* add_frame_window for frame f; mode is TRUE for an output frame.  The     *)
(* guard against doing it twice does not look at the frame, and a layout    *)
(* kept from before is not published again (skipped).                       *)
AddFrame(T, w, f, mode) ==
    LET d == D(T, w)
        again == d.created /\ mode /\ d.fwin # 0
        Into(U) == [GetFrame(U, w) EXCEPT
                      !.gwd.win[w].fwin = IF mode THEN f ELSE 0,
                      !.gwd.win[w].created = TRUE]
        Hints(U) == [U EXCEPT !.gwd.win[w].decorated = @ \/ U.srv.mwm[w]]
        stale == ~mode /\ d.context = "pixmap" /\ ~d.prop /\ T.srv.deco[w] = NoProp
        Made(U) == IF f \in U.srv.frames THEN UpdateSize(Hints(U), w) ELSE U
    IN  IF again THEN [T EXCEPT !.gwd.skipped[w] = @ \/ d.fwin # f]
        ELSE [Made(Into(T)) EXCEPT !.gwd.skipped[w] = @ \/ stale]

(* remove_frame_window.                                                     *)
RemoveFrame(T, w) ==
    LET Clear(U) == [UnrefFrame(U, w) EXCEPT
                       !.srv.pixmaps = @ \ {D(U, w).pixmap},
                       !.gwd.win[w].pixmap = NoId, !.gwd.win[w].fwin = 0,
                       !.gwd.win[w].decorated = FALSE, !.gwd.win[w].context = None,
                       !.gwd.win[w].queued = FALSE, !.gwd.skipped[w] = FALSE]
    IN  Publish(Clear(T), w, NoProp)

(* event_filter_func: the frame properties and the hints of w changed.      *)
InputNotify(T, w) ==
    IF ~D(T, w).opened THEN T
    ELSE IF T.srv.input[w] # 0 THEN AddFrame(T, w, T.srv.input[w], FALSE)
    ELSE RemoveFrame(T, w)
OutputNotify(T, w) ==
    IF ~D(T, w).opened THEN T
    ELSE IF T.srv.output[w] # 0 THEN AddFrame(T, w, T.srv.output[w], TRUE)
    ELSE RemoveFrame(T, w)
HintsNotify(T, w) ==
    LET decorated == T.srv.mwm[w]
        Set(U) == [U EXCEPT !.gwd.win[w].decorated = decorated]
    IN  IF ~D(T, w).opened \/ D(T, w).decorated = decorated THEN T
        ELSE IF decorated THEN ForceSize(GetFrame(Set(T), w), w)
        ELSE Publish(UnrefFrame(Set(T), w), w, NoProp)

(* window_geometry_changed, window_state_changed, active_window_changed.    *)
GeometryNotify(T, w) == IF D(T, w).decorated THEN UpdateSize(T, w) ELSE T
StateNotify(T, w) ==
    IF ~D(T, w).decorated THEN T ELSE QueueDraw(UpdateSize(T, w), w)
FocusNotify(T, S) ==
    [T EXCEPT !.gwd.win = [w \in Window |->
        [@[w] EXCEPT !.queued = @ \/ (w \in S /\ T.gwd.win[w].pixmap # NoId)]]]

(* window_opened and window_closed, told by libwnck.                        *)
Opened(T, w) ==
    LET New(U) == [U EXCEPT !.gwd.win[w] = [NewDecor EXCEPT !.opened = TRUE]]
        Add(U) == IF U.srv.input[w] # 0 THEN AddFrame(U, w, U.srv.input[w], FALSE)
                  ELSE IF U.srv.output[w] # 0 THEN AddFrame(U, w, U.srv.output[w], TRUE)
                  ELSE U
    IN  Add(New(T))
Closed(T, w) == [RemoveFrame(T, w) EXCEPT !.gwd.win[w] = NewDecor]

(* The program ends: the server frees what it owned.  The root properties   *)
(* stay, and name windows and pixmaps that are gone.                        *)
Ended(T) ==
    LET dm == T.gwd.id
    IN  [Notify(T, <<"dmgone", dm>>) EXCEPT
            !.gwd = [@ EXCEPT !.alive = FALSE, !.win = [w \in Window |-> NewDecor],
                              !.refs = 0, !.leaked = 0, !.skipped = [w \in Window |-> FALSE]],
            !.srv.dmWins = {}, !.srv.pixmaps = {}, !.toGwd = <<>>]
Quit(T) ==
    LET Close(U, w) == IF D(U, w).opened THEN Closed(U, w) ELSE U
    IN  Ended(FoldSet(LAMBDA w, U : Close(U, w), T, Window))

(* draw_decor_list: every queued decoration is drawn and, after a change of *)
(* its size, published.  A decoration that lost its frame is drawn through  *)
(* a null pointer.                                                          *)
OwnValue(T, w) ==
    [type |-> IF D(T, w).fwin # 0 THEN "window" ELSE "pixmap",
     pix |-> IF D(T, w).fwin # 0 THEN NoId ELSE D(T, w).pixmap, min |-> TRUE, top |-> 2]
DrawOne(T, w) ==
    LET Drawn(U) == [U EXCEPT !.gwd.win[w].queued = FALSE, !.gwd.win[w].prop = FALSE]
    IN  IF D(T, w).pixmap = NoId \/ ~D(T, w).prop
        THEN [T EXCEPT !.gwd.win[w].queued = FALSE]
        ELSE Drawn(Publish(T, w, OwnValue(T, w)))
Queued(T) == {w \in Window : D(T, w).queued}
DrawList(T) ==
    IF \E w \in Queued(T) : D(T, w).pixmap # NoId /\ ~D(T, w).held THEN Ended(T)
    ELSE FoldSet(LAMBDA w, U : DrawOne(U, w), T, Queued(T))

(* decor_set_dm_check_hint and update_default_decorations.                  *)
DefaultValue(kind, id) ==
    [type |-> "pixmap", pix |-> <<kind, id>>, min |-> FALSE,
     top |-> IF kind = "bare" THEN 0 ELSE 2]
SetDmHint(T, id) ==
    Notify([T EXCEPT !.srv.dm = id, !.srv.dmWins = {id}], <<"dm", id>>)
SetDefault(T, kind, id) ==
    Notify([T EXCEPT !.srv.root[kind] = DefaultValue(kind, id),
                     !.srv.pixmaps = @ \cup {<<kind, id>>}], <<"root", kind>>)
Started(T, id) ==
    LET Alive(U) == [U EXCEPT !.gwd.alive = TRUE, !.gwd.id = id]
    IN  FoldSet(LAMBDA k, U : SetDefault(U, k, id), SetDmHint(Alive(T), id), Kinds)

HandleGwd(T, e) ==
    CASE e[1] = "input" -> InputNotify(T, e[2])
      [] e[1] = "output" -> OutputNotify(T, e[2])
      [] e[1] = "hints" -> HintsNotify(T, e[2])
      [] e[1] = "geometry" -> GeometryNotify(T, e[2])
      [] e[1] = "state" -> StateNotify(T, e[2])
      [] e[1] = "focus" -> FocusNotify(T, e[2])
==============================================================================
