------------------------------ MODULE Painting ------------------------------
(* The compositor at work: the composite plugin and the windows and         *)
(* textures of the opengl plugin, and how the contents of windows get from  *)
(* the X server to the screen.  The server keeps redirected windows in      *)
(* pixmaps and reports damage; the plugins collect it, bind pixmaps to      *)
(* textures and repaint what changed.  A fullscreen window may be left to   *)
(* the server ("unredirected"), seen through a hole in the output window.   *)
(* Clients map, draw, move and destroy windows, the events about it arrive  *)
(* late, and the paint timer repaints in between.                           *)
(*                                                                          *)
(* The screen is a small set of cells.  Operators act on a record T:        *)
(*   T.srv    the X server: stacking, windows, the output window's shape    *)
(*            and contents, the root's background;                          *)
(*   T.scr    CompositeScreen and GLScreen: damage and its mask, the paint  *)
(*            timer, the overlay windows' count, the background texture;    *)
(*   T.win    CompositeWindow and GLWindow, with the fields of CompWindow   *)
(*            they read; no plugin of the repository holds unmapped windows *)
(*            (hasUnmapReference is false) and windows are not shaded;      *)
(*   T.queue  the events on their way.                                      *)
(* What a cell shows is the set of the versions of windows seen in it.      *)
EXTENDS Integers, Sequences, FiniteSets, FiniteSetsExt, SequencesExt

CONSTANTS Window, Cell, Outputs, SyncWindow,
          Shape,      (* the places a window can take                       *)
          MaxOps      (* bound on what clients and users do                 *)

(* The cells of the screen; windows may extend beyond.                      *)
Screen == UNION Outputs

ASSUME WindowAssumption == Window # {} /\ IsFiniteSet(Window) /\ SyncWindow \subseteq Window
ASSUME OutputsAssumption == IsFiniteSet(Outputs) /\ Screen \subseteq Cell /\ {} \notin Outputs
ASSUME ShapeAssumption == /\ \A a \in Shape : a \subseteq Cell /\ a # {}
                          /\ \E a \in Shape : Screen \subseteq a

NoPix == [bound |-> FALSE, live |-> FALSE, kept |-> 0]
NoTex == [bound |-> FALSE, live |-> FALSE, kept |-> 0, shown |-> 0, damaged |-> FALSE]
Root == "root"

-----------------------------------------------------------------------------
(* The X server and the clients.                                            *)

Emit(T, e) == [T EXCEPT !.queue = Append(@, e)]

(* What is seen in cell c: the layers from the top to the first opaque one. *)
Seen(layers, area, opaque, c, bg) ==
    LET at == SelectSeq(layers, LAMBDA w : c \in area[w])
        solid == {i \in 1 .. Len(at) : opaque[at[i]]}
        first == Max(solid \cup {0})
    IN  IF solid = {} THEN <<ToSet(at), {<<Root, bg>>}>>
        ELSE <<{at[i] : i \in first .. Len(at)}, {}>>

Shows(T, look) == {<<w, T.srv.win[w].ver>> : w \in look[1]} \cup look[2]
Areas(T) == [w \in Window |-> T.srv.win[w].area]
Solids(T) == [w \in Window |-> T.srv.win[w].opaque]

(* What the clients' windows should look like on screen.                    *)
Scene(T, c) ==
    Shows(T, Seen(SelectSeq(T.srv.stack, LAMBDA w : T.srv.win[w].mapped),
                  Areas(T), Solids(T), c, T.srv.bg))

(* What the server shows where the output window has a hole.                *)
Uncovered(T, c) ==
    Shows(T, Seen(SelectSeq(T.srv.stack,
                            LAMBDA w : T.srv.win[w].mapped /\ ~T.srv.win[w].redirected),
                  Areas(T), [w \in Window |-> TRUE], c, T.srv.bg))

Display(T, c) == IF c \in T.srv.shape THEN T.srv.front[c] ELSE Uncovered(T, c)

(* A window gets a new pixmap: those named or bound keep the old contents.  *)
Frozen(p, v) == [p EXCEPT !.live = FALSE, !.kept = IF p.live THEN v ELSE @]
Freeze(T, w) ==
    LET x == T.win[w]
        v == T.srv.win[w].ver
    IN  [T EXCEPT !.win[w] = [x EXCEPT !.pix = Frozen(x.pix, v), !.tex = Frozen(x.tex, v)]]

(* Redirecting a window on screen remaps it: its client draws it anew.      *)
Redirected(T, w) ==
    LET U == [T EXCEPT !.srv.win[w].redirected = TRUE]
    IN  IF U.srv.win[w].mapped THEN Emit(U, <<"damage", w>>) ELSE U
Unredirected(T, w) == [Freeze(T, w) EXCEPT !.srv.win[w].redirected = FALSE]

Draw(T, w) == [T EXCEPT !.srv.win[w].ver = (@ + 1) % 4]
Drawn(T, w) ==
    IF T.srv.win[w].mapped THEN Emit(Draw(T, w), <<"damage", w>>) ELSE Draw(T, w)

-----------------------------------------------------------------------------
(* Damage: what has to be repainted.                                        *)

Area(T, w) == T.win[w].area

(* The paint timer waits at most until the next frame.                      *)
Hurry(T) == IF T.scr.mask = {} THEN [T EXCEPT !.scr.late = FALSE] ELSE T

DamageScreen(T) ==
    [Hurry(T) EXCEPT !.scr.mask = (@ \cup {"all"}) \ {"region"}]

(* The region may be too scattered, and then it is the whole screen.        *)
DamageRegion(T, r) ==
    IF "all" \in T.scr.mask THEN T
    ELSE [Hurry(T) EXCEPT !.scr.mask = @ \cup {"region"},
                          !.scr.damage = @ \cup r]

DamagePending(T) == [Hurry(T) EXCEPT !.scr.mask = @ \cup {"pending"}]

Exposed(T, w) == T.win[w].viewable /\ T.win[w].damaged
AddDamage(T, w, force) ==
    IF force \/ Exposed(T, w) THEN DamageRegion(T, Area(T, w)) ELSE T
DamageOld(T, w) == AddDamage(T, w, FALSE)

(* The first damage after the window was mapped makes it paintable.         *)
HandleDamageRect(T, w) ==
    IF ~T.win[w].redirected THEN T
    ELSE DamageRegion([T EXCEPT !.win[w].damaged = TRUE, !.win[w].dropped = FALSE],
                      Area(T, w))

(* While the window has not answered a sync request its damage is kept in   *)
(* damageRects; the loop that replays it ends with nDamage at -1, so the    *)
(* next rectangle is written before the array and never replayed.           *)
ProcessDamage(T, w) ==
    LET U == [T EXCEPT !.win[w].tex.damaged = @ \/ T.win[w].tex.live]
        n == U.win[w].nDamage
    IN  IF ~U.win[w].known THEN T
        ELSE IF ~U.win[w].syncWait THEN HandleDamageRect(U, w)
        ELSE [U EXCEPT !.win[w].nDamage = n + 1, !.win[w].dropped = @ \/ n < 0]

-----------------------------------------------------------------------------
(* The output window, and windows with or without a pixmap.                 *)

ShowOutputWindow(T) ==
    IF T.scr.active THEN DamageScreen([T EXCEPT !.srv.shape = Screen]) ELSE T
HideOutputWindow(T) == [T EXCEPT !.srv.shape = {}]
Overlays(T) == {w \in Window : T.win[w].known /\ T.win[w].overlay}

(* A hole that gets smaller is not repainted where it was.                  *)
UpdateOutputWindow(T) ==
    LET shape == Screen \ UNION {Area(T, w) : w \in Overlays(T)}
    IN  IF T.scr.active
        THEN [T EXCEPT !.srv.shape = shape,
                       !.scr.forgotten = @ \cup (shape \ T.srv.shape)]
        ELSE T
ShapeOutput(T) ==
    IF T.scr.count < 1 THEN ShowOutputWindow(T) ELSE UpdateOutputWindow(T)

Release(T, w) == [T EXCEPT !.win[w].pix = NoPix]
ReleaseTexture(T, w) == [Release(T, w) EXCEPT !.win[w].tex = NoTex]

RedirectUncounted(T, w) ==
    IF T.win[w].redirected \/ ~T.scr.active THEN T
    ELSE ShapeOutput([Redirected(T, w) EXCEPT
                         !.win[w].redirected = TRUE, !.win[w].overlay = FALSE])
Redirect(T, w) ==
    IF T.win[w].redirected \/ ~T.scr.active THEN T
    ELSE ShapeOutput([Redirected(T, w) EXCEPT
                         !.win[w].redirected = TRUE,
                         !.win[w].overlay = FALSE,
                         !.scr.count = IF T.win[w].overlay THEN @ - 1 ELSE @])

Unredirect(T, w) ==
    IF ~T.win[w].redirected \/ ~T.scr.active THEN T
    ELSE LET U == [Unredirected(Release(T, w), w) EXCEPT
                      !.win[w].redirected = FALSE,
                      !.win[w].overlay = TRUE,
                      !.scr.count = @ + 1]
         IN  IF U.scr.count > 0 THEN UpdateOutputWindow(U) ELSE U

(* CompositeWindow::bind names the pixmap, if the window is on screen.      *)
BindWindow(T, w) ==
    LET U == Redirect(T, w)
    IN  IF ~T.scr.active \/ U.win[w].pix.bound \/ U.win[w].bindFailed THEN U
        ELSE IF ~U.srv.win[w].mapped THEN [U EXCEPT !.win[w].bindFailed = TRUE]
        ELSE [U EXCEPT !.win[w].pix = [bound |-> TRUE, live |-> TRUE, kept |-> 0]]

(* GLWindow::bind makes a texture of the pixmap.                            *)
Contents(T, w, p) == IF p.live THEN T.srv.win[w].ver ELSE p.kept
BindPixmap(T, w) ==
    LET p == T.win[w].pix
    IN  IF ~p.bound THEN T
        ELSE [T EXCEPT !.win[w].tex = [bound |-> TRUE, live |-> p.live, kept |-> p.kept,
                                       shown |-> Contents(T, w, p), damaged |-> TRUE]]
Bind(T, w) ==
    IF T.win[w].pix.bound THEN BindPixmap(T, w) ELSE BindPixmap(BindWindow(T, w), w)

(* TfpTexture::enable reads the pixmap again after damage.                  *)
Enable(T, w) ==
    LET t == T.win[w].tex
    IN  [T EXCEPT !.win[w].tex =
            [t EXCEPT !.damaged = FALSE,
                      !.shown = IF t.damaged THEN Contents(T, w, t) ELSE @]]

-----------------------------------------------------------------------------
(* Events of windows.                                                       *)

(* The compositor's part of the start of a window; one already on screen    *)
(* counts as damaged.                                                       *)
Created(T, w) ==
    LET here == T.srv.win[w].mapped
    IN  [T EXCEPT !.scr.stack = Append(@, w),
                  !.win[w] = [@ EXCEPT !.known = TRUE, !.destroyed = FALSE,
                                       !.viewable = here, !.mapNum = here,
                                       !.area = T.srv.win[w].area,
                                       !.opaque = T.srv.win[w].opaque,
                                       !.damaged = here,
                                       !.redirected = T.scr.active, !.overlay = FALSE,
                                       !.bindFailed = FALSE, !.pix = NoPix, !.tex = NoTex,
                                       !.syncWait = FALSE, !.nDamage = 0,
                                       !.dropped = FALSE]]

(* MapNotify; a window that takes part in sync requests is asked to draw.   *)
Mapped(T, w) ==
    LET wait == T.win[w].syncWait \/ (w \in SyncWindow /\ ~T.win[w].viewable)
    IN  [T EXCEPT !.win[w] = [@ EXCEPT !.viewable = TRUE, !.mapNum = TRUE, !.syncWait = wait,
                                       !.bindFailed = FALSE, !.damaged = FALSE]]

(* Textures and pixmap go before the damage is reported.                    *)
UnmapNotify(T, w) ==
    LET U == Release(AddDamage(ReleaseTexture(T, w), w, TRUE), w)
    IN  Redirect(U, w)
Unmapped(T, w) ==
    IF T.win[w].viewable
    THEN UnmapNotify([T EXCEPT !.win[w].viewable = FALSE, !.win[w].mapNum = FALSE], w)
    ELSE [T EXCEPT !.win[w].mapNum = FALSE]

(* Both places of a moved window are damaged.                               *)
MoveNotifyNewOnly(T, w, area) == DamageOld([T EXCEPT !.win[w].area = area], w)
MoveNotify(T, w, area) ==
    DamageOld([DamageOld(T, w) EXCEPT !.win[w].area = area], w)

(* The composite plugin names the pixmap of the new size, which the opengl  *)
(* plugin then releases with its textures.  When the server's window has    *)
(* been resized again the damage of the new place is left to that event.    *)
ResizeNotify(T, w, area) ==
    LET U == [DamageOld(T, w) EXCEPT !.win[w].area = area]
        stale == Cardinality(T.srv.win[w].area) # Cardinality(area) \/ ~T.srv.win[w].mapped
    IN  IF T.win[w].mapNum /\ T.win[w].redirected /\ stale THEN ReleaseTexture(U, w)
        ELSE ReleaseTexture(DamageOld(U, w), w)

Resize(T, w, area) ==
    IF area = Area(T, w) THEN T
    ELSE IF Cardinality(area) = Cardinality(Area(T, w)) THEN MoveNotify(T, w, area)
    ELSE ResizeNotify(T, w, area)

(* While a sync request is open the new geometry waits with the damage.     *)
Configured(T, w, area) ==
    IF T.win[w].syncWait THEN [T EXCEPT !.win[w].syncArea = area] ELSE Resize(T, w, area)

SyncAlarmKeepsWaiting(T, w) ==
    IF T.win[w].syncWait THEN HandleDamageRect(Resize(T, w, T.win[w].syncArea), w) ELSE T
(* handleSyncAlarm, from the client's counter or after a second.  With      *)
(* nDamage at -1 the loop reads before the array until the program faults.  *)
SyncAlarm(T, w) ==
    LET U == [T EXCEPT !.win[w].syncWait = FALSE, !.win[w].nDamage = -1]
        n == T.win[w].nDamage
        V == Resize(U, w, T.win[w].syncArea)
    IN  IF ~T.win[w].syncWait THEN T
        ELSE IF n < 0 THEN [T EXCEPT !.scr.ended = TRUE]
        ELSE IF n > 0 THEN HandleDamageRect(V, w) ELSE V

Restacked(T, w) ==
    IF Last(T.scr.stack) = w THEN T
    ELSE AddDamage([T EXCEPT !.scr.stack = Append(RemoveFirst(@, w), w)], w, TRUE)

(* updateOpacity, then updatePaintAttribs of the opengl plugin.             *)
OpacityChanged(T, w) ==
    LET o == T.srv.win[w].opaque
    IN  IF o = T.win[w].opaque THEN T
        ELSE DamageOld([T EXCEPT !.win[w].opaque = o], w)

(* ShapeNotify damages the window before and after core reads the shape.    *)
Shaped(T, w) == IF T.win[w].mapNum THEN DamageOld(DamageOld(T, w), w) ELSE T

(* removeDestroyed and ~CompositeWindow: the count is that of the overlay   *)
(* windows only while compositing is active.                                *)
Dropped(T, w) ==
    [T EXCEPT !.scr.stack = RemoveFirst(@, w),
              !.win[w].tex = NoTex,
              !.scr.count = IF T.win[w].redirected THEN @ ELSE @ - 1]
Removed(T, w) ==
    LET U == Dropped(T, w)
        V == IF ~T.win[w].redirected /\ U.scr.count < 1 THEN ShowOutputWindow(U) ELSE U
    IN  [DamageOld(Release(V, w), w) EXCEPT
            !.win[w].known = FALSE, !.win[w].viewable = FALSE]

-----------------------------------------------------------------------------
(* Starting and ending to paint.                                            *)

Known(T) == {w \in Window : T.win[w].known}
OnAll(T, W, Op(_, _)) == FoldSet(LAMBDA w, U : Op(U, w), T, W)

(* registerPaintHandler, when the opengl plugin is loaded.                  *)
Register(T) ==
    LET U == OnAll([T EXCEPT !.scr.count = 0], {w \in Window : T.srv.win[w].exists}, Redirected)
        V == [U EXCEPT !.scr.active = TRUE,
                       !.win = [w \in Window |->
                                   IF T.win[w].known
                                   THEN [U.win[w] EXCEPT !.overlay = FALSE, !.redirected = TRUE]
                                   ELSE U.win[w]]]
    IN  IF T.scr.active THEN T ELSE [ShowOutputWindow(V) EXCEPT !.scr.late = FALSE]

(* unregisterPaintHandler, with the end of all textures.                    *)
Unregister(T) ==
    LET U == OnAll(T, {w \in Window : T.srv.win[w].exists}, Unredirected)
        V == [U EXCEPT !.scr.active = FALSE, !.scr.count = 0,
                       !.scr.bgTex = 0, !.scr.bgLoaded = FALSE,
                       !.win = [w \in Window |->
                                   IF T.win[w].known
                                   THEN [U.win[w] EXCEPT !.overlay = FALSE,
                                                         !.redirected = FALSE,
                                                         !.pix = NoPix, !.tex = NoTex]
                                   ELSE U.win[w]]]
    IN  HideOutputWindow(V)

(* Expose events of the root, a change of the outputs, a new background.    *)
ExposeEvent(T) == DamageRegion(T, Screen)
OutputChange(T) == DamageScreen(T)
UpdateBackground(T) ==
    IF T.scr.bgLoaded THEN DamageScreen([T EXCEPT !.scr.bgTex = 0, !.scr.bgLoaded = FALSE])
    ELSE [T EXCEPT !.scr.bgTex = 0]

-----------------------------------------------------------------------------
(* Painting one output (paintOutputRegion).                                 *)

Paintable(T, w) == ~T.win[w].destroyed /\ Exposed(T, w)
(* The positions in the stack of what is painted, and the windows there.    *)
PaintList(T) == {i \in DOMAIN T.scr.stack : Paintable(T, T.scr.stack[i])}
Shown(T) == {T.scr.stack[i] : i \in PaintList(T)}

(* Occlusion detection: what is left of the region under the windows above. *)
Above(T, w) ==
    {T.scr.stack[i] : i \in {j \in PaintList(T) : \E k \in PaintList(T) :
                                                     k < j /\ T.scr.stack[k] = w}}
Cover(T, W) == UNION {Area(T, w) : w \in {v \in W : T.win[v].opaque}}
Clip(T, w, region) == region \ Cover(T, Above(T, w))

(* Only the topmost window on screen may be left to the server.             *)
FullscreenWindow(T, region) ==
    {w \in Shown(T) :
        /\ T.scr.unredirect
        /\ \A i \in PaintList(T) : \E j \in PaintList(T) : i <= j /\ T.scr.stack[j] = w
        /\ T.win[w].opaque
        /\ Area(T, w) = Screen \/ Area(T, w) \in Outputs}

PaintBackground(T, region) ==
    IF region = {} \/ T.scr.bgLoaded THEN T
    ELSE [T EXCEPT !.scr.bgTex = T.srv.bg, !.scr.bgLoaded = TRUE]

(* glDraw binds the window on demand; a window whose textures are there is  *)
(* drawn from them, whatever became of its pixmap.                          *)
Texture(T, w) == IF T.win[w].tex.bound THEN T ELSE Bind(T, w)
DrawFrom(T, w, clip) ==
    IF clip \cap Area(T, w) # {} /\ T.win[w].tex.bound
    THEN [Enable(T, w) EXCEPT !.scr.back[w] = clip \cap Area(T, w)]
    ELSE T
GlDraw(T, w, region) ==
    LET clip == Clip(T, w, region)
    IN  IF clip = {} THEN T ELSE DrawFrom(Texture(T, w), w, clip)

(* The windows are drawn from the bottom to the top; then the cells of the  *)
(* region hold what was drawn in them.                                      *)
Drawing(T, W, c) ==
    {<<w, T.win[w].tex.shown>> : w \in {v \in W : c \in T.scr.back[v]}}
Blank(T) == [T EXCEPT !.scr.back = [w \in Window |-> {}]]
FrontOf(T, W, region) ==
    Blank([T EXCEPT
              !.scr.forgotten = @ \ region,
              !.srv.front = [c \in Cell |->
                  IF c \notin region THEN @[c]
                  ELSE Drawing(T, W, c)
                       \cup IF c \in Cover(T, W) THEN {} ELSE {<<Root, T.scr.bgTex>>}]])
DrawWindows(T, W, region) ==
    LET Draws(U, w) == IF w \in W THEN GlDraw(U, w, region) ELSE U
    IN  FoldLeft(Draws, T, T.scr.stack)
PaintOutputRegion(T, region) ==
    LET full == FullscreenWindow(T, region)
        U == OnAll(T, full, Unredirect)
        V == PaintBackground(U, region \ Cover(T, Shown(T)))
        Finish(X) == FrontOf(X, Shown(T), region)
    IN  Finish(DrawWindows(V, Shown(T) \ full, region))

(* paintOutputs: every output, in whole or as far as it is damaged.         *)
PaintOutputs(T, mask, region) ==
    LET One(U, o) ==
            IF "all" \in mask THEN PaintOutputRegion(U, o)
            ELSE IF "region" \in mask THEN PaintOutputRegion(U, o \cap region)
            ELSE U
    IN  FoldSet(LAMBDA o, U : One(U, o), T, Outputs)

(* handlePaintTimeout.  With an overlay window the damage under the topmost *)
(* one is left out; damage of the whole screen is then forgotten, for no    *)
(* region stands for it.                                                    *)
TopOverlay(T) ==
    LET pl == SelectSeq(T.scr.stack, LAMBDA w : ~T.win[w].destroyed /\ T.win[w].viewable)
    IN  IF pl # <<>> /\ ~T.win[Last(pl)].redirected THEN {Last(pl)} ELSE {}
SubtractOverlay(T) ==
    LET hidden == UNION {Area(T, w) : w \in TopOverlay(T)}
        left == (T.scr.damage \ hidden) \cap Screen
    IN  IF T.scr.count = 0 THEN T
        ELSE IF "all" \in T.scr.mask
        THEN [T EXCEPT !.scr.damage = @ \ hidden,
                       !.scr.mask = (@ \ {"all"}) \cup {"region"},
                       !.scr.forgotten = @ \cup (Screen \ left)]
        ELSE [T EXCEPT !.scr.damage = @ \ hidden]

WholeScreen(T) ==
    IF "region" \in T.scr.mask /\ Screen \subseteq T.scr.damage THEN DamageScreen(T) ELSE T
Repaint(T, mask, region) ==
    LET U == [T EXCEPT !.scr.damage = {}, !.scr.mask = {}]
        dead == {w \in Known(T) : T.win[w].destroyed}
        Mourn(X) == IF dead = {} THEN X ELSE DamageOld(X, CHOOSE w \in dead : TRUE)
    IN  Mourn(PaintOutputs(U, mask, region))
HandlePaintTimeout(T) ==
    LET Go(U) == [Repaint(U, U.scr.mask, U.scr.damage \cap Screen) EXCEPT
                     !.scr.idle = FALSE, !.scr.late = FALSE]
    IN  IF T.scr.mask = {} THEN [T EXCEPT !.scr.idle = TRUE, !.scr.late = TRUE]
        ELSE Go(WholeScreen(SubtractOverlay(T)))

-----------------------------------------------------------------------------
(* The state, and what is done to it.                                       *)

VARIABLES srv, scr, win, queue, ops
vars == <<srv, scr, win, queue, ops>>

Now == [srv |-> srv, scr |-> scr, win |-> win, queue |-> queue]
Become(T) ==
    /\ srv' = T.srv
    /\ scr' = T.scr
    /\ win' = T.win
    /\ queue' = T.queue

Full == CHOOSE a \in Shape : Screen \subseteq a
First1 == CHOOSE w \in Window : TRUE

(* One window on screen, under compositing, and nothing painted yet.        *)
Init ==
    LET on(w) == w = First1
    IN  /\ srv = [stack |-> <<First1>>, bg |-> 1, shape |-> Screen,
                  front |-> [c \in Cell |-> {}],
                  win |-> [w \in Window |-> [exists |-> on(w), mapped |-> on(w), area |-> Full,
                                             opaque |-> TRUE, ver |-> 0, redirected |-> on(w)]]]
        /\ \E u \in BOOLEAN : scr =
                 [unredirect |-> u, active |-> TRUE, mask |-> {"all"}, damage |-> {},
                  idle |-> TRUE, late |-> FALSE, count |-> 0, stack |-> <<First1>>, bgTex |-> 0,
                  bgLoaded |-> FALSE, back |-> [w \in Window |-> {}],
                  forgotten |-> {}, ended |-> FALSE]
        /\ win = [w \in Window |-> [known |-> on(w), destroyed |-> FALSE, viewable |-> on(w),
                                    mapNum |-> on(w), area |-> Full, opaque |-> TRUE,
                                    damaged |-> on(w), redirected |-> on(w),
                                    overlay |-> FALSE, bindFailed |-> FALSE,
                                    pix |-> NoPix, tex |-> NoTex, syncWait |-> FALSE,
                                    syncArea |-> Full, nDamage |-> 0, dropped |-> FALSE]]
        /\ queue = <<>>
        /\ ops = 0

Op(T) == ops < MaxOps /\ ops' = ops + 1 /\ ~scr.ended /\ Become(T)
Exists(w) == srv.win[w].exists

-----------------------------------------------------------------------------
(* What clients do to their windows.                                        *)

ClientCreate(w, a) ==
    /\ ~Exists(w) /\ ~win[w].known /\ <<"destroy", w>> \notin ToSet(queue)
    /\ Op(Emit([Now EXCEPT !.srv.stack = Append(@, w),
                           !.srv.win[w] = [@ EXCEPT !.exists = TRUE, !.area = a,
                                                    !.opaque = TRUE, !.redirected = scr.active]],
               <<"create", w>>))
ClientMap(w) ==
    /\ Exists(w) /\ ~srv.win[w].mapped
    /\ Op(Drawn(Emit([Now EXCEPT !.srv.win[w].mapped = TRUE], <<"map", w>>), w))
ClientUnmap(w) ==
    /\ srv.win[w].mapped
    /\ Op(Emit([Freeze(Now, w) EXCEPT !.srv.win[w].mapped = FALSE], <<"unmap", w>>))
ClientDraw(w) == srv.win[w].mapped /\ Op(Drawn(Now, w))
ClientMove(w, a) ==
    /\ Exists(w) /\ a # srv.win[w].area
    /\ LET T == Emit([Now EXCEPT !.srv.win[w].area = a], <<"configure", w, a>>)
       IN  IF Cardinality(a) = Cardinality(srv.win[w].area) THEN Op(T)
           ELSE Op(Drawn(Freeze(T, w), w))
ClientRaise(w) ==
    /\ Exists(w) /\ Last(srv.stack) # w
    /\ Op(Emit([Now EXCEPT !.srv.stack =
                   Append(RemoveFirst(@, w), w)], <<"raise", w>>))
ClientOpacity(w) ==
    /\ Exists(w)
    /\ Op(Emit([Now EXCEPT !.srv.win[w].opaque = ~@], <<"opacity", w>>))
ClientShape(w) == srv.win[w].mapped /\ Op(Drawn(Emit(Now, <<"shape", w>>), w))
ClientDestroy(w) ==
    /\ Exists(w)
    /\ LET T == IF srv.win[w].mapped THEN Emit(Freeze(Now, w), <<"unmap", w>>) ELSE Now
       IN  Op(Emit([T EXCEPT !.srv.stack = RemoveFirst(@, w),
                             !.srv.win[w].exists = FALSE, !.srv.win[w].mapped = FALSE],
                   <<"destroy", w>>))

(* The client has drawn and sets its counter.                               *)
ClientAnswer(w) ==
    /\ win[w].syncWait
    /\ <<"alarm", w>> \notin ToSet(queue)
    /\ ~scr.ended
    /\ Become(Emit(Now, <<"alarm", w>>))
    /\ UNCHANGED ops

-----------------------------------------------------------------------------
(* What else the compositor is told.                                        *)

ChangeBackground == Op(Emit([Now EXCEPT !.srv.bg = (@ + 1) % 4], <<"background">>))
ChangeOutputs == Op(OutputChange(Now))
ExposeRoot == Op(Emit(Now, <<"expose">>))
PluginPending == Op(DamagePending(Now))
PluginLoads == ~scr.active /\ Op(Register(Now))
PluginUnloads == scr.active /\ Op(Unregister(Now))

-----------------------------------------------------------------------------
(* What the compositor does.                                                *)

Handle(T, e) ==
    CASE e[1] = "create" -> Created(T, e[2])
      [] e[1] = "map" -> Mapped([T EXCEPT !.win[e[2]].syncArea = T.win[e[2]].area], e[2])
      [] e[1] = "unmap" -> Unmapped(T, e[2])
      [] e[1] = "damage" -> ProcessDamage(T, e[2])
      [] e[1] = "configure" -> Configured(T, e[2], e[3])
      [] e[1] = "raise" -> Restacked(T, e[2])
      [] e[1] = "opacity" -> OpacityChanged(T, e[2])
      [] e[1] = "shape" -> Shaped(T, e[2])
      [] e[1] = "alarm" -> SyncAlarm(T, e[2])
      [] e[1] = "destroy" -> [T EXCEPT !.win[e[2]].destroyed = TRUE, !.win[e[2]].mapNum = FALSE]
      [] e[1] = "background" -> UpdateBackground(T)
      [] e[1] = "expose" -> ExposeEvent(T)

Concerns(e) == IF Len(e) = 1 \/ e[1] = "create" THEN TRUE
               ELSE win[e[2]].known /\ ~win[e[2]].destroyed

HandleEvent ==
    /\ queue # <<>> /\ ~scr.ended
    /\ LET T == [Now EXCEPT !.queue = Tail(queue)]
       IN  Become(IF Concerns(Head(queue)) THEN Handle(T, Head(queue)) ELSE T)
    /\ UNCHANGED ops

(* Destroyed windows go before the next events are read.                    *)
RemoveDestroyed(w) ==
    /\ win[w].known /\ win[w].destroyed /\ ~scr.ended
    /\ Become(Removed(Now, w))
    /\ UNCHANGED ops

SyncTimeout(w) ==
    /\ win[w].syncWait /\ ~scr.ended
    /\ Become(SyncAlarm(Now, w))
    /\ UNCHANGED ops

CanPaint == scr.active /\ ~scr.ended /\ (scr.mask # {} \/ ~scr.idle)
PaintTimeout ==
    /\ CanPaint
    /\ Become(HandlePaintTimeout(Now))
    /\ UNCHANGED ops

Next ==
    \/ \E w \in Window :
          \/ \E a \in Shape : ClientCreate(w, a) \/ ClientMove(w, a)
          \/ ClientMap(w) \/ ClientUnmap(w) \/ ClientDraw(w) \/ ClientRaise(w)
          \/ ClientOpacity(w) \/ ClientShape(w) \/ ClientDestroy(w) \/ ClientAnswer(w)
          \/ RemoveDestroyed(w) \/ SyncTimeout(w)
    \/ ChangeBackground \/ ChangeOutputs \/ ExposeRoot \/ PluginPending
    \/ PluginLoads \/ PluginUnloads
    \/ HandleEvent
    \/ PaintTimeout

(* The main loop reads its events and runs its timers; a sync request that  *)
(* the client leaves unanswered ends with its timer.                        *)
Waiting(w) == win[w].syncWait /\ ~scr.ended
Fairness ==
    /\ []<>(queue = <<>> \/ scr.ended) \/ []<><<HandleEvent>>_vars
    /\ []<>~CanPaint \/ []<><<PaintTimeout>>_vars
    /\ \A w \in Window : []<>~Waiting(w) \/ []<><<SyncTimeout(w)>>_vars

Spec == Init /\ [][Next]_vars /\ Fairness

-----------------------------------------------------------------------------
Painted ==
    /\ scr.active /\ ~scr.ended
    /\ queue = <<>> /\ scr.mask = {}
    /\ \A w \in Window : ~win[w].syncWait

(* Places that are not painted: damage forgotten with an overlay window on  *)
(* screen, damage lost by the counter of a sync request, overlay windows.   *)
Unpainted ==
    scr.forgotten
    \cup UNION {win[w].area : w \in {v \in Window : win[v].dropped} \cup Overlays(Now)}

(* When every event is handled and nothing is left to repaint, the output   *)
(* window shows what the clients drew, stacked as the server stacks them:   *)
(* no order of draws, moves, unmaps, restacks and late damage leaves a      *)
(* stale cell (processDamage, moveNotify, resizeNotify, paintOutputRegion). *)
ScreenShows ==
    Painted => \A c \in srv.shape \ Unpainted : Display(Now, c) = Scene(Now, c)

(* The count of overlay windows is the number of windows left to the        *)
(* server, through redirect, unredirect, unmaps and destructions; with none *)
(* the output window has no hole (showOutputWindow).                        *)
OverlaysCounted ==
    scr.active => /\ scr.count = Cardinality(Overlays(Now))
                  /\ scr.count = 0 => srv.shape = Screen

(* While something is to be repainted the paint timer waits for the next    *)
(* frame only, not for the long time of an idle screen (scheduleRepaint).   *)
NoDamageAsleep == scr.active /\ scr.mask # {} => ~scr.late

(* A window that left the screen holds no pixmap and no texture: they would *)
(* show its old contents when it comes back (unmapNotify, release).         *)
PixmapsReleased ==
    \A w \in Window : win[w].known /\ ~win[w].viewable => ~win[w].pix.bound /\ ~win[w].tex.bound

(* Once the clients stop, the events run out and so does the damage:        *)
(* painting itself causes no damage (handlePaintTimeout).                   *)
ComesToRest == <>[](scr.ended \/ ~scr.active \/ (queue = <<>> /\ scr.mask = {}))

(* Holes, pixmaps and the paint timer agree with the windows and damage.    *)
ResourcesAgree == OverlaysCounted /\ PixmapsReleased /\ NoDamageAsleep
=============================================================================
