------------------------------- MODULE Viewports -------------------------------
(***************************************************************************)
(* Windows on viewports: what clients, pagers, the user and the            *)
(* configuration ask, and what compiz makes of it while the server's       *)
(* reports of earlier requests are on their way.                           *)
(***************************************************************************)
EXTENDS Place

CONSTANTS
    Sessions,    \* the screens and windows to look at, and what is done to them
    MaxReports   \* bound: reports on their way when something is asked

ASSUME ViewportsAssumption == MaxReports \in Nat

VARIABLES
    session,  \* what may be done, and how often
    desk,     \* size, viewport, number of viewports, outputs, work areas, the place
              \* plugin's state, the reports and messages on their way
    win,      \* the windows
    home,     \* where each maximized window came from, on the whole desktop
    inputs    \* how often something was asked

vars == <<session, desk, win, home, inputs>>

S0 == desk @@ [win |-> win]
Becomes(S) ==
    /\ win' = S.win
    /\ desk' = [f \in DOMAIN desk |-> S[f]]

NoMove == [d \in Axes |-> 0]

OnAllViewports(w) == (~w.managed /\ ~w.mapped) \/ w.type = "dock" \/ w.sticky

\* the window goes round the desktop when it leaves it on one side
GetMovementForOffset(S, w, off) == [d \in Axes |->
    LET all == S.size[d] * S.n[d]
        o == Rem(off[d], all)
        m == w.at[d] + o
    IN  CASE S.n[d] = 1 -> o
          [] S.n[d] # 1 /\ m - w.in[d] < S.size[d] - all -> o + all
          [] S.n[d] # 1 /\ m - w.in[d] >= S.size[d] - all
                        /\ m + w.at[Size(d)] + w.out[d] > all -> o - all
          [] OTHER -> o]

\* moved from where the last report left it, which undoes what is still to be reported:
\* history of the windows that this happened to
MoveWindow(S, i, by) ==
    LET late == \E k \in DOMAIN S.reports : S.reports[k].win = i /\ S.reports[k].rect # None
    IN  SyncPosition(Move([S EXCEPT !.crossed = IF late THEN @ \cup {i} ELSE @], i, by), i)

MoveViewport(S, t) ==
    LET vp == [d \in Axes |-> (S.vp[d] - t[d]) % S.n[d]]
        off == [d \in Axes |-> (S.vp[d] - vp[d]) * S.size[d]]
        T == [S EXCEPT !.vp = vp]
        Moves(i, U) == LET by == GetMovementForOffset(U, U.win[i], off)
                       IN  MoveWindow(ShiftSaved(U, i, by), i, by)
    IN  IF vp = S.vp THEN S
        ELSE FoldSet(Moves, T, {i \in DOMAIN S.win : ~OnAllViewports(S.win[i])})

\* windows of the viewports that go move to the last that stays
SetVirtualScreenSize(S, n) ==
    LET less == {d \in Axes : n[d] < S.n[d]}
        t == [d \in Axes |-> IF S.vp[d] >= n[d] THEN S.vp[d] - (n[d] - 1) ELSE 0]
        vpOf(T, w, d) == Quot(w.geo[d], T.size[d]) - (IF w.geo[d] < 0 THEN 1 ELSE 0) + T.vp[d]
        By(T, w) == [d \in Axes |->
            IF d \in less THEN Least((n[d] - 1) - vpOf(T, w, d), 0) * T.size[d] ELSE 0]
        \* history: windows that have gone round to the left, or that are to be restored
        Left(T, w) == w.save # <<>> \/ \E d \in less : vpOf(T, w, d) < 0
        MoveBack(T, i, by) == IF OnAllViewports(T.win[i]) \/ by = NoMove THEN T
                              ELSE MoveWindow(T, i, by)
        Shrink(T) == [FoldSet(LAMBDA i, U : MoveBack(U, i, By(U, U.win[i])), T, DOMAIN T.win)
                        EXCEPT !.n = n,
                               !.crossed = @ \cup {i \in DOMAIN T.win : Left(T, T.win[i])}]
    IN  IF less = {} THEN [S EXCEPT !.n = n] ELSE Shrink(MoveViewport(S, t))

\* the same way, but what is drawn around the frame counts too
MoveToViewportPosition(S, i, p) ==
    LET w == S.win[i]
        all == [d \in Axes |-> S.size[d] * S.n[d]]
        to == [d \in Axes |-> IF S.n[d] = 1 THEN p[d]
                 ELSE ((p[d] + S.vp[d] * S.size[d]) % all[d]) - S.vp[d] * S.size[d]]
        by == [d \in Axes |->
                 LET m == to[d]
                     t == m - w.at[d]
                     left == m - w.in[d] - w.shadow[d]
                     right == m + w.at[Size(d)] + w.out[d] + w.shadow[d]
                 IN  CASE S.n[d] # 1 /\ left < S.size[d] - all[d] -> t + all[d]
                       [] S.n[d] # 1 /\ left >= S.size[d] - all[d] /\ right > all[d] -> t - all[d]
                       [] OTHER -> t]
    IN  IF Position(w.at) = to \/ OnAllViewports(w) THEN S
        ELSE MoveWindow(ShiftSaved(S, i, by), i, by)

\* a window that becomes sticky comes to the current viewport
StateChangeNotify(S, i, last) ==
    LET by == Offset([S EXCEPT !.vp = DefaultViewport(S, S.win[i].geo)], S.vp)
    IN  IF S.win[i].sticky /\ ~last.sticky /\ by # NoMove THEN MoveWindow(S, i, by) ELSE S

\* changeState and updateAttributes
SetState(S, i, w) ==
    UpdateSize(StateChangeNotify([S EXCEPT !.win[i].max = w.max, !.win[i].full = w.full,
                                           !.win[i].sticky = w.sticky], i, S.win[i]), i)

\* a window that no viewport shows comes back when it is activated
EnsureWindowVisibility(S, i) ==
    LET w == S.win[i]
        first(d) == S.area[d] - S.size[d] * S.vp[d]
        last(d) == first(d) + S.area[Size(d)] + S.n[d] * S.size[d]
        by == [d \in Axes |->
                 CASE w.geo[d] - w.in[d] >= last(d) -> last(d) - 25 - w.geo[d]
                   [] w.geo[d] - w.in[d] < last(d) /\ End(w.geo, d) + w.out[d] <= first(d)
                        -> first(d) + 25 - End(w.geo, d)
                   [] OTHER -> 0]
    IN  IF Free(w) \/ w.struts # {} \/ by = NoMove THEN S
        ELSE ConfigureXWindow(S, i, Position(Shifted(w.geo, by)))

ActivateWindow(S, i) == UpdateSize(EnsureWindowVisibility(S, i), i)

\* what a map request may lead to: a window is placed if it is not yet, has its size
\* brought up to date and is mapped
ProcessMap(S, i) ==
    LET T == [S EXCEPT !.win[i].managed = TRUE]
        w == T.win[i]
        valid == ValidateResizeRequest(T, i, AdjustCorner(w, 1), Corner(w), "application")
        Asks(R, yes) == IF yes THEN SendMaximizationRequest(R, i) ELSE R
        At(p) == ConfigureXWindow(Asks(T, valid.large \/ p.asks), i,
                                  Put(valid.c, OnViewport(T, p.at, w.viewport)))
        Ready(R) == UpdateSize([R EXCEPT !.win[i].placed = TRUE], i)
        Mapped(R) == [R EXCEPT !.reports = Append(@, [win |-> i, rect |-> None])]
        from == Put(Position(w.geo), Only(valid.c, Axes))
    IN  {Mapped(Ready(R)) : R \in IF w.placed THEN {T} ELSE {At(p) : p \in DoPlacement(T, i, from)}}

\* map and unmap: the struts of mapped docks count, and sizes are brought up to date
MapNotify(S, i) ==
    LET T == [S EXCEPT !.win[i].mapped = TRUE]
    IN  UpdateSize(IF T.win[i].struts = {} THEN T ELSE UpdateWorkarea(T), i)

\* the client withdraws the window: what was adjusted for the frame is taken back
Unmap(S, i) ==
    LET T == [S EXCEPT !.win[i].mapped = FALSE, !.win[i].managed = FALSE, !.win[i].placed = FALSE]
        c == AdjustCorner(S.win[i], -1)
        U == IF c = <<>> THEN T ELSE ConfigureXWindow(T, i, c)
    IN  IF S.win[i].struts = {} THEN U ELSE UpdateWorkarea(U)

\* a size the client has allowed for; increments are ignored where it is maximized
Allowed(w, d) ==
    LET h == w.hints[d]
        s == w.geo[Size(d)]
    IN  h.min <= s /\ s <= h.max /\ (d \in w.max \/ (s - h.base) % h.inc = 0)

\* a dock changes the property: first the plugin looks at it, then the core
StrutNotify(S, i, p) ==
    LET Core(T) == IF UpdateStruts(T, i) = T THEN T ELSE UpdateWorkarea(UpdateStruts(T, i))
    IN  Core(HandleStrut([S EXCEPT !.win[i].strut = p], i))

\* m names the outputs at the four edges.  The far corner is passed as the size.
SetFullscreenMonitors(S, i, m) ==
    LET known == m # None /\ \A e \in DOMAIN m : m[e] \in DOMAIN S.outs
        rect == Rect(S.outs[m.left].x, S.outs[m.top].y,
                     End(S.outs[m.right], "x"), End(S.outs[m.bottom], "y"))
        new == IF known /\ ~Empty(rect) THEN rect ELSE None
        \* history: a rectangle that ends beyond the screen, so that its viewport is unclear
        T == [S EXCEPT !.win[i].monitors = new,
                       !.crossed = IF new = None \/ Within(new, WholeScreen(S)) THEN @
                                                                             ELSE @ \cup {i}]
    IN  IF S.win[i].full /\ (new # None \/ S.win[i].monitors # None) THEN UpdateSize(T, i) ELSE T

\* an output whose geometry is set has all of it for its work area
UpdateOutputDevices(S, outs) ==
    LET T == FoldSet(LAMBDA i, U : SetFullscreenMonitors(U, i, None),
                     [S EXCEPT !.outs = outs, !.areas = outs,
                               !.current = IF @ > Len(outs) THEN 1 ELSE @],
                     {i \in DOMAIN S.win : S.win[i].monitors # None})
        \* history: windows that stay as they are, no work area being another than the output
        Left == IF UpdateWorkarea(T) # T THEN {}
                ELSE {i \in DOMAIN S.win : Maximized(S.win[i])}
    IN  UpdateWorkarea([T EXCEPT !.crossed = @ \cup Left])

\* the root window changes its size: the plugin, then the core
Configure(S, size, outs) ==
    LET \* history: windows beyond the last viewport of the new size
        beyond == {i \in DOMAIN S.win :
                     \E d \in Axes : S.win[i].geo[d] >= size[d] * (S.n[d] - S.vp[d])}
    IN  UpdateOutputDevices([HandleScreenSizeChange(S, size) EXCEPT
                                 !.size = size, !.crossed = @ \cup beyond], outs)

-----------------------------------------------------------------------------
Does(what) == what \in session.does

\* one of these things happens while reports are on their way
Ask(S) ==
    /\ inputs < session.most /\ inputs' = inputs + 1
    /\ Len(desk.reports) <= MaxReports
    /\ Becomes(S)
    /\ UNCHANGED session

Keep == UNCHANGED home
\* where a window was means little on a screen of another size
Forget == home' = [i \in DOMAIN home |-> None]
Managed == {i \in DOMAIN win : win[i].managed}

\* where the window is on the whole desktop
Absolute(S, r) == Shifted(r, [d \in Axes |-> S.vp[d] * S.size[d]])

ConfigureRequest == Does("configure") /\ \E i \in Managed, c \in session.requests :
    LET S == MoveResize(S0, i, c, "application")
        \* sizes of maximized axes are not the client's to change
        held == {f \in {"w", "h"} : win[i].full \/ \E d \in win[i].max : Size(d) = f}
        Follow(r) == [f \in Fields |-> IF f \in held THEN r[f]
                                       ELSE r[f] + S.win[i].geo[f] - win[i].geo[f]]
    IN  /\ Ask(S)
        /\ home' = IF home[i] = None THEN home ELSE [home EXCEPT ![i] = Follow(@)]

StateMessage == Does("state") /\ \E i \in {j \in Managed : win[j].type = "normal"} :
    \E d \in Axes \cup {"full", "sticky"} :
    /\ d \in session.states
    /\ LET asked == CASE d \in Axes -> [win[i] EXCEPT !.max = SymDiff(@, {d})]
                      [] d = "full" -> [win[i] EXCEPT !.full = ~@]
                      [] d = "sticky" -> [win[i] EXCEPT !.sticky = ~@]
           w == ConstrainWindowState(asked)
       IN  /\ Ask(IF w = win[i] THEN S0 ELSE SetState(S0, i, w))
           /\ home' = [home EXCEPT ![i] =
                CASE Maximized(w) /\ ~Maximized(win[i]) -> Absolute(S0, win[i].geo)
                  [] ~Maximized(w) -> None
                  [] OTHER -> @]

SwitchViewport == Does("switch") /\ Keep /\ \E d \in Axes, t \in {-1, 1} :
    S0.n[d] > 1 /\ Ask(MoveViewport(S0, [NoMove EXCEPT ![d] = t]))

OptionSize == Does("size") /\ Keep /\ \E n \in session.sizes :
    n # desk.n /\ Ask(SetVirtualScreenSize(S0, n))

\* a window whose startup id changes is wanted on the current viewport
StartupId == Does("startup") /\ \E i \in Managed :
    LET off == Offset(S0, DefaultViewport(S0, win[i].geo))
        T == MoveToViewportPosition(S0, i, [d \in Axes |-> win[i].at[d] - off[d]])
    IN \E S \in {T, ActivateWindow(T, i)} :    \* if it may have the focus
        /\ Ask(S)
        /\ home' = IF home[i] = None THEN home
                   ELSE [home EXCEPT ![i] = Shifted(@, [d \in Axes |->
                                                S.win[i].geo[d] - win[i].geo[d]])]

Activate == Does("activate") /\ Keep /\ \E i \in Managed : Ask(ActivateWindow(S0, i))

MapRequest == Does("map") /\ Keep /\ \E i \in DOMAIN win \ Managed :
    \E S \in ProcessMap(S0, i) : Ask(S)

Unmaps == Does("unmap") /\ \E i \in Managed :
    win[i].mapped /\ home' = [home EXCEPT ![i] = None] /\ Ask(Unmap(S0, i))

StrutChange == Does("strut") /\ Keep /\ \E i \in Managed, p \in session.struts :
    win[i].type = "dock" /\ p # win[i].strut /\ Ask(StrutNotify(S0, i, p))

\* the client sets the hints of its size, or the motif hints
HintsChange == Does("hints") /\ Keep /\ \E i \in Managed, p \in session.hints :
    LET w == UpdateNormalHints(win[i], p)
    IN  /\ w.hints # win[i].hints
        /\ Ask([S0 EXCEPT !.win[i] = WithActions(
                    \* history: hints that the size does not follow yet
                    [w EXCEPT !.stale = Maximized(w) \/ \E d \in Axes : ~Allowed(w, d)])])

MotifChange == Does("motif") /\ Keep /\ \E i \in Managed, f \in session.functions :
    f # win[i].functions /\ Ask([S0 EXCEPT !.win[i] = WithActions([@ EXCEPT !.functions = f])])

ScreenChange == Does("screen") /\ Forget /\ \E c \in session.screens :
    c.size # desk.size /\ Ask(Configure(S0, c.size, c.outs))

\* no monitors are asked for by a message that names outputs there are not
FullscreenMonitors == Does("monitors") /\ Keep /\ \E i \in Managed :
    \E k, l \in 1 .. Len(desk.outs) + 1 :
        Ask(SetFullscreenMonitors(S0, i, [left |-> k, top |-> k, right |-> l, bottom |-> l]))

\* the option of the outputs is set
OutputsOption == Does("outputs") /\ Keep /\ \E outs \in session.outputs :
    outs # desk.outs /\ Ask(UpdateOutputDevices(S0, outs))

\* the user moves a window; the plugin forgets where it was
Drag == Does("drag") /\ Keep /\ \E i \in Managed, d \in Axes :
    /\ win[i].type = "normal" /\ ~Maximized(win[i]) /\ win[i].geo[d] + 20 < desk.size[d]
    /\ Ask(MoveWindow([S0 EXCEPT !.win[i].orig = None], i, [NoMove EXCEPT ![d] = 20]))

\* the server reports what was configured
HandleConfigure ==
    /\ desk.reports # <<>>
    /\ LET e == Head(desk.reports)
           S == [S0 EXCEPT !.reports = Tail(@)]
       IN  Becomes(IF e.rect = None THEN MapNotify(S, e.win) ELSE HandleReport(S, e))
    /\ UNCHANGED <<session, home, inputs>>

\* the place plugin's request to maximize a window comes back as a message
HandleMaximize == \E i \in desk.asks :
    LET w == ConstrainWindowState([win[i] EXCEPT !.max = Axes])
        S == [S0 EXCEPT !.asks = @ \ {i}]
    IN
    /\ Becomes(IF win[i].managed /\ w # win[i] THEN SetState(S, i, w) ELSE S)
    /\ home' = [home EXCEPT ![i] =
           CASE ~win[i].managed -> @
             [] win[i].managed /\ ~Maximized(w) -> None
             [] OTHER -> IF @ = None THEN Absolute(S0, win[i].geo) ELSE @]
    /\ UNCHANGED <<session, inputs>>

ResizeTimeout ==
    /\ desk.fallback # None
    /\ Becomes(Fallback(S0))
    /\ Forget
    /\ UNCHANGED <<session, inputs>>

Init ==
    /\ session \in Sessions
    /\ LET Made == FoldSet(LAMBDA i, U : UpdateStruts(U, i), session.start,
                           DOMAIN session.start.win)
           S == UpdateWorkarea(Made)
       IN  /\ win = S.win
           /\ desk = [f \in DOMAIN S \ {"win"} |-> S[f]]
    /\ home = [i \in DOMAIN session.start.win |-> None]
    /\ inputs = 0

Next ==
    \/ ConfigureRequest \/ StateMessage \/ SwitchViewport \/ OptionSize \/ StartupId
    \/ Activate \/ MapRequest \/ Unmaps \/ StrutChange \/ HintsChange
    \/ MotifChange \/ ScreenChange
    \/ FullscreenMonitors \/ OutputsOption \/ Drag \/ HandleConfigure \/ HandleMaximize \/ ResizeTimeout

Spec == Init /\ [][Next]_vars
-----------------------------------------------------------------------------
(* Properties.                                                              *)

Quiet == desk.reports = <<>> /\ desk.fallback = None

\* Once the server has reported everything, the position a window is drawn and moved
\* from is the one it has (configure, move, syncPosition, moveViewport).
GeometryAgrees == Quiet => \A i \in Managed : win[i].at = win[i].real

\* A maximized window fills the work area of its output and a fullscreen one the output,
\* on the viewport it is on, whatever docks, outputs, viewports and the size of the
\* screen have become since (updateSize, addWindowSizeChanges).
Fits(i) ==
    LET w == win[i]
        g == w.geo
        off == Offset(S0, ViewportForGeometry(S0, g))
        area == desk.areas[OutputDeviceForGeometry(S0, g)]
    IN  IF w.full THEN g = FullscreenRect(S0, i, g)
        ELSE \A d \in w.max : \/ w.stale \/ w.hints[d].max < area[Size(d)]
                             \/ (g[d] = off[d] + area[d] + w.in[d]
                                 /\ End(g, d) = off[d] + End(area, d) - w.out[d])
MaximizedFits == Quiet => \A i \in Managed \ desk.crossed : win[i].type # "dock" => Fits(i)

\* A window has a size its client has allowed for, or has been cut down to the work area
\* by the place plugin, whatever was requested, maximized and restored since the hints were
\* last set (constrainNewWindowSize, addWindowSizeChanges).
Cut(w, d) == \E k \in DOMAIN desk.areas :
    w.geo[Size(d)] = desk.areas[k][Size(d)] - w.in[d] - w.out[d]
SizesAllowed == \A i \in Managed : win[i].type # "dock" /\ ~win[i].full /\ ~win[i].stale =>
    \A d \in Axes : Allowed(win[i], d) \/ Cut(win[i], d)

\* A window that is no longer maximized is where it was before on the desktop, and as
\* large (or 10 less if the size would not change), although the viewport has changed
\* and clients have moved the window meanwhile (the saved geometry of moveViewport,
\* moveResize and restoreGeometry).
Home(S, i, r) ==
    LET now == Absolute(S, S.win[i].geo)
        Round(d, by) == (now[d] - r[d] - by) % (S.size[d] * S.n[d]) = 0
        Allows(less) == ConstrainNewWindowSize(S.win[i], [d \in Axes |-> r[Size(d)] - less])
        Sized(d, less) == now[Size(d)] \in {r[Size(d)] - less, Allows(less)[d]}
    IN  \A d \in Axes : (Sized(d, 0) /\ Round(d, 0)) \/ (Sized(d, 10) /\ Round(d, 5))
RestoredHome == [][\A i \in DOMAIN home :
    home[i] # None /\ ~Maximized(win'[i]) /\ i \notin desk.crossed => Home(S0', i, home[i])]_vars

\* Every window can be reached by switching viewports, round the desktop in either
\* direction (setVirtualScreenSize, moveViewport, moveResize).
OnDesktop(w) == \A d \in Axes :
    LET all == desk.size[d] * desk.n[d]
    IN  End(w.geo, d) + w.out[d] > desk.size[d] - all /\ w.geo[d] - w.in[d] < all
WindowsReachable == Quiet => \A i \in Managed \ desk.crossed : OnDesktop(win[i])

\* A window that compiz places and that fits is inside the work area of an output, on the
\* viewport it was started on (doPlacement, constrainToWorkarea).
Placed(i) == win[i].placed = FALSE /\ win'[i].placed = TRUE /\ win'[i].managed
PlacedInside == [][\A i \in DOMAIN win :
    Placed(i) /\ Strategy(S0, i) \in {"place", "center", "constrain"} /\ win[i].viewport = None =>
        LET f == BorderRect(win'[i])
            there == Offset(S0, IF win[i].initial = None THEN desk.vp ELSE win[i].initial)
        IN  \E k \in DOMAIN desk.outs :
                \/ Within(f, Shifted(desk.areas[k], there))
                \/ \E d \in Axes : f[Size(d)] > desk.areas[k][Size(d)]]_vars

(* Once all is reported: positions agree, sizes fit, windows are in reach.  *)
GeometryKept == GeometryAgrees /\ MaximizedFits /\ SizesAllowed /\ WindowsReachable
=============================================================================
