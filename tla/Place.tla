--------------------------------- MODULE Place ---------------------------------
(***************************************************************************)
(* The place plugin: where new windows go, which part of a client's        *)
(* request to configure a window is granted, and what becomes of the       *)
(* windows when the size of the screen changes.                            *)
(***************************************************************************)
EXTENDS Geometry

\* the frame of a window at a position
Frame(w, g) == Rect(g.x - w.in.x, g.y - w.in.y,
                    g.w + w.in.x + w.out.x, g.h + w.in.y + w.out.y)
BorderRect(w) == Frame(w, w.geo)

Large(r, area) == r.w >= area.w /\ r.h >= area.h

SendMaximizationRequest(S, i) == [S EXCEPT !.asks = @ \cup {i}]

\* a window that is too large is maximized if it has a title and these two actions: the
\* bits of the two maximized states are compared with those of actions
MayMaximize(w) == {"stick", "minimize"} \subseteq w.actions /\ w.titled /\ ~w.full

\* an interval of a frame moved into a work area, or cut down to it
Fit(from, len, area, d) ==
    IF len > area[Size(d)] THEN <<area[d], area[Size(d)]>>
    ELSE LET right == Most(from, area[d])
         IN  <<Least(right, End(area, d) - len), len>>

\* doValidateResizeRequest of the rectangle r, moving it only if its size changed
DoValidate(S, i, r, clamp) ==
    LET w == S.win[i]
        Pos(d) == LET p == Rem(r[d], S.size[d])
                  IN  CASE ~clamp -> r[d]
                        [] clamp /\ p + r[Size(d)] < 0 -> p + S.size[d]
                        [] OTHER -> p
        \* by how much an axis moves, and the size it gets
        Axis(p, d, area) ==
            LET fit == Fit(p - w.in[d], r[Size(d)] + w.in[d] + w.out[d], area, d)
            IN  [by |-> fit[1] + w.in[d] - p, size |-> fit[2] - w.in[d] - w.out[d]]
        Cut(x, y) == IF x.size = r.w /\ y.size = r.h THEN r
                     ELSE Rect(r.x + x.by, r.y + y.by, x.size, y.size)
        In(area) == [rect |-> Cut(Axis(Pos("x"), "x", area), Axis(Pos("y"), "y", area)),
                     area |-> area,
                     large |-> clamp /\ Large(r, area) /\ MayMaximize(w)]
    IN  In(S.areas[OutputDeviceForGeometry(S, r)])

PartlyOffscreen(S, w) == \E d \in Axes : w.geo[d] < 0 \/ End(w.geo, d) > S.size[d]

\* the plugin's validateResizeRequest around the core's, of a request c whose other fields
\* are those of rest
ValidateResizeRequest(S, i, c, rest, source) ==
    LET w == S.win[i]
        Granted(core, full, v) == [large |-> v.large,
            c |-> Put(core, Only(v.rect, {f \in Fields : v.rect[f] # full[f]}))]
        After(core) ==
            IF \/ c = <<>> \/ source = "pager" \/ w.full \/ w.type = "dock"
               \/ PartlyOffscreen(S, w)
            THEN [c |-> core, large |-> FALSE]
            ELSE Granted(core, Put(rest, core), DoValidate(S, i, Put(rest, core), TRUE))
    IN  After(ValidatePosition(S, i, c))

\* the size a request leads to, with the increments the client has asked for
ConstrainedRequest(w, c) ==
    LET Sized(s) == Put(c, Only(s, {f \in DOMAIN s : f \in DOMAIN c \/ s[f] # w.geo[f]}))
        In(size) == Sized(("w" :> size.x) @@ ("h" :> size.y))
    IN  IF DOMAIN c \cap {"w", "h"} = {} THEN c
        ELSE In(ConstrainNewWindowSize(w, [d \in Axes |-> Put(w.geo, c)[Size(d)]]))

\* sizes of maximized axes are not the client's to change, only to be brought up to date
WithSizeChanges(S, i, c) ==
    LET w == S.win[i]
        Changes(r) == Only(r, {f \in DOMAIN r : r[f] # w.geo[f]})
    IN  Changes(Put(Only(c, DOMAIN c \ {Size(d) : d \in w.max}),
                    SizeChanges(S, i, Put(w.geo, c))))

\* moveResize of a request c
MoveResize(S, i, c, source) ==
    LET w == S.win[i]
        Done(T, r) ==
            LET by == [d \in Axes |-> IF d \in DOMAIN r THEN r[d] - w.geo[d] ELSE 0]
                U == ShiftSaved(AddWindowSizeChanges(T, i), i, by)
            IN  IF r = <<>> THEN U ELSE ConfigureXWindow(U, i, r)
        Asked(r) == Put(r, AdjustForGravity(w, r, Put(w.geo, r), 1))
        Valid(v) == Done(IF v.large THEN SendMaximizationRequest(S, i) ELSE S,
                          WithSizeChanges(S, i, v.c))
        T == Valid(ValidateResizeRequest(S, i, Asked(ConstrainedRequest(w, c)), w.geo, source))
    IN  IF w.hinted /\ DOMAIN c \cap Axes # {} THEN [T EXCEPT !.win[i].placed = TRUE] ELSE T

-----------------------------------------------------------------------------
(* Placement.  It starts from the position the window has and yields the    *)
(* set of positions it may get, one except where the mode is random, and    *)
(* says of each whether the window asks to be maximized there.              *)

Relevant(S, i) == {j \in DOMAIN S.win \ {i} : S.win[j].mapped /\ S.win[j].type # "dock"}

\* the client has set its position, and no match of the user overrules it
HasUserDefinedPosition(w) == w.hinted /\ ~w.forced

GetStrategy(S, i) ==
    LET w == S.win[i]
        overParent == w.type = "dialog" /\ w.parent # None /\ S.win[w.parent].managed
    IN  CASE w.type = "dock" \/ w.full -> "no"
          [] w.type # "dock" /\ ~w.full /\ HasUserDefinedPosition(w) -> "constrain"
          [] OTHER -> CASE overParent -> "parent"
                        [] w.type = "dialog" /\ ~overParent -> "center"
                        [] OTHER -> "place"

\* a position the user wants for windows like this one comes before all that
Strategy(S, i) ==
    LET rule == S.win[i].rule
    IN  IF rule = None THEN GetStrategy(S, i) ELSE IF rule.keep THEN "constrain" ELSE "no"

\* the output to place a window on, with its work area; all of them are one, unless the
\* window is centred
GetPlacementOutput(S, i, strategy, pos) ==
    LET Device(k) == [rect |-> S.outs[k], area |-> S.areas[k], all |-> FALSE]
        At(g) == Device(OutputDeviceForGeometry(S, g))
        multi == IF S.mode = "pointer" THEN "pointer" ELSE S.multi
    IN  CASE strategy = "parent" -> At(S.win[S.win[i].parent].geo)
          [] strategy = "constrain" -> At(Put(S.win[i].geo, pos))
          [] OTHER ->
               CASE multi = "pointer" /\ S.pointer # None -> At(S.pointer)
                 [] multi = "focused" /\ S.active # None -> At(S.win[S.active].geo)
                 [] multi = "across" /\ strategy # "center" /\ Len(S.outs) > 1 ->
                      [rect |-> WholeScreen(S), area |-> WholeScreen(S), all |-> TRUE]
                 [] OTHER -> Device(S.current)

PlaceCentered(w, area) ==
    [d \in Axes |-> area[d] + Quot(area[Size(d)] - w.geo[Size(d)], 2)]

\* all that rand () may choose
PlaceRandom(w, area) ==
    LET room(d) == Most(area[Size(d)] - w.geo[Size(d)], 1)
    IN  {[x |-> area.x + a, y |-> area.y + b] : a \in 0 .. room("x") - 1,
                                                b \in 0 .. room("y") - 1}

PlacePointer(S, w, area) ==
    IF S.pointer = None THEN PlaceCentered(w, area)
    ELSE [d \in Axes |-> S.pointer[d] - w.geo[Size(d)] \div 2]

\* how much of a candidate other windows cover
OverlapOf(S, i, r) ==
    LET weight == [above |-> 16, normal |-> 1, below |-> 0]
        cost(j) == Area(Meet(r, BorderRect(S.win[j]))) * weight[S.win[j].layer]
    IN  MapThenSumSet(cost, Relevant(S, i))

\* the next column (d = "x") or row to try: an edge of another window, or the far end
NextPlace(S, i, area, at, d) ==
    LET w == S.win[i]
        len == w.geo[Size(d)] - 1
        far == IF End(area, d) - len > at[d] THEN End(area, d) - len ELSE End(area, d)
        InRow(r) == d = "y" \/ (at.y < End(r, "y") /\ r.y < at.y + w.geo.h - 1)
        edges == UNION {LET r == BorderRect(S.win[j])
                        IN  IF InRow(r) THEN {End(r, d), r[d] - len} ELSE {}
                        : j \in Relevant(S, i)}
    IN  Min({far} \cup {e \in edges : e > at[d]})

\* placeSmart: columns from the left, rows from the top, until nothing is covered
RECURSIVE SmartFrom(_, _, _, _, _)
SmartFrom(S, i, area, at, best) ==
    LET w == S.win[i]
        r == Rect(at.x, at.y, w.geo.w - 1, w.geo.h - 1)
        low == End(r, "y") > End(area, "y") /\ r.h < area.h
        wide == End(r, "x") > End(area, "x")
        cost == OverlapOf(S, i, r)
        better == IF best.cost = None \/ (cost >= 0 /\ cost < best.cost)
                  THEN [cost |-> cost,
                        at |-> IF best.cost = None THEN best.at ELSE at] ELSE best
        right == [at EXCEPT !.x = NextPlace(S, i, area, at, "x")]
        down == [x |-> area.x, y |-> NextPlace(S, i, area, at, "y")]
    IN  CASE low -> best.at
          [] ~low /\ wide -> IF down.y >= End(area, "y") THEN best.at
                             ELSE SmartFrom(S, i, area, down,
                                            IF best.cost = None THEN [best EXCEPT !.cost = -2]
                                                                ELSE best)
          [] ~low /\ ~wide /\ cost = 0 -> at
          [] OTHER -> SmartFrom(S, i, area, right, better)

PlaceSmart(S, i, area) ==
    LET w == S.win[i]
        at == SmartFrom(S, i, area, Position(area), [cost |-> None, at |-> Position(area)])
        y == IF w.geo.h - 1 >= area.h THEN area.y ELSE at.y
    IN  [x |-> at.x + w.in.x, y |-> y + w.in.y]

\* windows of the work area
Cascaded(S, area, i) ==
    {j \in Relevant(S, i) : ~S.win[j].full /\ ~Empty(Meet(S.win[j].geo, area))}

\* sorted with a comparison that is true of equals, list::sort turns them round
SortedBy(others, Key(_)) ==
    SetToSortSeq(others, LAMBDA a, b : Key(a) < Key(b) \/ (Key(a) = Key(b) /\ a > b))

\* the places of the centre of a tiling, below other windows and to the right of them, each
\* with the borders by which the window is then moved: to the right those of the other one
CascadePlaces(S, i, area) ==
    LET r == BorderRect(S.win[i])
        others == Cascaded(S, area, i)
        frame == [j \in others |-> BorderRect(S.win[j])]
        Moved(x, y) == [r EXCEPT !.x = x, !.y = y]
        \* sorted twice: equals are turned round by each axis
        Ordered(d) == SetToSortSeq(others, LAMBDA a, b :
            LET p == frame[a]
                q == frame[b]
            IN  \/ p[d] < q[d] \/ (p[d] = q[d] /\ p[Other(d)] > q[Other(d)])
                \/ (p[d] = q[d] /\ p[Other(d)] = q[Other(d)] /\ a < b))
        Places(order, Place(_), own) ==
            [k \in DOMAIN order |-> [rect |-> Place(frame[order[k]]),
                                      in |-> S.win[IF own THEN i ELSE order[k]].in]]
        centred == Moved(area.x + (area.w % (r.w + 1)) \div 2,
                         area.y + (area.h % (r.h + 1)) \div 3)
    IN  <<[rect |-> centred, in |-> S.win[i].in]>>
        \o Places(Ordered("y"), LAMBDA p : Moved(p.x, End(p, "y")), TRUE)
        \o Places(Ordered("x"), LAMBDA p : Moved(End(p, "x"), p.y), FALSE)

\* those that are in the work area and that no window covers
FirstFits(S, i, area) ==
    LET Fits(p) == /\ Within(p.rect, area)
                   /\ \A j \in Cascaded(S, area, i) :
                          S.win[j].type = "normal" => Empty(Meet(p.rect, BorderRect(S.win[j])))
    IN  SelectSeq(CascadePlaces(S, i, area), Fits)

\* the diagonal on which windows are cascaded
RECURSIVE CascadeNext(_, _, _, _, _)
CascadeNext(S, i, area, list, st) ==
    LET w == S.win[i]
        o == S.win[list[st.k]]
        start == [d \in Axes |-> Most(0, area[d])]
        InTheWay == \A d \in Axes : LET gap == o.geo[d] - o.in[d] - st.at[d]
                                    IN  (IF gap < 0 THEN -gap ELSE gap) < Most(w.in[d], 15)
        at == Position(o.geo)
        again == [x |-> start.x + 50 * (st.stage + 1), y |-> start.y]
    IN  IF st.k > Len(list) THEN st.at
        ELSE IF ~InTheWay THEN CascadeNext(S, i, area, list, [st EXCEPT !.k = @ + 1])
        ELSE IF \A d \in Axes : at[d] + w.geo[Size(d)] <= End(area, d)
          THEN CascadeNext(S, i, area, list, [st EXCEPT !.k = @ + 1, !.at = at])
        ELSE IF again.x + w.geo.w < End(area, "x")
          \* the loop goes on with the second window of the list
          THEN CascadeNext(S, i, area, list, [k |-> 2, at |-> again, stage |-> st.stage + 1])
        ELSE start

\* the distance of a frame from the corner of the screen, as an integer
FromOrigin(w) ==
    LET p == Position(BorderRect(w))
        square == p.x * p.x + p.y * p.y
    IN  CHOOSE n \in 0 .. square : n * n <= square /\ square < (n + 1) * (n + 1)

PlaceCascade(S, i, area) ==
    LET w == S.win[i]
        fits == FirstFits(S, i, area)
        corner == [d \in Axes |-> Most(0, area[d])]
        next == CascadeNext(S, i, area,
                            SortedBy(Cascaded(S, area, i), LAMBDA j : FromOrigin(S.win[j])),
                            [k |-> 1, at |-> corner, stage |-> 0])
    IN  IF fits # <<>> THEN [d \in Axes |-> fits[1].rect[d] + fits[1].in[d]]
                       ELSE [d \in Axes |-> next[d] + w.in[d]]

\* mutant: the frame is not counted at the right and the bottom
ConstrainClient(w, area, pos) ==
    [d \in Axes |->
        Most(Least(pos[d] - w.in[d], End(area, d) - w.geo[Size(d)]), area[d]) + w.in[d]]

\* moved in from the right and the bottom, then from the left and the top
ConstrainToWorkarea(w, area, pos) ==
    [d \in Axes |->
        LET len == w.geo[Size(d)] + w.in[d] + w.out[d]
        IN  Most(Least(pos[d] - w.in[d], End(area, d) - len), area[d]) + w.in[d]]

\* the positions the modes and strategies lead to
PlacesOf(S, i, strategy, out, area, pos) ==
    LET w == S.win[i]
        parent == S.win[w.parent].geo
    IN  CASE strategy \in {"no", "constrain"} -> {pos}
          [] strategy = "center" -> {PlaceCentered(w, out.rect)}
          [] strategy = "parent" ->
               {[x |-> parent.x + parent.w \div 2 - w.geo.w \div 2,
                 y |-> parent.y + Quot(parent.h - w.geo.h, 3)]}
          [] strategy = "place" ->
               CASE S.mode = "cascade" -> {PlaceCascade(S, i, area)}
                 [] S.mode = "centered" -> {PlaceCentered(w, area)}
                 [] S.mode = "random" -> PlaceRandom(w, area)
                 [] S.mode = "pointer" -> {PlacePointer(S, w, area)}
                 [] S.mode = "smart" -> {PlaceSmart(S, i, area)}
                 [] S.mode = "maximize" -> {pos}

\* where a new window at pos is placed: in a work area on the viewport it was started on,
\* or on its parent's; a window placed so or too large asks to be maximized
DoPlacement(S, i, from) ==
    LET w == S.win[i]
        strategy == Strategy(S, i)
        pos == IF w.rule = None THEN from ELSE w.rule.at
        out == GetPlacementOutput(S, i, strategy, pos)
        overParent == strategy = "parent" /\ OnScreen(S, S.win[w.parent].geo)
        vp == IF overParent \/ w.initial = None THEN S.vp ELSE w.initial
        There(area) == Shifted(area, Offset(S, vp))
        AreaAt(p) == There(IF out.all THEN S.areas[OutputDeviceForGeometry(S, Put(w.geo, p))]
                                      ELSE out.area)
        Result(p) ==
            CASE strategy = "no" \/ (strategy = "parent" /\ ~overParent) ->
                   [at |-> p, asks |-> FALSE]
              [] strategy \in {"constrain", "center"} \/ overParent ->
                   [at |-> ConstrainToWorkarea(w, There(out.area), p), asks |-> FALSE]
              [] strategy = "place" ->
                   [at |-> ConstrainToWorkarea(w, AreaAt(p), p),
                    asks |-> S.mode = "maximize" \/ (Large(w.geo, AreaAt(p)) /\ MayMaximize(w))]
    IN  {Result(p) : p \in PlacesOf(S, i, strategy, out, There(out.area), pos)}

\* a viewport the user chose for the window, kept in range
OnViewport(S, pos, vp) ==
    IF vp = None THEN pos
    ELSE [d \in Axes |-> (pos[d] % S.size[d])
            + (Most(Least(vp[d], S.n[d] - 1), 0) - S.vp[d]) * S.size[d]]

-----------------------------------------------------------------------------
(* The size of the screen changes: one pass saves where the windows are,    *)
(* the second, after the docks have changed their struts, moves them.       *)

Maximized(w) == w.full \/ w.max # {}

\* the viewport the window is in, by its corner, relative to the current one
ViewportOf(S, pivot, new) == [d \in Axes |->
    Most(Quot(pivot[d], new[d]) - (IF pivot[d] < 0 THEN 1 ELSE 0), -S.vp[d])]

\* the rectangle of a window that the pass is about
ResizeRect(w) == IF Maximized(w) THEN Put(w.geo, w.save) ELSE w.geo

\* where the window should go on a screen of the size new
ResizeTarget(S, i, vp, new) ==
    LET w == S.win[i]
        r == ResizeRect(w)
        rel == [d \in Axes |-> r[d] - vp[d] * S.prevSize[d]]
        over(d) == IF rel[d] >= S.size[d] THEN rel[d] - (S.size[d] - 1) ELSE 0
    IN  IF w.orig # None
        THEN [want |-> Put(w.orig, [d \in Axes |-> w.orig[d] + vp[d] * S.size[d]]),
              rel |-> w.orig]
        \* both axes are shifted by the difference to the new width
        ELSE [want |-> Put(r, [d \in Axes |-> r[d] + vp[d] * (new.x - S.size[d]) - over(d)]),
              rel |-> Put(r, rel)]

\* the rectangle that is granted in the work area, wherever the viewport
ResizeValid(S, i, want, vp) ==
    LET back == [d \in Axes |-> -vp[d] * S.size[d]]
        v == DoValidate(S, i, Shifted(want, back), FALSE)
    IN  [v EXCEPT !.rect = Shifted(@, [d \in Axes |-> -back[d]])]

\* what a maximized window changes to
ResizeMaximized(S, w, area, vp) ==
    LET at == [d \in Axes |-> vp[d] * S.size[d]]
        ofAxis(d) == IF d \notin w.max THEN <<>>
                     ELSE (d :> at[d] + area[d] + w.in[d]) @@
                          (Size(d) :> area[Size(d)] - w.in[d] - w.out[d])
    IN  IF w.full THEN Rect(at.x, at.y, S.size.x, S.size.y)
        ELSE Put(ofAxis("x"), ofAxis("y"))

\* what a pass changes of a window that should go to the target and is granted v
Resized(S, i, first, new, vp, target, v) ==
    LET w == S.win[i]
        c == Only(v.rect, {f \in Fields : v.rect[f] # ResizeRect(w)[f]})
        back == Put(w.orig, [d \in Axes |-> w.orig[d] + vp[d] * new[d]])
        orig == CASE w.orig = None -> IF c # <<>> THEN target.rel ELSE None
                  [] w.orig # None /\ back = v.rect -> None
                  [] OTHER -> w.orig
        U == [S EXCEPT !.win[i].orig = orig]
    IN  IF first THEN IF w.orig # None THEN S ELSE U
        ELSE IF ~Maximized(w) THEN IF c = <<>> THEN U ELSE ConfigureXWindow(U, i, c)
        ELSE ConfigureXWindow([U EXCEPT !.win[i].save = Put(@, c)], i,
                              Put(c, ResizeMaximized(S, w, v.area, vp)))

\* a pass over one managed window
ResizeWindow(S, i, first, new) ==
    LET T == IF first /\ Maximized(S.win[i])
             THEN [S EXCEPT !.win[i].prevServer = Position(S.win[i].geo)] ELSE S
        w == T.win[i]
        pivot == IF Maximized(w) THEN w.prevServer ELSE Position(w.geo)
        To(vp, target) == Resized(T, i, first, new, vp, target, ResizeValid(T, i, target.want, vp))
        In(vp) == To(vp, ResizeTarget(T, i, vp, new))
    IN  IF w.type = "dock" THEN T ELSE In(ViewportOf(T, pivot, new))

ResizePass(S, first, new) ==
    FoldSet(LAMBDA i, T : ResizeWindow(T, i, first, new),
            IF first
              THEN [S EXCEPT !.strutCount = Cardinality({i \in DOMAIN S.win :
                                 S.win[i].managed /\ S.win[i].struts # {}})]
              ELSE [S EXCEPT !.fallback = None],
            {i \in DOMAIN S.win : S.win[i].managed})

\* the plugin handles the event before the core does
HandleScreenSizeChange(S, new) ==
    LET Second(T) == IF T.strutCount = 0 THEN ResizePass(T, FALSE, new)
                                         ELSE [T EXCEPT !.fallback = new]
    IN  IF new = S.size THEN S
        ELSE Second(ResizePass([S EXCEPT !.prevSize = S.size], TRUE, new))

\* a dock has changed its struts; the last of them starts the second pass
HandleStrut(S, i) ==
    LET Counted(T) == IF T.strutCount = 0 THEN ResizePass(T, FALSE, T.size) ELSE T
    IN  IF S.strutCount = 0 \/ UpdateStruts(S, i) = S THEN S
        ELSE Counted(UpdateWorkarea(UpdateStruts([S EXCEPT !.strutCount = @ - 1], i)))

Fallback(S) ==
    LET T == [S EXCEPT !.fallback = None]
    IN  IF S.strutCount = 0 THEN T
        ELSE ResizePass([T EXCEPT !.strutCount = 0], FALSE, S.fallback)
=============================================================================
