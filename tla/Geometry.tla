------------------------------- MODULE Geometry -------------------------------
(***************************************************************************)
(* Positions and sizes of windows on a screen of several viewports and     *)
(* outputs.  Both axes obey the same code, so most operators are functions *)
(* of the axis: a rectangle is a function of "x", "y", "w" and "h", a      *)
(* point or a size of "x" and "y".  A request to configure a window is a   *)
(* function of the fields it changes, its domain being the value mask; the *)
(* saved geometry of a maximized window likewise.  The X border is 0.      *)
(***************************************************************************)
EXTENDS Integers, SequencesExt, FiniteSetsExt

CONSTANT None    \* no rectangle

Axes == {"x", "y"}
Size(d) == IF d = "x" THEN "w" ELSE "h"
Other(d) == IF d = "x" THEN "y" ELSE "x"
Fields == {"x", "y", "w", "h"}

\* C's division and remainder
Quot(a, b) == IF a >= 0 THEN a \div b ELSE -((-a) \div b)
Rem(a, b) == a - b * Quot(a, b)

Rect(x, y, w, h) == [x |-> x, y |-> y, w |-> w, h |-> h]
End(r, d) == r[d] + r[Size(d)]
Empty(r) == r.w <= 0 \/ r.h <= 0
Least(a, b) == IF a < b THEN a ELSE b
Most(a, b) == IF a > b THEN a ELSE b
Meet(r, s) == [f \in Fields |->
    IF f \in Axes THEN Most(r[f], s[f])
    ELSE LET d == CHOOSE e \in Axes : Size(e) = f
         IN  Least(End(r, d), End(s, d)) - Most(r[d], s[d])]
Area(r) == IF Empty(r) THEN 0 ELSE r.w * r.h
Within(r, s) == \A d \in Axes : s[d] <= r[d] /\ End(r, d) <= End(s, d)
Shifted(r, by) == [r EXCEPT !.x = @ + by.x, !.y = @ + by.y]
Position(r) == [d \in Axes |-> r[d]]

\* part of the function f
Only(f, D) == [e \in DOMAIN f \cap D |-> f[e]]
Put(f, g) == [e \in DOMAIN f \cup DOMAIN g |-> IF e \in DOMAIN g THEN g[e] ELSE f[e]]

-----------------------------------------------------------------------------
(* The screen S has a size, the current viewport vp of n viewports, outputs *)
(* (outs) with their work areas (areas) and the work area of the screen.    *)

WholeScreen(S) == Rect(0, 0, S.size.x, S.size.y)

\* the offset of a viewport from the current one
Offset(S, vp) == [d \in Axes |-> (vp[d] - S.vp[d]) * S.size[d]]

ViewportForGeometry(S, g) == [d \in Axes |->
    LET c == g[d] + g[Size(d)] \div 2
    IN  S.vp[d] + Rem(Quot(c, S.size[d]) + (IF c < 0 THEN -1 ELSE 0), S.n[d])]

OnScreen(S, g) == \A d \in Axes : g[d] < S.size[d] /\ End(g, d) > 0

DefaultViewport(S, g) == IF OnScreen(S, g) THEN S.vp ELSE ViewportForGeometry(S, g)

\* where the outputs are looked for: around the window or around its centre
Probe(S, g) ==
    IF S.overlapping = "smart"
      THEN LET at == [d \in Axes |->
                   LET p == Rem(g[d], S.size[d])
                       c == p + g[Size(d)] \div 2
                   IN  CASE c < 0 -> p + S.size[d]
                         [] c > S.size[d] -> p - S.size[d]
                         [] OTHER -> p]
           IN  Rect(at.x, at.y, g.w, g.h)
      ELSE LET at == [d \in Axes |-> (g[d] + g[Size(d)] \div 2) % S.size[d]]
           IN  Rect(at.x, at.y, 1, 1)

\* the first of the outputs that share the largest overlap and are the best of them
OutputDeviceForGeometry(S, g) ==
    LET OverlapWith(r) == [k \in DOMAIN S.outs |-> Area(Meet(S.outs[k], r))]
        Better(k, l) == IF S.overlapping = "smaller" THEN Area(S.outs[k]) < Area(S.outs[l])
                                                     ELSE Area(S.outs[k]) > Area(S.outs[l])
        First(share) == Min({k \in DOMAIN share : \A l \in DOMAIN share :
                             share[l] < share[k] \/ (share[l] = share[k] /\ ~Better(l, k))})
    IN  First(OverlapWith(Probe(S, g)))

-----------------------------------------------------------------------------
(* Struts: what docks reserve at the edges.                                 *)

\* the four struts of a property: a slab along an axis, from its near or its far end, over
\* the whole edge or (a partial strut) over some of it
Struts(S, p) ==
    LET Span(side, d) == IF p.span = None THEN <<0, S.size[Other(d)] - 1>> ELSE p.span[side]
        Slab(side, d, far) ==
            [d |-> d, far |-> far,
             r |-> (d :> IF far THEN S.size[d] - p[side] ELSE 0) @@ (Size(d) :> p[side])
                   @@ (Other(d) :> Span(side, d)[1])
                   @@ (Size(Other(d)) :> Span(side, d)[2] - Span(side, d)[1] + 1)]
    IN  {Slab("left", "x", FALSE), Slab("right", "x", TRUE),
         Slab("top", "y", FALSE), Slab("bottom", "y", TRUE)}

\* a strut that ends inside an output starts at the edge of that output
ClipStrut(S, s) ==
    LET d == s.d
        Hits(r, o) == /\ r[Other(d)] < End(o, Other(d)) /\ End(r, Other(d)) > o[Other(d)]
                      /\ IF s.far THEN r[d] > o[d] /\ r[d] <= End(o, d)
                                  ELSE End(r, d) > o[d] /\ End(r, d) <= End(o, d)
        Clip(r, o) ==
            CASE ~Hits(r, o) -> r
              [] Hits(r, o) /\ s.far -> [r EXCEPT ![Size(d)] = End(o, d) - r[d]]
              [] OTHER -> [r EXCEPT ![d] = o[d], ![Size(d)] = End(r, d) - o[d]]
    IN  [s EXCEPT !.r = FoldLeft(Clip, @, S.outs)]

UpdateStruts(S, i) ==
    [S EXCEPT !.win[i].struts =
        IF S.win[i].strut = None THEN {}
                                 ELSE {ClipStrut(S, s) : s \in Struts(S, S.win[i].strut)}]

ComputeWorkareaForBox(S, box) ==
    LET all == UNION {S.win[i].struts : i \in {j \in DOMAIN S.win : S.win[j].mapped}}
        free(d) == {p \in box[d] .. End(box, d) - 1 :
                      ~ \E s \in all : /\ s.d = d /\ s.r[d] <= p /\ p < End(s.r, d)
                                       /\ s.r[Other(d)] < End(box, Other(d))
                                       /\ End(s.r, Other(d)) > box[Other(d)]}
        Span(x, y) == IF x = {} \/ y = {} THEN box
                      ELSE Rect(Min(x), Min(y), Max(x) - Min(x) + 1, Max(y) - Min(y) + 1)
    IN  Span(free("x"), free("y"))

-----------------------------------------------------------------------------
(* The geometry of a window: what was asked of the server (geo), what the   *)
(* last ConfigureNotify or move made of it (at), and what the server has    *)
(* (real), whose reports are in S.reports; one without a rectangle is the   *)
(* MapNotify of the window.                                                *)

Flush(S, i, r) ==
    IF S.win[i].real = r THEN S
    ELSE [S EXCEPT !.win[i].real = r, !.reports = Append(@, [win |-> i, rect |-> r])]

ConfigureXWindow(S, i, c) ==
    Flush([S EXCEPT !.win[i].geo = Put(@, c)], i, Put(S.win[i].real, c))

Move(S, i, by) == [S EXCEPT !.win[i].at = Shifted(@, by)]

SyncPosition(S, i) ==
    LET p == Position(S.win[i].at)
    IN  Flush([S EXCEPT !.win[i].geo = Put(@, p)], i, Put(S.win[i].real, p))

\* mutant: what is saved stays where it was
SavedStays(S, i, by) == S

\* saved positions move with the window
ShiftSaved(S, i, by) ==
    [S EXCEPT !.win[i].save = [f \in DOMAIN @ |-> IF f \in Axes THEN @[f] + by[f] ELSE @[f]]]

HandleReport(S, e) == [S EXCEPT !.win[e.win].at = e.rect]

-----------------------------------------------------------------------------
(* What the client says of its size, and what may be done with a window.    *)

MaxSize == 32767    \* MAXSHORT

\* recalcNormalHints: p holds the hints the property has, the rest is made up for
RecalcNormalHints(p) == [d \in Axes |->
    LET Given(f, other) == IF f \in DOMAIN p THEN p[f][d] ELSE other
        base == Given("base", Given("min", 0))
        min == Given("min", base)
        max == Most(Given("max", MaxSize), min)
        inc == Given("inc", 1)
        InRange(s) == Least(Most(s, 1), MaxSize)
    IN  [base |-> Least(base, MaxSize), min |-> InRange(min), max |-> InRange(max),
         inc |-> IF inc = 0 THEN 1 ELSE inc]]

\* updateNormalHints
UpdateNormalHints(w, p) ==
    [w EXCEPT !.hints = RecalcNormalHints(p),
              !.hinted = "position" \in DOMAIN p,
              !.gravity = IF "gravity" \in DOMAIN p THEN p.gravity
                                                    ELSE [d \in Axes |-> "start"]]

\* constrainNewWindowSize without aspect ratios; maximized axes ignore the increments
ConstrainNewWindowSize(w, s) == [d \in Axes |->
    LET h == w.hints[d]
        inc == IF d \in w.max THEN 1 ELSE Most(1, h.inc)
        in == Most(h.min, Least(s[d], h.max))
    IN  h.base + Quot(in - h.base, inc) * inc]

\* what the type of a window allows; "x" and "y" are to maximize it
ActionsOfType(w) ==
    LET all == {"move", "resize", "stick", "close", "desktop"}
    IN  CASE w.type = "normal" -> all \cup {"x", "y", "full", "minimize"}
          [] w.type = "dialog" -> all \cup {"x", "y"}
                                      \cup (IF w.parent = None THEN {"minimize"} ELSE {})
          [] OTHER -> {}

\* recalcActions: w.functions are those of the motif hints
RecalcActions(w) ==
    LET sized == {"resize", "x", "y", "full"}
        fixed == \A d \in Axes : w.hints[d].min = w.hints[d].max
        Without(f, some) == IF {"all", f} \cap w.functions = {} THEN some ELSE {}
    IN  ((ActionsOfType(w) \cup {"above", "below"}
                           \cup (IF w.in.y > 0 THEN {"shade"} ELSE {}))
         \ (IF fixed THEN sized ELSE {}))
         \ (Without("resize", sized) \cup Without("move", (sized \ {"resize"}) \cup {"move"})
            \cup Without("iconify", {"minimize"}) \cup Without("close", {"close"}))

WithActions(w) == [w EXCEPT !.actions = RecalcActions(w)]

\* constrainWindowState
ConstrainWindowState(w) ==
    [w EXCEPT !.max = @ \cap w.actions, !.full = @ /\ "full" \in w.actions]

-----------------------------------------------------------------------------
(* Maximized and fullscreen windows.                                        *)

SaveGeometry(w, D) ==
    IF w.placed THEN [w EXCEPT !.save = Put(Only(w.geo, D), @)] ELSE w

\* what is restored on an axis; a size that does not change becomes a little smaller
RestoreGeometry(w, d) ==
    LET m == DOMAIN w.save \cap {d, Size(d)}
        same == Size(d) \in m /\ w.save[Size(d)] = w.geo[Size(d)]
    IN  [f \in m |-> CASE ~same -> w.save[f]
                       [] f = d -> w.save[f] + 5
                       [] OTHER -> w.save[f] - 10]

\* the rectangle of a fullscreen window
FullscreenRect(S, i, old) ==
    Shifted(IF S.win[i].monitors # None THEN S.win[i].monitors
            ELSE S.outs[OutputDeviceForGeometry(S, old)],
            Offset(S, ViewportForGeometry(S, old)))

\* the size of a maximized window on an axis, or what else changes there
AxisChanges(w, old, area, d) ==
    IF d \in w.max THEN Size(d) :> area[Size(d)] - w.in[d] - w.out[d]
    ELSE LET c == RestoreGeometry(w, d)
             h == w.hints[d]
             s == old[Size(d)]
         IN  IF Size(d) \in DOMAIN c \/ (h.min <= s /\ s <= h.max) THEN c
             ELSE Put(c, Size(d) :> IF s < h.min THEN h.min ELSE h.max)

\* where a maximized window of the new size goes on an axis
AxisPlace(w, old, area, off, size, d) ==
    LET lo == off[d] + area[d] + w.in[d]
        max == off[d] + End(area, d)
    IN  CASE old[d] < lo -> d :> lo
          [] old[d] >= lo /\ End(old, d) + w.out[d] > max -> d :> max - size[d] - w.out[d]
          [] old[d] >= lo /\ End(old, d) + w.out[d] <= max /\ old[d] + size[d] + w.out[d] > max
               -> d :> off[d] + area[d] + Quot(area[Size(d)] - w.in[d] - size[d] - w.out[d], 2)
                       + w.in[d]
          [] OTHER -> <<>>

\* the constrained size and the place of a window whose fields c change
Fitted(w, old, area, off, c) ==
    LET Placed(size, d) == IF d \in w.max THEN AxisPlace(w, old, area, off, size, d) ELSE <<>>
        Sized(size) == Put(Put(Only(c, Axes), ("w" :> size.x) @@ ("h" :> size.y)),
                           Put(Placed(size, "x"), Placed(size, "y")))
    IN  IF DOMAIN c \cap {"w", "h"} = {} THEN c
        ELSE Sized(ConstrainNewWindowSize(w, [d \in Axes |-> Put(old, c)[Size(d)]]))

\* what a window that is not fullscreen changes to
NormalChanges(S, w, old) ==
    LET In(area) == Fitted(w, old, area, Offset(S, ViewportForGeometry(S, old)),
                           Put(AxisChanges(w, old, area, "y"), AxisChanges(w, old, area, "x")))
    IN  In(S.areas[OutputDeviceForGeometry(S, old)])

\* the saved geometry after addWindowSizeChanges
Saved(w) ==
    IF w.full THEN SaveGeometry(w, Fields)
    ELSE LET kept == [w EXCEPT !.save =
                        Only(@, {f \in Fields : \E d \in w.max : f \in {d, Size(d)}})]
         IN  SaveGeometry(kept, {f \in Fields : \E d \in w.max : f \in {d, Size(d)}})

\* addWindowSizeChanges: the fields of old that change
SizeChanges(S, i, old) ==
    LET w == S.win[i]
        Changed(c) == Only(c, {f \in DOMAIN c : c[f] # old[f]})
    IN  Changed(IF w.full THEN FullscreenRect(S, i, old) ELSE NormalChanges(S, w, old))

AddWindowSizeChanges(S, i) == [S EXCEPT !.win[i] = Saved(@)]

UpdateSize(S, i) ==
    LET Change(c) == IF c = <<>> THEN AddWindowSizeChanges(S, i)
                     ELSE ConfigureXWindow(AddWindowSizeChanges(S, i), i, c)
    IN  IF ~S.win[i].managed THEN S ELSE Change(SizeChanges(S, i, S.win[i].geo))

\* mutant: maximized windows are not brought up to date
WorkareaOnly(S) ==
    [S EXCEPT !.areas = [k \in DOMAIN S.outs |-> ComputeWorkareaForBox(S, S.outs[k])],
              !.area = ComputeWorkareaForBox(S, WholeScreen(S))]

UpdateWorkarea(S) ==
    LET T == [S EXCEPT !.areas = [k \in DOMAIN S.outs |-> ComputeWorkareaForBox(S, S.outs[k])],
                      !.area = ComputeWorkareaForBox(S, WholeScreen(S))]
    IN  IF T = S THEN S ELSE FoldSet(LAMBDA i, U : UpdateSize(U, i), T, DOMAIN S.win)

-----------------------------------------------------------------------------
(* Requests of clients.                                                     *)

Free(w) == w.type = "dock" \/ w.full

\* the core's validateResizeRequest
ValidatePosition(S, i, c) ==
    LET w == S.win[i]
        Valid(d) ==
            LET min == S.area[d] + w.in[d]
                max == End(S.area, d)
                first == min - S.vp[d] * S.size[d]
                last == max + (S.n[d] - S.vp[d] - 1) * S.size[d]
            IN  IF w.sticky /\ (c[d] < min \/ c[d] > max) THEN w.geo[d]
                ELSE IF c[d] < first THEN first ELSE IF c[d] > last THEN last ELSE c[d]
    IN  IF Free(w) THEN c
        ELSE [f \in DOMAIN c |-> IF f \in Axes THEN Valid(f) ELSE c[f]]

\* what a gravity adds on an axis: to the frame's corner, or to keep the centre or the
\* end where it was when only the size changes; direction is -1 to take it back
GravityShift(w, c, d, direction) ==
    LET g == w.gravity[d]
        grown == c[Size(d)] - w.geo[Size(d)]
    IN  CASE g = "start" -> IF d \in DOMAIN c THEN w.in[d] * direction ELSE 0
          [] g = "middle" /\ d \in DOMAIN c ->
               -(c[Size(d)] \div 2 - w.in[d] + (w.in[d] + w.out[d]) \div 2) * direction
          [] g = "middle" /\ d \notin DOMAIN c ->
               -(IF d = "x" THEN grown ELSE Quot(grown, 2)) * direction
          [] g = "end" -> IF d \in DOMAIN c THEN -(c[Size(d)] + w.out[d] * direction)
                                            ELSE -(grown * direction)
          [] OTHER -> 0

\* adjustConfigureRequestForGravity of a request c whose other fields are those of full
AdjustForGravity(w, c, full, direction) ==
    LET asked(d) == DOMAIN c \cap {d, Size(d)} # {}
        by(d) == GravityShift(w, Put(Only(full, {Size(d)}), Only(c, {d, Size(d)})), d, direction)
        moved == {d \in Axes : asked(d) /\ by(d) # 0}
    IN  [d \in moved |-> full[d] + by(d)]

\* the corner of a window, adjusted for the size of its frame only
Corner(w) == [w.geo EXCEPT !.w = 0, !.h = 0]
AdjustCorner(w, direction) == AdjustForGravity(w, Only(w.geo, Axes), Corner(w), direction)
=============================================================================
