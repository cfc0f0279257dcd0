------------------------------- MODULE Wobbly -------------------------------
(* The wobbly plugin: a window on screen is drawn as a model of objects     *)
(* joined by springs, some of them held in place; while the model moves the *)
(* plugin's paint hooks are on, and when it rests the window goes where the *)
(* model is.                                                                *)
(*                                                                          *)
(* T.wob is WobblyScreen, T.win[w].wob is WobblyWindow with its model.      *)
(* Space is one line.  The objects that can be held are the outer ones, the *)
(* one in the middle and that of the title; a held object is remembered by  *)
(* the geometry of the window it is in place for.  The physics is left out: *)
(* a step may leave the model moving for a few frames, and then it rests    *)
(* where what is held wants it, or near where it was.  `energy' is the      *)
(* number of frames it can still move.                                      *)
EXTENDS FadeBlur

CONSTANTS Place,      (* the positions a window can take                    *)
          MaxEnergy   (* bound on the frames a model moves by itself        *)

ASSUME PlaceAssumption == Place \subseteq Int
ASSUME EnergyAssumption == MaxEnergy \in Nat \ {0}

Corner == {"west", "east"}
Object == Corner \cup {"middle", "title"}
Free == [x |-> 0, size |-> 0]
At(x, size) == [x |-> x, size |-> size]
Geometry(T, w) == At(T.win[w].x, T.win[w].size)

NoAnchor == "none"
Loose == [o \in Object |-> Free]

-----------------------------------------------------------------------------
(* Snapping: an edge of the window sticks to the next edge of a window or   *)
(* of the work area.  Edges are found by looking along the line, past the   *)
(* windows that are beside it.                                              *)
Far == 99

(* What findNextWestEdge and its fellows search, for an object at position  *)
(* x of a line at height y: rectangles [x1, x2, y1, y2], the work area's    *)
(* edge, and whether edges before or behind the object are the next ones.   *)
Beside(R, y) == {r \in R : r.y1 <= y /\ y <= r.y2}
Over(R, y) == {r \in R : r.y2 < y}
Under(R, y) == {r \in R : r.y1 > y}
Start(R, y) == Max({-Far} \cup {r.y2 : r \in Over(R, y)} \cup {r.y1 : r \in Beside(R, y)})
End(R, y) == Min({Far} \cup {r.y1 : r \in Under(R, y)} \cup {r.y2 : r \in Beside(R, y)})

FindNextLowEdge(R, area, x, y) ==
    LET edges == {r.x2 : r \in Beside(R, y)}
    IN  IF x >= area
        THEN [next |-> Max({area} \cup {v \in edges : v <= x}),
              prev |-> Min({Far} \cup {v \in edges : v > x}),
              start |-> Start(R, y), end |-> End(R, y)]
        ELSE [next |-> -Far, prev |-> area, start |-> -Far, end |-> Far]
FindNextHighEdge(R, area, x, y) ==
    LET edges == {r.x1 : r \in Beside(R, y)}
    IN  IF x <= area
        THEN [next |-> Min({area} \cup {v \in edges : v >= x}),
              prev |-> Max({-Far} \cup {v \in edges : v < x}),
              start |-> Start(R, y), end |-> End(R, y)]
        ELSE [next |-> Far, prev |-> area, start |-> -Far, end |-> Far]

(* North and south look along the other axis.                               *)
Turned(R) == {[x1 |-> r.y1, x2 |-> r.y2, y1 |-> r.x1, y2 |-> r.x2] : r \in R}
FindNextWestEdge(R, area, x, y) == FindNextLowEdge(R, area, x, y)
FindNextEastEdge(R, area, x, y) == FindNextHighEdge(R, area, x, y)
FindNextNorthEdge(R, area, x, y) == FindNextLowEdge(Turned(R), area, y, x)
FindNextSouthEdge(R, area, x, y) == FindNextHighEdge(Turned(R), area, y, x)

(* The model keeps what a search found until an object leaves the range     *)
(* start..end or passes an edge: until then a new search must find the same.*)
SameEdges(e, f, x, y) ==
    (e.start < y /\ y < e.end /\ Min({e.next, e.prev}) < x /\ x < Max({e.next, e.prev})) =>
        f.next = e.next /\ f.prev = e.prev
EdgesHold(Rectangles, range) ==
    \A R \in Rectangles, x, y, u, v \in range :
        LET low == Min(range)
            high == Max(range)
        IN  /\ SameEdges(FindNextWestEdge(R, low, x, y), FindNextWestEdge(R, low, u, v), u, v)
            /\ SameEdges(FindNextEastEdge(R, high, x, y), FindNextEastEdge(R, high, u, v), u, v)
            /\ SameEdges(FindNextNorthEdge(R, low, x, y), FindNextNorthEdge(R, low, u, v), v, u)
            /\ SameEdges(FindNextSouthEdge(R, high, x, y), FindNextSouthEdge(R, high, u, v), v, u)

(* The objects of the west and the east side of window w.                   *)
Find(T, w, o) ==
    LET m == T.win[w].wob
        e == IF o = "west" THEN FindNextWestEdge(T.wob.others, T.wob.area[1], m.at, 1)
             ELSE FindNextEastEdge(T.wob.others, T.wob.area[2], m.at + m.size, 1)
    IN  [T EXCEPT !.win[w].wob.snap.on[o] = @ /\ e.next = m.snap.next[o],
                  !.win[w].wob.snap.next[o] = e.next]

(* While one side is snapped the other is not to snap.                      *)
Allowed(cnt) == IF cnt["west"] > 0 THEN Corner \ {"east"}
                ELSE IF cnt["east"] > 0 THEN Corner \ {"west"}
                ELSE Corner
UpdateModelSnapping(T, w) ==
    LET allowed == Allowed(T.win[w].wob.snap.cnt)
        Each(U, o) ==
            LET V == [U EXCEPT !.win[w].wob.snap.mask[o] = o \in allowed]
            IN  IF V = U THEN U
                ELSE IF o \notin allowed THEN [V EXCEPT !.win[w].wob.snap.on[o] = FALSE]
                ELSE IF V.win[w].wob.snap.on[o] THEN V
                ELSE Find(V, w, o)
    IN  FoldLeft(Each, T, SetToSeq(Corner))

Snapped(T, w) == \E o \in Corner : T.win[w].wob.snap.on[o]
DisableSnappingOf(T, w) ==
    [T EXCEPT !.win[w].wob.snap = [@ EXCEPT !.cnt = [o \in Corner |-> 0],
                                            !.on = [o \in Corner |-> FALSE],
                                            !.mask = [o \in Corner |-> FALSE]]]

Snap(T, w, o) ==
    UpdateModelSnapping([T EXCEPT !.win[w].wob.snap.on[o] = TRUE,
                                  !.win[w].wob.snap.cnt[o] = @ + 1], w)
ReleaseEdge(T, w, o) ==
    UpdateModelSnapping([T EXCEPT !.win[w].wob.snap.on[o] = FALSE,
                                  !.win[w].wob.snap.mask[o] = FALSE,
                                  !.win[w].wob.snap.cnt[o] = @ - 1], w)

(* modelStepObject, for an object that may snap: it may leave the range its *)
(* edge was looked up for, get away from its edge, or reach the next one.   *)
StepObject(T, w, o, what) ==
    LET s == T.win[w].wob.snap
    IN  IF ~s.mask[o] \/ T.win[w].wob.pin[o] # Free THEN T
        ELSE IF what = "find" THEN Find(T, w, o)
        ELSE IF what = "edge" /\ s.on[o] THEN ReleaseEdge(T, w, o)
        ELSE IF what = "edge" THEN Snap(T, w, o)
        ELSE T

-----------------------------------------------------------------------------
(* The model: objects and what holds them.                                  *)
Pin(T, w, o, g) == [T EXCEPT !.win[w].wob.pin[o] = g]
Anchor(T, w) == T.win[w].wob.anchor
FreeAnchor(T, w) ==
    IF Anchor(T, w) = NoAnchor THEN T ELSE Pin(T, w, Anchor(T, w), Free)
SetAnchor(T, w, o, g) ==
    [Pin(FreeAnchor(T, w), w, o, g) EXCEPT !.win[w].wob.anchor = o]

SetMiddleAnchor(T, w) == SetAnchor(T, w, "middle", Geometry(T, w))
SetTopAnchor(T, w) == SetAnchor(T, w, "title", Geometry(T, w))
AddEdgeAnchors(T, w) ==
    LET g == Geometry(T, w)
    IN  [Pin(Pin(T, w, "west", g), w, "east", g) EXCEPT
            !.win[w].wob.anchor = IF @ = NoAnchor THEN "west" ELSE @]
RemoveEdgeAnchors(T, w) ==
    LET g(o) == IF o = Anchor(T, w) THEN Geometry(T, w) ELSE Free
    IN  Pin(Pin(T, w, "west", g("west")), w, "east", g("east"))

InitSprings(T, w) == [T EXCEPT !.win[w].wob.size = T.win[w].size]
NoSnap == [cnt |-> [o \in Corner |-> 0], on |-> [o \in Corner |-> FALSE],
           mask |-> [o \in Corner |-> FALSE], next |-> [o \in Corner |-> 0]]
InitObjects(T, w) ==
    SetMiddleAnchor([T EXCEPT !.win[w].wob.pin = Loose,
                              !.win[w].wob.at = T.win[w].x,
                              !.win[w].wob.off = FALSE,
                              !.win[w].wob.snap.on = [o \in Corner |-> FALSE],
                              !.win[w].wob.snap.mask = [o \in Corner |-> FALSE],
                              !.win[w].wob.snap.next = [o \in Corner |-> 0]], w)
EnsureModel(T, w) ==
    IF T.win[w].wob.model THEN T
    ELSE InitSprings(InitObjects([T EXCEPT !.win[w].wob.model = TRUE,
                                           !.win[w].wob.anchor = NoAnchor,
                                           !.win[w].wob.snap = NoSnap], w), w)

(* Model::move, objects that are held included.                             *)
MoveModel(T, w, dx) ==
    [T EXCEPT !.win[w].wob.at = @ + dx,
              !.win[w].wob.pin = [o \in Object |->
                  IF @[o] = Free THEN Free ELSE At(@[o].x + dx, @[o].size)]]

(* Windows of the size of the screen do not wobble.                         *)
IsWobblyWin(T, w) == T.win[w].wob.model \/ T.win[w].size = 1

-----------------------------------------------------------------------------
(* Wobbling.                                                                *)
EnableWobbling(T, w, on) == [T EXCEPT !.win[w].wob.hooks = on]

StartWobblingUnhooked(T, w) ==
    DamagePending([T EXCEPT !.win[w].wob.mask = @ \cup {"initial"},
                            !.win[w].wob.energy = MaxEnergy,
                            !.wob.mask = @ \cup {"initial"}])
StartWobbling(T, w) ==
    LET U == IF T.win[w].wob.mask = {} THEN EnableWobbling(T, w, TRUE) ELSE T
        V == IF T.wob.mask = {} THEN [U EXCEPT !.wob.hooks = TRUE] ELSE U
    IN  DamagePending([V EXCEPT !.win[w].wob.mask = @ \cup {"initial"},
                                !.win[w].wob.energy = MaxEnergy,
                                !.wob.mask = @ \cup V.win[w].wob.mask \cup {"initial"}])

Held(T, w) == {T.win[w].wob.pin[o] : o \in Object} \ {Free}
Torn(T, w) == \/ Cardinality(Held(T, w)) > 1
              \/ \E g \in Held(T, w) : g.size # T.win[w].wob.size

(* Where the model comes to rest; without anything held it may drift.       *)
Rest(T, w, drift) ==
    LET m == T.win[w].wob
    IN  IF Held(T, w) # {} THEN (CHOOSE g \in Held(T, w) : TRUE).x
        ELSE IF m.at + drift \in Place THEN m.at + drift ELSE m.at

(* modelStep: too early for a step, still moving, or at rest.  What holds   *)
(* the model against its springs leaves a force.                            *)
ModelStep(T, w, c) ==
    LET m == T.win[w].wob
        mask == IF c.early THEN {"initial"}
                ELSE IF m.energy > 1 THEN {"velocity", "force"}
                ELSE IF Torn(T, w) THEN {"force"}
                ELSE {}
        U == StepObject(T, w, c.side, c.edge)
    IN  IF c.early THEN [T EXCEPT !.win[w].wob.mask = mask]
        ELSE IF m.energy > 1
        THEN [U EXCEPT !.win[w].wob.mask = mask, !.win[w].wob.energy = @ - 1]
        ELSE [U EXCEPT !.win[w].wob.mask = mask, !.win[w].wob.at = Rest(T, w, c.drift)]

(* The window goes where its model is, unless a move of it is on its way to *)
(* the server; `off' is a ghost that says it was left where it is.          *)
Land(T, w) ==
    IF T.win[w].x = T.win[w].serverX
    THEN [T EXCEPT !.win[w].x = T.win[w].wob.at, !.win[w].serverX = T.win[w].wob.at,
                   !.win[w].wob.off = FALSE]
    ELSE [T EXCEPT !.win[w].wob.off = TRUE]

(* A window that nobody holds is kept in the box of the grabbed one's area. *)
Constrain(T, w, c) ==
    IF T.wob.box /\ ~T.win[w].wob.grabbed /\ T.win[w].wob.at + c.drift \in Place
    THEN MoveModel(T, w, c.drift) ELSE T

WithForces(T, w) ==
    LET m == T.win[w].wob
    IN  [T EXCEPT !.win[w].wob.mask =
            @ \cup (IF m.max /\ m.grabbed THEN {"force"} ELSE {})
              \cup (IF @ = {"force"} /\ ~m.grabbed THEN {"initial"} ELSE {})]
Moved(T, w, c) ==
    AddDamage(IF T.win[w].wob.mask = {} THEN Land(T, w) ELSE Constrain(T, w, c), w)

Wobbling(m) == m \cap {"initial", "velocity"} # {}
KeepHooks(T, w) ==
    IF T.win[w].wob.mask = {} THEN EnableWobbling(T, w, FALSE)
    ELSE [T EXCEPT !.wob.mask = @ \cup T.win[w].wob.mask]
WobblyWindowStep(T, w, c) ==
    IF T.win[w].wob.mask = {} THEN T
    ELSE IF Wobbling(T.win[w].wob.mask)
    THEN KeepHooks(Moved(WithForces(ModelStep(T, w, c), w), w, c), w)
    ELSE KeepHooks(T, w)

WobblyPreparePaint(T, c) ==
    LET Each(U, w) == WobblyWindowStep(U, w, c)
    IN  IF T.wob.hooks /\ Wobbling(T.wob.mask)
        THEN OnWindows([T EXCEPT !.wob.mask = {}], Each) ELSE T

WobblyDonePaint(T) ==
    LET U == IF Wobbling(T.wob.mask) THEN DamagePending(T) ELSE T
    IN  IF ~T.wob.hooks THEN T
        ELSE IF T.wob.mask = {} THEN [U EXCEPT !.wob.hooks = FALSE, !.wob.box = FALSE]
        ELSE U

-----------------------------------------------------------------------------
(* What disturbs a model.                                                   *)
EnableSnapping(T) ==
    LET Each(U, w) == IF U.win[w].wob.grabbed /\ U.win[w].wob.model
                      THEN UpdateModelSnapping(U, w) ELSE U
    IN  [OnWindows(T, Each) EXCEPT !.wob.snapping = TRUE]
DisableSnapping(T) ==
    LET Each(U, w) ==
            IF ~(U.win[w].wob.grabbed /\ U.win[w].wob.model) THEN U
            ELSE IF Snapped(U, w) THEN StartWobbling(DisableSnappingOf(U, w), w)
            ELSE DisableSnappingOf(U, w)
    IN  IF T.wob.snapping THEN [OnWindows(T, Each) EXCEPT !.wob.snapping = FALSE] ELSE T

Shiver(T, w) ==
    IF IsWobblyWin(T, w) THEN StartWobbling(SetMiddleAnchor(EnsureModel(T, w), w), w) ELSE T
WobblyFocused(T, w) ==
    IF T.wob.focusEffect /\ IsWobblyWin(T, w) THEN StartWobbling(EnsureModel(T, w), w) ELSE T

InitiateMapEffect(T, w) ==
    StartWobbling(InitSprings(InitObjects(T, w), w), w)
WobblyMapped(T, w) ==
    IF T.win[w].wob.model /\ T.wob.mapEffect THEN InitiateMapEffect(T, w) ELSE T

(* A window that is, or was, maximized is held at its corners.              *)
Maximizing(T, w) ==
    LET m == [T EXCEPT !.win[w].wob.max = T.win[w].max]
        U == EnsureModel(m, w)
        held == ~U.win[w].wob.grabbed /\ Anchor(U, w) # NoAnchor
        V == IF held THEN [FreeAnchor(U, w) EXCEPT !.win[w].wob.anchor = NoAnchor] ELSE U
        X == IF T.win[w].max THEN AddEdgeAnchors(V, w)
             ELSE SetMiddleAnchor(RemoveEdgeAnchors(U, w), w)
    IN  StartWobbling(InitSprings(X, w), w)
Resizing(T, w) ==
    LET m == T.win[w].wob
        U == IF m.mask = {} THEN InitObjects(T, w)
             ELSE IF m.max THEN T ELSE SetTopAnchor(T, w)
    IN  IF m.model THEN InitSprings(U, w) ELSE T
(* The grab takes hold of the object nearest to the pointer.                *)
UpdateGrab(T, w, o) ==
    IF T.win[w].wob.model /\ T.win[w].wob.grabbed
    THEN SetAnchor(T, w, o, Geometry(T, w)) ELSE T
WobblyResizeNotify(T, w, o) ==
    IF T.wob.maxEffect /\ IsWobblyWin(T, w) /\ (T.win[w].max \/ T.win[w].wob.max)
    THEN UpdateGrab(Maximizing(T, w), w, o)
    ELSE UpdateGrab(Resizing(T, w), w, o)

Drag(T, w, dx) ==
    LET m == T.win[w].wob
        moved == {o \in Object : m.pin[o] # Free /\ (m.max \/ o = m.anchor)}
    IN  [T EXCEPT !.win[w].wob.pin = [o \in Object |->
            IF o \in moved THEN At(@[o].x + dx, @[o].size) ELSE @[o]]]
WobblyMoveNotify(T, w, dx, immediate) ==
    IF ~T.win[w].wob.model THEN T
    ELSE IF T.win[w].wob.grabbed /\ ~immediate THEN StartWobbling(Drag(T, w, dx), w)
    ELSE MoveModel(T, w, dx)

(* The pointer pulls at a maximized window that cannot move.                *)
Motion(T, w, dx) ==
    LET m == T.win[w].wob
        U == [T EXCEPT !.win[w].wob.pin[m.anchor] = At(@.x + dx, @.size)]
    IN  IF T.wob.move /\ T.wob.maxEffect /\ m.max /\ m.model /\ m.grabbed
        THEN StartWobbling(U, w) ELSE T

GrabNotify(T, w, o, external) ==
    LET Grabs(U) == IF U.wob.grab = NoAnchor THEN [U EXCEPT !.wob.grab = w] ELSE U
        M == EnsureModel([Grabs(T) EXCEPT !.wob.move = TRUE], w)
        E == IF ~T.wob.maxEffect THEN FreeAnchor(M, w)
             ELSE IF T.win[w].max THEN AddEdgeAnchors(M, w)
             ELSE FreeAnchor(RemoveEdgeAnchors(M, w), w)
        place == IF T.wob.maxEffect /\ o \in Corner THEN Geometry(T, w)
                 ELSE IF M.win[w].wob.pin[o] # Free THEN M.win[w].wob.pin[o]
                 ELSE At(M.win[w].wob.at, M.win[w].wob.size)
        G == [Pin(E, w, o, place) EXCEPT !.win[w].wob.anchor = o,
                                         !.win[w].wob.grabbed = TRUE,
                                         !.wob.box = @ \/ external]
        D == DisableSnappingOf(G, w)
        S == IF T.wob.snapping THEN UpdateModelSnapping(D, w) ELSE D
    IN  IF ~IsWobblyWin(T, w) THEN [Grabs(T) EXCEPT !.wob.move = FALSE]
        ELSE IF T.wob.grabEffect THEN StartWobbling(S, w) ELSE S

UngrabNotify(T, w) ==
    LET U == IF T.wob.grab = w THEN [T EXCEPT !.wob.grab = NoAnchor, !.wob.box = FALSE] ELSE T
        V == [FreeAnchor(U, w) EXCEPT !.win[w].wob.anchor = NoAnchor]
        X == IF T.wob.maxEffect /\ T.win[w].wob.max THEN AddEdgeAnchors(V, w) ELSE V
        Y == IF T.win[w].wob.model THEN StartWobbling(X, w) ELSE U
    IN  IF T.win[w].wob.grabbed THEN [Y EXCEPT !.win[w].wob.grabbed = FALSE] ELSE U

NoWobble == [model |-> FALSE, at |-> 0, size |-> 1, pin |-> Loose, anchor |-> NoAnchor,
             mask |-> {}, hooks |-> FALSE, grabbed |-> FALSE, max |-> FALSE, energy |-> 0,
             off |-> FALSE, snap |-> NoSnap]
WobblyCreated(T, w) ==
    LET U == [T EXCEPT !.win[w].wob = [NoWobble EXCEPT !.max = T.win[w].max]]
    IN  IF /\ (T.win[w].viewable /\ T.wob.maxEffect) \/ T.wob.mapEffect
           /\ IsWobblyWin(U, w)
        THEN EnsureModel(U, w) ELSE U

(* The screen's mask keeps what the window put in it, and the box stays.    *)
WobblyDestroyed(T, w) ==
    [T EXCEPT !.wob.grab = IF @ = w THEN NoAnchor ELSE @, !.win[w].wob = NoWobble]
=============================================================================
