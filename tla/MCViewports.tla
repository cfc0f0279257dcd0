------------------------------ MODULE MCViewports ------------------------------
(* Screens, windows and what is done to them.                              *)
EXTENDS Viewports

Loose == [base |-> 5, min |-> 5, max |-> 1000, inc |-> 1]
Start == [x |-> "start", y |-> "start"]

Window == [geo |-> Rect(20, 20, 40, 30), at |-> Rect(20, 20, 40, 30),
           real |-> Rect(20, 20, 40, 30),
           type |-> "normal", max |-> {}, full |-> FALSE, sticky |-> FALSE, layer |-> "normal",
           save |-> <<>>, placed |-> TRUE, managed |-> TRUE, mapped |-> TRUE,
           functions |-> {"all"}, titled |-> TRUE, actions |-> {}, stale |-> FALSE,
           hinted |-> FALSE, gravity |-> Start, hints |-> [x |-> Loose, y |-> Loose],
           in |-> [x |-> 1, y |-> 5], out |-> [x |-> 1, y |-> 1],
           strut |-> None, struts |-> {}, monitors |-> None, parent |-> None,
           forced |-> FALSE, rule |-> None, initial |-> None, shadow |-> [x |-> 2, y |-> 2],
           viewport |-> None, orig |-> None, prevServer |-> [x |-> 0, y |-> 0]]

At(w, r) == [w EXCEPT !.geo = r, !.at = r, !.real = r]
New(w) == [w EXCEPT !.placed = FALSE, !.managed = FALSE, !.mapped = FALSE]
Bare == [x |-> 0, y |-> 0]
Edge(l, t) == [left |-> l, right |-> 0, top |-> t, bottom |-> 0, span |-> None]
\* a partial strut: the left edge from 20 to 49
Partial == [Edge(5, 0) EXCEPT !.span = [left |-> <<20, 49>>, right |-> <<0, 0>>,
                                        top |-> <<0, 0>>, bottom |-> <<0, 0>>]]
Dock(r, p) == [At(Window, r) EXCEPT !.type = "dock", !.strut = p, !.in = Bare, !.out = Bare]

Whole == Rect(0, 0, 100, 80)
Screen(n, ws) ==
    [size |-> [x |-> 100, y |-> 80], vp |-> [x |-> 0, y |-> 0], n |-> n,
     outs |-> <<Whole>>, areas |-> <<Whole>>, area |-> Whole, overlapping |-> "smart",
     pointer |-> Rect(70, 10, 1, 1), mode |-> "smart", multi |-> "active", current |-> 1,
     active |-> None, reports |-> <<>>, asks |-> {}, crossed |-> {},
     prevSize |-> [x |-> 100, y |-> 80], strutCount |-> 0, fallback |-> None,
     win |-> [i \in DOMAIN ws |-> WithActions(ws[i])]]

N(x, y) == [x |-> x, y |-> y]
Session(S, does) == [start |-> S, does |-> does, most |-> 3, states |-> {"x"},
                     requests |-> {}, sizes |-> {}, struts |-> {}, screens |-> {}, outputs |-> {}]

\* maximized and moved between three viewports
Shifting == [Session(Screen(N(3, 1), <<Window>>), {"configure", "state", "switch", "startup"}) EXCEPT
    !.most = 5, !.states = {"x", "full"},
    !.requests = {("x" :> 120), ("x" :> -130) @@ ("w" :> 60)}]

\* viewports that come and go
Shrinking == [Session(Screen(N(3, 2), <<Window, At(Window, Rect(230, 90, 30, 20))>>),
                      {"size", "switch", "startup", "activate"}) EXCEPT
    !.most = 4, !.sizes = {N(1, 1), N(2, 1), N(3, 2)}]

\* docks, two outputs
Left == Rect(0, 0, 60, 80)
Right == Rect(60, 0, 40, 80)
Docked == [Session([Screen(N(2, 1), <<At(Window, Rect(10, 20, 40, 30)),
                        New(Dock(Rect(0, 0, 60, 8), Edge(0, 8)))>>)
                    EXCEPT !.outs = <<Left, Right>>, !.areas = <<Left, Right>>],
                   {"state", "strut", "map", "unmap", "monitors"}) EXCEPT
    !.most = 4, !.states = {"x", "y", "full", "sticky"}, !.struts = {Edge(0, 8), Partial, None}]

\* the size of the screen changes
Small == [size |-> N(80, 60), outs |-> <<Rect(0, 0, 80, 60)>>]
Large2 == [size |-> N(100, 80), outs |-> <<Whole>>]
Resizing == [Session(Screen(N(2, 1), <<At(Window, Rect(60, 20, 30, 30)),
                        Dock(Rect(0, 0, 100, 8), Edge(0, 8))>>),
                     {"screen", "strut", "state", "drag", "switch"}) EXCEPT
    !.most = 4, !.screens = {Small, Large2}, !.struts = {Edge(0, 6), Edge(0, 8)}]

\* outputs come and go
Plugged == [Session(Screen(N(2, 1), <<At(Window, Rect(10, 20, 40, 30)),
                        Dock(Rect(0, 0, 100, 8), Edge(0, 8))>>),
                    {"outputs", "strut", "state", "monitors", "switch"}) EXCEPT
    !.most = 4, !.states = {"x", "full"}, !.struts = {Edge(0, 8), Edge(5, 0)},
    !.outputs = {<<Whole>>, <<Left, Right>>}]

\* new windows in every mode, on one output or on the one of two that the option says
Modes == {"cascade", "centered", "random", "pointer", "smart", "maximize"}
Fresh(r) == New(At(Window, r))
Arrivals(ws, m) == [Session([Screen(N(2, 1), ws) EXCEPT !.mode = m], {"map"}) EXCEPT !.most = 4]
Placing == {Arrivals(<<Fresh(Rect(0, 0, 30, 20)), Fresh(Rect(3, 3, 50, 40)), Fresh(Rect(0, 0, 30, 30)),
                       [Fresh(Rect(0, 0, 20, 20)) EXCEPT !.type = "dialog", !.parent = 1]>>, m)
            : m \in Modes \ {"random"}}
Chosen == {[Arrivals(<<Window, Fresh(Rect(70, 5, 30, 20)), [Fresh(Rect(0, 0, 20, 20)) EXCEPT !.type = "dialog"],
                       [Fresh(Rect(0, 0, 30, 30)) EXCEPT !.initial = N(1, 0)]>>, mode)
            EXCEPT !.start.outs = <<Left, Right>>, !.start.areas = <<Left, Right>>,
                   !.start.multi = multi, !.start.current = 2, !.start.active = 1,
                   !.start.pointer = p]
           : mode \in {"centered", "pointer", "smart"}, p \in {None, Rect(70, 10, 1, 1)},
             multi \in {"active", "pointer", "focused", "across"}}
\* windows whose place the user or the client has chosen
Wanted == Arrivals(<<[Fresh(Rect(80, 5, 30, 20)) EXCEPT !.hinted = TRUE],
                     [Fresh(Rect(80, 5, 30, 20)) EXCEPT !.hinted = TRUE, !.forced = TRUE],
                     [Fresh(Rect(0, 0, 30, 30)) EXCEPT !.rule = [at |-> N(90, -5), keep |-> TRUE]],
                     [Fresh(Rect(0, 0, 30, 30)) EXCEPT !.rule = [at |-> N(90, -5), keep |-> FALSE],
                                                       !.viewport = N(1, 0)]>>, "smart")
Rolled == [Session([Screen(N(1, 1), <<Fresh(Rect(0, 0, 95, 70))>>) EXCEPT !.mode = "random"],
                   {"map", "unmap"}) EXCEPT !.most = 3]

\* clients that want certain sizes only, or allow little
Picky == [Session(Screen(N(2, 1), <<Window>>),
                  {"hints", "motif", "state", "configure", "switch"}) EXCEPT
    !.most = 4, !.states = {"x", "y", "full"}, !.requests = {("w" :> 57) @@ ("h" :> 44),
                                                           ("w" :> 120) @@ ("h" :> 90)}]
       @@ [hints |-> {<<>>, "inc" :> N(8, 6) @@ "min" :> N(16, 12),
                      "min" :> N(40, 30) @@ "max" :> N(40, 30),
                      "base" :> N(4, 2) @@ "max" :> N(60, 60) @@ "inc" :> N(0, 4)},
           functions |-> {{"move", "close"}, {"resize", "move"}}]

MCSessions == {Picky, Shifting, Shrinking, Docked, Resizing, Plugged, Rolled, Wanted}
              \cup Placing \cup Chosen
=============================================================================
