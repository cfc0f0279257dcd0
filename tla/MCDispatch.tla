------------------------------ MODULE MCDispatch ------------------------------
(* Configurations of a few options, and what is done with them.            *)
EXTENDS Dispatch

Tab == 23
Escape == 9
Return == 36
AltKey == 64
NumKey == 77
SuperKey == 133

Key(code, mods) == KeyFromString([code |-> code, mods |-> mods])
Button(b, mods, edges) == ButtonFromString([code |-> b, mods |-> mods, edges |-> edges])
Edge(edges) == EdgeMaskFromString([edges |-> edges])

Pc == [Alt |-> {"Mod1"}, Super |-> {"Mod4"}, NumLock |-> {"Mod2"}, ScrollLock |-> {"No"}]
Swapped == [Pc EXCEPT !.Alt = {"Mod4"}, !.Super = {"Mod1"}]
NoSuper == [Pc EXCEPT !.Super = {"No"}]

Start(kind, owner, value, order) ==
    [kind |-> kind, owner |-> owner, value |-> value, order |-> order, loaded |-> {"core", "p"},
     claims |-> {}, noDelay |-> {}, initialized |-> FALSE, xkb |-> TRUE, delay |-> FALSE,
     escape |-> Escape, return |-> Return, modMask |-> Pc,
     modMap |-> [Mod1 |-> {AltKey}, Mod2 |-> {NumKey}, Mod4 |-> {SuperKey}],
     keyGrabs |-> <<>>, buttonGrabs |-> <<>>, rootKeys |-> {}, granted |-> FALSE,
     foreign |-> {}, left |-> {}, frames |-> [f1 |-> {}],
     edgeCount |-> [Top |-> 0, TopLeft |-> 0], edgesMapped |-> {},
     edgeWindow |-> None, xdndWindow |-> None, timer |-> None,
     running |-> {}, rebound |-> {}, moved |-> {}, late |-> FALSE]

Session(start, does) == [start |-> start, does |-> does, most |-> 5, locked |-> {}, codes |-> {},
                         mods |-> {}, buttons |-> {}, masks |-> {}, values |-> <<>>]

\* a switcher, a menu on a bare modifier and a screenshot key
Keyboard == [Session([Start([switch |-> "key", menu |-> "key", shot |-> "key"],
                            [switch |-> "p", menu |-> "p", shot |-> "p"],
                            [switch |-> Key(Tab, {"Alt"}), menu |-> Key(0, {"Super"}),
                             shot |-> Key(Tab, {})], <<"switch", "menu", "shot">>)
                      EXCEPT !.claims = {"menu"}], {"keys"}) EXCEPT
    !.most = 4, !.locked = {"Mod2"}, !.codes = {Tab, Escape, Return}, !.mods = {"Mod1", "Mod4"}]
Silent == [Keyboard EXCEPT !.start.xkb = FALSE, !.most = 3]

\* options of two plugins that share keys, buttons and edges; another client has a key
Shared == [Session([Start([a |-> "key", b |-> "key", c |-> "button", d |-> "edge"],
                          [a |-> "core", b |-> "p", c |-> "p", d |-> "q"],
                          [a |-> Key(Tab, {"Alt"}), b |-> Key(Tab, {"Alt"}),
                           c |-> Button(1, {"Alt"}, {}), d |-> Edge({"Top"})],
                          <<"a", "b", "c", "d">>)
                    EXCEPT !.foreign = {<<Escape, {"Mod1", "Mod2"}>>}],
                   {"set", "plugins", "mapping"}) EXCEPT
    !.most = 3, !.masks = {Swapped, NoSuper},
    !.values = [a |-> {Key(Tab, {"Mod1"}), Key(Tab, {"Super"}), Key(0, {})},
                b |-> {Key(Escape, {"Alt"}), Key(0, {})},
                c |-> {Button(1, {"Alt"}, {"Top"}), Button(1, {"Super"}, {})},
                d |-> {Edge({"Top", "TopLeft"}), Edge({})}]]

\* edges with and without delay, buttons there, drags
Edges == [Session([Start([e |-> "edge", f |-> "edge", g |-> "button"],
                         [e |-> "p", f |-> "p", g |-> "p"],
                         [e |-> Edge({"Top"}), f |-> Edge({"Top", "TopLeft"}),
                          g |-> Button(1, {}, {"TopLeft"})], <<"e", "f", "g">>)
                   EXCEPT !.delay = TRUE, !.noDelay = {"f"}],
                  {"pointer", "buttons", "dnd", "set"}) EXCEPT
    !.most = 4, !.buttons = {1}, !.values = [e |-> {Edge({})}]]
Undelayed == [Edges EXCEPT !.start.delay = FALSE, !.start.claims = {"e"}]

MCSessions == {Keyboard, Silent, Shared, Edges, Undelayed}

\* These sessions are of those the theorem on GrabsAgree is about.
ASSUME SessionsApart == KeysApart
=============================================================================
